----------------------------- MODULE PeerTable -----------------------------
(***************************************************************************)
(* The peer table of the control session (ControlSession.peers) and the   *)
(* goroutines that change it.                                              *)
(*                                                                         *)
(*  - the event loop Run(): spawns connectToPeer for addresses reported by *)
(*    the DHT or the tracker, receives peer messages (the nil sentinel of  *)
(*    a dead reader or writer included) and closes peers on errors and    *)
(*    keep-alive timeouts;                                                 *)
(*  - one connector goroutine per connection: connectToPeer for outbound,  *)
(*    AcceptNewPeer for inbound connections, both ending in AddPeer, which *)
(*    runs on the connector goroutine, not on the loop;                    *)
(*  - the reader and writer task of every admitted peer.                   *)
(*                                                                         *)
(* A connection is a model value of Conn.  AddPeer is split where another *)
(* goroutine can interleave: its checks (dedupe by id, peer cap) and its   *)
(* insertion are two steps.  Each Go map operation is one atomic step.     *)
(***************************************************************************)
EXTENDS Naturals, FiniteSets

CONSTANTS
    Conn,           \* connection identities (model values)
    Addr,           \* remote addresses "ip:port"
    PeerId,         \* peer ids a remote may present
    OurId,          \* cs.PeerID, our own peer id
    MAX_NUM_PEERS,  \* the peer cap of AddPeer
    NoConn,         \* "no entry" in the peer table
    NoAddr,         \* address of a connection not yet in use
    NoId            \* peer id of a connection whose header is not read

ASSUME PeerTableAssumption ==
    /\ MAX_NUM_PEERS \in Nat \ {0}
    /\ OurId \notin PeerId
    /\ NoConn \notin Conn
    /\ NoAddr \notin Addr
    /\ NoId \notin PeerId \cup {OurId}

\* Ids a handshake may carry: a remote connected to itself presents OurId.
Ids == PeerId \cup {OurId}

\* The two tasks NewPeerState starts for an admitted peer.
Task == {"reader", "writer"}

\* Program counter of the goroutine that sets a connection up.
\*   idle      identity unused
\*   connect   connectToPeer spawned, dial and handshake not yet done
\*   addpeer   AddPeer about to run its checks
\*   insert    AddPeer passed its checks, about to insert
\*   done      setup goroutine returned (admitted or not)
PC == {"idle", "connect", "addpeer", "insert", "done"}

VARIABLES
    peers,   \* cs.peers: address -> the peerState stored under it
    pc,      \* setup goroutine of each connection
    open,    \* the TCP connection is open on our side
    caddr,   \* conn.RemoteAddr(), ps.address
    cid,     \* the peer id read from the remote's handshake
    tasks    \* reader and writer goroutines still running

vars == <<peers, pc, open, caddr, cid, tasks>>

\* The addresses that have an entry in the table.
InTable == {a \in Addr : peers[a] # NoConn}

\* The connections stored in the table.
Admitted == {peers[a] : a \in InTable}

-----------------------------------------------------------------------------
Init ==
    /\ peers = [a \in Addr |-> NoConn]
    /\ pc = [c \in Conn |-> "idle"]
    /\ open = [c \in Conn |-> FALSE]
    /\ caddr = [c \in Conn |-> NoAddr]
    /\ cid = [c \in Conn |-> NoId]
    /\ tasks = [c \in Conn |-> {}]

\* Mutant of ClosePeer: the connection is closed but the entry is kept.
ClosePeerNoDelete(c) ==
    /\ open' = [open EXCEPT ![c] = FALSE]
    /\ UNCHANGED peers

\* Mutant of ClosePeer: cs.peers[peer.address] = nil in place of delete.
ClosePeerAssignNil(c) ==
    /\ open' = [open EXCEPT ![c] = FALSE]
    /\ peers' = [peers EXCEPT ![caddr[c]] = "nil"]

\* ClosePeer: peer.Close() closes the connection, then the entry under the
\* peer's address is deleted, whichever peerState that entry holds.
ClosePeer(c) ==
    /\ open' = [open EXCEPT ![c] = FALSE]
    /\ peers' = [peers EXCEPT ![caddr[c]] = NoConn]

\* hintNewPeer: the loop spawns connectToPeer for an address that has no
\* entry in the table.  The new goroutine gets a fresh connection identity.
hintNewPeer(a) ==
    /\ peers[a] = NoConn
    /\ \E c \in Conn :
         /\ pc[c] = "idle"
         /\ pc' = [pc EXCEPT ![c] = "connect"]
         /\ caddr' = [caddr EXCEPT ![c] = a]
    /\ UNCHANGED <<peers, open, cid, tasks>>

\* Run, case dhtInfoHashPeers: every reported address not in the table.
DhtPeers(a) == hintNewPeer(a)

\* Run, case trackerInfoChan: the same for the tracker's peers and peers6.
TrackerPeers(a) == hintNewPeer(a)

\* connectToPeer: dial, write our header, read theirs.  A failed dial opens
\* nothing; a failed header write or read returns without conn.Close().  A
\* remote that presents our own id is closed.  Otherwise AddPeer follows.
connectToPeer(c) ==
    /\ pc[c] = "connect"
    /\ \/ /\ pc' = [pc EXCEPT ![c] = "done"]
          /\ UNCHANGED <<open, cid>>
       \/ /\ pc' = [pc EXCEPT ![c] = "done"]
          /\ open' = [open EXCEPT ![c] = TRUE]
          /\ UNCHANGED cid
       \/ /\ cid' = [cid EXCEPT ![c] = OurId]
          /\ pc' = [pc EXCEPT ![c] = "done"]
          /\ UNCHANGED open
       \/ \E id \in PeerId :
            /\ cid' = [cid EXCEPT ![c] = id]
            /\ pc' = [pc EXCEPT ![c] = "addpeer"]
            /\ open' = [open EXCEPT ![c] = TRUE]
    /\ UNCHANGED <<peers, caddr, tasks>>

\* AcceptNewPeer: the listener hands over an inbound connection whose header
\* it has read (any address, any id: there is no self check on this path).
\* If writing our header fails the function returns without closing.
AcceptNewPeer(c) ==
    /\ pc[c] = "idle"
    /\ \E a \in Addr, id \in Ids :
         /\ caddr' = [caddr EXCEPT ![c] = a]
         /\ cid' = [cid EXCEPT ![c] = id]
         /\ open' = [open EXCEPT ![c] = TRUE]
         /\ \/ pc' = [pc EXCEPT ![c] = "done"]
            \/ pc' = [pc EXCEPT ![c] = "addpeer"]
    /\ UNCHANGED <<peers, tasks>>

\* AddPeer's dedupe test: a peer with this connection's id is in the table.
KnownId(c) == \E a \in InTable : cid[peers[a]] = cid[c]

\* AddPeer's cap test: len(cs.peers) >= MAX_NUM_PEERS.
TableFull == Cardinality(InTable) >= MAX_NUM_PEERS

\* AddPeer, its checks: a known id makes it return, leaving the new
\* connection open; a full table closes the connection; otherwise it goes on.
AddPeerCheck(c) ==
    /\ pc[c] = "addpeer"
    /\ \/ /\ KnownId(c)
          /\ pc' = [pc EXCEPT ![c] = "done"]
          /\ UNCHANGED open
       \/ /\ ~KnownId(c)
          /\ TableFull
          /\ pc' = [pc EXCEPT ![c] = "done"]
          /\ open' = [open EXCEPT ![c] = FALSE]
       \/ /\ ~KnownId(c)
          /\ ~TableFull
          /\ pc' = [pc EXCEPT ![c] = "insert"]
          /\ UNCHANGED open
    /\ UNCHANGED <<peers, caddr, cid, tasks>>

\* AddPeer, the rest: NewPeerState, cs.peers[peer] = ps, and the reader and
\* writer goroutines started.
AddPeerInsert(c) ==
    /\ pc[c] = "insert"
    /\ peers' = [peers EXCEPT ![caddr[c]] = c]
    /\ tasks' = [tasks EXCEPT ![c] = Task]
    /\ pc' = [pc EXCEPT ![c] = "done"]
    /\ UNCHANGED <<open, caddr, cid>>

\* Mutant of PeerEOF: the nil check of DoMessage placed after the
\* keep-alive check (len(nil) = 0), so the sentinel is taken for a keep-alive.
PeerEOFAsKeepAlive(c, t) ==
    /\ t \in tasks[c]
    /\ ~open[c]
    /\ tasks' = [tasks EXCEPT ![c] = @ \ {t}]
    /\ UNCHANGED <<peers, open, pc, caddr, cid>>

\* Run, case peerMessageChan with the nil sentinel of task t of a dead
\* connection: DoMessage returns io.EOF and the loop calls ClosePeer.
PeerEOF(c, t) ==
    /\ t \in tasks[c]
    /\ ~open[c]
    /\ tasks' = [tasks EXCEPT ![c] = @ \ {t}]
    /\ ClosePeer(c)
    /\ UNCHANGED <<pc, caddr, cid>>

\* Run, case peerMessageChan with a message DoMessage rejects (not an
\* EXTENSION, unknown extension, undecodable): the loop calls ClosePeer.
PeerError(c) ==
    /\ "reader" \in tasks[c]
    /\ open[c]
    /\ ClosePeer(c)
    /\ UNCHANGED <<pc, caddr, cid, tasks>>

\* Run, case keepAliveChan: a table entry idle for over 3 minutes is closed.
KeepAliveTimeout(c) ==
    /\ c \in Admitted
    /\ ClosePeer(c)
    /\ UNCHANGED <<pc, caddr, cid, tasks>>

\* The network: the remote closes, or a read or write fails.
ConnLost(c) ==
    /\ open[c]
    /\ open' = [open EXCEPT ![c] = FALSE]
    /\ UNCHANGED <<peers, pc, caddr, cid, tasks>>

\* A connection whose goroutines have all returned and that no table entry
\* holds is garbage; its identity is reused for a later connection.
Recycle(c) ==
    /\ pc[c] = "done"
    /\ ~open[c]
    /\ tasks[c] = {}
    /\ c \notin Admitted
    /\ pc' = [pc EXCEPT ![c] = "idle"]
    /\ caddr' = [caddr EXCEPT ![c] = NoAddr]
    /\ cid' = [cid EXCEPT ![c] = NoId]
    /\ UNCHANGED <<peers, open, tasks>>

Next ==
    \/ \E a \in Addr : DhtPeers(a) \/ TrackerPeers(a)
    \/ \E c \in Conn :
         \/ connectToPeer(c)
         \/ AcceptNewPeer(c)
         \/ AddPeerCheck(c)
         \/ AddPeerInsert(c)
         \/ PeerError(c)
         \/ KeepAliveTimeout(c)
         \/ ConnLost(c)
         \/ Recycle(c)
         \/ \E t \in Task : PeerEOF(c, t)

\* Go's select picks uniformly among ready cases, so a sentinel waiting on
\* peerMessageChan is eventually received by the loop.
Fairness == \A c \in Conn, t \in Task : WF_vars(PeerEOF(c, t))

Spec == Init /\ [][Next]_vars

FairSpec == Spec /\ Fairness

-----------------------------------------------------------------------------
TypeOK ==
    /\ peers \in [Addr -> Conn \cup {NoConn}]
    /\ pc \in [Conn -> PC]
    /\ open \in [Conn -> BOOLEAN]
    /\ caddr \in [Conn -> Addr \cup {NoAddr}]
    /\ cid \in [Conn -> Ids \cup {NoId}]
    /\ tasks \in [Conn -> SUBSET Task]

\* A table entry always belongs to a peer whose reader or writer still runs:
\* once both have delivered their nil sentinel to the loop, no entry holds the
\* dead peer (Run's EOF path, ClosePeer).
NoDeadEntry ==
    \A a \in InTable : tasks[peers[a]] # {}

\* A dead connection in the table is eventually removed from it (the loop
\* receives the sentinel and calls ClosePeer).
DeadPeerDropped ==
    \A c \in Conn :
        (c \in Admitted /\ ~open[c]) ~> (c \notin Admitted)

\* The peer cap of AddPeer: the table never holds more than MAX_NUM_PEERS.
PeerCap == Cardinality(InTable) <= MAX_NUM_PEERS

\* Inductive strengthening of TypeOK /\ NoDeadEntry: an entry is stored under
\* its own connection's address by a setup goroutine that has returned, and
\* tasks exist only for connections whose setup has returned.
IInv ==
    /\ TypeOK
    /\ \A c \in Conn : pc[c] # "idle" => caddr[c] \in Addr
    /\ \A c \in Conn : pc[c] # "done" => tasks[c] = {}
    /\ \A a \in Addr : peers[a] # NoConn =>
          /\ caddr[peers[a]] = a
          /\ pc[peers[a]] = "done"
          /\ tasks[peers[a]] # {}
=============================================================================
