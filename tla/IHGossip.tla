------------------------------ MODULE IHGossip ------------------------------
(***************************************************************************)
(* The bs_metadata replication of the current info-hash.                   *)
(*                                                                         *)
(* Two goroutines share cs.currentIH, cs.rev and every ps.theirExtensions: *)
(*  - the event loop Run(), which handles a peer's extension handshake in  *)
(*    DoHandshake and answers it with ihMessage(cs.currentIH, p);          *)
(*  - the application goroutine, which calls SetCurrent(ih): it assigns    *)
(*    cs.currentIH, then cs.rev, saves the marker file and broadcasts to   *)
(*    every peer whose extension table holds bs_metadata.  (Run never      *)
(*    calls SetCurrent; its caller runs elsewhere.)                        *)
(* Each statement that reads or writes shared state is its own step.  The *)
(* peers are fixed here; PeerTable models how the table changes.  Each    *)
(* peer's outbound queue records the IH messages sent to it, in order.    *)
(* sha1(ih + oldhash) is modelled by what matters of it, an injective     *)
(* chain: the hash is the sequence of info-hashes set, newest first.      *)
(***************************************************************************)
EXTENDS Naturals, Sequences

CONSTANTS
    Peer,           \* the connected peers
    IH,             \* info-hashes the application may set
    NoIH,           \* the empty info-hash ""
    MaxSet,         \* bound on SetCurrent calls
    MaxHandshakes   \* bound on extension handshakes per peer

ASSUME IHGossipAssumption ==
    /\ Peer # {}
    /\ NoIH \notin IH
    /\ MaxSet \in Nat
    /\ MaxHandshakes \in Nat

\* A revision "<counter>-<hash>".
Rev == [n : Nat, h : Seq(IH)]

\* The revision "0-" a session starts from without a saved marker.
Rev0 == [n |-> 0, h |-> <<>>]

\* An IH message queued to a peer: the extension code it is sent under
\* (the peer's code for bs_metadata, or 0 when it has none), the info-hash
\* and the revision.
Msg == [code : {"bs", "zero"}, ih : IH \cup {NoIH}, rev : Rev]

\* ps.theirExtensions: nil before any handshake, the fresh empty map of
\* DoHandshake, or filled with or without bs_metadata.
Ext == {"nil", "empty", "bs", "nobs"}

VARIABLES
    currentIH,  \* cs.currentIH
    rev,        \* cs.rev
    saved,      \* the marker file {bitshareDir}/current
    ext,        \* ps.theirExtensions of each peer
    out,        \* IH messages sent to each peer
    hsLeft,     \* extension handshakes each peer may still send
    setsLeft,   \* SetCurrent calls the application may still make
    loop,       \* the event loop inside DoHandshake
    app         \* the application goroutine inside SetCurrent

vars == <<currentIH, rev, saved, ext, out, hsLeft, setsLeft, loop, app>>

\* The IH message ihMessage builds for p from the given hash and cs.rev.
ihMessage(ih, p) ==
    [code |-> IF ext[p] = "bs" THEN "bs" ELSE "zero", ih |-> ih, rev |-> rev]

-----------------------------------------------------------------------------
Init ==
    /\ currentIH = NoIH
    /\ rev = Rev0
    /\ saved = [ih |-> NoIH, rev |-> Rev0]
    /\ ext = [p \in Peer |-> "nil"]
    /\ out = [p \in Peer |-> <<>>]
    /\ hsLeft = [p \in Peer |-> MaxHandshakes]
    /\ setsLeft = MaxSet
    /\ loop = [pc |-> "idle", peer |-> CHOOSE p \in Peer : TRUE,
               bs |-> FALSE, ih |-> NoIH]
    /\ app = [pc |-> "idle", ih |-> NoIH, todo |-> {}]

\* DoHandshake, decode and p.theirExtensions = make(map[string]int).
\* The handshake's m may or may not name bs_metadata.
DoHandshake(p) ==
    /\ loop.pc = "idle"
    /\ hsLeft[p] > 0
    /\ hsLeft' = [hsLeft EXCEPT ![p] = @ - 1]
    /\ ext' = [ext EXCEPT ![p] = "empty"]
    /\ \E bs \in BOOLEAN :
         loop' = [loop EXCEPT !.pc = "fill", !.peer = p, !.bs = bs]
    /\ UNCHANGED <<currentIH, rev, saved, out, setsLeft, app>>

\* DoHandshake, copying h.M into p.theirExtensions.
FillExtensions ==
    /\ loop.pc = "fill"
    /\ ext' = [ext EXCEPT ![loop.peer] = IF loop.bs THEN "bs" ELSE "nobs"]
    /\ loop' = [loop EXCEPT !.pc = "read"]
    /\ UNCHANGED <<currentIH, rev, saved, out, hsLeft, setsLeft, app>>

\* DoHandshake, evaluating the argument cs.currentIH of ihMessage.
ReadCurrent ==
    /\ loop.pc = "read"
    /\ loop' = [loop EXCEPT !.pc = "send", !.ih = currentIH]
    /\ UNCHANGED <<currentIH, rev, saved, ext, out, hsLeft, setsLeft, app>>

\* DoHandshake, ihMessage (reads cs.rev and the peer's code) and sendMessage.
SendIH ==
    /\ loop.pc = "send"
    /\ out' = [out EXCEPT ![loop.peer] =
                 Append(@, ihMessage(loop.ih, loop.peer))]
    /\ loop' = [loop EXCEPT !.pc = "idle"]
    /\ UNCHANGED <<currentIH, rev, saved, ext, hsLeft, setsLeft, app>>

\* SetCurrent, cs.currentIH = ih.
SetCurrentIH(ih) ==
    /\ app.pc = "idle"
    /\ setsLeft > 0
    /\ setsLeft' = setsLeft - 1
    /\ currentIH' = ih
    /\ app' = [app EXCEPT !.pc = "rev", !.ih = ih]
    /\ UNCHANGED <<rev, saved, ext, out, hsLeft, loop>>

\* Mutant of SetCurrentRev: the counter decremented.
SetCurrentRevDown ==
    /\ app.pc = "rev"
    /\ rev' = [n |-> rev.n - 1, h |-> <<app.ih>> \o rev.h]
    /\ saved' = [ih |-> currentIH, rev |-> rev']
    /\ app' = [app EXCEPT !.pc = "bcast", !.todo = Peer]
    /\ UNCHANGED <<currentIH, ext, out, hsLeft, setsLeft, loop>>

\* SetCurrent, the new revision: counter + 1 and sha1(ih + old hash); then
\* the marker file is overwritten with the new IHMessage.
SetCurrentRev ==
    /\ app.pc = "rev"
    /\ rev' = [n |-> rev.n + 1, h |-> <<app.ih>> \o rev.h]
    /\ saved' = [ih |-> currentIH, rev |-> rev']
    /\ app' = [app EXCEPT !.pc = "bcast", !.todo = Peer]
    /\ UNCHANGED <<currentIH, ext, out, hsLeft, setsLeft, loop>>

\* Mutant of broadcastOne: the bs_metadata test inverted.
broadcastOneInverted(p) ==
    /\ app.pc = "bcast"
    /\ p \in app.todo
    /\ out' = IF ext[p] = "bs" THEN out
              ELSE [out EXCEPT ![p] = Append(@, ihMessage(app.ih, p))]
    /\ app' = [app EXCEPT !.todo = @ \ {p}]
    /\ UNCHANGED <<currentIH, rev, saved, ext, hsLeft, setsLeft, loop>>

\* broadcast, one iteration: a peer without bs_metadata is skipped, any
\* other is sent ihMessage(ih, ps).
broadcastOne(p) ==
    /\ app.pc = "bcast"
    /\ p \in app.todo
    /\ out' = IF ext[p] = "bs"
              THEN [out EXCEPT ![p] = Append(@, ihMessage(app.ih, p))]
              ELSE out
    /\ app' = [app EXCEPT !.todo = @ \ {p}]
    /\ UNCHANGED <<currentIH, rev, saved, ext, hsLeft, setsLeft, loop>>

\* broadcast has visited every peer: SetCurrent returns.
broadcastDone ==
    /\ app.pc = "bcast"
    /\ app.todo = {}
    /\ app' = [app EXCEPT !.pc = "idle"]
    /\ UNCHANGED <<currentIH, rev, saved, ext, out, hsLeft, setsLeft, loop>>

Next ==
    \/ \E p \in Peer : DoHandshake(p) \/ broadcastOne(p)
    \/ FillExtensions \/ ReadCurrent \/ SendIH
    \/ \E ih \in IH : SetCurrentIH(ih)
    \/ SetCurrentRev \/ broadcastDone

Spec == Init /\ [][Next]_vars

-----------------------------------------------------------------------------
TypeOK ==
    /\ currentIH \in IH \cup {NoIH}
    /\ rev \in Rev
    /\ saved \in [ih : IH \cup {NoIH}, rev : Rev]
    /\ ext \in [Peer -> Ext]
    /\ out \in [Peer -> Seq(Msg)]
    /\ hsLeft \in [Peer -> 0..MaxHandshakes]
    /\ setsLeft \in 0..MaxSet
    /\ loop \in [pc : {"idle", "fill", "read", "send"}, peer : Peer,
                 bs : BOOLEAN, ih : IH \cup {NoIH}]
    /\ app \in [pc : {"idle", "rev", "bcast"}, ih : IH \cup {NoIH},
                todo : SUBSET Peer]

\* Neither goroutine is inside DoHandshake or SetCurrent.
Quiescent == loop.pc = "idle" /\ app.pc = "idle"

\* Whatever the interleaving of SetCurrent and DoHandshake, once both are
\* done every peer that advertised bs_metadata has been sent the current
\* info-hash with the current revision.
CurrentDelivered ==
    Quiescent =>
        \A p \in Peer : ext[p] = "bs" =>
            \E i \in DOMAIN out[p] :
                out[p][i].ih = currentIH /\ out[p][i].rev = rev

\* Once both are done, the last IH message sent to every bs_metadata peer
\* carries the current info-hash and revision (what the peer ends up told).
LastIHCurrent ==
    Quiescent =>
        \A p \in Peer : ext[p] = "bs" =>
            /\ out[p] # <<>>
            /\ out[p][Len(out[p])].ih = currentIH
            /\ out[p][Len(out[p])].rev = rev

=============================================================================
