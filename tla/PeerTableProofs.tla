-------------------------- MODULE PeerTableProofs --------------------------
(***************************************************************************)
(* Proofs about PeerTable for every value of its constants: the type       *)
(* invariant and NoDeadEntry, both from the inductive invariant IInv.      *)
(***************************************************************************)
EXTENDS PeerTable, TLAPS

USE PeerTableAssumption

\* The initial state satisfies the inductive invariant.
LEMMA InitIInv == Init => IInv
BY DEF Init, IInv, TypeOK, PC, Ids

\* A step of a setup goroutine that is past its start and not yet done:
\* it moves its own program counter and may open or close its connection or
\* record the remote id, and touches neither the table nor any task.
LEMMA SetupStepIInv ==
    ASSUME IInv, NEW c \in Conn, pc[c] \notin {"idle", "done"},
           NEW v \in PC \ {"idle"},
           pc' = [pc EXCEPT ![c] = v],
           open' \in [Conn -> BOOLEAN],
           cid' \in [Conn -> Ids \cup {NoId}],
           peers' = peers, caddr' = caddr, tasks' = tasks
    PROVE  IInv'
<1>1. TypeOK'
  BY DEF IInv, TypeOK
<1>2. \A x \in Conn : pc'[x] # "idle" => caddr'[x] \in Addr
  BY DEF IInv, TypeOK
<1>3. \A x \in Conn : pc'[x] # "done" => tasks'[x] = {}
  BY DEF IInv, TypeOK
<1>4. \A a \in Addr : peers'[a] # NoConn =>
          /\ caddr'[peers'[a]] = a
          /\ pc'[peers'[a]] = "done"
          /\ tasks'[peers'[a]] # {}
  BY DEF IInv, TypeOK
<1>5. QED
  BY <1>1, <1>2, <1>3, <1>4 DEF IInv

\* A loop step that calls ClosePeer(c) and at most stops tasks of c: the
\* entry under c's address goes, and with it any entry that could lose its
\* last task.
LEMMA ClosePeerIInv ==
    ASSUME IInv, NEW c \in Conn, caddr[c] \in Addr, ClosePeer(c),
           tasks' \in [Conn -> SUBSET Task],
           \A x \in Conn \ {c} : tasks'[x] = tasks[x],
           tasks'[c] \subseteq tasks[c],
           pc' = pc, caddr' = caddr, cid' = cid
    PROVE  IInv'
<1>1. /\ open' \in [Conn -> BOOLEAN]
      /\ peers' \in [Addr -> Conn \cup {NoConn}]
      /\ \A a \in Addr : peers'[a] = IF a = caddr[c] THEN NoConn ELSE peers[a]
  BY DEF IInv, TypeOK, ClosePeer
<1>2. TypeOK'
  BY <1>1 DEF IInv, TypeOK
<1>3. \A x \in Conn : pc'[x] # "idle" => caddr'[x] \in Addr
  BY DEF IInv
<1>4. \A x \in Conn : pc'[x] # "done" => tasks'[x] = {}
  BY DEF IInv, TypeOK
<1>5. ASSUME NEW a \in Addr, peers'[a] # NoConn
      PROVE  /\ caddr'[peers'[a]] = a
             /\ pc'[peers'[a]] = "done"
             /\ tasks'[peers'[a]] # {}
  <2>1. a # caddr[c] /\ peers'[a] = peers[a] /\ peers[a] # NoConn
    BY <1>1, <1>5
  <2>2. peers[a] # c
    BY <2>1 DEF IInv
  <2>3. QED
    BY <2>1, <2>2 DEF IInv, TypeOK
<1>6. QED
  BY <1>2, <1>3, <1>4, <1>5 DEF IInv

\* Every step of Next preserves the inductive invariant.
LEMMA NextIInv == IInv /\ [Next]_vars => IInv'
<1> SUFFICES ASSUME IInv, [Next]_vars PROVE IInv'
  OBVIOUS
<1>1. ASSUME NEW a \in Addr, hintNewPeer(a) PROVE IInv'
  BY <1>1 DEF hintNewPeer, IInv, TypeOK, PC
<1>2. ASSUME NEW a \in Addr, DhtPeers(a) \/ TrackerPeers(a) PROVE IInv'
  BY <1>1, <1>2 DEF DhtPeers, TrackerPeers
<1>3. ASSUME NEW c \in Conn, connectToPeer(c) PROVE IInv'
  <2>1. \E v \in PC \ {"idle"} : pc' = [pc EXCEPT ![c] = v]
    BY <1>3 DEF connectToPeer, PC
  <2>2. open' \in [Conn -> BOOLEAN]
    BY <1>3 DEF connectToPeer, IInv, TypeOK
  <2>3. cid' \in [Conn -> Ids \cup {NoId}]
    <3>1. cid' = cid \/ \E id \in Ids : cid' = [cid EXCEPT ![c] = id]
      BY <1>3 DEF connectToPeer, Ids
    <3>2. QED
      BY <3>1 DEF IInv, TypeOK
  <2>4. QED
    BY <1>3, <2>1, <2>2, <2>3, SetupStepIInv DEF connectToPeer
<1>4. ASSUME NEW c \in Conn, AcceptNewPeer(c) PROVE IInv'
  BY <1>4 DEF AcceptNewPeer, IInv, TypeOK, PC, Ids
<1>5. ASSUME NEW c \in Conn, AddPeerCheck(c) PROVE IInv'
  <2>1. \E v \in PC \ {"idle"} : pc' = [pc EXCEPT ![c] = v]
    BY <1>5 DEF AddPeerCheck, PC
  <2>2. open' \in [Conn -> BOOLEAN]
    BY <1>5 DEF AddPeerCheck, IInv, TypeOK
  <2>3. QED
    BY <1>5, <2>1, <2>2, SetupStepIInv DEF AddPeerCheck, IInv, TypeOK
<1>6. ASSUME NEW c \in Conn, AddPeerInsert(c) PROVE IInv'
  BY <1>6 DEF AddPeerInsert, IInv, TypeOK, PC, Task
<1>7. ASSUME NEW c \in Conn, NEW t \in Task, PeerEOF(c, t) PROVE IInv'
  <2>1. caddr[c] \in Addr
    BY <1>7 DEF PeerEOF, IInv, TypeOK
  <2>2. tasks' \in [Conn -> SUBSET Task]
    BY <1>7 DEF PeerEOF, IInv, TypeOK
  <2>3. QED
    BY <1>7, <2>1, <2>2, ClosePeerIInv DEF PeerEOF
<1>8. ASSUME NEW c \in Conn, PeerError(c) PROVE IInv'
  <2>1. caddr[c] \in Addr
    BY <1>8 DEF PeerError, IInv, TypeOK
  <2>2. QED
    BY <1>8, <2>1, ClosePeerIInv DEF PeerError, IInv, TypeOK
<1>9. ASSUME NEW c \in Conn, KeepAliveTimeout(c) PROVE IInv'
  <2>1. caddr[c] \in Addr
    BY <1>9 DEF KeepAliveTimeout, Admitted, InTable, IInv, TypeOK
  <2>2. QED
    BY <1>9, <2>1, ClosePeerIInv DEF KeepAliveTimeout, IInv, TypeOK
<1>10. ASSUME NEW c \in Conn, ConnLost(c) PROVE IInv'
  BY <1>10 DEF ConnLost, IInv, TypeOK
<1>11. ASSUME NEW c \in Conn, Recycle(c) PROVE IInv'
  BY <1>11 DEF Recycle, Admitted, InTable, IInv, TypeOK, PC
<1>12. CASE UNCHANGED vars
  BY <1>12 DEF vars, IInv, TypeOK
<1>13. QED
  BY <1>2, <1>3, <1>4, <1>5, <1>6, <1>7, <1>8, <1>9, <1>10, <1>11, <1>12
     DEF Next

\* IInv holds in every reachable state.
THEOREM IInvariant == Spec => []IInv
BY InitIInv, NextIInv, PTL DEF Spec

\* Type correctness of the peer table model.
THEOREM TypeCorrect == Spec => []TypeOK
BY IInvariant, PTL DEF IInv

\* No table entry outlives both tasks of its peer (Run's EOF path removes it).
THEOREM DeadEntriesRemoved == Spec => []NoDeadEntry
<1>1. IInv => NoDeadEntry
  BY DEF IInv, NoDeadEntry, InTable
<1>2. QED
  BY <1>1, IInvariant, PTL
=============================================================================
