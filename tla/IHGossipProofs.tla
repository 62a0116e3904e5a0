--------------------------- MODULE IHGossipProofs ---------------------------
(***************************************************************************)
(* Proofs about the info-hash gossip, for any peers, info-hashes and       *)
(* bounds.                                                                 *)
(*                                                                         *)
(* CurrentDelivered speaks only of quiescent states, so it is not          *)
(* inductive: the steps that lead to a quiescent state must already have   *)
(* done the delivery.  IInv says, of every bs_metadata peer in every       *)
(* state, that it has been sent the current info-hash and revision, or     *)
(* that one of the two goroutines still owes it that message: SetCurrent   *)
(* is between its assignments or has the peer left to broadcast to, or    *)
(* the loop is answering the peer's handshake with the current hash.       *)
(***************************************************************************)
EXTENDS IHGossip, TLAPS

\* p has been sent an IH message with the current info-hash and revision.
Delivered(p) ==
    \E i \in DOMAIN out[p] : out[p][i].ih = currentIH /\ out[p][i].rev = rev

\* A goroutine is on its way to send p the current info-hash and revision.
Owed(p) ==
    \/ app.pc = "rev"
    \/ app.pc = "bcast" /\ p \in app.todo
    \/ loop.peer = p /\ loop.pc = "read"
    \/ loop.peer = p /\ loop.pc = "send" /\ loop.ih = currentIH

\* The inductive invariant.
IInv ==
    /\ TypeOK
    /\ app.pc # "idle" => app.ih = currentIH /\ currentIH \in IH
    /\ \A p \in Peer : ext[p] = "bs" => Delivered(p) \/ Owed(p)

-----------------------------------------------------------------------------
\* Appending to a peer's queue keeps every message already sent.
LEMMA AppendKeeps ==
    ASSUME NEW S, NEW s \in Seq(S), NEW x \in S
    PROVE  /\ Append(s, x) \in Seq(S)
           /\ \A i \in DOMAIN s : i \in DOMAIN Append(s, x) /\ Append(s, x)[i] = s[i]
           /\ Len(Append(s, x)) \in DOMAIN Append(s, x)
           /\ Append(s, x)[Len(Append(s, x))] = x
OBVIOUS

\* A message ihMessage builds is a message.
LEMMA ihMessageType ==
    ASSUME TypeOK, NEW ih \in IH \cup {NoIH}, NEW p \in Peer
    PROVE  ihMessage(ih, p) \in Msg
BY DEF TypeOK, ihMessage, Msg

LEMMA InitIInv == Init => IInv
<1> SUFFICES ASSUME Init PROVE IInv
  OBVIOUS
<1>1. TypeOK
  BY IHGossipAssumption DEF Init, TypeOK, Rev0, Rev, Ext
<1>. QED  BY <1>1 DEF Init, IInv

LEMMA NextIInv == IInv /\ [Next]_vars => IInv'
<1> SUFFICES ASSUME IInv, [Next]_vars PROVE IInv'
  OBVIOUS
<1> USE IHGossipAssumption
<1>. TypeOK
  BY DEF IInv
<1>1. ASSUME NEW q \in Peer, DoHandshake(q) PROVE IInv'
  <2>1. TypeOK'
    <3>1. PICK bs \in BOOLEAN :
            loop' = [loop EXCEPT !.pc = "fill", !.peer = q, !.bs = bs]
      BY <1>1 DEF DoHandshake
    <3>2. loop' \in [pc : {"idle", "fill", "read", "send"}, peer : Peer,
                     bs : BOOLEAN, ih : IH \cup {NoIH}]
      BY <3>1 DEF TypeOK
    <3>3. hsLeft' \in [Peer -> 0..MaxHandshakes]
      BY <1>1 DEF DoHandshake, TypeOK
    <3>. QED  BY <1>1, <3>2, <3>3 DEF DoHandshake, TypeOK, Ext
  <2>2. \A p \in Peer : ext'[p] = "bs" => Delivered(p)' \/ Owed(p)'
    BY <1>1 DEF IInv, DoHandshake, Delivered, Owed, TypeOK
  <2>. QED  BY <1>1, <2>1, <2>2 DEF IInv, DoHandshake
<1>2. ASSUME NEW q \in Peer, broadcastOne(q) PROVE IInv'
  <2>1. TypeOK'
    BY <1>2, ihMessageType, AppendKeeps DEF broadcastOne, TypeOK, IInv
  <2>2. ASSUME NEW p \in Peer, ext'[p] = "bs" PROVE Delivered(p)' \/ Owed(p)'
    <3>1. CASE p = q
      <4>. DEFINE msg == ihMessage(app.ih, q)
      <4>1. msg \in Msg /\ msg.ih = currentIH /\ msg.rev = rev
        BY <1>2, ihMessageType DEF IInv, ihMessage, broadcastOne
      <4>2. out'[q] = Append(out[q], msg)
        BY <1>2, <2>2, <3>1 DEF broadcastOne, TypeOK
      <4>3. out[q] \in Seq(Msg)
        BY DEF TypeOK
      <4>4. Len(out'[q]) \in DOMAIN out'[q] /\ out'[q][Len(out'[q])] = msg
        BY <4>1, <4>2, <4>3, AppendKeeps
      <4>. QED  BY <1>2, <3>1, <4>1, <4>4 DEF Delivered, broadcastOne
    <3>2. CASE p # q
      <4>1. out'[p] = out[p] /\ ext[p] = "bs"
        BY <1>2, <2>2, <3>2 DEF broadcastOne, TypeOK
      <4>2. Delivered(p) => Delivered(p)'
        BY <1>2, <4>1 DEF broadcastOne, Delivered
      <4>3. Owed(p) => Owed(p)'
        BY <1>2, <3>2 DEF broadcastOne, Owed, TypeOK
      <4>. QED  BY <4>1, <4>2, <4>3 DEF IInv
    <3>. QED  BY <3>1, <3>2
  <2>. QED  BY <1>2, <2>1, <2>2 DEF IInv, broadcastOne
<1>3. CASE FillExtensions
  <2>1. TypeOK'
    BY <1>3 DEF FillExtensions, TypeOK, Ext
  <2>2. \A p \in Peer : ext'[p] = "bs" => Delivered(p)' \/ Owed(p)'
    BY <1>3 DEF IInv, FillExtensions, Delivered, Owed, TypeOK
  <2>. QED  BY <1>3, <2>1, <2>2 DEF IInv, FillExtensions
<1>4. CASE ReadCurrent
  <2>1. TypeOK'
    BY <1>4 DEF ReadCurrent, TypeOK
  <2>2. \A p \in Peer : ext'[p] = "bs" => Delivered(p)' \/ Owed(p)'
    BY <1>4 DEF IInv, ReadCurrent, Delivered, Owed, TypeOK
  <2>. QED  BY <1>4, <2>1, <2>2 DEF IInv, ReadCurrent
<1>5. CASE SendIH
  <2>1. TypeOK'
    BY <1>5, ihMessageType, AppendKeeps DEF SendIH, TypeOK
  <2>2. ASSUME NEW p \in Peer, ext'[p] = "bs" PROVE Delivered(p)' \/ Owed(p)'
    <3>1. CASE p = loop.peer
      <4>. DEFINE msg == ihMessage(loop.ih, loop.peer)
      <4>1. msg \in Msg /\ msg.ih = loop.ih /\ msg.rev = rev
        BY ihMessageType DEF TypeOK, ihMessage
      <4>2. out'[p] = Append(out[p], msg)
        BY <1>5, <3>1 DEF SendIH, TypeOK
      <4>3. CASE loop.ih = currentIH
        BY <1>5, <2>2, <4>1, <4>2, <4>3, AppendKeeps DEF Delivered, TypeOK, SendIH
      <4>4. CASE loop.ih # currentIH
        <5>1. Delivered(p) \/ app.pc = "rev" \/ (app.pc = "bcast" /\ p \in app.todo)
          BY <1>5, <2>2, <4>4 DEF IInv, Owed, SendIH
        <5>. QED  BY <1>5, <5>1, <4>1, <4>2, AppendKeeps DEF Delivered, Owed, TypeOK, SendIH
      <4>. QED  BY <4>3, <4>4
    <3>2. CASE p # loop.peer
      BY <1>5, <2>2, <3>2, AppendKeeps, ihMessageType DEF IInv, SendIH, Delivered, Owed, TypeOK
    <3>. QED  BY <3>1, <3>2
  <2>. QED  BY <1>5, <2>1, <2>2 DEF IInv, SendIH
<1>6. ASSUME NEW ih \in IH, SetCurrentIH(ih) PROVE IInv'
  <2>1. TypeOK'
    <3>1. app' \in [pc : {"idle", "rev", "bcast"}, ih : IH \cup {NoIH},
                    todo : SUBSET Peer]
      BY <1>6 DEF SetCurrentIH, TypeOK
    <3>2. setsLeft' \in 0..MaxSet
      BY <1>6 DEF SetCurrentIH, TypeOK
    <3>. QED  BY <1>6, <3>1, <3>2 DEF SetCurrentIH, TypeOK
  <2>. QED  BY <1>6, <2>1 DEF IInv, SetCurrentIH, Owed
<1>7. CASE SetCurrentRev
  <2>1. TypeOK'
    <3>1. rev' \in Rev
      <4>1. app.ih \in IH /\ rev \in Rev
        BY <1>7 DEF IInv, SetCurrentRev, TypeOK
      <4>2. <<app.ih>> \o rev.h \in Seq(IH) /\ rev.n + 1 \in Nat
        BY <4>1 DEF Rev
      <4>. QED  BY <1>7, <4>2 DEF SetCurrentRev, Rev
    <3>2. app' \in [pc : {"idle", "rev", "bcast"}, ih : IH \cup {NoIH},
                    todo : SUBSET Peer]
      BY <1>7 DEF SetCurrentRev, TypeOK
    <3>. QED  BY <1>7, <3>1, <3>2 DEF SetCurrentRev, TypeOK
  <2>. QED  BY <1>7, <2>1 DEF IInv, SetCurrentRev, Owed
<1>8. CASE broadcastDone
  <2>1. TypeOK'
    BY <1>8 DEF broadcastDone, TypeOK
  <2>2. \A p \in Peer : ext'[p] = "bs" => Delivered(p)' \/ Owed(p)'
    BY <1>8 DEF IInv, broadcastDone, Delivered, Owed
  <2>. QED  BY <1>8, <2>1, <2>2 DEF IInv, broadcastDone
<1>9. CASE UNCHANGED vars
  BY <1>9 DEF vars, IInv, TypeOK, Delivered, Owed
<1>. QED  BY <1>1, <1>2, <1>3, <1>4, <1>5, <1>6, <1>7, <1>8, <1>9 DEF Next

\* The inductive invariant holds in every reachable state.
THEOREM IInvariant == Spec => []IInv
BY InitIInv, NextIInv, PTL DEF Spec

\* The gossip model is type correct for every peer set, info-hashes and
\* bounds.
THEOREM TypeCorrect == Spec => []TypeOK
BY IInvariant, PTL DEF IInv

\* Whatever the interleaving of SetCurrent on the application goroutine and
\* DoHandshake on the event loop, once both are idle every peer that
\* advertised bs_metadata has been sent the current info-hash and rev.
THEOREM CurrentIsDelivered == Spec => []CurrentDelivered
<1>1. IInv => CurrentDelivered
  BY DEF IInv, CurrentDelivered, Quiescent, Delivered, Owed
<1>. QED  BY <1>1, IInvariant, PTL
=============================================================================
