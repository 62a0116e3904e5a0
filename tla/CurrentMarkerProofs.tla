------------------------- MODULE CurrentMarkerProofs -------------------------
(***************************************************************************)
(* Proofs about the saved current marker, for any info-hashes, counters    *)
(* and bound.                                                              *)
(*                                                                         *)
(* TypeOK is inductive.  The refinement of the register whose saves may be *)
(* lost needs nothing more: a restore reads the marker, a complete save    *)
(* writes the hash it sets, and every other way SetCurrent ends (a failed  *)
(* encode, a torn write, log.Fatal) leaves either no readable marker or    *)
(* the old one with the process stopped.  The proofs never need the digits *)
(* of a counter: a restore keeps or resets rev, and either is a revision.  *)
(***************************************************************************)
EXTENDS CurrentMarker, TLAPS

\* The invariant the proofs carry.
IInv == TypeOK

LEMMA InitIInv == Init => IInv
<1> SUFFICES ASSUME Init PROVE IInv
  OBVIOUS
<1>1. file \in {NoFile} \cup Marker
  <2>1. CASE file # NoFile
    <3>1. PICK i \in IH, k \in SavedRevs, t \in 0..2 :
                file = [ih |-> i, rev |-> [n |-> k, twos |-> t]]
      BY <2>1 DEF Init
    <3>2. k \in Nat
      BY CurrentMarkerAssumption
    <3>. QED  BY <3>1, <3>2 DEF Marker, Rev
  <2>. QED  BY <2>1
<1>2. Rev0 \in Rev
  BY DEF Rev0, Rev
<1>3. TypeOK
  BY <1>1, <1>2 DEF Init, TypeOK
<1>. QED  BY <1>3 DEF IInv

\* A revision SetCurrent computes from a revision is a revision.
LEMMA NextRevType ==
    ASSUME NEW r \in Rev, NEW ih \in IH, NEW t \in 0..2
    PROVE  NextRev(r, ih, t) \in Rev
BY DEF NextRev, Rev

LEMMA NextIInv == IInv /\ [Next]_vars => IInv'
<1> SUFFICES ASSUME IInv, [Next]_vars PROVE IInv'
  OBVIOUS
<1>1. CASE NewControlSession
  <2>1. rev' \in Rev
    BY <1>1 DEF NewControlSession, IInv, TypeOK, Marker, Rev0, Rev
  <2>. QED  BY <1>1, <2>1 DEF NewControlSession, IInv, TypeOK, Marker
<1>2. ASSUME NEW ih \in IH, SetCurrent(ih) PROVE IInv'
  <2>1. PICK t \in 0..2 : rev' = NextRev(rev, ih, t)
    BY <1>2 DEF SetCurrent
  <2>2. rev' \in Rev
    BY <2>1, NextRevType DEF IInv, TypeOK
  <2>3. file' \in Marker
    BY <1>2, <2>2 DEF SetCurrent, Marker
  <2>. QED  BY <1>2, <2>2, <2>3 DEF SetCurrent, IInv, TypeOK
<1>3. ASSUME NEW ih \in IH, SetCurrentEncodeFails(ih) PROVE IInv'
  <2>1. PICK t \in 0..2 : rev' = NextRev(rev, ih, t)
    BY <1>3 DEF SetCurrentEncodeFails
  <2>2. rev' \in Rev
    BY <2>1, NextRevType DEF IInv, TypeOK
  <2>. QED  BY <1>3, <2>2 DEF SetCurrentEncodeFails, IInv, TypeOK
<1>4. ASSUME NEW ih \in IH, SetCurrentTorn(ih) PROVE IInv'
  BY <1>4 DEF SetCurrentTorn, IInv, TypeOK
<1>5. CASE Crash
  BY <1>5 DEF Crash, IInv, TypeOK
<1>6. CASE UNCHANGED vars
  BY <1>6 DEF vars, IInv, TypeOK
<1>. QED  BY <1>1, <1>2, <1>3, <1>4, <1>5, <1>6 DEF Next

\* The marker model is type correct.
THEOREM TypeCorrect == Spec => []TypeOK
BY InitIInv, NextIInv, PTL DEF Spec, IInv

-----------------------------------------------------------------------------
\* The refinement of the persistent register.
LEMMA InitRegister == Init => Register!Init
<1> SUFFICES ASSUME Init PROVE Register!Init
  OBVIOUS
<1>1. file \in {NoFile} \cup Marker
  BY InitIInv DEF Init, IInv, TypeOK
<1>2. SavedIH \in IH \cup {NoIH}
  BY <1>1 DEF SavedIH, Marker
<1>. QED  BY <1>2 DEF Init, LiveIH, Register!Init

LEMMA NextRegister == IInv /\ [Next]_vars => [Register!Next]_Register!vars
<1> SUFFICES ASSUME IInv, [Next]_vars PROVE [Register!Next]_Register!vars
  OBVIOUS
<1> USE MarkerFileAssumption
<1>1. CASE NewControlSession
  BY <1>1 DEF NewControlSession, SavedIH, LiveIH, Register!Next, Register!Start
<1>2. ASSUME NEW ih \in IH, SetCurrent(ih) PROVE [Register!Next]_Register!vars
  <2>1. PICK t \in 0..2 : rev' = NextRev(rev, ih, t)
    BY <1>2 DEF SetCurrent
  <2>2. rev' \in Rev
    BY <2>1, NextRevType DEF IInv, TypeOK
  <2>3. file' \in Marker /\ file'.ih = ih
    BY <1>2, <2>2 DEF SetCurrent, Marker
  <2>4. Register!Set(ih)
    BY <1>2, <2>3 DEF SetCurrent, SavedIH, LiveIH, Register!Set, Register!Kept
  <2>. QED  BY <2>4 DEF Register!Next
<1>3. ASSUME NEW ih \in IH, SetCurrentEncodeFails(ih) PROVE [Register!Next]_Register!vars
  <2>1. Register!Set(ih)
    BY <1>3 DEF SetCurrentEncodeFails, SavedIH, LiveIH, Register!Set, Register!Kept
  <2>. QED  BY <2>1 DEF Register!Next
<1>4. ASSUME NEW ih \in IH, SetCurrentTorn(ih) PROVE [Register!Next]_Register!vars
  BY <1>4 DEF SetCurrentTorn, SavedIH, LiveIH, Register!Next, Register!Stop, Register!Kept
<1>5. CASE Crash
  BY <1>5 DEF Crash, SavedIH, LiveIH, Register!Next, Register!Stop, Register!Kept
<1>6. CASE UNCHANGED vars
  BY <1>6 DEF vars, SavedIH, LiveIH, Register!vars
<1>. QED  BY <1>1, <1>2, <1>3, <1>4, <1>5, <1>6 DEF Next

\* The marker implements the register whose saves may be lost, for every
\* set of info-hashes, saved counters and bound: a restore, a complete
\* save, a save whose encode fails, a torn save and a crash each map to a
\* step of the register or leave it unchanged, so a restart never brings
\* back a hash other than the last one SetCurrent set.
THEOREM Refinement == Spec => ImplementsRegister
<1>1. Spec => []IInv
  BY InitIInv, NextIInv, PTL DEF Spec
<1>. QED  BY <1>1, InitRegister, NextRegister, PTL
          DEF Spec, ImplementsRegister, Register!Spec
=============================================================================
