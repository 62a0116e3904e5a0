--------------------------- MODULE CurrentRegister ---------------------------
(***************************************************************************)
(* What the saved current marker promises, without files or revisions: a *)
(* persistent register holding the current info-hash.  SetCurrent sets    *)
(* the in-memory hash and saves it; a restart reads the saved one back;   *)
(* what is in memory is gone once the process stops.                      *)
(*                                                                         *)
(* Atomic says how a save may fail.  When it is TRUE the register is the   *)
(* one the design describes (SetCurrent persists atomically, and a failed  *)
(* write aborts the process): a save always lands and a stop never loses  *)
(* it.  When it is FALSE a save may instead leave no readable marker, and *)
(* a stop may lose the saved hash, so that a restart starts from "".  In   *)
(* both, a restart never brings back a hash other than the last one set.  *)
(***************************************************************************)
CONSTANTS
    IH,     \* info-hashes the application may set
    NoIH,   \* the empty info-hash ""
    Atomic  \* saves are all-or-nothing and never lost

VARIABLES
    up,         \* the process is running
    currentIH,  \* the in-memory current hash ("" while stopped)
    saved       \* the hash a restart would restore

vars == <<up, currentIH, saved>>

\* What the register may hold after saving, or keeping, hash ih.
Kept(ih) == IF Atomic THEN {ih} ELSE {ih, NoIH}

Init ==
    /\ up = FALSE
    /\ currentIH = NoIH
    /\ saved \in IH \cup {NoIH}

\* A start restores the saved hash.
Start ==
    /\ ~up
    /\ up' = TRUE
    /\ currentIH' = saved
    /\ UNCHANGED saved

\* Setting the current hash saves it.
Set(ih) ==
    /\ up
    /\ currentIH' = ih
    /\ saved' \in Kept(ih)
    /\ UNCHANGED up

\* The process stops and its memory is gone.
Stop ==
    /\ up
    /\ up' = FALSE
    /\ currentIH' = NoIH
    /\ saved' \in Kept(saved)

Next == Start \/ (\E ih \in IH : Set(ih)) \/ Stop

Spec == Init /\ [][Next]_vars
=============================================================================
