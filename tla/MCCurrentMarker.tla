-------------------------- MODULE MCCurrentMarker --------------------------
(* TLC instance of CurrentMarker.  The cfg gives two info-hashes as model  *)
(* values, and earlier-run markers with counters 1, 2 and 12: Itoa(12)     *)
(* holds one '2' after its first digit, the only kind of rev the restore   *)
(* keeps, and 2 holds one as its first digit.                              *)
EXTENDS CurrentMarker, TLC

\* Info-hashes are interchangeable.
MCSymmetry == Permutations(IH)
=============================================================================
