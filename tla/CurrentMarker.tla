---------------------------- MODULE CurrentMarker ----------------------------
(***************************************************************************)
(* The saved "current" marker across process lifetimes.                   *)
(*                                                                         *)
(* SetCurrent assigns cs.currentIH and cs.rev and overwrites               *)
(* {bitshareDir}/current: os.Create truncates the file (log.Fatal if it   *)
(* fails), the encoder then writes the IHMessage and its error is never    *)
(* checked.  NewControlSession reads the file back: the hash               *)
(* is taken as saved, the revision only if strings.Split(rev, "2") has two *)
(* parts and the first is an integer; otherwise rev starts again at "0-".  *)
(*                                                                         *)
(* A revision "<counter>-<hash>" is modelled by its counter and the number *)
(* of '2' digits in the 40 hex digits of its sha1 (0, 1 or 2 for two or    *)
(* more), which is all the split depends on; no property tells two hashes  *)
(* apart otherwise.  The counter's decimal digits are computed.            *)
(***************************************************************************)
EXTENDS Naturals, Sequences, FiniteSets

CONSTANTS
    IH,         \* info-hashes the application may set
    NoIH,       \* the empty info-hash ""
    MaxRev,     \* bound on the revision counter
    SavedRevs,  \* counters a marker left by an earlier run may hold
    NoFile,     \* no marker file
    TornFile    \* a marker truncated by os.Create and never written

ASSUME CurrentMarkerAssumption ==
    /\ NoIH \notin IH
    /\ MaxRev \in Nat
    /\ SavedRevs \subseteq 1..MaxRev
    /\ NoFile # TornFile

\* A revision: its counter, and the count of '2' in its hash's hex digits
\* (the only thing about the hash that the restore looks at).
Rev == [n : Nat, twos : 0..2]

\* "0-"
Rev0 == [n |-> 0, twos |-> 0]

\* The marker file: absent, truncated by a crash during the write, or a
\* complete IHMessage.
Marker == [ih : IH, rev : Rev]

\* A missing or torn file is not a complete marker.
ASSUME MarkerFileAssumption == NoFile \notin Marker /\ TornFile \notin Marker

\* strconv.Itoa: the decimal digits of n, most significant first.
Digits[n \in Nat] ==
    IF n < 10 THEN <<n>> ELSE Digits[n \div 10] \o <<n % 10>>

\* The positions of the digit 2 in strconv.Itoa(n).
TwoPositions(n) == {i \in DOMAIN Digits[n] : Digits[n][i] = 2}

\* NewControlSession's test on a saved rev "<n>-<hex>": Split on "2" gives
\* two parts iff the string has exactly one '2', and Atoi accepts the part
\* before it iff that '2' is a digit of the counter other than the first.
RevParses(r) ==
    /\ r.twos = 0
    /\ Cardinality(TwoPositions(r.n)) = 1
    /\ 1 \notin TwoPositions(r.n)

VARIABLES
    up,         \* the process is running
    currentIH,  \* cs.currentIH
    rev,        \* cs.rev
    file,       \* {bitshareDir}/current: NoFile, TornFile or a Marker
    lastSaved   \* the marker of the last SetCurrent that returned (ghost)

vars == <<up, currentIH, rev, file, lastSaved>>

-----------------------------------------------------------------------------
\* Before the first start the marker may be absent or left by an earlier run.
Init ==
    /\ up = FALSE
    /\ currentIH = NoIH
    /\ rev = Rev0
    /\ file \in {NoFile} \cup
                {[ih |-> i, rev |-> [n |-> k, twos |-> t]] :
                    i \in IH, k \in SavedRevs, t \in 0..2}
    /\ lastSaved = file

\* NewControlSession: decode the marker (a missing or torn file fails to
\* decode and the session starts from scratch), keep its hash, and keep its
\* rev only if it passes the Split-on-"2" test.
NewControlSession ==
    /\ ~up
    /\ up' = TRUE
    /\ currentIH' = IF file \in Marker THEN file.ih ELSE NoIH
    /\ rev' = IF file \in Marker /\ RevParses(file.rev) THEN file.rev ELSE Rev0
    /\ UNCHANGED <<file, lastSaved>>

\* Mutant of NextRev: a failed Atoi taken as -1, counting down.
NextRevDown(r, ih, t) == [n |-> r.n - 1, twos |-> t]

\* SetCurrent's new revision: Split on "-", counter + 1, and sha1(ih + hash),
\* whose hex digits hold t '2's.
NextRev(r, ih, t) == [n |-> r.n + 1, twos |-> t]

\* SetCurrent, run to its end: the new hash and revision in memory and the
\* marker overwritten with them.
SetCurrent(ih) ==
    /\ up
    /\ rev.n < MaxRev
    /\ currentIH' = ih
    /\ \E t \in 0..2 : rev' = NextRev(rev, ih, t)
    /\ file' = [ih |-> ih, rev |-> rev']
    /\ lastSaved' = file'
    /\ UNCHANGED up

\* Mutant of SetCurrentEncodeFails: the marker opened for writing without
\* O_TRUNC, so a failed encode leaves the previous marker in place.
SetCurrentEncodeFailsNoTrunc(ih) ==
    /\ up
    /\ rev.n < MaxRev
    /\ currentIH' = ih
    /\ \E t \in 0..2 : rev' = NextRev(rev, ih, t)
    /\ UNCHANGED <<up, file, lastSaved>>

\* SetCurrent whose encoder fails after os.Create truncated the marker (a
\* full disk, an I/O error): the error is assigned and never checked, so
\* the process goes on with the new hash and revision in memory and no
\* readable marker on disk.
SetCurrentEncodeFails(ih) ==
    /\ up
    /\ rev.n < MaxRev
    /\ currentIH' = ih
    /\ \E t \in 0..2 : rev' = NextRev(rev, ih, t)
    /\ file' = TornFile
    /\ UNCHANGED <<up, lastSaved>>

\* SetCurrent cut short by a crash after os.Create truncated the marker and
\* before the encoder wrote it.
SetCurrentTorn(ih) ==
    /\ up
    /\ rev.n < MaxRev
    /\ file' = TornFile
    /\ up' = FALSE
    /\ UNCHANGED <<currentIH, rev, lastSaved>>

\* The process dies anywhere else (kill, power loss, a panic), or in
\* SetCurrent's log.Fatal when os.Create fails, which leaves the marker as
\* it was: the hash and rev assigned before it die with the process.
Crash ==
    /\ up
    /\ up' = FALSE
    /\ UNCHANGED <<currentIH, rev, file, lastSaved>>

Next ==
    \/ NewControlSession
    \/ \E ih \in IH :
         SetCurrent(ih) \/ SetCurrentEncodeFails(ih) \/ SetCurrentTorn(ih)
    \/ Crash

Spec == Init /\ [][Next]_vars

-----------------------------------------------------------------------------
TypeOK ==
    /\ up \in BOOLEAN
    /\ currentIH \in IH \cup {NoIH}
    /\ rev \in Rev
    /\ file \in {NoFile, TornFile} \cup Marker
    /\ lastSaved \in {NoFile} \cup Marker

\* Revisions never go back: a running session's counter is at least that
\* of the last marker SetCurrent saved, in this run or an earlier one.
RevisionNeverRegresses ==
    up /\ lastSaved \in Marker => rev.n >= lastSaved.rev.n

\* The hash a restart would restore: the marker's, or "" when the file is
\* missing or torn.
SavedIH == IF file \in Marker THEN file.ih ELSE NoIH

\* The in-memory hash as the register sees it: gone while stopped.
LiveIH == IF up THEN currentIH ELSE NoIH

Register == INSTANCE CurrentRegister
                WITH saved <- SavedIH, currentIH <- LiveIH, Atomic <- FALSE

AtomicRegister == INSTANCE CurrentRegister
                WITH saved <- SavedIH, currentIH <- LiveIH, Atomic <- TRUE

\* The marker implements the register whose saves may be lost: the saved
\* hash changes only to the hash a running SetCurrent sets, or to none when
\* its write is torn by a failed encode or a crash, so NewControlSession
\* never restores a hash other than the last one set.
ImplementsRegister == Register!Spec

\* The design's register (section 4.4: SetCurrent persists the marker
\* atomically; section 7: failing to write it aborts the process): every
\* SetCurrent that returns has saved its hash, and no stop loses it.
ImplementsAtomicRegister == AtomicRegister!Spec

=============================================================================
