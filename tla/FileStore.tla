----------------------------- MODULE FileStore -----------------------------
(***************************************************************************)
(* The file store of part_001: one logical byte range striped over the     *)
(* files of a torrent, each backed by its real file or by a ".part" file   *)
(* while its pieces are not known to be good.                              *)
(*                                                                         *)
(* Entries are indexed 1..N (the code's 0..N-1).  A backing name is the    *)
(* entry's index, whether it carries ".part", and whether it was cut to 60 *)
(* characters by fileEntry.open (the path of a long-named file).  Bytes    *)
(* are a small set; a file's content is a sequence of them.  The store is  *)
(* used by one goroutine: each exported method is one step.                *)
(***************************************************************************)
EXTENDS Naturals, Sequences

CONSTANTS
    Lens,     \* the lengths of the torrent's files, in order
    Long,     \* the entries whose path is longer than 60 characters
    Byte,     \* byte values, 0 among them
    MaxIO,    \* the largest buffer a ReadAt or WriteAt is given
    Absent    \* no file at a name

ASSUME FileStoreAssumption ==
    /\ Lens \in Seq(Nat)
    /\ Long \subseteq 1..Len(Lens)
    /\ 0 \in Byte
    /\ Byte \subseteq Nat
    /\ Byte # {0}
    /\ MaxIO \in Nat \ {0}
    /\ Len(Lens) > 0
    /\ Absent \notin Seq(Byte)

N == Len(Lens)

\* A non-zero byte: what a complete file is made of.
FullByte == CHOOSE b \in Byte : b # 0
Idx == 1..N

\* fs.offsets: the logical offset where each entry starts (and N+1: the end).
Off[i \in 1..N+1] == IF i = 1 THEN 0 ELSE Off[i - 1] + Lens[i - 1]
Total == Off[N + 1]

\* Backing file names.
Name == [idx : Idx, part : BOOLEAN, capped : BOOLEAN]
Real(i) == [idx |-> i, part |-> FALSE, capped |-> FALSE]
Part(i) == [idx |-> i, part |-> TRUE, capped |-> FALSE]

\* fileEntry.open's name for a new .part file: cut when the path is long.
NewPart(i) == [idx |-> i, part |-> TRUE, capped |-> i \in Long]

MinOf(a, b) == IF a < b THEN a ELSE b
MaxOf(a, b) == IF a > b THEN a ELSE b

\* os.Truncate: cut or zero-extend a file's content to n bytes.
Resize(s, n) == [k \in 1..n |-> IF k <= Len(s) THEN s[k] ELSE 0]

\* os.File.WriteAt of data at offset pos: a hole past the end reads as 0.
WriteBytes(s, pos, data) ==
    [k \in 1..MaxOf(Len(s), pos + Len(data)) |->
        IF pos < k /\ k <= pos + Len(data) THEN data[k - pos]
        ELSE IF k <= Len(s) THEN s[k] ELSE 0]

VARIABLES
    files,   \* fs.files: the backing name of each entry
    disk,    \* the file system: name -> content or Absent
    opened,  \* NewFileStore has returned the store
    last     \* the last call and what it returned (for the properties)

vars == <<files, disk, opened, last>>

-----------------------------------------------------------------------------
\* fileStore.find: sort.Search for the first i with i the last entry or
\* offsets[i+1] >= offset.
find(o) == CHOOSE i \in Idx : (i >= N \/ Off[i + 1] >= o) /\
                              \A j \in 1..(i - 1) : ~(j >= N \/ Off[j + 1] >= o)

\* What a real file may hold before the store is opened: nothing, a
\* complete file (of non-zero bytes, told apart from a fresh .part), or a
\* file of the wrong length.
RealChoice(i) == {Absent, [k \in 1..Lens[i] |-> FullByte], Resize(<<>>, Lens[i] + 1)}

\* Before the store is opened a file may be missing, complete, or of the
\* wrong length, and a stale .part may be left over.
Init ==
    /\ files = [i \in Idx |-> Real(i)]
    /\ \E rc \in [Idx -> UNION {RealChoice(i) : i \in Idx}],
          pc \in [Idx -> {Absent, <<>>}] :
         /\ \A i \in Idx : rc[i] \in RealChoice(i)
         /\ disk = [x \in Name |-> CASE x = Real(x.idx) -> rc[x.idx]
                                     [] x = Part(x.idx) -> pc[x.idx]
                                     [] OTHER -> Absent]
    /\ opened = FALSE
    /\ last = [op |-> "none", off |-> 0, data |-> <<>>, err |-> FALSE]

\* fileEntry.open on entry i: a stale name+".part" is removed; a missing
\* file or one of the wrong length gets a new (possibly cut) .part of the
\* entry's length, which becomes the entry's name.
OpenName(d, i) ==
    IF d[Real(i)] # Absent /\ Len(d[Real(i)]) = Lens[i] THEN Real(i) ELSE NewPart(i)
OpenDisk(d, i, x) ==
    IF x = OpenName(d, i) /\ x # Real(i) THEN Resize(<<>>, Lens[i])
    ELSE IF x = Part(i) THEN Absent
    ELSE d[x]

\* The first entry whose .part would be cut: os.Create of the cut path
\* fails when the cut falls inside a directory name.
FirstLong == CHOOSE j \in Long : \A k \in Long : j <= k

\* Mutant of NewFileStore: fs.files indexed from 0, as the Go slice is,
\* while the rest of the store indexes from 1.
NewFileStoreZeroBased ==
    /\ ~opened
    /\ opened' = TRUE
    /\ files' = [i \in 0..(N - 1) |-> OpenName(disk, i + 1)]
    /\ disk' = [x \in Name |-> OpenDisk(disk, x.idx, x)]
    /\ last' = [op |-> "open", off |-> 0, data |-> <<>>, err |-> FALSE]

\* NewFileStore: every entry opened in order (each touches its own names);
\* or the first cut .part cannot be created, and the store is not returned
\* after the entries before it were opened and its stale .part removed.
NewFileStore ==
    /\ ~opened
    /\ \/ /\ opened' = TRUE
          /\ files' = [i \in Idx |-> OpenName(disk, i)]
          /\ disk' = [x \in Name |-> OpenDisk(disk, x.idx, x)]
          /\ last' = [op |-> "open", off |-> 0, data |-> <<>>, err |-> FALSE]
       \/ /\ Long # {}
          /\ OpenName(disk, FirstLong) # Real(FirstLong)
          /\ disk' = [x \in Name |->
                        CASE x.idx < FirstLong -> OpenDisk(disk, x.idx, x)
                          [] x = Part(FirstLong) -> Absent
                          [] OTHER -> disk[x]]
          /\ last' = [op |-> "open", off |-> 0, data |-> <<>>, err |-> TRUE]
          /\ UNCHANGED <<files, opened>>

\* Mutant of ReadStep: the entry's offset is not subtracted, so the file is
\* read at the logical offset.
ReadStepAbsOffset(s) ==
    LET e == files[s.idx]
        io == s.off
        chunk == MinOf(s.rem, Lens[s.idx] - io)
        got == IF disk[e] = Absent THEN 0 ELSE MinOf(chunk, MaxOf(0, Len(disk[e]) - io))
    IN  IF io >= Lens[s.idx] THEN [s EXCEPT !.idx = @ + 1]
        ELSE IF disk[e] = Absent THEN [s EXCEPT !.err = TRUE]
        ELSE [s EXCEPT !.data = @ \o SubSeq(disk[e], io + 1, io + got),
                       !.rem = @ - got, !.off = @ + got,
                       !.idx = @ + 1, !.err = got < chunk]

\* One iteration of the loop of fileStore.ReadAt: state s holds the bytes
\* still wanted (rem), off, index, the bytes read and the error.  An entry
\* the offset is past is skipped; otherwise fileEntry.ReadAt opens the
\* backing file and reads up to the entry's end, a short read being io.EOF.
ReadStep(s) ==
    LET e == files[s.idx]
        io == s.off - Off[s.idx]
        chunk == MinOf(s.rem, Lens[s.idx] - io)
        got == IF disk[e] = Absent THEN 0 ELSE MinOf(chunk, MaxOf(0, Len(disk[e]) - io))
    IN  IF io >= Lens[s.idx] THEN [s EXCEPT !.idx = @ + 1]
        ELSE IF disk[e] = Absent THEN [s EXCEPT !.err = TRUE]
        ELSE [s EXCEPT !.data = @ \o SubSeq(disk[e], io + 1, io + got),
                       !.rem = @ - got, !.off = @ + got,
                       !.idx = @ + 1, !.err = got < chunk]

\* The loop runs while bytes are wanted, entries remain and no error.
ReadIter(s) == IF s.rem > 0 /\ s.idx <= N /\ ~s.err THEN ReadStep(s) ELSE s

\* The loop from index find(off): at most N iterations.
ReadInit(off, n) ==
    [rem |-> n, off |-> off, idx |-> find(off), data |-> <<>>, err |-> FALSE]
ReadLoop(off, n) ==
    LET it[k \in 0..N] == IF k = 0 THEN ReadInit(off, n) ELSE ReadIter(it[k - 1])
    IN  it[N]

\* fileStore.ReadAt(p, off) with len(p) = n: the loop, then zeros for
\* whatever lies past the end of the store.
ReadAt(off, n) ==
    /\ opened
    /\ LET r == ReadLoop(off, n)
       IN  last' = [op |-> "read", off |-> off, err |-> r.err,
                    data |-> IF r.err THEN r.data ELSE r.data \o [k \in 1..r.rem |-> 0]]
    /\ UNCHANGED <<files, disk, opened>>

\* Mutant of WriteStep: the chunk is not cut to the space left in the
\* entry, so the write runs past the entry's end into its file.
WriteStepNoClamp(s) ==
    LET e == files[s.idx]
        io == s.off - Off[s.idx]
        chunk == Len(s.data)
    IN  IF io >= Lens[s.idx] THEN [s EXCEPT !.idx = @ + 1]
        ELSE IF s.disk[e] = Absent THEN [s EXCEPT !.err = TRUE]
        ELSE [s EXCEPT !.disk[e] = WriteBytes(@, io, SubSeq(s.data, 1, chunk)),
                       !.data = SubSeq(@, chunk + 1, Len(@)),
                       !.off = @ + chunk, !.idx = @ + 1]

\* One iteration of the loop of fileStore.WriteAt: fileEntry.WriteAt opens
\* the backing file without O_CREATE and writes the chunk.
WriteStep(s) ==
    LET e == files[s.idx]
        io == s.off - Off[s.idx]
        chunk == MinOf(Len(s.data), Lens[s.idx] - io)
    IN  IF io >= Lens[s.idx] THEN [s EXCEPT !.idx = @ + 1]
        ELSE IF s.disk[e] = Absent THEN [s EXCEPT !.err = TRUE]
        ELSE [s EXCEPT !.disk[e] = WriteBytes(@, io, SubSeq(s.data, 1, chunk)),
                       !.data = SubSeq(@, chunk + 1, Len(@)),
                       !.off = @ + chunk, !.idx = @ + 1]

WriteIter(s) == IF s.data # <<>> /\ s.idx <= N /\ ~s.err THEN WriteStep(s) ELSE s

WriteInit(off, data) ==
    [data |-> data, off |-> off, idx |-> find(off), disk |-> disk, err |-> FALSE]
WriteLoop(off, data) ==
    LET it[k \in 0..N] == IF k = 0 THEN WriteInit(off, data) ELSE WriteIter(it[k - 1])
    IN  it[N]

\* fileStore.WriteAt(p, off): the loop, then an error if any byte left
\* over past the end of the store is not zero.
WriteAt(off, data) ==
    /\ opened
    /\ LET r == WriteLoop(off, data)
       IN  /\ disk' = r.disk
           /\ last' = [op |-> "write", off |-> off, data |-> data,
                       err |-> r.err \/ \E k \in DOMAIN r.data : r.data[k] # 0]
    /\ UNCHANGED <<files, opened>>

\* Mutant of SetPartDisk: the .part is created empty and truncated, the
\* copy of the final file forgotten.
SetPartDiskNoCopy(i, e, d) ==
    LET p == [e EXCEPT !.part = TRUE]
    IN  [d EXCEPT ![p] = Resize(<<>>, Lens[i])]

\* fileEntry.SetPart on entry i with name e (not a .part): copyfile to
\* e+".part" (nothing is copied when e cannot be opened), the name becomes
\* the .part, which os.Truncate sets to the entry's length if it exists.
SetPartDisk(i, e, d) ==
    LET p == [e EXCEPT !.part = TRUE]
        copied == IF d[e] = Absent THEN d[p] ELSE d[e]
    IN  [d EXCEPT ![p] = IF copied = Absent THEN Absent ELSE Resize(copied, Lens[i])]

\* fileStore.SetBad(from): SetPart on every entry from find(from) on.
SetBad(from) ==
    /\ opened
    /\ LET bad == {i \in Idx : i >= find(from) /\ ~files[i].part}
       IN  /\ files' = [i \in Idx |-> IF i \in bad THEN [files[i] EXCEPT !.part = TRUE]
                                                  ELSE files[i]]
           /\ disk' = [x \in Name |->
                         IF x.part /\ x.idx \in bad /\ x = [files[x.idx] EXCEPT !.part = TRUE]
                         THEN SetPartDisk(x.idx, files[x.idx], disk)[x]
                         ELSE disk[x]]
    /\ last' = [op |-> "setbad", off |-> from, data |-> <<>>, err |-> FALSE]
    /\ UNCHANGED opened

\* fileStore.Cleanup: Cleanup on a copy of every entry (range by value), so
\* the new names are dropped; the error returned is that of the last entry
\* (os.Remove of a missing .part, nil for an entry that is not a .part).
Cleanup ==
    /\ opened
    /\ LET parts == {files[i] : i \in {j \in Idx : files[j].part}}
       IN  disk' = [x \in Name |->
                     CASE x \in parts -> Absent
                       [] \E e \in parts : x = [e EXCEPT !.part = FALSE] ->
                            LET e == CHOOSE e \in parts : x = [e EXCEPT !.part = FALSE]
                            IN  IF disk[e] = Absent THEN disk[x] ELSE disk[e]
                       [] OTHER -> disk[x]]
    /\ last' = [op |-> "cleanup", off |-> 0, data |-> <<>>,
                err |-> N > 0 /\ files[N].part /\ disk[files[N]] = Absent]
    /\ UNCHANGED <<files, opened>>

\* Offsets a caller may pass: inside the store and at its end (a buffer
\* from there runs past the end).
Offset == 0..Total

\* The buffers a caller may pass.
Buffer == UNION {[1..n -> Byte] : n \in 1..MaxIO}

Next ==
    \/ NewFileStore
    \/ \E o \in Offset, n \in 1..MaxIO : ReadAt(o, n)
    \/ \E o \in Offset, b \in Buffer : WriteAt(o, b)
    \/ \E o \in 0..(Total - 1) : SetBad(o)
    \/ Cleanup

Spec == Init /\ [][Next]_vars

-----------------------------------------------------------------------------
TypeOK ==
    /\ files \in [Idx -> Name]
    /\ disk \in [Name -> Seq(Byte) \cup {Absent}]
    /\ opened \in BOOLEAN
    /\ last \in [op : {"none", "open", "read", "write", "setbad", "cleanup"},
                 off : Nat, data : UNION {[1..k -> Byte] : k \in 0..MaxIO},
                 err : BOOLEAN]

\* The byte at logical offset o, by the spec's layout: it is in the unique
\* entry i with offsets[i] <= o < offsets[i] + length, at o - offsets[i] of
\* that entry's backing file (Absent if the file is missing or short).
View(o) ==
    LET i == CHOOSE i \in Idx : Off[i] <= o /\ o < Off[i] + Lens[i]
        c == disk[files[i]]
    IN  IF c = Absent \/ Len(c) <= o - Off[i] THEN Absent ELSE c[o - Off[i] + 1]

\* Reads and writes go to the right bytes (spec 8): a ReadAt that succeeds
\* returns the store's bytes and zeros past its end, and after a WriteAt
\* that succeeds the store holds the written bytes; whatever files find
\* picks at a boundary or zero-length file.
ReadWriteRoundTrip ==
    /\ last.op = "read" /\ ~last.err =>
         \A k \in DOMAIN last.data :
            last.data[k] = IF last.off + k - 1 < Total THEN View(last.off + k - 1) ELSE 0
    /\ last.op = "write" /\ ~last.err =>
         \A k \in DOMAIN last.data :
            last.off + k - 1 < Total => View(last.off + k - 1) = last.data[k]

\* Once NewFileStore has returned, an entry that is not on a .part names its
\* real file, which exists and has the entry's length: fileEntry.open kept
\* it only then, and no WriteAt, SetBad or Cleanup after it shortens,
\* lengthens or removes it.
EntryFull ==
    opened => \A i \in Idx : ~files[i].part =>
                /\ files[i] = Real(i)
                /\ disk[Real(i)] # Absent
                /\ Len(disk[Real(i)]) = Lens[i]

\* SetBad only moves files to .part and keeps their bytes (spec scenario 4):
\* across a SetBad step every logical byte reads the same as before, for
\* every entry whose final file was copied, truncated or left alone.
SetBadPreservesData ==
    [][last'.op = "setbad" => \A o \in 0..(Total - 1) : View(o)' = View(o)]_vars

\* After Cleanup every entry names its final file, not a ".part".
CleanupRenamesEntries ==
    last.op = "cleanup" => \A i \in Idx : ~files[i].part

\* After Cleanup every file of the torrent exists at its own path.
CleanupRestoresPaths ==
    last.op = "cleanup" => \A i \in Idx : disk[Real(i)] # Absent
=============================================================================
