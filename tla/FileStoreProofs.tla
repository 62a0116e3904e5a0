------------------------- MODULE FileStoreProofs -------------------------
(***************************************************************************)
(* Proofs about FileStore for every value of its constants: the inductive  *)
(* invariant IInv (types, entries named after their index, entries on      *)
(* their real file keeping it whole), type correctness, ReadWriteRoundTrip *)
(* and SetBadPreservesData.  The loops of ReadAt and WriteAt are recursive *)
(* functions over 0..N; they are unfolded with FiniteNatInductiveDef and   *)
(* reasoned about by a least counterexample (LeastElement) on the          *)
(* iteration count, with RInv and WInv as the loop invariants.             *)
(***************************************************************************)
EXTENDS FileStore, FiniteSetTheorems, NaturalsInduction, WellFoundedInduction, SequenceTheorems, TLAPS

\* A non-empty set of naturals below a bound has a least element.
LEMMA LeastElement ==
    ASSUME NEW M \in Nat, NEW S \in SUBSET (0..M), S # {}
    PROVE  \E x \in S : \A y \in S : x <= y
<1> DEFINE D == {0..(k - 1) : k \in S}
<1>1. IsWellFoundedOn(StrictSubsetOrdering(0..M), FiniteSubsetsOf(0..M))
  BY FS_StrictSubsetOrderingWellFounded
<1>2. D \subseteq FiniteSubsetsOf(0..M)
  <2>1. ASSUME NEW k \in S PROVE 0..(k - 1) \in FiniteSubsetsOf(0..M)
    <3>1. IsFiniteSet(0..(k - 1))
      BY FS_Interval
    <3>. QED  BY <3>1 DEF FiniteSubsetsOf
  <2>. QED  BY <2>1
<1>3. D # {}
  OBVIOUS
<1>4. PICK d \in D : \A e \in D : ~(<<e, d>> \in StrictSubsetOrdering(0..M))
  BY <1>1, <1>2, <1>3, WFMin
<1>5. PICK x \in S : d = 0..(x - 1)
  OBVIOUS
<1>6. ASSUME NEW y \in S, y < x PROVE FALSE
  <2>1. 0..(y - 1) \in D
    OBVIOUS
  <2>2. <<0..(y - 1), d>> \in StrictSubsetOrdering(0..M)
    <3>1. x - 1 \notin 0..(y - 1) /\ x - 1 \in d
      BY <1>5, <1>6
    <3>. QED  BY <1>5, <1>6, <3>1 DEF StrictSubsetOrdering
  <2>. QED  BY <1>4, <2>1, <2>2
<1>. QED  BY <1>6

\* There is at least one entry, and every entry's length is a natural.
LEMMA LensType == N \in Nat /\ N >= 1 /\ \A i \in Idx : Lens[i] \in Nat
  BY FileStoreAssumption DEF N, Idx

OffDef(v, i) == v + Lens[i - 1]

\* fs.offsets unfolds: the first entry starts at 0, each next one where
\* the one before it ends.
LEMMA OffUnfold ==
    \A i \in 1..(N + 1) : Off[i] = IF i = 1 THEN 0 ELSE Off[i - 1] + Lens[i - 1]
<1>1. FiniteNatInductiveDefConclusion(Off, 0, OffDef, 1, N + 1)
  <2>1. FiniteNatInductiveDefHypothesis(Off, 0, OffDef, 1, N + 1)
    BY DEF FiniteNatInductiveDefHypothesis, Off, OffDef
  <2>. QED  BY <2>1, LensType, FiniteNatInductiveDef
<1>. QED  BY <1>1 DEF FiniteNatInductiveDefConclusion, OffDef

\* Each entry ends where the next one starts.
LEMMA OffStep == \A i \in Idx : Off[i + 1] = Off[i] + Lens[i]
  BY OffUnfold, LensType DEF Idx

\* Every offset is a natural.
LEMMA OffType == \A i \in 1..(N + 1) : Off[i] \in Nat
<1> SUFFICES ASSUME {i \in 1..(N + 1) : Off[i] \notin Nat} # {} PROVE FALSE
  OBVIOUS
<1> DEFINE T == {i \in 1..(N + 1) : Off[i] \notin Nat}
<1>0. N + 1 \in Nat /\ T \in SUBSET (0..(N + 1))
  BY LensType
<1>1. PICK i \in T : \A j \in T : i <= j
  BY <1>0, LeastElement
<1>2. i # 1
  BY <1>1, OffUnfold
<1>3. Off[i - 1] \in Nat
  BY <1>1, <1>2, LensType
<1>. QED  BY <1>1, <1>2, <1>3, OffStep, LensType DEF Idx

\* Offsets never decrease along the entries.
LEMMA OffMono == \A i, j \in 1..(N + 1) : i <= j => Off[i] <= Off[j]
<1> SUFFICES ASSUME NEW i \in 1..(N + 1),
                    {j \in i..(N + 1) : ~(Off[i] <= Off[j])} # {}
             PROVE FALSE
  OBVIOUS
<1> DEFINE T == {j \in i..(N + 1) : ~(Off[i] <= Off[j])}
<1>0. N + 1 \in Nat /\ T \in SUBSET (0..(N + 1))
  BY LensType
<1>1. PICK j \in T : \A k \in T : j <= k
  BY <1>0, LeastElement
<1>2. j # i
  BY <1>1, OffType
<1>3. Off[i] <= Off[j - 1]
  BY <1>1, <1>2, LensType
<1>. QED  BY <1>1, <1>2, <1>3, OffStep, OffType, LensType DEF Idx

\* The store's size is a natural and no offset lies past it.
LEMMA TotalType == Total \in Nat /\ \A i \in 1..(N + 1) : Off[i] <= Total
  BY OffType, OffMono, LensType DEF Total

\* fileStore.find returns an entry that starts at or before the offset
\* and, unless it is the last, ends at or after it.
LEMMA FindSpec ==
    ASSUME NEW o \in Nat
    PROVE  /\ find(o) \in Idx
           /\ Off[find(o)] <= o
           /\ find(o) < N => o <= Off[find(o) + 1]
<1> DEFINE T == {i \in Idx : i >= N \/ Off[i + 1] >= o}
<1>0. N + 1 \in Nat /\ T \in SUBSET (0..(N + 1)) /\ N \in T
  BY LensType DEF Idx
<1>1. PICK i \in T : \A j \in T : i <= j
  BY <1>0, LeastElement
<1>2. /\ find(o) \in Idx
      /\ find(o) >= N \/ Off[find(o) + 1] >= o
      /\ \A j \in 1..(find(o) - 1) : ~(j >= N \/ Off[j + 1] >= o)
  <2>1. \A j \in 1..(i - 1) : ~(j >= N \/ Off[j + 1] >= o)
    BY <1>1, LensType DEF Idx
  <2>. QED  BY <1>1, <2>1 DEF find
<1>3. Off[find(o)] <= o
  <2>1. CASE find(o) = 1
    BY <2>1, OffUnfold, LensType
  <2>2. CASE find(o) # 1
    <3>1. find(o) - 1 \in 1..(find(o) - 1)
      BY <1>2, <2>2, LensType DEF Idx
    <3>2. ~(Off[find(o) - 1 + 1] >= o)
      BY <1>2, <3>1
    <3>3. find(o) - 1 + 1 = find(o) /\ find(o) \in 1..(N + 1)
      BY <1>2, LensType DEF Idx
    <3>4. Off[find(o)] \in Nat
      BY <3>3, OffType
    <3>. QED  BY <3>2, <3>3, <3>4
  <2>. QED  BY <2>1, <2>2
<1>. QED  BY <1>2, <1>3, LensType DEF Idx

\* The entry View reads offset o from.
EntryAt(o) == CHOOSE i \in Idx : Off[i] <= o /\ o < Off[i] + Lens[i]

\* An offset lies in at most one entry (zero-length entries hold none).
LEMMA EntryAtSpec ==
    ASSUME NEW o \in Nat, NEW i \in Idx, Off[i] <= o, o < Off[i] + Lens[i]
    PROVE  EntryAt(o) = i
<1>1. ASSUME NEW j \in Idx, Off[j] <= o, o < Off[j] + Lens[j] PROVE j = i
  <2>1. ASSUME NEW a \in Idx, NEW b \in Idx, a < b, o < Off[a] + Lens[a], Off[b] <= o
        PROVE FALSE
    <3>0. a + 1 \in 1..(N + 1) /\ b \in 1..(N + 1) /\ a + 1 <= b
      BY <2>1, LensType DEF Idx
    <3>1. Off[a + 1] <= Off[b]
      BY <3>0, OffMono
    <3>2. Off[a + 1] = Off[a] + Lens[a]
      BY OffStep
    <3>. QED  BY <2>1, <3>0, <3>1, <3>2, OffType, LensType DEF Idx
  <2>. QED  BY <1>1, <2>1, LensType DEF Idx
<1>. QED  BY <1>1 DEF EntryAt

\* Every offset inside the store lies in some entry.
LEMMA EntryExists ==
    ASSUME NEW o \in 0..(Total - 1)
    PROVE  \E i \in Idx : Off[i] <= o /\ o < Off[i] + Lens[i]
<1> DEFINE T == {i \in Idx : o < Off[i + 1]}
<1>0. N + 1 \in Nat /\ T \in SUBSET (0..(N + 1)) /\ N \in T
  BY LensType, TotalType DEF Idx, Total
<1>1. PICK i \in T : \A j \in T : i <= j
  BY <1>0, LeastElement
<1>2. Off[i] <= o
  <2>1. CASE i = 1
    BY <2>1, OffUnfold, LensType
  <2>2. CASE i # 1
    <3>1. i - 1 \in Idx /\ i - 1 \notin T
      BY <1>1, <2>2, LensType DEF Idx
    <3>. QED  BY <3>1, OffType, LensType DEF Idx
  <2>. QED  BY <2>1, <2>2
<1>. QED  BY <1>1, <1>2, OffStep

\* The entry holding an offset inside the store is an entry that holds it.
LEMMA EntryAtIdx ==
    ASSUME NEW o \in 0..(Total - 1)
    PROVE  /\ EntryAt(o) \in Idx
           /\ Off[EntryAt(o)] <= o /\ o < Off[EntryAt(o)] + Lens[EntryAt(o)]
  BY EntryExists DEF EntryAt

\* os.Truncate yields a byte sequence of the asked length, and leaves a
\* file of that length unchanged.
LEMMA ResizeSpec ==
    ASSUME NEW s \in Seq(Byte), NEW n \in Nat
    PROVE  /\ Resize(s, n) \in Seq(Byte)
           /\ Len(Resize(s, n)) = n
           /\ n = Len(s) => Resize(s, n) = s
<1>1. Resize(s, n) \in [1..n -> Byte]
  BY FileStoreAssumption DEF Resize
<1>. QED  BY <1>1 DEF Resize

\* A slice of a byte sequence has the asked length and the bytes from its
\* start on.
LEMMA SubSeqSpec ==
    ASSUME NEW c \in Seq(Byte), NEW a \in Nat, NEW g \in Nat, g > 0 => a + g <= Len(c)
    PROVE  /\ SubSeq(c, a + 1, a + g) \in Seq(Byte)
           /\ Len(SubSeq(c, a + 1, a + g)) = g
           /\ \A u \in 1..g : SubSeq(c, a + 1, a + g)[u] = c[a + u]
<1>1. \A i \in (a + 1)..(a + g) : c[i] \in Byte
  BY LenProperties
<1>2. /\ SubSeq(c, a + 1, a + g) \in Seq(Byte)
      /\ Len(SubSeq(c, a + 1, a + g)) = IF a + 1 <= a + g THEN (a + g) - (a + 1) + 1 ELSE 0
      /\ \A u \in 1..((a + g) - (a + 1) + 1) : SubSeq(c, a + 1, a + g)[u] = c[(a + 1) + u - 1]
  BY <1>1, SubSeqProperties
<1>. QED  BY <1>2

\* os.File.WriteAt yields a byte sequence as long as the longer of the file
\* and the write's end, holding the written bytes at their place.
\* A prefix of a byte sequence has the asked length and its first bytes.
LEMMA SubSeqPrefix ==
    ASSUME NEW c \in Seq(Byte), NEW g \in Nat, g <= Len(c)
    PROVE  /\ SubSeq(c, 1, g) \in Seq(Byte)
           /\ Len(SubSeq(c, 1, g)) = g
           /\ \A u \in 1..g : SubSeq(c, 1, g)[u] = c[u]
<1>1. \A i \in 1..g : c[i] \in Byte
  BY LenProperties
<1>2. /\ SubSeq(c, 1, g) \in Seq(Byte)
      /\ Len(SubSeq(c, 1, g)) = IF 1 <= g THEN g - 1 + 1 ELSE 0
      /\ \A u \in 1..(g - 1 + 1) : SubSeq(c, 1, g)[u] = c[1 + u - 1]
  BY <1>1, SubSeqProperties
<1>. QED  BY <1>2

LEMMA WriteBytesSpec ==
    ASSUME NEW s \in Seq(Byte), NEW pos \in Nat, NEW d \in Seq(Byte)
    PROVE  /\ WriteBytes(s, pos, d) \in Seq(Byte)
           /\ Len(WriteBytes(s, pos, d)) = MaxOf(Len(s), pos + Len(d))
           /\ \A k \in 1..Len(d) : WriteBytes(s, pos, d)[pos + k] = d[k]
<1>1. MaxOf(Len(s), pos + Len(d)) \in Nat
  BY DEF MaxOf
<1>2. WriteBytes(s, pos, d) \in [1..MaxOf(Len(s), pos + Len(d)) -> Byte]
  BY FileStoreAssumption DEF WriteBytes
<1>. QED  BY <1>1, <1>2 DEF WriteBytes, MaxOf

-----------------------------------------------------------------------------
\* Every entry's name carries its own index, and until the store is opened
\* every entry names its real file.
EntriesNamed ==
    \A i \in Idx : files[i].idx = i /\ (~opened => files[i] = Real(i))

IInv == TypeOK /\ EntriesNamed /\ EntryFull

\* An entry's real, .part and new .part names are names, and the real one
\* differs from the other two.
LEMMA NameSpec ==
    \A i \in Idx : /\ Real(i) \in Name /\ Part(i) \in Name /\ NewPart(i) \in Name
                  /\ Real(i) # Part(i) /\ Real(i) # NewPart(i)
  BY FileStoreAssumption DEF Real, Part, NewPart, Name, Idx

\* A complete file's byte is a byte.
LEMMA FullByteSpec == FullByte \in Byte
  BY FileStoreAssumption DEF FullByte

\* The initial states satisfy the inductive invariant.
LEMMA InitIInv == Init => IInv
<1> SUFFICES ASSUME Init PROVE IInv
  OBVIOUS
<1>1. files \in [Idx -> Name]
  BY NameSpec DEF Init
<1>2. disk \in [Name -> Seq(Byte) \cup {Absent}]
  <2>1. PICK rc \in [Idx -> UNION {RealChoice(i) : i \in Idx}],
             pc \in [Idx -> {Absent, <<>>}] :
          /\ \A i \in Idx : rc[i] \in RealChoice(i)
          /\ disk = [x \in Name |-> CASE x = Real(x.idx) -> rc[x.idx]
                                      [] x = Part(x.idx) -> pc[x.idx]
                                      [] OTHER -> Absent]
    BY DEF Init
  <2>2. ASSUME NEW i \in Idx PROVE RealChoice(i) \subseteq Seq(Byte) \cup {Absent}
    <3>1. [k \in 1..Lens[i] |-> FullByte] \in Seq(Byte)
      BY FullByteSpec, LensType
    <3>2. Resize(<<>>, Lens[i] + 1) \in Seq(Byte)
      <4>1. <<>> \in Seq(Byte) /\ Lens[i] + 1 \in Nat
        BY LensType
      <4>. QED  BY <4>1, ResizeSpec
    <3>. QED  BY <3>1, <3>2 DEF RealChoice
  <2>3. ASSUME NEW x \in Name PROVE disk[x] \in Seq(Byte) \cup {Absent}
    <3>1. x.idx \in Idx /\ Real(x.idx) # Part(x.idx)
      BY NameSpec DEF Name
    <3>2. rc[x.idx] \in Seq(Byte) \cup {Absent}
      <4>1. rc[x.idx] \in RealChoice(x.idx)
        BY <2>1, <3>1
      <4>. QED  BY <4>1, <2>2, <3>1, Zenon
    <3>3. pc[x.idx] \in Seq(Byte) \cup {Absent}
      <4>1. <<>> \in Seq(Byte)
        OBVIOUS
      <4>. QED  BY <4>1, <3>1
    <3>. QED  BY <2>1, <3>1, <3>2, <3>3
  <2>. QED  BY <2>1, <2>3
<1>3. last \in [op : {"none", "open", "read", "write", "setbad", "cleanup"},
                 off : Nat, data : UNION {[1..k -> Byte] : k \in 0..MaxIO},
                 err : BOOLEAN]
  <2>1. <<>> \in [1..0 -> Byte] /\ 0 \in 0..MaxIO
    BY FileStoreAssumption
  <2>. QED  BY <2>1 DEF Init
<1>4. EntriesNamed
  BY DEF Init, EntriesNamed, Real
<1>. QED  BY <1>1, <1>2, <1>3, <1>4 DEF Init, IInv, TypeOK, EntryFull

\* What fileEntry.open leaves: the name it picks and the file at each name.
LEMMA OpenSpec ==
    ASSUME NEW d \in [Name -> Seq(Byte) \cup {Absent}], NEW i \in Idx
    PROVE  /\ OpenName(d, i) \in Name
           /\ OpenName(d, i).idx = i
           /\ ~OpenName(d, i).part =>
                 /\ OpenName(d, i) = Real(i)
                 /\ d[Real(i)] # Absent /\ Len(d[Real(i)]) = Lens[i]
           /\ \A x \in Name : OpenDisk(d, i, x) \in Seq(Byte) \cup {Absent}
           /\ OpenDisk(d, i, Real(i)) = d[Real(i)]
<1>1. Resize(<<>>, Lens[i]) \in Seq(Byte)
  <2>1. <<>> \in Seq(Byte) /\ Lens[i] \in Nat
    BY LensType
  <2>. QED  BY <2>1, ResizeSpec
<1>2. OpenName(d, i) \in Name /\ OpenName(d, i).idx = i
  BY NameSpec DEF OpenName, Real, NewPart
<1>3. ~OpenName(d, i).part => OpenName(d, i) = Real(i)
  BY DEF OpenName, Real, NewPart
<1>4. ~OpenName(d, i).part => d[Real(i)] # Absent /\ Len(d[Real(i)]) = Lens[i]
  BY DEF OpenName, Real, NewPart
<1>5. \A x \in Name : OpenDisk(d, i, x) \in Seq(Byte) \cup {Absent}
  BY <1>1 DEF OpenDisk
<1>6. OpenDisk(d, i, Real(i)) = d[Real(i)]
  BY NameSpec DEF OpenDisk
<1>. QED  BY <1>2, <1>3, <1>4, <1>5, <1>6

\* The first long-named entry is an entry when there is one.
LEMMA FirstLongSpec == Long # {} => FirstLong \in Idx
<1> SUFFICES ASSUME Long # {} PROVE FirstLong \in Idx
  OBVIOUS
<1>1. N \in Nat /\ Long \in SUBSET (0..N)
  BY FileStoreAssumption, LensType DEF N
<1>2. \E j \in Long : \A k \in Long : j <= k
  BY <1>1, LeastElement
<1>. QED  BY <1>2, FileStoreAssumption DEF FirstLong, Idx, N

\* NewFileStore, whether it returns the store or fails on a cut .part,
\* keeps the inductive invariant.
LEMMA NewFileStoreIInv == IInv /\ NewFileStore => IInv'
<1> SUFFICES ASSUME IInv, NewFileStore PROVE IInv'
  OBVIOUS
<1>1. CASE /\ opened' = TRUE
           /\ files' = [i \in Idx |-> OpenName(disk, i)]
           /\ disk' = [x \in Name |-> OpenDisk(disk, x.idx, x)]
           /\ last' = [op |-> "open", off |-> 0, data |-> <<>>, err |-> FALSE]
  <2>1. files' \in [Idx -> Name]
    BY <1>1, OpenSpec DEF IInv, TypeOK
  <2>2. disk' \in [Name -> Seq(Byte) \cup {Absent}]
    <3>1. ASSUME NEW x \in Name PROVE disk'[x] \in Seq(Byte) \cup {Absent}
      <4>1. x.idx \in Idx
        BY DEF Name
      <4>. QED  BY <1>1, <4>1, OpenSpec DEF IInv, TypeOK
    <3>. QED  BY <1>1, <3>1
  <2>3. last' \in [op : {"none", "open", "read", "write", "setbad", "cleanup"},
                    off : Nat, data : UNION {[1..k -> Byte] : k \in 0..MaxIO},
                    err : BOOLEAN]
    <3>1. <<>> \in [1..0 -> Byte] /\ 0 \in 0..MaxIO
      BY FileStoreAssumption
    <3>. QED  BY <1>1, <3>1
  <2>4. EntriesNamed'
    BY <1>1, OpenSpec DEF IInv, TypeOK, EntriesNamed
  <2>5. EntryFull'
    <3>1. ASSUME NEW i \in Idx, ~files'[i].part
          PROVE  /\ files'[i] = Real(i)
                 /\ disk'[Real(i)] # Absent
                 /\ Len(disk'[Real(i)]) = Lens[i]
      <4>1. ~OpenName(disk, i).part
        BY <1>1, <3>1
      <4>2. disk'[Real(i)] = disk[Real(i)]
        BY <1>1, NameSpec, OpenSpec DEF IInv, TypeOK, Real
      <4>. QED  BY <1>1, <4>1, <4>2, OpenSpec DEF IInv, TypeOK
    <3>. QED  BY <3>1 DEF EntryFull
  <2>. QED  BY <1>1, <2>1, <2>2, <2>3, <2>4, <2>5 DEF IInv, TypeOK
<1>2. CASE /\ Long # {}
           /\ OpenName(disk, FirstLong) # Real(FirstLong)
           /\ disk' = [x \in Name |->
                         CASE x.idx < FirstLong -> OpenDisk(disk, x.idx, x)
                           [] x = Part(FirstLong) -> Absent
                           [] OTHER -> disk[x]]
           /\ last' = [op |-> "open", off |-> 0, data |-> <<>>, err |-> TRUE]
           /\ UNCHANGED <<files, opened>>
  <2>1. disk' \in [Name -> Seq(Byte) \cup {Absent}]
    <3>1. ASSUME NEW x \in Name PROVE disk'[x] \in Seq(Byte) \cup {Absent}
      <4>1. x.idx \in Idx /\ FirstLong \in Idx
        BY <1>2, FirstLongSpec DEF Name
      <4>2. CASE x.idx < FirstLong
        <5>1. x # Part(FirstLong)
          BY <4>1, <4>2 DEF Part, Idx
        <5>2. disk'[x] = OpenDisk(disk, x.idx, x)
          BY <1>2, <4>2, <5>1
        <5>. QED  BY <4>1, <5>2, OpenSpec DEF IInv, TypeOK
      <4>3. CASE ~(x.idx < FirstLong)
        <5>1. disk'[x] \in {Absent, disk[x]}
          BY <1>2, <4>3
        <5>. QED  BY <5>1 DEF IInv, TypeOK
      <4>. QED  BY <4>2, <4>3
    <3>. QED  BY <1>2, <3>1
  <2>2. last' \in [op : {"none", "open", "read", "write", "setbad", "cleanup"},
                    off : Nat, data : UNION {[1..k -> Byte] : k \in 0..MaxIO},
                    err : BOOLEAN]
    <3>1. <<>> \in [1..0 -> Byte] /\ 0 \in 0..MaxIO
      BY FileStoreAssumption
    <3>. QED  BY <1>2, <3>1
  <2>3. ~opened'
    BY <1>2 DEF NewFileStore
  <2>. QED  BY <1>2, <2>1, <2>2, <2>3 DEF IInv, TypeOK, EntriesNamed, EntryFull
<1>. QED  BY <1>1, <1>2 DEF NewFileStore

\* Names are equal when their fields are.
LEMMA NameExt ==
    ASSUME NEW r \in Name, NEW q \in Name,
           r.idx = q.idx, r.part = q.part, r.capped = q.capped
    PROVE  r = q
  BY DEF Name

\* Setting .part on an entry's real name gives its .part name.
LEMMA PartOfReal ==
    ASSUME NEW i \in Idx PROVE [Real(i) EXCEPT !.part = TRUE] = Part(i)
<1>1. [Real(i) EXCEPT !.part = TRUE] \in Name /\ Part(i) \in Name
  BY DEF Real, Part, Name
<1>2. /\ [Real(i) EXCEPT !.part = TRUE].idx = Part(i).idx
      /\ [Real(i) EXCEPT !.part = TRUE].part = Part(i).part
      /\ [Real(i) EXCEPT !.part = TRUE].capped = Part(i).capped
  BY DEF Real, Part
<1>. QED  BY <1>1, <1>2, NameExt

\* A SetBad step keeps the inductive invariant, and every entry's new
\* backing file holds what its old one held.
LEMMA SetBadStep ==
    ASSUME IInv, NEW from \in 0..(Total - 1), SetBad(from)
    PROVE  /\ IInv'
           /\ \A i \in Idx : disk'[files'[i]] = disk[files[i]]
<1> DEFINE bad == {i \in Idx : i >= find(from) /\ ~files[i].part}
<1>1. /\ files' = [i \in Idx |-> IF i \in bad THEN [files[i] EXCEPT !.part = TRUE]
                                             ELSE files[i]]
      /\ disk' = [x \in Name |->
                    IF x.part /\ x.idx \in bad /\ x = [files[x.idx] EXCEPT !.part = TRUE]
                    THEN SetPartDisk(x.idx, files[x.idx], disk)[x]
                    ELSE disk[x]]
      /\ last' = [op |-> "setbad", off |-> from, data |-> <<>>, err |-> FALSE]
      /\ opened' = opened /\ opened
  BY DEF SetBad
<1>2. ASSUME NEW i \in bad
      PROVE  /\ files[i] = Real(i)
             /\ [files[i] EXCEPT !.part = TRUE] = Part(i)
             /\ files'[i] = Part(i)
             /\ disk'[Part(i)] = disk[Real(i)]
  <2>1. /\ files[i] = Real(i)
        /\ disk[Real(i)] # Absent
        /\ disk[Real(i)] \in Seq(Byte)
        /\ Len(disk[Real(i)]) = Lens[i]
    BY <1>1, NameSpec DEF IInv, EntryFull, TypeOK
  <2>2. [Real(i) EXCEPT !.part = TRUE] = Part(i)
    BY PartOfReal
  <2>3. files'[i] = [files[i] EXCEPT !.part = TRUE]
    BY <1>1
  <2>4. Part(i) \in Name /\ Part(i).part /\ Part(i).idx = i
    BY NameSpec DEF Part
  <2>5. disk'[Part(i)] = SetPartDisk(i, files[i], disk)[Part(i)]
    BY <1>1, <2>1, <2>2, <2>4
  <2>6. SetPartDisk(i, files[i], disk)[Part(i)] = Resize(disk[Real(i)], Lens[i])
    BY <2>1, <2>2, <2>4 DEF SetPartDisk, IInv, TypeOK
  <2>7. Resize(disk[Real(i)], Lens[i]) = disk[Real(i)]
    BY <2>1, LensType, ResizeSpec
  <2>. QED  BY <2>1, <2>2, <2>3, <2>5, <2>6, <2>7
<1>3. ASSUME NEW x \in Name, ~(x.part /\ x.idx \in bad /\ x = [files[x.idx] EXCEPT !.part = TRUE])
      PROVE  disk'[x] = disk[x]
  BY <1>1, <1>3
<1>4. ASSUME NEW i \in Idx \ bad PROVE files'[i] = files[i] /\ disk'[files[i]] = disk[files[i]]
  <2>1. files[i] \in Name /\ files[i].idx = i
    BY DEF IInv, TypeOK, EntriesNamed
  <2>2. disk'[files[i]] = disk[files[i]]
    BY <1>3, <2>1
  <2>. QED  BY <1>1, <2>2
<1>5. \A i \in Idx : disk'[files'[i]] = disk[files[i]]
  BY <1>2, <1>4
<1>6. files' \in [Idx -> Name]
  <2>1. ASSUME NEW i \in Idx PROVE files'[i] \in Name
    <3>1. CASE i \in bad
      BY <1>2, <3>1, NameSpec
    <3>2. CASE i \notin bad
      BY <1>4, <3>2 DEF IInv, TypeOK
    <3>. QED  BY <3>1, <3>2
  <2>. QED  BY <1>1, <2>1
<1>7. disk' \in [Name -> Seq(Byte) \cup {Absent}]
  <2>1. ASSUME NEW x \in Name PROVE disk'[x] \in Seq(Byte) \cup {Absent}
    <3>1. CASE x.part /\ x.idx \in bad /\ x = [files[x.idx] EXCEPT !.part = TRUE]
      <4>1. x = Part(x.idx)
        BY <1>2, <3>1
      <4>2. disk'[x] = disk[Real(x.idx)]
        BY <1>2, <3>1, <4>1
      <4>. QED  BY <3>1, <4>2, NameSpec DEF IInv, TypeOK
    <3>2. CASE ~(x.part /\ x.idx \in bad /\ x = [files[x.idx] EXCEPT !.part = TRUE])
      BY <1>3, <3>2 DEF IInv, TypeOK
    <3>. QED  BY <3>1, <3>2
  <2>. QED  BY <1>1, <2>1
<1>8. last' \in [op : {"none", "open", "read", "write", "setbad", "cleanup"},
                  off : Nat, data : UNION {[1..k -> Byte] : k \in 0..MaxIO},
                  err : BOOLEAN]
  <2>1. <<>> \in [1..0 -> Byte] /\ 0 \in 0..MaxIO /\ from \in Nat
    BY FileStoreAssumption, TotalType
  <2>. QED  BY <1>1, <2>1
<1>9. EntriesNamed'
  <2>1. \A i \in Idx : files'[i].idx = i
    BY <1>1, <1>2, <1>4 DEF IInv, EntriesNamed, Part
  <2>. QED  BY <1>1, <2>1 DEF EntriesNamed
<1>10. EntryFull'
  <2>1. ASSUME NEW i \in Idx, ~files'[i].part
        PROVE  /\ files'[i] = Real(i)
               /\ disk'[Real(i)] # Absent
               /\ Len(disk'[Real(i)]) = Lens[i]
    <3>1. i \notin bad
      <4>1. ASSUME i \in bad PROVE FALSE
        <5>1. files'[i] = Part(i)
          BY <1>2, <4>1
        <5>. QED  BY <5>1, <2>1 DEF Part
      <4>. QED  BY <4>1
    <3>2. ~files[i].part
      BY <1>4, <2>1, <3>1
    <3>3. files[i] = Real(i) /\ disk[Real(i)] # Absent /\ Len(disk[Real(i)]) = Lens[i]
      BY <1>1, <3>2 DEF IInv, EntryFull
    <3>. QED  BY <1>4, <3>1, <3>3
  <2>. QED  BY <2>1 DEF EntryFull
<1>. QED  BY <1>1, <1>5, <1>6, <1>7, <1>8, <1>9, <1>10 DEF IInv, TypeOK

\* A Cleanup step keeps the inductive invariant.
LEMMA CleanupIInv == IInv /\ Cleanup => IInv'
<1> SUFFICES ASSUME IInv, Cleanup PROVE IInv'
  OBVIOUS
<1> DEFINE parts == {files[i] : i \in {j \in Idx : files[j].part}}
<1>1. /\ disk' = [x \in Name |->
                    CASE x \in parts -> Absent
                      [] \E e \in parts : x = [e EXCEPT !.part = FALSE] ->
                           LET e == CHOOSE e \in parts : x = [e EXCEPT !.part = FALSE]
                           IN  IF disk[e] = Absent THEN disk[x] ELSE disk[e]
                      [] OTHER -> disk[x]]
      /\ last' = [op |-> "cleanup", off |-> 0, data |-> <<>>,
                   err |-> N > 0 /\ files[N].part /\ disk[files[N]] = Absent]
      /\ UNCHANGED <<files, opened>>
  BY DEF Cleanup
<1>2. parts \subseteq Name /\ \A e \in parts : e.part
  BY DEF IInv, TypeOK
<1>3. ASSUME NEW x \in Name PROVE disk'[x] \in Seq(Byte) \cup {Absent}
  <2>1. CASE x \in parts
    <3>1. ~\E e \in parts : x = [e EXCEPT !.part = FALSE]
      BY <1>2, <2>1 DEF Name
    <3>. QED  BY <1>1, <2>1, <3>1
  <2>2. CASE x \notin parts /\ \E e \in parts : x = [e EXCEPT !.part = FALSE]
    <3> DEFINE e == CHOOSE e \in parts : x = [e EXCEPT !.part = FALSE]
    <3>1. e \in parts
      BY <2>2
    <3>2. disk'[x] = IF disk[e] = Absent THEN disk[x] ELSE disk[e]
      BY <1>1, <2>2
    <3>. QED  BY <1>2, <3>1, <3>2 DEF IInv, TypeOK
  <2>3. CASE x \notin parts /\ ~\E e \in parts : x = [e EXCEPT !.part = FALSE]
    BY <1>1, <2>3 DEF IInv, TypeOK
  <2>. QED  BY <2>1, <2>2, <2>3
<1>4. disk' \in [Name -> Seq(Byte) \cup {Absent}]
  BY <1>1, <1>3
<1>5. last' \in [op : {"none", "open", "read", "write", "setbad", "cleanup"},
                  off : Nat, data : UNION {[1..k -> Byte] : k \in 0..MaxIO},
                  err : BOOLEAN]
  <2>1. <<>> \in [1..0 -> Byte] /\ 0 \in 0..MaxIO
    BY FileStoreAssumption
  <2>. QED  BY <1>1, <2>1
<1>6. ASSUME NEW i \in Idx, ~files[i].part PROVE disk'[Real(i)] = disk[Real(i)]
  <2>1. Real(i) \in Name /\ Real(i) \notin parts
    BY <1>2, NameSpec DEF Real
  <2>2. ~\E e \in parts : Real(i) = [e EXCEPT !.part = FALSE]
    <3>1. SUFFICES ASSUME NEW j \in Idx, files[j].part,
                          Real(i) = [files[j] EXCEPT !.part = FALSE]
                   PROVE  FALSE
      OBVIOUS
    <3>2. files[j].idx = j /\ files[j] \in Name
      BY DEF IInv, EntriesNamed, TypeOK
    <3>3. [files[j] EXCEPT !.part = FALSE].idx = j
      BY <3>2 DEF Name
    <3>4. i = j
      BY <3>1, <3>3 DEF Real
    <3>. QED  BY <3>1, <3>4, <1>6
  <2>. QED  BY <1>1, <2>1, <2>2
<1>7. EntryFull'
  BY <1>1, <1>6 DEF IInv, EntryFull
<1>. QED  BY <1>1, <1>4, <1>5, <1>7 DEF IInv, TypeOK, EntriesNamed

-----------------------------------------------------------------------------
(* The loops of ReadAt and WriteAt.                                          *)

\* The byte at logical offset o when the file system is d.
ViewIn(d, o) ==
    LET i == EntryAt(o)
        c == d[files[i]]
    IN  IF c = Absent \/ Len(c) <= o - Off[i] THEN Absent ELSE c[o - Off[i] + 1]

\* View is ViewIn on the current file system.
LEMMA ViewIsViewIn == \A o : View(o) = ViewIn(disk, o)
  BY DEF View, ViewIn, EntryAt

\* Across a step that keeps the entries' names, View is ViewIn on the new
\* file system.
LEMMA ViewNext ==
    ASSUME files' = files PROVE \A o : View(o)' = ViewIn(disk', o)
  BY DEF View, ViewIn, EntryAt

\* The byte at an offset of a known entry.
LEMMA ViewInAt ==
    ASSUME NEW d, NEW o \in Nat, NEW i \in Idx, Off[i] <= o, o < Off[i] + Lens[i]
    PROVE  ViewIn(d, o) = IF d[files[i]] = Absent \/ Len(d[files[i]]) <= o - Off[i]
                          THEN Absent ELSE d[files[i]][o - Off[i] + 1]
<1>1. EntryAt(o) = i
  BY EntryAtSpec
<1>. QED  BY <1>1 DEF ViewIn

ReadIt(off, n) ==
    CHOOSE it : it = [k \in 0..N |-> IF k = 0 THEN ReadInit(off, n) ELSE ReadIter(it[k - 1])]
ReadDef(v, k) == ReadIter(v)

\* The loop of ReadAt unfolds one iteration at a time.
LEMMA ReadLoopUnfold ==
    ASSUME NEW off, NEW n
    PROVE  /\ ReadLoop(off, n) = ReadIt(off, n)[N]
           /\ ReadIt(off, n)[0] = ReadInit(off, n)
           /\ \A k \in 1..N : ReadIt(off, n)[k] = ReadIter(ReadIt(off, n)[k - 1])
<1>1. FiniteNatInductiveDefConclusion(ReadIt(off, n), ReadInit(off, n), ReadDef, 0, N)
  <2>1. FiniteNatInductiveDefHypothesis(ReadIt(off, n), ReadInit(off, n), ReadDef, 0, N)
    BY DEF FiniteNatInductiveDefHypothesis, ReadIt, ReadDef
  <2>. QED  BY <2>1, LensType, FiniteNatInductiveDef
<1>2. ReadLoop(off, n) = ReadIt(off, n)[N]
  BY DEF ReadLoop, ReadIt
<1>. QED  BY <1>1, <1>2, LensType DEF FiniteNatInductiveDefConclusion, ReadDef

ReadState == [rem : Nat, off : Nat, idx : 1..(N + 1), data : Seq(Byte), err : BOOLEAN]

\* After k iterations of the loop of ReadAt(p, off0) with len(p) = n: the
\* bytes read so far are the store's bytes from off0 on, off has moved past
\* them, and while the loop goes on it stands at an entry it has not passed.
RInv(off0, n, k, s) ==
    /\ s \in ReadState
    /\ Len(s.data) + s.rem = n
    /\ s.off = off0 + Len(s.data)
    /\ s.rem > 0 /\ ~s.err => Off[s.idx] <= s.off /\ k < s.idx
    /\ \A j \in 1..Len(s.data) :
          off0 + j - 1 < Total /\ s.data[j] = ViewIn(disk, off0 + j - 1)

\* One iteration of the loop of ReadAt (fileEntry.ReadAt on one entry)
\* keeps RInv.
LEMMA ReadStepInv ==
    ASSUME IInv, NEW off0 \in Nat, NEW n \in Nat, NEW k \in 0..(N - 1),
           NEW s, RInv(off0, n, k, s), s.rem > 0, s.idx <= N, ~s.err
    PROVE  RInv(off0, n, k + 1, ReadStep(s))
<1> DEFINE e == files[s.idx]
           c == disk[e]
           io == s.off - Off[s.idx]
           chunk == MinOf(s.rem, Lens[s.idx] - io)
           got == IF c = Absent THEN 0 ELSE MinOf(chunk, MaxOf(0, Len(c) - io))
<1> HIDE DEF e, c, io, chunk, got
<1>0. /\ s \in ReadState
      /\ Off[s.idx] <= s.off /\ k < s.idx
      /\ s.idx \in Idx
  BY DEF RInv, ReadState, Idx
<1>1. /\ s.idx \in Idx /\ Lens[s.idx] \in Nat /\ Off[s.idx] \in Nat /\ Off[s.idx + 1] \in Nat
      /\ Off[s.idx + 1] = Off[s.idx] + Lens[s.idx]
      /\ io \in Nat /\ s.off \in Nat /\ k < s.idx /\ s.idx \in 1..N
  <2>1. s.idx \in 1..(N + 1) /\ s.idx + 1 \in 1..(N + 1)
    BY <1>0, LensType DEF Idx
  <2>2. Off[s.idx] \in Nat /\ Off[s.idx + 1] \in Nat
    BY <2>1, OffType
  <2>3. Off[s.idx + 1] = Off[s.idx] + Lens[s.idx] /\ Lens[s.idx] \in Nat
    BY <1>0, OffStep, LensType
  <2>. QED  BY <1>0, <2>2, <2>3 DEF ReadState, Idx, io
<1>2. Off[s.idx + 1] <= Total
  <2>1. s.idx + 1 \in 1..(N + 1)
    BY <1>0, LensType DEF Idx
  <2>. QED  BY <2>1, TotalType
<1>3. e \in Name /\ c \in Seq(Byte) \cup {Absent}
  BY <1>0 DEF IInv, TypeOK, e, c
<1>7. /\ s.rem \in Nat /\ s.data \in Seq(Byte) /\ s.err \in BOOLEAN
      /\ Len(s.data) \in Nat
      /\ Len(s.data) + s.rem = n
      /\ s.off = off0 + Len(s.data)
  BY <1>0 DEF RInv, ReadState
<1>8. \A j \in 1..Len(s.data) :
         off0 + j - 1 < Total /\ s.data[j] = ViewIn(disk, off0 + j - 1)
  BY DEF RInv
<1>4. CASE io >= Lens[s.idx]
  <2> DEFINE t == [s EXCEPT !.idx = @ + 1]
  <2> HIDE DEF t
  <2>1. ReadStep(s) = t
    BY <1>1, <1>4 DEF ReadStep, e, c, io, chunk, got, t
  <2>2. t \in ReadState
    <3>1. s.idx + 1 \in 1..(N + 1)
      BY <1>1, LensType
    <3>. QED  BY <1>0, <3>1 DEF ReadState, t
  <2>3. t.data = s.data /\ t.rem = s.rem /\ t.off = s.off /\ t.err = s.err
        /\ t.idx = s.idx + 1
    BY <1>0 DEF ReadState, t
  <2>4. Off[t.idx] <= t.off /\ k + 1 < t.idx
    BY <1>1, <1>4, <2>3 DEF io
  <2>. QED  BY <1>7, <1>8, <2>1, <2>2, <2>3, <2>4 DEF RInv
<1>5. CASE io < Lens[s.idx] /\ c = Absent
  <2> DEFINE t == [s EXCEPT !.err = TRUE]
  <2> HIDE DEF t
  <2>1. ReadStep(s) = t
    BY <1>1, <1>5 DEF ReadStep, e, c, io, chunk, got, t
  <2>2. t \in ReadState
    BY <1>0 DEF ReadState, t
  <2>3. t.data = s.data /\ t.rem = s.rem /\ t.off = s.off /\ t.err
    BY <1>0 DEF ReadState, t
  <2>. QED  BY <1>7, <1>8, <2>1, <2>2, <2>3 DEF RInv
<1>6. CASE io < Lens[s.idx] /\ c # Absent
  <2> DEFINE piece == SubSeq(c, io + 1, io + got)
             t == [s EXCEPT !.data = @ \o piece,
                            !.rem = @ - got, !.off = @ + got,
                            !.idx = @ + 1, !.err = got < chunk]
  <2> HIDE DEF piece, t
  <2>1. ReadStep(s) = t
    BY <1>1, <1>6 DEF ReadStep, e, c, io, chunk, got, piece, t
  <2>2. c \in Seq(Byte) /\ Len(c) \in Nat
    BY <1>3, <1>6 DEF c
  <2>3. chunk \in 1..s.rem /\ chunk <= Lens[s.idx] - io
        /\ (chunk < s.rem => chunk = Lens[s.idx] - io)
    <3>1. chunk = MinOf(s.rem, Lens[s.idx] - io)
      BY DEF chunk
    <3>2. s.rem \in Nat /\ s.rem > 0 /\ io \in Nat /\ Lens[s.idx] \in Nat /\ io < Lens[s.idx]
      BY <1>1, <1>6, <1>7
    <3>. QED  BY ONLY <3>1, <3>2 DEF MinOf
  <2>4. got \in 0..chunk /\ (got > 0 => io + got <= Len(c))
    BY <1>1, <1>6, <2>2, <2>3 DEF MinOf, MaxOf, got
  <2>5. piece \in Seq(Byte) /\ Len(piece) = got
        /\ \A u \in 1..got : piece[u] = c[io + u]
    <3>1. io \in Nat /\ got \in Nat
      BY <1>1, <2>3, <2>4
    <3>. QED  BY <2>2, <2>4, <3>1, SubSeqSpec DEF piece
  <2>6. /\ t.data = s.data \o piece /\ t.rem = s.rem - got /\ t.off = s.off + got
        /\ t.idx = s.idx + 1 /\ t.err = (got < chunk)
    BY <1>0 DEF ReadState, t
  <2>7. t \in ReadState
    <3>1. s.data \o piece \in Seq(Byte)
      <4>1. s.data \in Seq(Byte) /\ piece \in Seq(Byte)
        BY <1>7, <2>5
      <4>. QED  BY <4>1, ConcatProperties
    <3>2. s.rem - got \in Nat /\ s.off + got \in Nat
      BY <1>1, <1>7, <2>3, <2>4, SMTT(20)
    <3>3. s.idx + 1 \in 1..(N + 1)
      BY <1>1, LensType
    <3>4. (got < chunk) \in BOOLEAN
      OBVIOUS
    <3>. QED  BY <1>0, <3>1, <3>2, <3>3, <3>4 DEF ReadState, t
  <2>8. Len(t.data) = Len(s.data) + got
    <3>1. s.data \in Seq(Byte) /\ piece \in Seq(Byte)
      BY <1>7, <2>5
    <3>2. Len(s.data \o piece) = Len(s.data) + Len(piece)
      BY <3>1, ConcatProperties
    <3>. QED  BY <2>5, <2>6, <3>2
  <2>9. Len(t.data) + t.rem = n /\ t.off = off0 + Len(t.data)
    <3>1. got \in Nat /\ s.rem \in Nat /\ Len(s.data) \in Nat /\ s.off \in Nat
      BY <1>7, <2>3, <2>4
    <3>2. t.rem = s.rem - got /\ t.off = s.off + got /\ Len(t.data) = Len(s.data) + got
      BY <2>6, <2>8
    <3>3. Len(s.data) + s.rem = n /\ s.off = off0 + Len(s.data)
      BY <1>7
    <3>. QED  BY <3>1, <3>2, <3>3
  <2>10. t.rem > 0 /\ ~t.err => Off[t.idx] <= t.off /\ k + 1 < t.idx
    <3>1. k + 1 < t.idx
      BY <1>1, <2>6
    <3>2. CASE got < chunk
      <4>1. t.err
        BY <2>6, <3>2
      <4>. QED  BY <4>1
    <3>3. CASE ~(got < chunk)
      <4>1. got = chunk
        BY <2>3, <2>4, <3>3
      <4>2. t.rem > 0 => chunk < s.rem
        <5>1. got \in Nat /\ s.rem \in Nat /\ t.rem = s.rem - got
          BY <1>7, <2>4, <2>6
        <5>. QED  BY <4>1, <5>1
      <4>3. t.rem > 0 => s.off + got = Off[s.idx + 1]
        BY <1>1, <2>3, <4>1, <4>2 DEF io
      <4>. QED  BY <1>1, <2>6, <3>1, <4>3
    <3>. QED  BY <3>1, <3>2, <3>3
  <2>11. \A j \in 1..Len(t.data) :
            off0 + j - 1 < Total /\ t.data[j] = ViewIn(disk, off0 + j - 1)
    <3> SUFFICES ASSUME NEW j \in Nat, 1 <= j, j <= Len(s.data) + got
                 PROVE  off0 + j - 1 < Total /\ t.data[j] = ViewIn(disk, off0 + j - 1)
      BY <1>7, <2>4, <2>8
    <3>0. s.data \in Seq(Byte) /\ piece \in Seq(Byte) /\ Len(s.data) \in Nat
          /\ t.data = s.data \o piece /\ j \in 1..(Len(s.data) + Len(piece))
      BY <1>7, <2>5, <2>6
    <3>1. CASE j <= Len(s.data)
      <4>1. t.data[j] = s.data[j]
        BY <3>0, <3>1, ConcatProperties
      <4>2. j \in 1..Len(s.data)
        BY <3>0, <3>1
      <4>. QED  BY <1>8, <4>1, <4>2
    <3>2. CASE ~(j <= Len(s.data))
      <4>0. PICK ls \in Nat : ls = Len(s.data)
        BY <3>0
      <4>1. PICK w \in 1..got : j = ls + w
        <5>1. ls \in Nat /\ got \in Nat /\ j \in Nat /\ ~(j <= ls) /\ j <= ls + got
          BY <2>4, <2>5, <3>0, <3>2, <4>0
        <5>2. j - ls \in 1..got /\ j = ls + (j - ls)
          BY ONLY <5>1
        <5>. QED  BY <5>2
      <4>2. t.data[j] = piece[w]
        BY <3>0, <3>2, <4>0, <4>1, ConcatProperties
      <4>3. PICK q \in Nat : q = off0 + j - 1 /\ q = s.off + w - 1
        <5>1. s.off = off0 + ls /\ off0 \in Nat /\ w \in Nat /\ w >= 1
          BY <1>7, <4>0, <4>1
        <5>2. off0 + j - 1 \in Nat /\ off0 + j - 1 = s.off + w - 1
          BY ONLY <4>1, <5>1
        <5>. QED  BY <5>2
      <4>4. PICK lc \in Nat : lc = Len(c)
        BY <2>2
      <4>5. /\ io + w <= lc /\ q - Off[s.idx] = io + w - 1
            /\ Off[s.idx] <= q /\ q < Off[s.idx] + Lens[s.idx]
        <5>1. io \in Nat /\ got \in Nat /\ Off[s.idx] \in Nat /\ Lens[s.idx] \in Nat
              /\ s.off = Off[s.idx] + io
          BY <1>1, <2>4 DEF io
        <5>2. io + got <= lc /\ got <= Lens[s.idx] - io
          BY <1>1, <2>3, <2>4, <4>1, <4>4
        <5>. QED  BY ONLY <4>1, <4>3, <5>1, <5>2
      <4>6. ViewIn(disk, q) = c[io + w]
        <5>1. ViewIn(disk, q) = IF disk[files[s.idx]] = Absent
                                   \/ Len(disk[files[s.idx]]) <= q - Off[s.idx]
                                THEN Absent ELSE disk[files[s.idx]][q - Off[s.idx] + 1]
          <6>1. s.idx \in Idx /\ q \in Nat /\ Off[s.idx] <= q /\ q < Off[s.idx] + Lens[s.idx]
            BY <1>1, <4>3, <4>5
          <6>. QED  BY <6>1, ViewInAt
        <5>2. ~(Len(c) <= q - Off[s.idx]) /\ q - Off[s.idx] + 1 = io + w
          <6>1. Off[s.idx] \in Nat /\ io \in Nat /\ w \in Nat
            BY <1>1, <4>1
          <6>. QED  BY ONLY <4>3, <4>4, <4>5, <6>1
        <5>. QED  BY <1>6, <5>1, <5>2 DEF c, e
      <4>7. q < Total
        <5>1. Off[s.idx] + Lens[s.idx] = Off[s.idx + 1] /\ Off[s.idx + 1] <= Total
              /\ Off[s.idx] \in Nat /\ Lens[s.idx] \in Nat /\ Total \in Nat
          BY <1>1, <1>2, TotalType
        <5>. QED  BY ONLY <4>3, <4>5, <5>1
      <4>. QED  BY <2>5, <4>1, <4>2, <4>3, <4>6, <4>7
    <3>. QED  BY <3>1, <3>2
  <2>. QED  BY <2>1, <2>7, <2>9, <2>10, <2>11 DEF RInv
<1>. QED  BY <1>4, <1>5, <1>6, <1>1

\* RInv holds before the first iteration of the loop of ReadAt.
LEMMA ReadInitInv ==
    ASSUME NEW off0 \in Nat, NEW n \in Nat
    PROVE  RInv(off0, n, 0, ReadInit(off0, n))
<1> DEFINE s == ReadInit(off0, n)
<1>1. find(off0) \in Idx /\ Off[find(off0)] <= off0
  BY FindSpec
<1>2. s.rem = n /\ s.off = off0 /\ s.idx = find(off0) /\ s.data = << >> /\ ~s.err
  BY DEF ReadInit
<1>3. s \in ReadState
  BY <1>1, LensType DEF ReadInit, ReadState, Idx
<1>. QED  BY <1>1, <1>2, <1>3 DEF RInv, Idx

\* Every iteration of the loop of ReadAt keeps RInv: a step by ReadStepInv,
\* and once the loop has stopped because rem = 0, an error, or idx > N.
LEMMA ReadLoopInv ==
    ASSUME IInv, NEW off0 \in Nat, NEW n \in Nat
    PROVE  \A k \in 0..N : RInv(off0, n, k, ReadIt(off0, n)[k])
<1> DEFINE it == ReadIt(off0, n)
           T == {k \in 0..N : ~RInv(off0, n, k, it[k])}
<1> HIDE DEF it
<1> SUFFICES T = {} BY DEF T, it
<1> USE LensType
<1>0. N + 1 \in Nat /\ T \in SUBSET (0..(N + 1))
  BY DEF T
<1>1. SUFFICES ASSUME T # {} PROVE FALSE
  OBVIOUS
<1>2. PICK k \in T : \A j \in T : k <= j
  BY <1>0, <1>1, LeastElement
<1>3. k \in 0..N /\ ~RInv(off0, n, k, it[k])
  BY <1>2 DEF T
<1>4. CASE k = 0
  <2>1. it[0] = ReadInit(off0, n)
    BY ReadLoopUnfold DEF it
  <2>. QED  BY <1>3, <1>4, <2>1, ReadInitInv
<1>5. CASE k # 0
  <2> DEFINE s == it[k - 1]
  <2>1. k - 1 \in 0..N /\ k - 1 \notin T
    BY <1>2, <1>3, <1>5
  <2>2. RInv(off0, n, k - 1, s)
    BY <2>1 DEF T
  <2>3. it[k] = ReadIter(s)
    BY <1>3, <1>5, ReadLoopUnfold DEF it
  <2>4. CASE s.rem > 0 /\ s.idx <= N /\ ~s.err
    <3>1. it[k] = ReadStep(s)
      BY <2>3, <2>4 DEF ReadIter
    <3>2. k - 1 \in 0..(N - 1)
      BY <1>3, <1>5
    <3>. QED  BY <1>3, <2>2, <2>4, <3>1, <3>2, ReadStepInv
  <2>5. CASE ~(s.rem > 0 /\ s.idx <= N /\ ~s.err)
    <3>1. it[k] = s
      BY <2>3, <2>5 DEF ReadIter
    <3>2. s.idx \in 1..(N + 1)
      BY <2>2 DEF RInv, ReadState
    <3>3. s.rem > 0 /\ ~s.err => k < s.idx
      BY <1>3, <2>5, <3>2
    <3>. QED  BY <1>3, <2>2, <3>1, <3>3 DEF RInv
  <2>. QED  BY <2>4, <2>5
<1>. QED  BY <1>4, <1>5

\* A byte sequence no longer than MaxIO is a buffer a call may return.
LEMMA DataType ==
    ASSUME NEW x \in Seq(Byte), Len(x) <= MaxIO
    PROVE  x \in UNION {[1..k -> Byte] : k \in 0..MaxIO}
<1>1. x \in [1..Len(x) -> Byte] /\ Len(x) \in 0..MaxIO
  BY LenProperties
<1>. QED  BY <1>1

\* A ReadAt step keeps IInv, and the bytes it returns are the store's
\* bytes from off on, then zeros past the end of the store.
LEMMA ReadAtStep ==
    ASSUME IInv, NEW off \in Offset, NEW n \in 1..MaxIO, ReadAt(off, n)
    PROVE  IInv' /\ ReadWriteRoundTrip'
<1> DEFINE r == ReadLoop(off, n)
           zeros == [k \in 1..r.rem |-> 0]
<1> HIDE DEF r, zeros
<1>0. off \in Nat /\ n \in Nat /\ n <= MaxIO /\ Total \in Nat
  BY TotalType DEF Offset
<1>1. RInv(off, n, N, r)
  <2>1. r = ReadIt(off, n)[N] /\ N \in 0..N
    BY ReadLoopUnfold, LensType DEF r
  <2>. QED  BY <1>0, <2>1, ReadLoopInv
<1>2. /\ last' = [op |-> "read", off |-> off, err |-> r.err,
                  data |-> IF r.err THEN r.data ELSE r.data \o zeros]
      /\ UNCHANGED <<files, disk, opened>>
  BY DEF ReadAt, r, zeros
<1>3. /\ r \in ReadState
      /\ Len(r.data) + r.rem = n
      /\ r.off = off + Len(r.data)
      /\ r.rem > 0 /\ ~r.err => Off[r.idx] <= r.off /\ N < r.idx
      /\ \A j \in 1..Len(r.data) :
            off + j - 1 < Total /\ r.data[j] = ViewIn(disk, off + j - 1)
  BY <1>1 DEF RInv
<1>4. /\ r.data \in Seq(Byte) /\ r.rem \in Nat /\ r.err \in BOOLEAN /\ r.off \in Nat
      /\ r.idx \in 1..(N + 1)
  BY <1>3 DEF ReadState
<1>5. PICK ld \in Nat : ld = Len(r.data)
  BY <1>4
<1>6. zeros \in Seq(Byte) /\ Len(zeros) = r.rem
  <2>1. PICK rr \in Nat : rr = r.rem
    BY <1>4
  <2>2. zeros = [k \in 1..rr |-> 0] /\ 0 \in Byte
    BY <2>1, FileStoreAssumption DEF zeros
  <2>3. [k \in 1..rr |-> 0] \in Seq(Byte) /\ Len([k \in 1..rr |-> 0]) = rr
    BY ONLY <2>1, <2>2
  <2>. QED  BY <2>1, <2>2, <2>3
<1>7. r.data \o zeros \in Seq(Byte) /\ Len(r.data \o zeros) = ld + r.rem
  <2>1. r.data \in Seq(Byte) /\ zeros \in Seq(Byte)
    BY <1>4, <1>6
  <2>2. r.data \o zeros \in Seq(Byte) /\ Len(r.data \o zeros) = Len(r.data) + Len(zeros)
    BY <2>1, ConcatProperties
  <2>. QED  BY <1>5, <1>6, <2>2
<1>8. last'.data \in UNION {[1..k -> Byte] : k \in 0..MaxIO}
  <2>1. CASE r.err
    <3>1. last'.data = r.data
      BY <1>2, <2>1
    <3>2. Len(r.data) <= MaxIO
      <4>1. ld + r.rem = n /\ r.rem \in Nat
        BY <1>3, <1>4, <1>5
      <4>. QED  BY ONLY <1>0, <1>5, <4>1, FileStoreAssumption
    <3>. QED  BY <1>4, <3>1, <3>2, DataType
  <2>2. CASE ~r.err
    <3>1. last'.data = r.data \o zeros /\ Len(r.data \o zeros) <= MaxIO
      BY <1>0, <1>2, <1>3, <1>5, <1>7, <2>2
    <3>. QED  BY <1>7, <3>1, DataType
  <2>. QED  BY <1>4, <2>1, <2>2
<1>9. IInv'
  <2>1. TypeOK'
    BY <1>0, <1>2, <1>4, <1>8 DEF IInv, TypeOK
  <2>2. EntriesNamed' /\ EntryFull'
    BY <1>2 DEF IInv, EntriesNamed, EntryFull
  <2>. QED  BY <2>1, <2>2 DEF IInv
<1>10. ReadWriteRoundTrip'
  <2>1. last'.op = "read"
    BY <1>2
  <2>2. SUFFICES ASSUME ~last'.err, NEW k \in DOMAIN last'.data
                 PROVE  last'.data[k] = IF off + k - 1 < Total
                                        THEN View(off + k - 1)' ELSE 0
    BY <1>2, <2>1 DEF ReadWriteRoundTrip
  <2>3. ~r.err /\ last'.data = r.data \o zeros
    BY <1>2, <2>2
  <2>4. k \in 1..(ld + r.rem)
    BY <1>4, <1>5, <1>7, <2>3, LenProperties
  <2>5. View(off + k - 1)' = ViewIn(disk, off + k - 1)
    <3>1. View(off + k - 1)' = View(off + k - 1)
      BY <1>2 DEF View
    <3>. QED  BY <3>1, ViewIsViewIn
  <2>6. CASE k <= ld
    <3>1. last'.data[k] = r.data[k]
      BY <1>4, <1>5, <1>6, <2>3, <2>4, <2>6, ConcatProperties
    <3>2. k \in 1..Len(r.data)
      BY <1>5, <2>4, <2>6
    <3>. QED  BY <1>3, <2>5, <3>1, <3>2
  <2>7. CASE ~(k <= ld)
    <3>1. last'.data[k] = zeros[k - ld] /\ k - ld \in 1..r.rem
      BY <1>4, <1>5, <1>6, <2>3, <2>4, <2>7, ConcatProperties
    <3>2. zeros[k - ld] = 0
      BY <3>1 DEF zeros
    <3>3. r.rem > 0
      BY <1>4, <2>4, <2>7
    <3>4. r.idx = N + 1 /\ Off[r.idx] <= r.off
      <4>1. N < r.idx /\ Off[r.idx] <= r.off
        BY <1>3, <2>3, <3>3
      <4>. QED  BY <1>4, <4>1, LensType
    <3>5. Total <= off + k - 1
      <4>1. Total <= r.off /\ r.off = off + ld
        BY <1>3, <1>5, <3>4 DEF Total
      <4>. QED  BY ONLY <1>0, <1>4, <1>5, <2>4, <2>7, <4>1
    <3>6. ~(off + k - 1 < Total)
      BY <1>0, <1>5, <2>4, <3>5
    <3>. QED  BY <3>1, <3>2, <3>6
  <2>. QED  BY <2>6, <2>7
<1>. QED  BY <1>9, <1>10

WriteIt(off, data) ==
    CHOOSE it : it = [k \in 0..N |-> IF k = 0 THEN WriteInit(off, data)
                                     ELSE WriteIter(it[k - 1])]
WriteDef(v, k) == WriteIter(v)

\* The loop of WriteAt unfolds one iteration at a time.
LEMMA WriteLoopUnfold ==
    ASSUME NEW off, NEW data
    PROVE  /\ WriteLoop(off, data) = WriteIt(off, data)[N]
           /\ WriteIt(off, data)[0] = WriteInit(off, data)
           /\ \A k \in 1..N : WriteIt(off, data)[k] = WriteIter(WriteIt(off, data)[k - 1])
<1>1. FiniteNatInductiveDefConclusion(WriteIt(off, data), WriteInit(off, data), WriteDef, 0, N)
  <2>1. FiniteNatInductiveDefHypothesis(WriteIt(off, data), WriteInit(off, data), WriteDef, 0, N)
    BY DEF FiniteNatInductiveDefHypothesis, WriteIt, WriteDef
  <2>. QED  BY <2>1, LensType, FiniteNatInductiveDef
<1>2. WriteLoop(off, data) = WriteIt(off, data)[N]
  BY DEF WriteLoop, WriteIt
<1>. QED  BY <1>1, <1>2, LensType DEF FiniteNatInductiveDefConclusion, WriteDef

WState == [data : Seq(Byte), off : Nat, idx : 1..(N + 1),
           disk : [Name -> Seq(Byte) \cup {Absent}], err : BOOLEAN]

\* After k iterations of the loop of WriteAt(p, off0) with p = data0: the
\* bytes not yet written are the tail of data0 and off stands just before
\* them; while the loop goes on it stands at an entry it has not passed;
\* every entry on its real file still has a file of the entry's length;
\* and every byte written so far lies in an entry the loop has passed and
\* reads back as the byte of data0.
WInv(off0, data0, k, s) ==
    /\ s \in WState
    /\ Len(s.data) <= Len(data0)
    /\ s.off = off0 + (Len(data0) - Len(s.data))
    /\ \A j \in 1..Len(s.data) : s.data[j] = data0[Len(data0) - Len(s.data) + j]
    /\ s.data # << >> /\ ~s.err => Off[s.idx] <= s.off /\ k < s.idx
    /\ \A i \in Idx : ~files[i].part =>
          s.disk[files[i]] # Absent /\ Len(s.disk[files[i]]) = Lens[i]
    /\ \A j \in 1..(Len(data0) - Len(s.data)) :
          /\ off0 + j - 1 < Total
          /\ EntryAt(off0 + j - 1) < s.idx
          /\ ViewIn(s.disk, off0 + j - 1) = data0[j]

\* WInv holds before the first iteration of the loop of WriteAt.
LEMMA WriteInitInv ==
    ASSUME IInv, opened, NEW off0 \in Nat, NEW data0 \in Seq(Byte)
    PROVE  WInv(off0, data0, 0, WriteInit(off0, data0))
<1> DEFINE s == WriteInit(off0, data0)
<1>1. find(off0) \in Idx /\ Off[find(off0)] <= off0
  BY FindSpec
<1>2. s.data = data0 /\ s.off = off0 /\ s.idx = find(off0) /\ s.disk = disk /\ ~s.err
  BY DEF WriteInit
<1>3. s \in WState
  BY <1>1, LensType DEF WriteInit, WState, Idx, IInv, TypeOK
<1>4. \A i \in Idx : ~files[i].part =>
          disk[files[i]] # Absent /\ Len(disk[files[i]]) = Lens[i]
  BY DEF IInv, EntryFull
<1>5. PICK L \in Nat : L = Len(data0)
  OBVIOUS
<1>6. 1..(L - L) = {} /\ off0 + (L - L) = off0 /\ \A j \in 1..L : L - L + j = j
  BY ONLY <1>5
<1>. QED  BY <1>1, <1>2, <1>3, <1>4, <1>5, <1>6 DEF WInv, Idx

\* The byte at an offset depends only on the file of the entry holding it.
LEMMA ViewInFrame ==
    ASSUME NEW d, NEW d2, NEW o, d2[files[EntryAt(o)]] = d[files[EntryAt(o)]]
    PROVE  ViewIn(d2, o) = ViewIn(d, o)
  BY DEF ViewIn

\* Updating the fields of a loop state of WriteAt with typed values gives
\* a loop state.
LEMMA WStateExcept ==
    ASSUME NEW s \in WState, NEW d \in Seq(Byte), NEW o \in Nat, NEW i \in 1..(N + 1),
           NEW dk \in [Name -> Seq(Byte) \cup {Absent}]
    PROVE  [s EXCEPT !.data = d, !.off = o, !.idx = i, !.disk = dk] \in WState
  BY DEF WState

\* Every iteration of the loop of WriteAt keeps WInv.
LEMMA WriteStepInv ==
    ASSUME IInv, NEW off0 \in Nat, NEW data0 \in Seq(Byte), NEW k \in 0..(N - 1),
           NEW s, WInv(off0, data0, k, s), s.data # << >>, s.idx <= N, ~s.err
    PROVE  WInv(off0, data0, k + 1, WriteStep(s))
<1> DEFINE e == files[s.idx]
           io == s.off - Off[s.idx]
           chunk == MinOf(Len(s.data), Lens[s.idx] - io)
<1> HIDE DEF e, io, chunk
<1>0. /\ s \in WState
      /\ Off[s.idx] <= s.off /\ k < s.idx
      /\ s.idx \in Idx
  BY DEF WInv, WState, Idx
<1>1. /\ Lens[s.idx] \in Nat /\ Off[s.idx] \in Nat /\ Off[s.idx + 1] \in Nat
      /\ Off[s.idx + 1] = Off[s.idx] + Lens[s.idx] /\ Off[s.idx + 1] <= Total
      /\ io \in Nat /\ s.off \in Nat /\ s.idx \in 1..N /\ Total \in Nat
  <2>1. s.idx \in 1..(N + 1) /\ s.idx + 1 \in 1..(N + 1)
    BY <1>0, LensType DEF Idx
  <2>2. Off[s.idx] \in Nat /\ Off[s.idx + 1] \in Nat
    BY <2>1, OffType
  <2>3. Off[s.idx + 1] = Off[s.idx] + Lens[s.idx] /\ Lens[s.idx] \in Nat
    BY <1>0, OffStep, LensType
  <2>4. Off[s.idx + 1] <= Total /\ Total \in Nat
    BY <2>1, TotalType
  <2>. QED  BY <1>0, <2>2, <2>3, <2>4 DEF WState, Idx, io
<1>2. /\ e \in Name /\ e.idx = s.idx
      /\ s.disk[e] \in Seq(Byte) \cup {Absent}
  BY <1>0 DEF IInv, TypeOK, EntriesNamed, WState, e
<1>3. PICK L \in Nat : L = Len(s.data)
  BY <1>0 DEF WState
<1>4. PICK D \in Nat : D = Len(data0)
  OBVIOUS
<1>5. /\ s.data \in Seq(Byte) /\ s.disk \in [Name -> Seq(Byte) \cup {Absent}]
      /\ L >= 1 /\ L <= D /\ s.off = off0 + (D - L)
      /\ \A j \in 1..L : s.data[j] = data0[D - L + j]
  <2>1. s.data \in Seq(Byte) /\ s.disk \in [Name -> Seq(Byte) \cup {Absent}]
    BY <1>0 DEF WState
  <2>2. L # 0
    BY <1>3, <2>1, EmptySeq
  <2>3. /\ Len(s.data) <= Len(data0)
        /\ s.off = off0 + (Len(data0) - Len(s.data))
        /\ \A j \in 1..Len(s.data) : s.data[j] = data0[Len(data0) - Len(s.data) + j]
    BY DEF WInv
  <2>4. L >= 1 /\ L <= D /\ s.off = off0 + (D - L)
    BY ONLY <1>3, <1>4, <2>2, <2>3
  <2>. QED  BY <1>3, <1>4, <2>1, <2>3, <2>4
<1>6. /\ \A i \in Idx : ~files[i].part =>
            s.disk[files[i]] # Absent /\ Len(s.disk[files[i]]) = Lens[i]
      /\ \A j \in 1..(D - L) :
            /\ off0 + j - 1 < Total
            /\ EntryAt(off0 + j - 1) < s.idx
            /\ ViewIn(s.disk, off0 + j - 1) = data0[j]
  BY <1>3, <1>4 DEF WInv
<1>7. CASE io >= Lens[s.idx]
  <2> DEFINE t == [s EXCEPT !.idx = @ + 1]
  <2> HIDE DEF t
  <2>1. WriteStep(s) = t
    BY <1>7 DEF WriteStep, e, io, chunk, t
  <2>2. t \in WState
    <3>1. s.idx + 1 \in 1..(N + 1)
      BY <1>1, LensType
    <3>. QED  BY <1>0, <3>1 DEF WState, t
  <2>3. t.data = s.data /\ t.off = s.off /\ t.disk = s.disk /\ t.err = s.err
        /\ t.idx = s.idx + 1
    BY <1>0 DEF WState, t
  <2>4. Off[t.idx] <= t.off /\ k + 1 < t.idx
    <3>1. Off[s.idx + 1] <= s.off
      BY <1>1, <1>7 DEF io
    <3>2. k \in Nat /\ k < s.idx /\ s.idx \in Nat
      BY <1>0, <1>1
    <3>. QED  BY <2>3, <3>1, <3>2
  <2>5. \A j \in 1..(D - L) : EntryAt(off0 + j - 1) < t.idx
    <3> SUFFICES ASSUME NEW j \in 1..(D - L) PROVE EntryAt(off0 + j - 1) < t.idx
      OBVIOUS
    <3>1. off0 + j - 1 \in 0..(Total - 1)
      <4>1. off0 + j - 1 < Total
        BY <1>6
      <4>2. Total \in Nat /\ off0 \in Nat /\ j \in Nat /\ j >= 1
        BY <1>1, <1>3, <1>4
      <4>. QED  BY ONLY <4>1, <4>2
    <3>2. EntryAt(off0 + j - 1) \in Idx /\ EntryAt(off0 + j - 1) < s.idx
      BY <1>6, <3>1, EntryAtIdx
    <3>. QED  BY <1>1, <2>3, <3>2 DEF Idx
  <2>. QED  BY <1>3, <1>4, <1>5, <1>6, <2>1, <2>2, <2>3, <2>4, <2>5 DEF WInv
<1>8. CASE io < Lens[s.idx] /\ s.disk[e] = Absent
  <2> DEFINE t == [s EXCEPT !.err = TRUE]
  <2> HIDE DEF t
  <2>1. WriteStep(s) = t
    BY <1>1, <1>8 DEF WriteStep, e, io, chunk, t
  <2>2. t \in WState
    BY <1>0 DEF WState, t
  <2>3. t.data = s.data /\ t.off = s.off /\ t.disk = s.disk /\ t.err /\ t.idx = s.idx
    BY <1>0 DEF WState, t
  <2>4. /\ Len(t.data) <= Len(data0)
        /\ t.off = off0 + (Len(data0) - Len(t.data))
        /\ \A j \in 1..Len(t.data) : t.data[j] = data0[Len(data0) - Len(t.data) + j]
    BY <2>3 DEF WInv
  <2>5. /\ \A i \in Idx : ~files[i].part =>
              t.disk[files[i]] # Absent /\ Len(t.disk[files[i]]) = Lens[i]
        /\ \A j \in 1..(Len(data0) - Len(t.data)) :
              /\ off0 + j - 1 < Total
              /\ EntryAt(off0 + j - 1) < t.idx
              /\ ViewIn(t.disk, off0 + j - 1) = data0[j]
    BY <2>3 DEF WInv
  <2>6. t.data # << >> /\ ~t.err => Off[t.idx] <= t.off /\ k + 1 < t.idx
    BY <2>3
  <2>. QED  BY <2>1, <2>2, <2>4, <2>5, <2>6 DEF WInv
<1>9. CASE io < Lens[s.idx] /\ s.disk[e] # Absent
  <2> DEFINE old == s.disk[e]
             piece == SubSeq(s.data, 1, chunk)
             nd == WriteBytes(old, io, piece)
             rest == SubSeq(s.data, chunk + 1, L)
             t == [s EXCEPT !.disk[e] = WriteBytes(@, io, SubSeq(s.data, 1, chunk)),
                            !.data = SubSeq(@, chunk + 1, Len(@)),
                            !.off = @ + chunk, !.idx = @ + 1]
  <2> HIDE DEF old, piece, nd, rest, t
  <2>1. WriteStep(s) = t
    BY <1>1, <1>9 DEF WriteStep, e, io, chunk, t
  <2>2. old \in Seq(Byte)
    BY <1>2, <1>9 DEF old
  <2>3. /\ chunk \in 1..L /\ io + chunk <= Lens[s.idx]
        /\ (chunk < L => io + chunk = Lens[s.idx])
    <3>1. chunk = MinOf(L, Lens[s.idx] - io)
      BY <1>3 DEF chunk
    <3>2. L \in Nat /\ L >= 1 /\ io \in Nat /\ Lens[s.idx] \in Nat /\ io < Lens[s.idx]
      BY <1>1, <1>3, <1>5, <1>9
    <3>. QED  BY ONLY <3>1, <3>2 DEF MinOf
  <2>4. /\ piece \in Seq(Byte) /\ Len(piece) = chunk
        /\ \A u \in 1..chunk : piece[u] = s.data[u]
    <3>1. chunk \in Nat /\ chunk <= Len(s.data) /\ s.data \in Seq(Byte)
      BY <1>3, <1>5, <2>3
    <3>. QED  BY <3>1, SubSeqPrefix DEF piece
  <2>5. /\ rest \in Seq(Byte) /\ Len(rest) = L - chunk
        /\ \A u \in 1..(L - chunk) : rest[u] = s.data[chunk + u]
    <3>1. chunk \in Nat /\ L - chunk \in Nat /\ (L - chunk > 0 => chunk + (L - chunk) <= Len(s.data))
      BY <1>3, <2>3
    <3>2. SubSeq(s.data, chunk + 1, chunk + (L - chunk)) = rest
      BY <1>3, <3>1 DEF rest
    <3>. QED  BY <1>5, <3>1, <3>2, SubSeqSpec
  <2>6. /\ nd \in Seq(Byte)
        /\ Len(nd) = MaxOf(Len(old), io + chunk)
        /\ \A u \in 1..chunk : nd[io + u] = piece[u]
    BY <1>1, <2>2, <2>4, WriteBytesSpec DEF nd
  <2>7. /\ t.data = rest /\ t.off = s.off + chunk /\ t.idx = s.idx + 1
        /\ t.err = s.err /\ t.disk = [s.disk EXCEPT ![e] = nd]
    BY <1>0, <1>3 DEF WState, t, rest, nd, old, piece
  <2>8. /\ t.disk \in [Name -> Seq(Byte) \cup {Absent}]
        /\ t.disk[e] = nd
        /\ \A x \in Name : x # e => t.disk[x] = s.disk[x]
    BY <1>2, <1>5, <2>6, <2>7
  <2>9. t \in WState
    <3>1. s.off + chunk \in Nat /\ s.idx + 1 \in 1..(N + 1)
      <4>1. s.off \in Nat /\ chunk \in Nat /\ s.idx \in 1..N /\ N \in Nat
        BY <1>1, <1>3, <2>3, LensType
      <4>. QED  BY ONLY <4>1
    <3>2. t = [s EXCEPT !.data = rest, !.off = s.off + chunk, !.idx = s.idx + 1,
                        !.disk = [s.disk EXCEPT ![e] = nd]]
      BY <1>3 DEF t, rest, nd, old, piece
    <3>3. [s.disk EXCEPT ![e] = nd] \in [Name -> Seq(Byte) \cup {Absent}]
      BY <2>7, <2>8
    <3>4. [s EXCEPT !.data = rest, !.off = s.off + chunk, !.idx = s.idx + 1,
                    !.disk = [s.disk EXCEPT ![e] = nd]] \in WState
      <4>1. s \in WState /\ rest \in Seq(Byte)
        BY <1>0, <2>5
      <4>. QED  BY <3>1, <3>3, <4>1, WStateExcept
    <3>. QED  BY <3>2, <3>4
  <2>10. PICK Lt \in Nat : Lt = Len(t.data)
    BY <2>5, <2>7
  <2>11. /\ Lt = L - chunk /\ Lt <= D /\ D - Lt = (D - L) + chunk
         /\ t.off = off0 + (D - Lt)
    <3>1. Lt = L - chunk /\ chunk \in 1..L
      BY <2>3, <2>5, <2>7, <2>10
    <3>2. t.off = s.off + chunk /\ s.off = off0 + (D - L) /\ off0 \in Nat
      BY <1>5, <2>7
    <3>. QED  BY ONLY <1>3, <1>4, <1>5, <2>10, <3>1, <3>2
  <2>12. \A j \in 1..Lt : t.data[j] = data0[D - Lt + j]
    <3> SUFFICES ASSUME NEW j \in 1..Lt PROVE t.data[j] = data0[D - Lt + j]
      OBVIOUS
    <3>1. t.data[j] = s.data[chunk + j] /\ chunk + j \in 1..L
      BY <2>3, <2>5, <2>7, <2>11
    <3>2. s.data[chunk + j] = data0[D - L + (chunk + j)]
      BY <1>5, <3>1
    <3>3. D - L + (chunk + j) = D - Lt + j
      BY <1>3, <1>4, <2>3, <2>11
    <3>. QED  BY <3>1, <3>2, <3>3
  <2>13. t.data # << >> /\ ~t.err => Off[t.idx] <= t.off /\ k + 1 < t.idx
    <3> SUFFICES ASSUME t.data # << >> PROVE Off[t.idx] <= t.off /\ k + 1 < t.idx
      OBVIOUS
    <3>1. Lt # 0
      BY <2>5, <2>7, <2>10, EmptySeq
    <3>2. chunk < L
      BY <2>3, <2>11, <3>1
    <3>3. t.off = Off[s.idx + 1]
      <4>1. io + chunk = Lens[s.idx] /\ s.off = Off[s.idx] + io
        BY <1>1, <2>3, <3>2 DEF io
      <4>. QED  BY <1>1, <2>3, <2>7, <4>1
    <3>4. k \in Nat /\ k < s.idx
      BY <1>0
    <3>. QED  BY <1>1, <2>7, <3>3, <3>4
  <2>14. \A i \in Idx : ~files[i].part =>
            t.disk[files[i]] # Absent /\ Len(t.disk[files[i]]) = Lens[i]
    <3> SUFFICES ASSUME NEW i \in Idx, ~files[i].part
                 PROVE  t.disk[files[i]] # Absent /\ Len(t.disk[files[i]]) = Lens[i]
      OBVIOUS
    <3>1. files[i] \in Name /\ files[i].idx = i
      BY DEF IInv, TypeOK, EntriesNamed
    <3>2. CASE i = s.idx
      <4>1. files[i] = e /\ Len(old) = Lens[i]
        BY <1>6, <3>2 DEF e, old
      <4>2. Len(nd) = Lens[i]
        <5>1. PICK lo \in Nat : lo = Len(old)
          BY <2>2
        <5>2. /\ Len(nd) = MaxOf(lo, io + chunk) /\ lo = Lens[s.idx]
              /\ io + chunk <= Lens[s.idx] /\ Lens[s.idx] \in Nat /\ io \in Nat
              /\ chunk \in Nat /\ i = s.idx
          BY <1>1, <1>3, <2>3, <2>6, <3>2, <4>1, <5>1
        <5>. QED  BY ONLY <5>1, <5>2 DEF MaxOf
      <4>3. nd # Absent
        BY <2>6, FileStoreAssumption
      <4>. QED  BY <2>8, <4>1, <4>2, <4>3
    <3>3. CASE i # s.idx
      <4>1. files[i] # e
        BY <1>2, <3>1, <3>3
      <4>. QED  BY <1>6, <2>8, <3>1, <4>1
    <3>. QED  BY <3>2, <3>3
  <2>15. \A j \in 1..(D - Lt) :
            /\ off0 + j - 1 < Total
            /\ EntryAt(off0 + j - 1) < t.idx
            /\ ViewIn(t.disk, off0 + j - 1) = data0[j]
    <3> SUFFICES ASSUME NEW j \in 1..(D - Lt)
                 PROVE  /\ off0 + j - 1 < Total
                        /\ EntryAt(off0 + j - 1) < t.idx
                        /\ ViewIn(t.disk, off0 + j - 1) = data0[j]
      OBVIOUS
    <3>1. CASE j <= D - L
      <4>1. j \in 1..(D - L)
        BY <1>3, <1>4, <3>1
      <4>2. /\ off0 + j - 1 < Total /\ EntryAt(off0 + j - 1) < s.idx
            /\ ViewIn(s.disk, off0 + j - 1) = data0[j]
        BY <1>6, <4>1
      <4>3. off0 + j - 1 \in 0..(Total - 1)
        BY ONLY <1>1, <4>1, <4>2
      <4>4. EntryAt(off0 + j - 1) \in Idx
        BY <4>3, EntryAtIdx
      <4>5. files[EntryAt(off0 + j - 1)] # e
        <5>1. files[EntryAt(off0 + j - 1)].idx = EntryAt(off0 + j - 1)
              /\ files[EntryAt(off0 + j - 1)] \in Name
          BY <4>4 DEF IInv, TypeOK, EntriesNamed
        <5>. QED  BY <1>1, <1>2, <4>2, <4>4, <5>1 DEF Idx
      <4>6. ViewIn(t.disk, off0 + j - 1) = ViewIn(s.disk, off0 + j - 1)
        <5>1. t.disk[files[EntryAt(off0 + j - 1)]] = s.disk[files[EntryAt(off0 + j - 1)]]
          BY <2>8, <4>4, <4>5 DEF IInv, TypeOK
        <5>. QED  BY <5>1, ViewInFrame
      <4>7. EntryAt(off0 + j - 1) < t.idx
        <5>1. EntryAt(off0 + j - 1) \in Nat /\ s.idx \in Nat /\ t.idx = s.idx + 1
          BY <1>1, <2>7, <4>4 DEF Idx
        <5>. QED  BY ONLY <4>2, <5>1
      <4>. QED  BY <4>2, <4>6, <4>7
    <3>2. CASE ~(j <= D - L)
      <4>1. PICK w \in 1..chunk : j = (D - L) + w
        <5>1. j - (D - L) \in 1..chunk /\ j = (D - L) + (j - (D - L))
          <6>1. /\ chunk \in Nat /\ chunk >= 1 /\ D \in Nat /\ L \in Nat /\ L <= D
                /\ j \in Nat /\ j <= D - Lt /\ ~(j <= D - L) /\ D - Lt = (D - L) + chunk
            BY <1>3, <1>4, <1>5, <2>3, <2>10, <2>11, <3>2
          <6>. QED  BY ONLY <6>1
        <5>. QED  BY <5>1
      <4>2. PICK q \in Nat : q = off0 + j - 1 /\ q = s.off + w - 1
        <5>1. s.off = off0 + (D - L) /\ D - L \in Nat /\ w \in Nat /\ w >= 1
          BY <1>5, <4>1
        <5>2. off0 + j - 1 \in Nat /\ off0 + j - 1 = s.off + w - 1
          BY ONLY <4>1, <5>1
        <5>. QED  BY <5>2
      <4>3. /\ Off[s.idx] <= q /\ q < Off[s.idx] + Lens[s.idx]
            /\ q - Off[s.idx] = io + w - 1 /\ q < Total
        <5>1. io \in Nat /\ Off[s.idx] \in Nat /\ Lens[s.idx] \in Nat
              /\ Off[s.idx] + Lens[s.idx] <= Total /\ Total \in Nat
          BY <1>1
        <5>2. s.off = Off[s.idx] + io
          BY <1>1 DEF io
        <5>3. io + chunk <= Lens[s.idx] /\ chunk \in Nat
          BY <1>3, <2>3
        <5>4. w \in Nat /\ 1 <= w /\ w <= chunk /\ q \in Nat
          BY <4>1, <4>2
        <5>. QED  BY ONLY <4>2, <5>1, <5>2, <5>3, <5>4, SMTT(30)
      <4>4. EntryAt(q) = s.idx
        <5>1. s.idx \in Idx /\ q \in Nat /\ Off[s.idx] <= q /\ q < Off[s.idx] + Lens[s.idx]
          BY <1>1, <4>2, <4>3 DEF Idx
        <5>. QED  BY <5>1, EntryAtSpec
      <4>5. ViewIn(t.disk, q) = nd[io + w]
        <5>1. ViewIn(t.disk, q) = IF t.disk[files[s.idx]] = Absent
                                     \/ Len(t.disk[files[s.idx]]) <= q - Off[s.idx]
                                  THEN Absent ELSE t.disk[files[s.idx]][q - Off[s.idx] + 1]
          <6>1. s.idx \in Idx /\ q \in Nat /\ Off[s.idx] <= q /\ q < Off[s.idx] + Lens[s.idx]
            BY <1>1, <4>2, <4>3 DEF Idx
          <6>. QED  BY <6>1, ViewInAt
        <5>2. t.disk[files[s.idx]] = nd /\ nd # Absent
          BY <2>6, <2>8, FileStoreAssumption DEF e
        <5>3. PICK ln \in Nat : ln = Len(nd)
          BY <2>6
        <5>4. ~(ln <= q - Off[s.idx]) /\ q - Off[s.idx] + 1 = io + w
          <6>1. ln >= io + chunk /\ io \in Nat /\ chunk \in Nat /\ Off[s.idx] \in Nat
            <7>1. Len(old) \in Nat /\ io \in Nat /\ chunk \in Nat
              BY <1>1, <2>2, <2>3
            <7>. QED  BY <1>1, <2>6, <5>3, <7>1 DEF MaxOf
          <6>. QED  BY ONLY <4>1, <4>3, <6>1
        <5>. QED  BY <5>1, <5>2, <5>3, <5>4
      <4>6. nd[io + w] = data0[j]
        <5>1. nd[io + w] = piece[w] /\ piece[w] = s.data[w]
          BY <2>4, <2>6, <4>1
        <5>2. w \in 1..L /\ s.data[w] = data0[D - L + w]
          BY <1>5, <2>3, <4>1
        <5>. QED  BY <4>1, <5>1, <5>2
      <4>7. EntryAt(off0 + j - 1) < t.idx
        <5>1. s.idx \in Nat /\ t.idx = s.idx + 1
          BY <1>1, <2>7
        <5>. QED  BY <4>2, <4>4, <5>1
      <4>8. ViewIn(t.disk, off0 + j - 1) = data0[j]
        BY <4>2, <4>5, <4>6
      <4>. QED  BY <4>2, <4>3, <4>7, <4>8
    <3>. QED  BY <3>1, <3>2
  <2>. QED  BY <1>4, <2>1, <2>9, <2>10, <2>11, <2>12, <2>13, <2>14, <2>15 DEF WInv
<1>. QED  BY <1>7, <1>8, <1>9, <1>1

\* Every iteration of the loop of WriteAt keeps WInv: a step by
\* WriteStepInv, and once the loop has stopped because every byte is
\* written, an error, or idx > N.
LEMMA WriteLoopInv ==
    ASSUME IInv, opened, NEW off0 \in Nat, NEW data0 \in Seq(Byte)
    PROVE  \A k \in 0..N : WInv(off0, data0, k, WriteIt(off0, data0)[k])
<1> DEFINE it == WriteIt(off0, data0)
           T == {k \in 0..N : ~WInv(off0, data0, k, it[k])}
<1> HIDE DEF it
<1> SUFFICES T = {} BY DEF T, it
<1> USE LensType
<1>0. N + 1 \in Nat /\ T \in SUBSET (0..(N + 1))
  BY DEF T
<1>1. SUFFICES ASSUME T # {} PROVE FALSE
  OBVIOUS
<1>2. PICK k \in T : \A j \in T : k <= j
  BY <1>0, <1>1, LeastElement
<1>3. k \in 0..N /\ ~WInv(off0, data0, k, it[k])
  BY <1>2 DEF T
<1>4. CASE k = 0
  <2>1. it[0] = WriteInit(off0, data0)
    BY WriteLoopUnfold DEF it
  <2>. QED  BY <1>3, <1>4, <2>1, WriteInitInv
<1>5. CASE k # 0
  <2> DEFINE s == it[k - 1]
  <2>1. k - 1 \in 0..N /\ k - 1 \notin T
    BY <1>2, <1>3, <1>5
  <2>2. WInv(off0, data0, k - 1, s)
    BY <2>1 DEF T
  <2>3. it[k] = WriteIter(s)
    BY <1>3, <1>5, WriteLoopUnfold DEF it
  <2>4. CASE s.data # << >> /\ s.idx <= N /\ ~s.err
    <3>1. it[k] = WriteStep(s)
      BY <2>3, <2>4 DEF WriteIter
    <3>2. k - 1 \in 0..(N - 1)
      BY <1>3, <1>5
    <3>. QED  BY <1>3, <2>2, <2>4, <3>1, <3>2, WriteStepInv
  <2>5. CASE ~(s.data # << >> /\ s.idx <= N /\ ~s.err)
    <3>1. it[k] = s
      BY <2>3, <2>5 DEF WriteIter
    <3>2. s.idx \in 1..(N + 1)
      BY <2>2 DEF WInv, WState
    <3>3. s.data # << >> /\ ~s.err => k < s.idx
      BY <1>3, <2>5, <3>2
    <3>. QED  BY <1>3, <2>2, <3>1, <3>3 DEF WInv
  <2>. QED  BY <2>4, <2>5
<1>. QED  BY <1>4, <1>5

\* A buffer passed to WriteAt is a byte sequence of a length a call may
\* return.
LEMMA BufferSpec ==
    ASSUME NEW b \in Buffer
    PROVE  /\ b \in Seq(Byte)
           /\ b \in UNION {[1..k -> Byte] : k \in 0..MaxIO}
  BY FileStoreAssumption DEF Buffer

\* A WriteAt step keeps IInv, and when it returns no error every byte it
\* was given that falls inside the store reads back from the store.
LEMMA WriteAtStep ==
    ASSUME IInv, NEW off \in Offset, NEW data \in Buffer, WriteAt(off, data)
    PROVE  IInv' /\ ReadWriteRoundTrip'
<1> DEFINE r == WriteLoop(off, data)
<1> HIDE DEF r
<1>0. /\ off \in Nat /\ Total \in Nat /\ opened
      /\ data \in Seq(Byte) /\ data \in UNION {[1..k -> Byte] : k \in 0..MaxIO}
  BY TotalType, BufferSpec DEF Offset, WriteAt
<1>1. WInv(off, data, N, r)
  <2>1. r = WriteIt(off, data)[N] /\ N \in 0..N
    BY WriteLoopUnfold, LensType DEF r
  <2>. QED  BY <1>0, <2>1, WriteLoopInv
<1>2. /\ disk' = r.disk
      /\ last' = [op |-> "write", off |-> off, data |-> data,
                  err |-> r.err \/ \E k \in DOMAIN r.data : r.data[k] # 0]
      /\ UNCHANGED <<files, opened>>
  BY DEF WriteAt, r
<1>3. /\ r \in WState
      /\ r.data # << >> /\ ~r.err => Off[r.idx] <= r.off /\ N < r.idx
      /\ \A i \in Idx : ~files[i].part =>
            r.disk[files[i]] # Absent /\ Len(r.disk[files[i]]) = Lens[i]
  BY <1>1 DEF WInv
<1>4. /\ r.data \in Seq(Byte) /\ r.err \in BOOLEAN /\ r.off \in Nat
      /\ r.idx \in 1..(N + 1) /\ r.disk \in [Name -> Seq(Byte) \cup {Absent}]
  BY <1>3 DEF WState
<1>5. IInv'
  <2>1. TypeOK'
    BY <1>0, <1>2, <1>4 DEF IInv, TypeOK
  <2>2. EntriesNamed'
    BY <1>2 DEF IInv, EntriesNamed
  <2>3. EntryFull'
    <3> SUFFICES ASSUME NEW i \in Idx, ~files'[i].part
                 PROVE  /\ files'[i] = Real(i)
                        /\ disk'[Real(i)] # Absent
                        /\ Len(disk'[Real(i)]) = Lens[i]
      BY DEF EntryFull
    <3>1. files[i] = Real(i) /\ ~files[i].part
      BY <1>0, <1>2 DEF IInv, EntryFull
    <3>. QED  BY <1>2, <1>3, <3>1
  <2>. QED  BY <2>1, <2>2, <2>3 DEF IInv
<1>6. ReadWriteRoundTrip'
  <2>1. last'.op = "write" /\ last'.off = off /\ last'.data = data
    BY <1>2
  <2>2. SUFFICES ASSUME ~last'.err, NEW k \in DOMAIN data, off + k - 1 < Total
                 PROVE  View(off + k - 1)' = data[k]
    BY <2>1 DEF ReadWriteRoundTrip
  <2>3. ~r.err
    BY <1>2, <2>2
  <2>4. PICK L \in Nat : L = Len(r.data)
    BY <1>4
  <2>5. PICK D \in Nat : D = Len(data)
    BY <1>0
  <2>6. /\ L <= D /\ r.off = off + (D - L)
        /\ \A j \in 1..(D - L) : ViewIn(r.disk, off + j - 1) = data[j]
    BY <1>1, <2>4, <2>5 DEF WInv
  <2>7. k \in 1..D
    BY <1>0, <2>5
  <2>8. View(off + k - 1)' = ViewIn(r.disk, off + k - 1)
    BY <1>2, ViewNext
  <2>9. k <= D - L
    <3> SUFFICES ASSUME ~(k <= D - L) PROVE FALSE
      OBVIOUS
    <3>1. L # 0
      BY <2>4, <2>5, <2>6, <2>7
    <3>2. r.data # << >>
      BY <1>4, <2>4, <3>1, EmptySeq
    <3>3. r.idx = N + 1 /\ Off[r.idx] <= r.off
      BY <1>3, <1>4, <2>3, <3>2, LensType
    <3>4. Total <= r.off
      BY <3>3 DEF Total
    <3>5. ~(k <= D - L)
      OBVIOUS
    <3>6. off + k - 1 < Total
      BY <2>2
    <3>7. k \in Nat
      BY <2>7
    <3>. QED  BY ONLY <1>0, <1>4, <2>4, <2>5, <2>6, <3>4, <3>5, <3>6, <3>7
  <2>. QED  BY <2>6, <2>7, <2>8, <2>9
<1>. QED  BY <1>5, <1>6

-----------------------------------------------------------------------------
\* Every step of the store keeps the inductive invariant.
LEMMA NextIInv == IInv /\ [Next]_vars => IInv'
<1> SUFFICES ASSUME IInv, [Next]_vars PROVE IInv'
  OBVIOUS
<1>1. CASE NewFileStore
  BY <1>1, NewFileStoreIInv
<1>2. CASE \E o \in Offset, n \in 1..MaxIO : ReadAt(o, n)
  BY <1>2, ReadAtStep
<1>3. CASE \E o \in Offset, b \in Buffer : WriteAt(o, b)
  BY <1>3, WriteAtStep
<1>4. CASE \E o \in 0..(Total - 1) : SetBad(o)
  BY <1>4, SetBadStep
<1>5. CASE Cleanup
  BY <1>5, CleanupIInv
<1>6. CASE UNCHANGED vars
  BY <1>6 DEF vars, IInv, TypeOK, EntriesNamed, EntryFull
<1>. QED  BY <1>1, <1>2, <1>3, <1>4, <1>5, <1>6 DEF Next

\* The store's invariant holds in every reachable state.
THEOREM IInvariant == Spec => []IInv
<1>1. Init => IInv
  BY InitIInv
<1>2. IInv /\ [Next]_vars => IInv'
  BY NextIInv
<1>. QED  BY <1>1, <1>2, PTL DEF Spec

\* Type correctness of the store: every entry names a backing file, every
\* file is a byte sequence or missing, and every call's record is typed.
THEOREM TypeCorrect == Spec => []TypeOK
<1>1. IInv => TypeOK
  BY DEF IInv
<1>. QED  BY <1>1, IInvariant, PTL

\* An entry that fileEntry.open kept on its real file keeps a file of the
\* entry's length there for as long as the store is open: the writes of
\* WriteAt stay inside the entry, and SetBad and Cleanup never shorten,
\* lengthen or remove such a file.
THEOREM WholeFilesKept == Spec => []EntryFull
<1>1. IInv => EntryFull
  BY DEF IInv
<1>. QED  BY <1>1, IInvariant, PTL

\* Reads and writes go to the right bytes: a ReadAt that succeeds returns
\* the store's bytes and zeros past its end, and after a WriteAt that
\* succeeds every byte given inside the store reads back (fileStore.ReadAt
\* and fileStore.WriteAt with their loops over entries).
THEOREM RoundTrip == Spec => []ReadWriteRoundTrip
<1>1. Init => ReadWriteRoundTrip
  BY DEF Init, ReadWriteRoundTrip
<1>2. IInv /\ ReadWriteRoundTrip /\ [Next]_vars => ReadWriteRoundTrip'
  <2> SUFFICES ASSUME IInv, ReadWriteRoundTrip, [Next]_vars PROVE ReadWriteRoundTrip'
    OBVIOUS
  <2>1. CASE \E o \in Offset, n \in 1..MaxIO : ReadAt(o, n)
    BY <2>1, ReadAtStep
  <2>2. CASE \E o \in Offset, b \in Buffer : WriteAt(o, b)
    BY <2>2, WriteAtStep
  <2>3. CASE NewFileStore \/ (\E o \in 0..(Total - 1) : SetBad(o)) \/ Cleanup
    <3>1. last'.op \notin {"read", "write"}
      BY <2>3 DEF NewFileStore, SetBad, Cleanup
    <3>. QED  BY <3>1 DEF ReadWriteRoundTrip
  <2>4. CASE UNCHANGED vars
    BY <2>4 DEF vars, ReadWriteRoundTrip, View
  <2>. QED  BY <2>1, <2>2, <2>3, <2>4 DEF Next
<1>. QED  BY <1>1, <1>2, IInvariant, PTL DEF Spec

\* A SetBad step changes no logical byte: every entry it moves to a .part
\* (fileEntry.SetPart: copyfile, then os.Truncate to the entry's length)
\* reads as before, whether its file was copied, cut or left alone.
THEOREM SetBadKeepsData == Spec => SetBadPreservesData
<1>1. IInv /\ [Next]_vars =>
        [last'.op = "setbad" => \A o \in 0..(Total - 1) : View(o)' = View(o)]_vars
  <2> SUFFICES ASSUME IInv, [Next]_vars
               PROVE  [last'.op = "setbad" => \A o \in 0..(Total - 1) : View(o)' = View(o)]_vars
    OBVIOUS
  <2>1. CASE \E from \in 0..(Total - 1) : SetBad(from)
    <3>1. \A i \in Idx : disk'[files'[i]] = disk[files[i]]
      BY <2>1, SetBadStep
    <3>2. ASSUME NEW o \in 0..(Total - 1) PROVE View(o)' = View(o)
      <4>1. EntryAt(o) \in Idx
        BY EntryAtIdx
      <4>2. disk'[files'[EntryAt(o)]] = disk[files[EntryAt(o)]]
        BY <3>1, <4>1
      <4>. QED  BY <4>2 DEF View, EntryAt
    <3>. QED  BY <3>2
  <2>2. CASE NewFileStore \/ (\E o \in Offset, n \in 1..MaxIO : ReadAt(o, n))
             \/ (\E o \in Offset, b \in Buffer : WriteAt(o, b)) \/ Cleanup
    <3>1. NewFileStore => last'.op = "open"
      BY DEF NewFileStore
    <3>2. (\E o \in Offset, n \in 1..MaxIO : ReadAt(o, n)) => last'.op = "read"
      BY DEF ReadAt
    <3>3. (\E o \in Offset, b \in Buffer : WriteAt(o, b)) => last'.op = "write"
      BY DEF WriteAt
    <3>4. Cleanup => last'.op = "cleanup"
      BY DEF Cleanup
    <3>. QED  BY <2>2, <3>1, <3>2, <3>3, <3>4
  <2>3. CASE UNCHANGED vars
    BY <2>3
  <2>. QED  BY <2>1, <2>2, <2>3 DEF Next
<1>. QED  BY <1>1, IInvariant, PTL DEF Spec, SetBadPreservesData
====
