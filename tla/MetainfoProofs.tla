--------------------------- MODULE MetainfoProofs ---------------------------
(***************************************************************************)
(* Proof that the bytes RawInfo caches always hash to the metainfo's       *)
(* info-hash, for every set of sources and contents.                       *)
(*                                                                         *)
(* RawInfoConsistent is not inductive: it says nothing of a metainfo whose *)
(* rawInfo is still nil, and RawInfo may fill it in later.  The inductive  *)
(* invariant IInv says what every metainfo the program holds looks like:  *)
(* a record whose InfoHash is sha1 of the encoding of its Info when it has *)
(* one, and whose cached bytes, once set, are that encoding.               *)
(***************************************************************************)
EXTENDS Metainfo, TLAPS

\* What every load returns: nil, or a metainfo with nothing cached whose
\* info-hash is sha1 of the encoding of its Info, if it has one.
FreshMeta(x) ==
    \/ x = Nil
    \/ /\ x = [info |-> x.info, ih |-> x.ih, raw |-> Nil]
       /\ x.info # Nil => x.ih = Sha1(EncodeInfo(x.info))

\* The inductive invariant.
IInv ==
    \/ m = Nil
    \/ /\ m = [info |-> m.info, ih |-> m.ih, raw |-> m.raw]
       /\ m.info # Nil => m.ih = Sha1(EncodeInfo(m.info))
       /\ m.raw # Nil => m.info # Nil /\ m.raw = EncodeInfo(m.info)

-----------------------------------------------------------------------------
\* NewMetaInfoFromContent, on any bytes, returns only fresh metainfos.
LEMMA ContentFresh ==
    ASSUME NEW c, NEW r \in NewMetaInfoFromContent(c)
    PROVE  FreshMeta(r.m)
<1>1. CASE c \notin Doc
  BY <1>1 DEF NewMetaInfoFromContent, FreshMeta, Fail
<1>2. CASE c \in Doc /\ c.info = Nil
  BY <1>2 DEF NewMetaInfoFromContent, FreshMeta
<1>3. CASE c \in Doc /\ c.info # Nil
  BY <1>3 DEF NewMetaInfoFromContent, FreshMeta
<1>. QED  BY <1>1, <1>2, <1>3

\* So do the HTTP, file and magnet loads.
LEMMA HTTPFresh ==
    ASSUME NEW u, NEW r \in NewMetaInfoFromHTTP(u)
    PROVE  FreshMeta(r.m)
BY ContentFresh DEF NewMetaInfoFromHTTP, FreshMeta, Fail

LEMMA FileFresh ==
    ASSUME NEW t, NEW r \in NewMetaInfoFromFile(t)
    PROVE  FreshMeta(r.m)
BY ContentFresh DEF NewMetaInfoFromFile, FreshMeta, Fail

LEMMA MagnetFresh ==
    ASSUME NEW g, NEW r \in NewMetaInfoFromMagnet(g)
    PROVE  FreshMeta(r.m)
BY DEF NewMetaInfoFromMagnet, FreshMeta, Fail

\* Whatever NewMetaInfo dispatches to, what it returns is fresh.
LEMMA ResultsFresh ==
    ASSUME NEW t, NEW r \in NewMetaInfoResults(t)
    PROVE  FreshMeta(r.m)
<1>1. CASE t \in URL
  <2>1. r \in NewMetaInfoFromHTTP(t)
    BY <1>1 DEF NewMetaInfoResults
  <2>. QED  BY <2>1, HTTPFresh
<1>2. CASE t \notin URL /\ t \in Magnet
  BY <1>2, MagnetFresh DEF NewMetaInfoResults
<1>3. CASE t \notin URL /\ t \notin Magnet
  <2>1. r \in NewMetaInfoFromContent(t) \/ r \in NewMetaInfoFromFile(t)
    BY <1>3 DEF NewMetaInfoResults
  <2>. QED  BY <2>1, ContentFresh, FileFresh
<1>. QED  BY <1>1, <1>2, <1>3

-----------------------------------------------------------------------------
\* The invariant holds initially, and every step keeps it.
LEMMA InitIInv == Init => IInv
BY DEF Init, IInv

LEMMA NextIInv == IInv /\ [Next]_vars => IInv'
<1> SUFFICES ASSUME IInv, [Next]_vars PROVE IInv'
  OBVIOUS
<1>1. ASSUME NEW t \in Source, getMetaInfo(t) PROVE IInv'
  <2>1. PICK r \in NewMetaInfoResults(t) : m' = r.m
    BY <1>1 DEF getMetaInfo
  <2>2. FreshMeta(r.m)
    BY ResultsFresh
  <2>. QED  BY <2>1, <2>2 DEF FreshMeta, IInv
<1>2. CASE RawInfo
  BY <1>2 DEF RawInfo, IInv
<1>3. CASE saveToDisk
  BY <1>3 DEF saveToDisk, IInv
<1>4. CASE UNCHANGED vars
  BY <1>4 DEF vars, IInv
<1>. QED  BY <1>1, <1>2, <1>3, <1>4 DEF Next

\* The cached raw info dictionary hashes to the info-hash in every
\* reachable state: a RawInfo call never caches bytes other than those
\* NewMetaInfoFromContent hashed, however loads, RawInfo and saves
\* interleave.
THEOREM RawInfoIsHashed == Spec => []RawInfoConsistent
<1>1. IInv => RawInfoConsistent
  BY DEF IInv, RawInfoConsistent
<1>. QED  BY <1>1, InitIInv, NextIInv, PTL DEF Spec
-----------------------------------------------------------------------------
\* The codec maps structs to dictionaries and back.
LEMMA EncodeType ==
    ASSUME NEW s \in InfoDict
    PROVE  EncodeInfo(s) \in InfoRaw
BY DEF EncodeInfo, InfoDict, InfoRaw, OmitEmpty

LEMMA DecodeType ==
    ASSUME NEW r \in InfoRaw
    PROVE  DecodeInfo(r) \in InfoDict
BY DEF DecodeInfo, InfoDict, InfoRaw

\* Every load returns a result of the right shape.
LEMMA ContentType ==
    ASSUME NEW c, NEW r \in NewMetaInfoFromContent(c)
    PROVE  r \in Result
<1>0. Fail \in Result
  BY DEF Fail, Result
<1>1. CASE c \notin Doc
  <2>1. NewMetaInfoFromContent(c) = {Fail}
    BY <1>1 DEF NewMetaInfoFromContent
  <2>. QED  BY <1>0, <2>1
<1>2. CASE c \in Doc /\ c.info = Nil
  <2>1. ZeroInfo \in InfoDict /\ EncodeInfo(ZeroInfo) \in InfoRaw
    BY EncodeType DEF ZeroInfo, InfoDict
  <2>2. NewMetaInfoFromContent(c) =
          {[m |-> Nil, err |-> FALSE, doc |-> c],
           [m |-> [info |-> Nil, ih |-> Sha1(EncodeInfo(ZeroInfo)),
                   raw |-> Nil], err |-> FALSE, doc |-> c]}
    BY <1>2 DEF NewMetaInfoFromContent
  <2>3. [info |-> Nil, ih |-> Sha1(EncodeInfo(ZeroInfo)), raw |-> Nil] \in Meta
    BY <2>1 DEF Meta
  <2>4. [m |-> Nil, err |-> FALSE, doc |-> c] \in Result
    BY <1>2 DEF Result
  <2>5. [m |-> [info |-> Nil, ih |-> Sha1(EncodeInfo(ZeroInfo)), raw |-> Nil],
         err |-> FALSE, doc |-> c] \in Result
    BY <1>2, <2>3 DEF Result
  <2>. QED  BY <2>2, <2>4, <2>5, Zenon
<1>3. CASE c \in Doc /\ c.info # Nil
  <2>1. c.info \in InfoRaw
    BY <1>3 DEF Doc
  <2>2. DecodeInfo(c.info) \in InfoDict /\ EncodeInfo(DecodeInfo(c.info)) \in InfoRaw
    BY <2>1, DecodeType, EncodeType
  <2>3. NewMetaInfoFromContent(c) =
          {[m |-> [info |-> DecodeInfo(c.info),
                   ih |-> Sha1(EncodeInfo(DecodeInfo(c.info))),
                   raw |-> Nil], err |-> FALSE, doc |-> c]}
    BY <1>3 DEF NewMetaInfoFromContent
  <2>4. [info |-> DecodeInfo(c.info), ih |-> Sha1(EncodeInfo(DecodeInfo(c.info))),
         raw |-> Nil] \in Meta
    BY <2>2 DEF Meta
  <2>5. [m |-> [info |-> DecodeInfo(c.info),
                ih |-> Sha1(EncodeInfo(DecodeInfo(c.info))), raw |-> Nil],
         err |-> FALSE, doc |-> c] \in Result
    BY <1>3, <2>4 DEF Result
  <2>. QED  BY <2>3, <2>5, Zenon
<1>. QED  BY <1>1, <1>2, <1>3

LEMMA ResultsType ==
    ASSUME NEW t \in Source, NEW r \in NewMetaInfoResults(t)
    PROVE  r \in Result
<1>1. Fail \in Result
  BY DEF Fail, Result
<1>2. CASE t \in URL
  BY <1>1, <1>2, ContentType DEF NewMetaInfoResults, NewMetaInfoFromHTTP
<1>3. CASE t \notin URL /\ t \in Magnet
  <2>1. MagnetIH[t] \in {Sha1(x) : x \in InfoRaw} \cup {BadMagnet}
    BY <1>3, MetainfoAssumption
  <2>2. r \in NewMetaInfoFromMagnet(t)
    BY <1>3 DEF NewMetaInfoResults
  <2>3. CASE MagnetIH[t] = BadMagnet
    BY <1>1, <2>2, <2>3 DEF NewMetaInfoFromMagnet
  <2>4. CASE MagnetIH[t] # BadMagnet
    <3>1. r = [m |-> [info |-> Nil, ih |-> MagnetIH[t], raw |-> Nil],
               err |-> FALSE, doc |-> Nil]
      BY <2>2, <2>4 DEF NewMetaInfoFromMagnet
    <3>2. [info |-> Nil, ih |-> MagnetIH[t], raw |-> Nil] \in Meta
      BY <2>1, <2>4 DEF Meta
    <3>. QED  BY <3>1, <3>2 DEF Result
  <2>. QED  BY <2>3, <2>4
<1>4. CASE t \notin URL /\ t \notin Magnet
  <2>1. r \in NewMetaInfoFromContent(t) \/ r \in NewMetaInfoFromFile(t)
    BY <1>4 DEF NewMetaInfoResults
  <2>. QED  BY <1>1, <2>1, ContentType DEF NewMetaInfoFromFile
<1>. QED  BY <1>2, <1>3, <1>4

LEMMA InitType == Init => TypeOK
BY MetainfoAssumption DEF Init, TypeOK

LEMMA NextType == TypeOK /\ [Next]_vars => TypeOK'
<1> SUFFICES ASSUME TypeOK, [Next]_vars PROVE TypeOK'
  OBVIOUS
<1>1. ASSUME NEW t \in Source, getMetaInfo(t) PROVE TypeOK'
  <2>1. PICK r \in NewMetaInfoResults(t) :
          m' = r.m /\ err' = r.err /\ loaded' = r.doc
    BY <1>1 DEF getMetaInfo
  <2>2. r \in Result
    BY ResultsType
  <2>. QED  BY <1>1, <2>1, <2>2 DEF getMetaInfo, Result, TypeOK
<1>2. CASE RawInfo
  <2>1. m \in Meta /\ m.info \in InfoDict
    BY <1>2 DEF RawInfo, TypeOK, Meta
  <2>2. EncodeInfo(m.info) \in InfoRaw
    BY <2>1, EncodeType
  <2>. QED  BY <1>2, <2>1, <2>2 DEF RawInfo, TypeOK, Meta
<1>3. CASE saveToDisk
  <2>1. m \in Meta
    BY <1>3 DEF saveToDisk, TypeOK
  <2>2. [info |-> EncodeInfo(ZeroInfo)] \in Doc
    BY EncodeType DEF ZeroInfo, InfoDict, Doc
  <2>3. m.info # Nil => [info |-> EncodeInfo(m.info)] \in Doc
    BY <2>1, EncodeType DEF Meta, Doc
  <2>. QED  BY <1>3, <2>2, <2>3 DEF saveToDisk, TypeOK
<1>4. CASE UNCHANGED vars
  BY <1>4 DEF vars, TypeOK
<1>. QED  BY <1>1, <1>2, <1>3, <1>4 DEF Next

\* The metainfo model is type correct for every set of sources and
\* contents: every load, RawInfo and save yields a metainfo, a decoded
\* torrent and files of the declared shapes.
THEOREM TypeCorrect == Spec => []TypeOK
BY InitType, NextType, PTL DEF Spec

\* Every metainfo the program holds is a fresh load or one RawInfo filled
\* in: its info-hash is sha1 of the encoding of its Info, and its cached
\* bytes are that encoding.
THEOREM IInvariant == Spec => []IInv
BY InitIInv, NextIInv, PTL DEF Spec
=============================================================================
