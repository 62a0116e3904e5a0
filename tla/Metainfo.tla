------------------------------ MODULE Metainfo ------------------------------
(***************************************************************************)
(* Loading, caching and saving a torrent's metainfo (src/metainfo.go).     *)
(*                                                                         *)
(* A bencoded info dictionary is abstracted to what the info-hash depends  *)
(* on: for each key of InfoDict whether it is absent, present with the Go  *)
(* zero value (0 or ""), or present with another value, and whether the    *)
(* dictionary holds keys InfoDict does not declare.  Decoding into the      *)
(* struct drops unknown keys and makes absent and zero alike; encoding the  *)
(* struct writes every field, except the omitempty ones when they are zero. *)
(* sha1 is modelled as an injective function.                               *)
(***************************************************************************)
EXTENDS Naturals

CONSTANTS
    URL,          \* "http:" sources
    Magnet,       \* "magnet:" sources
    Path,         \* local file paths
    RawDocs,      \* bencoded torrents given as the source string itself
    URLContent,   \* what proxyHttpGet returns for each URL
    PathContent,  \* the content of each local path
    MagnetIH,     \* the info-hash each magnet URI names, or BadMagnet
    BadMagnet,    \* a magnet URI parseMagnet or DecodeInfoHash rejects
    NoContent,    \* a failed HTTP GET or a missing file
    Garbage,      \* bytes that do not decode as a MetaInfo
    Nil           \* a nil pointer

\* The keys of InfoDict, and those tagged omitempty.
Field == {"piece length", "pieces", "private", "name", "length", "md5sum", "files"}
OmitEmpty == {"length", "md5sum", "files"}

\* A bencoded info dictionary.
InfoRaw == [key : [Field -> {"absent", "zero", "set"}], extra : BOOLEAN]

\* A decoded InfoDict struct: each field zero or set.
InfoDict == [Field -> {"zero", "set"}]

\* A bencoded torrent: only its info dictionary matters here.
Doc == [info : InfoRaw \cup {Nil}]

\* sha1.Sum of an encoded info dictionary.
Sha1(r) == [sha1 |-> r]

\* Decoding an info dictionary into InfoDict: unknown keys are dropped, an
\* absent key leaves the zero value.
DecodeInfo(r) == [f \in Field |-> IF r.key[f] = "set" THEN "set" ELSE "zero"]

\* Encoding an InfoDict: omitempty fields with their zero value are left out.
EncodeInfo(s) ==
    [key |-> [f \in Field |-> IF f \in OmitEmpty /\ s[f] = "zero"
                               THEN "absent" ELSE s[f]],
     extra |-> FALSE]

\* The InfoDict zero value, which is what a nil *InfoDict encodes as when
\* the encoder does not reject it.
ZeroInfo == [f \in Field |-> "zero"]

ASSUME MetainfoAssumption ==
    /\ URLContent \in [URL -> Doc \cup {NoContent, Garbage}]
    /\ PathContent \in [Path -> Doc \cup {NoContent, Garbage}]
    /\ MagnetIH \in [Magnet -> {Sha1(r) : r \in InfoRaw} \cup {BadMagnet}]
    /\ RawDocs \subseteq Doc
    /\ Nil \notin InfoRaw

\* A *MetaInfo: its Info, InfoHash and cached rawInfo.
Meta == [info : InfoDict \cup {Nil}, ih : {Sha1(r) : r \in InfoRaw},
         raw : InfoRaw \cup {Nil}]

\* The result of a load: (m, err), with the torrent it decoded (a ghost).
Result == [m : Meta \cup {Nil}, err : BOOLEAN, doc : Doc \cup {Nil}]
Fail == [m |-> Nil, err |-> TRUE, doc |-> Nil]

\* The name of a saved metainfo: {dir}/{hex of its info-hash}.
SavedName(ih) == [hex |-> ih]

VARIABLES
    m,     \* the metainfo the last successful load returned, or Nil
    err,   \* the last load returned an error
    disk,  \* local files: Path and saved names -> content
    loaded \* the torrent the last load decoded, or Nil (ghost)

vars == <<m, err, disk, loaded>>

-----------------------------------------------------------------------------
\* Mutant of NewMetaInfoFromContent: the hash taken over the bytes of the
\* source's info dictionary, while RawInfo still re-encodes m.Info.
NewMetaInfoFromContentSourceHash(c) ==
    IF c \notin Doc THEN {Fail}
    ELSE IF c.info = Nil THEN {[m |-> Nil, err |-> FALSE, doc |-> c]}
    ELSE {[m |-> [info |-> DecodeInfo(c.info), ih |-> Sha1(c.info),
                    raw |-> Nil], err |-> FALSE, doc |-> c]}

\* NewMetaInfoFromContent: decode, then hash the re-encoded m1.Info.  With
\* no info key m1.Info is nil: the encoder either fails, and the function
\* returns (nil, nil), or writes the zero InfoDict.
NewMetaInfoFromContent(c) ==
    IF c \notin Doc THEN {Fail}
    ELSE IF c.info = Nil
    THEN {[m |-> Nil, err |-> FALSE, doc |-> c],
          [m |-> [info |-> Nil, ih |-> Sha1(EncodeInfo(ZeroInfo)),
                  raw |-> Nil], err |-> FALSE, doc |-> c]}
    ELSE {[m |-> [info |-> DecodeInfo(c.info),
                    ih |-> Sha1(EncodeInfo(DecodeInfo(c.info))),
                    raw |-> Nil], err |-> FALSE, doc |-> c]}

\* NewMetaInfoFromHTTP: a failed GET is an error, else the body is decoded.
NewMetaInfoFromHTTP(u) ==
    IF URLContent[u] = NoContent THEN {Fail}
    ELSE NewMetaInfoFromContent(URLContent[u])

\* NewMetaInfoFromFile: a failed read is an error, else the bytes are decoded.
NewMetaInfoFromFile(t) ==
    IF t \in DOMAIN disk /\ disk[t] # NoContent
    THEN NewMetaInfoFromContent(disk[t])
    ELSE {Fail}

\* NewMetaInfoFromMagnet: only the info-hash is known.
NewMetaInfoFromMagnet(g) ==
    IF MagnetIH[g] = BadMagnet THEN {Fail}
    ELSE {[m |-> [info |-> Nil, ih |-> MagnetIH[g], raw |-> Nil],
           err |-> FALSE, doc |-> Nil]}

\* NewMetaInfo: by prefix; any other string is tried as content first and
\* read as a file only when that decoding returns an error.
NewMetaInfoResults(t) ==
    IF t \in URL THEN NewMetaInfoFromHTTP(t)
    ELSE IF t \in Magnet THEN NewMetaInfoFromMagnet(t)
    ELSE {r \in NewMetaInfoFromContent(t) : ~r.err} \cup
         (IF Fail \in NewMetaInfoFromContent(t)
          THEN NewMetaInfoFromFile(t) ELSE {})

\* The sources a user may name: URLs, magnets, paths, raw torrents and the
\* files saveToDisk wrote.
Source == URL \cup Magnet \cup Path \cup RawDocs \cup
          (DOMAIN disk \ Path)

Init ==
    /\ m = Nil
    /\ err = FALSE
    /\ disk = PathContent
    /\ loaded = Nil

\* getMetaInfo(torrent): the caller keeps the metainfo it returns.
getMetaInfo(t) ==
    /\ \E r \in NewMetaInfoResults(t) :
         /\ m' = r.m
         /\ err' = r.err
         /\ loaded' = r.doc
    /\ UNCHANGED disk

\* Mutant of RawInfo: the struct cached in place of its encoding.
RawInfoUnencoded ==
    /\ m # Nil
    /\ m.raw = Nil
    /\ m.info # Nil
    /\ m' = [m EXCEPT !.raw = m.info]
    /\ UNCHANGED <<err, disk, loaded>>

\* Mutant of RawInfo: the whole metainfo encoded, as Size does, instead of
\* its info dictionary (a dictionary with keys InfoDict does not declare).
RawInfoWholeMeta ==
    /\ m # Nil
    /\ m.raw = Nil
    /\ m.info # Nil
    /\ m' = [m EXCEPT !.raw = [EncodeInfo(m.info) EXCEPT !.extra = TRUE]]
    /\ UNCHANGED <<err, disk, loaded>>

\* RawInfo on a metainfo with an Info and no cached bytes: encode m.Info
\* and keep the bytes in m.rawInfo.  (The other branches change nothing.)
RawInfo ==
    /\ m # Nil
    /\ m.raw = Nil
    /\ m.info # Nil
    /\ m' = [m EXCEPT !.raw = EncodeInfo(m.info)]
    /\ UNCHANGED <<err, disk, loaded>>

\* saveToDisk: os.Create({dir}/{hex}) fails and nothing is written, or it
\* truncates the file and the encoder writes m; a nil Info either encodes
\* as the zero InfoDict or fails after the file was created.
saveToDisk ==
    /\ m # Nil
    /\ \/ UNCHANGED disk
       \/ \E c \in IF m.info = Nil
                   THEN {[info |-> EncodeInfo(ZeroInfo)], Garbage}
                   ELSE {[info |-> EncodeInfo(m.info)]} :
            disk' = [x \in DOMAIN disk \cup {SavedName(m.ih)} |->
                       IF x = SavedName(m.ih) THEN c ELSE disk[x]]
    /\ UNCHANGED <<m, err, loaded>>

Next ==
    \/ \E t \in Source : getMetaInfo(t)
    \/ RawInfo
    \/ saveToDisk

Spec == Init /\ [][Next]_vars

-----------------------------------------------------------------------------
TypeOK ==
    /\ m \in Meta \cup {Nil}
    /\ err \in BOOLEAN
    /\ \A x \in DOMAIN disk : disk[x] \in Doc \cup {NoContent, Garbage}
    /\ loaded \in Doc \cup {Nil}

\* RawInfo's cached bytes are the bytes the info-hash was computed over:
\* sha1 of m.rawInfo is m.InfoHash, however loads, RawInfo calls and saves
\* interleave.
RawInfoConsistent ==
    m # Nil /\ m.raw # Nil => Sha1(m.raw) = m.ih

\* The info-hash of a loaded torrent is sha1 of its bencoded info
\* dictionary (spec 4.1 and scenario 1), not of a re-encoding of it.
InfoHashIsSha1OfInfo ==
    (loaded # Nil /\ loaded.info # Nil /\ m # Nil) => m.ih = Sha1(loaded.info)

=============================================================================
