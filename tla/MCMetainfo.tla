---------------------------- MODULE MCMetainfo -----------------------------
(* TLC instance of Metainfo.  Four torrents: the single-file torrent of   *)
(* the spec's scenario 1 (no "private" key), a well-formed one that sets  *)
(* every key, the same with a key InfoDict does not declare, and one with  *)
(* no info dictionary.  One URL serves the well-formed torrent and one     *)
(* fails; one path holds scenario 1, one garbage, one is missing; one      *)
(* magnet names the well-formed torrent and one does not parse.            *)
EXTENDS MetainfoProofs, TLC

\* The sources, as model values.
CONSTANTS u1, u2, p1, p2, p3, g1, g2

\* An info dictionary with the given keys set and the others absent.
InfoWith(keys, x) ==
    [key |-> [f \in Field |-> IF f \in keys THEN "set" ELSE "absent"], extra |-> x]

MCScenario1 == [info |-> InfoWith({"name", "length", "piece length", "pieces"}, FALSE)]
MCFull == [info |-> InfoWith(Field, FALSE)]
MCExtraKey == [info |-> InfoWith(Field, TRUE)]
MCNoInfo == [info |-> Nil]

MCRawDocs == {MCExtraKey, MCNoInfo}
MCURLContent == (u1 :> MCFull) @@ (u2 :> NoContent)
MCPathContent == (p1 :> MCScenario1) @@ (p2 :> Garbage) @@ (p3 :> NoContent)
MCMagnetIH == (g1 :> Sha1(MCFull.info)) @@ (g2 :> BadMagnet)
=============================================================================
