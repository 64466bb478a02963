----------------------------- MODULE MCAdverts -----------------------------
(***************************************************************************)
(* Adverts for TLC, over the curve -x^2 + y^2 = 1 + 14x^2y^2 mod 197, of   *)
(* order 8 * 23; blocks of 8 elements for the digest.                      *)
(***************************************************************************)
EXTENDS Adverts

MCBasePoint == [x |-> 8, y |-> 145]
MCHashOf(blocks) ==
    LET whole == FlattenSeq(blocks)
        n[i \in 0..Len(whole)] ==
            IF i = 0 THEN 1 ELSE (31 * n[i - 1] + whole[i] + 17) % 16777213
    IN n[Len(whole)]

\* The hill lies on the equator.
MCLatitude == [l \in {"home", "hill"} |-> IF l = "home" THEN 52 ELSE 0]
MCLongitude == [l \in {"home", "hill"} |-> IF l = "home" THEN 5 ELSE 6]
MCNodeName == <<86, 90, 32, 53, 65>>

Other(header, codes, path, payload) ==
    <<header>> \o codes \o <<Len(path)>> \o path \o payload
MCOtherFrames ==
    {Other(Header(r, PayloadNumber.GRP_TXT, v), IF r \in {0, 3} THEN <<1, 2, 3, 4>> ELSE <<>>,
           path, [i \in 1..n |-> i]) :
       r \in 0..3, v \in {3}, path \in {<<>>, <<9>>, <<9, 8>>}, n \in {0, 12}}

\* ScalarmultBase() multiplies on this curve.
ASSUME MCScalarmult == ScalarmultRight
============================================================================
