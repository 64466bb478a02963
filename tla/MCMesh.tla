------------------------------- MODULE MCMesh -------------------------------
(***************************************************************************)
(* Meshes for TLC.  Client x is heard by a, client y by a and b.  In the   *)
(* kite, d hears and is heard by c alone.  In the ring all hear each       *)
(* other, except that c does not hear a.                                   *)
(***************************************************************************)
EXTENDS Mesh

CONSTANTS a, b, c, d, x, y

Both(links) == links \cup {<<l[2], l[1]>> : l \in links}

KiteLinks == Both({<<a, b>>, <<a, c>>, <<b, c>>, <<c, d>>}) \cup {<<y, a>>, <<y, b>>}
RingLinks == {<<a, b>>, <<b, a>>, <<b, c>>, <<c, b>>, <<c, a>>, <<x, a>>,
              <<y, a>>, <<y, b>>}
TriangleLinks == Both({<<a, b>>, <<b, c>>, <<a, c>>}) \cup {<<x, a>>}

Number == [r \in {a, b, c, d} |-> CASE r = a -> 1 [] r = b -> 2 [] r = c -> 3 [] r = d -> 4]
OwnHash == [r \in Repeaters |-> Number[r]]

Original(id, from, route, path, hops) ==
    [id |-> id, from |-> from, route |-> route, path |-> path, hops |-> hops]
Flood(id, from) == Original(id, from, "FLOOD", <<>>, <<>>)
Direct(id, from, hops) == Original(id, from, "DIRECT", hops, hops)
Trace(id, from, hops) == Original(id, from, "TRACE", <<>>, hops)

FloodOnly == {Flood(1, a)}
FloodAndTrace == {Flood(1, y), Trace(2, y, <<1, 2>>)}
OneOfEach == {Flood(1, a), Direct(2, y, <<1, 2, 3>>), Trace(3, x, <<1, 2, 1, 2>>)}
DirectOnly == {Direct(1, x, <<1, 2, 3>>)}
============================================================================
