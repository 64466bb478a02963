---------------------------- MODULE MCForwarder ----------------------------
(***************************************************************************)
(* Forwarder for TLC: one packet for each way shouldForward() and          *)
(* processPacket() can decide.                                             *)
(***************************************************************************)
EXTENDS Forwarder

CONSTANTS self, other    \* model values: this node's hash and another one

MCHashes == {self, other}

Data(route, path) ==
    [type |-> "DATA", route |-> route, path |-> path, strong |-> TRUE]

MCPackets == {
    Data("FLOOD", <<>>),                                \* forwarded
    Data("FLOOD", <<other, other>>),                    \* path too long
    Data("FLOOD", <<self>>),                            \* already in the path
    [Data("FLOOD", <<other>>) EXCEPT !.strong = FALSE], \* too weak
    Data("DIRECT", <<self, other>>),                    \* forwarded
    Data("DIRECT", <<other, self>>),                    \* not the next hop
    Data("DIRECT", <<>>),                               \* no hop left
    [Data("DIRECT", <<self>>) EXCEPT !.type = "TRACE"],
    [Data("DIRECT", <<self>>) EXCEPT !.type = "CONTROL"]}
============================================================================
