-------------------------------- MODULE Fifo --------------------------------
(***************************************************************************)
(* What a bounded first-in first-out queue promises: what is put in comes  *)
(* out in the same order, and only a full queue refuses, counting it.      *)
(***************************************************************************)
EXTENDS Naturals, Sequences

CONSTANTS Items, Size

VARIABLES fifo, refused

Init == fifo = <<>> /\ refused = 0

Put(x) == Len(fifo) < Size /\ fifo' = Append(fifo, x) /\ UNCHANGED refused
Refuse == Len(fifo) = Size /\ refused' = refused + 1 /\ UNCHANGED fifo
Get == fifo # <<>> /\ fifo' = Tail(fifo) /\ UNCHANGED refused

Next == (\E x \in Items : Put(x)) \/ Refuse \/ Get

Spec == Init /\ [][Next]_<<fifo, refused>>
============================================================================
