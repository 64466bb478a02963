---------------------------- MODULE MCResponders ----------------------------
(* Responders with a rate limit of three ticks and both duplicate windows. *)
EXTENDS Responders

DedupTimeouts == [r \in Processors |-> IF r = "CommandHandler" THEN 3 ELSE 2]
============================================================================
