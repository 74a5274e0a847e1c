------------------------- MODULE MCChainActivation -------------------------
(* ChainActivation for TLC: a chain of two blocks, a third that fails       *)
(* ContextualCheckBlock or is another end of it, and a block with as much   *)
(* work as both together.                                                   *)
(*                                                                          *)
(*   g --- a1 --- a2                                                        *)
(*     \      \-- c2                                                        *)
(*      \- b1                                                               *)
EXTENDS ChainActivation

CONSTANTS g, a1, a2, b1, c2

MCParent == [b \in Blocks |-> CASE b = g -> Null [] b \in {a2, c2} -> a1 [] OTHER -> g]

MCAncestors == [b \in Blocks |-> IF b \in {a2, c2} THEN {g, a1, b} ELSE {g, b}]

MCWork == [b \in Blocks |-> CASE b = g -> 1 [] b = a1 -> 2 [] OTHER -> 3]
=============================================================================
