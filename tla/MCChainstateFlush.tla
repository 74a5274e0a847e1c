------------------------- MODULE MCChainstateFlush -------------------------
(* ChainstateFlush for TLC: a genesis block with two branches that carry    *)
(* the same transactions.                                                   *)
(*                                                                          *)
(*   g --- a1 --- a2     a1 creates o1; a2 spends o1 and creates o2         *)
(*     \-- b1            b1 creates o1, and creates and spends o2           *)
EXTENDS ChainstateFlush, FiniteSets

CONSTANTS g, a1, a2, b1, o1, o2

MCParent == [b \in {g, a1, a2, b1} |->
                CASE b = g -> Null [] b = a2 -> a1 [] OTHER -> g]

MCAncestors == [b \in {g, a1, a2, b1} |->
                   IF b = a2 THEN {g, a1, a2} ELSE {g, b}]

MCInputs == [b \in {g, a1, a2, b1} |->
                CASE b = a2 -> {o1} [] b = b1 -> {o2} [] OTHER -> {}]

MCOutputs == [b \in {g, a1, a2, b1} |->
                 CASE b = a1 -> {o1} [] b = a2 -> {o2} [] b = b1 -> {o1, o2}
                   [] OTHER -> {}]

MCUtxo[b \in {g, a1, a2, b1, Null}] ==
    IF b \in {g, Null} THEN [o \in {o1, o2} |-> Spent]
    ELSE [o \in {o1, o2} |-> IF o \in MCInputs[b] THEN Spent
                             ELSE IF o \in MCOutputs[b] THEN b
                             ELSE MCUtxo[MCParent[b]][o]]
=============================================================================
