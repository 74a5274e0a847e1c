---------------------------- MODULE MCCheckQueue ----------------------------
(* Two workers beside the master, and blocks of up to four checks: a thread  *)
(* that is alone with four of them takes a batch of two.                     *)
EXTENDS CheckQueue

CONSTANTS w1, w2, m

MCWorkers == {w1, w2}

\* A valid block, one whose first check fails and one whose third does.
MCBlocks == {1..4, 2..4, {1, 2, 4}}
=============================================================================
