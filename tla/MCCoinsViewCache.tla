-------------------------- MODULE MCCoinsViewCache --------------------------
(* CoinsViewCache for TLC.                                                  *)
EXTENDS CoinsViewCache

CONSTANTS o1, n1, c1, c2, c3, g, b1
=============================================================================
