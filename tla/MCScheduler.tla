----------------------------- MODULE MCScheduler -----------------------------
(***************************************************************************)
(* Instances of Scheduler for TLC.                                          *)
(***************************************************************************)
EXTENDS Scheduler, TLC

CONSTANTS s1, s2, a1, c1, k1

MCServices == {s1, s2}
MCActivators == {a1}
MCClients == {c1, k1}
MCStakers == {k1}
=============================================================================
