---------------------------- MODULE BlockVerdict ----------------------------
(***************************************************************************)
(* What ConnectBlock relies on when it hands the script checks of a block   *)
(* to the check queue (checkqueue.h, CCheckQueueControl): the answer to     *)
(* Wait is the conjunction of the results of every check that was handed    *)
(* over for this block, no more and no less, and the answer comes.          *)
(***************************************************************************)
EXTENDS Naturals

CONSTANTS NumChecks,   \* bound on the script checks of a block
          Blocks       \* for each block to connect, its checks that return true

VARIABLES phase,       \* "out": no control object; "open"; "asked": in Wait; "dead"
          good,        \* the checks of the current block that return true
          added,       \* how many of its checks have been handed over
          verdict      \* the last answer, "none" while a block is open

vars == <<phase, good, added, verdict>>

Init == phase = "out" /\ good = {} /\ added = 0 /\ verdict = "none"

\* A control object is made for the next block.
Open ==
    /\ phase = "out"
    /\ phase' = "open" /\ good' \in Blocks
    /\ added' = 0 /\ verdict' = "none"

\* The checks of one transaction.
Add ==
    /\ phase = "open"
    /\ added' \in added..NumChecks
    /\ UNCHANGED <<phase, good, verdict>>

Ask ==
    /\ phase = "open"
    /\ phase' = "asked"
    /\ UNCHANGED <<good, added, verdict>>

\* The block is valid when none of its checks failed.
Answer ==
    /\ phase = "asked"
    /\ phase' = "out"
    /\ verdict' = IF 1..added \subseteq good THEN "valid" ELSE "invalid"
    /\ UNCHANGED <<good, added>>

\* The block was given up for another reason, the answer is not used.
Abandon ==
    /\ phase = "asked"
    /\ phase' = "out"
    /\ UNCHANGED <<good, added, verdict>>

\* The process is terminated by an exception out of the destructor.
Die ==
    /\ phase = "asked"
    /\ phase' = "dead"
    /\ UNCHANGED <<good, added, verdict>>

Next == Open \/ Add \/ Ask \/ Answer \/ Abandon \/ Die

Spec == Init /\ [][Next]_vars /\ WF_vars(Answer \/ Abandon \/ Die)

SafeSpec == Init /\ [][Next]_vars
=============================================================================
