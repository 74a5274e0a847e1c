----------------------------- MODULE CheckQueue -----------------------------
(***************************************************************************)
(* CCheckQueue and CCheckQueueControl (checkqueue.h), which ConnectBlock    *)
(* uses to run the script checks of a block on several threads.  The master *)
(* is the thread in ConnectBlock: it adds the checks of each transaction    *)
(* and then works through the queue with the workers until none is left.    *)
(* A step is one critical section of the queue's mutex, or the part of Loop *)
(* that runs without it.  The threads of init.cpp's thread group can be     *)
(* interrupted (Shutdown), which throws out of the wait they are in.        *)
(***************************************************************************)
EXTENDS Integers, Sequences, FiniteSets

CONSTANTS Workers,     \* the threads of ThreadScriptCheck
          Master,      \* the thread in ConnectBlock
          NumChecks,   \* bound on the script checks of a block
          Blocks,      \* for each block to connect, its checks that return true
          BatchSize    \* nBatchSize

ASSUME CheckQueueAssumption ==
    /\ IsFiniteSet(Workers) /\ Master \notin Workers
    /\ NumChecks \in Nat /\ Blocks \subseteq SUBSET (1..NumChecks)
    /\ BatchSize \in Nat \ {0}

Threads == Workers \cup {Master}

\* The checks of a block, in the order of its inputs.
Checks == 1..NumChecks

VARIABLES
    queue,             \* the checks nobody has taken; the back is taken first
    nIdle, nTotal, fAllOk, nTodo,
    pc,                \* where each thread is, see TypeOK
    vChecks,           \* the checks of a thread's batch that are to be run
    nNow,              \* the size of a thread's batch
    fOk,               \* the result of a thread's batch so far
    good,              \* the checks of the block that return true
    added,             \* how many of them ConnectBlock has added so far
    fWait,             \* the master is in control.Wait, not in the destructor
    verdict,           \* what control.Wait last returned to ConnectBlock
    interrupted,       \* the threads with an interruption requested
    stopping           \* Shutdown has interrupted the thread group

counters == <<nIdle, nTotal, fAllOk, nTodo>>
batches == <<vChecks, nNow, fOk>>
control == <<good, added, fWait, verdict>>
shutdown == <<interrupted, stopping>>
vars == <<queue, counters, pc, batches, control, shutdown>>

\* A thread is in Loop at the mutex ("first": the first iteration, "next":
\* with a batch done, "woken": out of cond.wait), asleep on its condition
\* variable ("asleep") or running its batch ("running").
Places == {"first", "next", "woken", "asleep", "running"}

TypeOK ==
    /\ queue \in Seq(Checks)
    /\ nIdle \in Nat /\ nTotal \in Nat /\ fAllOk \in BOOLEAN /\ nTodo \in Nat
    /\ pc \in [Threads -> Places \cup {"out", "open", "dead"}]
    /\ vChecks \in [Threads -> SUBSET Checks]
    /\ nNow \in [Threads -> Nat]
    /\ fOk \in [Threads -> BOOLEAN]
    /\ good \subseteq Checks
    /\ added \in 0..NumChecks
    /\ fWait \in BOOLEAN
    /\ verdict \in {"none", "valid", "invalid"}
    /\ interrupted \subseteq Threads
    /\ stopping \in BOOLEAN

\* The queue is made with no thread in it; the workers start in Loop.
Init ==
    /\ queue = <<>>
    /\ nIdle = 0 /\ nTotal = 0 /\ fAllOk = TRUE /\ nTodo = 0
    /\ pc = [t \in Threads |-> IF t = Master THEN "out" ELSE "first"]
    /\ vChecks = [t \in Threads |-> {}]
    /\ nNow = [t \in Threads |-> 0]
    /\ fOk = [t \in Threads |-> TRUE]
    /\ good = {} /\ added = 0 /\ fWait = FALSE /\ verdict = "none"
    /\ interrupted = {} /\ stopping = FALSE
-----------------------------------------------------------------------------
(* Loop, with the mutex.  The first part does the clean-up of the batch     *)
(* before, or counts the thread on its first iteration, or ends its wait.   *)

AtMutex(t) == pc[t] \in {"first", "next", "woken"}

\* A clean-up that forgets a failed batch.
TodoAfterSuccess(t) == IF pc[t] = "next" /\ fOk[t] THEN nTodo - nNow[t] ELSE nTodo

TodoAfter(t) == IF pc[t] = "next" THEN nTodo - nNow[t] ELSE nTodo

AllOkAfter(t) == IF pc[t] = "next" THEN fAllOk /\ fOk[t] ELSE fAllOk

TotalAfter(t) == IF pc[t] = "first" THEN nTotal + 1 ELSE nTotal

IdleAfter(t) == IF pc[t] = "woken" THEN nIdle - 1 ELSE nIdle

\* A last worker that does not notify the master.
MasterNotWoken(t) == FALSE

\* condMaster.notify_one() of the worker that finished the last check.
MasterWoken(t) ==
    /\ pc[t] = "next" /\ t # Master
    /\ TodoAfter(t) = 0
    /\ pc[Master] = "asleep"

\* The thread goes to the place p.
Moved(t, p) ==
    pc' = [u \in Threads |-> IF u = t THEN p
                             ELSE IF u = Master /\ MasterWoken(t) THEN "woken"
                             ELSE pc[u]]

\* Nothing to take: wait for work, or as the master for the last results.
Sleep(t) ==
    /\ AtMutex(t)
    /\ queue = <<>>
    /\ ~(t = Master /\ TodoAfter(t) = 0)
    /\ nTodo' = TodoAfter(t)
    /\ fAllOk' = AllOkAfter(t)
    /\ nTotal' = TotalAfter(t)
    /\ nIdle' = IdleAfter(t) + 1
    /\ Moved(t, "asleep")
    /\ UNCHANGED <<queue, batches, control, shutdown>>

\* How many checks to take: a share of the queue, at least one.
Share(size, total, idle) ==
    LET part == size \div (total + idle + 1)
        most == IF part < BatchSize THEN part ELSE BatchSize
    IN  IF most > 1 THEN most ELSE 1

\* Take a batch from the back of the queue.
Take(t) ==
    /\ AtMutex(t)
    /\ queue # <<>>
    /\ LET n == Share(Len(queue), TotalAfter(t), IdleAfter(t))
           rest == Len(queue) - n
       IN  /\ nNow' = [nNow EXCEPT ![t] = n]
           /\ vChecks' = [vChecks EXCEPT ![t] = {queue[i] : i \in (rest + 1)..Len(queue)}]
           /\ queue' = SubSeq(queue, 1, rest)
    /\ nTodo' = TodoAfter(t)
    /\ fAllOk' = AllOkAfter(t)
    /\ fOk' = [fOk EXCEPT ![t] = AllOkAfter(t)]
    /\ nTotal' = TotalAfter(t)
    /\ nIdle' = IdleAfter(t)
    /\ Moved(t, "running")
    /\ UNCHANGED <<control, shutdown>>

\* Without the mutex: the checks of the batch run until one fails.
Run(t) ==
    /\ pc[t] = "running"
    /\ fOk' = [fOk EXCEPT ![t] = @ /\ vChecks[t] \subseteq good]
    /\ vChecks' = [vChecks EXCEPT ![t] = {}]
    /\ pc' = [pc EXCEPT ![t] = "next"]
    /\ UNCHANGED <<queue, counters, nNow, control, shutdown>>

\* A return that does not reset the status for the next block.
ReturnWithoutReset ==
    /\ AtMutex(Master)
    /\ queue = <<>> /\ TodoAfter(Master) = 0
    /\ nTodo' = TodoAfter(Master)
    /\ nTotal' = TotalAfter(Master) - 1
    /\ nIdle' = IdleAfter(Master)
    /\ fAllOk' = AllOkAfter(Master)
    /\ verdict' = IF AllOkAfter(Master) THEN "valid" ELSE "invalid"
    /\ pc' = [pc EXCEPT ![Master] = "out"]
    /\ UNCHANGED <<queue, batches, good, added, fWait, shutdown>>

\* The master leaves Loop, with the status reset for the next block.  What it
\* returns reaches ConnectBlock from control.Wait, not from the destructor.
Return ==
    /\ AtMutex(Master)
    /\ queue = <<>> /\ TodoAfter(Master) = 0
    /\ nTodo' = TodoAfter(Master)
    /\ nTotal' = TotalAfter(Master) - 1
    /\ nIdle' = IdleAfter(Master)
    /\ fAllOk' = TRUE
    /\ verdict' = IF ~fWait THEN verdict
                  ELSE IF AllOkAfter(Master) THEN "valid" ELSE "invalid"
    /\ pc' = [pc EXCEPT ![Master] = "out"]
    /\ nNow' = [nNow EXCEPT ![Master] = 0]
    /\ fOk' = [fOk EXCEPT ![Master] = TRUE]
    /\ UNCHANGED <<queue, vChecks, good, added, fWait, shutdown>>
-----------------------------------------------------------------------------
(* CCheckQueueControl in ConnectBlock.                                      *)

\* IsIdle, which the constructor of the control object asserts.
IsIdle == nTotal = nIdle /\ nTodo = 0 /\ fAllOk

\* The constructor.  (That the assertion holds is IdleBetweenBlocks.)
Open ==
    /\ pc[Master] = "out"
    /\ IsIdle
    /\ pc' = [pc EXCEPT ![Master] = "open"]
    /\ good' \in Blocks
    /\ added' = 0
    /\ verdict' = "none"
    /\ UNCHANGED <<queue, counters, batches, fWait, shutdown>>

Asleep == {t \in Workers : pc[t] = "asleep"}

\* notify_one for one check, notify_all for several.
Notify(k) ==
    CASE k = 0 \/ Asleep = {} -> pc' = pc
      [] k = 1 /\ Asleep # {} -> \E t \in Asleep : pc' = [pc EXCEPT ![t] = "woken"]
      [] OTHER -> pc' = [t \in Threads |-> IF t \in Asleep THEN "woken" ELSE pc[t]]

\* A loop over the checks that runs past the end of the vector.
AddOnePastTheEnd(k) ==
    /\ pc[Master] = "open"
    /\ queue' = queue \o [i \in 1..(k + 1) |-> added + i]
    /\ nTodo' = nTodo + k + 1
    /\ added' = added + k
    /\ Notify(k)
    /\ UNCHANGED <<nIdle, nTotal, fAllOk, batches, good, fWait, verdict, shutdown>>

\* The k checks of the next transaction.
Add(k) ==
    /\ pc[Master] = "open"
    /\ queue' = queue \o [i \in 1..k |-> added + i]
    /\ nTodo' = nTodo + k
    /\ added' = added + k
    /\ Notify(k)
    /\ UNCHANGED <<nIdle, nTotal, fAllOk, batches, good, fWait, verdict, shutdown>>

\* ConnectBlock calls Wait, or returns early and leaves it to the destructor.
Enter(wait) ==
    /\ pc[Master] = "open"
    /\ pc' = [pc EXCEPT ![Master] = "first"]
    /\ fWait' = wait
    /\ UNCHANGED <<queue, counters, batches, good, added, verdict, shutdown>>
-----------------------------------------------------------------------------
(* boost's condition variable.                                              *)

\* A wait may end without a notification.
WakeSpuriously(t) ==
    /\ pc[t] = "asleep"
    /\ pc' = [pc EXCEPT ![t] = "woken"]
    /\ UNCHANGED <<queue, counters, batches, control, shutdown>>

\* threadGroup.interrupt_all(): the workers, and the master when it is a
\* thread of the group (ThreadImport, ThreadStakeMinter).
InterruptAll ==
    /\ ~stopping
    /\ stopping' = TRUE
    /\ interrupted' \in {Workers, Threads}
    /\ UNCHANGED <<queue, counters, pc, batches, control>>

Interruptible(t) == t \in interrupted /\ pc[t] \in {"asleep", "woken"}

\* cond.wait throws out of a worker's Loop, which is left for good.  nIdle and
\* nTotal keep counting the wait.
ThrowWorker(t) ==
    /\ Interruptible(t)
    /\ pc' = [pc EXCEPT ![t] = "dead"]
    /\ interrupted' = interrupted \ {t}
    /\ UNCHANGED <<queue, counters, batches, control, stopping>>

\* cond.wait throws out of control.Wait and ConnectBlock, whose unwinding runs
\* the destructor of the control object: fDone is false, Loop is entered anew.
ThrowMaster ==
    /\ Interruptible(Master) /\ fWait
    /\ pc' = [pc EXCEPT ![Master] = "first"]
    /\ fWait' = FALSE
    /\ nNow' = [nNow EXCEPT ![Master] = 0]
    /\ fOk' = [fOk EXCEPT ![Master] = TRUE]
    /\ interrupted' = interrupted \ {Master}
    /\ UNCHANGED <<queue, counters, vChecks, good, added, verdict, stopping>>

\* cond.wait throws out of the destructor, which is noexcept: the process ends.
Terminate ==
    /\ Interruptible(Master) /\ ~fWait
    /\ pc' = [t \in Threads |-> "dead"]
    /\ interrupted' = {}
    /\ UNCHANGED <<queue, counters, batches, control, stopping>>
-----------------------------------------------------------------------------
Step(t) == Sleep(t) \/ Take(t) \/ Run(t)

Next ==
    \/ \E t \in Threads : Sleep(t)
    \/ \E t \in Threads : Take(t)
    \/ \E t \in Threads : Run(t)
    \/ Return
    \/ Open
    \/ \E k \in 0..(NumChecks - added) : Add(k)
    \/ \E wait \in BOOLEAN : Enter(wait)
    \/ \E t \in Threads : WakeSpuriously(t)
    \/ InterruptAll
    \/ \E t \in Workers : ThrowWorker(t)
    \/ ThrowMaster
    \/ Terminate

Spec == Init /\ [][Next]_vars

\* A thread that is not waiting runs, and gets the mutex when it wants it.
Fairness ==
    /\ \A t \in Threads : WF_vars(Step(t))
    /\ WF_vars(Return)

FairSpec == Spec /\ Fairness
-----------------------------------------------------------------------------
(* What the queue promises.                                                 *)

\* The constructor of CCheckQueueControl (line 183) never fails its
\* assertion: between two blocks the queue is idle, whatever way the block
\* before ended and whichever threads have been interrupted meanwhile.
IdleBetweenBlocks == pc[Master] = "out" => IsIdle

Busy == {t \in Threads : pc[t] \in {"running", "next"}}

InHand == UNION {{t} \X (1..nNow[t]) : t \in Busy}

\* nTodo counts the checks that are not finished: those in the queue and
\* those of the batches, so that it is zero for the master only when every
\* check of the block has run or has been skipped because of a failed one.
TodoIsWhatIsLeft ==
    pc[Master] # "dead" => nTodo = Len(queue) + Cardinality(InHand)

\* Wait answers with the conjunction of the checks of this block, and it does
\* answer, also when threads die at a shutdown.
Phase ==
    CASE pc[Master] \in {"out", "open", "dead"} -> pc[Master]
      [] OTHER -> "asked"

Verdict == INSTANCE BlockVerdict WITH phase <- Phase

AnswersForTheBlock == Verdict!Spec
=============================================================================
