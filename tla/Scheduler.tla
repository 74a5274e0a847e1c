------------------------------ MODULE Scheduler ------------------------------
(***************************************************************************)
(* CScheduler and SingleThreadedSchedulerClient (scheduler.cpp), the queue  *)
(* of validation callbacks built on them (validationinterface.cpp), the     *)
(* threads that add callbacks and wait for them, and Shutdown (init.cpp).   *)
(* A step is one critical section of newTaskMutex or of                     *)
(* m_cs_callbacks_pending, or the body of a task or a callback.             *)
(***************************************************************************)
EXTENDS Naturals, Sequences, FiniteSets

CONSTANTS Services,      \* threads in CScheduler::serviceQueue
          Activators,    \* threads of the thread group in ActivateBestChain
          Clients,       \* threads that call BlockUntilSyncedToCurrentChain
          Stakers,       \* those of the clients that are in the thread group
          Main,          \* the thread that runs Shutdown
          Backlog,       \* callbacks ActivateBestChain tolerates (10)
          MaxCallbacks   \* bound on the callbacks that are added

ASSUME SchedulerAssumption ==
    /\ IsFiniteSet(Services) /\ Backlog \in Nat /\ MaxCallbacks \in Nat
    /\ Stakers \subseteq Clients
    /\ Services \cap (Activators \cup Clients) = {}
    /\ Activators \cap Clients = {}
    /\ Main \notin Services \cup Activators \cup Clients

Threads == Services \cup Activators \cup Clients \cup {Main}

VARIABLES
    taskQueue,           \* the tasks by time, see Tasks
    stopRequested,
    nThreadsServicingQueue,
    pending,             \* m_callbacks_pending, the n-th callback being n
    fRunning,            \* m_are_callbacks_running
    added,               \* how many callbacks have been added
    executed,            \* the callbacks that have run
    pc,                  \* where each thread is
    ret,                 \* where a thread goes on after MaybeScheduleProcessQueue
    callback,            \* the callback a thread runs
    promise,             \* the callback that sets the promise of a thread
    before,              \* how many callbacks there were when it called Sync
    interrupted          \* interrupt_all has been called

service == <<taskQueue, stopRequested, nThreadsServicingQueue>>
client == <<pending, fRunning, added, executed>>
sync == <<promise, before>>
vars == <<service, client, pc, ret, callback, sync, interrupted>>

\* A ProcessQueue task, whose time has come when it is scheduled, and the
\* periodic task (scheduleEvery) before and after its time has come.
Tasks == {"process", "later", "due"}

Places == {"start", "loop", "wait", "later", "due", "timedout", "periodic", "exited",
           "process", "callback", "unflag", "maybe", "sched", "notify",
           "idle", "connect", "sync", "enqueue", "waiting", "synced", "gone",
           "up", "stopping", "joining", "flush", "empty", "check", "last", "down"}

TypeOK ==
    /\ taskQueue \in Seq(Tasks)
    /\ stopRequested \in BOOLEAN
    /\ nThreadsServicingQueue \in Nat
    /\ pending \in Seq(Nat)
    /\ fRunning \in BOOLEAN
    /\ added \in Nat
    /\ executed \subseteq Nat
    /\ pc \in [Threads -> Places]
    /\ ret \in [Threads -> Places]
    /\ callback \in [Threads -> Nat]
    /\ promise \in [Threads -> Nat]
    /\ before \in [Threads -> Nat]
    /\ interrupted \in BOOLEAN

\* After initialisation: the scheduler's threads start, one task is periodic.
Init ==
    /\ taskQueue = <<"later">>
    /\ stopRequested = FALSE
    /\ nThreadsServicingQueue = 0
    /\ pending = <<>> /\ fRunning = FALSE /\ added = 0 /\ executed = {}
    /\ pc = [t \in Threads |-> IF t \in Services THEN "start"
                               ELSE IF t = Main THEN "up" ELSE "idle"]
    /\ ret = [t \in Threads |-> IF t \in Services THEN "loop" ELSE "idle"]
    /\ callback = [t \in Threads |-> 0]
    /\ promise = [t \in Threads |-> 0]
    /\ before = [t \in Threads |-> 0]
    /\ interrupted = FALSE

Goto(t, p) == pc' = [pc EXCEPT ![t] = p]
-----------------------------------------------------------------------------
(* CScheduler.                                                              *)

\* The threads that wait for newTaskScheduled.
Sleepers == {t \in Services : pc[t] \in {"wait", "later", "due"}}

\* newTaskScheduled.notify_one(), after which t is at p.
NotifyOne(t, p) ==
    \/ Sleepers = {} /\ Goto(t, p)
    \/ \E s \in Sleepers : pc' = [pc EXCEPT ![t] = p, ![s] = "loop"]

\* Mutant of ServiceQueue: a thread that starts is not counted.
ServiceQueueUncounted(t) ==
    /\ pc[t] \in {"start", "loop"}
    /\ \/ /\ stopRequested
          /\ nThreadsServicingQueue' = nThreadsServicingQueue - 1
          /\ NotifyOne(t, "exited")
       \/ /\ ~stopRequested
          /\ UNCHANGED nThreadsServicingQueue
          /\ Goto(t, IF taskQueue = <<>> THEN "wait"
                     ELSE IF Head(taskQueue) = "later" THEN "later" ELSE "due")
    /\ UNCHANGED <<taskQueue, stopRequested, client, ret, callback, sync, interrupted>>

\* The head of serviceQueue's loop, and what a thread does that is woken by a
\* notification: stop, wait for a task, or wait for the time of the first one.
ServiceQueue(t) ==
    /\ pc[t] \in {"start", "loop"}
    /\ \/ /\ stopRequested
          /\ nThreadsServicingQueue' =
                 IF pc[t] = "start" THEN nThreadsServicingQueue ELSE nThreadsServicingQueue - 1
          /\ NotifyOne(t, "exited")
       \/ /\ ~stopRequested
          /\ nThreadsServicingQueue' =
                 IF pc[t] = "start" THEN nThreadsServicingQueue + 1 ELSE nThreadsServicingQueue
          /\ Goto(t, IF taskQueue = <<>> THEN "wait"
                     ELSE IF Head(taskQueue) = "later" THEN "later" ELSE "due")
    /\ UNCHANGED <<taskQueue, stopRequested, client, ret, callback, sync, interrupted>>

\* wait_until returns timeout; the mutex is taken again later.
Timeout(t) ==
    /\ pc[t] = "due"
    /\ Goto(t, "timedout")
    /\ UNCHANGED <<service, client, ret, callback, sync, interrupted>>

\* The first task, if there still is one, is taken.
TakeTask(t) ==
    /\ pc[t] = "timedout"
    /\ IF stopRequested \/ taskQueue = <<>>
       THEN /\ Goto(t, "loop")
            /\ UNCHANGED taskQueue
       ELSE /\ Goto(t, IF Head(taskQueue) = "process" THEN "process" ELSE "periodic")
            /\ taskQueue' = Tail(taskQueue)
    /\ UNCHANGED <<stopRequested, nThreadsServicingQueue, client, ret, callback, sync, interrupted>>

\* taskQueue.emplace: f comes after the k tasks of the same or an earlier time.
Emplace(f) ==
    \E k \in 0..Len(taskQueue) :
        /\ f = "later" => k = Len(taskQueue)
        /\ f = "process" => \A i \in 1..Len(taskQueue) : i <= k <=> taskQueue[i] # "later"
        /\ taskQueue' = SubSeq(taskQueue, 1, k) \o <<f>> \o SubSeq(taskQueue, k + 1, Len(taskQueue))

\* Repeat: the periodic task runs and is scheduled again; the notification
\* follows when newTaskMutex is released.
Repeat(t) ==
    /\ pc[t] = "periodic"
    /\ Emplace("later")
    /\ Goto(t, "notify")
    /\ UNCHANGED <<stopRequested, nThreadsServicingQueue, client, ret, callback, sync, interrupted>>

Notify(t) ==
    /\ pc[t] = "notify"
    /\ NotifyOne(t, ret[t])
    /\ UNCHANGED <<service, client, ret, callback, sync, interrupted>>

\* A condition variable may wake a thread without a notification.
WakeSpuriously(t) ==
    /\ pc[t] \in {"wait", "later"}
    /\ Goto(t, "loop")
    /\ UNCHANGED <<service, client, ret, callback, sync, interrupted>>

\* The time of the periodic task comes.
Tick ==
    /\ \E i \in DOMAIN taskQueue : taskQueue[i] = "later"
    /\ taskQueue' = [i \in DOMAIN taskQueue |->
                        IF taskQueue[i] = "later" THEN "due" ELSE taskQueue[i]]
    /\ pc' = [t \in Threads |-> IF pc[t] = "later" THEN "due" ELSE pc[t]]
    /\ UNCHANGED <<stopRequested, nThreadsServicingQueue, client, ret, callback, sync, interrupted>>
-----------------------------------------------------------------------------
(* SingleThreadedSchedulerClient.                                           *)

CanProcess == ~fRunning /\ pending # <<>>

\* Mutant of ProcessQueue: it does not look at m_are_callbacks_running.
ProcessQueueUnguarded(t) ==
    /\ pc[t] = "process" /\ pending # <<>>
    /\ fRunning' = TRUE
    /\ callback' = [callback EXCEPT ![t] = Head(pending)]
    /\ pending' = Tail(pending)
    /\ Goto(t, "callback")
    /\ UNCHANGED <<service, added, executed, ret, sync, interrupted>>

\* ProcessQueue up to the callback.
ProcessQueue(t) ==
    /\ pc[t] = "process"
    /\ IF CanProcess
       THEN /\ fRunning' = TRUE
            /\ callback' = [callback EXCEPT ![t] = Head(pending)]
            /\ pending' = Tail(pending)
            /\ Goto(t, "callback")
       ELSE /\ Goto(t, ret[t])
            /\ UNCHANGED <<fRunning, callback, pending>>
    /\ UNCHANGED <<service, added, executed, ret, sync, interrupted>>

RunCallback(t) ==
    /\ pc[t] = "callback"
    /\ executed' = executed \cup {callback[t]}
    /\ Goto(t, "unflag")
    /\ UNCHANGED <<service, pending, fRunning, added, ret, callback, sync, interrupted>>

\* Mutant of Unflag: the flag is reset and nothing is scheduled.
UnflagOnly(t) ==
    /\ pc[t] = "unflag"
    /\ fRunning' = FALSE
    /\ callback' = [callback EXCEPT ![t] = 0]
    /\ Goto(t, ret[t])
    /\ UNCHANGED <<service, pending, added, executed, ret, sync, interrupted>>

\* ~RAIICallbacksRunning; the local callback is not used any more.
Unflag(t) ==
    /\ pc[t] = "unflag"
    /\ fRunning' = FALSE
    /\ callback' = [callback EXCEPT ![t] = 0]
    /\ Goto(t, "maybe")
    /\ UNCHANGED <<service, pending, added, executed, ret, sync, interrupted>>

\* MaybeScheduleProcessQueue, with m_cs_callbacks_pending.
MaybeSchedule(t) ==
    /\ pc[t] = "maybe"
    /\ Goto(t, IF CanProcess THEN "sched" ELSE ret[t])
    /\ UNCHANGED <<service, client, ret, callback, sync, interrupted>>

\* Mutant of Schedule: no notification follows.
ScheduleSilently(t) ==
    /\ pc[t] = "sched"
    /\ Emplace("process")
    /\ Goto(t, ret[t])
    /\ UNCHANGED <<stopRequested, nThreadsServicingQueue, client, ret, callback, sync, interrupted>>

\* CScheduler::schedule(ProcessQueue, now).
Schedule(t) ==
    /\ pc[t] = "sched"
    /\ Emplace("process")
    /\ Goto(t, "notify")
    /\ UNCHANGED <<stopRequested, nThreadsServicingQueue, client, ret, callback, sync, interrupted>>

\* AddToProcessQueue, after which the thread goes on at p.
AddToProcessQueue(t, p) ==
    /\ added' = added + 1
    /\ pending' = Append(pending, added')
    /\ Goto(t, "maybe")
    /\ ret' = [ret EXCEPT ![t] = p]
    /\ UNCHANGED <<service, fRunning, executed, callback, interrupted>>
-----------------------------------------------------------------------------
(* The threads that use it.                                                 *)

\* The bound on the callbacks, two of which are Shutdown's; an activation that
\* waits adds one more.
Room ==
    added + Cardinality({t \in Activators \cup Clients : pc[t] \in {"connect", "sync", "enqueue"}})
        + 3 <= MaxCallbacks

\* An iteration of ActivateBestChain's outer loop, by the holder of
\* m_cs_chainstate: wait for the queue when it is long, then connect a block
\* and add its callback.
Activate(t) ==
    /\ t \in Activators /\ pc[t] = "idle" /\ ~interrupted /\ Room
    /\ \A u \in Activators \ {t} : pc[u] \in {"idle", "gone"}
    /\ Goto(t, IF Len(pending) > Backlog THEN "sync" ELSE "connect")
    /\ UNCHANGED <<service, client, ret, callback, sync, interrupted>>

Connect(t) ==
    /\ t \in Activators /\ pc[t] \in {"connect", "synced"}
    /\ AddToProcessQueue(t, "idle")
    /\ UNCHANGED sync

\* Between two calls: a client's call ends with the wait.
Resting(t) == pc[t] = "idle" \/ (t \in Clients /\ pc[t] = "synced")

\* boost::this_thread::interruption_point() at the head of the loop, and in
\* the staking thread before it waits.
Interrupted(t) ==
    /\ t \in Activators \cup Stakers /\ Resting(t) /\ interrupted
    /\ Goto(t, "gone")
    /\ promise' = [promise EXCEPT ![t] = 0]
    /\ before' = [before EXCEPT ![t] = 0]
    /\ UNCHANGED <<service, client, ret, callback, interrupted>>

\* BlockUntilSyncedToCurrentChain, called by an RPC or, before it looks for a
\* stake, by SolveProofOfStake in the staking thread.  It waits however short
\* the queue is.  A block that is staked then is connected as in Activate.
Request(t) ==
    /\ t \in Clients /\ Resting(t) /\ Room
    /\ IF t \in Stakers THEN ~interrupted ELSE pc[Main] = "up"
    /\ Goto(t, "sync")
    /\ UNCHANGED <<service, client, ret, callback, sync, interrupted>>

\* SyncWithValidationInterfaceQueue: return when nothing is pending.
Sync(t) ==
    /\ pc[t] = "sync"
    /\ before' = [before EXCEPT ![t] = IF pending = <<>> THEN 0 ELSE added]
    /\ promise' = [promise EXCEPT ![t] = 0]
    /\ Goto(t, IF pending = <<>> THEN "synced" ELSE "enqueue")
    /\ UNCHANGED <<service, client, ret, callback, interrupted>>

\* Otherwise add a callback that sets the promise, and wait for it.
Enqueue(t) ==
    /\ pc[t] = "enqueue"
    /\ AddToProcessQueue(t, "waiting")
    /\ promise' = [promise EXCEPT ![t] = added']
    /\ UNCHANGED before

\* Mutant of PromiseKept: nobody waits for the future.
PromiseIgnored(t) ==
    /\ pc[t] = "waiting"
    /\ Goto(t, "synced")
    /\ UNCHANGED <<service, client, ret, callback, sync, interrupted>>

PromiseKept(t) ==
    /\ pc[t] = "waiting"
    /\ promise[t] \in executed
    /\ Goto(t, "synced")
    /\ UNCHANGED <<service, client, ret, callback, sync, interrupted>>
-----------------------------------------------------------------------------
(* Shutdown.                                                                *)

\* A shutdown is requested: no RPC is started any more.
RequestShutdown ==
    /\ pc[Main] = "up"
    /\ Goto(Main, "stopping")
    /\ UNCHANGED <<service, client, ret, callback, sync, interrupted>>

\* Mutant of StopScheduler: the sleeping threads are not notified.
StopSilently ==
    /\ pc[Main] = "stopping"
    /\ \A t \in Clients \ Stakers : Resting(t)
    /\ stopRequested' = TRUE
    /\ interrupted' = TRUE
    /\ Goto(Main, "joining")
    /\ UNCHANGED <<taskQueue, nThreadsServicingQueue, client, ret, callback, sync>>

\* StopHTTPServer has waited for the RPC threads; scheduler.stop() and
\* threadGroup.interrupt_all().
StopScheduler ==
    /\ pc[Main] = "stopping"
    /\ \A t \in Clients \ Stakers : Resting(t)
    /\ stopRequested' = TRUE
    /\ interrupted' = TRUE
    /\ pc' = [t \in Threads |-> IF t = Main THEN "joining"
                               ELSE IF t \in Sleepers THEN "loop" ELSE pc[t]]
    /\ UNCHANGED <<taskQueue, nThreadsServicingQueue, client, ret, callback, sync>>

\* Mutant of Join: the service threads are not in the group.
JoinCallers ==
    /\ pc[Main] = "joining"
    /\ \A t \in Activators \cup Stakers : pc[t] = "gone"
    /\ Goto(Main, "flush")
    /\ UNCHANGED <<service, client, ret, callback, sync, interrupted>>

\* threadGroup.join_all().
Join ==
    /\ pc[Main] = "joining"
    /\ \A t \in Services : pc[t] = "exited"
    /\ \A t \in Activators \cup Stakers : pc[t] = "gone"
    /\ Goto(Main, "flush")
    /\ UNCHANGED <<service, client, ret, callback, sync, interrupted>>

\* FlushStateToDisk adds the SetBestChain callback when the last one is older
\* than DATABASE_WRITE_INTERVAL; Main goes on at p.
SetBestChain(p) ==
    /\ \/ AddToProcessQueue(Main, p)
       \/ Goto(Main, p) /\ UNCHANGED <<service, client, ret, callback, interrupted>>
    /\ UNCHANGED sync

FlushState == pc[Main] = "flush" /\ SetBestChain("empty")

\* FlushBackgroundCallbacks: EmptyQueue asserts that no thread services the
\* queue and calls ProcessQueue ...
EmptyQueue ==
    /\ pc[Main] = "empty"
    /\ Goto(Main, "process")
    /\ ret' = [ret EXCEPT ![Main] = "check"]
    /\ UNCHANGED <<service, client, callback, sync, interrupted>>

\* Mutant of EmptyQueueAgain: one callback is enough.
EmptyQueueOnce ==
    /\ pc[Main] = "check"
    /\ Goto(Main, "last")
    /\ UNCHANGED <<service, client, ret, callback, sync, interrupted>>

\* ... until nothing is pending.
EmptyQueueAgain ==
    /\ pc[Main] = "check"
    /\ Goto(Main, IF pending = <<>> THEN "last" ELSE "empty")
    /\ UNCHANGED <<service, client, ret, callback, sync, interrupted>>

\* The second FlushStateToDisk, whose callback is dropped with the client.
LastFlush == pc[Main] = "last" /\ SetBestChain("down")
-----------------------------------------------------------------------------
ClientStep(t) == ProcessQueue(t) \/ RunCallback(t) \/ Unflag(t) \/ MaybeSchedule(t) \/ Schedule(t) \/ Notify(t)

ServiceStep(t) == ServiceQueue(t) \/ Timeout(t) \/ TakeTask(t) \/ Repeat(t) \/ ClientStep(t)

CallerStep(t) == Connect(t) \/ Interrupted(t) \/ Sync(t) \/ Enqueue(t) \/ PromiseKept(t) \/ ClientStep(t)

MainStep == StopScheduler \/ Join \/ FlushState \/ EmptyQueue \/ EmptyQueueAgain \/ LastFlush \/ ClientStep(Main)

Next ==
    \/ \E t \in Services : ServiceStep(t)
    \/ \E t \in Activators \cup Clients : CallerStep(t)
    \/ \E t \in Activators : Activate(t)
    \/ \E t \in Clients : Request(t)
    \/ MainStep
    \/ \E t \in Services : WakeSpuriously(t)
    \/ RequestShutdown
    \/ Tick

Spec == Init /\ [][Next]_vars

\* A thread that is not blocked runs; that a shutdown is requested, a block
\* arrives or an RPC is called is not assumed.
Fairness ==
    /\ \A t \in Services : WF_vars(ServiceStep(t))
    /\ \A t \in Activators \cup Clients : WF_vars(CallerStep(t))
    /\ WF_vars(MainStep)

FairSpec == Spec /\ Fairness
-----------------------------------------------------------------------------
(* Properties.                                                              *)

\* Subscribers see the callbacks one at a time and in the order validation
\* added them, whichever threads run ProcessQueue and however their steps
\* interleave with AddToProcessQueue (scheduler.h, validationinterface.h).
Order == INSTANCE CallbackOrder
             WITH running <- {callback[t] : t \in {u \in Threads : pc[u] = "callback"}}
InOrderOneAtATime == Order!Spec

\* A ProcessQueue is on its way: scheduled, or a thread will run or schedule it.
OnItsWay ==
    \/ fRunning
    \/ \E i \in DOMAIN taskQueue : taskQueue[i] = "process"
    \/ \E t \in Threads : pc[t] \in {"process", "maybe", "sched"}

\* MaybeScheduleProcessQueue gives up when callbacks are running or none is
\* pending, and decides before it schedules: a callback is never left behind
\* with no ProcessQueue to come.
NoneLeftBehind == pending # <<>> => OnItsWay \/ pc[Main] \in {"empty", "check"}

\* A call of SyncWithValidationInterfaceQueue that waited for its promise
\* returns after all callbacks that had been added when it was called.
WaitedForEarlier ==
    \A t \in Activators \cup Clients :
        pc[t] = "synced" /\ promise[t] # 0 => 1..before[t] \subseteq executed

\* EmptyQueue's assertion that no thread services the queue any more.
NoServiceLeft == pc[Main] \in {"empty", "check", "last", "down"} => nThreadsServicingQueue = 0

\* "FlushStateToDisk generates a SetBestChain callback, which we should avoid
\* missing": FlushBackgroundCallbacks leaves no callback of all that were added.
NoneMissed == pc[Main] = "last" => executed = 1..added

\* A thread of the group waits for a callback that nobody will run: Shutdown
\* joins the group, and the scheduler's threads have left.
Stuck ==
    /\ pc[Main] = "joining"
    /\ \A t \in Services : pc[t] = "exited"
    /\ \E t \in Activators \cup Stakers : pc[t] = "waiting" /\ promise[t] \notin executed

\* Every callback that is added before the second flush of Shutdown is run, by the
\* scheduler or by FlushBackgroundCallbacks, unless Shutdown never gets there: again
\* and again all that were added have run.
EveryCallbackRuns == []<>(executed = 1..added \/ pc[Main] = "down" \/ Stuck)

\* A shutdown that is requested ends, or a thread of the group had called
\* SyncWithValidationInterfaceQueue and its callback was still in the queue when
\* the scheduler stopped: nothing else keeps join_all from returning.
ShutdownEndsOrStuck == pc[Main] = "stopping" ~> pc[Main] = "down" \/ Stuck

\* A shutdown that is requested ends ("A clean exit happens when StartShutdown() or
\* the SIGTERM signal handler sets ShutdownRequested()", init.cpp).
ShutdownEnds == pc[Main] = "stopping" ~> pc[Main] = "down"
=============================================================================
