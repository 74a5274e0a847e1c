--------------------------- MODULE SchedulerProofs ---------------------------
(***************************************************************************)
(* Proofs about Scheduler, for any number of service threads, of threads    *)
(* that activate the best chain, of RPC threads and of staking threads.     *)
(***************************************************************************)
EXTENDS Scheduler, Integers, TLAPS

\* A leaf is proved by Zenon unless it cites another prover.
USE Zenon

\* Places in SingleThreadedSchedulerClient.
InClient == {"process", "callback", "unflag", "maybe", "sched", "notify"}

\* Which thread may be where, and where it goes on.
Roles ==
    /\ \A t \in Services :
          /\ pc[t] \in InClient \cup {"start", "loop", "wait", "later", "due", "timedout", "periodic", "exited"}
          /\ ret[t] = "loop"
    /\ \A t \in Activators \cup Clients :
          /\ pc[t] \in {"maybe", "sched", "notify", "idle", "connect", "sync", "enqueue", "waiting", "synced", "gone"}
          /\ pc[t] \in {"maybe", "sched", "notify"} => ret[t] \in {"idle", "waiting"}
    /\ pc[Main] \in InClient \cup {"up", "stopping", "joining", "flush", "empty", "check", "last", "down"}
    /\ pc[Main] \in InClient => ret[Main] \in {"empty", "check", "down"}

Serving == {t \in Services : pc[t] \notin {"start", "exited"}}

\* S has n elements: some f numbers them from 1 to n.
Numbers(f, n, S) ==
    /\ f \in [1..n -> S]
    /\ \A i, j \in 1..n : f[i] = f[j] => i = j
    /\ \A x \in S : \E i \in 1..n : f[i] = x

Served ==
    /\ nThreadsServicingQueue \in Nat
    /\ \E f : Numbers(f, nThreadsServicingQueue, Serving)

\* m_are_callbacks_running is held by one thread at a time.
OneRunner ==
    /\ \A t \in Threads : pc[t] \in {"callback", "unflag"} => fRunning
    /\ \A t, u \in Threads :
          pc[t] \in {"callback", "unflag"} /\ pc[u] \in {"callback", "unflag"} => t = u

\* How many callbacks have been taken from the queue.
Started == added - Len(pending)

\* The callbacks are taken, and run, by their numbers.
Numbered ==
    /\ Started \in Nat
    /\ \A i \in 1..Len(pending) : pending[i] = Started + i
    /\ \A t \in Threads : pc[t] = "callback" =>
          callback[t] = Started /\ Started > 0 /\ executed = 1..(Started - 1)
    /\ (\A t \in Threads : pc[t] # "callback") => executed = 1..Started

Promises ==
    \A t \in Activators \cup Clients :
        /\ before[t] <= added
        /\ promise[t] # 0 => before[t] < promise[t]
        /\ pc[t] = "synced" /\ promise[t] # 0 => promise[t] \in executed

\* Shutdown's thread is alone once it has joined the others.
Alone ==
    /\ pc[Main] \notin {"up", "stopping"} =>
          \A t \in Clients \ Stakers : pc[t] \in {"idle", "synced"}
    /\ pc[Main] \notin {"up", "stopping", "joining"} =>
          /\ \A t \in Services : pc[t] = "exited"
          /\ \A t \in Activators \cup Stakers : pc[t] = "gone"
    /\ pc[Main] = "last" => pending = <<>>

\* The inductive invariant.
IInv ==
    /\ TypeOK
    /\ Roles
    /\ Served
    /\ OneRunner
    /\ Numbered
    /\ Promises
    /\ Alone
    /\ NoneLeftBehind

-----------------------------------------------------------------------------
(* The initial state and the steps.                                         *)

(* The conjuncts that a step keeps that leaves the callbacks alone and moves *)
(* no thread into or out of a callback.                                     *)
LEMMA CallbacksKept ==
    ASSUME IInv, UNCHANGED <<client, callback>>,
           \A u \in Threads : /\ pc'[u] = "callback" <=> pc[u] = "callback"
                              /\ pc'[u] = "unflag" <=> pc[u] = "unflag"
    PROVE  OneRunner' /\ Numbered'
<1>1. /\ pending' = pending /\ added' = added /\ executed' = executed
      /\ fRunning' = fRunning /\ callback' = callback
  BY DEF client
<1>a. \A u \in Threads : pc'[u] \in {"callback", "unflag"} <=> pc[u] \in {"callback", "unflag"}
  OBVIOUS
<1>b. OneRunner /\ Numbered
  BY DEF IInv
<1>2. OneRunner'
  BY <1>1, <1>a, <1>b, Zenon DEF OneRunner
<1>3. Numbered'
  <2>1. Started' = Started
    BY <1>1 DEF Started
  <2> QED
    BY <1>1, <1>b, <2>1 DEF Numbered
<1> QED
  BY <1>2, <1>3

(* The count of service threads is kept when none begins or ends.           *)
LEMMA ServedKept ==
    ASSUME IInv, nThreadsServicingQueue' = nThreadsServicingQueue,
           \A u \in Services : pc'[u] \in {"start", "exited"} <=> pc[u] \in {"start", "exited"}
    PROVE  Served'
<1>1. Serving' = Serving
  BY DEF Serving
<1> QED
  BY <1>1 DEF IInv, Served

(* A new element gets the next number.                                      *)
LEMMA NumberNew ==
    ASSUME NEW n \in Nat, NEW S, NEW f, Numbers(f, n, S), NEW x, x \notin S
    PROVE  \E g : Numbers(g, n + 1, S \cup {x})
<1> DEFINE g == [i \in 1..(n + 1) |-> IF i = n + 1 THEN x ELSE f[i]]
<1>1. g[n + 1] = x /\ \A i \in 1..n : g[i] = f[i]
  BY SMT
<1>2. \A i \in 1..(n + 1) : i = n + 1 \/ i \in 1..n
  BY SMT
<1>3. g \in [1..(n + 1) -> S \cup {x}]
  BY <1>2 DEF Numbers
<1> HIDE DEF g
<1>4. \A i \in 1..n : f[i] \in S /\ i \in 1..(n + 1)
  BY SMT DEF Numbers
<1>5. ASSUME NEW i \in 1..(n + 1), NEW j \in 1..(n + 1), g[i] = g[j]
      PROVE  i = j
  BY <1>1, <1>2, <1>4, <1>5, SMT DEF Numbers
<1>6. ASSUME NEW y \in S \cup {x} PROVE \E i \in 1..(n + 1) : g[i] = y
  <2>1. CASE y = x
    <3>1. n + 1 \in 1..(n + 1)
      BY SMT
    <3> QED
      BY <1>1, <2>1, <3>1
  <2>2. CASE y \in S
    <3>1. PICK i \in 1..n : f[i] = y
      BY <2>2 DEF Numbers
    <3> QED
      BY <1>1, <1>4, <3>1
  <2> QED
    BY <2>1, <2>2
<1> QED
  BY <1>3, <1>5, <1>6 DEF Numbers

(* The last element takes the number of the one that goes.                  *)
LEMMA NumberGone ==
    ASSUME NEW n \in Nat, NEW S, NEW f, Numbers(f, n, S), NEW x \in S
    PROVE  n - 1 \in Nat /\ \E g : Numbers(g, n - 1, S \ {x})
<1>1. PICK k \in 1..n : f[k] = x
  BY DEF Numbers
<1>2. n - 1 \in Nat /\ n \in 1..n /\ k \in Nat
  BY <1>1, SMT
<1>3. \A i \in 1..(n - 1) : i \in 1..n /\ i # n
  BY <1>2, SMT
<1>4. \A i \in 1..n : i \in 1..(n - 1) \/ i = n
  BY <1>2, SMT
<1> DEFINE g == [i \in 1..(n - 1) |-> IF i = k THEN f[n] ELSE f[i]]
<1>5. \A i \in 1..(n - 1) : g[i] = IF i = k THEN f[n] ELSE f[i]
  OBVIOUS
<1>6. \A i \in 1..n : f[i] \in S /\ (f[i] = x => i = k)
  BY <1>1 DEF Numbers
<1>7. \A i \in 1..n, j \in 1..n : f[i] = f[j] => i = j
  BY DEF Numbers
<1>8. ASSUME NEW i \in 1..(n - 1) PROVE g[i] \in S \ {x}
  BY <1>2, <1>3, <1>5, <1>6
<1>9. g \in [1..(n - 1) -> S \ {x}]
  BY <1>5, <1>8
<1> HIDE DEF g
<1>10. ASSUME NEW i \in 1..(n - 1), NEW j \in 1..(n - 1), g[i] = g[j]
       PROVE  i = j
  BY <1>2, <1>3, <1>5, <1>7, <1>10
<1>11. ASSUME NEW y \in S \ {x} PROVE \E i \in 1..(n - 1) : g[i] = y
  <2>1. PICK i \in 1..n : f[i] = y
    BY DEF Numbers
  <2>2. i # k
    BY <1>1, <2>1
  <2>3. CASE i = n
    BY <1>1, <1>4, <1>5, <2>1, <2>2, <2>3
  <2>4. CASE i \in 1..(n - 1)
    BY <1>5, <2>1, <2>2, <2>4
  <2> QED
    BY <1>4, <2>3, <2>4
<1> QED
  BY <1>2, <1>9, <1>10, <1>11 DEF Numbers

(* No elements are numbered up to 0.                                        *)
LEMMA NumberNone ==
    /\ \E f : Numbers(f, 0, {})
    /\ \A n \in Nat : \A f : Numbers(f, n, {}) => n = 0
<1>1. Numbers([i \in 1..0 |-> i], 0, {})
  BY SMT DEF Numbers
<1>2. ASSUME NEW n \in Nat, NEW f, Numbers(f, n, {}) PROVE n = 0
  <2>1. ~(1 \in 1..n)
    BY <1>2 DEF Numbers
  <2> QED
    BY <2>1, SMT
<1> QED
  BY <1>1, <1>2

(* A service thread that begins is counted in.                              *)
LEMMA ServedOneMore ==
    ASSUME IInv, NEW t \in Services, pc[t] = "start",
           nThreadsServicingQueue' = nThreadsServicingQueue + 1,
           pc'[t] \notin {"start", "exited"},
           \A u \in Services \ {t} : pc'[u] = pc[u]
    PROVE  Served'
<1>1. Serving' = Serving \cup {t} /\ t \notin Serving
  BY DEF Serving
<1> HIDE DEF Serving
<1>2. PICK f : Numbers(f, nThreadsServicingQueue, Serving)
  BY DEF IInv, Served
<1>3. nThreadsServicingQueue \in Nat
  BY DEF IInv, Served
<1>4. \E g : Numbers(g, nThreadsServicingQueue + 1, Serving \cup {t})
  BY <1>1, <1>2, <1>3, NumberNew
<1> QED
  BY <1>1, <1>3, <1>4, SMT DEF Served

(* A service thread that ends is counted out.                               *)
LEMMA ServedOneLess ==
    ASSUME IInv, NEW t \in Services, pc[t] \notin {"start", "exited"},
           nThreadsServicingQueue' = nThreadsServicingQueue - 1,
           pc'[t] = "exited",
           \A u \in Services \ {t} : pc'[u] \in {"start", "exited"} <=> pc[u] \in {"start", "exited"}
    PROVE  Served'
<1>1. Serving' = Serving \ {t} /\ t \in Serving
  BY DEF Serving
<1> HIDE DEF Serving
<1>2. PICK f : Numbers(f, nThreadsServicingQueue, Serving)
  BY DEF IInv, Served
<1>3. nThreadsServicingQueue \in Nat
  BY DEF IInv, Served
<1>4. /\ nThreadsServicingQueue - 1 \in Nat
      /\ \E g : Numbers(g, nThreadsServicingQueue - 1, Serving \ {t})
  BY <1>1, <1>2, <1>3, NumberGone
<1> QED
  BY <1>1, <1>4 DEF Served

(* What notify_one does to the places.                                      *)
LEMMA Notified ==
    ASSUME IInv, NEW t \in Threads, t \notin Sleepers, NEW p \in Places, NotifyOne(t, p)
    PROVE  /\ pc' \in [Threads -> Places]
           /\ pc'[t] = p
           /\ \A u \in Threads \ {t} : pc'[u] = pc[u] \/ (u \in Sleepers /\ pc'[u] = "loop")
<1>1. Sleepers \subseteq Threads
  BY DEF Sleepers, Threads
<1>2. "loop" \in Places
  BY DEF Places
<1> QED
  BY <1>1, <1>2 DEF IInv, TypeOK, NotifyOne, Goto

(* emplace adds the task and keeps the others.                              *)
LEMMA Emplaced ==
    ASSUME TypeOK, NEW f \in Tasks, Emplace(f)
    PROVE  /\ taskQueue' \in Seq(Tasks)
           /\ \E i \in DOMAIN taskQueue' : taskQueue'[i] = f
           /\ \A i \in DOMAIN taskQueue : \E j \in DOMAIN taskQueue' : taskQueue'[j] = taskQueue[i]
<1>1. PICK k \in 0..Len(taskQueue) :
        taskQueue' = SubSeq(taskQueue, 1, k) \o <<f>> \o SubSeq(taskQueue, k + 1, Len(taskQueue))
  BY DEF Emplace
<1> DEFINE n == Len(taskQueue)
           x == SubSeq(taskQueue, 1, k)
           y == SubSeq(taskQueue, k + 1, n)
<1>2. taskQueue \in Seq(Tasks) /\ n \in Nat /\ k \in Nat /\ k <= n
  BY SMT DEF TypeOK
<1>3. x \in Seq(Tasks) /\ Len(x) = k /\ \A i \in 1..k : x[i] = taskQueue[i]
  BY <1>2, SMT
<1>4. y \in Seq(Tasks) /\ Len(y) = n - k /\ \A i \in 1..(n - k) : y[i] = taskQueue[k + i]
  BY <1>2, SMT
<1> HIDE DEF x, y
<1>5. taskQueue' = x \o <<f>> \o y
  BY <1>1 DEF x, y
<1> DEFINE z == x \o <<f>>
<1>a. z \in Seq(Tasks) /\ Len(z) = k + 1 /\ z[k + 1] = f /\ \A i \in 1..k : z[i] = x[i]
  BY <1>2, <1>3, SMT
<1> HIDE DEF z
<1>b. taskQueue' = z \o y
  BY <1>5 DEF z
<1>6. /\ taskQueue' \in Seq(Tasks)
      /\ Len(taskQueue') = n + 1
      /\ taskQueue'[k + 1] = f
      /\ \A i \in 1..k : taskQueue'[i] = x[i]
      /\ \A i \in 1..(n - k) : taskQueue'[k + 1 + i] = y[i]
  <2>0. z \o y \in Seq(Tasks)
    BY <1>4, <1>a, SMT
  <2>1. taskQueue' \in Seq(Tasks) /\ Len(taskQueue') = n + 1
    <3>1. Len(z \o y) = Len(z) + Len(y)
      <4>1. z \in Seq(Tasks) /\ y \in Seq(Tasks)
        BY <1>4, <1>a
      <4> QED
        BY <4>1, SMT
    <3>2. Len(z) + Len(y) = n + 1
      BY <1>2, <1>4, <1>a, SMT
    <3> QED
      BY <1>b, <2>0, <3>1, <3>2
  <2>2. \A i \in 1..(k + 1) : taskQueue'[i] = z[i]
    BY <1>2, <1>4, <1>a, <1>b, SMT
  <2>3. ASSUME NEW i \in 1..(n - k) PROVE taskQueue'[k + 1 + i] = y[i]
    BY <1>2, <1>4, <1>a, <1>b, SMT
  <2> QED
    BY <2>1, <2>2, <2>3, <1>2, <1>a, SMT
<1>7. ASSUME NEW i \in DOMAIN taskQueue
      PROVE  \E j \in DOMAIN taskQueue' : taskQueue'[j] = taskQueue[i]
  <2>1. i \in 1..n
    BY <1>2, SMT
  <2>2. CASE i <= k
    <3>1. i \in 1..k /\ i \in 1..(n + 1)
      BY <2>1, <2>2, <1>2, SMT
    <3>2. taskQueue'[i] = taskQueue[i]
      BY <3>1, <1>3, <1>6
    <3> QED
      BY <3>1, <3>2, <1>6, SMT
  <2>3. CASE i > k
    <3>1. i - k \in 1..(n - k) /\ k + 1 + (i - k) = i + 1 /\ k + (i - k) = i /\ i + 1 \in 1..(n + 1)
      BY <2>1, <2>3, <1>2, SMT
    <3>a. taskQueue'[k + 1 + (i - k)] = y[i - k] /\ y[i - k] = taskQueue[k + (i - k)]
      BY <3>1, <1>4, <1>6
    <3>2. taskQueue'[i + 1] = taskQueue[i]
      BY <3>1, <3>a
    <3> QED
      BY <3>1, <3>2, <1>6, SMT
  <2> QED
    BY <2>1, <2>2, <2>3, <1>2, SMT
<1>8. k + 1 \in 1..(n + 1)
  BY <1>2, SMT
<1> QED
  BY <1>6, <1>7, <1>8, SMT

(* Every step of a thread keeps the inductive invariant.                  *)

(* A step that only moves a thread, out of no callback and into none, keeps *)
(* the invariant when the thread may be where it goes.                      *)
LEMMA MoveInv ==
    ASSUME IInv, NEW t \in Threads, NEW p \in Places, Goto(t, p),
           UNCHANGED <<service, client, ret, callback, sync, interrupted>>,
           pc[t] \notin {"start", "exited", "callback", "unflag", "process", "maybe", "sched"},
           p \notin {"start", "exited", "callback", "unflag"},
           p = "synced" => promise[t] \in executed,
           t = Main /\ pc[t] \in {"empty", "check"} => p \in {"empty", "check"} \/ pending = <<>>,
           Roles', Alone'
    PROVE  IInv'
<1>1. /\ pc' = [pc EXCEPT ![t] = p] /\ pc \in [Threads -> Places]
      /\ UNCHANGED <<taskQueue, stopRequested, nThreadsServicingQueue, pending, fRunning,
                     added, executed, ret, callback, promise, before, interrupted>>
  BY DEF Goto, service, client, sync, IInv, TypeOK
<1>2. \A u \in Threads : IF u = t THEN pc'[u] = p ELSE pc'[u] = pc[u]
  BY <1>1
<1>3. TypeOK'
  BY <1>1 DEF IInv, TypeOK
<1>4. Served'
  BY <1>1, <1>2, ServedKept DEF Threads
<1>5. OneRunner' /\ Numbered'
  BY <1>1, <1>2, CallbacksKept DEF client
<1>6. Promises'
  BY <1>1, <1>2 DEF IInv, Promises, Threads
<1>7. NoneLeftBehind'
  <2>1. OnItsWay => OnItsWay'
    BY <1>1, <1>2 DEF OnItsWay
  <2>2. pc[Main] \in {"empty", "check"} /\ pending # <<>> => pc'[Main] \in {"empty", "check"}
    BY <1>2 DEF Threads
  <2> QED
    BY <1>1, <2>1, <2>2 DEF IInv, NoneLeftBehind
<1> QED
  BY <1>3, <1>4, <1>5, <1>6, <1>7 DEF IInv

(* wait_until returns.                                                      *)
LEMMA TimeoutInv ==
    ASSUME IInv, NEW t \in Services, Timeout(t)
    PROVE  IInv'
<1>1. t \in Threads
  BY DEF Threads
<1>2. Roles'
  BY <1>1, SchedulerAssumption, SMT DEF IInv, TypeOK, Roles, InClient, Goto, Threads, Timeout
<1>3. Alone'
  BY <1>1, SchedulerAssumption DEF IInv, TypeOK, Roles, InClient, Goto, Threads, Alone, service, client, sync, Timeout
<1> QED
  BY <1>1, <1>2, <1>3, MoveInv, SchedulerAssumption DEF Timeout, Places

(* A spurious wake-up.                                                      *)
LEMMA WakeInv ==
    ASSUME IInv, NEW t \in Services, WakeSpuriously(t)
    PROVE  IInv'
<1>1. t \in Threads
  BY SMT DEF Threads
<1>2. Roles'
  BY <1>1, SchedulerAssumption, SMT DEF IInv, TypeOK, Roles, InClient, Goto, Threads, WakeSpuriously
<1>3. Alone'
  BY <1>1, SchedulerAssumption DEF IInv, TypeOK, Roles, InClient, Goto, Threads, Alone, service, client, sync, WakeSpuriously
<1> QED
  BY <1>1, <1>2, <1>3, MoveInv, SchedulerAssumption DEF WakeSpuriously, Places

(* ActivateBestChain looks at the backlog.                                  *)
LEMMA ActivateInv ==
    ASSUME IInv, NEW t \in Activators, Activate(t)
    PROVE  IInv'
<1>1. t \in Threads
  BY DEF Threads
<1>2. Roles'
  BY <1>1, SchedulerAssumption, SMT DEF IInv, TypeOK, Roles, InClient, Goto, Threads, Activate
<1>3. Alone'
  BY <1>1, SchedulerAssumption, SMT DEF IInv, TypeOK, Roles, InClient, Goto, Threads, Alone, service, client, sync, Activate
<1>4. PICK p \in {"sync", "connect"} : Goto(t, p) /\ (p = "last" => pending = <<>>)
  BY DEF Activate
<1> QED
  BY <1>1, <1>2, <1>3, <1>4, MoveInv, SchedulerAssumption DEF Activate, Places

(* An interrupted thread ends.                                              *)
LEMMA InterruptedInv ==
    ASSUME IInv, NEW t \in Activators \cup Clients, Interrupted(t)
    PROVE  IInv'
<1>0. t \in Threads /\ pc[t] \in {"idle", "synced"} /\ t \in Activators \cup Stakers
  BY DEF Threads, Interrupted, Resting
<1>1. TypeOK'
  BY <1>0 DEF IInv, TypeOK, Places, Goto, Threads, service, client, sync, Interrupted
<1>2. Roles'
  BY <1>0, SchedulerAssumption, SMT DEF IInv, TypeOK, Roles, InClient, Goto, Threads, Interrupted
<1>3. Served'
  BY <1>0, ServedKept DEF IInv, TypeOK, Roles, InClient, Threads, Goto, service, client, sync, Interrupted
<1>4. OneRunner' /\ Numbered'
  BY <1>0, CallbacksKept DEF IInv, TypeOK, Goto, service, client, sync, Interrupted
<1>5. Promises'
  BY <1>0, SchedulerAssumption, SMT DEF IInv, TypeOK, Promises, Goto, Threads, service, client, sync, Interrupted
<1>6. Alone'
  BY <1>0, SchedulerAssumption DEF IInv, TypeOK, Alone, Roles, InClient, Goto, Threads, service, client, sync, Interrupted
<1>7. NoneLeftBehind'
  BY <1>0, SchedulerAssumption DEF IInv, TypeOK, Roles, InClient, NoneLeftBehind, OnItsWay, Goto, Threads, service, client, sync, Interrupted
<1> QED
  BY <1>1, <1>2, <1>3, <1>4, <1>5, <1>6, <1>7 DEF IInv

(* An RPC or the staking thread asks to be in sync.                         *)
LEMMA RequestInv ==
    ASSUME IInv, NEW t \in Clients, Request(t)
    PROVE  IInv'
<1>1. t \in Threads /\ pc[t] \in {"idle", "synced"} /\ (t \in Stakers \/ pc[Main] = "up")
  BY DEF Threads, Request, Resting
<1>2. Roles'
  BY <1>1, SchedulerAssumption, SMT DEF IInv, TypeOK, Roles, InClient, Goto, Threads, Request
<1>3. Alone'
  BY <1>1, SchedulerAssumption DEF IInv, TypeOK, Roles, InClient, Goto, Threads, Alone, service, client, sync, Request
<1> QED
  BY <1>1, <1>2, <1>3, MoveInv, SchedulerAssumption DEF Request, Places

(* The promise is kept.                                                     *)
LEMMA PromiseKeptInv ==
    ASSUME IInv, NEW t \in Activators \cup Clients, PromiseKept(t)
    PROVE  IInv'
<1>1. t \in Threads
  BY SMT DEF Threads
<1>2. Roles'
  BY <1>1, SchedulerAssumption DEF IInv, TypeOK, Roles, InClient, Goto, Threads, PromiseKept
<1>3. Alone'
  BY <1>1, SchedulerAssumption DEF IInv, TypeOK, Roles, InClient, Goto, Threads, Alone, service, client, sync, PromiseKept
<1> QED
  BY <1>1, <1>2, <1>3, MoveInv, SchedulerAssumption DEF PromiseKept, Places

(* SyncWithValidationInterfaceQueue looks at the queue.                     *)
LEMMA SyncInv ==
    ASSUME IInv, NEW t \in Activators \cup Clients, Sync(t)
    PROVE  IInv'
<1>0. t \in Threads
  BY SMT DEF Threads
<1>1. TypeOK'
  BY <1>0 DEF IInv, TypeOK, Places, Goto, Threads, service, client, sync, Sync
<1>2. Roles'
  BY <1>0, SchedulerAssumption, SMT DEF IInv, TypeOK, Roles, InClient, Goto, Threads, Sync
<1>3. Served'
  BY <1>0, ServedKept DEF IInv, TypeOK, Roles, InClient, Threads, Goto, service, client, sync, Sync
<1>4. OneRunner' /\ Numbered'
  BY <1>0, CallbacksKept DEF IInv, TypeOK, Goto, service, client, sync, Sync
<1>5. Promises'
  BY <1>0, SchedulerAssumption, SMT DEF IInv, TypeOK, Promises, Goto, Threads, service, client, sync, Sync
<1>6. Alone'
  BY <1>0, SchedulerAssumption DEF IInv, TypeOK, Alone, Roles, InClient, Goto, Threads, service, client, sync, Sync
<1>7. NoneLeftBehind'
  BY <1>0, SchedulerAssumption DEF IInv, TypeOK, Roles, InClient, NoneLeftBehind, OnItsWay, Goto, Threads, service, client, sync, Sync
<1> QED
  BY <1>1, <1>2, <1>3, <1>4, <1>5, <1>6, <1>7 DEF IInv

(* Shutdown is requested.                                                   *)
LEMMA RequestShutdownInv ==
    ASSUME IInv, RequestShutdown
    PROVE  IInv'
<1>1. Main \in Threads
  BY DEF Threads
<1>2. Roles'
  BY <1>1, SchedulerAssumption, SMT DEF IInv, TypeOK, Roles, InClient, Goto, Threads, RequestShutdown
<1>3. Alone'
  BY <1>1, SchedulerAssumption DEF IInv, TypeOK, Roles, InClient, Goto, Threads, Alone, service, client, sync, RequestShutdown
<1> QED
  BY <1>1, <1>2, <1>3, MoveInv, SchedulerAssumption DEF RequestShutdown, Places

(* join_all returns.                                                        *)
LEMMA JoinInv ==
    ASSUME IInv, Join
    PROVE  IInv'
<1>1. Main \in Threads
  BY SMT DEF Threads
<1>2. Roles'
  BY <1>1, SchedulerAssumption DEF IInv, TypeOK, Roles, InClient, Goto, Threads, Join
<1>3. Alone'
  BY <1>1, SchedulerAssumption DEF IInv, TypeOK, Roles, InClient, Goto, Threads, Alone, service, client, sync, Join
<1> QED
  BY <1>1, <1>2, <1>3, MoveInv, SchedulerAssumption DEF Join, Places

(* EmptyQueue calls ProcessQueue.                                           *)
LEMMA EmptyQueueInv ==
    ASSUME IInv, EmptyQueue
    PROVE  IInv'
<1>0. Main \in Threads
  BY SMT DEF Threads
<1>1. TypeOK'
  BY <1>0 DEF IInv, TypeOK, Places, Goto, Threads, service, client, sync, EmptyQueue
<1>2. Roles'
  BY <1>0, SchedulerAssumption, SMT DEF IInv, TypeOK, Roles, InClient, Goto, Threads, EmptyQueue
<1>3. Served'
  BY <1>0, ServedKept DEF IInv, TypeOK, Roles, InClient, Threads, Goto, service, client, sync, EmptyQueue
<1>4. OneRunner' /\ Numbered'
  BY <1>0, CallbacksKept DEF IInv, TypeOK, Goto, service, client, sync, EmptyQueue
<1>5. Promises'
  BY <1>0, SchedulerAssumption DEF IInv, TypeOK, Promises, Goto, Threads, service, client, sync, EmptyQueue
<1>6. Alone'
  BY <1>0, SchedulerAssumption DEF IInv, TypeOK, Alone, Roles, InClient, Goto, Threads, service, client, sync, EmptyQueue
<1>7. NoneLeftBehind'
  BY <1>0, SchedulerAssumption DEF IInv, TypeOK, Roles, InClient, NoneLeftBehind, OnItsWay, Goto, Threads, service, client, sync, EmptyQueue
<1> QED
  BY <1>1, <1>2, <1>3, <1>4, <1>5, <1>6, <1>7 DEF IInv

(* EmptyQueue looks at the queue.                                           *)
LEMMA EmptyQueueAgainInv ==
    ASSUME IInv, EmptyQueueAgain
    PROVE  IInv'
<1>1. Main \in Threads
  BY SMT DEF Threads
<1>2. Roles'
  BY <1>1, SchedulerAssumption DEF IInv, TypeOK, Roles, InClient, Goto, Threads, EmptyQueueAgain
<1>3. Alone'
  BY <1>1, SchedulerAssumption DEF IInv, TypeOK, Roles, InClient, Goto, Threads, Alone, service, client, sync, EmptyQueueAgain
<1>4. PICK p \in {"last", "empty"} : Goto(Main, p) /\ (p = "last" => pending = <<>>)
  BY DEF EmptyQueueAgain
<1> QED
  BY <1>1, <1>2, <1>3, <1>4, MoveInv, SchedulerAssumption DEF EmptyQueueAgain, Places

(* Where a thread goes on after MaybeScheduleProcessQueue.                  *)
LEMMA ReturnPlace ==
    ASSUME IInv, NEW t \in Threads, pc[t] \in InClient
    PROVE  /\ ret[t] \in {"loop", "idle", "waiting", "empty", "check", "down"}
           /\ t \in Services => ret[t] = "loop"
           /\ t = Main => ret[t] \in {"empty", "check", "down"}
           /\ t \in Activators \cup Clients => ret[t] \in {"idle", "waiting"}
BY SchedulerAssumption DEF IInv, Roles, InClient, Threads

(* MaybeScheduleProcessQueue decides.                                       *)
LEMMA MaybeScheduleInv ==
    ASSUME IInv, NEW t \in Threads, MaybeSchedule(t)
    PROVE  IInv'
<1>0. t \in Threads /\ pc[t] \in InClient
  BY DEF InClient, MaybeSchedule
<1>a. /\ ret[t] \in {"loop", "idle", "waiting", "empty", "check", "down"}
      /\ t \in Services => ret[t] = "loop"
      /\ t = Main => ret[t] \in {"empty", "check", "down"}
      /\ t \in Activators \cup Clients => ret[t] \in {"idle", "waiting"}
  BY <1>0, ReturnPlace
<1>b. \A u \in Threads : /\ pc'[u] = "callback" <=> pc[u] = "callback"
                         /\ pc'[u] = "unflag" <=> pc[u] = "unflag"
  <2>1. pc'[t] \notin {"callback", "unflag"} /\ pc[t] = "maybe"
    BY <1>0, <1>a DEF IInv, TypeOK, MaybeSchedule, Goto
  <2>2. \A u \in Threads \ {t} : pc'[u] = pc[u]
    BY <1>0 DEF IInv, TypeOK, MaybeSchedule, Goto
  <2> QED
    BY <1>0, <2>1, <2>2
<1>c. UNCHANGED <<client, callback>>
  BY DEF MaybeSchedule
<1>1. TypeOK'
  BY <1>0 DEF IInv, TypeOK, Places, Goto, Threads, service, client, sync, MaybeSchedule, CanProcess
<1>2. Roles'
  BY <1>0, SchedulerAssumption, SMT DEF IInv, TypeOK, Roles, InClient, Goto, Threads, MaybeSchedule, CanProcess
<1>3. Served'
  BY <1>0, <1>a, ServedKept DEF IInv, TypeOK, Roles, InClient, Threads, Goto, service, client, sync, MaybeSchedule
<1>4. OneRunner' /\ Numbered'
  BY <1>b, <1>c, CallbacksKept
<1>5. Promises'
  BY <1>0, <1>a, SchedulerAssumption DEF IInv, TypeOK, Promises, Goto, Threads, client, sync, MaybeSchedule
<1>6. Alone'
  <2>1. /\ pending' = pending /\ pc[t] = "maybe"
        /\ \A u \in Threads \ {t} : pc'[u] = pc[u]
        /\ pc'[t] = "sched" \/ pc'[t] = ret[t]
    BY <1>0 DEF MaybeSchedule, Goto, IInv, TypeOK, client
  <2>2. t = Main => pc'[t] \in {"sched", "empty", "check", "down"}
    BY <1>a, <2>1
  <2>3. /\ \A u \in Services \cup Activators \cup Clients \cup Stakers : u \in Threads \ {Main}
        /\ Main \in Threads
    BY SchedulerAssumption DEF Threads
  <2>4. CASE t = Main
    BY <2>1, <2>2, <2>3, <2>4 DEF IInv, Alone
  <2>5. CASE t # Main
    <3>1. pc'[Main] = pc[Main]
      BY <2>1, <2>3, <2>5
    <3>2. pc[Main] \in {"up", "stopping", "joining"} \/ t \notin Services \cup Activators \cup Stakers
      BY <2>1 DEF IInv, Alone
    <3>3. pc[Main] \in {"up", "stopping"} \/ t \notin Clients \ Stakers
      BY <2>1 DEF IInv, Alone
    <3> QED  BY <2>1, <2>3, <3>1, <3>2, <3>3 DEF IInv, Alone
  <2> QED  BY <2>4, <2>5
<1>7. NoneLeftBehind'
  BY <1>0, SchedulerAssumption DEF IInv, TypeOK, Roles, InClient, NoneLeftBehind, OnItsWay, Goto, Threads, service, client, sync, MaybeSchedule, CanProcess
<1> QED
  BY <1>1, <1>2, <1>3, <1>4, <1>5, <1>6, <1>7 DEF IInv

(* ProcessQueue is scheduled.                                               *)
LEMMA ScheduleInv ==
    ASSUME IInv, NEW t \in Threads, Schedule(t)
    PROVE  IInv'
<1>0. t \in Threads /\ pc[t] \in InClient
  BY DEF InClient, Schedule
<1>a. /\ ret[t] \in {"loop", "idle", "waiting", "empty", "check", "down"}
      /\ t \in Services => ret[t] = "loop"
      /\ t = Main => ret[t] \in {"empty", "check", "down"}
      /\ t \in Activators \cup Clients => ret[t] \in {"idle", "waiting"}
  BY <1>0, ReturnPlace, SMT
<1>b. /\ taskQueue' \in Seq(Tasks)
      /\ \E i \in DOMAIN taskQueue' : taskQueue'[i] = "process"
  BY Emplaced DEF IInv, Schedule, Tasks
<1>1. TypeOK'
  BY <1>0, <1>b DEF IInv, TypeOK, Places, Goto, client, sync, Schedule
<1>2. Roles'
  BY <1>0, SchedulerAssumption, SMT DEF IInv, TypeOK, Roles, InClient, Goto, Threads, Schedule
<1>3. Served'
  BY <1>0, ServedKept DEF IInv, TypeOK, Roles, InClient, Threads, Goto, service, client, sync, Schedule
<1>4. OneRunner' /\ Numbered'
  BY <1>0, CallbacksKept DEF IInv, TypeOK, Goto, service, client, sync, Schedule
<1>5. Promises'
  BY <1>0, SchedulerAssumption DEF IInv, TypeOK, Promises, Goto, Threads, service, client, sync, Schedule
<1>6. Alone'
  BY <1>0, SchedulerAssumption DEF IInv, TypeOK, Alone, Roles, InClient, Goto, Threads, service, client, sync, Schedule
<1>7. NoneLeftBehind'
  BY <1>b DEF NoneLeftBehind, OnItsWay
<1> QED
  BY <1>1, <1>2, <1>3, <1>4, <1>5, <1>6, <1>7, SMT DEF IInv

(* The periodic task runs and is scheduled again.                           *)
LEMMA RepeatInv ==
    ASSUME IInv, NEW t \in Services, Repeat(t)
    PROVE  IInv'
<1>0. t \in Threads
  BY SMT DEF Threads
<1>b. /\ taskQueue' \in Seq(Tasks)
      /\ \A i \in DOMAIN taskQueue : \E j \in DOMAIN taskQueue' : taskQueue'[j] = taskQueue[i]
  BY Emplaced DEF IInv, Repeat, Tasks
<1>1. TypeOK'
  BY <1>0, <1>b DEF IInv, TypeOK, Places, Goto, client, sync, Repeat
<1>2. Roles'
  BY <1>0, SchedulerAssumption, SMT DEF IInv, TypeOK, Roles, InClient, Goto, Threads, Repeat
<1>3. Served'
  BY <1>0, ServedKept DEF IInv, TypeOK, Roles, InClient, Threads, Goto, service, client, sync, Repeat
<1>4. OneRunner' /\ Numbered'
  BY <1>0, CallbacksKept DEF IInv, TypeOK, Goto, service, client, sync, Repeat
<1>5. Promises'
  BY <1>0, SchedulerAssumption DEF IInv, TypeOK, Promises, Goto, Threads, service, client, sync, Repeat
<1>6. Alone'
  BY <1>0, SchedulerAssumption DEF IInv, TypeOK, Alone, Roles, InClient, Goto, Threads, service, client, sync, Repeat
<1>7. NoneLeftBehind'
  BY <1>0, <1>b, SMT DEF IInv, TypeOK, NoneLeftBehind, OnItsWay, Goto, client, Repeat
<1> QED
  BY <1>1, <1>2, <1>3, <1>4, <1>5, <1>6, <1>7 DEF IInv

(* A sleeping service thread is notified.                                   *)
LEMMA NotifyInv ==
    ASSUME IInv, NEW t \in Threads, Notify(t)
    PROVE  IInv'
<1>0. t \in Threads /\ pc[t] \in InClient
  BY DEF InClient, Notify
<1>a. /\ ret[t] \in {"loop", "idle", "waiting", "empty", "check", "down"}
      /\ t \in Services => ret[t] = "loop"
      /\ t = Main => ret[t] \in {"empty", "check", "down"}
      /\ t \in Activators \cup Clients => ret[t] \in {"idle", "waiting"}
  BY <1>0, ReturnPlace, SMT
<1>b. /\ pc' \in [Threads -> Places]
      /\ pc'[t] = ret[t]
      /\ \A u \in Threads \ {t} : pc'[u] = pc[u] \/ (u \in Sleepers /\ pc'[u] = "loop")
  <2>1. t \notin Sleepers /\ ret[t] \in Places
    BY <1>0 DEF Notify, Sleepers, IInv, TypeOK
  <2> QED
    BY <2>1, Notified DEF Notify
<1>c. pc[t] = "notify"
  BY DEF Notify
<1>d. Services \subseteq Threads /\ Activators \cup Clients \subseteq Threads /\ Main \in Threads
  BY DEF Threads
<1>1. TypeOK'
  BY <1>b DEF IInv, TypeOK, service, client, sync, Notify
<1>2. Roles'
  <2>0. Roles /\ ret' = ret
    BY DEF IInv, Notify
  <2>1. ASSUME NEW u \in Services
        PROVE  /\ pc'[u] \in InClient \cup {"start", "loop", "wait", "later", "due", "timedout",
                                            "periodic", "exited"}
               /\ ret'[u] = "loop"
    BY <1>a, <1>b, <1>d, <2>0 DEF Roles, InClient
  <2>2. ASSUME NEW u \in Activators \cup Clients
        PROVE  /\ pc'[u] \in {"maybe", "sched", "notify", "idle", "connect", "sync", "enqueue",
                               "waiting", "synced", "gone"}
               /\ pc'[u] \in {"maybe", "sched", "notify"} => ret'[u] \in {"idle", "waiting"}
    <3>1. u \notin Sleepers
      BY SchedulerAssumption DEF Sleepers
    <3> QED
      BY <3>1, <1>a, <1>b, <1>d, <2>0 DEF Roles
  <2>3. /\ pc'[Main] \in InClient \cup {"up", "stopping", "joining", "flush", "empty", "check",
                                        "last", "down"}
        /\ pc'[Main] \in InClient => ret'[Main] \in {"empty", "check", "down"}
    <3>1. Main \notin Sleepers
      BY SchedulerAssumption DEF Sleepers
    <3> QED
      BY <3>1, <1>a, <1>b, <1>d, <2>0 DEF Roles, InClient
  <2> QED
    BY <2>1, <2>2, <2>3 DEF Roles
<1>3. Served'
  BY <1>a, <1>b, <1>c, <1>d, ServedKept DEF Sleepers, Notify, service
<1>4. OneRunner' /\ Numbered'
  BY <1>a, <1>b, <1>c, CallbacksKept DEF Sleepers, Notify
<1>5. Promises'
  BY <1>0, <1>a, <1>b, <1>c, <1>d, SchedulerAssumption DEF IInv, Promises, Sleepers, client, sync, Notify
<1>6. Alone'
  BY <1>0, <1>a, <1>b, <1>c, <1>d, SchedulerAssumption DEF IInv, Alone, Sleepers, client, Notify
<1>7. NoneLeftBehind'
  BY <1>0, <1>a, <1>b, <1>c, <1>d, SchedulerAssumption DEF IInv, NoneLeftBehind, OnItsWay, Sleepers, client, service, Notify
<1> QED
  BY <1>1, <1>2, <1>3, <1>4, <1>5, <1>6, <1>7, SMT DEF IInv

(* A service thread takes the first task.                                   *)
LEMMA TakeTaskInv ==
    ASSUME IInv, NEW t \in Services, TakeTask(t)
    PROVE  IInv'
<1> DEFINE p == pc'[t]
<1>0. t \in Threads /\ pc[t] = "timedout"
  BY DEF Threads, TakeTask
<1>a. /\ pc' = [pc EXCEPT ![t] = p]
      /\ p \in {"loop", "process", "periodic"}
      /\ ret' = ret
      /\ nThreadsServicingQueue' = nThreadsServicingQueue
      /\ UNCHANGED <<client, callback, sync>>
  BY <1>0 DEF IInv, TypeOK, TakeTask, Goto
<1>b. /\ taskQueue' \in Seq(Tasks)
      /\ \A i \in DOMAIN taskQueue : taskQueue[i] = "process" =>
            p = "process" \/ \E j \in DOMAIN taskQueue' : taskQueue'[j] = "process"
  <2>1. CASE stopRequested \/ taskQueue = <<>>
    BY <2>1 DEF IInv, TypeOK, TakeTask
  <2>2. CASE ~(stopRequested \/ taskQueue = <<>>)
    <3>1. /\ taskQueue' = Tail(taskQueue) /\ taskQueue # <<>> /\ taskQueue \in Seq(Tasks)
          /\ Head(taskQueue) = "process" => p = "process"
      BY <2>2, <1>0 DEF IInv, TypeOK, TakeTask, Goto
    <3>2. Tail(taskQueue) \in Seq(Tasks) /\ DOMAIN Tail(taskQueue) = 1..(Len(taskQueue) - 1)
      BY <3>1, SMT
    <3>3. ASSUME NEW i \in DOMAIN taskQueue, taskQueue[i] = "process", p # "process"
          PROVE  \E j \in DOMAIN taskQueue' : taskQueue'[j] = "process"
      <4>1. i # 1
        BY <3>1, <3>3, SMT
      <4>2. i - 1 \in 1..(Len(taskQueue) - 1) /\ Tail(taskQueue)[i - 1] = taskQueue[i]
        BY <3>1, <4>1, SMT
      <4> QED
        BY <3>1, <3>2, <3>3, <4>2
    <3> QED
      BY <3>1, <3>2, <3>3
  <2> QED
    BY <2>1, <2>2
<1> HIDE DEF p
<1>1. TypeOK'
  BY <1>0, <1>a, <1>b, SMT DEF IInv, TypeOK, Places, client, sync, TakeTask
<1>2. Roles'
  BY <1>0, <1>a, SchedulerAssumption, SMT DEF IInv, TypeOK, Roles, InClient, Threads
<1>3. Served'
  BY <1>0, <1>a, ServedKept DEF IInv, TypeOK, Threads
<1>4. OneRunner' /\ Numbered'
  BY <1>0, <1>a, CallbacksKept DEF IInv, TypeOK
<1>5. Promises'
  BY <1>0, <1>a, SchedulerAssumption DEF IInv, TypeOK, Promises, Threads, client, sync
<1>6. Alone'
  BY <1>0, <1>a, SchedulerAssumption DEF IInv, TypeOK, Alone, Threads, client
<1>7. NoneLeftBehind'
  BY <1>0, <1>a, <1>b, SchedulerAssumption DEF IInv, TypeOK, NoneLeftBehind, OnItsWay, Threads, client
<1> QED
  BY <1>1, <1>2, <1>3, <1>4, <1>5, <1>6, <1>7, SMT DEF IInv

(* The head of the loop of serviceQueue.                                    *)
LEMMA ServiceQueueInv ==
    ASSUME IInv, NEW t \in Services, ServiceQueue(t)
    PROVE  IInv'
<1>0. t \in Threads /\ pc[t] \in {"start", "loop"} /\ t \notin Sleepers
  BY DEF Threads, ServiceQueue, Sleepers
<1>a. /\ pc' \in [Threads -> Places]
      /\ pc'[t] \in {"exited", "wait", "later", "due"}
      /\ \A u \in Threads \ {t} : pc'[u] = pc[u] \/ (u \in Sleepers /\ pc'[u] = "loop")
  <2>1. CASE stopRequested
    <3>1. NotifyOne(t, "exited") /\ "exited" \in Places
      BY <2>1 DEF ServiceQueue, Places
    <3> QED
      BY <3>1, <1>0, Notified
  <2>2. CASE ~stopRequested
    BY <2>2, <1>0 DEF ServiceQueue, Goto, IInv, TypeOK, Places
  <2> QED
    BY <2>1, <2>2
<1>b. Services \subseteq Threads /\ Activators \cup Clients \subseteq Threads /\ Main \in Threads
  BY DEF Threads
<1>c. UNCHANGED <<taskQueue, stopRequested, client, ret, callback, sync, interrupted>>
  BY DEF ServiceQueue
<1>3. Served'
  <2>1. CASE stopRequested /\ pc[t] = "start"
    <3>1. nThreadsServicingQueue' = nThreadsServicingQueue /\ NotifyOne(t, "exited") /\ "exited" \in Places
      BY <2>1 DEF ServiceQueue, Places
    <3>2. pc'[t] = "exited"
      BY <3>1, <1>0, Notified
    <3> QED
      BY <3>1, <3>2, <2>1, <1>a, <1>b, ServedKept DEF Sleepers
  <2>2. CASE stopRequested /\ pc[t] = "loop"
    <3>1. nThreadsServicingQueue' = nThreadsServicingQueue - 1 /\ NotifyOne(t, "exited") /\ "exited" \in Places
      BY <2>2 DEF ServiceQueue, Places
    <3>2. pc'[t] = "exited"
      BY <3>1, <1>0, Notified
    <3> QED
      BY <3>1, <3>2, <2>2, <1>a, <1>b, ServedOneLess DEF Sleepers
  <2>3. CASE ~stopRequested /\ pc[t] = "start"
    <3>1. /\ nThreadsServicingQueue' = nThreadsServicingQueue + 1
          /\ pc'[t] \notin {"start", "exited"} /\ \A u \in Threads \ {t} : pc'[u] = pc[u]
      BY <2>3, <1>0 DEF ServiceQueue, Goto, IInv, TypeOK
    <3> QED
      BY <3>1, <2>3, <1>b, ServedOneMore
  <2>4. CASE ~stopRequested /\ pc[t] = "loop"
    <3>1. /\ nThreadsServicingQueue' = nThreadsServicingQueue
          /\ pc'[t] \notin {"start", "exited"} /\ \A u \in Threads \ {t} : pc'[u] = pc[u]
      BY <2>4, <1>0 DEF ServiceQueue, Goto, IInv, TypeOK
    <3> QED
      BY <3>1, <2>4, <1>b, ServedKept
  <2> QED
    BY <2>1, <2>2, <2>3, <2>4, <1>0
<1>1. TypeOK'
  <2>1. nThreadsServicingQueue' \in Nat
    BY <1>3 DEF Served
  <2> QED
    BY <2>1, <1>a, <1>c DEF IInv, TypeOK, client, sync
<1>2. Roles'
  <2>0. Roles /\ ret' = ret
    BY <1>c DEF IInv
  <2>1. ASSUME NEW u \in Services
        PROVE  /\ pc'[u] \in InClient \cup {"start", "loop", "wait", "later", "due", "timedout",
                                            "periodic", "exited"}
               /\ ret'[u] = "loop"
    BY <1>a, <1>b, <1>0, <2>0, SMT DEF Roles, InClient
  <2>2. ASSUME NEW u \in Activators \cup Clients
        PROVE  /\ pc'[u] \in {"maybe", "sched", "notify", "idle", "connect", "sync", "enqueue",
                               "waiting", "synced", "gone"}
               /\ pc'[u] \in {"maybe", "sched", "notify"} => ret'[u] \in {"idle", "waiting"}
    <3>1. u \notin Sleepers /\ u # t
      BY SchedulerAssumption DEF Sleepers
    <3> QED
      BY <3>1, <1>a, <1>b, <1>0, <2>0 DEF Roles
  <2>3. /\ pc'[Main] \in InClient \cup {"up", "stopping", "joining", "flush", "empty", "check",
                                        "last", "down"}
        /\ pc'[Main] \in InClient => ret'[Main] \in {"empty", "check", "down"}
    <3>1. Main \notin Sleepers /\ t # Main
      BY SchedulerAssumption DEF Sleepers
    <3> QED
      BY <3>1, <1>a, <1>b, <1>0, <2>0 DEF Roles, InClient
  <2> QED
    BY <2>1, <2>2, <2>3 DEF Roles
<1>4. OneRunner' /\ Numbered'
  BY <1>0, <1>a, <1>c, CallbacksKept DEF Sleepers
<1>5. Promises'
  BY <1>0, <1>a, <1>b, <1>c, SchedulerAssumption DEF IInv, Promises, Sleepers, client, sync
<1>6. Alone'
  BY <1>0, <1>a, <1>b, <1>c, SchedulerAssumption DEF IInv, Alone, Sleepers, client
<1>7. NoneLeftBehind'
  BY <1>0, <1>a, <1>b, <1>c, SchedulerAssumption DEF IInv, NoneLeftBehind, OnItsWay, Sleepers, client
<1> QED
  BY <1>1, <1>2, <1>3, <1>4, <1>5, <1>6, <1>7 DEF IInv

(* Time passes.                                                             *)
LEMMA TickInv ==
    ASSUME IInv, Tick
    PROVE  IInv'
<1>a. /\ pc' = [u \in Threads |-> IF pc[u] = "later" THEN "due" ELSE pc[u]]
      /\ UNCHANGED <<stopRequested, nThreadsServicingQueue, client, ret, callback, sync, interrupted>>
  BY DEF Tick
<1>b. /\ taskQueue' \in Seq(Tasks)
      /\ \A i \in DOMAIN taskQueue : taskQueue[i] = "process" =>
            i \in DOMAIN taskQueue' /\ taskQueue'[i] = "process"
  <2> DEFINE q == [i \in 1..Len(taskQueue) |-> IF taskQueue[i] = "later" THEN "due" ELSE taskQueue[i]]
  <2>1. taskQueue \in Seq(Tasks) /\ DOMAIN taskQueue = 1..Len(taskQueue) /\ Len(taskQueue) \in Nat
    BY SMT DEF IInv, TypeOK
  <2>2. taskQueue' = q
    BY <2>1 DEF Tick
  <2>3. \A i \in 1..Len(taskQueue) : taskQueue[i] \in Tasks
    BY <2>1, SMT
  <2>4. \A i \in 1..Len(taskQueue) : q[i] \in Tasks
    BY <2>3 DEF Tasks
  <2>5. q \in Seq(Tasks) /\ DOMAIN q = 1..Len(taskQueue)
    BY <2>1, <2>4, SMT
  <2> QED
    BY <2>1, <2>2, <2>5
<1>c. Services \subseteq Threads /\ Activators \cup Clients \subseteq Threads /\ Main \in Threads
  BY DEF Threads
<1>1. TypeOK'
  BY <1>a, <1>b, SMT DEF IInv, TypeOK, Places, client, sync
<1>2. Roles'
  BY <1>a, <1>c, SMT DEF IInv, Roles, InClient
<1>3. Served'
  BY <1>a, <1>c, ServedKept
<1>4. OneRunner' /\ Numbered'
  BY <1>a, CallbacksKept
<1>5. Promises'
  BY <1>a, <1>c DEF IInv, Promises, client, sync
<1>6. Alone'
  BY <1>a, <1>c, SchedulerAssumption, SMT DEF IInv, Alone, client
<1>7. NoneLeftBehind'
  BY <1>a, <1>b, <1>c DEF IInv, NoneLeftBehind, OnItsWay, client
<1> QED
  BY <1>1, <1>2, <1>3, <1>4, <1>5, <1>6, <1>7, SMT DEF IInv

(* scheduler.stop() and interrupt_all().                                    *)
LEMMA StopSchedulerInv ==
    ASSUME IInv, StopScheduler
    PROVE  IInv'
<1>a. /\ pc' = [u \in Threads |-> IF u = Main THEN "joining"
                                ELSE IF u \in Sleepers THEN "loop" ELSE pc[u]]
      /\ pc[Main] = "stopping"
      /\ \A u \in Clients \ Stakers : pc[u] \in {"idle", "synced"}
      /\ UNCHANGED <<taskQueue, nThreadsServicingQueue, client, ret, callback, sync>>
  BY DEF StopScheduler, Resting
<1>b. Services \subseteq Threads /\ Activators \cup Clients \subseteq Threads /\ Main \in Threads
  BY SMT DEF Threads
<1>c. /\ pc'[Main] = "joining"
      /\ \A u \in Threads \ {Main} : pc'[u] = pc[u] \/ (u \in Sleepers /\ pc'[u] = "loop")
  BY <1>a, <1>b
<1>1. TypeOK'
  <2>1. pc' \in [Threads -> Places]
    BY <1>a DEF IInv, TypeOK, Places
  <2>2. stopRequested' \in BOOLEAN /\ interrupted' \in BOOLEAN
    BY DEF StopScheduler
  <2> QED
    BY <1>a, <2>1, <2>2 DEF IInv, TypeOK, client, sync
<1>2. Roles'
  BY <1>a, <1>b, <1>c, SchedulerAssumption, SMT DEF IInv, Roles, InClient, Sleepers
<1>3. Served'
  BY <1>a, <1>b, <1>c, ServedKept, SchedulerAssumption DEF Sleepers
<1>4. OneRunner' /\ Numbered'
  BY <1>a, <1>c, CallbacksKept DEF Sleepers
<1>5. Promises'
  BY <1>a, <1>b, <1>c, SchedulerAssumption DEF IInv, Promises, Sleepers, client, sync
<1>6. Alone'
  BY <1>a, <1>b, <1>c, SchedulerAssumption DEF IInv, Alone, Sleepers, client
<1>7. NoneLeftBehind'
  BY <1>a, <1>b, <1>c, SchedulerAssumption DEF IInv, NoneLeftBehind, OnItsWay, Sleepers, client
<1> QED
  BY <1>1, <1>2, <1>3, <1>4, <1>5, <1>6, <1>7, SMT DEF IInv

(* ProcessQueue takes a callback, or finds nothing to do.                   *)
LEMMA ProcessQueueInv ==
    ASSUME IInv, NEW t \in Threads, ProcessQueue(t)
    PROVE  IInv'
<1>0. pc[t] = "process" /\ pc[t] \in InClient
  BY DEF InClient, ProcessQueue
<1>a. /\ ret[t] \in {"loop", "idle", "waiting", "empty", "check", "down"}
      /\ t \in Services => ret[t] = "loop"
      /\ t = Main => ret[t] \in {"empty", "check", "down"}
      /\ t \notin Activators \cup Clients
  BY <1>0, ReturnPlace, SchedulerAssumption DEF IInv, Roles
<1>b. /\ UNCHANGED <<service, added, executed, ret, sync, interrupted>>
      /\ \A u \in Threads \ {t} : pc'[u] = pc[u]
      /\ pc' \in [Threads -> Places]
      /\ pc'[t] \in {"callback", "loop", "empty", "check", "down"}
      /\ pc'[t] = "callback" \/ pc'[t] = ret[t]
  <2>1. ret[t] \in {"loop", "empty", "check", "down"} /\ ret[t] \in Places /\ "callback" \in Places
    BY <1>a DEF Threads, Places
  <2>2. pc' = [pc EXCEPT ![t] = "callback"] \/ pc' = [pc EXCEPT ![t] = ret[t]]
    BY DEF ProcessQueue, Goto
  <2>3. UNCHANGED <<service, added, executed, ret, sync, interrupted>>
    BY DEF ProcessQueue
  <2> QED
    BY <2>1, <2>2, <2>3 DEF IInv, TypeOK
<1>c. Services \subseteq Threads /\ Activators \cup Clients \subseteq Threads /\ Main \in Threads
  BY SMT DEF Threads
<1>d. CASE ~CanProcess
  <2>0. pc'[t] = ret[t] /\ fRunning' = fRunning /\ callback' = callback /\ pending' = pending
    BY <1>d DEF ProcessQueue, Goto, IInv, TypeOK
  <2>1. TypeOK'
    BY <1>b, <2>0 DEF IInv, TypeOK, service, sync
  <2>2. Roles'
    BY <1>0, <1>a, <1>b, <1>c, <2>0, SchedulerAssumption, SMT DEF IInv, Roles, InClient
  <2>3. Served'
    BY <1>0, <1>b, <1>c, ServedKept DEF service
  <2>4. OneRunner' /\ Numbered'
    BY <1>0, <1>a, <1>b, <2>0, CallbacksKept DEF client
  <2>5. Promises'
    BY <1>a, <1>b, <1>c DEF IInv, Promises, sync
  <2>6. Alone'
    BY <1>0, <1>a, <1>b, <1>c, <2>0, SchedulerAssumption DEF IInv, Alone
  <2>7. NoneLeftBehind'
    BY <1>d, <2>0 DEF CanProcess, NoneLeftBehind, OnItsWay
  <2> QED
    BY <2>1, <2>2, <2>3, <2>4, <2>5, <2>6, <2>7, SMT DEF IInv
<1>e. CASE CanProcess
  <2>0. /\ pc'[t] = "callback" /\ fRunning' /\ fRunning' \in BOOLEAN
        /\ callback' = [callback EXCEPT ![t] = Head(pending)] /\ pending' = Tail(pending)
    BY <1>e DEF ProcessQueue, Goto, IInv, TypeOK
  <2>a. pending \in Seq(Nat) /\ pending # <<>> /\ added \in Nat
    BY <1>e DEF CanProcess, IInv, TypeOK
  <2>b. /\ Head(pending) \in Nat /\ Head(pending) = pending[1] /\ 1 \in 1..Len(pending)
        /\ Tail(pending) \in Seq(Nat) /\ Len(Tail(pending)) = Len(pending) - 1
        /\ \A i \in 1..(Len(pending) - 1) : Tail(pending)[i] = pending[i + 1]
    BY <2>a, SMT
  <2>c. \A u \in Threads : pc[u] \notin {"callback", "unflag"}
    BY <1>e DEF CanProcess, IInv, OneRunner
  <2>1. TypeOK'
    BY <1>b, <2>0, <2>b DEF IInv, TypeOK, service, sync
  <2>2. Roles'
    BY <1>0, <1>a, <1>b, <1>c, <2>0, SchedulerAssumption, SMT DEF IInv, Roles, InClient
  <2>3. Served'
    BY <1>0, <1>b, <1>c, ServedKept, SMT DEF service
  <2>4. OneRunner'
    BY <1>b, <2>0, <2>c DEF OneRunner
  <2>5. Numbered'
    <3>1. /\ Started \in Nat /\ \A i \in 1..Len(pending) : pending[i] = Started + i
          /\ executed = 1..Started
      BY <2>c DEF IInv, Numbered
    <3>2. Started' = Started + 1
      BY <1>b, <2>0, <2>a, <2>b, SMT DEF Started
    <3> HIDE DEF Started
    <3>3. \A i \in 1..Len(pending') : pending'[i] = Started' + i
      BY <2>0, <2>a, <2>b, <3>1, <3>2, SMT
    <3>4. callback'[t] = Started' /\ Started' > 0 /\ executed' = 1..(Started' - 1)
      <4>1. callback'[t] = Head(pending)
        BY <2>0 DEF IInv, TypeOK
      <4>2. Started' - 1 = Started
        BY <3>1, <3>2, SMT
      <4> QED
        BY <4>1, <4>2, <1>b, <2>b, <3>1, <3>2, SMT
    <3>5. \A u \in Threads : pc'[u] = "callback" => u = t
      BY <1>b, <2>c
    <3>6. Started' \in Nat
      BY <3>1, <3>2, SMT
    <3> QED
      BY <2>0, <3>3, <3>4, <3>5, <3>6 DEF Numbered
  <2>6. Promises'
    BY <1>a, <1>b, <1>c, SMT DEF IInv, Promises, sync
  <2>7. Alone'
    <3>1. \A u \in Activators \cup Clients \cup Stakers : pc'[u] = pc[u]
      <4>1. \A u \in Activators \cup Clients : pc'[u] = pc[u]
        BY <1>a, <1>b, <1>c
      <4>2. Stakers \subseteq Clients
        BY SchedulerAssumption
      <4> QED  BY <4>1, <4>2
    <3>2. pc'[Main] = pc[Main] \/ (t = Main /\ pc'[Main] = "callback")
      BY <1>b, <1>c, <2>0
    <3>3. CASE t = Main
      <4>1. \A u \in Services : pc'[u] = pc[u]
        BY <1>b, <1>c, <3>3, SchedulerAssumption
      <4>2. pc[Main] \notin {"up", "stopping", "joining"}
        BY <1>0, <3>3
      <4>3. pc'[Main] # "last"
        BY <2>0, <3>3
      <4> QED
        BY <3>1, <4>1, <4>2, <4>3 DEF IInv, Alone
    <3>4. CASE t # Main
      <4>1. t \in Services /\ pc'[Main] = pc[Main]
        BY <1>a, <1>b, <1>c, <3>4 DEF Threads
      <4>2. pc[Main] \in {"up", "stopping", "joining"}
        BY <1>0, <4>1 DEF IInv, Alone
      <4> QED
        BY <3>1, <4>1, <4>2 DEF IInv, Alone
    <3> QED
      BY <3>3, <3>4
  <2>8. NoneLeftBehind'
    BY <2>0 DEF NoneLeftBehind, OnItsWay
  <2> QED
    BY <2>1, <2>2, <2>3, <2>4, <2>5, <2>6, <2>7, <2>8 DEF IInv
<1> QED
  BY <1>d, <1>e

(* The callback runs: the callbacks that have run are again all that were   *)
(* taken.                                                                   *)
LEMMA RunCallbackInv ==
    ASSUME IInv, NEW t \in Threads, RunCallback(t)
    PROVE  IInv'
<1>0. /\ pc[t] = "callback" /\ pc'[t] = "unflag"
      /\ \A u \in Threads \ {t} : pc'[u] = pc[u]
      /\ pc' \in [Threads -> Places]
      /\ executed' = executed \cup {callback[t]}
      /\ UNCHANGED <<service, pending, fRunning, added, ret, callback, sync, interrupted>>
  BY DEF IInv, TypeOK, RunCallback, Goto, Places
<1>a. Services \subseteq Threads /\ Activators \cup Clients \subseteq Threads /\ Main \in Threads
  BY SMT DEF Threads
<1>1. TypeOK'
  BY <1>0 DEF IInv, TypeOK, service, sync
<1>2. Roles'
  BY <1>0, <1>a, SchedulerAssumption, SMT DEF IInv, Roles, InClient
<1>3. Served'
  BY <1>0, <1>a, ServedKept DEF service
<1>4. OneRunner'
  BY <1>0, Zenon DEF IInv, OneRunner
<1>5. Numbered'
  <2>1. callback[t] = Started /\ Started > 0 /\ executed = 1..(Started - 1) /\ Started \in Nat
    BY <1>0 DEF IInv, Numbered
  <2>2. Started' = Started
    BY <1>0 DEF Started
  <2>3. \A u \in Threads : pc'[u] # "callback"
    BY <1>0 DEF IInv, OneRunner
  <2>4. \A i \in 1..Len(pending) : pending[i] = Started + i
    BY DEF IInv, Numbered
  <2> HIDE DEF Started
  <2>5. executed' = 1..Started
    <3>1. executed' = executed \cup {callback[t]}
      BY <1>0
    <3>2. executed' = 1..(Started - 1) \cup {Started}
      BY <2>1, <3>1
    <3> QED
      BY <2>1, <3>2, SMT
  <2> QED
    BY <1>0, <2>1, <2>2, <2>3, <2>4, <2>5 DEF Numbered
<1>6. Promises'
  BY <1>0, <1>a, SchedulerAssumption DEF IInv, Promises, sync, Roles
<1>7. Alone'
  BY <1>0, <1>a, SchedulerAssumption DEF IInv, Alone
<1>8. NoneLeftBehind'
  BY <1>0 DEF IInv, NoneLeftBehind, OnItsWay, OneRunner
<1> QED
  BY <1>1, <1>2, <1>3, <1>4, <1>5, <1>6, <1>7, <1>8, SMT DEF IInv

(* m_are_callbacks_running is reset, by the thread that set it.             *)
LEMMA UnflagInv ==
    ASSUME IInv, NEW t \in Threads, Unflag(t)
    PROVE  IInv'
<1>0. /\ pc[t] = "unflag" /\ pc'[t] = "maybe" /\ fRunning' = FALSE
      /\ \A u \in Threads \ {t} : pc'[u] = pc[u]
      /\ pc' \in [Threads -> Places]
      /\ callback' = [callback EXCEPT ![t] = 0]
      /\ UNCHANGED <<service, pending, added, executed, ret, sync, interrupted>>
  BY DEF IInv, TypeOK, Unflag, Goto, Places
<1>a. Services \subseteq Threads /\ Activators \cup Clients \subseteq Threads /\ Main \in Threads
  BY SMT DEF Threads
<1>b. \A u \in Threads : pc'[u] \notin {"callback", "unflag"}
  BY <1>0 DEF IInv, OneRunner
<1>1. TypeOK'
  <2>1. callback' \in [Threads -> Nat]
    BY <1>0, SMT DEF IInv, TypeOK
  <2> QED
    BY <1>0, <2>1 DEF IInv, TypeOK, service, sync
<1>2. Roles'
  BY <1>0, <1>a, SchedulerAssumption, SMT DEF IInv, Roles, InClient
<1>3. Served'
  BY <1>0, <1>a, ServedKept DEF service
<1>4. OneRunner'
  BY <1>b DEF OneRunner
<1>5. Numbered'
  <2>1. \A u \in Threads : pc[u] # "callback"
    BY <1>0 DEF IInv, OneRunner
  <2>2. Started' = Started
    BY <1>0 DEF Started
  <2> QED
    BY <1>0, <1>b, <2>1, <2>2 DEF IInv, Numbered
<1>6. Promises'
  BY <1>0, <1>a, SchedulerAssumption DEF IInv, Promises, sync, Roles
<1>7. Alone'
  BY <1>0, <1>a, SchedulerAssumption DEF IInv, Alone
<1>8. NoneLeftBehind'
  BY <1>0 DEF NoneLeftBehind, OnItsWay
<1> QED
  BY <1>1, <1>2, <1>3, <1>4, <1>5, <1>6, <1>7, <1>8, SMT DEF IInv

(* What AddToProcessQueue keeps, whoever calls it.                          *)
LEMMA AddKeeps ==
    ASSUME IInv, NEW t \in Threads \ Services, NEW p \in Places,
           pc[t] \notin {"callback", "unflag"}, AddToProcessQueue(t, p)
    PROVE  /\ pc'[t] = "maybe" /\ \A u \in Threads \ {t} : pc'[u] = pc[u]
           /\ ret'[t] = p /\ \A u \in Threads \ {t} : ret'[u] = ret[u]
           /\ added' = added + 1 /\ executed' = executed /\ interrupted' = interrupted
           /\ (promise' \in [Threads -> Nat] /\ before' \in [Threads -> Nat]) => TypeOK'
           /\ Served' /\ OneRunner' /\ Numbered' /\ NoneLeftBehind'
<1>0. /\ pc'[t] = "maybe" /\ \A u \in Threads \ {t} : pc'[u] = pc[u]
      /\ ret'[t] = p /\ \A u \in Threads \ {t} : ret'[u] = ret[u]
      /\ pc' \in [Threads -> Places] /\ ret' \in [Threads -> Places]
      /\ added' = added + 1 /\ pending' = Append(pending, added + 1)
      /\ UNCHANGED <<service, fRunning, executed, callback, interrupted>>
  BY DEF IInv, TypeOK, AddToProcessQueue, Goto, Places
<1>a. /\ pending \in Seq(Nat) /\ added \in Nat /\ pending' \in Seq(Nat) /\ added' \in Nat
      /\ Len(pending') = Len(pending) + 1 /\ Len(pending) \in Nat
      /\ pending'[Len(pending) + 1] = added + 1
      /\ \A i \in 1..Len(pending) : pending'[i] = pending[i]
  <2>1. pending \in Seq(Nat) /\ added \in Nat
    BY DEF IInv, TypeOK
  <2>2. pending' = Append(pending, added + 1) /\ added' = added + 1 /\ added + 1 \in Nat
    BY <1>0, <2>1, SMT
  <2> QED
    BY <2>1, <2>2, SMT
<1>1. (promise' \in [Threads -> Nat] /\ before' \in [Threads -> Nat]) => TypeOK'
  BY <1>0, <1>a DEF IInv, TypeOK, service
<1>2. Served'
  BY <1>0, ServedKept DEF service, Threads
<1>3. OneRunner'
  BY <1>0, Zenon DEF IInv, OneRunner
<1>4. Numbered'
  <2>0. added' = added + 1 /\ Len(pending') = Len(pending) + 1 /\ added \in Nat /\ Len(pending) \in Nat
    BY <1>0, <1>a
  <2>1. Started' = Started
    BY <2>0, SMT DEF Started
  <2>2. Started \in Nat /\ \A i \in 1..Len(pending) : pending[i] = Started + i
    BY DEF IInv, Numbered
  <2>3. added + 1 = Started + (Len(pending) + 1)
    BY <1>a, SMT DEF Started
  <2> HIDE DEF Started
  <2>4. ASSUME NEW i \in 1..Len(pending') PROVE pending'[i] = Started + i
    <3>1. CASE i = Len(pending) + 1
      BY <3>1, <1>a, <2>3
    <3>2. CASE i # Len(pending) + 1
      <4>1. i \in 1..Len(pending)
        BY <3>2, <1>a, SMT
      <4> QED
        BY <4>1, <1>a, <2>2
    <3> QED
      BY <3>1, <3>2
  <2>5. \A u \in Threads : pc'[u] = "callback" <=> pc[u] = "callback"
    BY <1>0
  <2> QED
    BY <1>0, <2>1, <2>2, <2>4, <2>5 DEF IInv, Numbered
<1>5. NoneLeftBehind'
  BY <1>0 DEF NoneLeftBehind, OnItsWay
<1> QED
  BY <1>0, <1>1, <1>2, <1>3, <1>4, <1>5

(* ActivateBestChain adds the callback of a block.                          *)
LEMMA ConnectInv ==
    ASSUME IInv, NEW t \in Activators, Connect(t)
    PROVE  IInv'
<1>0. /\ t \in Threads \ Services /\ pc[t] \in {"connect", "synced"} /\ "idle" \in Places
      /\ AddToProcessQueue(t, "idle") /\ promise' = promise /\ before' = before
  BY SchedulerAssumption DEF Connect, Threads, Places, sync
<1>a. Services \subseteq Threads /\ Activators \cup Clients \subseteq Threads /\ Main \in Threads
  BY DEF Threads
<1>1. /\ pc'[t] = "maybe" /\ \A u \in Threads \ {t} : pc'[u] = pc[u]
      /\ ret'[t] = "idle" /\ \A u \in Threads \ {t} : ret'[u] = ret[u]
      /\ added' = added + 1 /\ executed' = executed
  BY <1>0, AddKeeps
<1>b. /\ (promise' \in [Threads -> Nat] /\ before' \in [Threads -> Nat]) => TypeOK'
      /\ Served' /\ OneRunner' /\ Numbered' /\ NoneLeftBehind'
  BY <1>0, AddKeeps
<1>2. TypeOK'
  <2>1. promise' \in [Threads -> Nat] /\ before' \in [Threads -> Nat]
    BY <1>0, <1>1 DEF IInv, TypeOK
  <2> QED
    BY <2>1, <1>b
<1>3. Roles'
  BY <1>0, <1>a, <1>1, SchedulerAssumption, SMT DEF IInv, Roles, InClient
<1>4. Promises'
  <2>1. added \in Nat /\ before \in [Threads -> Nat] /\ promise \in [Threads -> Nat]
    BY DEF IInv, TypeOK
  <2>2. ASSUME NEW u \in Activators \cup Clients
        PROVE  /\ before'[u] <= added'
               /\ promise'[u] # 0 => before'[u] < promise'[u]
               /\ pc'[u] = "synced" /\ promise'[u] # 0 => promise'[u] \in executed'
    <3>1. /\ u \in Threads /\ before[u] \in Nat /\ before[u] <= added
          /\ promise[u] # 0 => before[u] < promise[u]
          /\ pc[u] = "synced" /\ promise[u] # 0 => promise[u] \in executed
      BY <1>a, <2>1 DEF IInv, Promises
    <3>2. before'[u] = before[u] /\ before[u] <= added' /\ executed' = executed
      <4>1. added' = added + 1 /\ executed' = executed
        BY <1>1
      <4>2. before[u] <= added + 1
        BY <2>1, <3>1, SMT
      <4> QED
        BY <1>0, <3>1, <4>1, <4>2
    <3>3. CASE u = t
      <4>1. pc'[u] # "synced"
        BY <1>1, <3>3
      <4>2. promise'[u] # 0 => before[u] < promise'[u]
        BY <1>0, <1>1, <2>1, <3>1, <3>3
      <4> QED
        BY <3>2, <4>1, <4>2
    <3>4. CASE u # t
      <4>1. pc'[u] = pc[u] /\ promise'[u] = promise[u]
        BY <1>0, <1>1, <2>1, <3>1, <3>4
      <4> QED
        BY <3>1, <3>2, <4>1
    <3> QED
      BY <3>3, <3>4
  <2> QED
    BY <2>2 DEF Promises
<1>5. Alone'
  BY <1>0, <1>a, <1>1, SchedulerAssumption DEF IInv, Alone
<1> QED
  BY <1>b, <1>2, <1>3, <1>4, <1>5 DEF IInv

(* SyncWithValidationInterfaceQueue adds the callback it waits for.         *)
LEMMA EnqueueInv ==
    ASSUME IInv, NEW t \in Activators \cup Clients, Enqueue(t)
    PROVE  IInv'
<1>0. /\ t \in Threads \ Services /\ pc[t] = "enqueue" /\ "waiting" \in Places
      /\ AddToProcessQueue(t, "waiting")
      /\ promise' = [promise EXCEPT ![t] = added'] /\ before' = before
  BY SchedulerAssumption DEF Enqueue, Threads, Places
<1>a. Services \subseteq Threads /\ Activators \cup Clients \subseteq Threads /\ Main \in Threads
  BY DEF Threads
<1>1. /\ pc'[t] = "maybe" /\ \A u \in Threads \ {t} : pc'[u] = pc[u]
      /\ ret'[t] = "waiting" /\ \A u \in Threads \ {t} : ret'[u] = ret[u]
      /\ added' = added + 1 /\ executed' = executed
  BY <1>0, AddKeeps
<1>b. /\ (promise' \in [Threads -> Nat] /\ before' \in [Threads -> Nat]) => TypeOK'
      /\ Served' /\ OneRunner' /\ Numbered' /\ NoneLeftBehind'
  BY <1>0, AddKeeps
<1>2. TypeOK'
  <2>1. added \in Nat /\ before \in [Threads -> Nat] /\ promise \in [Threads -> Nat]
    BY DEF IInv, TypeOK
  <2>2. added' \in Nat
    BY <1>1, <2>1, SMT
  <2>3. promise' \in [Threads -> Nat] /\ before' \in [Threads -> Nat]
    BY <1>0, <2>1, <2>2
  <2> QED
    BY <2>3, <1>b
<1>3. Roles'
  BY <1>0, <1>a, <1>1, SchedulerAssumption, SMT DEF IInv, Roles, InClient
<1>4. Promises'
  <2>0. added' = added + 1
    BY <1>1
  <2>1. added \in Nat /\ before \in [Threads -> Nat] /\ promise \in [Threads -> Nat]
    BY SMT DEF IInv, TypeOK
  <2>2. ASSUME NEW u \in Activators \cup Clients
        PROVE  /\ before'[u] <= added'
               /\ promise'[u] # 0 => before'[u] < promise'[u]
               /\ pc'[u] = "synced" /\ promise'[u] # 0 => promise'[u] \in executed'
    <3>1. /\ u \in Threads /\ before[u] \in Nat /\ before[u] <= added
          /\ promise[u] # 0 => before[u] < promise[u]
          /\ pc[u] = "synced" /\ promise[u] # 0 => promise[u] \in executed
      BY <1>a, <2>1 DEF IInv, Promises
    <3>2. before'[u] = before[u] /\ before[u] <= added' /\ executed' = executed
      <4>1. added' = added + 1 /\ executed' = executed
        BY <1>1
      <4>2. before[u] <= added + 1
        BY <2>1, <3>1, SMT
      <4> QED
        BY <1>0, <3>1, <4>1, <4>2
    <3>3. CASE u = t
      <4>1. pc'[u] # "synced"
        BY <1>1, <3>3
      <4>2. promise'[u] = added'
        BY <1>0, <2>1, <3>1, <3>3
      <4>3. before[u] \in Nat /\ before[u] <= added /\ added \in Nat
        BY <2>1, <3>1
      <4>4. before[u] < added'
        BY <2>0, <4>3, SMT
      <4> QED
        BY <3>2, <4>1, <4>2, <4>4
    <3>4. CASE u # t
      <4>1. pc'[u] = pc[u]
        BY <1>1, <3>1, <3>4
      <4>2. promise'[u] = promise[u]
        BY <1>0, <2>1, <3>1, <3>4
      <4> QED
        BY <3>1, <3>2, <4>1, <4>2
    <3> QED
      BY <3>3, <3>4
  <2> QED
    BY <2>2 DEF Promises
<1>5. Alone'
  BY <1>0, <1>a, <1>1, SchedulerAssumption DEF IInv, Alone
<1> QED
  BY <1>b, <1>2, <1>3, <1>4, <1>5 DEF IInv

(* FlushStateToDisk in Shutdown adds the SetBestChain callback.             *)
LEMMA FlushAddsInv ==
    ASSUME IInv, pc[Main] \in {"flush", "last"}, UNCHANGED sync,
           NEW p \in {"empty", "down"}, AddToProcessQueue(Main, p)
    PROVE  IInv'
<1>0. /\ Main \in Threads \ Services /\ pc[Main] \in {"flush", "last"}
      /\ promise' = promise /\ before' = before
  BY SchedulerAssumption DEF Threads, sync
<1>a. Services \subseteq Threads /\ Activators \cup Clients \subseteq Threads /\ Main \in Threads
  BY DEF Threads
<1>1. AddToProcessQueue(Main, p)
  OBVIOUS
<1>2. p \in Places
  BY DEF Places
<1>3. /\ pc'[Main] = "maybe" /\ \A u \in Threads \ {Main} : pc'[u] = pc[u]
      /\ ret'[Main] = p /\ \A u \in Threads \ {Main} : ret'[u] = ret[u]
      /\ added' = added + 1 /\ executed' = executed
  BY <1>0, <1>1, <1>2, AddKeeps
<1>b. /\ (promise' \in [Threads -> Nat] /\ before' \in [Threads -> Nat]) => TypeOK'
      /\ Served' /\ OneRunner' /\ Numbered' /\ NoneLeftBehind'
  BY <1>0, <1>1, <1>2, AddKeeps
<1>4. TypeOK'
  BY <1>0, <1>b DEF IInv, TypeOK
<1>5. Roles'
  <2>1. \A u \in Services \cup Activators \cup Clients : u \in Threads \ {Main}
    BY <1>a, SchedulerAssumption
  <2>2. \A u \in Services \cup Activators \cup Clients : pc'[u] = pc[u] /\ ret'[u] = ret[u]
    BY <2>1, <1>3
  <2> QED
    BY <2>2, <1>3, SMT DEF IInv, Roles, InClient
<1>6. Promises'
  <2>1. added \in Nat /\ before \in [Threads -> Nat]
    BY DEF IInv, TypeOK
  <2>2. ASSUME NEW u \in Activators \cup Clients
        PROVE  /\ before'[u] <= added'
               /\ promise'[u] # 0 => before'[u] < promise'[u]
               /\ pc'[u] = "synced" /\ promise'[u] # 0 => promise'[u] \in executed'
    <3>1. u \in Threads \ {Main} /\ before[u] \in Nat
      BY <1>a, <2>1, SchedulerAssumption
    <3>2. pc'[u] = pc[u] /\ before'[u] = before[u] /\ promise'[u] = promise[u]
      BY <1>0, <1>3, <3>1
    <3>3. /\ before[u] <= added
          /\ promise[u] # 0 => before[u] < promise[u]
          /\ pc[u] = "synced" /\ promise[u] # 0 => promise[u] \in executed
      BY DEF IInv, Promises
    <3>4. before'[u] <= added'
      <4>1. added' = added + 1
        BY <1>3
      <4>2. before[u] <= added + 1
        BY <2>1, <3>1, <3>3, SMT
      <4> QED
        BY <3>2, <4>1, <4>2
    <3> QED
      BY <1>3, <3>2, <3>3, <3>4
  <2> QED
    BY <2>2 DEF Promises
<1>7. Alone'
  BY <1>0, <1>a, <1>3, SchedulerAssumption, SMT DEF IInv, Alone
<1> QED
  BY <1>b, <1>4, <1>5, <1>6, <1>7 DEF IInv

(* The two calls of FlushStateToDisk in Shutdown.                           *)
LEMMA FlushInv ==
    ASSUME IInv, FlushState \/ LastFlush
    PROVE  IInv'
<1>1. /\ UNCHANGED sync
      /\ \/ pc[Main] = "flush" /\ (AddToProcessQueue(Main, "empty") \/ Goto(Main, "empty"))
         \/ pc[Main] = "last" /\ (AddToProcessQueue(Main, "down") \/ Goto(Main, "down"))
      /\ \/ AddToProcessQueue(Main, "empty") \/ AddToProcessQueue(Main, "down")
         \/ UNCHANGED <<service, client, ret, callback, interrupted>>
  BY DEF FlushState, LastFlush, SetBestChain
<1>2. CASE AddToProcessQueue(Main, "empty") \/ AddToProcessQueue(Main, "down")
  BY <1>1, <1>2, FlushAddsInv
<1>3. CASE ~(AddToProcessQueue(Main, "empty") \/ AddToProcessQueue(Main, "down"))
  <2>1. /\ Main \in Threads
        /\ UNCHANGED <<service, client, ret, callback, sync, interrupted>>
    BY <1>1, <1>3 DEF Threads
  <2>2. PICK p \in {"empty", "down"} :
           Goto(Main, p) /\ (pc[Main] = "flush" \/ pc[Main] = "last")
    BY <1>1, <1>3
  <2>3. Roles'
    BY <2>1, <2>2, SchedulerAssumption, SMT DEF IInv, TypeOK, Roles, InClient, Goto, Threads
  <2>4. Alone'
    BY <2>1, <2>2, SchedulerAssumption, SMT DEF IInv, TypeOK, Alone, Goto, Threads, client
  <2>5. p \in Places
    BY DEF Places
  <2> QED
    BY <2>1, <2>2, <2>3, <2>4, <2>5, MoveInv
<1> QED
  BY <1>2, <1>3

(* After initialisation.                                                    *)
LEMMA InitInv ==
    Init => IInv
<1> SUFFICES ASSUME Init PROVE IInv
  OBVIOUS
<1>a. /\ Services \subseteq Threads /\ Activators \cup Clients \subseteq Threads /\ Main \in Threads
      /\ \A t \in Services : pc[t] = "start"
      /\ \A t \in Activators \cup Clients : pc[t] = "idle"
      /\ pc[Main] = "up"
      /\ \A t \in Threads : pc[t] \in {"start", "idle", "up"}
  BY SchedulerAssumption DEF Init, Threads
<1>1. TypeOK
  <2>1. taskQueue \in Seq(Tasks)
    BY SMT DEF Init, Tasks
  <2>2. pc \in [Threads -> Places]
    BY DEF Init, Places
  <2>3. pending \in Seq(Nat) /\ executed \subseteq Nat
    BY SMT DEF Init
  <2>4. ret \in [Threads -> Places]
    BY DEF Init, Places
  <2> QED
    BY <2>1, <2>2, <2>3, <2>4 DEF Init, TypeOK
<1>2. Roles
  <2>1. \A t \in Services : ret[t] = "loop"
    BY <1>a DEF Init
  <2> QED
    BY <1>a, <2>1 DEF Roles, InClient
<1>3. Served
  <2>1. Serving = {}
    BY <1>a DEF Serving
  <2> QED
    BY <2>1, NumberNone DEF Init, Served
<1>4. OneRunner
  BY <1>a DEF OneRunner
<1>5. Numbered
  <2>1. Started = 0
    <3>1. added = 0 /\ Len(pending) = 0
      BY DEF Init
    <3> QED
      BY <3>1, SMT DEF Started
  <2> QED
    BY <1>a, <2>1, SMT DEF Init, Numbered
<1>6. Promises
  BY <1>a, SMT DEF Init, Promises
<1>7. Alone
  BY <1>a DEF Alone
<1>8. NoneLeftBehind
  BY DEF Init, NoneLeftBehind
<1> QED
  BY <1>1, <1>2, <1>3, <1>4, <1>5, <1>6, <1>7, <1>8 DEF IInv

(* A step of SingleThreadedSchedulerClient.                                 *)
LEMMA ClientStepInv ==
    ASSUME IInv, NEW t \in Threads, ClientStep(t)
    PROVE  IInv'
BY ProcessQueueInv, RunCallbackInv, UnflagInv, MaybeScheduleInv, ScheduleInv, NotifyInv DEF ClientStep

(* Every step keeps the inductive invariant.                                *)
LEMMA NextInv ==
    IInv /\ [Next]_vars => IInv'
<1> SUFFICES ASSUME IInv, [Next]_vars PROVE IInv'
  OBVIOUS
<1>a. Services \subseteq Threads /\ Activators \cup Clients \subseteq Threads /\ Main \in Threads
  BY DEF Threads
<1>1. CASE \E t \in Services : ServiceStep(t)
  BY <1>1, <1>a, ClientStepInv, ServiceQueueInv, TimeoutInv, TakeTaskInv, RepeatInv DEF ServiceStep
<1>2. CASE \E t \in Activators \cup Clients : CallerStep(t)
  <2>1. PICK t \in Activators \cup Clients : CallerStep(t)
    BY <1>2
  <2>2. CASE Connect(t)
    <3>1. t \in Activators
      BY <2>2 DEF Connect
    <3> QED
      BY <2>2, <3>1, ConnectInv
  <2>3. CASE Interrupted(t) \/ Sync(t) \/ Enqueue(t) \/ PromiseKept(t) \/ ClientStep(t)
    BY <2>3, <1>a, InterruptedInv, SyncInv, EnqueueInv, PromiseKeptInv, ClientStepInv
  <2> QED
    BY <2>1, <2>2, <2>3 DEF CallerStep
<1>3. CASE \E t \in Activators : Activate(t)
  BY <1>3, ActivateInv
<1>4. CASE \E t \in Clients : Request(t)
  BY <1>4, RequestInv
<1>5. CASE MainStep
  BY <1>5, <1>a, StopSchedulerInv, JoinInv, FlushInv, EmptyQueueInv, EmptyQueueAgainInv, ClientStepInv DEF MainStep
<1>6. CASE \E t \in Services : WakeSpuriously(t)
  BY <1>6, WakeInv, SMT
<1>7. CASE RequestShutdown \/ Tick
  BY <1>7, RequestShutdownInv, TickInv
<1>8. CASE UNCHANGED vars
  <2>1. /\ taskQueue' = taskQueue /\ nThreadsServicingQueue' = nThreadsServicingQueue
        /\ UNCHANGED <<stopRequested, client, pc, ret, callback, sync, interrupted>>
    BY <1>8 DEF vars, service
  <2>2. TypeOK'
    BY <2>1 DEF IInv, TypeOK, client, sync
  <2>3. Roles'
    BY <2>1 DEF IInv, Roles
  <2>4. Served'
    BY <2>1, ServedKept
  <2>5. OneRunner' /\ Numbered'
    BY <2>1, CallbacksKept
  <2>6. Promises'
    BY <2>1 DEF IInv, Promises, client, sync
  <2>7. Alone' /\ NoneLeftBehind'
    BY <2>1 DEF IInv, Alone, NoneLeftBehind, OnItsWay, client
  <2> QED
    BY <2>2, <2>3, <2>4, <2>5, <2>6, <2>7 DEF IInv
<1> QED
  BY <1>1, <1>2, <1>3, <1>4, <1>5, <1>6, <1>7, <1>8 DEF Next

(* The inductive invariant holds in every reachable state.                  *)
LEMMA InvHolds ==
    Spec => []IInv
BY InitInv, NextInv, PTL DEF Spec
-----------------------------------------------------------------------------
(* The properties.                                                          *)

(* The variables of the scheduler and its users keep their types.           *)
THEOREM TypeCorrect ==
    Spec => []TypeOK
<1>1. IInv => TypeOK
  BY DEF IInv
<1> QED
  BY <1>1, InvHolds, PTL

(* MaybeScheduleProcessQueue never leaves a callback with no ProcessQueue   *)
(* to come, however many threads add callbacks and run them.                *)
THEOREM NoneLeftBehindHolds ==
    Spec => []NoneLeftBehind
<1>1. IInv => NoneLeftBehind
  BY DEF IInv
<1> QED
  BY <1>1, InvHolds, PTL

(* SyncWithValidationInterfaceQueue, when it waits, returns after every     *)
(* callback that was added before it was called.                            *)
THEOREM WaitedForEarlierHolds ==
    Spec => []WaitedForEarlier
<1>1. IInv => WaitedForEarlier
  <2> SUFFICES ASSUME IInv, NEW t \in Activators \cup Clients, pc[t] = "synced", promise[t] # 0
               PROVE  1..before[t] \subseteq executed
    BY DEF WaitedForEarlier
  <2>1. promise[t] \in executed /\ before[t] < promise[t]
    BY DEF IInv, Promises
  <2>2. before[t] \in Nat /\ promise[t] \in Nat
    BY DEF IInv, TypeOK, Threads
  <2>3. \E m \in Int : executed = 1..m
    <3>1. CASE \E u \in Threads : pc[u] = "callback"
      BY <3>1, SMT DEF IInv, Numbered
    <3>2. CASE \A u \in Threads : pc[u] # "callback"
      BY <3>2, SMT DEF IInv, Numbered
    <3> QED
      BY <3>1, <3>2
  <2> QED
    BY <2>1, <2>2, <2>3, SMT
<1> QED
  BY <1>1, InvHolds, PTL

(* The assertion of EmptyQueue, and of ~CScheduler, holds in Shutdown.      *)
THEOREM NoServiceLeftHolds ==
    Spec => []NoServiceLeft
<1>1. IInv => NoServiceLeft
  <2> SUFFICES ASSUME IInv, pc[Main] \in {"empty", "check", "last", "down"}
               PROVE  nThreadsServicingQueue = 0
    BY DEF NoServiceLeft
  <2>1. Serving = {}
    BY DEF IInv, Alone, Serving
  <2> QED
    BY <2>1, NumberNone DEF IInv, Served
<1> QED
  BY <1>1, InvHolds, PTL

(* FlushBackgroundCallbacks in Shutdown leaves no callback out.             *)
THEOREM NoneMissedHolds ==
    Spec => []NoneMissed
<1>1. IInv => NoneMissed
  <2> SUFFICES ASSUME IInv, pc[Main] = "last" PROVE executed = 1..added
    BY DEF NoneMissed
  <2>1. \A t \in Threads : pc[t] # "callback"
    BY DEF IInv, Alone, Threads
  <2>2. Started = added
    BY SMT DEF IInv, TypeOK, Alone, Started
  <2> QED
    BY <2>1, <2>2 DEF IInv, Numbered
<1> QED
  BY <1>1, InvHolds, PTL

-----------------------------------------------------------------------------
(* That a shutdown that is stuck stays so.                                  *)

(* No step of a thread that services the queue is left, and Shutdown's      *)
(* thread cannot end its join: no callback is run.                          *)
LEMMA StuckRunsNone ==
    ASSUME IInv, Stuck, Next
    PROVE  /\ executed' = executed /\ pc'[Main] = "joining"
           /\ \A t \in Services : pc'[t] = "exited"
<1>a. Services \subseteq Threads /\ Activators \cup Clients \subseteq Threads /\ Main \in Threads
  BY DEF Threads
<1>b. pc[Main] = "joining" /\ \A t \in Services : pc[t] = "exited"
  BY DEF Stuck
<1>c. Sleepers = {}
  BY <1>b DEF Sleepers
<1>d. pc \in [Threads -> Places]
  BY DEF IInv, TypeOK
<1>1. CASE \E t \in Services : ServiceStep(t) \/ WakeSpuriously(t)
  <2>1. PICK t \in Services : ServiceStep(t) \/ WakeSpuriously(t)
    BY <1>1
  <2>2. pc[t] = "exited"
    BY <1>b
  <2> QED
    BY <2>1, <2>2 DEF ServiceStep, ClientStep, ServiceQueue, Timeout, TakeTask, Repeat, ProcessQueue,
       RunCallback, Unflag, MaybeSchedule, Schedule, Notify, WakeSpuriously
<1>2. CASE MainStep \/ RequestShutdown
  <2>1. \E t \in Activators \cup Stakers : pc[t] # "gone"
    BY DEF Stuck
  <2> QED
    BY <1>2, <1>b, <2>1 DEF MainStep, RequestShutdown, StopScheduler, Join, FlushState, LastFlush,
       EmptyQueue, EmptyQueueAgain, ClientStep, ProcessQueue, RunCallback, Unflag, MaybeSchedule,
       Schedule, Notify
<1>3. CASE Tick
  BY <1>3, <1>a, <1>b DEF Tick, client
<1>4. ASSUME NEW t \in Activators \cup Clients, CallerStep(t) \/ Activate(t) \/ Request(t)
      PROVE  /\ executed' = executed /\ pc'[Main] = "joining"
             /\ \A u \in Services : pc'[u] = "exited"
  <2>1. t \in Threads /\ t # Main /\ t \notin Services
    BY <1>a, SchedulerAssumption
  <2>2. pc[t] \notin {"process", "callback", "unflag"}
    BY DEF IInv, Roles
  <2>3. executed' = executed
    BY <1>4, <2>2 DEF CallerStep, ClientStep, Activate, Request, Connect, Interrupted, Sync, Enqueue,
       PromiseKept, AddToProcessQueue, ProcessQueue, RunCallback, Unflag, MaybeSchedule, Schedule,
       Notify, client
  <2>4. \E p : Goto(t, p)
    BY <1>4, <2>2, <1>c DEF CallerStep, ClientStep, Activate, Request, Connect, Interrupted, Sync, Enqueue,
       PromiseKept, AddToProcessQueue, ProcessQueue, RunCallback, Unflag, MaybeSchedule, Schedule,
       Notify, NotifyOne
  <2> QED
    BY <1>a, <1>b, <1>d, <2>1, <2>3, <2>4 DEF Goto
<1> QED
  BY <1>1, <1>2, <1>3, <1>4 DEF Next

(* The thread that waits goes on waiting.                                   *)
LEMMA StuckWaits ==
    ASSUME IInv, Stuck, Next, NEW t \in Activators \cup Stakers,
           pc[t] = "waiting", promise[t] \notin executed
    PROVE  pc'[t] = "waiting" /\ promise'[t] = promise[t]
<1>a. Services \subseteq Threads /\ Activators \cup Clients \subseteq Threads /\ Main \in Threads
  BY DEF Threads
<1>b. t \in Threads /\ t # Main /\ t \notin Services /\ t \notin Sleepers
  BY SchedulerAssumption DEF Threads, Sleepers
<1>c. Sleepers = {}
  BY DEF Sleepers, Stuck
<1>d. pc \in [Threads -> Places] /\ promise \in [Threads -> Nat]
  BY DEF IInv, TypeOK
<1>1. CASE \E u \in Services : ServiceStep(u) \/ WakeSpuriously(u)
  <2>1. PICK u \in Services : ServiceStep(u) \/ WakeSpuriously(u)
    BY <1>1
  <2>2. pc[u] = "exited"
    BY DEF Stuck
  <2> QED
    BY <2>1, <2>2 DEF ServiceStep, ClientStep, ServiceQueue, Timeout, TakeTask, Repeat, ProcessQueue,
       RunCallback, Unflag, MaybeSchedule, Schedule, Notify, WakeSpuriously
<1>2. CASE MainStep \/ RequestShutdown
  <2>1. pc[Main] = "joining" /\ pc[t] # "gone"
    BY DEF Stuck
  <2> QED
    BY <1>2, <2>1 DEF MainStep, RequestShutdown, StopScheduler, Join, FlushState, LastFlush,
       EmptyQueue, EmptyQueueAgain, ClientStep, ProcessQueue, RunCallback, Unflag, MaybeSchedule,
       Schedule, Notify
<1>3. CASE Tick
  BY <1>3, <1>b DEF Tick, sync
<1>4. ASSUME NEW u \in Activators \cup Clients, CallerStep(u) \/ Activate(u) \/ Request(u)
      PROVE  pc'[t] = "waiting" /\ promise'[t] = promise[t]
  <2>1. u # t
    <3>1. ~Resting(t)
      BY DEF Resting
    <3> QED
      BY <1>4, <3>1 DEF CallerStep, ClientStep, Activate, Request, Connect, Interrupted, Sync, Enqueue,
         PromiseKept, ProcessQueue, RunCallback, Unflag, MaybeSchedule, Schedule, Notify
  <2>2. \E p : Goto(u, p)
    BY <1>4, <1>c DEF CallerStep, ClientStep, Activate, Request, Connect, Interrupted, Sync, Enqueue,
       PromiseKept, AddToProcessQueue, ProcessQueue, RunCallback, Unflag, MaybeSchedule, Schedule,
       Notify, NotifyOne
  <2>3. promise' = promise \/ \E n : promise' = [promise EXCEPT ![u] = n]
    BY <1>4 DEF CallerStep, ClientStep, Activate, Request, Connect, Interrupted, Sync, Enqueue,
       PromiseKept, ProcessQueue, RunCallback, Unflag, MaybeSchedule, Schedule, Notify, sync
  <2> QED
    BY <1>b, <1>d, <2>1, <2>2, <2>3 DEF Goto
<1> QED
  BY <1>1, <1>2, <1>3, <1>4 DEF Next

(* A shutdown that is stuck stays so: join_all waits for a thread whose     *)
(* promise no thread is left to keep, whatever the others still do.         *)
THEOREM StuckForGood ==
    Spec => [][Stuck => Stuck']_vars
<1>1. ASSUME IInv, Next, Stuck PROVE Stuck'
  <2>1. PICK t \in Activators \cup Stakers : pc[t] = "waiting" /\ promise[t] \notin executed
    BY <1>1 DEF Stuck
  <2>2. pc'[t] = "waiting" /\ promise'[t] = promise[t]
    BY <1>1, <2>1, StuckWaits
  <2>3. /\ executed' = executed /\ pc'[Main] = "joining"
        /\ \A u \in Services : pc'[u] = "exited"
    BY <1>1, StuckRunsNone
  <2> QED
    BY <2>1, <2>2, <2>3 DEF Stuck
<1>2. IInv /\ [Next]_vars => [Stuck => Stuck']_vars
  BY <1>1
<1> QED
  BY <1>2, InvHolds, PTL DEF Spec

-----------------------------------------------------------------------------
(* That the scheduler implements CallbackOrder.                             *)

(* The callbacks being run.                                                 *)
Running == {callback[t] : t \in {u \in Threads : pc[u] = "callback"}}

(* A step that leaves the callbacks alone is a stutter.                     *)
LEMMA SameRunning ==
    ASSUME UNCHANGED <<client, callback>>,
           \A u \in Threads : pc'[u] = "callback" <=> pc[u] = "callback"
    PROVE  UNCHANGED <<pending, Running, added>>
<1>1. callback' = callback /\ pending' = pending /\ added' = added
  BY DEF client
<1>2. {u \in Threads : pc'[u] = "callback"} = {u \in Threads : pc[u] = "callback"}
  OBVIOUS
<1>3. Running' = Running
  BY <1>1, <1>2 DEF Running
<1> QED
  BY <1>1, <1>3

(* Adding a callback is Add.                                                *)
LEMMA AddRefines ==
    ASSUME IInv, NEW t \in Threads, pc[t] \notin {"callback", "unflag"}, NEW p, AddToProcessQueue(t, p)
    PROVE  Order!Add
<1>1. callback' = callback /\ added' = added + 1 /\ pending' = Append(pending, added')
  BY DEF AddToProcessQueue
<1>2. {u \in Threads : pc'[u] = "callback"} = {u \in Threads : pc[u] = "callback"}
  BY DEF IInv, TypeOK, AddToProcessQueue, Goto
<1>3. Running' = Running
  BY <1>1, <1>2 DEF Running
<1> QED
  BY <1>1, <1>3 DEF Order!Add, Running

(* Taking a callback is Start: no other is being run.                       *)
LEMMA ProcessQueueRefines ==
    ASSUME IInv, NEW t \in Threads, ProcessQueue(t)
    PROVE  Order!Start \/ UNCHANGED <<pending, Running, added>>
<1>0. pc[t] = "process" /\ pc[t] \in InClient /\ added' = added
  BY DEF ProcessQueue, InClient
<1>1. CASE CanProcess
  <2>1. /\ callback' = [callback EXCEPT ![t] = Head(pending)] /\ pending' = Tail(pending)
        /\ pc' = [pc EXCEPT ![t] = "callback"] /\ pending # <<>>
    BY <1>1 DEF ProcessQueue, CanProcess, Goto
  <2>2. \A u \in Threads : pc[u] # "callback"
    BY <1>1 DEF CanProcess, IInv, OneRunner
  <2>3. {u \in Threads : pc[u] = "callback"} = {} /\ {u \in Threads : pc'[u] = "callback"} = {t}
    BY <2>1, <2>2 DEF IInv, TypeOK
  <2>4. callback'[t] = Head(pending)
    BY <2>1 DEF IInv, TypeOK
  <2>5. Running = {} /\ Running' = {Head(pending)}
    BY <2>3, <2>4 DEF Running
  <2> QED
    BY <1>0, <2>1, <2>5 DEF Order!Start, Running
<1>2. CASE ~CanProcess
  <2>1. /\ callback' = callback /\ pending' = pending
        /\ pc' = [pc EXCEPT ![t] = ret[t]]
    BY <1>2 DEF ProcessQueue, Goto
  <2>2. ret[t] # "callback"
    BY <1>0, ReturnPlace
  <2>3. {u \in Threads : pc'[u] = "callback"} = {u \in Threads : pc[u] = "callback"}
    BY <1>0, <2>1, <2>2 DEF IInv, TypeOK
  <2>4. Running' = Running
    BY <2>1, <2>3 DEF Running
  <2> QED
    BY <1>0, <2>1, <2>4
<1> QED
  BY <1>1, <1>2

(* The end of a callback is Finish.                                         *)
LEMMA RunCallbackRefines ==
    ASSUME IInv, NEW t \in Threads, RunCallback(t)
    PROVE  Order!Finish
<1>1. /\ pc[t] = "callback" /\ pc' = [pc EXCEPT ![t] = "unflag"]
      /\ pending' = pending /\ added' = added /\ callback' = callback
  BY DEF RunCallback, Goto
<1>2. \A u \in Threads : pc[u] = "callback" => u = t
  BY <1>1 DEF IInv, OneRunner
<1>3. {u \in Threads : pc[u] = "callback"} = {t} /\ {u \in Threads : pc'[u] = "callback"} = {}
  BY <1>1, <1>2 DEF IInv, TypeOK
<1>4. Running = {callback[t]} /\ Running' = {}
  BY <1>3 DEF Running
<1> QED
  BY <1>1, <1>4 DEF Order!Finish, Running

(* A step of SingleThreadedSchedulerClient is a step of CallbackOrder.      *)
LEMMA ClientStepRefines ==
    ASSUME IInv, NEW t \in Threads, ClientStep(t)
    PROVE  Order!Start \/ Order!Finish \/ UNCHANGED <<pending, Running, added>>
<1>1. CASE ProcessQueue(t)
  BY <1>1, ProcessQueueRefines
<1>2. CASE RunCallback(t)
  BY <1>2, RunCallbackRefines
<1>3. CASE Unflag(t)
  <2>1. /\ pending' = pending /\ added' = added
        /\ pc[t] = "unflag" /\ pc' = [pc EXCEPT ![t] = "maybe"]
    BY <1>3 DEF Unflag, Goto
  <2>2. Running' = Running
    <3>1. {u \in Threads : pc[u] = "callback"} = {}
      BY <2>1 DEF IInv, OneRunner
    <3>2. {u \in Threads : pc'[u] = "callback"} = {}
      BY <2>1, <3>1 DEF IInv, TypeOK
    <3> QED
      BY <3>1, <3>2 DEF Running
  <2> QED
    BY <2>1, <2>2
<1>4. CASE MaybeSchedule(t) \/ Schedule(t) \/ Notify(t)
  <2>1. UNCHANGED <<client, callback>> /\ pc[t] \in {"maybe", "sched", "notify"} /\ pc[t] \in InClient
    BY <1>4 DEF MaybeSchedule, Schedule, Notify, InClient
  <2>2. ret[t] # "callback"
    BY <2>1, ReturnPlace
  <2>3. CASE MaybeSchedule(t) \/ Schedule(t)
    <3>1. \A u \in Threads : pc'[u] = "callback" <=> pc[u] = "callback"
      BY <2>1, <2>2, <2>3 DEF MaybeSchedule, Schedule, Goto, IInv, TypeOK
    <3> QED
      BY <2>1, <3>1, SameRunning
  <2>4. CASE Notify(t)
    <3>1. NotifyOne(t, ret[t]) /\ t \notin Sleepers /\ ret[t] \in Places
      BY <2>1, <2>4 DEF Notify, Sleepers, IInv, TypeOK
    <3>2. \A u \in Threads : pc'[u] = "callback" <=> pc[u] = "callback"
      BY <2>1, <2>2, <3>1, Notified DEF Sleepers
    <3> QED
      BY <2>1, <3>2, SameRunning, SMT
  <2> QED
    BY <1>4, <2>3, <2>4
<1> QED
  BY <1>1, <1>2, <1>3, <1>4 DEF ClientStep

(* A step that moves threads without regard to callbacks is a stutter.      *)
LEMMA OtherRefines ==
    ASSUME IInv,
           \/ \E t \in Services : ServiceQueue(t) \/ Timeout(t) \/ TakeTask(t) \/ Repeat(t) \/ WakeSpuriously(t)
           \/ \E t \in Activators \cup Clients : Interrupted(t) \/ Sync(t) \/ PromiseKept(t) \/ Activate(t) \/ Request(t)
           \/ StopScheduler \/ Join \/ EmptyQueue \/ EmptyQueueAgain \/ RequestShutdown \/ Tick
    PROVE  UNCHANGED <<pending, Running, added>>
<1>a. Services \subseteq Threads /\ Activators \cup Clients \subseteq Threads /\ Main \in Threads
  BY DEF Threads
<1>1. UNCHANGED <<client, callback>>
  BY DEF ServiceQueue, Timeout, TakeTask, Repeat, WakeSpuriously, Interrupted, Sync, PromiseKept,
         Activate, Request, StopScheduler, Join, EmptyQueue, EmptyQueueAgain, RequestShutdown, Tick
<1>2. \A u \in Threads : pc'[u] = "callback" <=> pc[u] = "callback"
  <2>1. CASE \E t \in Services : ServiceQueue(t)
    <3>1. PICK t \in Services : ServiceQueue(t)
      BY <2>1
    <3>2. t \notin Sleepers /\ "exited" \in Places /\ pc[t] \in {"start", "loop"}
      BY <3>1 DEF ServiceQueue, Sleepers, Places
    <3>3. CASE NotifyOne(t, "exited")
      BY <1>a, <3>2, <3>3, Notified, SMT DEF Sleepers
    <3>4. CASE \E p \in {"wait", "later", "due"} : Goto(t, p)
      BY <1>a, <3>2, <3>4 DEF Goto, IInv, TypeOK
    <3> QED
      BY <3>1, <3>3, <3>4 DEF ServiceQueue
  <2>2. CASE \E t \in Services : Timeout(t) \/ TakeTask(t) \/ Repeat(t) \/ WakeSpuriously(t)
    <3>1. PICK t \in Services : Timeout(t) \/ TakeTask(t) \/ Repeat(t) \/ WakeSpuriously(t)
      BY <2>2
    <3>2. \E p \in {"timedout", "loop", "process", "periodic", "notify"} : Goto(t, p)
      BY <3>1 DEF Timeout, TakeTask, Repeat, WakeSpuriously
    <3>3. t \in Threads /\ pc[t] # "callback" /\ pc \in [Threads -> Places]
      BY <1>a, <3>1 DEF Timeout, TakeTask, Repeat, WakeSpuriously, IInv, TypeOK
    <3> QED
      BY <3>2, <3>3 DEF Goto
  <2>3. CASE \E t \in Activators \cup Clients : Interrupted(t) \/ Sync(t) \/ PromiseKept(t) \/ Activate(t) \/ Request(t)
    <3>1. PICK t \in Activators \cup Clients : Interrupted(t) \/ Sync(t) \/ PromiseKept(t) \/ Activate(t) \/ Request(t)
      BY <2>3
    <3>2. \E p \in {"gone", "connect", "enqueue", "waiting", "synced", "idle", "sync"} : Goto(t, p)
      BY <3>1 DEF Interrupted, Sync, PromiseKept, Activate, Request
    <3>3. t \in Threads /\ pc[t] # "callback" /\ pc \in [Threads -> Places]
      BY <1>a, <3>1 DEF Interrupted, Sync, PromiseKept, Activate, Request, Resting, IInv, TypeOK
    <3> QED
      BY <3>2, <3>3 DEF Goto
  <2>4. CASE StopScheduler
    BY <1>a, <2>4 DEF StopScheduler, Sleepers
  <2>5. CASE Join \/ EmptyQueue \/ EmptyQueueAgain \/ RequestShutdown
    BY <1>a, <2>5 DEF Join, EmptyQueue, EmptyQueueAgain, RequestShutdown, Goto, IInv, TypeOK
  <2>6. CASE Tick
    BY <2>6 DEF Tick
  <2> QED
    BY <2>1, <2>2, <2>3, <2>4, <2>5, <2>6
<1> QED
  BY <1>1, <1>2, SameRunning

(* The scheduler, the client and their users implement CallbackOrder:       *)
(* callbacks run one at a time and in the order in which they were added,   *)
(* for any number of threads that service the queue.                        *)
THEOREM InOrderOneAtATimeHolds ==
    Spec => InOrderOneAtATime
<1>1. Init => Order!Init
  <2> SUFFICES ASSUME Init PROVE Order!Init
    BY SMT
  <2>1. \A t \in Threads : pc[t] # "callback"
    BY DEF Init
  <2>2. {u \in Threads : pc[u] = "callback"} = {}
    BY <2>1
  <2>3. Running = {}
    BY <2>2 DEF Running
  <2> QED
    BY <2>3 DEF Init, Order!Init, Running
<1>2. IInv /\ [Next]_vars => [Order!Next]_(Order!vars)
  <2> SUFFICES ASSUME IInv, [Next]_vars
               PROVE  Order!Add \/ Order!Start \/ Order!Finish \/ UNCHANGED <<pending, Running, added>>
    BY DEF Order!Next, Order!vars, Running
  <2>a. Services \subseteq Threads /\ Activators \cup Clients \subseteq Threads /\ Main \in Threads
    BY SMT DEF Threads
  <2>1. CASE \E t \in Threads : ClientStep(t)
    BY <2>1, ClientStepRefines
  <2>2. CASE \E t \in Activators \cup Clients : Connect(t) \/ Enqueue(t)
    <3>1. PICK t \in Activators \cup Clients : Connect(t) \/ Enqueue(t)
      BY <2>2
    <3>2. t \in Threads /\ pc[t] \notin {"callback", "unflag"}
      BY <2>a, <3>1 DEF Connect, Enqueue
    <3>3. \E p \in {"idle", "waiting"} : AddToProcessQueue(t, p)
      BY <3>1 DEF Connect, Enqueue
    <3> QED
      BY <3>2, <3>3, AddRefines
  <2>3. CASE FlushState \/ LastFlush
    <3>1. Main \in Threads /\ pc[Main] \notin {"callback", "unflag"}
      BY <2>a, <2>3 DEF FlushState, LastFlush
    <3>2. CASE \E p \in {"empty", "down"} : AddToProcessQueue(Main, p)
      BY <3>1, <3>2, AddRefines
    <3>3. CASE \E p \in {"empty", "down"} : Goto(Main, p) /\ UNCHANGED <<client, callback>>
      <4>1. \A u \in Threads : pc'[u] = "callback" <=> pc[u] = "callback"
        BY <3>1, <3>3 DEF Goto, IInv, TypeOK
      <4> QED
        BY <3>3, <4>1, SameRunning
    <3> QED
      BY <2>3, <3>2, <3>3 DEF FlushState, LastFlush, SetBestChain
  <2>4. CASE \/ \E t \in Services : ServiceQueue(t) \/ Timeout(t) \/ TakeTask(t) \/ Repeat(t) \/ WakeSpuriously(t)
             \/ \E t \in Activators \cup Clients : Interrupted(t) \/ Sync(t) \/ PromiseKept(t) \/ Activate(t) \/ Request(t)
             \/ StopScheduler \/ Join \/ EmptyQueue \/ EmptyQueueAgain \/ RequestShutdown \/ Tick
    BY <2>4, OtherRefines
  <2>5. CASE UNCHANGED vars
    BY <2>5, SameRunning DEF vars
  <2> QED
    BY <2>a, <2>1, <2>2, <2>3, <2>4, <2>5 DEF Next, ServiceStep, CallerStep, MainStep
<1> QED
  BY <1>1, <1>2, InvHolds, PTL DEF Spec, InOrderOneAtATime, Order!Spec
=============================================================================
