-------------------------- MODULE CheckQueueProofs --------------------------
(***************************************************************************)
(* That the check queue answers for every check of the block and is idle    *)
(* between blocks, for any number of workers, checks and batch size.        *)
(***************************************************************************)
EXTENDS CheckQueue, FiniteSetTheorems, TLAPS

\* A leaf is proved by Zenon unless it cites another prover.
USE Zenon

-----------------------------------------------------------------------------
(* Counting the checks of the batches.                                      *)

Hand(B, f) == UNION {{t} \X (1..f[t]) : t \in B}

\* The checks in the hands of finitely many threads are finitely many.
LEMMA HandFinite ==
    ASSUME NEW B, IsFiniteSet(B), NEW f, \A t \in B : f[t] \in Nat
    PROVE  IsFiniteSet(Hand(B, f))
<1> DEFINE g == [t \in B |-> {t} \X (1..f[t])]
           R == {{t} \X (1..f[t]) : t \in B}
<1>1. g \in Surjection(B, R)
  BY DEF Surjection
<1>2. IsFiniteSet(R)
  BY <1>1, FS_Surjection DEF ExistsSurjection
<1>3. ASSUME NEW T \in R PROVE IsFiniteSet(T)
  <2>1. PICK t \in B : T = {t} \X (1..f[t])
    OBVIOUS
  <2>2. f[t] \in Int
    BY SMT
  <2>3. IsFiniteSet({t})
    BY FS_Singleton
  <2>4. IsFiniteSet(1..f[t])
    BY <2>2, FS_Interval, SMT
  <2> QED
    BY <2>1, <2>3, <2>4, FS_Product
<1> HIDE DEF R
<1>4. IsFiniteSet(UNION R)
  BY <1>2, <1>3, FS_UNION
<1> QED
  BY <1>4 DEF R, Hand

\* Only the batches of the threads in question matter.
LEMMA HandSame ==
    ASSUME NEW B, NEW f, NEW g, \A u \in B : g[u] = f[u]
    PROVE  Hand(B, g) = Hand(B, f)
BY DEF Hand

\* The numbers up to n are n numbers.
LEMMA Numbers ==
    ASSUME NEW n \in Nat
    PROVE  IsFiniteSet(1..n) /\ Cardinality(1..n) = n
<1>0. 1 \in Int /\ n \in Int
  BY SMT
<1>1. IsFiniteSet(1..n) /\ Cardinality(1..n) = (IF 1 > n THEN 0 ELSE n - 1 + 1)
  BY <1>0, FS_Interval, Zenon
<1>2. (IF 1 > n THEN 0 ELSE n - 1 + 1) = n
  BY SMT
<1> QED
  BY <1>1, <1>2, SMT

\* A thread that takes a batch of n checks adds n to the count.
LEMMA HandAdd ==
    ASSUME NEW B, IsFiniteSet(B), NEW t, t \notin B,
           NEW f, \A u \in B \cup {t} : f[u] \in Nat
    PROVE  Cardinality(Hand(B \cup {t}, f)) = Cardinality(Hand(B, f)) + f[t]
<1> DEFINE N == {t} \X (1..f[t])
           H == Hand(B, f)
<1>1. IsFiniteSet(N) /\ Cardinality(N) = f[t]
  <2>1. f[t] \in Nat
    OBVIOUS
  <2>2. IsFiniteSet(1..f[t]) /\ Cardinality(1..f[t]) = f[t]
    BY <2>1, Numbers
  <2>3. IsFiniteSet({t}) /\ Cardinality({t}) = 1
    BY FS_Singleton, Zenon
  <2>4. Cardinality(N) = Cardinality({t}) * Cardinality(1..f[t])
    BY <2>2, <2>3, FS_Product
  <2>5. IsFiniteSet(N)
    BY <2>2, <2>3, FS_Product
  <2> QED
    BY <2>1, <2>2, <2>3, <2>4, <2>5, SMT
<1>2. IsFiniteSet(H)
  BY HandFinite
<1>3. H \cap N = {}
  <2>1. ASSUME NEW x \in H, x \in N PROVE FALSE
    <3>1. PICK u \in B : x \in {u} \X (1..f[u])
      BY <2>1 DEF Hand
    <3>2. x[1] = u /\ x[1] = t
      BY <3>1, <2>1
    <3> QED
      BY <3>2
  <2> QED
    BY <2>1
<1>4. Hand(B \cup {t}, f) = H \cup N
  <2>1. ASSUME NEW x \in Hand(B \cup {t}, f) PROVE x \in H \cup N
    <3>1. PICK u \in B \cup {t} : x \in {u} \X (1..f[u])
      BY <2>1 DEF Hand
    <3>2. CASE u = t
      BY <3>1, <3>2
    <3>3. CASE u \in B
      BY <3>1, <3>3 DEF Hand
    <3> QED
      BY <3>2, <3>3
  <2>2. ASSUME NEW x \in H PROVE x \in Hand(B \cup {t}, f)
    <3>1. PICK u \in B : x \in {u} \X (1..f[u])
      BY <2>2 DEF Hand
    <3>2. x \in {u} \X (1..f[u])
      BY <3>1
    <3> QED
      BY <3>2 DEF Hand
  <2>3. ASSUME NEW x \in N PROVE x \in Hand(B \cup {t}, f)
    BY <2>3 DEF Hand
  <2> QED
    BY <2>1, <2>2, <2>3
<1> HIDE DEF H, N
<1>5. Cardinality(H \cup N) = Cardinality(H) + Cardinality(N) - Cardinality(H \cap N)
  BY <1>1, <1>2, FS_Union
<1>6. Cardinality(H) \in Nat
  BY <1>2, FS_CardinalityType
<1>7. Cardinality(H \cap N) = 0
  BY <1>3, FS_EmptySet
<1>8. Cardinality(H \cup N) = Cardinality(H) + f[t]
  BY <1>1, <1>5, <1>6, <1>7, SMT
<1> QED
  BY <1>4, <1>8 DEF H

\* A thread that has finished its batch takes it out of the count.
LEMMA HandRemove ==
    ASSUME NEW B, IsFiniteSet(B), NEW f, \A u \in B : f[u] \in Nat, NEW t
    PROVE  Cardinality(Hand(B \ {t}, f)) =
               Cardinality(Hand(B, f)) - (IF t \in B THEN f[t] ELSE 0)
<1> DEFINE C == B \ {t}
<1>1. IsFiniteSet(C)
  BY FS_RemoveElement
<1>2. Cardinality(Hand(B, f)) \in Nat /\ Cardinality(Hand(C, f)) \in Nat
  <2>1. IsFiniteSet(Hand(B, f))
    BY HandFinite
  <2>2. IsFiniteSet(Hand(C, f))
    BY <1>1, HandFinite
  <2> QED
    BY <2>1, <2>2, FS_CardinalityType
<1>3. CASE t \in B
  <2>1. B = C \cup {t}
    BY <1>3
  <2>2. f[t] \in Nat /\ t \notin C
    BY <1>3
  <2>3. \A u \in C \cup {t} : f[u] \in Nat
    BY <1>3
  <2> HIDE DEF C
  <2>4. Cardinality(Hand(C \cup {t}, f)) = Cardinality(Hand(C, f)) + f[t]
    BY <1>1, <2>2, <2>3, HandAdd
  <2>5. Cardinality(Hand(C, f)) = Cardinality(Hand(B, f)) - f[t]
    BY <1>2, <2>1, <2>2, <2>4, SMT
  <2> QED
    BY <1>3, <2>5 DEF C
<1>4. CASE t \notin B
  <2>1. C = B
    BY <1>4
  <2> QED
    BY <1>2, <1>4, <2>1, SMT
<1> QED
  BY <1>3, <1>4

\* Nothing in hand means that nobody is busy.
LEMMA HandEmpty ==
    ASSUME NEW B, IsFiniteSet(B), NEW f, \A u \in B : f[u] \in Nat /\ f[u] # 0,
           Cardinality(Hand(B, f)) = 0
    PROVE  B = {}
<1>1. IsFiniteSet(Hand(B, f))
  BY HandFinite
<1>2. Hand(B, f) = {}
  BY <1>1, FS_EmptySet
<1>3. ASSUME NEW t \in B PROVE <<t, 1>> \in Hand(B, f)
  <2>1. 1 \in 1..f[t]
    BY SMT
  <2> QED
    BY <2>1, SMT DEF Hand
<1> QED
  BY <1>2, <1>3
-----------------------------------------------------------------------------
(* The inductive invariant.                                                 *)

Waiting == {t \in Threads : pc[t] \in {"asleep", "woken"}}

\* A thread that is not waiting and is past its first iteration is busy; a
\* wait that was thrown out of stays in nIdle and in nTotal.
Counts ==
    /\ nTotal = nIdle + Cardinality(Busy)
    /\ Cardinality(Waiting) <= nIdle
    /\ nTodo = Len(queue) + Cardinality(Hand(Busy, nNow))

Batches ==
    \A t \in Threads : /\ t \in Busy => nNow[t] # 0
                       /\ pc[t] # "running" => vChecks[t] = {}

\* No failure has been seen or is still to be seen.
AllWell ==
    /\ fAllOk
    /\ \A i \in 1..Len(queue) : queue[i] \in good
    /\ \A t \in Busy : fOk[t] /\ vChecks[t] \subseteq good

Promise == pc[Master] # "out" => ((1..added \subseteq good) <=> AllWell)

Quiet == pc[Master] = "out" => queue = <<>> /\ nTodo = 0 /\ fAllOk

Roles == \A t \in Workers : pc[t] \notin {"out", "open"}

Live == Counts /\ Batches /\ Promise /\ Quiet /\ Roles

IInv ==
    /\ TypeOK
    /\ IF pc[Master] = "dead" THEN \A t \in Threads : pc[t] = "dead" ELSE Live
-----------------------------------------------------------------------------
\* The threads, and so the busy ones, are finitely many.
LEMMA ThreadsFinite ==
    IsFiniteSet(Threads)
BY CheckQueueAssumption, FS_AddElement DEF Threads

\* The busy threads, and with them the checks in hand, are finitely many.
LEMMA BusyFinite ==
    ASSUME TypeOK
    PROVE  /\ IsFiniteSet(Busy) /\ IsFiniteSet(Waiting)
           /\ Cardinality(Busy) \in Nat /\ Cardinality(Waiting) \in Nat
           /\ \A t \in Busy : nNow[t] \in Nat
           /\ IsFiniteSet(Hand(Busy, nNow))
           /\ Cardinality(Hand(Busy, nNow)) \in Nat
<1>1. Busy \in SUBSET Threads /\ Waiting \in SUBSET Threads
  BY DEF Busy, Waiting
<1>2. IsFiniteSet(Busy) /\ IsFiniteSet(Waiting)
  BY <1>1, ThreadsFinite, FS_Subset
<1>3. \A t \in Busy : nNow[t] \in Nat
  BY <1>1 DEF TypeOK
<1>4. IsFiniteSet(Hand(Busy, nNow))
  BY <1>2, <1>3, HandFinite
<1> QED
  BY <1>2, <1>3, <1>4, FS_CardinalityType

Others(t) == Busy \ {t}

\* What the first part of a critical section makes of the counts: the thread
\* is in the pool, neither busy nor waiting.
Cleaned(t) ==
    /\ TodoAfter(t) = Len(queue) + Cardinality(Hand(Others(t), nNow))
    /\ TotalAfter(t) = IdleAfter(t) + Cardinality(Others(t)) + 1
    /\ Cardinality(Waiting \ {t}) <= IdleAfter(t)
    /\ TodoAfter(t) \in Nat /\ TotalAfter(t) \in Nat /\ IdleAfter(t) \in Nat
    /\ IsFiniteSet(Others(t)) /\ Cardinality(Others(t)) \in Nat
    /\ IsFiniteSet(Waiting \ {t}) /\ Cardinality(Waiting \ {t}) \in Nat
    /\ Cardinality(Hand(Others(t), nNow)) \in Nat

\* What holds after the thread has put its results into nTodo and fAllOk.
LEMMA CleanUp ==
    ASSUME TypeOK, Live, NEW t \in Threads, AtMutex(t)
    PROVE  Cleaned(t)
<1> USE DEF Others
<1>1. /\ IsFiniteSet(Others(t))
      /\ Cardinality(Others(t)) = IF t \in Busy THEN Cardinality(Busy) - 1 ELSE Cardinality(Busy)
  BY BusyFinite, FS_RemoveElement
<1>2. /\ IsFiniteSet(Waiting \ {t})
      /\ Cardinality(Waiting \ {t}) = IF t \in Waiting THEN Cardinality(Waiting) - 1 ELSE Cardinality(Waiting)
  BY BusyFinite, FS_RemoveElement
<1>3. Cardinality(Hand(Others(t), nNow)) =
          Cardinality(Hand(Busy, nNow)) - (IF t \in Busy THEN nNow[t] ELSE 0)
  BY BusyFinite, HandRemove
<1>4. Cardinality(Others(t)) \in Nat /\ Cardinality(Waiting \ {t}) \in Nat
  BY <1>1, <1>2, FS_CardinalityType
<1>5. Cardinality(Hand(Others(t), nNow)) \in Nat
  <2>1. \A u \in Others(t) : nNow[u] \in Nat
    BY BusyFinite
  <2>2. IsFiniteSet(Hand(Others(t), nNow))
    BY <1>1, <2>1, HandFinite
  <2> QED
    BY <2>2, FS_CardinalityType
<1>6. /\ t \in Busy <=> pc[t] = "next"
      /\ t \in Waiting <=> pc[t] = "woken"
      /\ pc[t] \in {"first", "next", "woken"}
  BY DEF AtMutex, Busy, Waiting
<1>7. /\ nTotal = nIdle + Cardinality(Busy)
      /\ Cardinality(Waiting) <= nIdle
      /\ nTodo = Len(queue) + Cardinality(Hand(Busy, nNow))
      /\ nIdle \in Nat /\ nTodo \in Nat /\ nTotal \in Nat /\ nNow[t] \in Nat
      /\ Len(queue) \in Nat
  BY SMT DEF TypeOK, Live, Counts
<1> HIDE DEF Others
<1>8. Cardinality(Busy) \in Nat /\ Cardinality(Waiting) \in Nat
      /\ Cardinality(Hand(Busy, nNow)) \in Nat
  BY BusyFinite
<1>9. TodoAfter(t) = Len(queue) + Cardinality(Hand(Others(t), nNow))
  BY <1>3, <1>6, <1>7, <1>8, SMT DEF TodoAfter
<1>10. TotalAfter(t) = IdleAfter(t) + Cardinality(Others(t)) + 1
  BY <1>1, <1>6, <1>7, <1>8, SMT DEF TotalAfter, IdleAfter
<1>11. Cardinality(Waiting \ {t}) <= IdleAfter(t) /\ IdleAfter(t) \in Nat
  <2>1. CASE pc[t] = "woken"
    <3>1. IdleAfter(t) = nIdle - 1 /\ Cardinality(Waiting \ {t}) = Cardinality(Waiting) - 1
      BY <1>2, <1>6, <2>1 DEF IdleAfter
    <3> QED
      BY <1>4, <1>7, <1>8, <3>1, SMT
  <2>2. CASE pc[t] # "woken"
    <3>1. IdleAfter(t) = nIdle /\ Cardinality(Waiting \ {t}) = Cardinality(Waiting)
      BY <1>2, <1>6, <2>2 DEF IdleAfter
    <3> QED
      BY <1>4, <1>7, <1>8, <3>1
  <2> QED
    BY <2>1, <2>2
<1>12. TodoAfter(t) \in Nat /\ TotalAfter(t) \in Nat
  BY <1>4, <1>5, <1>7, <1>9, <1>10, <1>11, SMT
<1> QED
  BY <1>1, <1>2, <1>4, <1>5, <1>9, <1>10, <1>11, <1>12 DEF Cleaned

\* The result of the thread's batch is in AllOkAfter.
LEMMA CleanUpPromise ==
    ASSUME TypeOK, Live, NEW t \in Threads, AtMutex(t)
    PROVE  AllWell <=> /\ AllOkAfter(t)
                       /\ \A i \in 1..Len(queue) : queue[i] \in good
                       /\ \A u \in Others(t) : fOk[u] /\ vChecks[u] \subseteq good
<1>1. CASE pc[t] = "next"
  <2>1. Busy = Others(t) \cup {t} /\ vChecks[t] = {}
    BY <1>1 DEF Busy, Others, Live, Batches
  <2>2. AllOkAfter(t) <=> fAllOk /\ fOk[t]
    BY <1>1 DEF AllOkAfter
  <2> QED
    BY <2>1, <2>2 DEF AllWell
<1>2. CASE pc[t] # "next"
  <2>1. Busy = Others(t)
    BY <1>2 DEF Busy, Others, AtMutex
  <2>2. AllOkAfter(t) <=> fAllOk
    BY <1>2 DEF AllOkAfter
  <2> QED
    BY <2>1, <2>2 DEF AllWell
<1> QED
  BY <1>1, <1>2
-----------------------------------------------------------------------------
(* The ways out of a critical section of Loop.                              *)

\* Between two blocks nobody is busy.
LEMMA OutIdle ==
    ASSUME TypeOK, Live, pc[Master] = "out"
    PROVE  Busy = {}
<1>1. nTodo = 0 /\ Len(queue) = 0 /\ nTodo = Len(queue) + Cardinality(Hand(Busy, nNow))
  BY DEF Live, Quiet, Counts
<1>2. Cardinality(Hand(Busy, nNow)) = 0
  BY <1>1, BusyFinite, SMT
<1>3. \A u \in Busy : nNow[u] \in Nat /\ nNow[u] # 0
  BY BusyFinite DEF Live, Batches, Busy
<1> QED
  BY <1>2, <1>3, BusyFinite, HandEmpty

\* The thread t moves to p and the master may be woken.
LEMMA MovedTo ==
    ASSUME TypeOK, NEW t \in Threads, NEW p \in {"asleep", "running"}, Moved(t, p)
    PROVE  /\ pc' \in [Threads -> Places \cup {"out", "open", "dead"}]
           /\ pc'[t] = p
           /\ \A u \in Threads \ {t} :
                 \/ pc'[u] = pc[u]
                 \/ u = Master /\ pc[u] = "asleep" /\ pc'[u] = "woken"
<1>1. pc' = [u \in Threads |-> IF u = t THEN p
                             ELSE IF u = Master /\ MasterWoken(t) THEN "woken"
                             ELSE pc[u]]
  BY DEF Moved
<1>2. MasterWoken(t) => pc[Master] = "asleep"
  BY DEF MasterWoken
<1> QED
  BY <1>1, <1>2 DEF TypeOK, Places

\* A thread that finds no check and waits keeps the invariant.
LEMMA SleepInv ==
    ASSUME IInv, NEW t \in Threads, Sleep(t)
    PROVE  IInv'
<1> USE DEF Sleep
<1>1. TypeOK /\ Live /\ AtMutex(t) /\ pc[Master] # "dead" /\ Moved(t, "asleep")
  BY DEF IInv, AtMutex
<1>2. /\ pc' \in [Threads -> Places \cup {"out", "open", "dead"}]
      /\ pc'[t] = "asleep"
      /\ \A u \in Threads \ {t} :
            \/ pc'[u] = pc[u]
            \/ u = Master /\ pc[u] = "asleep" /\ pc'[u] = "woken"
  BY <1>1, MovedTo
<1>3. UNCHANGED <<queue, batches, control, shutdown>>
  OBVIOUS
<1>4. /\ nTodo' = TodoAfter(t) /\ fAllOk' = AllOkAfter(t)
      /\ nTotal' = TotalAfter(t) /\ nIdle' = IdleAfter(t) + 1
  OBVIOUS
<1>5. ~(t = Master /\ TodoAfter(t) = 0)
  OBVIOUS
<1> HIDE DEF Sleep
<1>c. Cleaned(t)
  BY <1>1, CleanUp
<1>6. Busy' = Others(t) /\ Waiting' = (Waiting \ {t}) \cup {t}
  BY <1>2 DEF Busy, Others, Waiting
<1>7. TypeOK'
  <2>1. nTodo' \in Nat /\ nTotal' \in Nat /\ nIdle' \in Nat
    BY <1>4, <1>c, SMT DEF Cleaned
  <2>2. fAllOk' \in BOOLEAN
    BY <1>1, <1>4 DEF TypeOK, AllOkAfter
  <2> QED
    BY <1>1, <1>2, <1>3, <2>1, <2>2 DEF TypeOK, batches, control, shutdown
<1>8. Counts'
  <2>1. nTotal' = nIdle' + Cardinality(Busy')
    BY <1>4, <1>6, <1>c, SMT DEF Cleaned
  <2>2. Cardinality(Waiting') = Cardinality(Waiting \ {t}) + 1
    <3>1. t \notin Waiting \ {t} /\ IsFiniteSet(Waiting \ {t})
      BY <1>c DEF Cleaned
    <3> QED
      BY <1>6, <3>1, FS_AddElement
  <2>3. Cardinality(Waiting') <= nIdle'
    BY <1>4, <1>c, <2>2, SMT DEF Cleaned
  <2>4. nTodo' = Len(queue') + Cardinality(Hand(Busy', nNow'))
    BY <1>3, <1>4, <1>6, <1>c DEF Cleaned, batches
  <2> QED
    BY <2>1, <2>3, <2>4 DEF Counts
<1>9. Batches'
  BY <1>1, <1>2, <1>3, <1>6 DEF Batches, Live, Others, batches, Busy, AtMutex
<1>10. AllWell' <=> AllWell
  BY <1>1, <1>3, <1>4, <1>6, CleanUpPromise DEF AllWell, batches, control
<1>11. Roles' /\ pc'[Master] # "dead" /\ (pc'[Master] = "out" <=> pc[Master] = "out")
  BY <1>1, <1>2 DEF Live, Roles, Threads, AtMutex
<1>12. Promise'
  BY <1>1, <1>3, <1>10, <1>11 DEF Promise, Live, control
<1>13. Quiet'
  <2>1. SUFFICES ASSUME pc[Master] = "out"
                 PROVE  queue' = <<>> /\ nTodo' = 0 /\ fAllOk'
    BY <1>11 DEF Quiet
  <2>2. pc[t] # "next"
    BY <1>1, <2>1, OutIdle DEF Busy
  <2> QED
    BY <1>1, <1>3, <1>4, <2>1, <2>2 DEF Live, Quiet, TodoAfter, AllOkAfter
<1> QED
  BY <1>7, <1>8, <1>9, <1>11, <1>12, <1>13 DEF IInv, Live

\* A batch has at least one check and no more than there are.
LEMMA ShareFits ==
    ASSUME NEW size \in Nat \ {0}, NEW total \in Nat, NEW idle \in Nat
    PROVE  Share(size, total, idle) \in 1..size
<1> DEFINE d == total + idle + 1
           part == size \div d
<1>1. d \in Nat /\ d >= 1
  BY SMT
<1>2. part \in Nat /\ part <= size
  BY <1>1, SMT
<1> QED
  BY <1>2, CheckQueueAssumption, SMT DEF Share

\* Taking a batch keeps the invariant.
LEMMA TakeInv ==
    ASSUME IInv, NEW t \in Threads, Take(t)
    PROVE  IInv'
<1> DEFINE n == Share(Len(queue), TotalAfter(t), IdleAfter(t))
           rest == Len(queue) - n
<1>1. TypeOK /\ Live /\ AtMutex(t) /\ pc[Master] # "dead" /\ Moved(t, "running")
  BY DEF IInv, AtMutex, Take
<1>2. /\ pc' \in [Threads -> Places \cup {"out", "open", "dead"}]
      /\ pc'[t] = "running"
      /\ \A u \in Threads \ {t} :
            \/ pc'[u] = pc[u]
            \/ u = Master /\ pc[u] = "asleep" /\ pc'[u] = "woken"
  BY <1>1, MovedTo
<1>3. UNCHANGED <<control, shutdown>>
  BY DEF Take
<1>4. /\ nTodo' = TodoAfter(t) /\ fAllOk' = AllOkAfter(t)
      /\ nTotal' = TotalAfter(t) /\ nIdle' = IdleAfter(t)
  BY DEF Take
<1>5. /\ nNow' = [nNow EXCEPT ![t] = n]
      /\ vChecks' = [vChecks EXCEPT ![t] = {queue[i] : i \in (rest + 1)..Len(queue)}]
      /\ queue' = SubSeq(queue, 1, rest)
      /\ fOk' = [fOk EXCEPT ![t] = AllOkAfter(t)]
  BY DEF Take
<1>c. Cleaned(t)
  BY <1>1, CleanUp
<1>6. n \in 1..Len(queue) /\ Len(queue) \in Nat
  <2>1. Len(queue) \in Nat \ {0}
    BY <1>1, SMT DEF Take, TypeOK
  <2> QED
    BY <2>1, <1>c, ShareFits DEF Cleaned
<1> HIDE DEF n
<1>7. rest \in Nat /\ rest <= Len(queue) /\ rest + n = Len(queue)
  BY <1>6, SMT
<1>8. /\ queue' \in Seq(Checks) /\ Len(queue') = rest
      /\ \A i \in 1..rest : queue'[i] = queue[i]
  <2>1. queue \in Seq(Checks)
    BY <1>1 DEF TypeOK
  <2> QED
    BY <1>5, <1>7, <2>1, SMT
<1> HIDE DEF rest
<1>9. Busy' = Others(t) \cup {t} /\ Waiting' = Waiting \ {t}
  BY <1>2 DEF Busy, Others, Waiting
<1>10. TypeOK'
  <2>1. nTodo' \in Nat /\ nTotal' \in Nat /\ nIdle' \in Nat
    BY <1>4, <1>c DEF Cleaned
  <2>2. AllOkAfter(t) \in BOOLEAN
    BY <1>1 DEF TypeOK, AllOkAfter
  <2>3. nNow' \in [Threads -> Nat] /\ fOk' \in [Threads -> BOOLEAN]
    <3>1. n \in Nat
      BY <1>6, SMT
    <3>2. nNow \in [Threads -> Nat] /\ fOk \in [Threads -> BOOLEAN]
      BY <1>1 DEF TypeOK
    <3> QED
      BY <1>5, <2>2, <3>1, <3>2
  <2>4. vChecks' \in [Threads -> SUBSET Checks]
    <3>1. {queue[i] : i \in (rest + 1)..Len(queue)} \subseteq Checks
      BY <1>1, <1>7, SMT DEF TypeOK
    <3> QED
      BY <1>1, <1>5, <3>1 DEF TypeOK
  <2> QED
    BY <1>1, <1>2, <1>3, <1>4, <1>8, <2>1, <2>2, <2>3, <2>4 DEF TypeOK, control, shutdown
<1>11. Counts'
  <2>1. t \notin Others(t) /\ IsFiniteSet(Others(t))
    BY <1>c DEF Cleaned, Others
  <2>2. Cardinality(Busy') = Cardinality(Others(t)) + 1
    BY <1>9, <2>1, FS_AddElement
  <2>3. nTotal' = nIdle' + Cardinality(Busy')
    BY <1>4, <1>c, <2>2, SMT DEF Cleaned
  <2>4. Cardinality(Waiting') <= nIdle'
    BY <1>4, <1>9, <1>c DEF Cleaned
  <2>5. \A u \in Others(t) \cup {t} : nNow'[u] \in Nat
    BY <1>10 DEF TypeOK, Others, Busy
  <2>6. \A u \in Others(t) : nNow'[u] = nNow[u]
    BY <1>1, <1>5 DEF TypeOK, Others, Busy
  <2>7. nNow'[t] = n
    BY <1>1, <1>5 DEF TypeOK
  <2>8. Hand(Others(t), nNow') = Hand(Others(t), nNow)
    BY <2>6, HandSame
  <2>9. Cardinality(Hand(Others(t) \cup {t}, nNow')) = Cardinality(Hand(Others(t), nNow')) + nNow'[t]
    BY <2>1, <2>5, HandAdd
  <2>10. Cardinality(Hand(Busy', nNow')) = Cardinality(Hand(Others(t), nNow)) + n
    BY <1>9, <2>7, <2>8, <2>9
  <2>11. nTodo' = Len(queue') + Cardinality(Hand(Busy', nNow'))
    <3>1. /\ nTodo' = Len(queue) + Cardinality(Hand(Others(t), nNow))
          /\ Cardinality(Hand(Others(t), nNow)) \in Nat
      BY <1>4, <1>c DEF Cleaned
    <3>2. n \in Nat
      BY <1>6, SMT
    <3> QED
      BY <1>7, <1>8, <2>10, <3>1, <3>2, SMT
  <2> QED
    BY <2>3, <2>4, <2>11, SMT DEF Counts
<1>12. Batches'
  <2>1. nNow'[t] # 0 /\ pc'[t] = "running"
    <3>1. nNow'[t] = n
      BY <1>1, <1>5, SMT DEF TypeOK
    <3>2. n # 0
      BY <1>6, SMT
    <3> QED
      BY <1>2, <3>1, <3>2
  <2>2. ASSUME NEW u \in Threads \ {t}
        PROVE  (u \in Busy' => nNow'[u] # 0) /\ (pc'[u] # "running" => vChecks'[u] = {})
    <3>1. nNow'[u] = nNow[u] /\ vChecks'[u] = vChecks[u]
      BY <1>1, <1>5 DEF TypeOK
    <3>2. (u \in Busy' => u \in Busy) /\ (pc'[u] # "running" => pc[u] # "running")
      BY <1>2 DEF Busy
    <3> QED
      BY <1>1, <3>1, <3>2 DEF Live, Batches
  <2> QED
    BY <2>1, <2>2 DEF Batches
<1>13. AllWell' <=> AllWell
  <2>1. /\ fOk'[t] = AllOkAfter(t)
        /\ vChecks'[t] = {queue[i] : i \in (rest + 1)..Len(queue)}
        /\ \A u \in Others(t) : fOk'[u] = fOk[u] /\ vChecks'[u] = vChecks[u]
    BY <1>1, <1>5 DEF TypeOK, Others, Busy
  <2>2. (\A i \in 1..Len(queue) : queue[i] \in good) <=>
            (\A i \in 1..Len(queue') : queue'[i] \in good) /\ vChecks'[t] \subseteq good
    BY <1>6, <1>7, <1>8, <2>1, SMT
  <2>3. good' = good
    BY <1>3 DEF control
  <2>4. AllWell' <=> /\ AllOkAfter(t)
                     /\ \A i \in 1..Len(queue') : queue'[i] \in good
                     /\ \A u \in Others(t) \cup {t} : fOk'[u] /\ vChecks'[u] \subseteq good
    BY <1>4, <1>9, <2>3 DEF AllWell
  <2>5. AllWell <=> /\ AllOkAfter(t)
                    /\ \A i \in 1..Len(queue) : queue[i] \in good
                    /\ \A u \in Others(t) : fOk[u] /\ vChecks[u] \subseteq good
    BY <1>1, CleanUpPromise
  <2> QED
    BY <2>1, <2>2, <2>4, <2>5
<1>14. Roles' /\ pc'[Master] # "dead" /\ pc'[Master] # "out" /\ pc[Master] # "out"
  <2>1. pc[Master] # "out"
    BY <1>1 DEF Take, Live, Quiet
  <2> QED
    BY <1>1, <1>2, <2>1 DEF Live, Roles, Threads
<1> QED
  BY <1>1, <1>3, <1>10, <1>11, <1>12, <1>13, <1>14 DEF IInv, Live, Promise, Quiet, control

\* Running a batch keeps the invariant.
LEMMA RunInv ==
    ASSUME IInv, NEW t \in Threads, Run(t)
    PROVE  IInv'
<1>1. TypeOK /\ Live /\ pc[t] = "running" /\ pc[Master] # "dead"
  BY DEF IInv, Run
<1>2. /\ pc' = [pc EXCEPT ![t] = "next"]
      /\ fOk' = [fOk EXCEPT ![t] = @ /\ vChecks[t] \subseteq good]
      /\ vChecks' = [vChecks EXCEPT ![t] = {}]
      /\ UNCHANGED <<queue, counters, nNow, control, shutdown>>
  BY DEF Run
<1>3. Busy' = Busy /\ Waiting' = Waiting /\ t \in Busy
  BY <1>1, <1>2 DEF TypeOK, Busy, Waiting
<1>4. TypeOK'
  <2>1. pc' \in [Threads -> Places \cup {"out", "open", "dead"}]
    BY <1>1, <1>2 DEF TypeOK, Places
  <2>2. fOk' \in [Threads -> BOOLEAN] /\ vChecks' \in [Threads -> SUBSET Checks]
    BY <1>1, <1>2 DEF TypeOK
  <2> QED
    BY <1>1, <1>2, <2>1, <2>2 DEF TypeOK, counters, control, shutdown
<1>5. Counts'
  BY <1>1, <1>2, <1>3 DEF Live, Counts, counters
<1>6. Batches'
  BY <1>1, <1>2, <1>3 DEF Live, Batches, TypeOK
<1>7. AllWell' <=> AllWell
  <2>1. /\ fOk'[t] <=> (fOk[t] /\ vChecks[t] \subseteq good)
        /\ vChecks'[t] = {}
        /\ \A u \in Busy \ {t} : fOk'[u] = fOk[u] /\ vChecks'[u] = vChecks[u]
    BY <1>1, <1>2 DEF TypeOK, Busy
  <2>2. fAllOk' = fAllOk /\ queue' = queue /\ good' = good
    BY <1>2 DEF counters, control
  <2> QED
    BY <1>3, <2>1, <2>2 DEF AllWell
<1>8. Roles' /\ pc'[Master] # "dead" /\ pc'[Master] # "out" /\ pc[Master] # "out"
  <2>1. pc[Master] # "out"
    BY <1>1, <1>3, OutIdle
  <2> QED
    BY <1>1, <1>2, <2>1 DEF Live, Roles, TypeOK, Threads
<1> QED
  BY <1>1, <1>2, <1>4, <1>5, <1>6, <1>7, <1>8 DEF IInv, Live, Promise, Quiet, control

\* What the master knows when it leaves Loop.
LEMMA LastOut ==
    ASSUME TypeOK, Live, Return
    PROVE  /\ Busy \subseteq {Master}
           /\ AllOkAfter(Master) <=> 1..added \subseteq good
<1>1. /\ AtMutex(Master) /\ queue = <<>> /\ TodoAfter(Master) = 0
      /\ Master \in Threads
  BY DEF Return, Threads
<1>2. Cleaned(Master)
  BY <1>1, CleanUp
<1>3. Cardinality(Hand(Others(Master), nNow)) = 0 /\ IsFiniteSet(Others(Master))
  BY <1>1, <1>2, SMT DEF Cleaned
<1>4. \A u \in Others(Master) : nNow[u] \in Nat /\ nNow[u] # 0
  BY DEF TypeOK, Live, Batches, Others, Busy
<1>5. Others(Master) = {}
  BY <1>3, <1>4, HandEmpty
<1>6. AllWell <=> AllOkAfter(Master)
  <2>1. AllWell <=> /\ AllOkAfter(Master)
                    /\ \A i \in 1..Len(queue) : queue[i] \in good
                    /\ \A u \in Others(Master) : fOk[u] /\ vChecks[u] \subseteq good
    BY <1>1, CleanUpPromise
  <2>2. 1..Len(queue) = {}
    BY <1>1, SMT
  <2> QED
    BY <1>5, <2>1, <2>2
<1>7. pc[Master] # "out"
  BY <1>1 DEF AtMutex
<1> QED
  BY <1>5, <1>6, <1>7 DEF Others, Live, Promise

\* The master leaving Loop with the answer keeps the invariant.
LEMMA ReturnInv ==
    ASSUME IInv, Return
    PROVE  IInv'
<1>1. /\ TypeOK /\ Live /\ AtMutex(Master) /\ pc[Master] # "dead"
      /\ Master \in Threads
  BY DEF IInv, Return, AtMutex, Threads
<1>2. /\ pc' = [pc EXCEPT ![Master] = "out"]
      /\ nNow' = [nNow EXCEPT ![Master] = 0]
      /\ fOk' = [fOk EXCEPT ![Master] = TRUE]
      /\ queue = <<>> /\ queue' = queue
      /\ UNCHANGED <<vChecks, good, added, fWait, shutdown>>
  BY DEF Return
<1>3. /\ TodoAfter(Master) = 0 /\ nTodo' = 0 /\ nTotal' = TotalAfter(Master) - 1
      /\ nIdle' = IdleAfter(Master) /\ fAllOk' = TRUE
      /\ verdict' \in {"none", "valid", "invalid"}
  BY <1>1 DEF Return, TypeOK
<1>4. Cleaned(Master)
  BY <1>1, CleanUp
<1>5. Busy \subseteq {Master}
  BY <1>1, LastOut
<1>6. Busy' = {} /\ Waiting' = Waiting \ {Master} /\ Others(Master) = {}
  BY <1>1, <1>2, <1>5 DEF TypeOK, Busy, Waiting, Others
<1>7. Cardinality(Busy') = 0 /\ Cardinality(Others(Master)) = 0
  BY <1>6, FS_EmptySet
<1>8. TypeOK'
  <2>1. nTodo' \in Nat /\ nTotal' \in Nat /\ nIdle' \in Nat
    BY <1>3, <1>4, <1>7, SMT DEF Cleaned
  <2>2. pc' \in [Threads -> Places \cup {"out", "open", "dead"}]
    BY <1>1, <1>2 DEF TypeOK, Places
  <2>3. nNow' \in [Threads -> Nat] /\ fOk' \in [Threads -> BOOLEAN]
    BY <1>1, <1>2 DEF TypeOK
  <2> QED
    BY <1>1, <1>2, <1>3, <2>1, <2>2, <2>3 DEF TypeOK, shutdown
<1>9. Counts'
  <2>1. nTotal' = nIdle' + Cardinality(Busy')
    BY <1>3, <1>4, <1>7, SMT DEF Cleaned
  <2>2. Cardinality(Waiting') <= nIdle'
    BY <1>3, <1>4, <1>6 DEF Cleaned
  <2>3. Cardinality(Hand(Busy', nNow')) = 0
    BY <1>6, FS_EmptySet DEF Hand
  <2>4. Len(queue') = 0
    BY <1>2
  <2> QED
    BY <1>3, <2>1, <2>2, <2>3, <2>4, SMT DEF Counts
<1>10. Batches'
  BY <1>1, <1>2, <1>6 DEF Live, Batches, TypeOK, AtMutex
<1>11. Roles' /\ pc'[Master] = "out"
  BY <1>1, <1>2, CheckQueueAssumption DEF Live, Roles, TypeOK, Threads
<1> QED
  BY <1>2, <1>3, <1>8, <1>9, <1>10, <1>11 DEF IInv, Live, Promise, Quiet
-----------------------------------------------------------------------------
(* ConnectBlock and the condition variables.                                *)

\* A new control object keeps the invariant.
LEMMA OpenInv ==
    ASSUME IInv, Open
    PROVE  IInv'
<1>1. TypeOK /\ Live /\ pc[Master] = "out" /\ Master \in Threads
  BY DEF IInv, Open, Threads
<1>2. /\ pc' = [pc EXCEPT ![Master] = "open"]
      /\ good' \subseteq Checks /\ added' = 0 /\ verdict' = "none"
      /\ UNCHANGED <<queue, counters, batches, fWait, shutdown>>
  BY CheckQueueAssumption DEF Open, Checks
<1>3. Busy = {}
  BY <1>1, OutIdle
<1>4. Busy' = Busy /\ Waiting' = Waiting
  BY <1>1, <1>2 DEF TypeOK, Busy, Waiting
<1>5. TypeOK'
  <2>1. pc' \in [Threads -> Places \cup {"out", "open", "dead"}]
    BY <1>1, <1>2 DEF TypeOK, Places
  <2>2. 0 \in 0..NumChecks
    BY CheckQueueAssumption, SMT
  <2> QED
    BY <1>1, <1>2, <2>1, <2>2 DEF TypeOK, counters, batches, shutdown
<1>6. Counts' /\ Batches'
  BY <1>1, <1>2, <1>4 DEF Live, Counts, Batches, counters, batches, TypeOK
<1>7. AllWell' /\ 1..added' \subseteq good'
  <2>1. AllWell'
    BY <1>1, <1>2, <1>3, <1>4, SMT DEF Live, Quiet, AllWell, counters
  <2>2. 1..0 = {}
    BY SMT
  <2> QED
    BY <1>2, <2>1, <2>2
<1>8. Roles' /\ pc'[Master] = "open"
  BY <1>1, <1>2, CheckQueueAssumption DEF Live, Roles, TypeOK, Threads
<1> QED
  BY <1>5, <1>6, <1>7, <1>8 DEF IInv, Live, Promise, Quiet

\* A notification only wakes threads that are asleep.
LEMMA Notified ==
    ASSUME TypeOK, NEW k, Notify(k)
    PROVE  /\ pc' \in [Threads -> Places \cup {"out", "open", "dead"}]
           /\ \A u \in Threads :
                 \/ pc'[u] = pc[u]
                 \/ u \in Workers /\ pc[u] = "asleep" /\ pc'[u] = "woken"
<1>1. pc \in [Threads -> Places \cup {"out", "open", "dead"}]
  BY DEF TypeOK
<1>2. CASE pc' = pc
  BY <1>1, <1>2
<1>3. CASE \E t \in Asleep : pc' = [pc EXCEPT ![t] = "woken"]
  <2>1. PICK t \in Asleep : pc' = [pc EXCEPT ![t] = "woken"]
    BY <1>3
  <2> QED
    BY <1>1, <2>1 DEF Asleep, Places, Threads
<1>4. CASE pc' = [t \in Threads |-> IF t \in Asleep THEN "woken" ELSE pc[t]]
  BY <1>1, <1>4 DEF Asleep, Places, Threads
<1> QED
  BY <1>2, <1>3, <1>4 DEF Notify

\* Adding checks and notifying the workers keeps the invariant.
LEMMA AddInv ==
    ASSUME IInv, NEW k \in 0..(NumChecks - added), Add(k)
    PROVE  IInv'
<1>1. /\ TypeOK /\ Live /\ pc[Master] = "open" /\ Master \in Threads
      /\ k \in Nat /\ added \in Nat /\ added + k <= NumChecks /\ NumChecks \in Nat
  <2>1. TypeOK /\ Live /\ pc[Master] = "open" /\ Master \in Threads
    BY DEF IInv, Add, Threads
  <2>2. added \in 0..NumChecks /\ NumChecks \in Nat
    BY <2>1, CheckQueueAssumption DEF TypeOK
  <2> QED
    BY <2>1, <2>2, SMT
<1> DEFINE s == [i \in 1..k |-> added + i]
<1>2. /\ queue' = queue \o s
      /\ nTodo' = nTodo + k /\ added' = added + k
      /\ UNCHANGED <<nIdle, nTotal, fAllOk, batches, good, fWait, verdict, shutdown>>
  BY DEF Add
<1>3. /\ pc' \in [Threads -> Places \cup {"out", "open", "dead"}]
      /\ \A u \in Threads :
            \/ pc'[u] = pc[u]
            \/ u \in Workers /\ pc[u] = "asleep" /\ pc'[u] = "woken"
  BY <1>1, Notified DEF Add
<1>4. Busy' = Busy /\ Waiting' = Waiting
  BY <1>3 DEF Busy, Waiting
<1>5. s \in Seq(Checks) /\ Len(s) = k
  BY <1>1, SMT DEF Checks
<1>6. queue \in Seq(Checks)
  BY <1>1 DEF TypeOK
<1>7. /\ queue' \in Seq(Checks) /\ Len(queue') = Len(queue) + k
      /\ \A i \in 1..Len(queue) : queue'[i] = queue[i]
      /\ \A i \in 1..k : queue'[Len(queue) + i] = added + i
  BY <1>1, <1>2, <1>5, <1>6, SMT
<1> HIDE DEF s
<1>8. TypeOK'
  <2>1. nTodo' \in Nat /\ added' \in 0..NumChecks
    BY <1>1, <1>2, SMT DEF TypeOK
  <2> QED
    BY <1>1, <1>2, <1>3, <1>7, <2>1 DEF TypeOK, batches, shutdown
<1>9. Counts'
  <2>1. Cardinality(Hand(Busy, nNow)) \in Nat /\ Len(queue) \in Nat
    BY <1>1, <1>6, BusyFinite, SMT
  <2>2. nTodo = Len(queue) + Cardinality(Hand(Busy, nNow))
    BY <1>1 DEF Live, Counts
  <2>3. nTodo' = Len(queue') + Cardinality(Hand(Busy', nNow'))
    BY <1>1, <1>2, <1>4, <1>7, <2>1, <2>2, SMT DEF batches
  <2> QED
    BY <1>1, <1>2, <1>4, <2>3 DEF Live, Counts
<1>10. Batches'
  BY <1>1, <1>2, <1>3, <1>4 DEF Live, Batches, batches
<1>11. AllWell' <=> AllWell /\ \A i \in 1..k : added + i \in good
  <2>1. (\A i \in 1..Len(queue') : queue'[i] \in good) <=>
            /\ \A i \in 1..Len(queue) : queue[i] \in good
            /\ \A i \in 1..k : added + i \in good
    <3>1. Len(queue) \in Nat
      BY <1>6, SMT
    <3>2. ASSUME \A i \in 1..Len(queue') : queue'[i] \in good
          PROVE  /\ \A i \in 1..Len(queue) : queue[i] \in good
                 /\ \A i \in 1..k : added + i \in good
      <4>1. ASSUME NEW i \in 1..Len(queue) PROVE queue[i] \in good
        <5>1. i \in 1..Len(queue')
          BY <1>1, <1>7, <3>1, SMT
        <5> QED
          BY <1>7, <3>2, <5>1
      <4>2. ASSUME NEW i \in 1..k PROVE added + i \in good
        <5>1. Len(queue) + i \in 1..Len(queue')
          BY <1>1, <1>7, <3>1, SMT
        <5> QED
          BY <1>7, <3>2, <5>1
      <4> QED
        BY <4>1, <4>2
    <3>3. ASSUME /\ \A i \in 1..Len(queue) : queue[i] \in good
                 /\ \A i \in 1..k : added + i \in good
          PROVE  \A i \in 1..Len(queue') : queue'[i] \in good
      <4>1. SUFFICES ASSUME NEW i \in 1..Len(queue') PROVE queue'[i] \in good
        OBVIOUS
      <4>2. CASE i <= Len(queue)
        BY <1>7, <3>1, <3>3, <4>2, SMT
      <4>3. CASE i > Len(queue)
        <5>1. i - Len(queue) \in 1..k /\ i = Len(queue) + (i - Len(queue))
          BY <1>1, <1>7, <3>1, <4>3, SMT
        <5> QED
          BY <1>7, <3>3, <5>1
      <4> QED
        BY <1>7, <3>1, <4>2, <4>3, SMT
    <3> QED
      BY <3>2, <3>3
  <2> QED
    BY <1>2, <1>4, <2>1 DEF AllWell, batches
<1>12. (1..added' \subseteq good) <=>
           (1..added \subseteq good) /\ \A i \in 1..k : added + i \in good
  <2>1. ASSUME 1..added' \subseteq good, NEW i \in 1..k PROVE added + i \in good
    BY <1>1, <1>2, <2>1, SMT
  <2>2. ASSUME 1..added \subseteq good, \A i \in 1..k : added + i \in good,
               NEW j \in 1..added', j > added
        PROVE  j \in good
    <3>1. j - added \in 1..k /\ j = added + (j - added)
      BY <1>1, <1>2, <2>2, SMT
    <3> QED
      BY <2>2, <3>1
  <2>3. ASSUME 1..added' \subseteq good PROVE 1..added \subseteq good
    BY <1>1, <1>2, <2>3, SMT
  <2>4. ASSUME 1..added \subseteq good, \A i \in 1..k : added + i \in good,
               NEW j \in 1..added'
        PROVE  j \in good
    <3>1. CASE j > added
      BY <2>2, <2>4, <3>1
    <3>2. CASE j <= added
      BY <1>1, <2>4, <3>2, SMT
    <3> QED
      BY <1>1, <1>2, <3>1, <3>2, SMT
  <2> QED
    BY <2>1, <2>3, <2>4
<1>13. Roles' /\ pc'[Master] = "open"
  BY <1>1, <1>3, CheckQueueAssumption DEF Live, Roles, Threads
<1> QED
  BY <1>1, <1>2, <1>8, <1>9, <1>10, <1>11, <1>12, <1>13 DEF IInv, Live, Promise, Quiet

\* A step that only moves threads between places where they are neither busy
\* nor newly waiting, and keeps the queue and the counters.
LEMMA PlacesOnly ==
    ASSUME TypeOK, Live, TypeOK', Busy' = Busy, Waiting' \subseteq Waiting,
           UNCHANGED <<queue, counters, vChecks, good, added>>,
           \A t \in Busy : nNow'[t] = nNow[t] /\ fOk'[t] = fOk[t],
           \A t \in Threads : pc'[t] # "running" => pc[t] # "running"
    PROVE  Counts' /\ Batches' /\ (AllWell' <=> AllWell)
<1>1. Hand(Busy, nNow') = Hand(Busy, nNow)
  BY HandSame
<1>2. Cardinality(Waiting') <= Cardinality(Waiting)
  BY BusyFinite, FS_Subset
<1>3. Cardinality(Waiting') \in Nat /\ Cardinality(Waiting) \in Nat /\ nIdle \in Nat
  <2>1. IsFiniteSet(Waiting')
    BY BusyFinite, FS_Subset
  <2> QED
    BY <2>1, BusyFinite, FS_CardinalityType DEF TypeOK
<1>4. Cardinality(Waiting') <= nIdle'
  BY <1>2, <1>3, SMT DEF Live, Counts, counters
<1>5. Counts'
  BY <1>1, <1>4 DEF Live, Counts, counters
<1>6. Batches'
  BY DEF Live, Batches, Busy
<1>7. AllWell' <=> AllWell
  BY DEF AllWell, counters
<1> QED
  BY <1>5, <1>6, <1>7

\* The master entering Loop by Wait keeps the invariant.
LEMMA EnterInv ==
    ASSUME IInv, NEW wait \in BOOLEAN, Enter(wait)
    PROVE  IInv'
<1>1. TypeOK /\ Live /\ pc[Master] = "open" /\ Master \in Threads
  BY DEF IInv, Enter, Threads
<1>2. /\ pc' = [pc EXCEPT ![Master] = "first"] /\ fWait' = wait
      /\ UNCHANGED <<queue, counters, batches, good, added, verdict, shutdown>>
  BY DEF Enter
<1>3. Busy' = Busy /\ Waiting' = Waiting
  BY <1>1, <1>2 DEF TypeOK, Busy, Waiting
<1>4. TypeOK'
  BY <1>1, <1>2 DEF TypeOK, Places, counters, batches, shutdown
<1>5. Counts' /\ Batches' /\ (AllWell' <=> AllWell)
  BY <1>1, <1>2, <1>3, <1>4, PlacesOnly DEF batches, TypeOK
<1>6. Roles' /\ pc'[Master] = "first"
  BY <1>1, <1>2 DEF Live, Roles, TypeOK, Threads
<1> QED
  BY <1>1, <1>2, <1>4, <1>5, <1>6 DEF IInv, Live, Promise, Quiet

\* A spurious wake-up keeps the invariant.
LEMMA WakeInv ==
    ASSUME IInv, NEW t \in Threads, WakeSpuriously(t)
    PROVE  IInv'
<1>1. TypeOK /\ Live /\ pc[t] = "asleep" /\ pc[Master] # "dead"
  BY DEF IInv, WakeSpuriously
<1>2. /\ pc' = [pc EXCEPT ![t] = "woken"]
      /\ UNCHANGED <<queue, counters, batches, control, shutdown>>
  BY DEF WakeSpuriously
<1>3. Busy' = Busy /\ Waiting' = Waiting
  BY <1>1, <1>2 DEF TypeOK, Busy, Waiting
<1>4. TypeOK'
  BY <1>1, <1>2 DEF TypeOK, Places, counters, batches, control, shutdown
<1>5. Counts' /\ Batches' /\ (AllWell' <=> AllWell)
  BY <1>1, <1>2, <1>3, <1>4, PlacesOnly DEF batches, control, TypeOK
<1>6. Roles' /\ (pc'[Master] = "out" <=> pc[Master] = "out") /\ pc'[Master] # "dead"
  BY <1>1, <1>2 DEF Live, Roles, TypeOK, Threads
<1> QED
  BY <1>1, <1>2, <1>4, <1>5, <1>6 DEF IInv, Live, Promise, Quiet, counters, control

\* interrupt_all keeps the invariant.
LEMMA InterruptInv ==
    ASSUME IInv, InterruptAll
    PROVE  IInv'
<1>1. /\ UNCHANGED <<queue, counters, pc, batches, control>>
      /\ interrupted' \subseteq Threads /\ stopping' \in BOOLEAN
  BY DEF InterruptAll, Threads
<1>2. TypeOK'
  BY <1>1 DEF IInv, TypeOK, counters, batches, control
<1>3. Live => Live'
  BY <1>1 DEF Live, Counts, Batches, AllWell, Promise, Quiet, Roles, Busy, Waiting,
              counters, batches, control
<1> QED
  BY <1>1, <1>2, <1>3 DEF IInv

\* A worker interrupted in its wait keeps the invariant.
LEMMA ThrowWorkerInv ==
    ASSUME IInv, NEW t \in Workers, ThrowWorker(t)
    PROVE  IInv'
<1>1. /\ TypeOK /\ Live /\ pc[t] \in {"asleep", "woken"} /\ pc[Master] # "dead"
      /\ t \in Threads /\ t # Master
  BY CheckQueueAssumption DEF IInv, ThrowWorker, Interruptible, Threads
<1>2. /\ pc' = [pc EXCEPT ![t] = "dead"] /\ interrupted' = interrupted \ {t}
      /\ UNCHANGED <<queue, counters, batches, control, stopping>>
  BY DEF ThrowWorker
<1>3. Busy' = Busy /\ Waiting' \subseteq Waiting
  BY <1>1, <1>2 DEF TypeOK, Busy, Waiting
<1>4. TypeOK'
  BY <1>1, <1>2 DEF TypeOK, Places, counters, batches, control
<1>5. Counts' /\ Batches' /\ (AllWell' <=> AllWell)
  BY <1>1, <1>2, <1>3, <1>4, PlacesOnly DEF batches, control, TypeOK
<1>6. Roles' /\ pc'[Master] = pc[Master]
  BY <1>1, <1>2 DEF Live, Roles, TypeOK, Threads
<1> QED
  BY <1>1, <1>2, <1>4, <1>5, <1>6 DEF IInv, Live, Promise, Quiet, counters, control

\* A master interrupted in its wait, which waits again in the destructor,
\* keeps the invariant.
LEMMA ThrowMasterInv ==
    ASSUME IInv, ThrowMaster
    PROVE  IInv'
<1>1. TypeOK /\ Live /\ pc[Master] \in {"asleep", "woken"} /\ Master \in Threads
  BY DEF IInv, ThrowMaster, Interruptible, Threads
<1>2. /\ pc' = [pc EXCEPT ![Master] = "first"] /\ fWait' = FALSE
      /\ nNow' = [nNow EXCEPT ![Master] = 0] /\ fOk' = [fOk EXCEPT ![Master] = TRUE]
      /\ interrupted' = interrupted \ {Master}
      /\ UNCHANGED <<queue, counters, vChecks, good, added, verdict, stopping>>
  BY DEF ThrowMaster
<1>3. /\ Busy' = Busy /\ Waiting' \subseteq Waiting
      /\ \A t \in Busy : t \in Threads /\ t # Master
  BY <1>1, <1>2 DEF TypeOK, Busy, Waiting
<1>4. TypeOK'
  <2>1. /\ nNow' \in [Threads -> Nat] /\ fOk' \in [Threads -> BOOLEAN]
        /\ fWait' \in BOOLEAN /\ interrupted' \subseteq Threads
    BY <1>1, <1>2 DEF TypeOK
  <2>2. pc' \in [Threads -> Places \cup {"out", "open", "dead"}]
    BY <1>1, <1>2 DEF TypeOK, Places
  <2> QED
    BY <1>1, <1>2, <2>1, <2>2 DEF TypeOK, counters
<1>5. Counts' /\ Batches' /\ (AllWell' <=> AllWell)
  <2>1. \A t \in Busy : nNow'[t] = nNow[t] /\ fOk'[t] = fOk[t]
    BY <1>1, <1>2, <1>3 DEF TypeOK
  <2>2. \A t \in Threads : pc'[t] # "running" => pc[t] # "running"
    BY <1>1, <1>2 DEF TypeOK
  <2> QED
    BY <1>1, <1>2, <1>3, <1>4, <2>1, <2>2, PlacesOnly
<1>6. Roles' /\ pc'[Master] = "first"
  BY <1>1, <1>2 DEF Live, Roles, TypeOK, Threads
<1> QED
  BY <1>1, <1>2, <1>4, <1>5, <1>6 DEF IInv, Live, Promise, Quiet

\* The exception out of the destructor ends every thread.
LEMMA TerminateInv ==
    ASSUME IInv, Terminate
    PROVE  IInv'
<1>1. /\ pc' = [t \in Threads |-> "dead"] /\ interrupted' = {}
      /\ UNCHANGED <<queue, counters, batches, control, stopping>>
  BY DEF Terminate
<1>2. TypeOK'
  BY <1>1 DEF IInv, TypeOK, counters, batches, control
<1> QED
  BY <1>1, <1>2 DEF IInv, Threads
-----------------------------------------------------------------------------
(* The theorems.                                                            *)

\* The invariant holds at first.
LEMMA InitInv ==
    ASSUME Init
    PROVE  IInv
<1>1. TypeOK
  <2>1. queue \in Seq(Checks)
    BY SMT DEF Init
  <2>2. 0 \in 0..NumChecks
    BY CheckQueueAssumption, SMT
  <2> QED
    BY <2>1, <2>2 DEF Init, TypeOK, Places
<1>2. Busy = {} /\ Waiting = {} /\ pc[Master] = "out"
  BY DEF Init, Busy, Waiting, Threads
<1>3. Hand(Busy, nNow) = {}
  BY <1>2 DEF Hand
<1>4. Counts
  <2>1. /\ Cardinality(Busy) = 0 /\ Cardinality(Waiting) = 0
        /\ Cardinality(Hand(Busy, nNow)) = 0
    BY <1>2, <1>3, FS_EmptySet
  <2>2. nTotal = 0 /\ nIdle = 0 /\ nTodo = 0 /\ Len(queue) = 0
    BY DEF Init
  <2> QED
    BY <2>1, <2>2, SMT DEF Counts
<1>5. Batches
  BY DEF Init, Batches, Busy
<1>6. Promise /\ Quiet /\ Roles
  BY <1>2, CheckQueueAssumption DEF Init, Promise, Quiet, Roles, Threads
<1> QED
  BY <1>1, <1>2, <1>4, <1>5, <1>6 DEF IInv, Live

\* Every step keeps the invariant.
LEMMA NextInv ==
    ASSUME IInv, [Next]_vars
    PROVE  IInv'
<1>1. CASE Next
  BY <1>1, SleepInv, TakeInv, RunInv, ReturnInv, OpenInv, AddInv, EnterInv, WakeInv,
     InterruptInv, ThrowWorkerInv, ThrowMasterInv, TerminateInv, SMT DEF Next
<1>2. CASE UNCHANGED vars
  BY <1>2 DEF vars, counters, batches, control, shutdown, IInv, TypeOK, Live, Counts,
              Batches, AllWell, Promise, Quiet, Roles, Busy, Waiting
<1> QED
  BY <1>1, <1>2

\* The invariant holds in every reachable state.
LEMMA InvHolds == Spec => []IInv
<1>1. Init => IInv
  BY InitInv
<1>2. IInv /\ [Next]_vars => IInv'
  BY NextInv
<1> QED
  BY <1>1, <1>2, PTL DEF Spec

\* The variables keep their types; in particular the unsigned nTodo never
\* wraps and the divisor of the batch size (line 105) is never zero.
THEOREM TypeCorrect == Spec => []TypeOK
<1>1. IInv => TypeOK
  BY DEF IInv
<1> QED
  BY <1>1, InvHolds, PTL

\* The assertion of the control object's constructor never fails.
THEOREM IdleBetweenBlocksHolds == Spec => []IdleBetweenBlocks
<1>1. IInv => IdleBetweenBlocks
  <2>1. SUFFICES ASSUME IInv, pc[Master] = "out" PROVE IsIdle
    BY DEF IdleBetweenBlocks
  <2>2. TypeOK /\ Live
    BY <2>1 DEF IInv
  <2>3. Cardinality(Busy) = 0
    BY <2>1, <2>2, OutIdle, FS_EmptySet
  <2> QED
    BY <2>1, <2>2, <2>3, SMT DEF IsIdle, Live, Counts, Quiet, TypeOK
<1> QED
  BY <1>1, InvHolds, PTL

\* nTodo counts the checks of the queue and of the batches.
THEOREM TodoIsWhatIsLeftHolds == Spec => []TodoIsWhatIsLeft
<1>1. IInv => TodoIsWhatIsLeft
  BY DEF IInv, Live, Counts, TodoIsWhatIsLeft, InHand, Hand
<1> QED
  BY <1>1, InvHolds, PTL

\* Every answer of control.Wait is the conjunction of the checks that were
\* added for the block: the queue implements BlockVerdict.
THEOREM AnswersForTheBlockSafe == Spec => Verdict!SafeSpec
<1>1. Init => Verdict!Init
  BY DEF Init, Verdict!Init, Phase, Threads
<1>2. ASSUME IInv, [Next]_vars PROVE [Verdict!Next]_(Verdict!vars)
  <2> USE DEF Verdict!vars
  <2>1. TypeOK /\ Master \in Threads
    BY <1>2 DEF IInv, Threads
  <2>2. ASSUME NEW t \in Threads, Sleep(t) \/ Take(t)
        PROVE  UNCHANGED Verdict!vars
    <3>1. PICK p \in {"asleep", "running"} : Moved(t, p)
      BY <2>2 DEF Sleep, Take
    <3>2. /\ pc'[t] = p
          /\ \A u \in Threads \ {t} :
                \/ pc'[u] = pc[u]
                \/ u = Master /\ pc[u] = "asleep" /\ pc'[u] = "woken"
      BY <2>1, <3>1, MovedTo
    <3>3. AtMutex(t) /\ UNCHANGED control
      BY <2>2 DEF Sleep, Take
    <3>4. Phase' = Phase
      BY <2>1, <3>2, <3>3 DEF Phase, AtMutex
    <3> QED
      BY <3>3, <3>4 DEF control
  <2>3. ASSUME NEW t \in Threads, Run(t) PROVE UNCHANGED Verdict!vars
    BY <2>1, <2>3 DEF Run, Phase, control, TypeOK
  <2>4. ASSUME Return PROVE Verdict!Next
    <3>1. Live
      BY <1>2, <2>4 DEF IInv, Return, AtMutex
    <3>2. AllOkAfter(Master) <=> 1..added \subseteq good
      BY <2>1, <2>4, <3>1, LastOut
    <3>3. Phase = "asked" /\ Phase' = "out" /\ UNCHANGED <<good, added>>
      BY <2>1, <2>4 DEF Return, AtMutex, Phase, TypeOK
    <3>4. CASE fWait
      <4>1. verdict' = IF 1..added \subseteq good THEN "valid" ELSE "invalid"
        BY <2>4, <3>2, <3>4 DEF Return
      <4> QED
        BY <3>3, <4>1 DEF Verdict!Next, Verdict!Answer
    <3>5. CASE ~fWait
      <4>1. verdict' = verdict
        BY <2>4, <3>5 DEF Return
      <4> QED
        BY <3>3, <4>1 DEF Verdict!Next, Verdict!Abandon
    <3> QED
      BY <3>4, <3>5
  <2>5. ASSUME Open PROVE Verdict!Next
    BY <2>1, <2>5 DEF Open, Phase, TypeOK, Verdict!Next, Verdict!Open
  <2>6. ASSUME NEW k \in 0..(NumChecks - added), Add(k) PROVE Verdict!Next
    <3>1. pc'[Master] = "open" /\ pc[Master] = "open"
      BY <2>1, <2>6, Notified, CheckQueueAssumption DEF Add
    <3>2. added' \in added..NumChecks /\ UNCHANGED <<good, verdict>>
      BY <2>1, <2>6, CheckQueueAssumption, SMT DEF Add, TypeOK
    <3> QED
      BY <3>1, <3>2 DEF Phase, Verdict!Next, Verdict!Add
  <2>7. ASSUME NEW wait \in BOOLEAN, Enter(wait) PROVE Verdict!Next
    BY <2>1, <2>7 DEF Enter, Phase, TypeOK, Verdict!Next, Verdict!Ask
  <2>8. ASSUME NEW t \in Threads, WakeSpuriously(t) PROVE UNCHANGED Verdict!vars
    BY <2>1, <2>8 DEF WakeSpuriously, Phase, control, TypeOK
  <2>9. ASSUME InterruptAll PROVE UNCHANGED Verdict!vars
    BY <2>9 DEF InterruptAll, Phase, control
  <2>10. ASSUME NEW t \in Workers, ThrowWorker(t) PROVE UNCHANGED Verdict!vars
    BY <2>1, <2>10, CheckQueueAssumption DEF ThrowWorker, Phase, control, TypeOK, Threads
  <2>11. ASSUME ThrowMaster PROVE UNCHANGED Verdict!vars
    BY <2>1, <2>11 DEF ThrowMaster, Interruptible, Phase, TypeOK
  <2>12. ASSUME Terminate PROVE Verdict!Next
    BY <2>1, <2>12 DEF Terminate, Interruptible, Phase, control, TypeOK, Verdict!Next, Verdict!Die
  <2>13. ASSUME UNCHANGED vars PROVE UNCHANGED Verdict!vars
    BY <2>13 DEF vars, Phase, control
  <2> QED
    BY <1>2, <2>2, <2>3, <2>4, <2>5, <2>6, <2>7, <2>8, <2>9, <2>10, <2>11, <2>12, <2>13, SMT DEF Next
<1> QED
  BY <1>1, <1>2, InvHolds, PTL DEF Spec, Verdict!SafeSpec
=============================================================================
