-------------------------- MODULE ThreadPoolProofs --------------------------
(***************************************************************************)
(* Proofs about ThreadPool, for any number of threads, tasks and           *)
(* executors.                                                              *)
(***************************************************************************)
EXTENDS ThreadPool, FiniteSetTheorems, TLAPS

LEMMA ConcatType ==
  ASSUME NEW S, NEW s \in Seq(S), NEW t \in Seq(S)
  PROVE  s \o t \in Seq(S) /\ Len(s \o t) = Len(s) + Len(t)
OBVIOUS

\* The list of threads after a Grow or a Shrink.
LEMMA GrowTypes ==
  ASSUME TypeOK, NEW n \in Nat, Grow(n)
  PROVE  /\ threads' \in Seq(Workers) /\ Len(threads') = n
         /\ spawned' \in 0 .. MaxThread /\ spawned' = spawned + (n - Len(threads))
         /\ flag' = flag /\ pc' \in [Workers -> Labels]
         /\ \A i \in 1 .. Len(threads) : threads'[i] = threads[i]
         /\ \A i \in Len(threads) + 1 .. n : threads'[i] = spawned + (i - Len(threads))
<1>. DEFINE more == n - Len(threads)
            new == [i \in 1 .. more |-> spawned + i]
<1>1. threads \in Seq(Workers) /\ spawned \in Nat /\ MaxThread \in Nat /\ Len(threads) \in Nat
  BY PoolAssumption DEF TypeOK
<1>2. more \in Nat /\ spawned + more <= MaxThread
  BY <1>1, SMT DEF Grow
<1>3. new \in Seq(Workers) /\ Len(new) = more
  <2>1. \A i \in 1 .. more : spawned + i \in Workers
    BY <1>1, <1>2, SMT DEF Workers
  <2>. QED
    BY <2>1, <1>2
<1>4. threads' = threads \o new
  BY DEF Grow
<1>5. Len(threads') = n /\ threads' \in Seq(Workers)
  <2>. HIDE DEF new, more
  <2>1. threads \o new \in Seq(Workers) /\ Len(threads \o new) = Len(threads) + Len(new)
    BY <1>1, <1>3, ConcatType
  <2>2. Len(threads) + more = n
    BY <1>1 DEF more
  <2>. QED
    BY <1>3, <1>4, <2>1, <2>2
<1>6. \A i \in 1 .. Len(threads) : threads'[i] = threads[i]
  BY <1>1, <1>2, <1>3, <1>4
<1>7. \A i \in Len(threads) + 1 .. n : threads'[i] = spawned + (i - Len(threads))
  <2>. SUFFICES ASSUME NEW i \in Len(threads) + 1 .. n
                PROVE  threads'[i] = spawned + (i - Len(threads))
    OBVIOUS
  <2>1. threads'[i] = new[i - Len(threads)]
    BY <1>1, <1>2, <1>3, <1>4
  <2>2. i - Len(threads) \in 1 .. more
    BY <1>1, <1>2
  <2>. QED
    BY <2>1, <2>2
<1>8. spawned' = spawned + more /\ flag' = flag
  BY DEF Grow
<1>9. pc' \in [Workers -> Labels]
  BY DEF Grow, TypeOK, Labels
<1>. QED
  BY <1>1, <1>2, <1>5, <1>6, <1>7, <1>8, <1>9

LEMMA ShrinkTypes ==
  ASSUME TypeOK, NEW n \in Nat, Shrink(n)
  PROVE  /\ threads' \in Seq(Workers) /\ Len(threads') = n /\ n < Len(threads)
         /\ spawned' = spawned /\ flag' \in [Workers -> BOOLEAN]
         /\ pc' \in [Workers -> Labels]
         /\ \A i \in 1 .. n : threads'[i] = threads[i]
<1>1. threads \in Seq(Workers) /\ n < Len(threads) /\ threads' = SubSeq(threads, 1, n)
  BY DEF TypeOK, Shrink
<1>2. threads' \in Seq(Workers) /\ Len(threads') = n /\ \A i \in 1 .. n : threads'[i] = threads[i]
  BY <1>1
<1>3. spawned' = spawned /\ flag' \in [Workers -> BOOLEAN]
  BY DEF Shrink
<1>4. pc' \in [Workers -> Labels]
  BY DEF Shrink, NotifyAll, TypeOK, Labels
<1>. QED
  BY <1>1, <1>2, <1>3, <1>4

\* The pool has at most as many threads as the list of them is long.
LEMMA PoolSize ==
  ASSUME TypeOK
  PROVE  /\ IsFiniteSet(InPool) /\ Cardinality(InPool) <= Len(threads)
         /\ Cardinality(InPool) \in Nat
<1>. DEFINE D == 1 .. Len(threads)
            N == Cardinality(D)
<1>1. threads \in [D -> InPool] /\ Len(threads) \in Nat
  BY DEF TypeOK, InPool
<1>2. threads \in Surjection(D, InPool)
  BY <1>1 DEF Surjection, InPool, TypeOK
<1>3. IsFiniteSet(D) /\ N = Len(threads)
  <2>1. 1 \in Int /\ Len(threads) \in Int
    BY <1>1
  <2>2. IsFiniteSet(D) /\ N = IF 1 > Len(threads) THEN 0 ELSE Len(threads) - 1 + 1
    BY <2>1, FS_Interval, Zenon
  <2>. HIDE DEF D, N
  <2>. QED
    BY <2>2, <1>1, SMT
<1>. HIDE DEF D
<1>4. IsFiniteSet(InPool) /\ Cardinality(InPool) <= N
  BY <1>2, <1>3, FS_Surjection, Zenon
<1>5. Cardinality(InPool) \in Nat
  BY <1>4, FS_CardinalityType
<1>. QED
  BY <1>3, <1>4, <1>5, Zenon
-----------------------------------------------------------------------------
(* Types                                                                    *)

LEMMA ResizeTypes ==
  ASSUME TypeOK, NEW n \in Nat, Resize(n)
  PROVE  /\ threads' \in Seq(Workers) /\ Len(threads') = n /\ spawned' \in 0 .. MaxThread
         /\ flag' \in [Workers -> BOOLEAN] /\ pc' \in [Workers -> Labels]
<1>1. CASE Grow(n)
  BY <1>1, GrowTypes DEF TypeOK
<1>2. CASE Shrink(n)
  BY <1>2, ShrinkTypes DEF TypeOK
<1>. QED
  BY <1>1, <1>2 DEF Resize

\* The size CreateExecutor asks for.
LEMMA CreateSize ==
  ASSUME TypeOK, Len(threads) < MaxPool
  PROVE  LET n == Len(threads) + PerExecutor
             size == IF n < MaxPool THEN n ELSE MaxPool
         IN  size \in Nat /\ size > 0 /\ size > Len(threads)
<1>1. Len(threads) \in Nat /\ MaxPool \in Nat \ {0} /\ PerExecutor \in Nat \ {0}
  BY PoolAssumption DEF TypeOK
<1>. QED
  BY <1>1, SMT

LEMMA TryPopTypes ==
  ASSUME TypeOK, NEW w \in Workers, NEW other \in Labels, TryPop(w, other)
  PROVE  /\ queue' \subseteq Tasks /\ hand' \in [Workers -> Tasks \cup {NoTask}]
         /\ pc' \in [Workers -> Labels]
  BY DEF TypeOK, TryPop, Top, Labels

LEMMA InitTypes == Init => TypeOK
<1>. SUFFICES ASSUME Init PROVE TypeOK
  OBVIOUS
<1>1. 0 \in 0 .. MaxThread /\ 0 \in 0 .. MaxTask /\ 0 \in 0 .. MaxExecutor
  BY PoolAssumption, SMT
<1>2. /\ threads \in Seq(Workers) /\ spawned \in 0 .. MaxThread
      /\ flag \in [Workers -> BOOLEAN] /\ pc \in [Workers -> Labels]
      /\ hand \in [Workers -> Tasks \cup {NoTask}] /\ prio \in [Tasks -> Int]
  BY <1>1 DEF Init, Labels
<1>3. /\ pushed \in 0 .. MaxTask /\ execs \in 0 .. MaxExecutor
      /\ overcount \in BOOLEAN /\ is_done \in BOOLEAN /\ is_stop \in BOOLEAN
      /\ owner \in {"idle", "notify", "join", "stopped", "terminated"}
  BY <1>1 DEF Init
<1>4. queue = {} /\ notifying = {} /\ finished = {} /\ before = {} /\ late = {} /\ missed = {}
  BY DEF Init
<1>. QED
  BY <1>2, <1>3, <1>4 DEF TypeOK

\* A thread that runs has a task, and only such a thread has one.
Hands ==
  \A w \in Workers :
    /\ pc[w] = "run" => hand[w] # NoTask
    /\ pc[w] # "run" /\ owner # "terminated" => hand[w] = NoTask

LEMMA StepTypes == TypeOK /\ Hands /\ [Next]_vars => TypeOK'
<1>. SUFFICES ASSUME TypeOK, Hands, [Next]_vars PROVE TypeOK'
  OBVIOUS
<1>. USE DEF workerVars, poolVars, serverVars, pushVars, stopVars
<1>1. ASSUME NEW w \in Workers, WorkerStep(w) PROVE TypeOK'
  <2>1. CASE StartThread(w)
    BY <2>1, TryPopTypes DEF StartThread, TypeOK, Labels
  <2>2. CASE TaskEnds(w)
    <3>1. hand[w] \in Tasks
      BY <2>2 DEF TaskEnds, TypeOK, Hands
    <3>. QED
      BY <2>2, <3>1 DEF TaskEnds, TypeOK, Labels
  <2>3. CASE NextTask(w)
    BY <2>3, TryPopTypes DEF NextTask, TypeOK, Labels
  <2>4. CASE Evaluate(w)
    BY <2>4, TryPopTypes DEF Evaluate, TypeOK, Labels
  <2>5. CASE Block(w)
    BY <2>5 DEF Block, TypeOK, Labels
  <2>6. CASE LookAtFlags(w)
    BY <2>6 DEF LookAtFlags, TypeOK, Labels
  <2>. QED
    BY <1>1, <2>1, <2>2, <2>3, <2>4, <2>5, <2>6 DEF WorkerStep
<1>2. ASSUME NEW p \in Priorities, Emplace(p) PROVE TypeOK'
  <2>1. p \in Int /\ MaxTask \in Nat
    BY PoolAssumption
  <2>2. pushed' \in 1 .. MaxTask
    BY <1>2, <2>1 DEF Emplace, TypeOK
  <2>. QED
    BY <1>2, <2>1, <2>2 DEF Emplace, TypeOK, Tasks
<1>3. ASSUME NEW t \in Tasks, NotifyOne(t) PROVE TypeOK'
  BY <1>3 DEF NotifyOne, TypeOK, Labels, Waiting
<1>4. CASE CreateExecutor
  <2>1. execs' \in 0 .. MaxExecutor
    BY <1>4, PoolAssumption DEF CreateExecutor, TypeOK
  <2>2. CASE Len(threads) < MaxPool
    BY <1>4, <2>1, <2>2, CreateSize, ResizeTypes DEF CreateExecutor, TypeOK
  <2>3. CASE ~(Len(threads) < MaxPool)
    BY <1>4, <2>1, <2>3 DEF CreateExecutor, TypeOK
  <2>. QED
    BY <2>2, <2>3
<1>5. CASE DestroyExecutor
  <2>1. execs' \in 0 .. MaxExecutor
    BY <1>5, PoolAssumption DEF DestroyExecutor, Destroyable, TypeOK
  <2>2. CASE UNCHANGED <<pc, poolVars, overcount>>
    BY <1>5, <2>1, <2>2 DEF DestroyExecutor, TypeOK
  <2>3. CASE /\ PerExecutor <= Len(threads) /\ Resize(Len(threads) - PerExecutor)
             /\ overcount' = (overcount \/ Cardinality(Idle \cap InPool) <= PerExecutor)
    <3>1. Len(threads) - PerExecutor \in Nat
      BY <2>3, PoolAssumption DEF TypeOK
    <3>. QED
      BY <1>5, <2>1, <2>3, <3>1, ResizeTypes DEF DestroyExecutor, TypeOK
  <2>. QED
    BY <1>5, <2>2, <2>3 DEF DestroyExecutor
<1>6. CASE Terminate
  <2>1. 0 \in 0 .. MaxExecutor
    BY PoolAssumption, SMT
  <2>. QED
    BY <1>6, <2>1 DEF Terminate, TypeOK, Labels
<1>7. CASE StopWhenDone
  <2>1. 1 .. pushed \subseteq Tasks
    BY PoolAssumption DEF TypeOK, Tasks
  <2>. QED
    BY <1>7, <2>1 DEF StopWhenDone, TypeOK
<1>8. CASE StopNow
  BY <1>8 DEF StopNow, TypeOK
<1>9. CASE StopNotify
  BY <1>9 DEF StopNotify, NotifyAll, TypeOK, Labels
<1>10. CASE StopReturn
  BY <1>10 DEF StopReturn, TypeOK
<1>11. CASE UNCHANGED vars
  BY <1>11 DEF vars, TypeOK
<1>. QED
  BY <1>1, <1>2, <1>3, <1>4, <1>5, <1>6, <1>7, <1>8, <1>9, <1>10, <1>11 DEF Next, OwnerStep

\* What Resize does to the threads that are there: it starts new ones and wakes
\* waiting ones.
LEMMA ResizeLabels ==
  ASSUME TypeOK, NEW n \in Nat, Resize(n)
  PROVE  \A w \in Workers :
           \/ pc'[w] = pc[w]
           \/ pc[w] = "wait" /\ pc'[w] = "woken"
           \/ pc'[w] = "start" /\ spawned < w /\ w <= spawned'
<1>1. CASE Grow(n)
  <2>1. spawned \in Nat /\ spawned' \in Nat
    BY <1>1, GrowTypes DEF TypeOK
  <2>. QED
    BY <1>1, <2>1 DEF Grow, TypeOK
<1>2. CASE Shrink(n)
  BY <1>2 DEF Shrink, NotifyAll, TypeOK
<1>. QED
  BY <1>1, <1>2 DEF Resize

\* CreateExecutor and DestroyExecutor resize the pool or leave it alone.
LEMMA ResizeOrNot ==
  ASSUME TypeOK, CreateExecutor \/ DestroyExecutor
  PROVE  UNCHANGED <<pc, poolVars>> \/ \E n \in Nat : Resize(n)
<1>1. CASE CreateExecutor
  BY <1>1, CreateSize, Zenon DEF CreateExecutor
<1>2. CASE DestroyExecutor
  <2>1. PerExecutor <= Len(threads) => Len(threads) - PerExecutor \in Nat
    BY PoolAssumption DEF TypeOK
  <2>. QED
    BY <1>2, <2>1 DEF DestroyExecutor
<1>. QED
  BY <1>1, <1>2


\* The list names threads that were made, each once.
ListOK ==
  /\ \A i \in 1 .. Len(threads) : threads[i] <= spawned
  /\ \A i, j \in 1 .. Len(threads) : threads[i] = threads[j] => i = j

LEMMA ElementType ==
  ASSUME NEW S, NEW s \in Seq(S)
  PROVE  \A i \in 1 .. Len(s) : s[i] \in S
OBVIOUS

LEMMA ResizeList ==
  ASSUME TypeOK, ListOK, NEW n \in Nat, Resize(n)
  PROVE  ListOK' /\ spawned <= spawned'
<1>1. CASE Grow(n)
  <2>1. spawned \in Nat /\ Len(threads) \in Nat /\ n >= Len(threads)
    BY <1>1 DEF TypeOK, Grow
  <2>2. \A i \in 1 .. Len(threads) : threads[i] \in Nat
    <3>1. threads \in Seq(Workers)
      BY DEF TypeOK
    <3>2. \A i \in 1 .. Len(threads) : threads[i] \in Workers
      BY <3>1, ElementType
    <3>. QED
      BY <3>2 DEF Workers
  <2>3. ASSUME NEW i \in 1 .. n
        PROVE  /\ i <= Len(threads) => threads'[i] = threads[i]
               /\ i > Len(threads) => threads'[i] = spawned + (i - Len(threads))
    BY <1>1, <2>1, GrowTypes
  <2>4. Len(threads') = n /\ spawned' = spawned + (n - Len(threads))
    BY <1>1, GrowTypes
  <2>5. \A i \in 1 .. n : threads'[i] <= spawned'
    BY <2>1, <2>2, <2>3, <2>4 DEF ListOK
  <2>6. ASSUME NEW i \in 1 .. n, NEW j \in 1 .. n, threads'[i] = threads'[j]
        PROVE  i = j
    BY <2>1, <2>2, <2>3, <2>6 DEF ListOK
  <2>. QED
    BY <2>1, <2>4, <2>5, <2>6 DEF ListOK
<1>2. CASE Shrink(n)
  <2>1. /\ Len(threads') = n /\ n < Len(threads) /\ spawned' = spawned
        /\ \A i \in 1 .. n : threads'[i] = threads[i]
    BY <1>2, ShrinkTypes
  <2>2. Len(threads) \in Nat /\ spawned \in Nat
    BY DEF TypeOK
  <2>. QED
    BY <2>1, <2>2 DEF ListOK
<1>. QED
  BY <1>1, <1>2 DEF Resize

\* Only threads that leave the list are flagged.
LEMMA ResizeFlags ==
  ASSUME TypeOK, ListOK, NEW n \in Nat, Resize(n)
  PROVE  /\ \A w \in Workers : flag'[w] => flag[w] \/ w <= spawned
         /\ \A i \in 1 .. Len(threads') : flag'[threads'[i]] =>
              flag[threads'[i]] /\ (i <= Len(threads) => threads'[i] = threads[i])
         /\ \A i \in 1 .. Len(threads') :
              (i <= Len(threads) /\ threads'[i] = threads[i]) \/ threads'[i] > spawned
<1>1. CASE Grow(n)
  <2>1. spawned \in Nat /\ Len(threads) \in Nat /\ n >= Len(threads)
    BY <1>1 DEF TypeOK, Grow
  <2>. QED
    BY <1>1, <2>1, GrowTypes
<1>2. CASE Shrink(n)
  <2>1. /\ Len(threads') = n /\ n < Len(threads) /\ Len(threads) \in Nat
        /\ \A i \in 1 .. n : threads'[i] = threads[i]
    BY <1>2, ShrinkTypes DEF TypeOK
  <2>2. \A w \in Workers : flag'[w] = (flag[w] \/ \E i \in n + 1 .. Len(threads) : threads[i] = w)
    BY <1>2 DEF Shrink
  <2>3. ASSUME NEW w \in Workers, flag'[w] PROVE flag[w] \/ w <= spawned
    <3>1. ASSUME NEW i \in n + 1 .. Len(threads), threads[i] = w PROVE w <= spawned
      <4>1. i \in 1 .. Len(threads)
        BY <2>1
      <4>. QED
        BY <3>1, <4>1 DEF ListOK
    <3>. QED
      BY <2>2, <2>3, <3>1
  <2>4. ASSUME NEW i \in 1 .. n, flag'[threads'[i]] PROVE flag[threads[i]]
    <3>1. threads[i] \in Workers
      BY <2>1 DEF TypeOK
    <3>2. flag[threads[i]] \/ \E k \in n + 1 .. Len(threads) : threads[k] = threads[i]
      BY <2>1, <2>2, <2>4, <3>1
    <3>. QED
      BY <2>1, <3>2 DEF ListOK
  <2>. QED
    BY <2>1, <2>3, <2>4
<1>. QED
  BY <1>1, <1>2 DEF Resize

\* A thread that has not been made is not flagged and does nothing.
Fresh == \A w \in Workers : w > spawned => pc[w] = "none" /\ ~flag[w]

LEMMA StepFresh ==
  ASSUME TypeOK, ListOK, Fresh, [Next]_vars
  PROVE  Fresh'
<1>. USE DEF Fresh, TypeOK, workerVars, poolVars, serverVars, pushVars, stopVars
<1>1. ASSUME NEW w \in Workers, WorkerStep(w) PROVE Fresh'
  <2>1. CASE StartThread(w)
    BY <2>1 DEF TryPop, StartThread
  <2>2. CASE TaskEnds(w)
    BY <2>2 DEF TaskEnds
  <2>3. CASE NextTask(w)
    BY <2>3 DEF TryPop, NextTask
  <2>4. CASE Evaluate(w)
    BY <2>4 DEF TryPop, Evaluate
  <2>5. CASE Block(w)
    BY <2>5 DEF Block
  <2>6. CASE LookAtFlags(w)
    BY <2>6 DEF LookAtFlags
  <2>. QED
    BY <1>1, <2>1, <2>2, <2>3, <2>4, <2>5, <2>6 DEF WorkerStep
<1>2. ASSUME NEW p \in Priorities, Emplace(p) PROVE Fresh'
  BY <1>2 DEF Emplace
<1>3. ASSUME NEW t \in Tasks, NotifyOne(t) PROVE Fresh'
  BY <1>3 DEF Waiting, NotifyOne
<1>4. CASE CreateExecutor
  <2>1. CASE UNCHANGED <<pc, poolVars>>
    BY <1>4, <2>1 DEF CreateExecutor
  <2>2. ASSUME NEW n \in Nat, Resize(n) PROVE Fresh'
    <3>1. spawned <= spawned' /\ spawned \in Nat /\ spawned' \in Nat
      BY <2>2, ResizeList, ResizeTypes
    <3>2. ASSUME NEW w \in Workers, w > spawned' PROVE pc'[w] = "none" /\ ~flag'[w]
      <4>1. w > spawned /\ ~(w <= spawned) /\ ~(w <= spawned')
        BY <3>1, <3>2 DEF Workers
      <4>2. pc[w] = "none" /\ ~flag[w]
        BY <4>1
      <4>3. \/ pc'[w] = pc[w]
            \/ pc[w] = "wait" /\ pc'[w] = "woken"
            \/ pc'[w] = "start" /\ spawned < w /\ w <= spawned'
        BY <2>2, ResizeLabels
      <4>4. flag'[w] => flag[w] \/ w <= spawned
        BY <2>2, ResizeFlags
      <4>. QED
        BY <4>1, <4>2, <4>3, <4>4
    <3>. QED
      BY <3>2
  <2>. QED
    BY <1>4, <2>1, <2>2, ResizeOrNot
<1>5. CASE DestroyExecutor
  <2>1. CASE UNCHANGED <<pc, poolVars>>
    BY <1>5, <2>1 DEF DestroyExecutor
  <2>2. ASSUME NEW n \in Nat, Resize(n) PROVE Fresh'
    <3>1. spawned <= spawned' /\ spawned \in Nat /\ spawned' \in Nat
      BY <2>2, ResizeList, ResizeTypes
    <3>2. ASSUME NEW w \in Workers, w > spawned' PROVE pc'[w] = "none" /\ ~flag'[w]
      <4>1. w > spawned /\ ~(w <= spawned) /\ ~(w <= spawned')
        BY <3>1, <3>2 DEF Workers
      <4>2. pc[w] = "none" /\ ~flag[w]
        BY <4>1
      <4>3. \/ pc'[w] = pc[w]
            \/ pc[w] = "wait" /\ pc'[w] = "woken"
            \/ pc'[w] = "start" /\ spawned < w /\ w <= spawned'
        BY <2>2, ResizeLabels
      <4>4. flag'[w] => flag[w] \/ w <= spawned
        BY <2>2, ResizeFlags
      <4>. QED
        BY <4>1, <4>2, <4>3, <4>4
    <3>. QED
      BY <3>2
  <2>. QED
    BY <1>5, <2>1, <2>2, ResizeOrNot
<1>6. CASE Terminate
  BY <1>6 DEF Free, Terminate
<1>7. CASE StopWhenDone
  BY <1>7 DEF StopWhenDone
<1>8. CASE StopNow
  <2>1. ASSUME NEW w \in Workers, w > spawned PROVE w \notin InPool
    BY <2>1 DEF InPool, ListOK, Workers
  <2>. QED
    BY <1>8, <2>1 DEF StopNow
<1>9. CASE StopNotify
  BY <1>9 DEF NotifyAll, StopNotify
<1>10. CASE StopReturn
  BY <1>10 DEF StopReturn
<1>11. CASE UNCHANGED vars
  BY <1>11 DEF vars
<1>. QED
  BY <1>1, <1>2, <1>3, <1>4, <1>5, <1>6, <1>7, <1>8, <1>9, <1>10, <1>11 DEF Next, OwnerStep

LEMMA StepList ==
  ASSUME TypeOK, ListOK, [Next]_vars
  PROVE  ListOK'
<1>. USE DEF poolVars
<1>1. CASE UNCHANGED poolVars
  BY <1>1 DEF ListOK
<1>2. CASE CreateExecutor \/ DestroyExecutor
  BY <1>1, <1>2, ResizeOrNot, ResizeList
<1>3. CASE StopReturn
  BY <1>3 DEF StopReturn, ListOK
<1>4. CASE StopNow
  BY <1>4 DEF StopNow, ListOK
<1>5. ASSUME NEW w \in Workers, WorkerStep(w) PROVE UNCHANGED poolVars
  BY <1>5 DEF WorkerStep, StartThread, TaskEnds, NextTask, Evaluate, LookAtFlags, Block
<1>6. ASSUME \/ \E p \in Priorities : Emplace(p)
             \/ \E t \in Tasks : NotifyOne(t)
             \/ Terminate \/ StopWhenDone \/ StopNotify \/ UNCHANGED vars
      PROVE  UNCHANGED poolVars
  BY <1>6 DEF Emplace, NotifyOne, Terminate, StopWhenDone, StopNotify, vars
<1>. QED
  BY <1>1, <1>2, <1>3, <1>4, <1>5, <1>6 DEF Next, OwnerStep

LEMMA TryPopHands ==
  ASSUME TypeOK, Hands, NEW w \in Workers, NEW other \in Labels \ {"run"}, TryPop(w, other),
         pc[w] # "run", UNCHANGED owner
  PROVE  Hands'
<1>1. ASSUME NEW t \in Top, hand' = [hand EXCEPT ![w] = t], pc' = [pc EXCEPT ![w] = "run"]
      PROVE  Hands'
  <2>1. t # NoTask
    BY DEF Top, TypeOK, Tasks, NoTask
  <2>. QED
    BY <1>1, <2>1 DEF Hands, TypeOK
<1>2. CASE pc' = [pc EXCEPT ![w] = other] /\ UNCHANGED hand
  BY <1>2 DEF Hands, TypeOK
<1>. QED
  BY <1>1, <1>2 DEF TryPop

LEMMA StepHands ==
  ASSUME TypeOK, Fresh, Hands, [Next]_vars
  PROVE  Hands'
<1>. USE DEF Hands, TypeOK, workerVars, poolVars, serverVars, pushVars, stopVars
<1>1. ASSUME NEW w \in Workers, WorkerStep(w) PROVE Hands'
  <2>1. CASE StartThread(w)
    BY <2>1, TryPopHands DEF StartThread, Labels
  <2>2. CASE TaskEnds(w)
    BY <2>2 DEF TaskEnds
  <2>3. CASE NextTask(w)
    BY <2>3, TryPopHands DEF NextTask, Labels
  <2>4. CASE Evaluate(w)
    BY <2>4, TryPopHands DEF Evaluate, Labels
  <2>5. CASE Block(w)
    BY <2>5 DEF Block
  <2>6. CASE LookAtFlags(w)
    BY <2>6 DEF LookAtFlags
  <2>. QED
    BY <1>1, <2>1, <2>2, <2>3, <2>4, <2>5, <2>6 DEF WorkerStep
<1>2. ASSUME NEW p \in Priorities, Emplace(p) PROVE Hands'
  BY <1>2 DEF Emplace
<1>3. ASSUME NEW t \in Tasks, NotifyOne(t) PROVE Hands'
  BY <1>3 DEF Waiting, NotifyOne
<1>4. CASE CreateExecutor
  <2>1. CASE UNCHANGED <<pc, poolVars>>
    BY <1>4, <2>1 DEF CreateExecutor
  <2>2. ASSUME NEW n \in Nat, Resize(n) PROVE Hands'
    <3>1. ASSUME NEW w \in Workers PROVE pc'[w] = "run" <=> pc[w] = "run"
      <4>1. \/ pc'[w] = pc[w]
            \/ pc[w] = "wait" /\ pc'[w] = "woken"
            \/ pc'[w] = "start" /\ spawned < w /\ w <= spawned'
        BY <2>2, ResizeLabels
      <4>2. spawned < w => pc[w] = "none"
        BY DEF Fresh, Workers
      <4>. QED
        BY <4>1, <4>2
    <3>2. UNCHANGED <<hand, owner>>
      BY <1>4 DEF CreateExecutor
    <3>. QED
      BY <3>1, <3>2
  <2>. QED
    BY <1>4, <2>1, <2>2, ResizeOrNot
<1>5. CASE DestroyExecutor
  <2>1. CASE UNCHANGED <<pc, poolVars>>
    BY <1>5, <2>1 DEF DestroyExecutor
  <2>2. ASSUME NEW n \in Nat, Resize(n) PROVE Hands'
    <3>1. ASSUME NEW w \in Workers PROVE pc'[w] = "run" <=> pc[w] = "run"
      <4>1. \/ pc'[w] = pc[w]
            \/ pc[w] = "wait" /\ pc'[w] = "woken"
            \/ pc'[w] = "start" /\ spawned < w /\ w <= spawned'
        BY <2>2, ResizeLabels
      <4>2. spawned < w => pc[w] = "none"
        BY DEF Fresh, Workers
      <4>. QED
        BY <4>1, <4>2
    <3>2. UNCHANGED <<hand, owner>>
      BY <1>5 DEF DestroyExecutor
    <3>. QED
      BY <3>1, <3>2
  <2>. QED
    BY <1>5, <2>1, <2>2, ResizeOrNot
<1>6. CASE Terminate
  BY <1>6 DEF Free, Terminate
<1>7. CASE StopWhenDone
  BY <1>7 DEF StopWhenDone
<1>8. CASE StopNow
  BY <1>8 DEF StopNow
<1>9. CASE StopNotify
  BY <1>9 DEF NotifyAll, StopNotify
<1>10. CASE StopReturn
  BY <1>10 DEF StopReturn
<1>11. CASE UNCHANGED vars
  BY <1>11 DEF vars
<1>. QED
  BY <1>1, <1>2, <1>3, <1>4, <1>5, <1>6, <1>7, <1>8, <1>9, <1>10, <1>11 DEF Next, OwnerStep

\* Every reachable state of the pool is well typed, however many threads Resize
\* and SetThread make.
THEOREM PoolTypes == Spec => []TypeOK
<1>. DEFINE Inv == TypeOK /\ ListOK /\ Fresh /\ Hands
<1>1. Init => Inv
  BY InitTypes DEF Init, ListOK, Fresh, Hands
<1>2. Inv /\ [Next]_vars => Inv'
  BY StepTypes, StepList, StepFresh, StepHands
<1>. QED
  BY <1>1, <1>2, PTL DEF Spec
-----------------------------------------------------------------------------
(* The pool keeps a thread                                                  *)

\* The hazard is DestroyExecutor: IdleNumber also counts detached threads.  When
\* the idle threads of the pool itself are more than it takes away, the list is
\* longer than that, too.
LEMMA StepKeeps ==
  ASSUME TypeOK, TypeOK', PoolKeepsAThread, [Next]_vars
  PROVE  PoolKeepsAThread'
<1>. USE DEF poolVars, serverVars, stopVars
<1>1. CASE UNCHANGED <<threads, execs, overcount, owner>>
  BY <1>1 DEF PoolKeepsAThread
<1>2. ASSUME NEW w \in Workers, WorkerStep(w)
      PROVE  UNCHANGED <<threads, execs, overcount, owner>>
  BY <1>2 DEF WorkerStep, StartThread, TaskEnds, NextTask, Evaluate, LookAtFlags, Block
<1>3. ASSUME \/ \E p \in Priorities : Emplace(p)
             \/ \E t \in Tasks : NotifyOne(t)
             \/ UNCHANGED vars
      PROVE  UNCHANGED <<threads, execs, overcount, owner>>
  BY <1>3 DEF Emplace, NotifyOne, vars
<1>4. CASE CreateExecutor
  <2>1. /\ owner = "idle" /\ UNCHANGED <<overcount, owner>>
    BY <1>4 DEF CreateExecutor, Free
  <2>2. threads' # <<>>
    <3>1. CASE Len(threads) < MaxPool
      <4>. DEFINE n == Len(threads) + PerExecutor
                  size == IF n < MaxPool THEN n ELSE MaxPool
      <4>1. size \in Nat /\ size > 0
        BY <3>1, CreateSize
      <4>2. Resize(size)
        BY <1>4, <3>1 DEF CreateExecutor
      <4>. HIDE DEF size
      <4>3. Len(threads') = size
        BY <4>1, <4>2, ResizeTypes
      <4>. QED
        BY <4>1, <4>3
    <3>2. CASE ~(Len(threads) < MaxPool)
      BY <1>4, <3>2, PoolAssumption DEF CreateExecutor, TypeOK
    <3>. QED
      BY <3>1, <3>2
  <2>. QED
    BY <2>1, <2>2 DEF PoolKeepsAThread
<1>5. CASE DestroyExecutor
  <2>1. owner = "idle" /\ UNCHANGED owner /\ execs > 0
    BY <1>5 DEF DestroyExecutor, Destroyable, Free
  <2>2. CASE UNCHANGED <<pc, poolVars, overcount>>
    BY <2>1, <2>2 DEF PoolKeepsAThread
  <2>3. CASE /\ PerExecutor <= Len(threads) /\ Resize(Len(threads) - PerExecutor)
             /\ overcount' = (overcount \/ Cardinality(Idle \cap InPool) <= PerExecutor)
    <3>. DEFINE some == Idle \cap InPool
    <3>1. CASE Cardinality(some) <= PerExecutor
      BY <2>3, <3>1 DEF PoolKeepsAThread
    <3>2. CASE ~(Cardinality(some) <= PerExecutor)
      <4>1. IsFiniteSet(InPool) /\ some \in SUBSET InPool
        BY PoolSize
      <4>2. Cardinality(some) <= Cardinality(InPool) /\ IsFiniteSet(some)
        BY <4>1, FS_Subset, Zenon
      <4>3. Cardinality(some) \in Nat
        BY <4>2, FS_CardinalityType
      <4>. HIDE DEF some
      <4>4. Len(threads) > PerExecutor /\ Len(threads) \in Nat /\ PerExecutor \in Nat
        BY <3>2, <4>2, <4>3, PoolSize, PoolAssumption DEF TypeOK
      <4>5. Len(threads) - PerExecutor \in Nat /\ Len(threads) - PerExecutor > 0
        BY <4>4
      <4>6. Len(threads') = Len(threads) - PerExecutor
        BY <2>3, <4>5, ResizeTypes
      <4>7. threads' # <<>>
        BY <4>5, <4>6
      <4>. QED
        BY <2>1, <4>7 DEF PoolKeepsAThread
    <3>. QED
      BY <3>1, <3>2
  <2>. QED
    BY <1>5, <2>2, <2>3 DEF DestroyExecutor
<1>6. CASE Terminate
  <2>. DEFINE some == Idle \cap InPool
  <2>1. IsFiniteSet(InPool) /\ some \in SUBSET InPool
    BY PoolSize
  <2>2. Cardinality(some) <= Cardinality(InPool) /\ IsFiniteSet(some)
    BY <2>1, FS_Subset, Zenon
  <2>3. Cardinality(some) \in Nat
    BY <2>2, FS_CardinalityType
  <2>4. PerExecutor > Len(threads) /\ overcount' = (overcount \/ Cardinality(some) <= PerExecutor)
    BY <1>6 DEF Terminate
  <2>. HIDE DEF some
  <2>5. Cardinality(some) <= PerExecutor
    BY <2>2, <2>3, <2>4, PoolSize, PoolAssumption DEF TypeOK
  <2>. QED
    BY <2>4, <2>5 DEF PoolKeepsAThread
<1>7. CASE StopWhenDone \/ StopNow \/ StopNotify
  <2>1. UNCHANGED <<threads, execs, overcount>> /\ owner \in {"idle", "notify"}
    BY <1>7 DEF StopWhenDone, StopNow, StopNotify
  <2>2. owner' \in {"notify", "join"}
    BY <1>7 DEF StopWhenDone, StopNow, StopNotify
  <2>. QED
    BY <2>1, <2>2 DEF PoolKeepsAThread
<1>8. CASE StopReturn
  BY <1>8 DEF StopReturn, PoolKeepsAThread
<1>. QED
  BY <1>1, <1>2, <1>3, <1>4, <1>5, <1>6, <1>7, <1>8 DEF Next, OwnerStep

\* As long as there is an executor the pool has a thread and its size does not
\* wrap, except after a shrink that counted detached threads, for any number of
\* executors, threads per executor and max_thread_num.
THEOREM KeepsAThread == Spec => []PoolKeepsAThread
<1>1. Init => PoolKeepsAThread
  BY DEF Init, PoolKeepsAThread
<1>2. TypeOK /\ TypeOK' /\ PoolKeepsAThread /\ [Next]_vars => PoolKeepsAThread'
  BY StepKeeps
<1>. QED
  BY <1>1, <1>2, PoolTypes, PTL DEF Spec
-----------------------------------------------------------------------------
(* What Stop(true) runs                                                     *)

\* Before Stop(false), only threads that left the list are flagged.
FlagOK == ~is_stop => \A i \in 1 .. Len(threads) : ~flag[threads[i]]

\* Stop is called once, and looks back on the tasks pushed so far.
PhaseOK ==
  /\ owner = "idle" => ~is_done /\ ~is_stop
  /\ ~(is_done /\ is_stop)
  /\ before \subseteq 1 .. pushed

\* None of those tasks is in the queue, or w is late: what is to be known of a
\* thread w whose look at the queue came after Stop, or was overtaken by it.
SawNone(w) == before \cap queue = {} \/ w \in late

\* A thread of the pool has ended because it saw is_done_, after the queue.
EndOK ==
  ~is_stop /\ owner # "terminated" =>
    \A i \in 1 .. Len(threads) :
      pc[threads[i]] = "end" => is_done /\ SawNone(threads[i])

\* A thread has found the queue empty, after Stop or before it.
TestedOK == \A w \in Workers : pc[w] = "tested" /\ is_done => SawNone(w)

\* mutex_ has one holder, so one thread at most is late.
MutexOK == \A v, w \in Workers : v \in Holding /\ w \in Holding => v = w
LateOK  == \A v, w \in Workers : v \in late /\ w \in late => v = w

\* A task is in the queue, in a thread's hand or finished.
Placed(t) == t \in finished \/ t \in queue \/ \E w \in Workers : hand[w] = t
Accounted ==
  ~is_stop /\ owner \in {"idle", "notify", "join"} => \A t \in 1 .. pushed : Placed(t)

LEMMA StepFlag ==
  ASSUME TypeOK, ListOK, Fresh, PhaseOK, FlagOK, [Next]_vars
  PROVE  FlagOK'
<1>. USE DEF poolVars, stopVars
<1>1. CASE UNCHANGED <<threads, flag, is_stop>>
  BY <1>1 DEF FlagOK
<1>2. ASSUME NEW w \in Workers, WorkerStep(w) PROVE UNCHANGED <<threads, flag, is_stop>>
  BY <1>2 DEF WorkerStep, StartThread, TaskEnds, NextTask, Evaluate, LookAtFlags, Block
<1>3. ASSUME \/ \E p \in Priorities : Emplace(p)
             \/ \E t \in Tasks : NotifyOne(t)
             \/ Terminate \/ StopWhenDone \/ StopNotify \/ UNCHANGED vars
      PROVE  UNCHANGED <<threads, flag, is_stop>>
  BY <1>3 DEF Emplace, NotifyOne, Terminate, StopWhenDone, StopNotify, vars
<1>4. CASE CreateExecutor \/ DestroyExecutor
  <2>1. ~is_stop /\ UNCHANGED is_stop
    BY <1>4 DEF CreateExecutor, DestroyExecutor, Free
  <2>2. ASSUME NEW n \in Nat, Resize(n), NEW i \in 1 .. Len(threads')
        PROVE  ~flag'[threads'[i]]
    <3>1. CASE i <= Len(threads) /\ threads'[i] = threads[i]
      <4>1. i \in 1 .. Len(threads)
        BY <3>1 DEF TypeOK
      <4>2. ~flag[threads'[i]]
        BY <2>1, <3>1, <4>1 DEF FlagOK
      <4>. QED
        BY <2>2, <4>2, ResizeFlags
    <3>2. CASE threads'[i] > spawned
      <4>1. threads'[i] \in Workers
        BY <2>2, ResizeTypes
      <4>. QED
        BY <2>2, <3>2, <4>1, ResizeFlags DEF Fresh
    <3>. QED
      BY <2>2, <3>1, <3>2, ResizeFlags
  <2>. QED
    BY <1>1, <1>4, <2>1, <2>2, ResizeOrNot DEF FlagOK
<1>5. CASE StopNow
  BY <1>5 DEF StopNow, FlagOK
<1>6. CASE StopReturn
  BY <1>6 DEF StopReturn, FlagOK
<1>. QED
  BY <1>1, <1>2, <1>3, <1>4, <1>5, <1>6 DEF Next, OwnerStep

LEMMA StepPhase ==
  ASSUME TypeOK, PhaseOK, [Next]_vars
  PROVE  PhaseOK'
<1>. USE DEF stopVars, pushVars
<1>1. CASE UNCHANGED <<owner, is_done, is_stop, before, pushed>>
  BY <1>1 DEF PhaseOK
<1>2. ASSUME NEW w \in Workers, WorkerStep(w)
      PROVE  UNCHANGED <<owner, is_done, is_stop, before, pushed>>
  BY <1>2 DEF WorkerStep, StartThread, TaskEnds, NextTask, Evaluate, LookAtFlags, Block
<1>3. CASE \E p \in Priorities : Emplace(p)
  BY <1>3 DEF Emplace, PhaseOK, TypeOK
<1>4. ASSUME \/ \E t \in Tasks : NotifyOne(t)
             \/ CreateExecutor \/ DestroyExecutor \/ UNCHANGED vars
      PROVE  UNCHANGED <<owner, is_done, is_stop, before, pushed>>
  BY <1>4 DEF NotifyOne, CreateExecutor, DestroyExecutor, vars
<1>5. CASE Terminate
  BY <1>5 DEF Terminate, PhaseOK
<1>6. CASE StopWhenDone
  BY <1>6 DEF StopWhenDone, PhaseOK
<1>7. CASE StopNow
  BY <1>7 DEF StopNow, PhaseOK
<1>8. CASE StopNotify \/ StopReturn
  <2>1. UNCHANGED <<is_done, is_stop, before, pushed>> /\ owner' # "idle"
    BY <1>8 DEF StopNotify, StopReturn
  <2>. QED
    BY <2>1 DEF PhaseOK
<1>. QED
  BY <1>1, <1>2, <1>3, <1>4, <1>5, <1>6, <1>7, <1>8 DEF Next, OwnerStep

\* A worker of the pool ends only when it is flagged, or when it has found the
\* queue empty and then is_done_ set.
LEMMA StepEnd ==
  ASSUME TypeOK, ListOK, Fresh, FlagOK, PhaseOK, TestedOK, EndOK, [Next]_vars
  PROVE  EndOK'
<1>. USE DEF poolVars, stopVars, serverVars, pushVars
<1>1. ASSUME NEW w \in Workers, WorkerStep(w) PROVE EndOK'
  <2>. SUFFICES ASSUME ~is_stop, owner # "terminated",
                       NEW i \in 1 .. Len(threads), pc'[threads[i]] = "end"
                PROVE  is_done /\ SawNone(threads[i])'
    BY <1>1 DEF EndOK, WorkerStep, StartThread, TaskEnds, NextTask, Evaluate, LookAtFlags, Block
  <2>1. threads[i] \in Workers /\ queue' \subseteq queue /\ UNCHANGED <<threads, before, late>>
    BY <1>1 DEF TypeOK, WorkerStep, StartThread, TaskEnds, NextTask, Evaluate, LookAtFlags, Block, TryPop
  <2>2. CASE pc[threads[i]] = "end"
    BY <2>1, <2>2 DEF EndOK, SawNone
  <2>3. CASE pc[threads[i]] # "end"
    <3>1. ~flag[threads[i]]
      BY DEF FlagOK
    <3>2. threads[i] = w
      BY <1>1, <2>1, <2>3 DEF WorkerStep, StartThread, TaskEnds, NextTask, Evaluate, LookAtFlags,
                              Block, TryPop, TypeOK
    <3>3. LookAtFlags(w)
      BY <1>1, <2>1, <2>3, <3>1, <3>2 DEF WorkerStep, StartThread, TaskEnds, NextTask, Evaluate,
                                          Block, TryPop, TypeOK
    <3>4. is_done /\ pc[w] = "tested"
      BY <2>1, <3>1, <3>2, <3>3 DEF LookAtFlags, TypeOK
    <3>. QED
      BY <2>1, <3>2, <3>4 DEF TestedOK, SawNone
  <2>. QED
    BY <2>2, <2>3
<1>2. CASE \E p \in Priorities : Emplace(p)
  <2>1. pushed' \notin before
    BY <1>2 DEF Emplace, PhaseOK, TypeOK
  <2>. QED
    BY <1>2, <2>1 DEF Emplace, EndOK, SawNone, workerVars
<1>3. CASE \E t \in Tasks : NotifyOne(t)
  <2>1. \A w \in Workers : pc'[w] = "end" => pc[w] = "end"
    BY <1>3 DEF NotifyOne, TypeOK, Waiting
  <2>2. UNCHANGED <<threads, queue, is_done, is_stop, before, late, owner>>
    BY <1>3 DEF NotifyOne
  <2>. SUFFICES ASSUME ~is_stop, owner # "terminated",
                       NEW i \in 1 .. Len(threads), pc'[threads[i]] = "end"
                PROVE  is_done /\ SawNone(threads[i])
    BY <2>2 DEF EndOK, SawNone
  <2>3. threads[i] \in Workers
    BY DEF TypeOK
  <2>4. pc[threads[i]] = "end"
    BY <2>1, <2>3
  <2>. QED
    BY <2>4 DEF EndOK
<1>4. CASE CreateExecutor \/ DestroyExecutor
  <2>1. UNCHANGED <<queue, is_done, is_stop, before, late, owner>>
    BY <1>4 DEF CreateExecutor, DestroyExecutor
  <2>2. ASSUME NEW n \in Nat, Resize(n), NEW i \in 1 .. Len(threads'), pc'[threads'[i]] = "end"
        PROVE  i \in 1 .. Len(threads) /\ threads'[i] = threads[i] /\ pc[threads[i]] = "end"
    <3>1. threads'[i] \in Workers
      BY <2>2, ResizeTypes
    <3>2. \/ pc'[threads'[i]] = pc[threads'[i]]
          \/ pc'[threads'[i]] \in {"woken", "start"}
      BY <2>2, <3>1, ResizeLabels
    <3>3. pc[threads'[i]] = "end"
      BY <2>2, <3>2
    <3>4. ~(threads'[i] > spawned)
      BY <3>1, <3>3 DEF Fresh
    <3>5. i <= Len(threads) /\ threads'[i] = threads[i]
      BY <2>2, <3>4, ResizeFlags
    <3>. QED
      BY <3>3, <3>5 DEF TypeOK
  <2>3. CASE UNCHANGED <<pc, poolVars>>
    BY <2>1, <2>3 DEF EndOK, SawNone
  <2>4. ASSUME NEW n \in Nat, Resize(n) PROVE EndOK'
    <3>. SUFFICES ASSUME ~is_stop, owner # "terminated",
                         NEW i \in 1 .. Len(threads'), pc'[threads'[i]] = "end"
                  PROVE  is_done /\ SawNone(threads[i])' /\ threads'[i] = threads[i]
      BY <2>1 DEF EndOK, SawNone
    <3>1. i \in 1 .. Len(threads) /\ threads'[i] = threads[i] /\ pc[threads[i]] = "end"
      BY <2>2, <2>4
    <3>. QED
      BY <2>1, <3>1 DEF EndOK, SawNone
  <2>. QED
    BY <1>4, <2>3, <2>4, ResizeOrNot
<1>5. CASE Terminate
  BY <1>5 DEF Terminate, EndOK
<1>6. CASE StopWhenDone
  <2>1. ~is_done /\ ~is_stop /\ owner # "terminated"
    BY <1>6 DEF StopWhenDone, PhaseOK
  <2>. QED
    BY <1>6, <2>1 DEF StopWhenDone, EndOK, workerVars
<1>7. CASE StopNow
  BY <1>7 DEF StopNow, EndOK
<1>8. CASE StopNotify
  <2>1. \A w \in Workers : pc'[w] = "end" => pc[w] = "end"
    BY <1>8 DEF StopNotify, NotifyAll, TypeOK
  <2>2. UNCHANGED <<threads, queue, is_done, is_stop, before, late>> /\ owner = "notify"
    BY <1>8 DEF StopNotify
  <2>. QED
    BY <2>1, <2>2 DEF EndOK, SawNone, TypeOK
<1>9. CASE StopReturn
  BY <1>9 DEF StopReturn, EndOK
<1>10. CASE UNCHANGED vars
  BY <1>10 DEF vars, EndOK, SawNone, workerVars
<1>. QED
  BY <1>1, <1>2, <1>3, <1>4, <1>5, <1>6, <1>7, <1>8, <1>9, <1>10 DEF Next, OwnerStep

\* The queue was empty at the look of a thread; what is pushed later is not in
\* before, unless Stop comes later still: then the thread is late.
LEMMA StepTested ==
  ASSUME TypeOK, Fresh, PhaseOK, TestedOK, [Next]_vars
  PROVE  TestedOK'
<1>. USE DEF poolVars, stopVars, serverVars, pushVars
<1>1. ASSUME NEW w \in Workers, WorkerStep(w) PROVE TestedOK'
  <2>. SUFFICES ASSUME NEW v \in Workers, pc'[v] = "tested", is_done PROVE SawNone(v)'
    BY <1>1 DEF TestedOK, WorkerStep, StartThread, TaskEnds, NextTask, Evaluate, LookAtFlags, Block
  <2>1. queue' \subseteq queue /\ UNCHANGED <<before, late>>
    BY <1>1 DEF TypeOK, WorkerStep, StartThread, TaskEnds, NextTask, Evaluate, LookAtFlags, Block, TryPop
  <2>2. CASE pc[v] = "tested"
    BY <2>1, <2>2 DEF TestedOK, SawNone
  <2>3. CASE pc[v] # "tested"
    <3>1. Evaluate(w)
      BY <1>1, <2>3 DEF WorkerStep, StartThread, TaskEnds, NextTask, LookAtFlags, Block, TryPop, TypeOK
    <3>2. queue' = {}
      BY <2>3, <3>1 DEF Evaluate, TryPop, TypeOK
    <3>. QED
      BY <3>2 DEF SawNone
  <2>. QED
    BY <2>2, <2>3
<1>2. CASE \E p \in Priorities : Emplace(p)
  <2>1. pushed' \notin before
    BY <1>2 DEF Emplace, PhaseOK, TypeOK
  <2>. QED
    BY <1>2, <2>1 DEF Emplace, TestedOK, SawNone, workerVars
<1>3. ASSUME \/ \E t \in Tasks : NotifyOne(t)
             \/ CreateExecutor \/ DestroyExecutor \/ StopNotify
      PROVE  TestedOK'
  <2>1. UNCHANGED <<queue, is_done, before, late>>
    BY <1>3 DEF NotifyOne, CreateExecutor, DestroyExecutor, StopNotify
  <2>2. ASSUME NEW v \in Workers, pc'[v] = "tested" PROVE pc[v] = "tested"
    <3>1. CASE \E t \in Tasks : NotifyOne(t)
      BY <2>2, <3>1 DEF NotifyOne, TypeOK
    <3>2. CASE CreateExecutor \/ DestroyExecutor
      BY <2>2, <3>2, ResizeOrNot, ResizeLabels
    <3>3. CASE StopNotify
      BY <2>2, <3>3 DEF StopNotify, NotifyAll, TypeOK
    <3>. QED
      BY <1>3, <3>1, <3>2, <3>3
  <2>. QED
    BY <2>1, <2>2 DEF TestedOK, SawNone
<1>4. CASE Terminate
  BY <1>4 DEF Terminate, TestedOK, SawNone
<1>5. CASE StopWhenDone
  BY <1>5 DEF StopWhenDone, TestedOK, SawNone, workerVars
<1>6. CASE StopNow \/ StopReturn
  BY <1>6 DEF StopNow, StopReturn, TestedOK, SawNone, workerVars
<1>7. CASE UNCHANGED vars
  BY <1>7 DEF vars, TestedOK, SawNone, workerVars
<1>. QED
  BY <1>1, <1>2, <1>3, <1>4, <1>5, <1>6, <1>7 DEF Next, OwnerStep

\* Only Evaluate takes mutex_ and keeps it, and it finds nobody holding it.
LEMMA StepMutex ==
  ASSUME TypeOK, MutexOK, [Next]_vars
  PROVE  MutexOK'
<1>. USE DEF MutexOK, Holding
<1>1. ASSUME NEW w \in Workers, WorkerStep(w) PROVE MutexOK'
  <2>1. CASE Evaluate(w)
    BY <2>1 DEF Evaluate, MutexFree, TryPop, TypeOK
  <2>2. CASE LookAtFlags(w)
    BY <2>2 DEF LookAtFlags, TypeOK
  <2>3. CASE StartThread(w) \/ TaskEnds(w) \/ NextTask(w) \/ Block(w)
    BY <2>3 DEF StartThread, TaskEnds, NextTask, Block, TryPop, TypeOK
  <2>. QED
    BY <1>1, <2>1, <2>2, <2>3 DEF WorkerStep
<1>2. ASSUME NEW v \in Workers, v \in Holding', ~ \E w \in Workers : WorkerStep(w)
      PROVE  v \in Holding
  <2>1. CASE \/ \E p \in Priorities : Emplace(p)
             \/ StopWhenDone \/ StopNow \/ StopReturn \/ UNCHANGED vars
    BY <1>2, <2>1 DEF Emplace, StopWhenDone, StopNow, StopReturn, vars, workerVars
  <2>2. CASE \E t \in Tasks : NotifyOne(t)
    BY <1>2, <2>2 DEF NotifyOne, TypeOK
  <2>3. CASE CreateExecutor \/ DestroyExecutor
    BY <1>2, <2>3, ResizeOrNot, ResizeLabels
  <2>4. CASE Terminate
    BY <1>2, <2>4 DEF Terminate, TypeOK
  <2>5. CASE StopNotify
    BY <1>2, <2>5 DEF StopNotify, NotifyAll, TypeOK
  <2>. QED
    BY <1>2, <2>1, <2>2, <2>3, <2>4, <2>5 DEF Next, OwnerStep
<1>. QED
  BY <1>1, <1>2

LEMMA StepLate ==
  ASSUME TypeOK, MutexOK, LateOK, [Next]_vars
  PROVE  LateOK'
<1>. USE DEF LateOK, stopVars
<1>1. CASE UNCHANGED late
  BY <1>1
<1>2. CASE StopWhenDone
  BY <1>2 DEF StopWhenDone, MutexOK, Holding
<1>3. ASSUME NEW w \in Workers, WorkerStep(w) PROVE UNCHANGED late
  BY <1>3 DEF WorkerStep, StartThread, TaskEnds, NextTask, Evaluate, LookAtFlags, Block
<1>4. ASSUME \/ \E p \in Priorities : Emplace(p)
             \/ \E t \in Tasks : NotifyOne(t)
             \/ CreateExecutor \/ DestroyExecutor \/ Terminate
             \/ StopNow \/ StopNotify \/ StopReturn \/ UNCHANGED vars
      PROVE  UNCHANGED late
  BY <1>4 DEF Emplace, NotifyOne, CreateExecutor, DestroyExecutor, Terminate, StopNow,
              StopNotify, StopReturn, vars
<1>. QED
  BY <1>1, <1>2, <1>3, <1>4 DEF Next, OwnerStep

LEMMA TryPopPlaces ==
  ASSUME TypeOK, NEW w \in Workers, hand[w] = NoTask, NEW other, TryPop(w, other),
         UNCHANGED finished, NEW t \in 1 .. MaxTask, Placed(t)
  PROVE  Placed(t)'
<1>1. t # NoTask
  BY DEF NoTask
<1>2. ASSUME NEW u \in Top, queue' = queue \ {u}, hand' = [hand EXCEPT ![w] = u]
      PROVE  Placed(t)'
  BY <1>1, <1>2 DEF Placed, TypeOK
<1>3. CASE UNCHANGED <<queue, hand>>
  BY <1>3 DEF Placed
<1>. QED
  BY <1>2, <1>3 DEF TryPop

LEMMA StepAccounted ==
  ASSUME TypeOK, Hands, PhaseOK, Accounted, [Next]_vars
  PROVE  Accounted'
<1>. USE DEF poolVars, stopVars, serverVars, pushVars, workerVars
<1>1. CASE UNCHANGED <<is_stop, owner, pushed, finished, queue, hand>>
  BY <1>1 DEF Accounted, Placed
<1>2. ASSUME NEW w \in Workers, WorkerStep(w) PROVE Accounted'
  <2>. SUFFICES ASSUME ~is_stop, owner \in {"idle", "notify", "join"}, NEW t \in 1 .. pushed
                PROVE  Placed(t)'
    BY <1>2 DEF Accounted, WorkerStep, StartThread, TaskEnds, NextTask, Evaluate, LookAtFlags, Block
  <2>1. Placed(t) /\ t \in 1 .. MaxTask
    BY PoolAssumption DEF Accounted, TypeOK
  <2>2. CASE StartThread(w)
    BY <2>1, <2>2, TryPopPlaces DEF StartThread, Hands
  <2>3. CASE TaskEnds(w)
    BY <2>1, <2>3 DEF TaskEnds, Placed, TypeOK
  <2>4. CASE NextTask(w)
    <3>1. CASE UNCHANGED <<queue, hand>>
      BY <2>1, <2>4, <3>1 DEF NextTask, Placed
    <3>2. CASE TryPop(w, "lock")
      BY <2>1, <2>4, <3>2, TryPopPlaces DEF NextTask, Hands
    <3>. QED
      BY <2>4, <3>1, <3>2 DEF NextTask
  <2>5. CASE Evaluate(w)
    BY <2>1, <2>5, TryPopPlaces DEF Evaluate, Hands
  <2>6. CASE Block(w)
    BY <2>1, <2>6 DEF Block, Placed
  <2>7. CASE LookAtFlags(w)
    BY <2>1, <2>7 DEF LookAtFlags, Placed
  <2>. QED
    BY <1>2, <2>2, <2>3, <2>4, <2>5, <2>6, <2>7 DEF WorkerStep
<1>3. CASE \E p \in Priorities : Emplace(p)
  <2>. SUFFICES ASSUME ~is_stop, owner \in {"idle", "notify", "join"}, NEW t \in 1 .. pushed'
                PROVE  Placed(t)'
    BY <1>3 DEF Accounted, Emplace
  <2>1. t \in 1 .. pushed \/ t = pushed'
    BY <1>3 DEF Emplace, TypeOK
  <2>. QED
    BY <1>3, <2>1 DEF Emplace, Accounted, Placed
<1>4. ASSUME \/ \E t \in Tasks : NotifyOne(t)
             \/ CreateExecutor \/ DestroyExecutor \/ UNCHANGED vars
      PROVE  UNCHANGED <<is_stop, owner, pushed, finished, queue, hand>>
  BY <1>4 DEF NotifyOne, CreateExecutor, DestroyExecutor, vars
<1>5. CASE Terminate
  BY <1>5 DEF Terminate, Accounted
<1>6. CASE StopWhenDone
  BY <1>6 DEF StopWhenDone, Accounted, Placed
<1>7. CASE StopNow
  BY <1>7 DEF StopNow, Accounted
<1>8. CASE StopNotify
  BY <1>8 DEF StopNotify, Accounted, Placed
<1>9. CASE StopReturn
  BY <1>9 DEF StopReturn, Accounted
<1>. QED
  BY <1>1, <1>2, <1>3, <1>4, <1>5, <1>6, <1>7, <1>8, <1>9 DEF Next, OwnerStep

PoolInv ==
  /\ TypeOK /\ ListOK /\ Fresh /\ Hands
  /\ FlagOK /\ PhaseOK /\ MutexOK /\ LateOK
  /\ TestedOK /\ EndOK /\ Accounted

LEMMA PoolInvariant == Spec => []PoolInv
<1>1. Init => PoolInv
  BY InitTypes DEF Init, PoolInv, ListOK, Fresh, Hands, FlagOK, PhaseOK, MutexOK, Holding, LateOK,
                   TestedOK, EndOK, Accounted
<1>2. PoolInv /\ [Next]_vars => PoolInv'
  BY StepTypes, StepList, StepFresh, StepHands, StepFlag, StepPhase, StepMutex, StepLate,
     StepTested, StepEnd, StepAccounted
     DEF PoolInv
<1>. QED
  BY <1>1, <1>2, PTL DEF Spec

\* When all threads of the pool have ended, nothing is left in the queue, unless
\* the only thread was late.
LEMMA ReturnsEmpty ==
  ASSUME PoolInv, [Next]_vars, StoppedWhenDone, NEW t \in before
  PROVE  RanOrDetached(t) \/ (Len(threads) = 1 /\ threads[1] \in late)
<1>1. StopReturn
  <2>1. ASSUME NEW w \in Workers, WorkerStep(w) PROVE UNCHANGED owner
    BY <2>1 DEF WorkerStep, StartThread, TaskEnds, NextTask, Evaluate, LookAtFlags, Block, stopVars
  <2>2. ASSUME \/ \E p \in Priorities : Emplace(p)
               \/ \E u \in Tasks : NotifyOne(u)
               \/ CreateExecutor \/ DestroyExecutor \/ UNCHANGED vars
        PROVE  UNCHANGED owner
    BY <2>2 DEF Emplace, NotifyOne, CreateExecutor, DestroyExecutor, vars, stopVars
  <2>3. ~(Terminate \/ StopWhenDone \/ StopNow \/ StopNotify)
    BY DEF StoppedWhenDone, Terminate, StopWhenDone, StopNow, StopNotify, Free
  <2>. QED
    BY <2>1, <2>2, <2>3 DEF StoppedWhenDone, Next, OwnerStep
<1>2. ~is_stop /\ before \subseteq 1 .. pushed
  BY DEF PoolInv, PhaseOK, StoppedWhenDone
<1>3. CASE t \in queue
  <2>1. \A i \in 1 .. Len(threads) : threads[i] \in late /\ threads[i] \in Workers
    <3>1. \A i \in 1 .. Len(threads) : threads[i] \in InPool /\ threads[i] \in Workers
      BY DEF PoolInv, TypeOK, InPool
    <3>2. owner # "terminated" /\ \A i \in 1 .. Len(threads) : pc[threads[i]] = "end"
      BY <1>1, <3>1 DEF StopReturn, Ended
    <3>3. \A i \in 1 .. Len(threads) : SawNone(threads[i])
      BY <1>2, <3>2 DEF PoolInv, EndOK
    <3>. QED
      BY <1>3, <3>1, <3>3 DEF SawNone
  <2>2. \A i, j \in 1 .. Len(threads) : i = j
    BY <2>1 DEF PoolInv, LateOK, ListOK
  <2>3. Len(threads) \in Nat /\ Len(threads) # 0
    BY DEF PoolInv, TypeOK, StoppedWhenDone
  <2>4. ASSUME Len(threads) > 1 PROVE FALSE
    <3>1. 1 \in 1 .. Len(threads) /\ 2 \in 1 .. Len(threads)
      BY <2>3, <2>4
    <3>2. 1 = 2
      BY <2>2, <3>1
    <3>. QED
      BY <3>2
  <2>5. Len(threads) = 1
    <3>. DEFINE n == Len(threads)
    <3>1. n \in Nat /\ n # 0 /\ ~(n > 1)
      BY <2>3, <2>4
    <3>. HIDE DEF n
    <3>2. n = 1
      BY <3>1
    <3>. QED
      BY <3>2 DEF n
  <2>. QED
    BY <2>1, <2>5
<1>4. CASE t \notin queue
  <2>1. Placed(t) /\ t # NoTask
    BY <1>2 DEF PoolInv, Accounted, NoTask, StoppedWhenDone
  <2>2. ASSUME NEW w \in Workers, hand[w] = t PROVE w \notin InPool
    <3>1. pc[w] = "run"
      BY <2>1, <2>2 DEF PoolInv, Hands, StoppedWhenDone
    <3>. QED
      BY <1>1, <3>1 DEF StopReturn, Ended
  <2>. QED
    BY <1>4, <2>1, <2>2 DEF Placed, RanOrDetached
<1>. QED
  BY <1>3, <1>4

\* Stop(true) drops a task that was pushed before it only if the pool has a single
\* thread, and that thread was between its look at the queue and its look at
\* is_done_; tasks in the hands of detached threads go on running.  For any number
\* of threads and tasks and any sequence of resizes before it.
THEOREM StopRunsAllUnlessLate == Spec => StopDropsOnlyLate
<1>1. PoolInv /\ [Next]_vars =>
        [StoppedWhenDone =>
           \A t \in before : RanOrDetached(t) \/ (Len(threads) = 1 /\ threads[1] \in late)]_owner
  BY ReturnsEmpty
<1>. QED
  BY <1>1, PoolInvariant, PTL DEF Spec, StopDropsOnlyLate
=============================================================================
