----------------------------- MODULE ThreadPool -----------------------------
(***************************************************************************)
(* The priority thread pool of the inference server (easydk/src/           *)
(* infer_server/util/thread_pool.{h,cpp} over threadsafe_queue.h): the     *)
(* executors push tasks, worker threads run them, and one caller at a time *)
(* resizes and stops the pool (thread_pool.h:134 forbids more).  Resize is *)
(* called when the server (core/infer_server.cpp) creates or destroys an   *)
(* executor.                                                               *)
(*                                                                         *)
(* A worker that finds the queue empty takes mutex_ and evaluates the wait *)
(* predicate: it looks at the queue, then at is_done_ and its flag, and    *)
(* blocks.  VoidPush and the first store of Stop do without mutex_, so     *)
(* these are three steps; mutex_ is held in between.                       *)
(* Threads and tasks are named by the order in which they are created.     *)
(***************************************************************************)
EXTENDS Integers, Sequences, FiniteSets

CONSTANTS
  MaxThread,   (* bound: threads ever created                              *)
  MaxTask,     (* bound: calls of VoidPush                                 *)
  MaxExecutor, (* bound: executors at a time                               *)
  PerExecutor, (* threads per executor: 4 * engine_num                     *)
  MaxPool,     (* max_thread_num                                           *)
  Priorities   (* priorities of tasks                                      *)

ASSUME PoolAssumption ==
  /\ MaxThread \in Nat /\ MaxTask \in Nat /\ MaxExecutor \in Nat
  /\ PerExecutor \in Nat \ {0} /\ MaxPool \in Nat \ {0}
  /\ Priorities \subseteq Int

Workers == 1 .. MaxThread
Tasks   == 1 .. MaxTask
NoTask  == 0

VARIABLES
  threads,   (* threads_                                                  *)
  spawned,   (* number of threads created                                 *)
  flag,      (* *flags_ of each thread: it is wanted to stop              *)
  pc,        (* where each thread is                                      *)
  hand,      (* the task it has popped                                    *)
  queue,     (* task_q_                                                   *)
  pushed,    (* number of tasks pushed                                    *)
  prio,      (* Task::priority                                            *)
  notifying, (* tasks whose VoidPush has not called notify_one yet        *)
  finished,  (* history: tasks that have run                              *)
  is_done,   (* is_done_                                                  *)
  is_stop,   (* is_stop_                                                  *)
  owner,     (* where the thread in Stop is                               *)
  before,    (* history: tasks that had not run when Stop was called      *)
  late,      (* history: the thread that had found the queue empty and    *)
             (* not yet looked at is_done_ when Stop set it               *)
  execs,     (* number of executors                                       *)
  overcount, (* history: a decision to shrink counted detached threads    *)
  missed     (* history: tasks whose notify_one found a thread between    *)
             (* its predicate and its wait, and nobody waiting            *)

workerVars == <<pc, hand, finished>>
poolVars   == <<threads, spawned, flag>>
serverVars == <<execs, overcount>>
pushVars   == <<pushed, prio, notifying, missed>>
stopVars   == <<is_done, is_stop, owner, before, late>>
vars == <<workerVars, poolVars, pushVars, stopVars, serverVars, queue>>

InPool == {threads[i] : i \in DOMAIN threads}     \* not detached
Ended  == {w \in Workers : pc[w] = "end"}

\* mutex_ is held across steps only in a predicate and between it and its wait
Holding   == {w \in Workers : pc[w] \in {"tested", "held"}}
MutexFree == Holding = {}

\* n_waiting_: threads between ++n_waiting_ and --n_waiting_
Idle == {w \in Workers : pc[w] \in {"tested", "held", "wait", "woken"}}
IdleNumber == Cardinality(Idle)

\* the tasks TryPop may return: those of the highest priority
Top == {t \in queue : \A u \in queue : prio[u] <= prio[t]}

Init ==
  /\ threads = <<>> /\ spawned = 0
  /\ flag = [w \in Workers |-> FALSE]
  /\ pc = [w \in Workers |-> "none"]
  /\ hand = [w \in Workers |-> NoTask]
  /\ queue = {} /\ pushed = 0 /\ prio = [t \in Tasks |-> 0]
  /\ notifying = {} /\ finished = {}
  /\ is_done = FALSE /\ is_stop = FALSE /\ owner = "idle"
  /\ before = {} /\ late = {}
  /\ missed = {}
  /\ execs = 0 /\ overcount = FALSE
-----------------------------------------------------------------------------
(* The worker thread of SetThread                                           *)

\* Variant: TryPop does not test for an empty queue.
TryPopUnchecked(w, otherwise) ==
  \/ \E t \in Top :
       /\ queue' = queue \ {t}
       /\ hand' = [hand EXCEPT ![w] = t]
       /\ pc' = [pc EXCEPT ![w] = "run"]
  \/ /\ queue = {}
     /\ pc' = [pc EXCEPT ![w] = "run"]
     /\ UNCHANGED <<queue, hand>>

\* have_task = task_q_.TryPop(t): run the task, or go on to otherwise.
TryPop(w, otherwise) ==
  \/ \E t \in Top :
       /\ queue' = queue \ {t}
       /\ hand' = [hand EXCEPT ![w] = t]
       /\ pc' = [pc EXCEPT ![w] = "run"]
  \/ /\ queue = {}
     /\ pc' = [pc EXCEPT ![w] = otherwise]
     /\ UNCHANGED <<queue, hand>>

StartThread(w) ==
  /\ pc[w] = "start"
  /\ TryPop(w, "lock")
  /\ UNCHANGED <<finished, poolVars, pushVars, stopVars, serverVars>>

\* t(); t.func = nullptr
TaskEnds(w) ==
  /\ pc[w] = "run"
  /\ finished' = finished \cup {hand[w]}
  /\ hand' = [hand EXCEPT ![w] = NoTask]
  /\ pc' = [pc EXCEPT ![w] = "next"]
  /\ UNCHANGED <<queue, poolVars, pushVars, stopVars, serverVars>>

\* the flag is tested after every task, even if the queue is not empty yet
NextTask(w) ==
  /\ pc[w] = "next"
  /\ IF flag[w]
     THEN /\ pc' = [pc EXCEPT ![w] = "end"]
          /\ UNCHANGED <<queue, hand>>
     ELSE TryPop(w, "lock")
  /\ UNCHANGED <<finished, poolVars, pushVars, stopVars, serverVars>>

\* Variant: the predicate asks the flags before it asks the queue.
EvaluateFlagsFirst(w) ==
  /\ pc[w] \in {"lock", "woken"} /\ MutexFree
  /\ IF is_done \/ flag[w]
     THEN /\ pc' = [pc EXCEPT ![w] = "end"]
          /\ UNCHANGED <<queue, hand>>
     ELSE TryPop(w, "tested")
  /\ UNCHANGED <<finished, poolVars, pushVars, stopVars, serverVars>>

\* The predicate of cv_, evaluated with mutex_, first looks at the queue.
Evaluate(w) ==
  /\ pc[w] \in {"lock", "woken"} /\ MutexFree
  /\ TryPop(w, "tested")
  /\ UNCHANGED <<finished, poolVars, pushVars, stopVars, serverVars>>

\* If it was empty, the predicate looks at is_done_ and the flag, one after the
\* other; without mutex_ only one of them can change, so that is one step.
LookAtFlags(w) ==
  /\ pc[w] = "tested"
  /\ pc' = [pc EXCEPT ![w] = IF is_done \/ flag[w] THEN "end" ELSE "held"]
  /\ UNCHANGED <<hand, finished, queue, poolVars, pushVars, stopVars, serverVars>>

\* cv_.wait releases mutex_
Block(w) ==
  /\ pc[w] = "held"
  /\ pc' = [pc EXCEPT ![w] = "wait"]
  /\ UNCHANGED <<hand, finished, queue, poolVars, pushVars, stopVars, serverVars>>
-----------------------------------------------------------------------------
(* VoidPush                                                                 *)

\* task_q_.Emplace
Emplace(p) ==
  /\ execs > 0 /\ pushed < MaxTask
  /\ pushed' = pushed + 1
  /\ prio' = [prio EXCEPT ![pushed'] = p]
  /\ queue' = queue \cup {pushed'}
  /\ notifying' = notifying \cup {pushed'}
  /\ UNCHANGED <<missed, workerVars, poolVars, stopVars, serverVars>>

Waiting == {w \in Workers : pc[w] = "wait"}

\* Variant: nobody is notified.
NotifyNobody(t) ==
  /\ t \in notifying
  /\ notifying' = notifying \ {t}
  /\ missed' = missed \cup {u \in {t} \cap queue : Waiting = {} /\ ~MutexFree}
  /\ UNCHANGED <<workerVars, queue, pushed, prio, poolVars, stopVars, serverVars>>

\* cv_.notify_one, without mutex_
NotifyOne(t) ==
  /\ t \in notifying
  /\ notifying' = notifying \ {t}
  /\ \/ \E w \in Waiting : pc' = [pc EXCEPT ![w] = "woken"]
     \/ Waiting = {} /\ UNCHANGED pc
  /\ missed' = missed \cup {u \in {t} \cap queue : Waiting = {} /\ ~MutexFree}
  /\ UNCHANGED <<hand, finished, queue, pushed, prio, poolVars, stopVars, serverVars>>

-----------------------------------------------------------------------------
(* Resize and Stop                                                          *)

NotifyAll == pc' = [w \in Workers |-> IF pc[w] = "wait" THEN "woken" ELSE pc[w]]

Grow(n) ==
  /\ n >= Len(threads) /\ spawned + n - Len(threads) <= MaxThread
  /\ LET more == n - Len(threads) IN
       /\ threads' = threads \o [i \in 1 .. more |-> spawned + i]
       /\ spawned' = spawned + more
       /\ pc' = [w \in Workers |-> IF w \in spawned + 1 .. spawned + more THEN "start" ELSE pc[w]]
  /\ UNCHANGED flag

\* The last threads are detached, whether they are idle or not.
Shrink(n) ==
  /\ n < Len(threads) /\ MutexFree
  /\ flag' = [w \in Workers |-> flag[w] \/ \E i \in n + 1 .. Len(threads) : threads[i] = w]
  /\ threads' = SubSeq(threads, 1, n)
  /\ NotifyAll
  /\ UNCHANGED spawned

Resize(n) == Grow(n) \/ Shrink(n)

\* The caller of Resize and Stop is not in Stop, and Resize does something.
Free == owner = "idle" /\ ~is_stop /\ ~is_done

\* InferServerPrivate::CreateExecutor adds threads for the new executor.
CreateExecutor ==
  /\ Free /\ execs < MaxExecutor
  /\ execs' = execs + 1
  /\ IF Len(threads) < MaxPool
     THEN LET n == Len(threads) + PerExecutor IN Resize(IF n < MaxPool THEN n ELSE MaxPool)
     ELSE UNCHANGED <<pc, poolVars>>
  /\ UNCHANGED <<hand, finished, queue, overcount, pushVars, stopVars>>

\* An executor can be destroyed when its tasks are done; all tasks there are
\* may belong to one executor.
Destroyable ==
  /\ execs > 0
  /\ execs = 1 => queue = {} /\ notifying = {} /\ \A w \in Workers : hand[w] = NoTask

\* Variant: the pool shrinks without a look at IdleNumber.
AlwaysShrink ==
  /\ Free /\ Destroyable
  /\ execs' = execs - 1
  /\ PerExecutor <= Len(threads) /\ Resize(Len(threads) - PerExecutor)
  /\ UNCHANGED <<hand, finished, queue, overcount, pushVars, stopVars>>

\* InferServerPrivate::CheckAndDestroyExecutor: "shrink to fit task load", if
\* n_waiting_ says that enough threads are idle.  Size() - th_num is unsigned.
DestroyExecutor ==
  /\ Free /\ Destroyable
  /\ execs' = execs - 1
  /\ \/ /\ IdleNumber <= PerExecutor
        /\ UNCHANGED <<pc, poolVars, overcount>>
     \/ /\ IdleNumber > PerExecutor /\ PerExecutor <= Len(threads)
        /\ Resize(Len(threads) - PerExecutor)
        /\ overcount' = (overcount \/ Cardinality(Idle \cap InPool) <= PerExecutor)
  /\ UNCHANGED <<hand, finished, queue, pushVars, stopVars>>

\* Size() - th_num wraps around: vector::resize throws in the noexcept Resize
\* and the process terminates.
Terminate ==
  /\ Free /\ Destroyable
  /\ IdleNumber > PerExecutor /\ PerExecutor > Len(threads)
  /\ owner' = "terminated" /\ execs' = 0
  /\ overcount' = (overcount \/ Cardinality(Idle \cap InPool) <= PerExecutor)
  /\ pc' = [w \in Workers |-> IF pc[w] = "none" THEN "none" ELSE "end"]
  /\ queue' = {} /\ notifying' = {}
  /\ UNCHANGED <<hand, finished, is_done, is_stop, before, late, poolVars, pushed, prio, missed>>

\* Stop(true), also from ~ThreadPool: the threads drain the queue.
StopWhenDone ==
  /\ owner = "idle"
  /\ is_done' = TRUE /\ owner' = "notify"
  /\ before' = 1 .. pushed \ finished
  /\ late' = {w \in Workers : pc[w] = "tested"}
  /\ UNCHANGED <<is_stop, queue, workerVars, poolVars, pushVars, serverVars>>

\* Stop(false): the queue is cleared.
StopNow ==
  /\ owner = "idle"
  /\ is_stop' = TRUE /\ owner' = "notify"
  /\ flag' = [w \in Workers |-> flag[w] \/ w \in InPool]
  /\ queue' = {}
  /\ UNCHANGED <<is_done, before, late, threads, spawned, workerVars, pushVars, serverVars>>

\* Variant: notify_all without mutex_ ("may stuck on thread::join").
StopNotifyUnlocked ==
  /\ owner = "notify"
  /\ owner' = "join"
  /\ NotifyAll
  /\ UNCHANGED <<hand, finished, queue, is_done, is_stop, before, late, poolVars, pushVars, serverVars>>

StopNotify ==
  /\ owner = "notify" /\ MutexFree
  /\ owner' = "join"
  /\ NotifyAll
  /\ UNCHANGED <<hand, finished, queue, is_done, is_stop, before, late, poolVars, pushVars, serverVars>>

\* All joined: what is left in the queue is dropped.
StopReturn ==
  /\ owner = "join" /\ InPool \subseteq Ended
  /\ owner' = "stopped"
  /\ queue' = {} /\ threads' = <<>>
  /\ UNCHANGED <<is_done, is_stop, before, late, spawned, flag, workerVars, pushVars, serverVars>>
-----------------------------------------------------------------------------
WorkerStep(w) ==
  StartThread(w) \/ TaskEnds(w) \/ NextTask(w) \/ Evaluate(w) \/ LookAtFlags(w) \/ Block(w)
OwnerStep == StopNotify \/ StopReturn

Next ==
  \/ \E w \in Workers : WorkerStep(w)
  \/ \E p \in Priorities : Emplace(p)
  \/ \E t \in Tasks : NotifyOne(t)
  \/ CreateExecutor \/ DestroyExecutor \/ Terminate
  \/ StopWhenDone \/ StopNow \/ OwnerStep

Spec == Init /\ [][Next]_vars

\* Threads are scheduled, tasks end and a call that was begun goes on; nobody
\* has to push, create, destroy or stop.
FairSpec ==
  /\ Spec
  /\ \A w \in Workers : WF_vars(WorkerStep(w))
  /\ \A t \in Tasks : WF_vars(NotifyOne(t))
  /\ WF_vars(OwnerStep)
-----------------------------------------------------------------------------
Labels == {"none", "start", "run", "next", "lock", "tested", "held", "wait", "woken", "end"}

\* Types of all variables.
TypeOK ==
  /\ threads \in Seq(Workers) /\ spawned \in 0 .. MaxThread
  /\ flag \in [Workers -> BOOLEAN] /\ pc \in [Workers -> Labels]
  /\ hand \in [Workers -> Tasks \cup {NoTask}]
  /\ queue \subseteq Tasks /\ pushed \in 0 .. MaxTask /\ prio \in [Tasks -> Int]
  /\ notifying \subseteq Tasks /\ finished \subseteq Tasks
  /\ before \subseteq Tasks /\ late \subseteq Workers /\ missed \subseteq Tasks
  /\ is_done \in BOOLEAN /\ is_stop \in BOOLEAN
  /\ owner \in {"idle", "notify", "join", "stopped", "terminated"}
  /\ execs \in 0 .. MaxExecutor /\ overcount \in BOOLEAN

\* A task has run, or a thread that Resize detached still has it in hand:
\* detached threads are not joined.
RanOrDetached(t) == t \in finished \/ \E w \in Workers \ InPool : hand[w] = t

\* Stop(true) of a pool that has threads returns.
StoppedWhenDone == owner = "join" /\ owner' = "stopped" /\ is_done /\ threads # <<>>

\* Stop(true) is to return only when "all the functions in the queue are run"
\* (thread_pool.h:149).  The code breaks this in one case, which the property
\* excepts: the pool has a single thread, and that thread had found the queue empty
\* and not yet looked at is_done_ when Stop set it (thread_pool.cpp:150); a task
\* pushed in between is dropped.  With another thread the queue is drained.
StopDropsOnlyLate ==
  [][StoppedWhenDone =>
       \A t \in before : RanOrDetached(t) \/ (Len(threads) = 1 /\ threads[1] \in late)]_owner

\* As long as there is an executor the pool has a thread to run its tasks, and
\* the size it is shrunk to does not wrap around.  The code keeps this except
\* when n_waiting_ still counts threads that an earlier shrink has detached: two
\* executors destroyed in quick succession take each other's threads.
PoolKeepsAThread ==
  \/ overcount
  \/ /\ owner # "terminated"
     /\ owner \in {"idle", "notify", "join"} /\ execs > 0 => threads # <<>>

\* A pushed task leaves the queue, except when VoidPush, which notifies without
\* mutex_, has missed a thread that was about to wait, or the pool has no threads.
TaskRunsOrMissed ==
  \A t \in Tasks : t \in queue ~> t \notin queue \/ t \in missed \/ threads = <<>>

\* A thread that is told to stop, by Resize or by Stop, ends whatever it was
\* doing ("may stuck on thread::join if no lock here", thread_pool.cpp:97).
CalledThreadsEnd ==
  \A w \in Workers :
    pc[w] # "none" /\ (flag[w] \/ (is_done /\ owner = "join")) ~> pc[w] = "end"
=============================================================================
