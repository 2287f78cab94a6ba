------------------------------ MODULE Executor ------------------------------
(***************************************************************************)
(* The executor of the inference server, from Upload to the report of each *)
(* piece of data (easydk/src/infer_server): the cache with its batcher and *)
(* the batcher's timer (core/cache.h, util/batcher.h, util/timer.cpp), the *)
(* dispatch thread (core/session.cpp) and the engines (core/engine.cpp).   *)
(*                                                                         *)
(* A request is one Package sent by one thread; a piece <<r, i>> is one of *)
(* its InferData.  A batch is a sequence of pieces.  The thread pool is    *)
(* abstracted to: a task that was pushed runs at some time (ThreadPool).   *)
(* Sections that hold one of the mutexes are one step; where a thread      *)
(* keeps a mutex between its predicate and its wait, it is "held".         *)
(***************************************************************************)
EXTENDS Integers, Sequences, FiniteSets

CONSTANTS
  MaxRequest, (* bound: packages sent                                     *)
  DataNum,    (* pieces of each package                                   *)
  BatchSize,
  Engines,    (* engines_, 1 .. engine_num                                *)
  MaxLoad,    (* nodes of an engine                                       *)
  Strategies, (* batch strategies an executor may have                    *)
  Timeouts,   (* whether batch_timeout may be non-zero                    *)
  MaxDiscard, (* bound: requests discarded                                *)
  MaxFlush    (* bound: calls of FlushCache                               *)

ASSUME ExecutorAssumption ==
  /\ MaxRequest \in Nat /\ DataNum \in Nat \ {0} /\ BatchSize \in Nat \ {0}
  /\ Engines \subseteq Nat \ {0} /\ Engines # {} /\ MaxLoad \in Nat \ {0}
  /\ Strategies \subseteq {"DYNAMIC", "STATIC"} /\ Timeouts \subseteq BOOLEAN
  /\ MaxDiscard \in Nat /\ MaxFlush \in Nat

Requests == 1 .. MaxRequest
Pieces   == Requests \X (1 .. DataNum)
None     == 0

\* Threads that may emit a batch: the sender of each request and these.
TimerThread == 0
Flusher     == -1
Owner       == -2
Emitters    == Requests \cup {TimerThread, Flusher, Owner}

VARIABLES
  strategy, timeout,
  running,    (* CacheBase::running_                                      *)
  cache,      (* CacheBase::cache_                                        *)
  todo,       (* pieces the sender has still to enqueue                   *)
  discarded,  (* requests whose is_discarded_ is set                      *)
  batch,      (* Batcher::cache_                                          *)
  first_item, (* Batcher::first_item_                                     *)
  hand,       (* batch taken by Notify and not yet in cache_              *)
  timer_id,   (* Timer::timer_id_                                         *)
  events,     (* events of this timer in TimeCounter::events_; they all   *)
              (* have the same delay, so the oldest is due first          *)
  created,    (* number of events created                                 *)
  forgotten,  (* history: pending events whose id timer_id_ has lost       *)
  tloop,      (* where TimeCounter::Loop is with an event of this timer   *)
  dispatch,   (* where DispatchLoop is                                    *)
  pack,       (* its package                                              *)
  idle,       (* idle_                                                    *)
  task_num,   (* Engine::task_num_                                        *)
  tasks,      (* packages in the engines, with the stage of their tail    *)
  owner,      (* where ~Executor is                                       *)
  flushes,    (* number of calls of FlushCache                            *)
  missed,     (* history: the last notification for the dispatch thread   *)
              (* fell between its predicate and its wait                  *)
  given,      (* history: pieces uploaded                                 *)
  reports     (* history: number of ProcessDone/ProcessFailed per piece   *)

config     == <<strategy, timeout>>
batcherVars == <<batch, first_item>>
timerVars  == <<timer_id, events, created, forgotten>>
engineVars == <<task_num, tasks>>
callVars   == <<todo, discarded, given, flushes>>
vars == <<config, running, cache, batcherVars, hand, timerVars, tloop, dispatch, pack, idle,
          engineVars, owner, callVars, missed, reports>>

Min(S) == CHOOSE x \in S : \A y \in S : x <= y

PiecesOf(b) == {b[i] : i \in DOMAIN b}
Discarded(p) == p[1] \in discarded

\* ctrl->ProcessDone or ProcessFailed for each piece of S
Report(S) == reports' = [p \in Pieces |-> IF p \in S THEN reports[p] + 1 ELSE reports[p]]

Init ==
  /\ strategy \in Strategies /\ timeout \in Timeouts
  /\ running = TRUE /\ cache = <<>>
  /\ todo = [r \in Requests |-> <<>>] /\ discarded = {}
  /\ batch = <<>> /\ first_item = TRUE /\ hand = [e \in Emitters |-> <<>>]
  /\ timer_id = None /\ events = {} /\ created = 0 /\ forgotten = {} /\ tloop = "idle"
  /\ dispatch = "pop" /\ pack = <<>>
  /\ idle = Min(Engines)
  /\ task_num = [e \in Engines |-> 0] /\ tasks = {}
  /\ owner = "linked" /\ flushes = 0 /\ missed = FALSE
  /\ given = {} /\ reports = [p \in Pieces |-> 0]
-----------------------------------------------------------------------------
(* Batcher, with the cache's notifier                                       *)

\* Variant: first_item_ is not set again.
NotifyKeepFirst(e, items) ==
  /\ hand' = [hand EXCEPT ![e] = items]
  /\ batch' = <<>>
  /\ UNCHANGED first_item

\* Batcher::Notify takes the batch with the mutex and hands it on without it.
Notify(e, items) ==
  /\ hand' = [hand EXCEPT ![e] = items]
  /\ batch' = <<>>
  /\ first_item' = (first_item \/ items # <<>>)

\* Variant: the timer is not cancelled before it is set again.
RearmKeep ==
  /\ created' = created + 1
  /\ events' = events \cup {created'}
  /\ timer_id' = created'
  /\ UNCHANGED forgotten

\* timer_.Cancel and NotifyAfter: Remove finds the event only by timer_id_.
Rearm ==
  /\ created' = created + 1
  /\ events' = (events \ {timer_id}) \cup {created'}
  /\ timer_id' = created'
  /\ UNCHANGED forgotten

\* CacheDynamic::Enqueue, one round: Batcher::AddItem.
AddItem(r) ==
  /\ strategy = "DYNAMIC" /\ todo[r] # <<>> /\ hand[r] = <<>>
  /\ todo' = [todo EXCEPT ![r] = Tail(@)]
  /\ IF timeout /\ first_item THEN Rearm ELSE UNCHANGED timerVars
  /\ LET items == Append(batch, Head(todo[r])) IN
       IF Len(items) >= BatchSize
       THEN Notify(r, items)
       ELSE /\ batch' = items
            /\ first_item' = (first_item /\ ~timeout)
            /\ UNCHANGED hand
  /\ UNCHANGED <<config, running, cache, tloop, dispatch, pack, idle, engineVars, owner, discarded,
                 given, flushes, missed, reports>>

\* FlushCache, which WaitTaskDone and DiscardTask call when there is no timeout.
FlushCache ==
  /\ owner = "linked" /\ ~timeout /\ flushes < MaxFlush /\ hand[Flusher] = <<>>
  /\ flushes' = flushes + 1
  /\ IF strategy = "DYNAMIC" THEN Notify(Flusher, batch) ELSE UNCHANGED <<hand, batcherVars>>
  /\ UNCHANGED <<config, running, cache, timerVars, tloop, dispatch, pack, idle, engineVars, owner,
                 todo, discarded, given, missed, reports>>

\* The dispatch thread holds cache_mutex_ across steps only before it waits.
CacheFree == dispatch # "held"

\* Variant: the dispatch thread is not notified.
PushBatchSilently(e) ==
  /\ hand[e] # <<>> /\ CacheFree
  /\ cache' = Append(cache, hand[e])
  /\ hand' = [hand EXCEPT ![e] = <<>>]
  /\ UNCHANGED <<config, running, batcherVars, timerVars, tloop, dispatch, pack, idle, engineVars, owner,
                 callVars, missed, reports>>

\* The notifier of CacheDynamic: the batch becomes a package of cache_.
PushBatch(e) ==
  /\ hand[e] # <<>> /\ CacheFree
  /\ cache' = Append(cache, hand[e])
  /\ hand' = [hand EXCEPT ![e] = <<>>]
  /\ dispatch' = IF dispatch = "wait" THEN "pop" ELSE dispatch
  /\ UNCHANGED <<config, running, batcherVars, timerVars, tloop, pack, idle, engineVars, owner,
                 callVars, missed, reports>>

\* CacheStatic::Enqueue, one round: a package has the pieces of one request.
PushStatic(r) ==
  /\ strategy = "STATIC" /\ todo[r] # <<>> /\ CacheFree
  /\ LET n == Min({BatchSize, Len(todo[r])}) IN
       /\ cache' = Append(cache, SubSeq(todo[r], 1, n))
       /\ todo' = [todo EXCEPT ![r] = SubSeq(@, n + 1, Len(@))]
  /\ dispatch' = IF dispatch = "wait" THEN "pop" ELSE dispatch
  /\ UNCHANGED <<config, running, batcherVars, hand, timerVars, tloop, pack, idle, engineVars, owner,
                 discarded, given, flushes, missed, reports>>
-----------------------------------------------------------------------------
(* TimeCounter::Loop                                                        *)

\* The first event is due: it is erased before its notifier runs.
Fire ==
  /\ tloop = "idle" /\ events # {}
  /\ events' = events \ {Min(events)} /\ tloop' = "emit"
  /\ forgotten' = forgotten \ {Min(events)}
  /\ UNCHANGED <<config, running, cache, batcherVars, hand, timer_id, created, dispatch, pack, idle,
                 engineVars, owner, callVars, missed, reports>>

\* the notifier, Batcher::Emit
TimerEmit ==
  /\ tloop = "emit"
  /\ Notify(TimerThread, batch) /\ tloop' = "store"
  /\ UNCHANGED <<config, running, cache, timerVars, dispatch, pack, idle, engineVars, owner, callVars,
                 missed, reports>>

\* timer_id_.store(0), which may be the id of an event added since
TimerStore ==
  /\ tloop = "store" /\ hand[TimerThread] = <<>>
  /\ timer_id' = None /\ tloop' = "idle"
  /\ forgotten' = forgotten \cup (events \cap {timer_id})
  /\ UNCHANGED <<config, running, cache, batcherVars, hand, events, created, dispatch, pack, idle,
                 engineVars, owner, callVars, missed, reports>>
-----------------------------------------------------------------------------
(* DispatchLoop                                                             *)

\* The places <<package, index>> in cache_, and their order.
Cells == UNION {{i} \X DOMAIN cache[i] : i \in DOMAIN cache}
PieceAt(c) == cache[c[1]][c[2]]
Earlier(c, d) == c[1] < d[1] \/ (c[1] = d[1] /\ c[2] < d[2])
InOrder(S) ==
  [k \in 1 .. Cardinality(S) |-> CHOOSE c \in S : Cardinality({d \in S : Earlier(d, c)}) = k - 1]

\* s cut into packages of BatchSize pieces
Rebatch(s) ==
  [i \in 1 .. (Len(s) + BatchSize - 1) \div BatchSize |->
     SubSeq(s, (i - 1) * BatchSize + 1, Min({i * BatchSize, Len(s)}))]

\* What ClearDiscard leaves in cache_: a dynamic cache is batched anew, a static
\* one looks at the first piece of each package.
Kept ==
  LET live == InOrder({c \in Cells :
                         ~Discarded(PieceAt(c)) /\ (strategy = "STATIC" => c[2] = 1)})
  IN  IF strategy = "DYNAMIC" THEN Rebatch([k \in DOMAIN live |-> PieceAt(live[k])])
      ELSE [k \in DOMAIN live |-> cache[live[k][1]]]

PiecesIn(ss) == UNION {PiecesOf(ss[i]) : i \in DOMAIN ss}

\* Variant: the front package stays in cache_.
TakeKeepFront(b) ==
  /\ pack' = Head(b) /\ cache' = b /\ dispatch' = "got"

\* pack = cache_.front(); cache_.pop_front()
Take(b) ==
  /\ pack' = Head(b) /\ cache' = Tail(b) /\ dispatch' = "got"

\* Pop: the predicate of cache_cond_, then the front package, or, if a piece of
\* it is discarded, what ClearDiscard leaves.
Pop ==
  /\ dispatch = "pop"
  /\ \/ /\ cache = <<>>
        /\ dispatch' = IF running THEN "held" ELSE "ended"
        /\ UNCHANGED <<cache, pack, reports>>
     \/ /\ cache # <<>> /\ \A p \in PiecesOf(Head(cache)) : ~Discarded(p)
        /\ Take(cache)
        /\ UNCHANGED reports
     \/ /\ cache # <<>> /\ \E p \in PiecesOf(Head(cache)) : Discarded(p)
        /\ Report(PiecesIn(cache) \ PiecesIn(Kept))
        /\ IF Kept # <<>> THEN Take(Kept)
           ELSE /\ cache' = <<>>
                /\ dispatch' = IF running THEN "pop" ELSE "ended"
                /\ UNCHANGED pack
  /\ UNCHANGED <<config, running, batcherVars, hand, timerVars, tloop, idle, engineVars, owner,
                 callVars, missed>>

\* cache_cond_.wait or dispatch_cond_.wait releases its mutex
Block ==
  /\ \/ dispatch = "held" /\ dispatch' = "wait"
     \/ dispatch = "idle held" /\ dispatch' = "idle wait"
  /\ UNCHANGED <<config, running, cache, batcherVars, hand, timerVars, tloop, pack, idle, engineVars,
                 owner, callVars, missed, reports>>

\* Engine::Run
Run(e) ==
  /\ task_num' = [task_num EXCEPT ![e] = @ + 1]
  /\ tasks' = tasks \cup {[engine |-> e, pack |-> pack, at |-> "run"]}
  /\ pack' = <<>> /\ dispatch' = "pop"

Free == {e \in Engines : task_num[e] < MaxLoad}      \* IsIdle

\* The engine announced in idle_ is taken without a look at its load (stale
\* announcements add up, so no bound on the load holds); otherwise
\* the first idle engine; otherwise the thread looks at idle_ again with
\* dispatch_mutex_ and waits for the next announcement.
Dispatch ==
  /\ \/ /\ dispatch \in {"got", "look"} /\ idle # None
        /\ Run(idle) /\ idle' = None
     \/ /\ dispatch = "got" /\ idle = None
        /\ \/ Free # {} /\ Run(Min(Free))
           \/ Free = {} /\ dispatch' = "look" /\ UNCHANGED <<pack, engineVars>>
        /\ UNCHANGED idle
     \/ /\ dispatch = "look" /\ idle = None
        /\ dispatch' = "idle held" /\ UNCHANGED <<pack, engineVars, idle>>
  /\ UNCHANGED <<config, running, cache, batcherVars, hand, timerVars, tloop, owner, callVars, missed,
                 reports>>
-----------------------------------------------------------------------------
(* Engines                                                                  *)

\* A package leaves its engine at the last node (Transmit) or at the first one
\* that fails (Execute): every piece is reported.
Finish(w) ==
  /\ w \in tasks /\ w.at = "run"
  /\ Report(PiecesOf(w.pack))
  /\ tasks' = (tasks \ {w}) \cup {[w EXCEPT !.at = "reported"]}
  /\ UNCHANGED <<config, running, cache, batcherVars, hand, timerVars, tloop, dispatch, pack, idle,
                 task_num, owner, callVars, missed>>

\* --task_num_ in the done notifier of the engine's nodes
Decrement(w) ==
  /\ w \in tasks /\ w.at = "reported"
  /\ task_num' = [task_num EXCEPT ![w.engine] = @ - 1]
  /\ tasks' = (tasks \ {w}) \cup {[w EXCEPT !.at = "announce"]}
  /\ UNCHANGED <<config, running, cache, batcherVars, hand, timerVars, tloop, dispatch, pack, idle,
                 owner, callVars, missed, reports>>

\* notify_done_func: idle_ and dispatch_cond_, without dispatch_mutex_.  When it
\* comes after ~Executor it works on destroyed objects: no step models that.
Announce(w) ==
  /\ w \in tasks /\ w.at = "announce" /\ owner # "gone"
  /\ idle' = w.engine
  /\ dispatch' = IF dispatch = "idle wait" THEN "look" ELSE dispatch
  /\ missed' = (dispatch = "idle held" \/ (missed /\ dispatch # "idle wait"))
  /\ tasks' = tasks \ {w}
  /\ UNCHANGED <<config, running, cache, batcherVars, hand, timerVars, tloop, pack, task_num, owner,
                 callVars, reports>>
-----------------------------------------------------------------------------
(* The sessions, and ~Executor                                              *)

\* Executor::Upload; the sender enqueues the pieces afterwards.
Upload(r) ==
  /\ owner = "linked" /\ \A q \in 1 .. r : (<<q, 1>> \in given) <=> q < r
  /\ given' = given \cup {<<r, i>> : i \in 1 .. DataNum}
  /\ todo' = [todo EXCEPT ![r] = [i \in 1 .. DataNum |-> <<r, i>>]]
  /\ UNCHANGED <<config, running, cache, batcherVars, hand, timerVars, tloop, dispatch, pack, idle,
                 engineVars, owner, discarded, flushes, missed, reports>>

\* RequestControl::Discard
Discard(r) ==
  /\ r \notin discarded /\ <<r, 1>> \in given /\ Cardinality(discarded) < MaxDiscard
  /\ discarded' = discarded \cup {r}
  /\ UNCHANGED <<config, running, cache, batcherVars, hand, timerVars, tloop, dispatch, pack, idle,
                 engineVars, owner, todo, given, flushes, missed, reports>>

NotifyCache ==
  /\ dispatch' = IF dispatch = "wait" THEN "pop" ELSE dispatch
  /\ missed' = (dispatch = "held" \/ (missed /\ dispatch # "wait"))

\* Variant: Stop does not notify.
StopSilently ==
  /\ owner = "linked" /\ \A p \in given : reports[p] > 0
  /\ hand[Flusher] = <<>>
  /\ running' = FALSE
  /\ owner' = IF strategy = "DYNAMIC" THEN "emit" ELSE "join"
  /\ UNCHANGED <<config, cache, batcherVars, hand, timerVars, tloop, pack, idle, engineVars, callVars,
                 reports, dispatch, missed>>

\* ~Executor begins when all sessions are gone, each after its last response:
\* CacheBase::Stop notifies without cache_mutex_.
Stop ==
  /\ owner = "linked" /\ \A p \in given : reports[p] > 0
  /\ hand[Flusher] = <<>>
  /\ running' = FALSE
  /\ owner' = IF strategy = "DYNAMIC" THEN "emit" ELSE "join"
  /\ NotifyCache
  /\ UNCHANGED <<config, cache, batcherVars, hand, timerVars, tloop, pack, idle, engineVars, callVars,
                 reports>>

\* CacheDynamic::Stop: Emit and a second notify_all
StopEmit ==
  /\ owner = "emit"
  /\ Notify(Owner, batch)
  /\ owner' = "notify"
  /\ UNCHANGED <<config, running, cache, timerVars, tloop, dispatch, pack, idle, engineVars, callVars,
                 missed, reports>>

StopNotify ==
  /\ owner = "notify" /\ hand[Owner] = <<>>
  /\ owner' = "join"
  /\ NotifyCache
  /\ UNCHANGED <<config, running, cache, batcherVars, hand, timerVars, tloop, pack, idle, engineVars,
                 callVars, reports>>

\* dispatch_thread_.join(); cache_.reset() cancels the timer
Join ==
  /\ owner = "join" /\ dispatch = "ended"
  /\ owner' = "closing"
  /\ events' = events \ {timer_id}
  /\ timer_id' = None /\ idle' = None
  /\ UNCHANGED <<config, running, cache, batcherVars, hand, created, forgotten, tloop, dispatch, pack,
                 engineVars, callVars, missed, reports>>

\* Variant: ~Engine does not look at task_num_.
CloseAtOnce ==
  /\ owner = "closing"
  /\ owner' = "gone"
  /\ UNCHANGED <<config, running, cache, batcherVars, hand, timerVars, tloop, dispatch, pack, idle,
                 engineVars, callVars, missed, reports>>

\* ~Engine spins on task_num_
Close ==
  /\ owner = "closing" /\ \A e \in Engines : task_num[e] = 0
  /\ owner' = "gone"
  /\ UNCHANGED <<config, running, cache, batcherVars, hand, timerVars, tloop, dispatch, pack, idle,
                 engineVars, callVars, missed, reports>>
-----------------------------------------------------------------------------
SenderStep(r) == AddItem(r) \/ PushStatic(r) \/ PushBatch(r)
TimerStep     == Fire \/ TimerEmit \/ PushBatch(TimerThread) \/ TimerStore
DispatchStep  == Pop \/ Block \/ Dispatch
EngineStep    == \E w \in tasks : Finish(w) \/ Decrement(w) \/ Announce(w)
OwnerStep     == StopEmit \/ PushBatch(Owner) \/ StopNotify \/ Join \/ Close

Next ==
  \/ \E r \in Requests : Upload(r) \/ SenderStep(r) \/ Discard(r)
  \/ FlushCache \/ PushBatch(Flusher)
  \/ TimerStep \/ DispatchStep \/ EngineStep
  \/ Stop \/ OwnerStep

Spec == Init /\ [][Next]_vars

\* Threads are scheduled, processors return and the timer is due at some time;
\* nobody has to upload, discard, flush or destroy.
FairSpec ==
  /\ Spec
  /\ \A r \in Requests : WF_vars(SenderStep(r))
  /\ WF_vars(PushBatch(Flusher)) /\ WF_vars(TimerStep) /\ WF_vars(DispatchStep)
  /\ WF_vars(EngineStep) /\ WF_vars(OwnerStep)
-----------------------------------------------------------------------------
\* Whatever the timer, the flushes, the discards and the engines do to the
\* batches, each uploaded piece is reported at most once (ExactlyOnce).
Promise == INSTANCE ExactlyOnce
ReportsOnce == Promise!Spec

\* A batch that is not full has an event that will emit it: neither a Cancel
\* nor the late store of a finished event loses the one that is needed.
BatchHasTimer ==
  timeout /\ batch # <<>> => events # {} \/ tloop = "emit"

\* "An instance only holds one task at a time" (timer.h:39), and the destructor of
\* the batcher removes it, so that no event is left for a batcher that is gone.
\* The exception is an event that timer_id_ has lost: it was added while the
\* finished event before it had still to store 0 (timer.cpp:164).  An event that
\* is due has left events_, and neither waits for its notifier (timer.cpp:80).
HoldsOneTask ==
  /\ events \ forgotten \subseteq {timer_id}
  /\ owner \in {"closing", "gone"} => events \subseteq forgotten

\* "wait for all task done" (engine.h:76): when ~Executor is over no package is
\* left anywhere, and no worker is in an engine before its --task_num_.
\* (HoldsOneTask speaks of the timer's events.)
QuietWhenGone ==
  owner = "gone" =>
    /\ cache = <<>> /\ batch = <<>> /\ pack = <<>>
    /\ \A e \in Emitters : hand[e] = <<>>
    /\ \A w \in tasks : w.at = "announce"

\* Every uploaded piece is reported, also while batches are cut by the timeout,
\* except when an announcement, made without dispatch_mutex_, was missed.
ReportedOrMissed ==
  \A p \in Pieces :
    p \in given /\ (timeout \/ strategy = "STATIC") ~> reports[p] > 0 \/ missed

\* ~Executor ends, except when the notification of Stop, made without
\* cache_mutex_, was missed.
DestroyEnds == owner # "linked" ~> owner = "gone" \/ missed
=============================================================================
