# UNIStream in TLA+

UNIStream runs video-analysis pipelines: a graph of modules connected by
bounded queues, fed by source handlers, with an inference server (EasyDK) under
the inference module. This directory holds TLA+ models of the parts of it whose
correctness depends on the order in which threads run, the configurations TLC
checks them with, and proofs of their main invariants.

## 1. Inventory

### Framework (`framework/`)

| Component | State | Operations | Interacts with |
|---|---|---|---|
| Pipeline data path (`unistream_pipeline.cpp`, `connector.cpp`, `conveyor.cpp`) | `running_`, per connector `stop_`, per conveyor `dataq_`, per frame `modules_mask_` and flags, the task threads | `BuildPipeline`, `Start`, `Stop`, `ProvideData`, `TransmitData`, `TaskLoop` | calls modules' `Open`/`DoProcess`/`Close`, posts to the event bus, pushes stream messages, called by sources |
| Event bus (`unistream_eventbus.cpp`) | `running_`, `queue_`, the watcher list, its thread | `PostEvent`, `PollEvent`, `EventLoop`, `Start`, `Stop` | posted to by every thread, calls the watchers |
| Stream messages (`unistream_pipeline.cpp`) | `msgq_`, `exit_msg_loop_`, its thread | `UpdateByStreamMsg`, `StreamMsgHandleFunc`, `DefaultBusWatch` | called from the bus and from `TransmitData`, calls the observer |
| Source module and removal (`unistream_source.cpp`, `unistream_frame.cpp`) | `source_map_`, the static maps of removed streams and of EOS frames | `AddSource`, `RemoveSource(s)`, `SendData`, `CheckStreamEosReached` | the flag is read by every module's `DoProcess` and by `TransmitData` |
| Source handlers (`modules/source/src/data_handler_*.cpp`, `video_parser.cpp`, `video_decoder.cpp`) | `running_`, the handler's thread, `eos_sent_`; for memory streams the parser, a bounded queue, a decoder | `Open`, `Stop`, `Close`, `Write` | send frames through the source module; called by the application and by removals |
| Module base (`unistream_module.cpp`) | container, id | `DoProcess`, `DoTransmitData`, `PostEvent` | between task thread and pipeline |
| Index manager (`unistream_pipeline.cpp` 540-595) | maps and bit masks of stream and module indexes | get / return | sources, modules |
| Graph, configuration, collection, allocator, profiler | static graph; a locked map; a pool; statistics | | read by all of the above |

### Inference server (`easydk/src/infer_server/`)

| Component | State | Operations | Interacts with |
|---|---|---|---|
| Session and requests (`core/session.*`, `core/request_ctrl.*`) | `request_list_`, `in_response_`, per request `wait_num_`, `process_finished_`, `is_discarded_` | `Send`, `CheckAndResponse`, `WaitTaskDone`, `DiscardTask`, `~Session`, `ProcessDone` | called by users, by engine workers, by tasks of the thread pool |
| Executor, cache, dispatch, engine (`core/session.cpp`, `core/cache.h`, `core/engine.cpp`) | `processing_unit_`, `processing_req_`, the cache list, `idle_`, per engine task nodes | `Upload`, `WaitIfCacheFull`, `DispatchLoop`, `Run`, `Transmit` | between session and workers |
| Front end (`core/infer_server.cpp`) | executor map | `CreateSession`, `DestroySession`, `Request`, `RequestSync` | users |
| Thread pool, queue, timer, batcher (`util/`) | queues, thread flags | push, pop, resize, notify | all of the above |
| Model manager, processors, device runtime | model cache, device handles | load, run | external SDK |

The other directories (`modules/`: inference, encode, RTSP, OSD, tracking,
display, Kafka; `easydk/src`: buffers, codecs, transforms; Python bindings,
samples, vendored code) are listed with their status in `PROJECT.json`.

### What is hard, and what makes each component correct

- *Data path.* Frames of a stream fan out over branches and meet at joins; each
  branch's thread decides alone, from the mask it gets back, whether to push.
  Correct: each module works on each frame once, after its parents, in order;
  the finished frames come out in order and once; Stop ends every thread before
  it closes a module; no frame is lost for want of room; EOS always gets through.
- *Event bus and messages.* Two queues, two threads, and a bus that can end by
  itself. Correct: order is kept, what is lost is bounded and known, `Stop`
  returns.
- *Session.* Workers finish requests in any order; the responder is elected
  with a flag that is not cleared under the list's lock. Correct: one responder,
  responses whole, in order and once, counters balanced and within their limit,
  callers that wait for room go on, nothing outlives the session, waiting covers
  what it should.

- *Source life cycle.* Three tables keyed by stream id outlive the handler they
  were written for, two of them static; a removal works in two or three critical
  sections. Correct: no frame is dropped for a removal that is not in progress,
  a forced removal waits for the EOS that is coming and for no other, no handler
  reads on unlisted, a stream index belongs to one stream, removals return.
- *Memory handler.* Application threads parse and block in a bounded queue with
  the parser's mutex held, while the decode thread comes and goes. Correct: what
  comes out is in order and of this opening only, the EOS comes out, calls return.
- *Executor.* Batches are cut by their size, a timer, flushes and discards in
  different threads. Correct: each piece is reported once; the destructor ends
  and leaves nothing.
- *Thread pool.* The server changes its size by a count that may include
  threads already detached, and its threads look at the queue and at the stop flags
  in two steps. Correct: pushed tasks run, `Stop` returns and drops no task, the
  pool is not left without threads.

`PROJECT.json` lists each hazard at its line with the property that covers it.

## 2. Modules

| Module | Models |
|---|---|
| `Pipeline` | the data path, `Start`/`Stop`, sources and removal as the pipeline sees them |
| `MCPipeline` | the graphs TLC uses: a diamond, a chain, a fork with two sources |
| `Sources` | `AddSource`, `RemoveSource(s)`, the tables of removed and EOS streams, stream indexes, the file handler's thread |
| `EsMemHandler` | a memory handler: writers, parser, queue, decode thread, decoder |
| `EventBus` | event bus, default watcher, message thread |
| `InferSession` | a session with its requests |
| `Executor` | caches, batcher and timer, dispatch thread, engines, `~Executor` |
| `ThreadPool` | the pool's threads, `VoidPush`, `Resize`, `Stop`, and the server that sizes it |
| `OrderedDelivery` | the abstract promise: what comes out was given, once, in order |
| `ExactlyOnce` | the abstract promise: each piece handed over is reported at most once |
| `PipelineProofs`, `PipelineOrderProofs`, `InferSessionProofs`, `ExecutorProofs`, `ThreadPoolProofs`, `EventBusProofs`, `SourcesProofs`, `EsMemHandlerProofs` | theorems |

`OrderedDelivery` is implemented by three detailed modules under a
refinement mapping: by `Pipeline` per stream (`given` = frames the handler made,
`out` = frames the frame-done callback or EOS message reported), by
`InferSession` (`out` = requests answered) and by `EventBus` (`given` = events
accepted, `out` = events whose message the observer saw). `ExactlyOnce` is
implemented by `Executor`; it is also what `InferSession` assumes of its
executor ("every uploaded piece is reported exactly once, by some worker, at
some time"), so the two modules compose through it. Both in turn assume of the
thread pool that a pushed task runs at some time, which is what `ThreadPool`
examines (`TaskRunsOrMissed`). `Sources` assumes of the pipeline that a frame
that was accepted leaves it at some time, and in order; `Pipeline` examines that
(`AcceptedFrameDone`, `DeliversInOrder`).

### Pipeline

One thread per conveyor (`TaskLoop`) and one per stream's handler. A thread has
a label `pc`, the frame it holds, the successors its push loop has still to
visit (`todo`) and the one it is pushing to (`tgt`). One action reads or writes
one shared object:

| Actions | Code |
|---|---|
| `LoopTop`, `Pop`, `PopTimeout`, `AfterPop`, `Process` | `TaskLoop`, `Conveyor::PopDataBuffer`, `Module::DoProcess` |
| `CreateFrame`, `ProvideData`, `CheckFrame`, `MarkPassed`, `OnPassThrough` | the handler's thread, `ProvideData`, `TransmitData` up to line 408 |
| `ChooseTarget`, `Push`, `RetryPush` | the push loop of `TransmitData` |
| `StartOpen`, `StartFail`, `StartConnector`, `StartThreads` | `Start` |
| `StopCall`, `StopConnector`, `EmptyDataQueue`, `StopRunning`, `JoinThreads`, `CloseModule`, `CloseDone` | `Stop` |
| `AddSource`, `RemoveStream`, `UnremoveStream` | `SourceModule` |

Decisions: the root's `SetModulesMask` and its `MarkPassed` are one step,
because only the source's thread holds the frame then. The order in which
`Start` and `Stop` walk the graph and in which the push loop takes the
successors is left open, so every DFS order is covered; a failed `Start` opens
any proper subset of the modules, of which the prefixes of a DFS are some. One
control thread calls `Start` and `Stop`, and `AddSource` is not called during
them. A pop that times out while the connector runs is a stutter. In `CloseModule` a
source module waits for its handlers' threads. `UnremoveStream` is the end of
`RemoveSource`: the handler's thread is joined and the EOS frame is destroyed
(no thread and no conveyor holds it); it is also allowed for a stream that was
never added, which the code leaves marked. Left out: modules with
`hasTransmit` (they call `TransmitData` from their own threads), observers, the
profiler, `fail_time_`, thread priorities, frames whose payload is a frame of
another pipeline.

### InferSession

A thread of `Callers` makes an asynchronous request without timeout, as the
inference module does: `Request` tests the counters without a lock and passes or
goes to `limit_mutex_`, under which it tests them again (`LockLimit`) and waits
(`Sleep`). `ReleaseCount` changes the counters and notifies one sleeper without
that mutex (`NotifyOne`), so a thread between its test and its sleep is not reached, and
`Upload`, which can bring a counter back from 2^32 - 1, notifies nobody: `lost`
collects the threads that missed such a wake-up. The two `fetch_sub` and the
`notify_one` are one step: a thread that sees only some of them is in the same
place as one that came before or after.

A request is named by its `request_id_`. `Send` lists it under
`request_mutex_`, `Upload` counts it, and then workers report its pieces
(`ProcessDone`); the last one calls the notifier (`DoneNotifier`) while it still
holds `done_mutex_`, which is why `Delete`, the destructor, has to wait for it.
`CheckAndResponse` and `NextRequest` are the two critical sections of
`request_mutex_` that take requests off the list; `ClearInResponse` is outside
of it, as in the code. Pushing the response task is merged with taking the
request off the list: in between only the pool knows of it. The executor is
abstracted to `ExactlyOnce` with every report made at some time, so status values and discards inside the cache do not appear. Left
out: two threads in `WaitTaskDone` at once (`Callers` do not wait there), timeouts,
`RequestSync`, and the reuse of the
address of a deleted `RequestControl` by a new one (see the plan).

### EventBus

`PostCheck`/`PostPush` are the two steps of `PostEvent`; `LoopTop`, `PollTest`,
`PollPop`, `PollReturn`, `Dispatch` are the bus thread. `AddBusWatch` puts new
watchers in front, so the application's watcher is asked before
`DefaultBusWatch`; both run under `watcher_mtx_`, so they are one step. What the
application's watcher answers is any of `AppFlags`. `MsgTop`, `MsgPop`,
`MsgUpdate` are the message thread, which lives from the constructor to the
destructor of the pipeline.

### Sources

A handler is made (`MakeHandler`, which takes the stream index), added, runs its
thread, is removed by one of the `Callers`, dropped by the application and
destroyed (`Destroy`, which returns the index). Handlers of one id may overlap.

| Actions | Code |
|---|---|
| `MakeHandler`, `IndexFor`, `Destroy` | `SourceHandler`'s constructor and destructor, `IdxManager::GetStreamIndex`, `ReturnStreamIndex` |
| `AddSource`, `Drop` | `SourceModule::AddSource` with the handler's `Open`; the application's last reference |
| `Prepare`, `LoopTest`, `CheckRemoved`, `SendData`, `RoundEnds`, `EndOfStream` | `FileHandlerImpl::Loop`, `SourceModule::SendData`, `SourceRender::SendFlowEos` |
| `FrameGone` | `~UNIFrameInfo`, which marks the EOS as reached |
| `RemoveSource`, `Find`, `CloseDone`, `Poll`, `Unset`, `Erase`, `Unlock` | `RemoveSource` with its two critical sections |
| `RemoveSources`, `StopNext`, `JoinNext`, `PollBegin`, `PollNext`, `Clear`, `Unlock` | `RemoveSources` with its three |

Decisions: the pipeline is a queue of at most `MaxFrame` frames per handler whose
frames leave in order, at any time. `mixed` and `raced` are history variables:
they mark the ids for which the code makes no promise, because EOS frames of two
handlers were on their way at once, or two removals (or a removal in sections
and an addition) overlapped. `aborted` is `std::terminate` from assigning to a
joinable `thread_`. Left out: the pipeline being stopped before
the removal (`unistream_source.hpp:97` forbids it), and what happens inside
demuxer and decoder.

### EsMemHandler

`Open`, `OpenParser`, `Close`, `Join`, `CloseParser` are the owner's calls;
`Write`, `Parse`, `OnParserFrame`, `Push`, `Parsed` a writer's; `WaitForInfo`,
`NoInfo`, `Create`, `LoopTest`, `Pop`, `GetPicture`, `PollEnds`, `FlushEnds` the
decode thread (`DecodeLoop`, `PrepareResources`, `Process`, `MpsVdec`). Pictures
are numbered in the order in which the parser takes them. The parser holds one
picture until it sees the next one begin or the stream end, which is what
libavcodec does (external). Its mutex is the variable `parser`; a writer keeps it
while it pushes. Left out: packet contents, time stamps, sizes, the decoder's
channel and buffer management; a decoder that fails does so at any step.

### Executor

A piece is one `InferData` of one `Package`. `Upload`, `AddItem`, `PushBatch`,
`PushStatic` are a sender; `Fire`, `TimerEmit`, `TimerStore` the timer thread;
`FlushCache` the thread that waits or discards; `Pop`, `Block`, `Dispatch` the
dispatch thread; `Finish`, `Decrement`, `Announce` a pool thread in an engine;
`Stop` to `Close` the destructor. A batch is taken with the batcher's mutex and
handed on without it (`hand`). A thread that evaluated its predicate and has not
blocked yet is "held": it has the mutex, but `Stop` and `Announce` notify without
it, and then the wake-up is missed (`missed`). `forgotten` is a history variable: the
pending timer events whose id `timer_id_` has lost. The three processors of an engine
are one stage, since nothing but order inside the engine depends on them. Left
out: `WaitIfCacheFull` (in `InferSession`), priorities, packages with their own `predict_io`.

### ThreadPool

`StartThread`, `TaskEnds`, `NextTask`, `Evaluate`, `LookAtFlags`, `Block` are a worker;
`Emplace`, `NotifyOne` are `VoidPush`; `Grow`, `Shrink` are `Resize` as
`CreateExecutor` and `DestroyExecutor` of the server call it; `StopWhenDone`,
`StopNow`, `StopNotify`, `StopReturn` are `Stop`. `Terminate` is the case in which
`Size() - th_num` is negative, where `vector::resize` throws in a `noexcept`
function. `overcount` marks a shrink whose count included detached threads,
`missed` a task whose notification found a thread between predicate and wait.

The predicate of `cv_` is two steps, because `VoidPush` and the stores of `Stop`
do not take `mutex_`: `Evaluate` is its `TryPop`, and a thread that got nothing is
"tested" (with `mutex_`) until `LookAtFlags` reads `is_done_` and the thread's flag.
`late` is a history variable: the threads that were "tested" when `Stop(true)` set
`is_done_`. The inner loop (`NextTask`) reads the thread's own flag and pops in one
step. What that leaves out is one more task taken by a thread whose flag is set
between the two: when that is by `Resize`, the pop could as well have come before
it; when by `Stop(false)`, which promises nothing about the queue, the task may be
one pushed after its first `ClearQueue`.

## 3. Runs

| Run | Bounds | Shows |
|---|---|---|
| `pipeline_join` | diamond, one conveyor of one frame each, 3 frames (the last EOS), frames may fail or turn invalid | `ParentsFirst`, `NoDuplicate`, `DeliversInOrder`, `AcceptedEosDone` |
| `pipeline_fork` | two sources, a module with two conveyors, 2 frames per stream, a module may keep a frame | `EosMsgIsLast` |
| `pipeline_restart` | chain, 2 starts and 2 stops, failed starts, one removal | `ProcessOnlyOpen`, `InOrder` across restarts, `StopReturns`, `AcceptedFrameDone` (the EOS of a removed stream included) |
| `pipeline_stale` | chain, one stop | the finding `EmptyAfterStop` |
| `sources` | 1 id, 2 handlers, 2 callers, 2 removals, 2 frames, `kMaxStreamNum` 1 | `ActiveNotDropped`, `WaitsForEos`, `NoneForgotten`, `RemoveReturns` |
| `source_index` | 2 ids, 3 handlers, 1 caller | the finding `IndexUnique` |
| `es_mem` | 2 writers, a queue of 2, 3 pictures, 2 openings | `SentInOrder`, `EosIsSent`, `CallsReturn` |
| `infer_session` | 2 callers, a limit of 1, 3 requests of 0 or 2 pieces, one discard, one wait | all properties of `InferSession` but `WaitReturns` |
| `infer_wait` | 2 callers, 2 requests of 1 piece, one wait | the finding `WaitReturns` |
| `executor` | 2 requests of 2 pieces, batches of 2, one engine of load 1, both caches, with and without timeout, one discard, one flush | `ReportsOnce`, `BatchHasTimer`, `HoldsOneTask`, `QuietWhenGone`, `ReportedOrMissed`, `DestroyEnds` |
| `thread_pool` | 2 threads ever made, 2 tasks of 2 priorities, up to 3 executors of 1 thread, pool of at most 2 | `PoolKeepsAThread`, `StopDropsOnlyLate`, `TaskRunsOrMissed`, `CalledThreadsEnd` |
| `eventbus` | 2 events, 1 direct message, 2 starts, 2 stops | `OneLostPerStop`, `ErrorsInOrder`, `ErrorShown` |

*Why these bounds.* A conveyor of one frame is full as soon as anything waits,
so blocking and retry happen everywhere; two frames and an EOS are the least
with an overtaking that is not the EOS's; a diamond is the least graph with a
join, and any join is decided pairwise. Two starts are the least with frames,
threads or events left from an earlier run. Three requests give a front, a
finished one behind it and one being sent; two pieces are the least for which a
request can be half done, and zero is the special case of `Send`. `CounterMod` is
2^32 in the code; 16 is larger than all pieces of a run together, so a counter
can only be off by going below zero, which the code does for an empty package.
Two callers and a limit of 1 are the least with which both pass the test for the
last place, one waits while the other is counted, and a wake-up is missed; the
limit is never below 12 in the code, where only more has to be in flight for the
same.
One id with two handlers and two callers is the least in which a flag left by
one stream can reach the next and two removals overlap; a second id only adds
the competition for an index, which has a run of its own. Two writers are needed
for one to wait for the parser that the other holds; a queue of two holds a
picture and the EOS behind it, and the third picture finds it full; two openings
leave something from the first. In `executor` two packages of one batch size
each can be cut as one batch, as two, and, flushed or timed out in between, as
three; the second package waits while the only engine is busy. With one engine no
announcement in `idle_` overwrites that of another engine: there the safety
theorems, which hold for any engines, stand alone. Two threads and
three executors are the least with which a shrink meets a thread that an earlier
shrink has detached; a pool of one thread, with a task pushed while it is between
its two looks, is among them. `pipeline_join` has no stop, so what `NoDuplicate` says
of stops and restarts rests on the theorem `NoDuplicates`.

`CHECK_DEADLOCK FALSE` everywhere: the bounds on frames, starts and requests
end the behaviours.

*Fairness.* Weak fairness of each thread's steps (the operating system schedules
every thread), of what `Start`/`Stop` do once called, and of the handler's loop.
In `InferSession` the engine reports what was uploaded; in `Executor` processors
return and a timer event is due at some time; in `ThreadPool` tasks end; in
`Sources` the pipeline lets every frame go and an unreferenced handler is
destroyed; in `EsMemHandler` every wait of the threads has a timeout in the code.
No caller is obliged to call anything: no fairness on `StartOpen`, `StopCall`,
`AddSource`, `RemoveSource(s)`, `Request`, `WaitTaskDone`, `PostCheck`, `Stop`,
`Upload`, `Discard`, `FlushCache`, `Emplace`, `CreateExecutor`, `Open`, `Close`,
`Write`.

*Exceptions.* Several properties name the cases in which the code does not keep
them; with the exception they say that nothing else breaks them.

- `AcceptedFrameDone` speaks of frames accepted after `Start` has returned. Until
  then connectors may still have `stop_` set from the last `Stop` while `running_`
  is already true, and a frame accepted in that window is dropped at the first
  stopped connector.
- `DoneOrMissed` has `Missed`, exactly the lost response that `infer_wait`
  exhibits. `RequestReturns` has it too, since what is never answered makes no
  room, and `lost`: a release between a caller's test and its sleep, or the `Upload` that
  ends a counter's excursion below zero. If nothing else is in flight the caller, a
  thread of the pipeline, sleeps for ever.
- `TaskRunsOrMissed`, `ReportedOrMissed` and `DestroyEnds` have `missed`: a
  `notify` without the waiter's mutex that fell between its predicate and its
  wait (`VoidPush`, the engine's announcement, `CacheBase::Stop`).
- `ReportedOrMissed` speaks of executors that have a timeout or a static cache; a
  dynamic cache without timeout waits for more data or a flush by design.
- `PoolKeepsAThread` has `overcount`: `n_waiting_` counts idle threads, detached
  ones included, so two executors destroyed in quick succession can leave the
  pool without a thread, or end the process (`Terminate`).
- `QuietWhenGone` lets a worker be between `--task_num_` and its announcement
  when the executor is gone, where it works on destroyed objects; `~Engine` waits
  only for `task_num_`.
- `HoldsOneTask` has `forgotten`: a finished event stores 0 in `timer_id_` after its
  notifier (`timer.cpp:164`), and the id of an event added since is lost. Nobody can
  cancel that event; it cuts a later batch early, and when the executor is destroyed
  first, its `Emit` meets a destroyed batcher.
- `StopDropsOnlyLate` has two exceptions. Tasks in the hands of detached threads,
  which nobody joins, still run. And a task is dropped when the pool has a single
  thread and that thread is `late`: it found the queue empty, the task was pushed and
  `Stop(true)` set `is_done_`, and only then did it look at `is_done_` and end; the
  `ClearQueue` after the joins (`thread_pool.cpp:109`) drops the task. This breaks
  what `thread_pool.h:149` ("all the functions in the queue are run") and
  `thread_pool.h:112` say. In a pool of two threads it cannot happen: they look at
  the queue with `mutex_`, one after the other, so the second finds the task.
- `WaitsForEos` has `mixed` and `raced`, `NoneForgotten` has `raced`: see
  `Sources`. In the raced cases a removal erases a handler it never closed;
  adding that handler again ends in `std::terminate`.
- `EosIsSent` excepts a handler closed first, a decoder that fails, and one whose
  last pictures do not come within the 10 ms that the flush waits for each: then
  the decode thread ends without an EOS. `CallsReturn` excepts `Deserted`: the
  decode thread is gone while `running_` is set, so that a writer that found the
  queue full goes on until the handler is closed, with the parser's mutex held.

### Findings

1. `EmptyAfterStop` (`unistream_pipeline.cpp:422`): the comments in `Stop` say
   that pushes are rejected after `Connector::Stop` and that the connector will be empty; the test
   and the push are separate steps and a frame can be pushed after the emptying.
   It stays until the next `Start`, whose threads process it.
2. `WaitReturns` (`session.cpp:328`): `in_response_` is cleared after
   `request_mutex_` is released. A worker that finishes the front request in
   between is turned away; its response is never given and `WaitTaskDone` hangs
   unless another request finishes later.
3. `IndexUnique` (`unistream_source.hpp:191`): `SetStreamIndex` documents the index
   as "Number to identify stream". Two handlers of one stream id share the index,
   and the first one destroyed gives it back while the other still uses it; the
   next stream gets it too.

Observations from reading the code that no run asserts:

- `Remove` says "wait until event is not in notifying" (`timer.cpp:125`), but a
  one-shot event leaves `events_` before its notifier is called (line 80), so a
  `Cancel`, and the destructor of the batcher, neither find it nor wait: `Emit` may
  run on a batcher that is being destroyed.
- `unistream_source.hpp:84-93` says of a removal that is not forced that the
  stream goes after its cached frames were processed; the code waits for the EOS
  only when `force` is set. A file stream stopped in the middle sends no EOS
  (`ax_service_impl_vdec.cpp:192`, the sending is commented out), so a forced
  removal of it waits for nothing and returns with frames still in the pipeline.
- A memory handler never resets `eos_reached_`, `info_set_` and `eos_sent_` in `Open`:
  removed after its EOS and added again it refuses every `Write`. A packet with `FLAG_EOS` ends the stream without the picture that the
  parser still holds; only the empty packet flushes it. A failed `Open` leaves a
  thread that nobody joins.
- The load of an engine has no bound: an announcement in `idle_` is taken without
  a look at the load, and announcements can be stale.

## 4. Proofs

TLAPS proves the following for every value of the constants that satisfies the
modules' assumptions (an acyclic graph, positive widths and capacities, bounds that are
numbers, at least one engine, a finite set of callers that together with the limit
fits the counter, a free mutex that no caller's name denotes).

| Theorem | Statement |
|---|---|
| `PipelineProofs!TypeCorrect` | `Spec => []TypeOK` |
| `PipelineProofs!OpenWhileProcessing` | `Spec => []ProcessOnlyOpen` |
| `PipelineProofs!NoDuplicates` | `Spec => []NoDuplicate` |
| `PipelineProofs!ParentsAlwaysFirst` | `Spec => []ParentsFirst` |
| `PipelineProofs!LostOnlyByIntent` | `Spec /\ [][~Losing(f)]_vars => []Kept(f)` for each frame `f` (of the proof module) |
| `PipelineOrderProofs!BeginsInOrder` | `Spec => InOrder` |
| `PipelineOrderProofs!DoneInOrder` | `Spec => DeliversInOrder` (implements `OrderedDelivery`) |
| `PipelineOrderProofs!EosMsgEndsStream` | `Spec => []EosMsgIsLast` |
| `InferSessionProofs!SessionTypes` | `Spec => []TypeOK` |
| `InferSessionProofs!SingleResponder` | `Spec => []OneResponder` |
| `InferSessionProofs!AnsweredWhenWhole` | `Spec => []AnsweredWhole` |
| `InferSessionProofs!RespondsOnlyInOrder` | `Spec => RespondsInOrder` (implements `OrderedDelivery`) |
| `InferSessionProofs!NeverBeyondLimit` | `Spec => []WithinLimit` |
| `InferSessionProofs!WaitsForAll` | `Spec => WaitCoversAll` |
| `InferSessionProofs!LeavesNothingBehind` | `Spec => []LeavesNothing` |
| `InferSessionProofs!RequestsKept` | `Spec => []NoRequestLost` (of the proof module) |
| `ExecutorProofs!ReportsAtMostOnce` | `Spec => ReportsOnce` (implements `ExactlyOnce`) |
| `ExecutorProofs!TimerRuns` | `Spec => []BatchHasTimer` |
| `ExecutorProofs!TimerHoldsOneTask` | `Spec => []HoldsOneTask` |
| `ExecutorProofs!QuietAtEnd` | `Spec => []QuietWhenGone` |
| `ExecutorProofs!NoPieceLost` | `Spec => []NothingLost` (of the proof module) |
| `ThreadPoolProofs!PoolTypes` | `Spec => []TypeOK` |
| `ThreadPoolProofs!KeepsAThread` | `Spec => []PoolKeepsAThread` |
| `ThreadPoolProofs!StopRunsAllUnlessLate` | `Spec => StopDropsOnlyLate` |
| `EventBusProofs!StopLosesOne` | `Spec => []OneLostPerStop` |
| `EventBusProofs!ErrorsOnlyInOrder` | `Spec => ErrorsInOrder` (implements `OrderedDelivery`) |
| `SourcesProofs!SourceTypes` | `Spec => []TypeOK` |
| `SourcesProofs!NeverDropsForNobody` | `Spec => []ActiveNotDropped` |
| `SourcesProofs!ForgetsNone` | `Spec => []NoneForgotten` |
| `SourcesProofs!RemovalWaitsForEos` | `Spec => []WaitsForEos` |
| `EsMemHandlerProofs!EsMemTypes` | `Spec => []TypeOK` |
| `EsMemHandlerProofs!SentAlwaysInOrder` | `Spec => []SentInOrder` |

*Open modules.* `ProcessOnlyOpen` is not inductive: it needs that task threads
are off before `Start` and after `JoinThreads`, which depends on the control
thread's phase. The strengthening says for each phase which threads may be on
and which modules are open.

*No duplicates.* The argument is about the mask. A copy of a frame on its way to
module `n` exists only if all parents of `n` have marked it and `n` has not
(`CopiesOK`, which also says that a conveyor holds only the frames it is the
conveyor for). Masks only grow, and a parent that marks a frame held the only
copy meant for it, so it had not marked before; hence exactly one marking step
makes `Parents(n)` complete, and that step alone creates the copy. `PlaceOK`: a
task thread works only on frames of its own conveyor, so a frame cannot be with
two threads of a module. `SourceOK`: a frame still with its source was marked
by nobody. `MaskOK`: on the route of the frame's source a module has marked only
what its parents marked before. The conjunction with the type invariant and
`NoDuplicate` itself, `FlowInv`, is inductive; `ParentsFirst` follows from
`CopiesOK`.

*No frame is lost.* `Losing(f)` names the steps that drop `f` by intent: a stopped
connector, found after a pop or before a push, or emptied by `Stop`; a `Process`
that fails or keeps the frame; a pipeline that does not run; an invalid frame; a removed
stream's data. While none of them takes `f`, a frame that its source's module has
marked is with a thread, in a conveyor, or done (`Kept`). The invariant is the converse of
`CopiesOK`: when all parents of `n` have marked `f` and `n` has not, a copy is on its
way to `n` (`ComingOK`). Each step but `MarkPassed` keeps the copies there are
(`StepKeeps`); the mark that makes `Parents(n)` complete is made by a parent of `n`,
which then has `n` in its push loop. Who completes the mask goes on to
`OnPassThrough` (`PassOK`), and while the mask is not complete the graph, being acyclic,
has a module outside it with all its parents inside, which is on the source's route
(`RouteOK`, `RouteParent`): a copy is on its way to that one. That it gets there
is `AcceptedFrameDone`, a matter of fairness.

*Order.* Two frames of a stream may go different ways to a join, and the older
one may be dropped on its way, so their places alone do not say which is ahead;
their masks do. `LastOK`: a module that works on a frame, from the pop to the
last push, has not marked a newer one; it holds because a module gets a stream's
frames through one thread (`PlaceOK`). `LineOK`: the same for a frame in a
conveyor, and newer frames are behind it. At a join the step to look at is the
one that pushes: the pusher is a parent of the target (`PendOK`), by `LastOK` it
has not marked the newer frame, so by `CopiesOK` the newer frame cannot be on
its way to the target already. `OrderInv`, the conjunction with `FlowInv`, is
inductive, and each theorem adds one invariant to it: `BegunOK` (the frame a
module began with last was marked by all its parents, and nothing older comes to
it) gives `InOrder`; `DoneOK` (a frame is reported when all modules have marked
it, by the one thread that completed the mask) gives the refinement, whose hard
step is that a frame reported earlier is not newer; `EosOK` (a module posts
`EVENT_EOS` before it marks) gives `EosMsgIsLast`.

*Session.* `SessionInv` is `TypeOK`, `OneResponder` and the fact that a running
task works on some request (`CurOK`). `WholeOK` says why a request may be handed
over: a finished request misses no piece, and what a task works on, what was
answered and what was deleted is finished, because whoever hands it over (its
last worker, its sender when it is empty, or the running task) has seen it so.
`OrderOK` puts what was answered, what is being answered, what is listed and the
next id in order; with it, `CheckAndResponse` and the tasks implement
`OrderedDelivery`.

*Limit.* `WithinLimit` alone says nothing of the threads that have passed the test
and not counted yet. `SpaceOK` counts them too: a request counted, one listed
and one about to be sent share `MaxProcessing - 1` places and one for each
caller. What the test sees is the counter, which a release before the `Upload`
takes below zero (`Early`); `CountOK` says what it then holds, modulo
`CounterMod`. So a thread may be let through by a counter that is too small, but
then the callers of these early requests are still in `Send` and have a place
each (`OwnerOK`, `Listers`), and the sum holds again. `PlaceOK` makes the
accounting exact: a request is in the list or in one task's hand, and is released
once.

*Waiting and leaving.* `HeldOK`: every request that was sent is listed, with a task
that still works on it, or deleted, and what has left the list is older than what
is in it. So when `WaitTaskDone` has seen its future and looks at `in_response_`,
nothing it waits for is listed (`WaitOK`), and once the flag is clear no task
holds any of it. `RequestsKept` adds to `HeldOK` that a task has come past `Respond`
only with a request that was answered or discarded (`RespondedOK`): one that is
neither is still in the list or in the hands of the task about to answer it. For `LeavesNothing` the unit counter is described as a sum over all
requests of what each has in it (`Weight`, negative for one released before its
`Upload`), modulo `CounterMod` (`UnitsOK`; the sum is a function of partial sums,
so that a step that changes one weight changes its tail by the same amount). When
all are deleted every weight is zero and so is the counter.

*Executor.* `OnePlace`: a piece that is somewhere between `Upload` and its report is
in one place (with its sender, in the batch, in a hand, in the cache, with the
dispatch thread, in an engine), was given and is not reported; `OnceThere`: it is
there once. A step moves the pieces of one place to another (`Moves`) or reports
them. The hard step is `ClearDiscard`, which takes the whole cache apart: it lists
the cells of the live pieces in their order (`InOrder`), which is shown to be a
bijection by the rank of a cell, and what it leaves has each of them once and
nothing else (`KeptFacts`); so what it reports is what it drops. `BatchHasTimer`
needs `FirstOK`, that `first_item_` is clear only while there is a batch, and for the
`Cancel` in the destructor that no piece is left when it runs (`StopOK`).
`HoldsOneTask` is inductive with the same fact: after `Join` no sender has a piece
whose `AddItem` would set the timer again. For
`QuietWhenGone` `LoadOK` bounds the number of packages in an engine's nodes by its
`task_num_`. Only this direction is proved: it is the one `~Engine` relies on, and
the other would also need that no two packages in an engine are alike. `NoPieceLost`
is the converse of `OnePlace`: an uploaded piece that is not reported is somewhere
(`Waits`). What could lose one is a thread that overwrites what it still holds: the
timer thread comes to its notifier with an empty hand and the dispatch thread to `Pop`
without a package (`EmptyOK`), the others look first, and when the destructor's
`Emit` takes the batch nothing is left (`StopOK`). With `ReportsAtMostOnce` a piece is
reported once or still on its way; that it arrives is the liveness property
`ReportedOrMissed`.

*Thread pool.* A thread has a task in hand exactly while it runs one (`Hands`), the
list of threads names threads that were made, each once (`ListOK`), and a thread
that was not made does nothing (`Fresh`). `KeepsAThread` compares the pool's size
with its idle threads: unless `overcount` is set, the threads that a shrink takes
away are fewer than the pool's own idle ones, and these are at most as many as the list
is long (`PoolSize`). `StopRunsAllUnlessLate` needs to know where a task can be:
pushed tasks are in the queue, in a hand or finished (`Accounted`). A thread that
is "tested" when `is_done_` is set, and is not late, has found the queue without any
of the tasks of `before` (`TestedOK`), and so has a thread of the pool that ended
under `Stop(true)` (`EndOK`); both rest on `FlagOK`, that only threads that left the
list are flagged, and on `PhaseOK`, what `Stop` has set so far. At most one thread
is between its looks, since it has `mutex_` (`MutexOK`); hence at most one is late
(`LateOK`). Once all threads of a pool that is not empty have ended, a task of
`before` that is still queued makes all of them late: so there is one. Otherwise no
such task can be in the queue or in one of their hands.

*Event bus.* `LossOK` counts for a `Stop` that still waits for the bus thread the
event it may cost, so that losing it uses up what the `Stop` has already paid;
`LoopOK` says when the thread has an event. `ChainOK` orders the five places on
the way of an event (bus queue, bus thread, message queue, message thread,
observer): each has only events accepted before those of the places before it.

*Removed streams.* `FlagInv` says of each removed stream that is in `source_map_`
which caller `Owns` its flag: a forced removal that has not reached the step
which clears it. The hard steps are those in which another caller, or `AddSource`,
changes the map in between; they are what the two critical sections leave open.

*Forgotten handlers, and waiting for the EOS.* Unless its id is `raced`, the handler
that a removal has found stays in the map until the removal erases it, stopped,
and with its thread joined after `Join` (`ClosedOK`, `StoppedOK`, `JoinedOK`); so what
is erased does not run (`GoneOK`). `OverlapOK` records that two removals of an id at a
time make it `raced`. With `ForgetInv`, `EosOK` says that the flag of an id is
"coming" while an EOS of it is in the pipeline, and `WaitedOK` that a forced removal
that has seen no EOS coming will not see one later, because the only thread that
could send it is joined.

*Memory handler.* A picture goes from the parser through the hands of one writer,
the queue and the decoder to what was sent, and each place has only older
pictures than the place before (`Lines`). The picture that the parser holds is newer
than all of these (`HeldInv`); only the writer that has the parser's mutex has a
picture in hand, as its first item, older than what the parser holds
(`HandsInv`). `PhaseInv` says when there is nothing: no open parser before
`OpenParser` or after `CloseParser`, no decoder content outside the loop; hence
`Open` finds all places empty and nothing older than it is left. `EosInv`: after
an EOS was sent the thread has ended.

Every safety property of the passing runs is a theorem. *Only model-checked:* all
liveness (`AcceptedEosDone`, `AcceptedFrameDone`, `StopReturns`, `DoneOrMissed`,
`RequestReturns`, `ErrorShown`, `TaskRunsOrMissed`, `CalledThreadsEnd`,
`ReportedOrMissed`, `DestroyEnds`, `RemoveReturns`, `EosIsSent`, `CallsReturn`),
which the prover cannot treat under fairness, and the three findings, which are
counterexamples.

## 5. Plan

Done: 1. `Pipeline`; 2. `InferSession`; 3. `EventBus`; 4. `Sources` with the index
manager and the source life cycle; 5. `Executor` and `ExactlyOnce`;
6. `ThreadPool`, with the batcher and the timer in `Executor`; 7. `EsMemHandler`;
with the proofs above.

Left, in this order:

8. Several threads in `WaitTaskDone`, the reuse of a `RequestControl`'s address,
    `RequestSync` with its timeout.
9. Modules with `hasTransmit` (the inference module) in `Pipeline`.
10. Graph algorithms as operators (cycle search, DFS order), the word-level shift in
    `ReturnModuleIdx`, the buffer pool, the RTSP, JPEG, image and camera handlers.

### Not modelled

- Module indexes in `IdxManager` at word level: they are returned only with the
  pipeline, and the shift is one expression.
- Graph and configuration: sequential; the acyclic graph is an assumption.
- Collection, allocator, profiler: a locked map, a pool that blocks in its own
  condition variable, statistics that decide nothing.
- Model manager, processors, device runtime, codecs, transforms, platform: calls
  into vendor libraries. Of them `EsMemHandler` has the decoder's polling loop.
- RTSP, JPEG, image and camera handlers: they have the thread and the EOS handling of the
  two handlers modelled, around other libraries.
- The inference module: a client of the session; its requests and waits are the
  actions of `InferSession`, its place in the pipeline remains to be modelled with
  `hasTransmit`. It resets `drop_cnt_map_` (`inferencer.cpp:457`) outside the
  mutex under which the other task threads insert into that map: a data race.
- Encode, RTSP output, OSD, tracking, display and Kafka modules, contributed modules:
  each frame is processed alone, around external libraries.
- Python bindings, samples, tools, vendored code: no state of their own, or not part
  of the program.
