---------------------------- MODULE InferSession ----------------------------
(***************************************************************************)
(* A session of the inference server (easydk/src/infer_server/core/        *)
(* session.cpp, session.h, request_ctrl.cpp, request_ctrl.h): requests are *)
(* sent by any thread, their data is processed piece by piece by the       *)
(* engine's workers, and the responses are given, in the order of sending, *)
(* by tasks in the thread pool of which at most one is to run at a time.   *)
(*                                                                         *)
(* The executor's cache and engine are abstracted: every piece of data     *)
(* that was uploaded is reported done, or discarded, exactly once, by      *)
(* some worker at some time.  A request is named by its request_id_; a     *)
(* RequestControl that was deleted is never named again, so the reuse of   *)
(* its address by a later request is not covered.                          *)
(***************************************************************************)
EXTENDS Integers, Sequences, FiniteSets

CONSTANTS
  Callers,     (* threads that call InferServer::Request        *)
  MaxProcessing, (* max_processing_num_                         *)
  MaxRequest,  (* bound: requests sent                          *)
  CounterMod,  (* the counters are modulo this, 2^32 in the code *)
  DataNums,    (* sizes a package may have, 0 is legal          *)
  Tags,        (* Package::tag                                  *)
  MaxDiscard,  (* bound: calls of DiscardTask                   *)
  MaxWait      (* bound: calls of WaitTaskDone                  *)

ASSUME SessionAssumption ==
  /\ MaxRequest \in Nat /\ MaxDiscard \in Nat /\ MaxWait \in Nat
  /\ DataNums \subseteq Nat /\ Tags # {} /\ Callers # {}
  /\ MaxProcessing \in Nat \ {0} /\ IsFiniteSet(Callers)
  /\ CounterMod \in Nat \ {0} /\ MaxProcessing + Cardinality(Callers) <= CounterMod

Requests == 1 .. MaxRequest
None     == 0                       \* no request

VARIABLES
  life,        (* Session: "alive", in ~Session "waiting"/"woken", "gone"    *)
  next_id,     (* request_id_, the id of the next request                    *)
  request_list,(* request_list_                                              *)
  tag,         (* per request: tag_                                          *)
  data_num,    (* per request: data_num_                                     *)
  wait_num,    (* per request: wait_num_                                     *)
  finished,    (* requests with process_finished_                            *)
  discarded,   (* requests with is_discarded_                                *)
  sending,     (* per request: where Send is with it                         *)
  pc,          (* per thread: where it is in Request                         *)
  sender,      (* per request: the thread that is in Send with it            *)
  lost,        (* history: threads that missed the wake-up they waited for   *)
  notifying,   (* requests whose last ProcessDone is still in done_notifier_ *)
  in_response, (* in_response_                                               *)
  task,        (* response tasks, by the request they were pushed for        *)
  cur,         (* per task: next, the request it works on                    *)
  units, reqs, (* Executor::processing_unit_ and processing_req_             *)
  waiter,      (* the thread in WaitTaskDone: phase, future and history      *)
  calls,       (* number of DiscardTask and of WaitTaskDone calls            *)
  answered,    (* history: requests whose Response has run                   *)
  deleted      (* requests whose RequestControl is destroyed                 *)

requestVars == <<tag, data_num>>
callerVars == <<pc, sender, lost>>
vars == <<callerVars, life, next_id, request_list, requestVars, wait_num, finished, discarded, sending,
          notifying, in_response, task, cur, units, reqs, waiter, calls, answered, deleted>>

Init ==
  /\ life = "alive"
  /\ next_id = 1
  /\ request_list = <<>>
  /\ tag = [r \in Requests |-> CHOOSE t \in Tags : TRUE]
  /\ data_num = [r \in Requests |-> 0]
  /\ wait_num = [r \in Requests |-> 0]
  /\ finished = {}
  /\ discarded = {}
  /\ sending = [r \in Requests |-> "none"]
  /\ pc = [c \in Callers |-> "idle"]
  /\ sender = [r \in Requests |-> {}]
  /\ lost = {}
  /\ notifying = {}
  /\ in_response = FALSE
  /\ task = [r \in Requests |-> "none"]
  /\ cur = [r \in Requests |-> None]
  /\ units = 0 /\ reqs = 0
  /\ waiter = [pc |-> "idle", last |-> None, before |-> {}]
  /\ calls = [discard |-> 0, wait |-> 0]
  /\ answered = {}
  /\ deleted = {}

Listed == {request_list[i] : i \in DOMAIN request_list}
-----------------------------------------------------------------------------
(* InferServer::Request without timeout: Executor::WaitIfCacheFull, then    *)
(* Session::Send                                                           *)

\* Variant: the limit itself is let through.
UpToLimit(u, q) == u <= MaxProcessing /\ q <= MaxProcessing

BelowLimit(u, q) == u < MaxProcessing /\ q < MaxProcessing
IdlePred == BelowLimit(units, reqs)

Calling(c, at) == pc[c] = at
In(at) == {c \in Callers : pc[c] = at}
Goto(c, at) == pc' = [pc EXCEPT ![c] = at]

\* the predicate is first tested without limit_mutex_
Request(c) ==
  /\ life = "alive" /\ Calling(c, "idle")
  /\ next_id + Cardinality(Callers \ (In("idle") \cup In("sending"))) <= MaxRequest
  /\ Goto(c, IF IdlePred THEN "send" ELSE "lock")
  /\ UNCHANGED <<sender, lost, life, next_id, request_list, requestVars, wait_num, finished, discarded,
                 sending, notifying, in_response, task, cur, units, reqs, waiter, calls, answered, deleted>>

\* limit_cond_.wait: the predicate under limit_mutex_, which is held from
\* the test until the thread sleeps
LockLimit(c) ==
  /\ Calling(c, "lock") /\ In("doze") = {}
  /\ Goto(c, IF IdlePred THEN "send" ELSE "doze")
  /\ UNCHANGED <<sender, lost, life, next_id, request_list, requestVars, wait_num, finished, discarded,
                 sending, notifying, in_response, task, cur, units, reqs, waiter, calls, answered, deleted>>

Sleep(c) ==
  /\ Calling(c, "doze")
  /\ Goto(c, "asleep")
  /\ UNCHANGED <<sender, lost, life, next_id, request_list, requestVars, wait_num, finished, discarded,
                 sending, notifying, in_response, task, cur, units, reqs, waiter, calls, answered, deleted>>

\* Variant: nobody is notified.
NotifyNobody == UNCHANGED <<pc, lost>>

\* limit_cond_.notify_one() without limit_mutex_: a thread that has tested the
\* predicate and does not sleep yet is not reached
NotifyOne ==
  \/ \E c \in In("asleep") : Goto(c, "lock") /\ lost' = (lost \cup In("doze")) \ {c}
  \/ In("asleep") = {} /\ lost' = lost \cup In("doze") /\ UNCHANGED pc

\* running_ is set; the RequestControl is made and listed under request_mutex_
Send(c, r) ==
  /\ life = "alive" /\ Calling(c, "send")
  /\ next_id = r /\ r \in Requests
  /\ next_id' = r + 1
  /\ request_list' = Append(request_list, r)
  /\ sending' = [sending EXCEPT ![r] = "listed"]
  /\ sender' = [sender EXCEPT ![r] = {c}]
  /\ Goto(c, "sending")
  /\ \E n \in DataNums, t \in Tags :
       /\ tag' = [tag EXCEPT ![r] = t]
       /\ data_num' = [data_num EXCEPT ![r] = n]
       /\ wait_num' = [wait_num EXCEPT ![r] = n]
       /\ finished' = IF n = 0 THEN finished \cup {r} ELSE finished
  /\ UNCHANGED <<lost, life, discarded, notifying, in_response, task, cur, units, reqs,
                 waiter, calls, answered, deleted>>

\* Send returns to its caller
Sent(r) ==
  /\ pc' = [c \in Callers |-> IF c \in sender[r] THEN "idle" ELSE pc[c]]
  /\ sender' = [sender EXCEPT ![r] = {}]

\* Executor::Upload.  It may bring a counter that an early release has taken
\* below zero back under the limit; no sleeping thread is told.
Upload(r) ==
  /\ sending[r] = "listed"
  /\ units' = (units + data_num[r]) % CounterMod
  /\ reqs' = (reqs + 1) % CounterMod
  /\ sending' = [sending EXCEPT ![r] = IF data_num[r] = 0 THEN "check" ELSE "sent"]
  /\ IF data_num[r] = 0 THEN UNCHANGED <<pc, sender>> ELSE Sent(r)
  /\ lost' = IF BelowLimit(units', reqs') /\ ~IdlePred
             THEN lost \cup In("doze") \cup In("asleep") ELSE lost
  /\ UNCHANGED <<life, next_id, request_list, requestVars, wait_num, finished, discarded,
                 notifying, in_response, task, cur, waiter, calls, answered, deleted>>

\* Variant of CheckAndResponse: in_response_ is not asked.
HandUnasked(caller) ==
  LET front == Head(request_list)
  IN  /\ request_list # <<>>
      /\ IF caller = front \/ front \in finished
         THEN /\ in_response' = TRUE
              /\ request_list' = Tail(request_list)
              /\ task' = [task EXCEPT ![front] = "respond"]
              /\ cur' = [cur EXCEPT ![front] = front]
         ELSE UNCHANGED <<in_response, request_list, task, cur>>
      /\ UNCHANGED life

\* Session::CheckAndResponse(caller), under request_mutex_: the front request
\* is handed to a new response task if it is finished and no task runs.
\* With no request left, and when it is the last, ~Session is notified.
CheckAndResponse(caller) ==
  LET front == Head(request_list)
  IN  \/ /\ request_list = <<>>
         /\ life' = IF life = "waiting" THEN "woken" ELSE life
         /\ UNCHANGED <<request_list, in_response, task, cur>>
      \/ /\ request_list # <<>>
         /\ (caller # front /\ front \notin finished) \/ in_response
         /\ UNCHANGED <<life, request_list, in_response, task, cur>>
      \/ /\ request_list # <<>>
         /\ caller = front \/ front \in finished
         /\ ~in_response
         /\ in_response' = TRUE
         /\ request_list' = Tail(request_list)
         /\ task' = [task EXCEPT ![front] = "respond"]
         /\ cur' = [cur EXCEPT ![front] = front]
         /\ UNCHANGED life

\* Send of a package without data makes the check itself
CheckEmpty(r) ==
  /\ sending[r] = "check"
  /\ sending' = [sending EXCEPT ![r] = "sent"]
  /\ Sent(r)
  /\ CheckAndResponse(r)
  /\ UNCHANGED <<lost, next_id, requestVars, wait_num, finished, discarded, notifying, units, reqs,
                 waiter, calls, answered, deleted>>
-----------------------------------------------------------------------------
(* RequestControl::ProcessDone and ProcessFailed, in a worker of the engine *)

\* Variant: a piece may be reported done although none is missing.
ProcessTwice(r) ==
  /\ sending[r] \in {"check", "sent"}
  /\ wait_num' = [wait_num EXCEPT ![r] = @ - 1]
  /\ UNCHANGED <<callerVars, life, next_id, request_list, requestVars, finished, notifying, discarded, sending,
                 in_response, task, cur, units, reqs, waiter, calls, answered, deleted>>

\* under done_mutex_; for the last piece done_mutex_ stays locked until the
\* notifier returns
ProcessDone(r) ==
  /\ sending[r] # "listed" /\ wait_num[r] > 0
  /\ wait_num' = [wait_num EXCEPT ![r] = @ - 1]
  /\ IF wait_num[r] = 1
     THEN finished' = finished \cup {r} /\ notifying' = notifying \cup {r}
     ELSE UNCHANGED <<finished, notifying>>
  /\ UNCHANGED <<callerVars, life, next_id, request_list, requestVars, discarded, sending, in_response, task, cur,
                 units, reqs, waiter, calls, answered, deleted>>

DoneNotifier(r) ==
  /\ r \in notifying
  /\ notifying' = notifying \ {r}
  /\ CheckAndResponse(r)
  /\ UNCHANGED <<callerVars, next_id, requestVars, wait_num, finished, discarded, sending, units, reqs,
                 waiter, calls, answered, deleted>>
-----------------------------------------------------------------------------
(* The response task pushed by CheckAndResponse                            *)

\* if (!next->IsDiscarded()) next->Response();
Respond(k) ==
  /\ task[k] = "respond"
  /\ answered' = IF cur[k] \in discarded THEN answered ELSE answered \cup {cur[k]}
  /\ task' = [task EXCEPT ![k] = "release"]
  /\ UNCHANGED <<callerVars, life, next_id, request_list, requestVars, wait_num, finished, discarded, sending,
                 notifying, in_response, cur, units, reqs, waiter, calls, deleted>>

\* Variant: what was discarded is not counted back.
ReleaseAnswered(k) ==
  /\ task[k] = "release"
  /\ IF cur[k] \in answered
     THEN units' = (units - data_num[cur[k]]) % CounterMod /\ reqs' = (reqs - 1) % CounterMod
     ELSE UNCHANGED <<units, reqs>>
  /\ NotifyOne
  /\ task' = [task EXCEPT ![k] = "delete"]
  /\ UNCHANGED <<sender, life, next_id, request_list, requestVars, wait_num, finished, discarded, sending,
                 notifying, in_response, cur, waiter, calls, answered, deleted>>

\* Executor::ReleaseCount
ReleaseCount(k) ==
  /\ task[k] = "release"
  /\ units' = (units - data_num[cur[k]]) % CounterMod
  /\ reqs' = (reqs - 1) % CounterMod
  /\ NotifyOne
  /\ task' = [task EXCEPT ![k] = "delete"]
  /\ UNCHANGED <<sender, life, next_id, request_list, requestVars, wait_num, finished, discarded, sending,
                 notifying, in_response, cur, waiter, calls, answered, deleted>>

\* delete next;  ~RequestControl locks done_mutex_ and sets response_done_flag_
Delete(k) ==
  /\ task[k] = "delete"
  /\ cur[k] \notin notifying
  /\ deleted' = deleted \cup {cur[k]}
  /\ task' = [task EXCEPT ![k] = "next"]
  /\ UNCHANGED <<callerVars, life, next_id, request_list, requestVars, wait_num, finished, discarded, sending,
                 notifying, in_response, cur, units, reqs, waiter, calls, answered>>

\* Variants of NextRequest: the next request is taken without asking whether
\* it is finished; in_response_ stays set when the list is empty.
NextUnasked(k) ==
  /\ task[k] = "next"
  /\ \/ /\ request_list = <<>>
        /\ in_response' = FALSE
        /\ life' = IF life = "waiting" THEN "woken" ELSE life
        /\ task' = [task EXCEPT ![k] = "none"]
        /\ UNCHANGED <<request_list, cur>>
     \/ /\ request_list # <<>>
        /\ request_list' = Tail(request_list)
        /\ cur' = [cur EXCEPT ![k] = Head(request_list)]
        /\ task' = [task EXCEPT ![k] = "respond"]
        /\ UNCHANGED <<life, in_response>>
  /\ UNCHANGED <<callerVars, next_id, requestVars, wait_num, finished, discarded, sending, notifying,
                 units, reqs, waiter, calls, answered, deleted>>

NextKeepsFlag(k) ==
  /\ task[k] = "next"
  /\ \/ /\ request_list = <<>>
        /\ life' = IF life = "waiting" THEN "woken" ELSE life
        /\ task' = [task EXCEPT ![k] = "none"]
        /\ UNCHANGED <<request_list, in_response, cur>>
     \/ /\ request_list # <<>> /\ Head(request_list) \in finished
        /\ request_list' = Tail(request_list)
        /\ cur' = [cur EXCEPT ![k] = Head(request_list)]
        /\ task' = [task EXCEPT ![k] = "respond"]
        /\ UNCHANGED <<life, in_response>>
     \/ /\ request_list # <<>> /\ Head(request_list) \notin finished
        /\ task' = [task EXCEPT ![k] = "clear"]
        /\ UNCHANGED <<life, request_list, in_response, cur>>
  /\ UNCHANGED <<callerVars, next_id, requestVars, wait_num, finished, discarded, sending, notifying,
                 units, reqs, waiter, calls, answered, deleted>>

\* under request_mutex_: the loop goes on with the front request if that is
\* finished, and ends otherwise
NextRequest(k) ==
  /\ task[k] = "next"
  /\ \/ /\ request_list = <<>>
        /\ in_response' = FALSE
        /\ life' = IF life = "waiting" THEN "woken" ELSE life
        /\ task' = [task EXCEPT ![k] = "none"]
        /\ UNCHANGED <<request_list, cur>>
     \/ /\ request_list # <<>> /\ Head(request_list) \in finished
        /\ request_list' = Tail(request_list)
        /\ cur' = [cur EXCEPT ![k] = Head(request_list)]
        /\ task' = [task EXCEPT ![k] = "respond"]
        /\ UNCHANGED <<life, in_response>>
     \/ /\ request_list # <<>> /\ Head(request_list) \notin finished
        /\ task' = [task EXCEPT ![k] = "clear"]
        /\ UNCHANGED <<life, request_list, in_response, cur>>
  /\ UNCHANGED <<callerVars, next_id, requestVars, wait_num, finished, discarded, sending, notifying,
                 units, reqs, waiter, calls, answered, deleted>>

\* in_response_.store(false) after the loop, with request_mutex_ unlocked
ClearInResponse(k) ==
  /\ task[k] = "clear"
  /\ in_response' = FALSE
  /\ task' = [task EXCEPT ![k] = "none"]
  /\ UNCHANGED <<callerVars, life, next_id, request_list, requestVars, wait_num, finished, discarded, sending,
                 notifying, cur, units, reqs, waiter, calls, answered, deleted>>
-----------------------------------------------------------------------------
(* Session::WaitTaskDone and Session::DiscardTask, called by one thread     *)

\* the future of the last listed request with the tag, if there is one
WaitTaskDone(t) ==
  /\ life = "alive" /\ waiter.pc = "idle" /\ calls.wait < MaxWait
  /\ calls' = [calls EXCEPT !.wait = @ + 1]
  /\ LET before  == {r \in 1 .. next_id - 1 : tag[r] = t}
         indices == {i \in DOMAIN request_list : request_list[i] \in before}
     IN  \/ /\ indices = {}
            /\ waiter' = [pc |-> "spin", last |-> None, before |-> before]
         \/ \E i \in indices :
              /\ \A j \in indices : j <= i
              /\ waiter' = [pc |-> "wait", last |-> request_list[i], before |-> before]
  /\ UNCHANGED <<callerVars, life, next_id, request_list, requestVars, wait_num, finished, discarded, sending,
                 notifying, in_response, task, cur, units, reqs, answered, deleted>>

\* flag.get()
FutureReady ==
  /\ waiter.pc = "wait" /\ waiter.last \in deleted
  /\ waiter' = [waiter EXCEPT !.pc = "spin"]
  /\ UNCHANGED <<callerVars, life, next_id, request_list, requestVars, wait_num, finished, discarded, sending,
                 notifying, in_response, task, cur, units, reqs, calls, answered, deleted>>

\* Variant: the caller returns without looking at in_response_.
NoSpin ==
  /\ waiter.pc = "spin"
  /\ waiter' = [waiter EXCEPT !.pc = "idle"]
  /\ UNCHANGED <<callerVars, life, next_id, request_list, requestVars, wait_num, finished, discarded, sending,
                 notifying, in_response, task, cur, units, reqs, calls, answered, deleted>>

\* while (in_response_.load()) {}
SpinEnd ==
  /\ waiter.pc = "spin" /\ ~in_response
  /\ waiter' = [waiter EXCEPT !.pc = "idle"]
  /\ UNCHANGED <<callerVars, life, next_id, request_list, requestVars, wait_num, finished, discarded, sending,
                 notifying, in_response, task, cur, units, reqs, calls, answered, deleted>>

DiscardTask(t) ==
  /\ life = "alive" /\ calls.discard < MaxDiscard
  /\ calls' = [calls EXCEPT !.discard = @ + 1]
  /\ discarded' = discarded \cup {r \in Listed : tag[r] = t}
  /\ UNCHANGED <<callerVars, life, next_id, request_list, requestVars, wait_num, finished, sending, notifying,
                 in_response, task, cur, units, reqs, waiter, answered, deleted>>
-----------------------------------------------------------------------------
(* ~Session, called when no other call into the session is in progress      *)

\* the predicate of sync_cond_
AllDone == request_list = <<>> /\ ~in_response

Destroy ==
  /\ \/ life = "alive" /\ waiter.pc = "idle" /\ In("idle") = Callers
     \/ life = "woken"
  /\ life' = IF AllDone THEN "gone" ELSE "waiting"
  /\ UNCHANGED <<callerVars, next_id, request_list, requestVars, wait_num, finished, discarded, sending, notifying,
                 in_response, task, cur, units, reqs, waiter, calls, answered, deleted>>
-----------------------------------------------------------------------------
SenderStep(r) == Upload(r) \/ CheckEmpty(r)
CallerStep(c) == LockLimit(c) \/ Sleep(c) \/ \E r \in Requests : Send(c, r)
WorkerStep(r) == ProcessDone(r) \/ DoneNotifier(r)
TaskStep(k)   == Respond(k) \/ ReleaseCount(k) \/ Delete(k) \/ NextRequest(k) \/ ClearInResponse(k)
WaiterStep    == FutureReady \/ SpinEnd

Next ==
  \/ \E c \in Callers : Request(c) \/ CallerStep(c)
  \/ \E r \in Requests : SenderStep(r) \/ WorkerStep(r) \/ TaskStep(r)
  \/ \E t \in Tags : WaitTaskDone(t) \/ DiscardTask(t)
  \/ WaiterStep \/ Destroy

Spec == Init /\ [][Next]_vars

\* Threads of the pool, senders and waiters are scheduled and the engine
\* finishes what it was given; nobody has to make another call.
FairSpec ==
  /\ Spec
  /\ \A r \in Requests : WF_vars(SenderStep(r)) /\ WF_vars(WorkerStep(r)) /\ WF_vars(TaskStep(r))
  /\ \A c \in Callers : WF_vars(CallerStep(c))
  /\ WF_vars(WaiterStep)
-----------------------------------------------------------------------------
CallerLabels == {"idle", "lock", "doze", "asleep", "send", "sending"}
SendLabels == {"none", "listed", "check", "sent"}
TaskLabels == {"none", "respond", "release", "delete", "next", "clear"}

\* Types of all variables.
TypeOK ==
  /\ life \in {"alive", "waiting", "woken", "gone"}
  /\ next_id \in 1 .. MaxRequest + 1
  /\ request_list \in Seq(Requests)
  /\ tag \in [Requests -> Tags]
  /\ data_num \in [Requests -> Nat]
  /\ wait_num \in [Requests -> Nat]
  /\ finished \subseteq Requests /\ discarded \subseteq Requests /\ notifying \subseteq Requests
  /\ pc \in [Callers -> CallerLabels] /\ sender \in [Requests -> SUBSET Callers] /\ lost \subseteq Callers
  /\ sending \in [Requests -> SendLabels]
  /\ in_response \in BOOLEAN
  /\ task \in [Requests -> TaskLabels]
  /\ cur \in [Requests -> Requests \cup {None}]
  /\ units \in 0 .. CounterMod - 1 /\ reqs \in 0 .. CounterMod - 1
  /\ waiter \in [pc : {"idle", "wait", "spin"}, last : Requests \cup {None}, before : SUBSET Requests]
  /\ calls \in [discard : 0 .. MaxDiscard, wait : 0 .. MaxWait]
  /\ answered \subseteq Requests /\ deleted \subseteq Requests

\* in_response_ lets one response task at a time run, although it is tested
\* under request_mutex_ and cleared without it.
OneResponder ==
  /\ \A j, k \in Requests : task[j] # "none" /\ task[k] # "none" => j = k
  /\ in_response <=> \E k \in Requests : task[k] # "none"

\* A request is answered, and its RequestControl destroyed, only when no worker
\* has a piece of it and none is inside its ProcessDone.
AnsweredWhole ==
  \A r \in answered \cup deleted :
    wait_num[r] = 0 /\ (r \in deleted => r \notin notifying)

\* Observers get the responses of a session in the order of the requests, each
\* at most once (test_request.cpp, ResponseOrder), whatever the workers do.
Service == INSTANCE OrderedDelivery WITH
  Streams <- {"session"}, MaxFrame <- MaxRequest,
  given <- [s \in {"session"} |-> next_id - 1], out <- [s \in {"session"} |-> answered]
RespondsInOrder == Service!Spec

\* WaitTaskDone returns only when every request with the tag sent before the
\* call has had its response, the one being responded included.
WaitCoversAll ==
  [][waiter.pc = "spin" /\ waiter'.pc = "idle" => waiter.before \subseteq deleted]_waiter

\* Nothing is left behind.  Once every request was answered or skipped, the limit
\* counters of the executor are back at zero, so that a session cannot use up
\* WaitIfCacheFull's quota; after ~Session no worker and no response task is inside.
LeavesNothing ==
  /\ (\A r \in 1 .. next_id - 1 : sending[r] = "sent" /\ r \in deleted) =>
       units = 0 /\ reqs = 0
  /\ life = "gone" => /\ \A k \in Requests : task[k] = "none"
                      /\ notifying = {} /\ request_list = <<>>

\* Requests after ReleaseCount, and those that Upload has counted and
\* ReleaseCount not yet.
Released == deleted \cup {r \in Requests : \E k \in Requests : task[k] = "delete" /\ cur[k] = r}
Counted  == {r \in Requests : sending[r] \in {"check", "sent"}} \ Released

\* WaitIfCacheFull and Upload are two steps, so threads that see the last free
\* place at the same time all go on: max_processing_num_ is exceeded, but never
\* by more than one request for each other thread.
WithinLimit ==
  Cardinality(Counted) <= MaxProcessing - 1 + Cardinality(Callers)

\* The front request is finished, but nobody is left to respond to it.
Missed ==
  /\ request_list # <<>> /\ Head(request_list) \in finished
  /\ ~in_response /\ notifying = {}
  /\ \A r \in Requests : sending[r] # "check"

\* Every request gets its turn, except when its last worker found in_response_
\* still set by a task that had already looked at the list.
DoneOrMissed ==
  \A r \in Requests : sending[r] = "sent" ~> r \in deleted \/ Missed

\* A thread that waits for room goes on, except when a release or an Upload that
\* made room did not reach it, or when the session has stopped responding.
RequestReturns ==
  \A c \in Callers : pc[c] = "lock" ~> pc[c] = "idle" \/ c \in lost \/ Missed

\* WaitTaskDone returns: its documentation is "Wait task with specified tag done".
WaitReturns == waiter.pc = "wait" ~> waiter.pc = "idle"
=============================================================================
