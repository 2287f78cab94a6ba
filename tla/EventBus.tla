------------------------------ MODULE EventBus ------------------------------
(***************************************************************************)
(* How events and stream messages reach the application (framework/src/    *)
(* unistream_eventbus.cpp, unistream_pipeline.cpp): modules post events to *)
(* the bus, its thread shows them to the watchers, the pipeline's own      *)
(* watcher (DefaultBusWatch) turns errors into stream messages, and the    *)
(* message thread hands those to the observer.  EOS and frame-error        *)
(* messages take the second queue only.                                    *)
(*                                                                         *)
(* An event is named by the number of its PostEvent call, a message by the *)
(* event it is made from.                                                  *)
(***************************************************************************)
EXTENDS Integers, Sequences, FiniteSets

CONSTANTS
  MaxEvent,   (* bound: calls of PostEvent                                *)
  MaxDirect,  (* bound: messages that do not come from an event           *)
  MaxStart,   (* bound: calls of EventBus::Start                          *)
  MaxStop,    (* bound: calls of EventBus::Stop                           *)
  Types,      (* EventType of the events posted, a subset of EventTypes   *)
  AppFlags    (* what the application's watcher may return                *)

EventTypes == {"EVENT_ERROR", "EVENT_WARNING", "EVENT_STOP", "EVENT_EOS",
               "EVENT_STREAM_ERROR", "EVENT_INVALID"}
Flags == {"NULL", "INTERCEPTION", "SYNCED", "STOP"}

ASSUME BusAssumption ==
  /\ MaxEvent \in Nat /\ MaxDirect \in Nat /\ MaxStart \in Nat /\ MaxStop \in Nat
  /\ Types \subseteq EventTypes /\ Types # {}
  /\ AppFlags \subseteq Flags

Events == 1 .. MaxEvent
Direct == MaxEvent + 1 .. MaxEvent + MaxDirect    \* messages without an event
NoEvent == 0

VARIABLES
  running,  (* EventBus::running_                                          *)
  ctl,      (* the thread in Start and Stop: "idle", "join" or "destroyed" *)
  starts, stops,
  type,     (* type of each event                                          *)
  post,     (* where PostEvent is with each event                          *)
  queue,    (* EventBus::queue_                                            *)
  loop,     (* where EventLoop is; "off" when the thread has ended         *)
  event,    (* the event it has popped                                     *)
  msgq,     (* Pipeline::msgq_                                             *)
  direct,   (* number of messages that did not come from an event          *)
  exit,     (* exit_msg_loop_                                              *)
  mloop,    (* where StreamMsgHandleFunc is                                *)
  msg,      (* the message it has popped                                   *)
  accepted, (* history: events in the order they were queued               *)
  handled,  (* history: events the watchers have seen                      *)
  taken,    (* history: those the application's watcher kept to itself     *)
  shown     (* history: messages given to the observer                     *)

ctlVars  == <<running, ctl, starts, stops, exit>>
postVars == <<type, post, accepted>>
loopVars == <<loop, event, handled, taken>>
msgVars  == <<direct, mloop, msg, shown>>
vars == <<ctlVars, postVars, loopVars, msgVars, queue, msgq>>

\* the constructor of the pipeline starts the message thread
Init ==
  /\ running = FALSE /\ ctl = "idle" /\ starts = 0 /\ stops = 0
  /\ type \in [Events -> Types]
  /\ post = [e \in Events |-> "none"]
  /\ queue = <<>> /\ accepted = <<>>
  /\ loop = "off" /\ event = NoEvent /\ handled = {} /\ taken = {}
  /\ msgq = <<>> /\ direct = 0 /\ exit = FALSE
  /\ mloop = "top" /\ msg = NoEvent /\ shown = <<>>
-----------------------------------------------------------------------------
(* EventBus::PostEvent, in any thread                                      *)

\* if (!running_.load()) return false;
PostCheck(e) ==
  /\ post[e] = "none" /\ ctl # "destroyed"
  /\ \A d \in Events : d < e => post[d] # "none"
  /\ post' = [post EXCEPT ![e] = IF running THEN "push" ELSE "refused"]
  /\ UNCHANGED <<type, accepted, ctlVars, loopVars, msgVars, queue, msgq>>

PostPush(e) ==
  /\ post[e] = "push"
  /\ post' = [post EXCEPT ![e] = "done"]
  /\ queue' = Append(queue, e)
  /\ accepted' = Append(accepted, e)
  /\ UNCHANGED <<type, ctlVars, loopVars, msgVars, msgq>>
-----------------------------------------------------------------------------
(* EventBus::EventLoop and PollEvent                                       *)

\* while (IsRunning())
LoopTop ==
  /\ loop = "top"
  /\ loop' = IF running THEN "poll" ELSE "off"
  /\ UNCHANGED <<event, handled, taken, ctlVars, postVars, msgVars, queue, msgq>>

\* while (running_.load()); without it PollEvent returns EVENT_STOP
PollTest ==
  /\ loop = "poll"
  /\ loop' = IF running THEN "wait" ELSE "off"
  /\ UNCHANGED <<event, handled, taken, ctlVars, postVars, msgVars, queue, msgq>>

\* Variant: the newest event is popped first.
PollNewest ==
  /\ loop = "wait"
  /\ IF queue # <<>>
     THEN /\ loop' = "polled" /\ event' = queue[Len(queue)]
          /\ queue' = SubSeq(queue, 1, Len(queue) - 1)
     ELSE ~running /\ loop' = "poll" /\ UNCHANGED <<event, queue>>
  /\ UNCHANGED <<handled, taken, ctlVars, postVars, msgVars, msgq>>

\* WaitAndTryPop; its timeout is only a way back to the test
PollPop ==
  /\ loop = "wait"
  /\ IF queue # <<>>
     THEN loop' = "polled" /\ event' = Head(queue) /\ queue' = Tail(queue)
     ELSE ~running /\ loop' = "poll" /\ UNCHANGED <<event, queue>>
  /\ UNCHANGED <<handled, taken, ctlVars, postVars, msgVars, msgq>>

\* if (!running_.load()) event.type = EVENT_STOP;  the popped event is lost
PollReturn ==
  /\ loop = "polled"
  /\ \/ /\ running /\ type[event] \notin {"EVENT_STOP", "EVENT_INVALID"}
        /\ loop' = "dispatch"
        /\ UNCHANGED <<event, handled>>
     \/ /\ running /\ type[event] \in {"EVENT_STOP", "EVENT_INVALID"}    \* EventLoop ends
        /\ loop' = "off" /\ event' = NoEvent
        /\ handled' = handled \cup {event}
     \/ /\ ~running
        /\ loop' = "off" /\ event' = NoEvent
        /\ UNCHANGED handled
  /\ UNCHANGED <<taken, ctlVars, postVars, msgVars, queue, msgq>>

\* Variant: only errors make messages.
ReportedErrors(e) == type[e] = "EVENT_ERROR"

\* DefaultBusWatch: the message it makes and the flag it returns
Reported(e) == type[e] \in {"EVENT_ERROR", "EVENT_STREAM_ERROR"}
DefaultFlag(e) == IF type[e] = "EVENT_ERROR" THEN "STOP" ELSE "SYNCED"

\* the watchers, the application's first (push_front)
Dispatch ==
  /\ loop = "dispatch"
  /\ \E flag \in AppFlags \cup (IF AppFlags = {} THEN {"NULL"} ELSE {}) :
       \/ /\ flag \in {"INTERCEPTION", "STOP"}
          /\ loop' = IF flag = "STOP" THEN "off" ELSE "top"
          /\ taken' = taken \cup {event}
          /\ UNCHANGED msgq
       \/ /\ flag \notin {"INTERCEPTION", "STOP"}
          /\ loop' = IF DefaultFlag(event) = "STOP" THEN "off" ELSE "top"
          /\ msgq' = IF Reported(event) THEN Append(msgq, event) ELSE msgq
          /\ UNCHANGED taken
  /\ handled' = handled \cup {event}
  /\ event' = NoEvent
  /\ UNCHANGED <<ctlVars, postVars, msgVars, queue>>
-----------------------------------------------------------------------------
(* The stream message queue                                                *)

\* UpdateByStreamMsg from OnPassThrough and OnDataInvalid
PushMsg(d) ==
  /\ d = MaxEvent + direct + 1 /\ direct < MaxDirect /\ ctl # "destroyed"
  /\ direct' = direct + 1
  /\ msgq' = Append(msgq, d)
  /\ UNCHANGED <<ctlVars, postVars, loopVars, mloop, msg, shown, queue>>

\* while (!exit_msg_loop_ && !msgq_.WaitAndTryPop(..))
MsgTop ==
  /\ mloop = "top"
  /\ mloop' = IF exit THEN "off" ELSE "wait"
  /\ UNCHANGED <<direct, msg, shown, ctlVars, postVars, loopVars, queue, msgq>>

\* WaitAndTryPop of msgq_
MsgPop ==
  /\ mloop = "wait"
  /\ IF msgq # <<>>
     THEN mloop' = "got" /\ msg' = Head(msgq) /\ msgq' = Tail(msgq)
     ELSE exit /\ mloop' = "top" /\ UNCHANGED <<msg, msgq>>
  /\ UNCHANGED <<direct, shown, ctlVars, postVars, loopVars, queue>>

\* if (exit_msg_loop_) return;  else the observer's Update
MsgUpdate ==
  /\ mloop = "got"
  /\ IF exit THEN mloop' = "off" /\ UNCHANGED shown
     ELSE mloop' = "top" /\ shown' = Append(shown, msg)
  /\ UNCHANGED <<direct, msg, ctlVars, postVars, loopVars, queue, msgq>>
-----------------------------------------------------------------------------
(* EventBus::Start and Stop, called by Pipeline::Start and Pipeline::Stop,  *)
(* and the end of the message thread in ~Pipeline                          *)

\* Variant: Start throws away what is left in queue_.
StartEmpty ==
  /\ ctl = "idle" /\ ~running /\ starts < MaxStart
  /\ starts' = starts + 1
  /\ running' = TRUE
  /\ loop' = "top" /\ event' = NoEvent
  /\ queue' = <<>>
  /\ UNCHANGED <<ctl, stops, exit, handled, taken, postVars, msgVars, msgq>>

Start ==
  /\ ctl = "idle" /\ ~running /\ starts < MaxStart
  /\ starts' = starts + 1
  /\ running' = TRUE
  /\ loop' = "top" /\ event' = NoEvent
  /\ UNCHANGED <<ctl, stops, exit, handled, taken, postVars, msgVars, queue, msgq>>

Stop ==
  /\ ctl = "idle" /\ running /\ stops < MaxStop
  /\ stops' = stops + 1
  /\ running' = FALSE
  /\ ctl' = "join"
  /\ UNCHANGED <<starts, exit, postVars, loopVars, msgVars, queue, msgq>>

Join ==
  /\ ctl = "join" /\ loop = "off"
  /\ ctl' = "idle"
  /\ UNCHANGED <<running, starts, stops, exit, postVars, loopVars, msgVars, queue, msgq>>

\* ~Pipeline, when no other thread uses the pipeline any more
Destroy ==
  /\ ctl = "idle" /\ ~running /\ starts = MaxStart
  /\ \A e \in Events : post[e] # "push"
  /\ ctl' = "destroyed" /\ exit' = TRUE
  /\ UNCHANGED <<running, starts, stops, postVars, loopVars, msgVars, queue, msgq>>
-----------------------------------------------------------------------------
BusStep == LoopTop \/ PollTest \/ PollPop \/ PollReturn \/ Dispatch
MsgStep == MsgTop \/ MsgPop \/ MsgUpdate

Next ==
  \/ \E e \in Events : PostCheck(e) \/ PostPush(e)
  \/ \E d \in Direct : PushMsg(d)
  \/ BusStep \/ MsgStep
  \/ Start \/ Stop \/ Join \/ Destroy

Spec == Init /\ [][Next]_vars

\* All threads are scheduled; nobody has to post, start or stop.
FairSpec ==
  /\ Spec
  /\ \A e \in Events : WF_vars(PostPush(e))
  /\ WF_vars(BusStep) /\ WF_vars(MsgStep) /\ WF_vars(Join)
-----------------------------------------------------------------------------
\* accepted, but neither waiting, nor in the thread's hands, nor seen by it
Lost ==
  {e \in Events : /\ post[e] = "done" /\ e \notin handled /\ event # e
                  /\ \A i \in DOMAIN queue : queue[i] # e}

\* A Stop costs at most one of the events accepted before it, the one PollEvent
\* had just popped; the others wait in queue_ for a restart.
OneLostPerStop == Cardinality(Lost) <= stops

\* Through two queues, two threads and restarts, the messages made from events
\* reach the observer in the order the events were accepted, each at most once.
Service == INSTANCE OrderedDelivery WITH
  Streams <- {"bus"}, MaxFrame <- MaxEvent,
  given <- [s \in {"bus"} |-> Len(accepted)],
  out <- [s \in {"bus"} |-> {i \in DOMAIN accepted : \E j \in DOMAIN shown : shown[j] = accepted[i]}]
ErrorsInOrder == Service!Spec

\* An accepted error becomes a message for the observer, unless the application's
\* watcher keeps it, the bus thread ended before it, a Stop lost it, or the
\* pipeline is being destroyed.
ErrorShown ==
  \A e \in Events :
    (post[e] = "done" /\ type[e] \in {"EVENT_ERROR", "EVENT_STREAM_ERROR"}) ~>
      \/ \E i \in DOMAIN shown : shown[i] = e
      \/ exit
      \/ e \in Lost \cup taken
      \/ loop = "off" /\ e \notin handled
=============================================================================
