--------------------------- MODULE EventBusProofs ---------------------------
(***************************************************************************)
(* Proofs about EventBus, for any number and any types of events, any      *)
(* messages in between and any number of starts and stops.                 *)
(***************************************************************************)
EXTENDS EventBus, FiniteSetTheorems, TLAPS

\* The types of the variables; the loop has an event from the pop to the
\* dispatch, and it runs only between a Start and the Join of the next Stop.
BusTypes ==
  /\ running \in BOOLEAN /\ ctl \in {"idle", "join", "destroyed"} /\ stops \in Nat
  /\ post \in [Events -> {"none", "refused", "push", "done"}]
  /\ queue \in Seq(Events) /\ accepted \in Seq(Events)
  /\ loop \in {"top", "poll", "wait", "polled", "dispatch", "off"}
  /\ event \in Events \cup {NoEvent}
  /\ msgq \in Seq(Events \cup Direct) /\ shown \in Seq(Events \cup Direct)
  /\ msg \in Events \cup Direct \cup {NoEvent}
  /\ mloop \in {"top", "wait", "got", "off"} /\ direct \in Nat
LoopOK ==
  /\ loop \in {"polled", "dispatch"} <=> event # NoEvent
  /\ loop # "off" => running \/ ctl = "join"
  /\ ctl = "join" => ~running
  /\ mloop = "got" => msg # NoEvent

\* The Stop that is waiting for the loop may still cost an event.
MayLose == ctl = "join" /\ loop # "off"
LossOK == Cardinality(Lost) + (IF MayLose THEN 1 ELSE 0) <= stops

LossInv == BusTypes /\ LoopOK /\ LossOK
-----------------------------------------------------------------------------
LEMMA Numbers ==
  /\ MaxEvent \in Nat /\ MaxDirect \in Nat /\ Events \subseteq Nat \ {0} /\ NoEvent \notin Events \cup Direct
  /\ IsFiniteSet(Events) /\ \A d \in Direct : d \notin Events
<1>1. MaxEvent \in Nat /\ MaxDirect \in Nat
  BY BusAssumption
<1>2. IsFiniteSet(Events)
  BY <1>1, FS_Interval DEF Events
<1>. QED
  BY <1>1, <1>2 DEF Events, Direct, NoEvent

LEMMA QueueFacts ==
  ASSUME NEW S, NEW q \in Seq(S), q # <<>>
  PROVE  /\ 1 \in DOMAIN q /\ Head(q) = q[1] /\ Head(q) \in S /\ Tail(q) \in Seq(S)
         /\ \A i \in DOMAIN Tail(q) : i + 1 \in DOMAIN q /\ Tail(q)[i] = q[i + 1]
         /\ \A i \in DOMAIN q : i = 1 \/ (i - 1 \in DOMAIN Tail(q) /\ Tail(q)[i - 1] = q[i])
         /\ \A i, j \in DOMAIN Tail(q) : 1 < i + 1 /\ (i < j => i + 1 < j + 1)
  OBVIOUS

LEMMA AddFacts ==
  ASSUME NEW S, NEW q \in Seq(S), NEW e \in S
  PROVE  /\ Append(q, e) \in Seq(S)
         /\ \A i \in DOMAIN q : i \in DOMAIN Append(q, e) /\ Append(q, e)[i] = q[i] /\ i < Len(q) + 1
         /\ Len(q) + 1 \in DOMAIN Append(q, e) /\ Append(q, e)[Len(q) + 1] = e
         /\ \A i \in DOMAIN Append(q, e) :
              (i \in DOMAIN q /\ Append(q, e)[i] = q[i]) \/ (i = Len(q) + 1 /\ Append(q, e)[i] = e)
  OBVIOUS

LEMMA InitLoss == Init => LossInv
<1>. SUFFICES ASSUME Init PROVE LossInv
  OBVIOUS
<1>1. BusTypes /\ LoopOK
  <2>1. /\ queue \in Seq(Events) /\ accepted \in Seq(Events)
        /\ msgq \in Seq(Events \cup Direct) /\ shown \in Seq(Events \cup Direct)
    BY DEF Init
  <2>2. post \in [Events -> {"none", "refused", "push", "done"}]
    BY DEF Init
  <2>. QED
    BY <2>1, <2>2 DEF Init, BusTypes, LoopOK
<1>2. Lost = {}
  BY DEF Init, Lost
<1>3. LossOK
  BY <1>2, FS_EmptySet DEF Init, LossOK, MayLose
<1>. QED
  BY <1>1, <1>3 DEF LossInv

LEMMA StepTypes == BusTypes /\ LoopOK /\ [Next]_vars => BusTypes' /\ LoopOK'
<1>. SUFFICES ASSUME BusTypes, LoopOK, [Next]_vars PROVE BusTypes' /\ LoopOK'
  OBVIOUS
<1>. USE DEF ctlVars, postVars, loopVars, msgVars
<1>0. /\ queue \in Seq(Events) /\ accepted \in Seq(Events)
      /\ msgq \in Seq(Events \cup Direct) /\ shown \in Seq(Events \cup Direct)
  BY DEF BusTypes
<1>1. ASSUME NEW e \in Events, PostCheck(e) PROVE BusTypes' /\ LoopOK'
  BY <1>1 DEF PostCheck, BusTypes, LoopOK
<1>2. ASSUME NEW e \in Events, PostPush(e) PROVE BusTypes' /\ LoopOK'
  <2>1. queue' \in Seq(Events) /\ accepted' \in Seq(Events)
    BY <1>0, <1>2, AddFacts DEF PostPush
  <2>. QED
    BY <1>2, <2>1 DEF PostPush, BusTypes, LoopOK
<1>3. ASSUME NEW d \in Direct, PushMsg(d) PROVE BusTypes' /\ LoopOK'
  <2>1. d \in Events \cup Direct /\ msgq' = Append(msgq, d)
    BY <1>3 DEF PushMsg
  <2>2. msgq' \in Seq(Events \cup Direct)
    BY <1>0, <2>1, AddFacts
  <2>. QED
    BY <1>3, <2>2 DEF PushMsg, BusTypes, LoopOK
<1>4. CASE LoopTop \/ PollTest
  BY <1>4 DEF LoopTop, PollTest, BusTypes, LoopOK
<1>5. CASE PollPop
  <2>1. queue # <<>> => Head(queue) \in Events /\ Tail(queue) \in Seq(Events)
    BY <1>0, QueueFacts
  <2>. QED
    BY <1>5, <2>1, Numbers DEF PollPop, BusTypes, LoopOK
<1>6. CASE PollReturn
  BY <1>6 DEF PollReturn, BusTypes, LoopOK
<1>7. CASE Dispatch
  <2>1. event \in Events
    BY <1>7 DEF Dispatch, BusTypes, LoopOK
  <2>2. msgq' = msgq \/ msgq' = Append(msgq, event)
    BY <1>7 DEF Dispatch
  <2>3. event \in Events \cup Direct
    BY <2>1
  <2>4. msgq' \in Seq(Events \cup Direct)
    <3>1. Append(msgq, event) \in Seq(Events \cup Direct)
      BY <1>0, <2>3, AddFacts
    <3>. QED
      BY <1>0, <2>2, <3>1
  <2>5. loop' \in {"top", "off"} /\ loop = "dispatch" /\ event' = NoEvent
    BY <1>7 DEF Dispatch
  <2>6. UNCHANGED <<running, ctl, stops, post, queue, accepted, shown, msg, mloop, direct>>
    BY <1>7 DEF Dispatch
  <2>. QED
    BY <2>4, <2>5, <2>6 DEF BusTypes, LoopOK
<1>8. CASE MsgTop
  BY <1>8 DEF MsgTop, BusTypes, LoopOK
<1>9. CASE MsgPop
  <2>1. msgq # <<>> => Head(msgq) \in Events \cup Direct /\ Tail(msgq) \in Seq(Events \cup Direct)
    BY <1>0, QueueFacts
  <2>2. /\ mloop' \in {"top", "got"} /\ msgq' \in Seq(Events \cup Direct)
        /\ mloop' = "got" => msg' \in Events \cup Direct
        /\ mloop' # "got" => msg' = msg
    BY <1>0, <1>9, <2>1 DEF MsgPop
  <2>3. UNCHANGED <<running, ctl, stops, post, queue, accepted, loop, event, shown, direct>>
    BY <1>9 DEF MsgPop
  <2>4. BusTypes'
    BY <2>2, <2>3 DEF BusTypes
  <2>. QED
    BY <2>2, <2>3, <2>4, Numbers DEF LoopOK
<1>10. CASE MsgUpdate
  <2>1. msg \in Events \cup Direct
    BY <1>10 DEF MsgUpdate, BusTypes, LoopOK
  <2>2. Append(shown, msg) \in Seq(Events \cup Direct)
    BY <1>0, <2>1, AddFacts
  <2>3. shown' \in Seq(Events \cup Direct) /\ mloop' \in {"top", "off"}
    BY <1>0, <1>10, <2>2 DEF MsgUpdate
  <2>4. UNCHANGED <<running, ctl, stops, post, queue, accepted, loop, event, msgq, msg, direct>>
    BY <1>10 DEF MsgUpdate
  <2>. QED
    BY <2>3, <2>4 DEF BusTypes, LoopOK
<1>11. CASE Start \/ Join \/ Destroy
  BY <1>11 DEF Start, Join, Destroy, BusTypes, LoopOK
<1>13. CASE Stop
  <2>1. /\ running /\ running' = FALSE /\ ctl = "idle" /\ ctl' = "join" /\ stops' = stops + 1
        /\ UNCHANGED <<post, queue, accepted, loop, event, msgq, msg, shown, mloop, direct>>
    BY <1>13 DEF Stop
  <2>2. stops' \in Nat
    BY <2>1 DEF BusTypes
  <2>3. BusTypes'
    BY <2>1, <2>2 DEF BusTypes
  <2>. QED
    BY <2>1, <2>3 DEF LoopOK
<1>12. CASE UNCHANGED vars
  BY <1>12 DEF vars, BusTypes, LoopOK
<1>. QED
  BY <1>1, <1>2, <1>3, <1>4, <1>5, <1>6, <1>7, <1>8, <1>9, <1>10, <1>11, <1>12, <1>13 DEF Next, BusStep, MsgStep

-----------------------------------------------------------------------------
(* The events that are lost                                                *)

LEMMA LostFinite == IsFiniteSet(Lost) /\ Cardinality(Lost) \in Nat
<1>1. Lost \in SUBSET Events
  BY DEF Lost
<1>. QED
  BY <1>1, Numbers, FS_Subset, FS_CardinalityType

\* Nothing more is lost, and the loop is not nearer to a loss.
LEMMA LossFrame ==
  ASSUME BusTypes, LossOK, stops' \in Nat, stops' >= stops, MayLose' => MayLose \/ stops' > stops,
         \A e \in Lost' : e \in Lost
  PROVE  LossOK'
<1>1. IsFiniteSet(Lost) /\ Cardinality(Lost) \in Nat /\ Lost' \subseteq Lost /\ stops \in Nat
  BY LostFinite DEF BusTypes
<1>2. Cardinality(Lost') <= Cardinality(Lost) /\ Cardinality(Lost') \in Nat
  BY <1>1, FS_Subset, FS_CardinalityType
<1>. QED
  BY <1>1, <1>2 DEF LossOK

\* The pop and what follows it keep the event in somebody's hands or in handled.
LEMMA StepLost ==
  ASSUME BusTypes, LoopOK, [Next]_vars, NEW e \in Lost'
  PROVE  e \in Lost \/ (loop = "polled" /\ ~running /\ e = event)

<1>. USE DEF ctlVars, postVars, loopVars, msgVars
<1>0. /\ e \in Events /\ e # NoEvent
      /\ post'[e] = "done" /\ e \notin handled' /\ event' # e
      /\ \A i \in DOMAIN queue' : queue'[i] # e
  BY Numbers DEF Lost
<1>t. queue \in Seq(Events) /\ post \in [Events -> {"none", "refused", "push", "done"}]
  BY DEF BusTypes
<1>1. ASSUME post[e] = "done", e \notin handled, event # e, \A i \in DOMAIN queue : queue[i] # e
      PROVE  e \in Lost
  BY <1>0, <1>1 DEF Lost
<1>2. ASSUME NEW d \in Events, PostCheck(d) PROVE e \in Lost
  BY <1>0, <1>1, <1>2, <1>t DEF PostCheck
<1>3. ASSUME NEW d \in Events, PostPush(d) PROVE e \in Lost
  <2>1. queue' = Append(queue, d) /\ UNCHANGED <<handled, event>> /\ post' = [post EXCEPT ![d] = "done"]
    BY <1>3 DEF PostPush
  <2>2. e # d /\ \A i \in DOMAIN queue : queue[i] # e
    BY <1>0, <1>t, <2>1, AddFacts
  <2>. QED
    BY <1>0, <1>1, <1>t, <2>1, <2>2
<1>4. CASE PollPop
  <2>1. event = NoEvent /\ UNCHANGED <<handled, post>>
    BY <1>4 DEF PollPop, LoopOK
  <2>2. CASE queue = <<>>
    BY <1>0, <1>1, <2>1, <2>2
  <2>3. CASE queue # <<>>
    <3>1. event' = Head(queue) /\ queue' = Tail(queue)
      BY <1>4, <2>3 DEF PollPop
    <3>2. ASSUME NEW i \in DOMAIN queue PROVE queue[i] # e
      <4>1. CASE i = 1
        BY <1>0, <1>t, <2>3, <3>1, <4>1, QueueFacts
      <4>2. CASE i - 1 \in DOMAIN queue' /\ queue'[i - 1] = queue[i]
        BY <1>0, <4>2
      <4>. QED
        BY <1>t, <2>3, <3>1, <4>1, <4>2, QueueFacts
    <3>. QED
      BY <1>0, <1>1, <2>1, <3>2
  <2>. QED
    BY <2>2, <2>3
<1>5. CASE PollReturn
  BY <1>0, <1>1, <1>5 DEF PollReturn
<1>6. CASE Dispatch
  BY <1>0, <1>1, <1>6 DEF Dispatch
<1>7. CASE Start
  <2>1. event = NoEvent
    BY <1>7 DEF Start, LoopOK
  <2>. QED
    BY <1>0, <1>1, <1>7, <2>1 DEF Start
<1>8. ASSUME UNCHANGED <<post, handled, event, queue>> PROVE e \in Lost
  BY <1>0, <1>1, <1>8
<1>9. ASSUME NEW d \in Direct, PushMsg(d) PROVE e \in Lost
  <2>1. UNCHANGED <<post, handled, event, queue>>
    BY <1>9 DEF PushMsg
  <2>. QED
    BY <1>8, <2>1
<1>10. CASE LoopTop \/ PollTest \/ MsgStep \/ Stop \/ Join \/ Destroy \/ UNCHANGED vars
  BY <1>8, <1>10 DEF LoopTop, PollTest, MsgStep, MsgTop, MsgPop, MsgUpdate, Stop, Join, Destroy, vars
<1>. QED
  BY <1>2, <1>3, <1>4, <1>5, <1>6, <1>7, <1>9, <1>10 DEF Next, BusStep

LEMMA StepLoss == LossInv /\ [Next]_vars => LossInv'
<1>. SUFFICES ASSUME BusTypes, LoopOK, LossOK, [Next]_vars PROVE LossOK'
  BY StepTypes DEF LossInv
<1>. USE DEF ctlVars, postVars, loopVars, msgVars
<1>0. stops \in Nat /\ IsFiniteSet(Lost) /\ Cardinality(Lost) \in Nat
  BY LostFinite DEF BusTypes
<1>1. CASE loop = "polled" /\ ~running /\ PollReturn
  <2>1. MayLose /\ ~MayLose' /\ UNCHANGED stops
    BY <1>1 DEF PollReturn, MayLose, LoopOK
  <2>2. \A e \in Lost' : e \in Lost \cup {event}
    BY StepLost
  <2>3. IsFiniteSet(Lost \cup {event}) /\ Cardinality(Lost \cup {event}) <= Cardinality(Lost) + 1
        /\ Cardinality(Lost \cup {event}) \in Nat
    BY <1>0, FS_AddElement, FS_CardinalityType
  <2>4. Cardinality(Lost') <= Cardinality(Lost \cup {event}) /\ Cardinality(Lost') \in Nat
    BY <2>2, <2>3, FS_Subset, FS_CardinalityType
  <2>. QED
    BY <1>0, <2>1, <2>3, <2>4 DEF LossOK
<1>2. CASE ~(loop = "polled" /\ ~running /\ PollReturn)
  <2>1. ASSUME NEW e \in Lost' PROVE e \in Lost
    <3>1. CASE loop = "polled" /\ ~running /\ e = event
      <4>1. e \in Events /\ event' # e /\ e # NoEvent
        BY <2>1, Numbers DEF Lost
      <4>2. UNCHANGED event
        BY <1>2, <3>1 DEF Next, BusStep, MsgStep, PostCheck, PostPush, PushMsg, LoopTop, PollTest, PollPop,
              Dispatch, MsgTop, MsgPop, MsgUpdate, Start, Stop, Join, Destroy, vars, LoopOK
      <4>. QED
        BY <3>1, <4>1, <4>2
    <3>. QED
      BY <2>1, <3>1, StepLost
  <2>2. /\ stops' \in Nat /\ stops' >= stops
        /\ MayLose' => MayLose \/ stops' > stops
    <3>1. CASE Stop
      BY <1>0, <3>1 DEF Stop
    <3>2. CASE ~Stop
      <4>1. UNCHANGED stops
        BY <3>2 DEF Next, BusStep, MsgStep, PostCheck, PostPush, PushMsg, LoopTop, PollTest, PollPop, PollReturn,
              Dispatch, MsgTop, MsgPop, MsgUpdate, Start, Join, Destroy, vars
      <4>2. ctl' = "join" => ctl = "join" /\ (loop' # "off" => loop # "off")
        BY <3>2 DEF Next, BusStep, MsgStep, PostCheck, PostPush, PushMsg, LoopTop, PollTest, PollPop, PollReturn,
              Dispatch, MsgTop, MsgPop, MsgUpdate, Start, Join, Destroy, vars
      <4>. QED
        BY <1>0, <4>1, <4>2 DEF MayLose
    <3>. QED
      BY <3>1, <3>2
  <2>. QED
    BY <2>1, <2>2, LossFrame
<1>. QED
  BY <1>1, <1>2

\* A Stop costs at most one of the events that were accepted, the one PollEvent
\* has popped when it finds running_ false: the loop ends there, and the next
\* Start comes after its Join.
THEOREM StopLosesOne == Spec => []OneLostPerStop
<1>1. LossInv => OneLostPerStop
  BY LostFinite DEF LossInv, LossOK, BusTypes, OneLostPerStop
<1>. QED
  BY InitLoss, StepLoss, <1>1, PTL DEF Spec

-----------------------------------------------------------------------------
(* The order of the messages                                               *)

\* The events in each place on the way from PostEvent to the observer.
Members(s) == {s[i] : i \in DOMAIN s} \cap Events
Queued   == Members(queue)
Held     == {event} \cap Events
Messages == Members(msgq)
Popped   == IF mloop = "got" THEN {msg} \cap Events ELSE {}
Shown    == Members(shown)

\* Two events in the order in which they were accepted.
Before(d, e) == \E i, j \in DOMAIN accepted : i < j /\ accepted[i] = d /\ accepted[j] = e
AllBefore(D, E) == \A d \in D, e \in E : Before(d, e)
Sorted(s) == \A i, j \in DOMAIN s : i < j /\ s[i] \in Events /\ s[j] \in Events => Before(s[i], s[j])

AcceptedOK ==
  /\ \A i, j \in DOMAIN accepted : accepted[i] = accepted[j] => i = j
  /\ \A i \in DOMAIN accepted : post[accepted[i]] = "done"
  /\ Shown \cup Popped \cup Messages \cup Held \cup Queued \subseteq Members(accepted)

\* An event is behind all that are further on their way.
ChainOK ==
  /\ Sorted(queue) /\ Sorted(msgq)
  /\ AllBefore(Shown, Popped \cup Messages \cup Held \cup Queued)
  /\ AllBefore(Popped, Messages \cup Held \cup Queued)
  /\ AllBefore(Messages, Held \cup Queued)
  /\ AllBefore(Held, Queued)

ChainInv == BusTypes /\ LoopOK /\ AcceptedOK /\ ChainOK

LEMMA MembersAdd ==
  ASSUME NEW S, NEW q \in Seq(S), NEW e \in S
  PROVE  Members(Append(q, e)) = Members(q) \cup ({e} \cap Events)
<1>1. ASSUME NEW x \in Members(Append(q, e)) PROVE x \in Members(q) \cup ({e} \cap Events)
  BY <1>1, AddFacts DEF Members
<1>2. ASSUME NEW x \in Members(q) \cup ({e} \cap Events) PROVE x \in Members(Append(q, e))
  BY <1>2, AddFacts DEF Members
<1>. QED
  BY <1>1, <1>2

LEMMA MembersTail ==
  ASSUME NEW S, NEW q \in Seq(S), q # <<>>
  PROVE  Members(Tail(q)) \subseteq Members(q) /\ {Head(q)} \cap Events \subseteq Members(q)
<1>1. ASSUME NEW x \in Members(Tail(q)) PROVE x \in Members(q)
  BY <1>1, QueueFacts DEF Members
<1>2. ASSUME NEW x \in {Head(q)} \cap Events PROVE x \in Members(q)
  BY <1>2, QueueFacts DEF Members
<1>. QED
  BY <1>1, <1>2

\* The front of a sorted sequence comes before all others, and they stay sorted.
LEMMA SortedTail ==
  ASSUME NEW S, NEW q \in Seq(S), q # <<>>, Sorted(q)
  PROVE  Sorted(Tail(q)) /\ AllBefore({Head(q)} \cap Events, Members(Tail(q)))
<1>1. Sorted(Tail(q))
  BY QueueFacts DEF Sorted
<1>2. ASSUME NEW d \in {Head(q)} \cap Events, NEW e \in Members(Tail(q)) PROVE Before(d, e)
  <2>1. PICK i \in DOMAIN Tail(q) : e = Tail(q)[i] /\ e \in Events
    BY <1>2 DEF Members
  <2>2. /\ 1 \in DOMAIN q /\ i + 1 \in DOMAIN q /\ 1 < i + 1
        /\ q[1] = d /\ q[i + 1] = e
    BY <1>2, <2>1, QueueFacts
  <2>. QED
    BY <1>2, <2>1, <2>2 DEF Sorted
<1>. QED
  BY <1>1, <1>2 DEF AllBefore

\* What is added behind everything keeps a sequence sorted.
LEMMA SortedAdd ==
  ASSUME NEW S, NEW q \in Seq(S), NEW e \in S, Sorted(q), AllBefore(Members(q), {e} \cap Events)
  PROVE  Sorted(Append(q, e))
<1>. DEFINE a == Append(q, e)
<1>1. SUFFICES ASSUME NEW i \in DOMAIN a, NEW j \in DOMAIN a, i < j, a[i] \in Events, a[j] \in Events
               PROVE  Before(a[i], a[j])
  BY DEF Sorted
<1>2. i \in DOMAIN q /\ a[i] = q[i]
  BY <1>1, AddFacts
<1>3. CASE j \in DOMAIN q /\ a[j] = q[j]
  BY <1>1, <1>2, <1>3 DEF Sorted
<1>4. CASE a[j] = e
  BY <1>1, <1>2, <1>4 DEF AllBefore, Members
<1>. QED
  BY <1>3, <1>4, AddFacts

\* Accepting one more event keeps the order of the others.
LEMMA BeforeStays ==
  ASSUME NEW e \in Events, accepted \in Seq(Events), accepted' = Append(accepted, e)
  PROVE  /\ \A c, d : Before(c, d) => Before(c, d)'
         /\ \A d \in Members(accepted) : Before(d, e)'
<1>1. \A i \in DOMAIN accepted : i \in DOMAIN accepted' /\ accepted'[i] = accepted[i]
  BY AddFacts
<1>2. Len(accepted) + 1 \in DOMAIN accepted' /\ accepted'[Len(accepted) + 1] = e
  BY AddFacts
<1>3. \A i \in DOMAIN accepted : i < Len(accepted) + 1
  BY AddFacts
<1>4. ASSUME NEW c, NEW d, Before(c, d) PROVE Before(c, d)'
  BY <1>1, <1>4 DEF Before
<1>5. ASSUME NEW d \in Members(accepted) PROVE Before(d, e)'
  BY <1>1, <1>2, <1>3 DEF Before, Members
<1>. QED
  BY <1>4, <1>5

LEMMA InitChain == Init => ChainInv
<1>. SUFFICES ASSUME Init PROVE ChainInv
  OBVIOUS
<1>1. BusTypes /\ LoopOK
  BY InitLoss DEF LossInv
<1>2. Queued = {} /\ Held = {} /\ Messages = {} /\ Popped = {} /\ Shown = {}
  BY Numbers DEF Init, Queued, Held, Messages, Popped, Shown, Members
<1>3. AcceptedOK /\ ChainOK
  BY <1>2 DEF Init, AcceptedOK, ChainOK, Sorted, AllBefore
<1>. QED
  BY <1>1, <1>3 DEF ChainInv

\* Events move on from one place to the next, the first of a queue only, and
\* only into a place that is not left behind them.
LEMMA ChainMove ==
  ASSUME AcceptedOK, ChainOK, UNCHANGED accepted, \A e \in Events : post[e] = "done" => post'[e] = "done",
         accepted \in Seq(Events), Sorted(queue)', Sorted(msgq)',
         Shown' \subseteq Shown \cup Popped, Shown' \subseteq Shown \/ Popped' = {},
         Popped' \subseteq Popped \cup Messages, Popped' \subseteq Popped \/ AllBefore(Popped, Messages)',
         Messages' \subseteq Messages \cup Held, Messages' \subseteq Messages \/ Held' = {},
         Held' \subseteq Held \cup Queued, Held' \subseteq Held \/ AllBefore(Held, Queued)',
         Queued' \subseteq Queued
  PROVE  AcceptedOK' /\ ChainOK'
<1>0. \A c, d : Before(c, d) => Before(c, d)'
  BY DEF Before
<1>1. ASSUME NEW d \in Shown', NEW e \in Popped' \cup Messages' \cup Held' \cup Queued' PROVE Before(d, e)'
  BY <1>0, <1>1 DEF ChainOK, AllBefore
<1>2. ASSUME NEW d \in Popped', NEW e \in Messages' \cup Held' \cup Queued' PROVE Before(d, e)'
  BY <1>0, <1>2 DEF ChainOK, AllBefore
<1>3. ASSUME NEW d \in Messages', NEW e \in Held' \cup Queued' PROVE Before(d, e)'
  BY <1>0, <1>3 DEF ChainOK, AllBefore
<1>4. ASSUME NEW d \in Held', NEW e \in Queued' PROVE Before(d, e)'
  BY <1>0, <1>4 DEF ChainOK, AllBefore
<1>5. ChainOK'
  BY <1>1, <1>2, <1>3, <1>4 DEF ChainOK, AllBefore
<1>6. AcceptedOK'
  <2>1. (Shown \cup Popped \cup Messages \cup Held \cup Queued)' \subseteq Members(accepted)
    BY DEF AcceptedOK
  <2>2. Members(accepted)' = Members(accepted)
    BY DEF Members
  <2>3. \A i \in DOMAIN accepted : post'[accepted[i]] = "done"
    BY DEF AcceptedOK
  <2>. QED
    BY <2>1, <2>2, <2>3 DEF AcceptedOK
<1>. QED
  BY <1>5, <1>6

LEMMA ChainPush ==
  ASSUME ChainInv, NEW e \in Events, PostPush(e)
  PROVE  AcceptedOK' /\ ChainOK'
<1>. USE DEF ChainInv
<1>0. /\ queue \in Seq(Events) /\ accepted \in Seq(Events) /\ post[e] = "push"
      /\ queue' = Append(queue, e) /\ accepted' = Append(accepted, e)
      /\ post' = [post EXCEPT ![e] = "done"]
      /\ post \in [Events -> {"none", "refused", "push", "done"}]
  BY DEF PostPush, BusTypes
<1>1. UNCHANGED <<event, msgq, msg, mloop, shown>>
  BY DEF PostPush, loopVars, msgVars
<1>2. Shown' = Shown /\ Popped' = Popped /\ Messages' = Messages /\ Held' = Held
  BY <1>1 DEF Shown, Popped, Messages, Held, Members
<1>3. Queued' = Queued \cup {e} /\ Members(accepted') = Members(accepted) \cup {e}
  BY <1>0, MembersAdd DEF Queued
<1>4. /\ \A c, d : Before(c, d) => Before(c, d)'
      /\ \A d \in Members(accepted) : Before(d, e)'
  BY <1>0, BeforeStays
<1>5. Queued \subseteq Members(accepted) /\ Shown \cup Popped \cup Messages \cup Held \subseteq Members(accepted)
  BY DEF AcceptedOK
<1>6. ASSUME NEW i \in DOMAIN queue', NEW j \in DOMAIN queue', i < j, queue'[i] \in Events, queue'[j] \in Events
      PROVE  Before(queue[i], queue[j])'
  <2>1. i \in DOMAIN queue /\ queue'[i] = queue[i]
    BY <1>0, <1>6, AddFacts
  <2>2. CASE j \in DOMAIN queue /\ queue'[j] = queue[j]
    <3>1. Before(queue[i], queue[j])
      BY <1>6, <2>1, <2>2 DEF ChainOK, Sorted
    <3>2. \E k, l \in DOMAIN accepted' : k < l /\ accepted'[k] = queue[i] /\ accepted'[l] = queue[j]
      BY <1>4, <3>1 DEF Before
    <3>. QED
      BY <2>1, <2>2, <3>2 DEF Before
  <2>3. CASE queue'[j] = e
    <3>1. queue[i] \in Members(accepted)
      BY <1>5, <1>6, <2>1 DEF Queued, Members
    <3>2. \E k, l \in DOMAIN accepted' : k < l /\ accepted'[k] = queue[i] /\ accepted'[l] = e
      BY <1>4, <3>1 DEF Before
    <3>. QED
      BY <2>1, <2>3, <3>2 DEF Before
  <2>. QED
    BY <1>0, <2>2, <2>3, AddFacts
<1>7. Sorted(queue)' /\ Sorted(msgq)'
  <2>1. Sorted(queue)'
    BY <1>6 DEF Sorted
  <2>2. ASSUME NEW i \in DOMAIN msgq, NEW j \in DOMAIN msgq, i < j, msgq[i] \in Events, msgq[j] \in Events
        PROVE  Before(msgq[i], msgq[j])'
    <3>1. \E k, l \in DOMAIN accepted' : k < l /\ accepted'[k] = msgq[i] /\ accepted'[l] = msgq[j]
      BY <1>4, <2>2 DEF Before, ChainOK, Sorted
    <3>. QED
      BY <1>1, <3>1 DEF Before
  <2>3. Sorted(msgq)'
    BY <1>1, <2>2 DEF Sorted
  <2>. QED
    BY <2>1, <2>3
<1>8. ChainOK'
  BY <1>2, <1>3, <1>4, <1>5, <1>7 DEF ChainOK, AllBefore
<1>9. \A i \in DOMAIN accepted : accepted[i] # e
  BY <1>0 DEF AcceptedOK
<1>10. AcceptedOK'
  <2>1. \A i, j \in DOMAIN accepted' : accepted'[i] = accepted'[j] => i = j
    BY <1>0, <1>9, AddFacts DEF AcceptedOK
  <2>2. \A i \in DOMAIN accepted' : post'[accepted'[i]] = "done"
    BY <1>0, AddFacts DEF AcceptedOK
  <2>. QED
    BY <1>2, <1>3, <1>5, <2>1, <2>2 DEF AcceptedOK
<1>. QED
  BY <1>8, <1>10

LEMMA StepChain == ChainInv /\ [Next]_vars => ChainInv'
<1>. SUFFICES ASSUME ChainInv, [Next]_vars PROVE AcceptedOK' /\ ChainOK'
  BY StepTypes DEF ChainInv
<1>. USE DEF ChainInv, ctlVars, postVars, loopVars, msgVars
<1>0. /\ queue \in Seq(Events) /\ accepted \in Seq(Events)
      /\ msgq \in Seq(Events \cup Direct) /\ shown \in Seq(Events \cup Direct)
      /\ Sorted(queue) /\ Sorted(msgq)
  BY DEF BusTypes, ChainOK
<1>2. ASSUME UNCHANGED <<accepted, post, queue, msgq, shown>>, Held' \subseteq Held, Popped' \subseteq Popped
      PROVE  AcceptedOK' /\ ChainOK'
  <2>1. Queued' = Queued /\ Messages' = Messages /\ Shown' = Shown
    BY <1>2 DEF Queued, Messages, Shown, Members
  <2>2. Sorted(queue)' /\ Sorted(msgq)'
    BY <1>0, <1>2 DEF Sorted, Before
  <2>. QED
    BY <1>0, <1>2, <2>1, <2>2, ChainMove
<1>3. ASSUME NEW e \in Events, PostCheck(e) PROVE AcceptedOK' /\ ChainOK'
  <2>1. UNCHANGED <<accepted, queue, msgq, shown, event, msg, mloop>>
    BY <1>3 DEF PostCheck
  <2>2. Queued' = Queued /\ Messages' = Messages /\ Shown' = Shown /\ Held' = Held /\ Popped' = Popped
    BY <2>1 DEF Queued, Messages, Shown, Members, Held, Popped
  <2>3. Sorted(queue)' /\ Sorted(msgq)'
    BY <1>0, <2>1 DEF Sorted, Before
  <2>4. \A d \in Events : post[d] = "done" => post'[d] = "done"
    BY <1>3 DEF PostCheck, BusTypes
  <2>. QED
    BY <1>0, <2>1, <2>2, <2>3, <2>4, ChainMove
<1>4. ASSUME NEW e \in Events, PostPush(e) PROVE AcceptedOK' /\ ChainOK'
  BY <1>4, ChainPush
<1>5. ASSUME NEW d \in Direct, PushMsg(d) PROVE AcceptedOK' /\ ChainOK'
  <2>1. /\ UNCHANGED <<accepted, post, queue, shown, event, msg, mloop>>
        /\ msgq' = Append(msgq, d) /\ d \in Events \cup Direct /\ {d} \cap Events = {}
    BY <1>5, Numbers DEF PushMsg
  <2>2. Queued' = Queued /\ Shown' = Shown /\ Held' = Held /\ Popped' = Popped
    BY <2>1 DEF Queued, Shown, Members, Held, Popped
  <2>3. Messages' = Messages
    <3>1. Members(Append(msgq, d)) = Members(msgq) \cup ({d} \cap Events)
      BY <1>0, <2>1, MembersAdd
    <3>2. Members(Append(msgq, d)) = Members(msgq)
      BY <2>1, <3>1
    <3>. QED
      BY <2>1, <3>2 DEF Messages, Members
  <2>4. Sorted(Append(msgq, d))
    BY <1>0, <2>1, SortedAdd DEF AllBefore
  <2>5. Sorted(queue)' /\ Sorted(msgq)'
    BY <1>0, <2>1, <2>4 DEF Sorted, Before
  <2>. QED
    BY <1>0, <2>1, <2>2, <2>3, <2>5, ChainMove
<1>6. CASE PollPop
  <2>1. UNCHANGED <<accepted, post, msgq, shown, msg, mloop>> /\ Held = {}
    BY <1>6, Numbers DEF PollPop, LoopOK, Held
  <2>2. Messages' = Messages /\ Shown' = Shown /\ Popped' = Popped
    BY <2>1 DEF Shown, Members, Messages, Popped
  <2>3. CASE queue = <<>> /\ UNCHANGED <<event, queue>>
    BY <1>2, <2>1, <2>2, <2>3 DEF Held
  <2>4. CASE queue # <<>> /\ event' = Head(queue) /\ queue' = Tail(queue)
    <3>1. /\ Members(Tail(queue)) \subseteq Members(queue) /\ {Head(queue)} \cap Events \subseteq Members(queue)
          /\ Sorted(Tail(queue)) /\ AllBefore({Head(queue)} \cap Events, Members(Tail(queue)))
      BY <1>0, <2>4, MembersTail, SortedTail
    <3>2. Queued' = Members(Tail(queue)) /\ Held' = {Head(queue)} \cap Events
      BY <2>4 DEF Queued, Held, Members
    <3>3. Queued' \subseteq Queued /\ Held' \subseteq Queued
      BY <3>1, <3>2 DEF Queued
    <3>4. Sorted(queue)' /\ Sorted(msgq)'
      BY <1>0, <2>1, <2>4, <3>1 DEF Sorted, Before
    <3>5. AllBefore(Held, Queued)'
      BY <2>1, <3>1, <3>2 DEF AllBefore, Before
    <3>. QED
      BY <1>0, <2>1, <2>2, <3>3, <3>4, <3>5, ChainMove
  <2>. QED
    BY <1>6, <2>3, <2>4 DEF PollPop
<1>7. CASE LoopTop \/ PollTest \/ PollReturn \/ Start \/ Stop \/ Join \/ Destroy \/ UNCHANGED vars
  <2>1. /\ UNCHANGED <<accepted, post, queue, msgq, shown, msg, mloop>>
        /\ event' = event \/ event' = NoEvent
    BY <1>7 DEF LoopTop, PollTest, PollReturn, Start, Stop, Join, Destroy, vars
  <2>2. Held' \subseteq Held /\ Popped' = Popped
    BY <2>1, Numbers DEF Held, Popped
  <2>. QED
    BY <1>2, <2>1, <2>2
<1>8. CASE Dispatch
  <2>1. /\ UNCHANGED <<accepted, post, queue, shown, msg, mloop>> /\ event' = NoEvent
        /\ event \in Events /\ event \in Events \cup Direct
        /\ msgq' = msgq \/ msgq' = Append(msgq, event)
    BY <1>8 DEF Dispatch, LoopOK, BusTypes
  <2>2. Held' = {} /\ Held = {event}
    BY <2>1, Numbers DEF Held
  <2>3. Queued' = Queued /\ Shown' = Shown /\ Popped' = Popped
    BY <2>1 DEF Queued, Shown, Members, Popped
  <2>4. CASE msgq' = msgq
    BY <1>2, <2>1, <2>2, <2>3, <2>4
  <2>5. CASE msgq' = Append(msgq, event)
    <3>1. Messages' = Messages \cup Held
      BY <1>0, <2>1, <2>2, <2>5, MembersAdd DEF Messages
    <3>2. AllBefore(Members(msgq), {event} \cap Events)
      BY <2>2 DEF ChainOK, AllBefore, Messages
    <3>3. Sorted(Append(msgq, event))
      BY <1>0, <2>1, <3>2, SortedAdd
    <3>4. Sorted(queue)' /\ Sorted(msgq)'
      BY <1>0, <2>1, <2>5, <3>3 DEF Sorted, Before
    <3>. QED
      BY <1>0, <2>1, <2>2, <2>3, <3>1, <3>4, ChainMove
  <2>. QED
    BY <2>1, <2>4, <2>5
<1>9. CASE MsgTop
  <2>1. UNCHANGED <<accepted, post, queue, msgq, shown, event>> /\ mloop' # "got"
    BY <1>9 DEF MsgTop
  <2>2. Held' = Held /\ Popped' = {}
    BY <2>1 DEF Held, Popped
  <2>. QED
    BY <1>2, <2>1, <2>2
<1>10. CASE MsgPop
  <2>1. UNCHANGED <<accepted, post, queue, shown, event>> /\ Popped = {}
    BY <1>10 DEF MsgPop, Popped
  <2>2. Queued' = Queued /\ Shown' = Shown /\ Held' = Held
    BY <2>1 DEF Queued, Shown, Members, Held
  <2>3. CASE mloop' = "top" /\ UNCHANGED <<msg, msgq>>
    <3>1. Popped' = {}
      BY <2>3 DEF Popped
    <3>. QED
      BY <1>2, <2>1, <2>2, <2>3, <3>1
  <2>4. CASE msgq # <<>> /\ mloop' = "got" /\ msg' = Head(msgq) /\ msgq' = Tail(msgq)
    <3>1. /\ Members(Tail(msgq)) \subseteq Members(msgq) /\ {Head(msgq)} \cap Events \subseteq Members(msgq)
          /\ Sorted(Tail(msgq)) /\ AllBefore({Head(msgq)} \cap Events, Members(Tail(msgq)))
      BY <1>0, <2>4, MembersTail, SortedTail
    <3>2. Messages' = Members(Tail(msgq)) /\ Popped' = {Head(msgq)} \cap Events
      BY <2>4 DEF Messages, Popped, Members
    <3>3. Messages' \subseteq Messages /\ Popped' \subseteq Messages
      BY <3>1, <3>2 DEF Messages
    <3>4. Sorted(queue)' /\ Sorted(msgq)'
      BY <1>0, <2>1, <2>4, <3>1 DEF Sorted, Before
    <3>5. AllBefore(Popped, Messages)'
      BY <2>1, <3>1, <3>2 DEF AllBefore, Before
    <3>. QED
      BY <1>0, <2>1, <2>2, <3>3, <3>4, <3>5, ChainMove
  <2>. QED
    BY <1>10, <2>3, <2>4 DEF MsgPop
<1>11. CASE MsgUpdate
  <2>1. /\ UNCHANGED <<accepted, post, queue, msgq, event>> /\ mloop = "got" /\ mloop' # "got"
        /\ shown' = shown \/ shown' = Append(shown, msg)
        /\ msg \in Events \cup Direct
    BY <1>11 DEF MsgUpdate, BusTypes, LoopOK
  <2>2. Queued' = Queued /\ Messages' = Messages /\ Held' = Held /\ Popped' = {} /\ Popped = {msg} \cap Events
    BY <2>1 DEF Queued, Messages, Members, Held, Popped
  <2>3. Shown' \subseteq Shown \cup Popped
    <3>1. CASE shown' = shown
      BY <3>1 DEF Shown, Members
    <3>2. CASE shown' = Append(shown, msg)
      <4>1. Members(Append(shown, msg)) = Members(shown) \cup ({msg} \cap Events)
        BY <1>0, <2>1, MembersAdd
      <4>. QED
        BY <2>2, <3>2, <4>1 DEF Shown, Members
    <3>. QED
      BY <2>1, <3>1, <3>2
  <2>4. Sorted(queue)' /\ Sorted(msgq)'
    BY <1>0, <2>1 DEF Sorted, Before
  <2>. QED
    BY <1>0, <2>1, <2>2, <2>3, <2>4, ChainMove
<1>. QED
  BY <1>3, <1>4, <1>5, <1>6, <1>7, <1>8, <1>9, <1>10, <1>11 DEF Next, BusStep, MsgStep

-----------------------------------------------------------------------------
(* The refinement                                                          *)

\* What the abstract specification's variables stand for.
Given == [s \in {"bus"} |-> Len(accepted)]
Out   == [s \in {"bus"} |-> {i \in DOMAIN accepted : \E j \in DOMAIN shown : shown[j] = accepted[i]}]
Seen  == {i \in DOMAIN accepted : accepted[i] \in Shown}

LEMMA OutSeen ==
  ASSUME BusTypes
  PROVE  Out = [s \in {"bus"} |-> Seen]
<1>1. \A i \in DOMAIN accepted : accepted[i] \in Events
  BY DEF BusTypes
<1>2. ASSUME NEW i \in DOMAIN accepted
      PROVE  accepted[i] \in Shown <=> \E j \in DOMAIN shown : shown[j] = accepted[i]
  BY <1>1 DEF Shown, Members
<1>. QED
  BY <1>2 DEF Out, Seen

LEMMA OutSeenNext ==
  ASSUME BusTypes'
  PROVE  Out' = [s \in {"bus"} |-> Seen']
<1>1. \A i \in DOMAIN accepted' : accepted'[i] \in Events
  BY DEF BusTypes
<1>2. ASSUME NEW i \in DOMAIN accepted'
      PROVE  accepted'[i] \in Shown' <=> \E j \in DOMAIN shown' : shown'[j] = accepted'[i]
  BY <1>1 DEF Shown, Members
<1>. QED
  BY <1>2 DEF Out, Seen

\* There is room for an event that is about to be accepted.
LEMMA RoomForMore ==
  ASSUME ChainInv, NEW e \in Events, post[e] = "push"
  PROVE  Len(accepted) < MaxEvent
<1>. USE DEF ChainInv
<1>0. accepted \in Seq(Events) /\ Len(accepted) \in Nat /\ DOMAIN accepted = 1 .. Len(accepted)
  BY DEF BusTypes
<1>1. IsFiniteSet(Events) /\ Cardinality(Events) = MaxEvent
  BY Numbers, FS_Interval DEF Events
<1>2. /\ IsFiniteSet(Events \ {e}) /\ Cardinality(Events \ {e}) = MaxEvent - 1
  BY <1>1, FS_RemoveElement
<1>3. \A i \in DOMAIN accepted : accepted[i] \in Events \ {e}
  BY <1>0 DEF AcceptedOK
<1>4. accepted \in Injection(DOMAIN accepted, Events \ {e})
  <2>1. accepted \in [DOMAIN accepted -> Events \ {e}]
    BY <1>0, <1>3
  <2>2. IsInjective(accepted)
    BY DEF AcceptedOK, IsInjective
  <2>. QED
    BY <2>1, <2>2 DEF Injection
<1>5. Cardinality(DOMAIN accepted) <= Cardinality(Events \ {e})
  BY <1>2, <1>4, FS_Injection
<1>6. Cardinality(DOMAIN accepted) = Len(accepted)
  BY <1>0, FS_Interval
<1>. QED
  BY <1>0, <1>2, <1>5, <1>6, Numbers

\* PostEvent gives one more.
LEMMA GiveStep ==
  ASSUME ChainInv, NEW e \in Events, PostPush(e)
  PROVE  Service!Give("bus")
<1>. USE DEF ChainInv
<1>0. /\ accepted \in Seq(Events) /\ accepted' = Append(accepted, e) /\ UNCHANGED shown
      /\ shown \in Seq(Events \cup Direct) /\ post[e] = "push"
  BY DEF PostPush, msgVars, BusTypes
<1>1. Len(accepted) < MaxEvent
  BY <1>0, RoomForMore
<1>2. Len(accepted') = Len(accepted) + 1
  BY <1>0
<1>3. e \notin Shown
  BY <1>0 DEF AcceptedOK, Members
<1>4. Out' = Out
  <2>1. BusTypes' /\ Shown' = Shown
    BY <1>0, StepTypes DEF Next, Shown, Members
  <2>2. Seen' = Seen
    BY <1>0, <1>3, <2>1, AddFacts DEF Seen
  <2>. QED
    BY <2>1, <2>2, OutSeen, OutSeenNext
<1>. QED
  BY <1>1, <1>2, <1>4 DEF Service!Give, Out

\* The observer gets the next one, or a message that is not made from an event.
LEMMA DeliverStep ==
  ASSUME ChainInv, MsgUpdate
  PROVE  Service!Deliver("bus") \/ UNCHANGED <<Given, Out>>
<1>. USE DEF ChainInv
<1>0. /\ UNCHANGED accepted /\ mloop = "got" /\ accepted \in Seq(Events)
      /\ shown' = shown \/ shown' = Append(shown, msg)
      /\ msg \in Events \cup Direct /\ shown \in Seq(Events \cup Direct)
  BY DEF MsgUpdate, BusTypes, LoopOK, postVars
<1>t. BusTypes'
  BY StepTypes DEF Next, MsgStep
<1>1. CASE shown' = shown
  BY <1>0, <1>1 DEF Given, Out
<1>2. CASE shown' = Append(shown, msg)
  <2>1. Shown' = Shown \cup ({msg} \cap Events)
    <3>1. Members(Append(shown, msg)) = Members(shown) \cup ({msg} \cap Events)
      BY <1>0, MembersAdd
    <3>. QED
      BY <1>2, <3>1 DEF Shown, Members
  <2>2. CASE msg \notin Events
    <3>1. Shown' = Shown
      BY <2>1, <2>2
    <3>2. Seen' = Seen
      BY <1>0, <3>1 DEF Seen
    <3>. QED
      BY <1>0, <1>t, <3>2, OutSeen, OutSeenNext DEF Given
  <2>3. CASE msg \in Events
    <3>1. msg \in Popped
      BY <1>0, <2>3 DEF Popped
    <3>2. PICK i \in DOMAIN accepted : accepted[i] = msg
      BY <3>1 DEF AcceptedOK, Members
    <3>3. i \in 1 .. Len(accepted) /\ i \in Nat
      BY <1>0
    <3>4. ASSUME NEW j \in Seen PROVE j < i
      <4>1. Before(accepted[j], msg)
        BY <3>1, <3>4 DEF ChainOK, AllBefore, Seen
      <4>. QED
        BY <3>2, <3>4, <4>1 DEF Before, AcceptedOK, Seen
    <3>5. Seen' = Seen \cup {i}
      <4>1. \A j \in DOMAIN accepted : accepted[j] = msg <=> j = i
        BY <3>2 DEF AcceptedOK
      <4>. QED
        BY <1>0, <2>1, <2>3, <4>1 DEF Seen
    <3>6. /\ Out = [s \in {"bus"} |-> Seen] /\ Out' = [s \in {"bus"} |-> Seen']
          /\ UNCHANGED Given
      BY <1>0, <1>t, OutSeen, OutSeenNext DEF Given
    <3>7. Out' = [Out EXCEPT !["bus"] = @ \cup {i}]
      BY <3>5, <3>6
    <3>. QED
      BY <3>3, <3>4, <3>6, <3>7 DEF Service!Deliver, Given, Out
  <2>. QED
    BY <2>2, <2>3
<1>. QED
  BY <1>0, <1>1, <1>2

\* The messages made from events reach the observer in the order in which the
\* events were accepted, each at most once, through both queues, both threads
\* and every Start and Stop: EventBus implements OrderedDelivery.
THEOREM ErrorsOnlyInOrder == Spec => ErrorsInOrder
<1>1. Init => Service!Init
  BY DEF Init, Service!Init
<1>2. ChainInv /\ [Next]_vars => [Service!Next]_<<Given, Out>>
  <2>. SUFFICES ASSUME ChainInv, [Next]_vars PROVE Service!Next \/ UNCHANGED <<Given, Out>>
    OBVIOUS
  <2>. USE DEF ctlVars, postVars, loopVars, msgVars
  <2>1. ASSUME NEW e \in Events, PostPush(e) PROVE Service!Next
    BY <2>1, GiveStep DEF Service!Next
  <2>2. CASE MsgUpdate
    BY <2>2, DeliverStep DEF Service!Next
  <2>3. CASE UNCHANGED <<accepted, shown>>
    BY <2>3 DEF Given, Out
  <2>4. ASSUME NEW e \in Events, PostCheck(e) PROVE UNCHANGED <<accepted, shown>>
    BY <2>4 DEF PostCheck
  <2>5. ASSUME NEW d \in Direct, PushMsg(d) PROVE UNCHANGED <<accepted, shown>>
    BY <2>5 DEF PushMsg
  <2>6. CASE BusStep \/ MsgTop \/ MsgPop \/ Start \/ Stop \/ Join \/ Destroy \/ UNCHANGED vars
    BY <2>3, <2>6 DEF BusStep, LoopTop, PollTest, PollPop, PollReturn, Dispatch, MsgTop, MsgPop, Start, Stop,
                      Join, Destroy, vars
  <2>. QED
    BY <2>1, <2>2, <2>3, <2>4, <2>5, <2>6 DEF Next, MsgStep
<1>. QED
  BY InitChain, StepChain, <1>1, <1>2, PTL DEF Spec, ErrorsInOrder, Service!Spec, Given, Out
=============================================================================
