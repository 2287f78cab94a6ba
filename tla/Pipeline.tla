------------------------------ MODULE Pipeline ------------------------------
(***************************************************************************)
(* The data path of a UNIStream pipeline (framework/src/                   *)
(* unistream_pipeline.cpp, connector.cpp, conveyor.cpp): frames enter at   *)
(* the head modules, travel along the edges of the module graph through    *)
(* bounded conveyors, are processed by one task thread per conveyor, and   *)
(* leave when every module has marked them.                                *)
(*                                                                         *)
(* Every thread runs Pipeline::TransmitData after its module is finished   *)
(* with a frame.  One action reads or writes one shared object (running_,  *)
(* a connector's stop_, a conveyor, a frame's modules_mask_, the removed   *)
(* map), because nothing holds a lock across two of them.                  *)
(*                                                                         *)
(* Modules with hasTransmit_ = false are modelled; a head module is driven *)
(* by one source thread per stream.                                        *)
(***************************************************************************)
EXTENDS Integers, Sequences, FiniteSets

CONSTANTS
  Modules,      (* the nodes of the graph                                  *)
  NextNodes,    (* UNINode::GetNext: module -> set of successors           *)
  Parallelism,  (* UNIModuleConfig::parallelism: module -> conveyors       *)
  Capacity,     (* max_input_queue_size: module -> frames per conveyor     *)
  Streams,      (* stream ids                                              *)
  SourceOf,     (* stream -> head module whose handler produces it         *)
  StreamIndex,  (* IdxManager::GetStreamIndex: stream -> index             *)
  MaxFrame,     (* frames per stream, the last one is the EOS frame        *)
  Outcomes,     (* what Module::Process may do, a subset of AllOutcomes    *)
  MaxStart,     (* bound: calls of Pipeline::Start                         *)
  MaxStop,      (* bound: Stop is called after at most this many Starts    *)
  MaxRemove,    (* bound: calls of SetStreamRemoved(.., true)              *)
  NoModule      (* no module: the value of tgt and emptying when unset     *)

AllOutcomes == {"ok", "error", "swallow", "invalid"}

Parents(m) == {p \in Modules : m \in NextNodes[p]}   \* parent_nodes_mask
Heads      == {m \in Modules : Parents(m) = {}}
NonHeads   == Modules \ Heads

ASSUME GraphAssumption ==
  /\ IsFiniteSet(Modules)
  /\ NextNodes \in [Modules -> SUBSET Modules]
  /\ NoModule \notin Modules
  /\ \A S \in (SUBSET Modules) \ {{}} : \E m \in S : Parents(m) \cap S = {}

ASSUME ConfigAssumption ==
  /\ Parallelism \in [Modules -> Nat \ {0}]
  /\ Capacity \in [Modules -> Nat \ {0}]
  /\ SourceOf \in [Streams -> Heads]
  /\ StreamIndex \in [Streams -> Nat]
  /\ MaxFrame \in Nat \ {0}
  /\ MaxStart \in Nat
  /\ MaxStop \in Nat
  /\ MaxRemove \in Nat
  /\ Outcomes \subseteq AllOutcomes

\* route_mask of a head: everything a DFS from it reaches.
Route(h) ==
  {m \in Modules : \A S \in SUBSET Modules :
     (h \in S /\ \A p \in S : NextNodes[p] \subseteq S) => m \in S}

Frames == Streams \X (1 .. MaxFrame)
IsEos(f) == f[2] = MaxFrame
Conveyors == UNION {{m} \X (0 .. Parallelism[m] - 1) : m \in NonHeads}
ConveyorFor(m, f) == <<m, StreamIndex[f[1]] % Parallelism[m]>>

TaskThreads   == Conveyors                       \* TaskLoop(context, conveyor_idx)
SourceThreads == {<<SourceOf[s], s>> : s \in Streams}
Threads       == TaskThreads \cup SourceThreads
ModuleOf(t)   == t[1]
Home(t)       == IF t \in TaskThreads THEN "top" ELSE "idle"

NoFrame == <<>>
-----------------------------------------------------------------------------
VARIABLES
  running,   (* Pipeline::running_                                         *)
  stopped,   (* Connector::stop_, per non-head module                      *)
  conveyor,  (* Conveyor::dataq_                                           *)
  mask,      (* UNIFrameInfo::modules_mask_                                *)
  invalid,   (* frames with UNI_FRAME_FLAG_INVALID                         *)
  removed,   (* s_stream_removed_map_: streams mapped to true              *)
  sent,      (* number of frames the handler of a stream has created       *)
  pc, frame, (* per thread: where it is and the frame it holds             *)
  todo,      (* successors its push loop has not reached yet               *)
  tgt,       (* the successor it is pushing to                             *)
  opened,    (* modules between Open and Close                             *)
  ctl, left, (* the thread calling Start/Stop: phase, modules to visit     *)
  emptying,  (* the connector Stop has stopped and not yet emptied         *)
  starts, removals,
  processed, (* history: last frame a module began with, per stream        *)
  reported   (* history: events and stream messages, <<kind, module, f>>   *)

userVars   == <<removed, removals>>
ctlVars    == <<running, stopped, opened, ctl, left, emptying, starts>>
histVars   == <<processed, reported>>
threadVars == <<pc, frame, todo, tgt>>
frameVars  == <<mask, invalid, sent>>
vars == <<userVars, ctlVars, histVars, threadVars, frameVars, conveyor>>

Init ==
  /\ running = FALSE
  /\ stopped = [m \in NonHeads |-> FALSE]
  /\ conveyor = [c \in Conveyors |-> <<>>]
  /\ mask = [f \in Frames |-> {}]
  /\ invalid = {}
  /\ removed = {}
  /\ sent = [s \in Streams |-> 0]
  /\ pc = [t \in Threads |-> "off"]
  /\ frame = [t \in Threads |-> NoFrame]
  /\ todo = [t \in Threads |-> {}]
  /\ tgt = [t \in Threads |-> NoModule]
  /\ opened = {}
  /\ ctl = "idle"
  /\ left = {}
  /\ emptying = NoModule
  /\ starts = 0
  /\ removals = 0
  /\ processed = [m \in NonHeads |-> [s \in Streams |-> 0]]
  /\ reported = {}
-----------------------------------------------------------------------------
(* The thread t leaves TransmitData and goes back to its loop.             *)
Return(t) ==
  /\ pc' = [pc EXCEPT ![t] = Home(t)]
  /\ frame' = [frame EXCEPT ![t] = NoFrame]
  /\ todo' = [todo EXCEPT ![t] = {}]
  /\ tgt' = [tgt EXCEPT ![t] = NoModule]

Goto(t, label) ==
  /\ pc' = [pc EXCEPT ![t] = label]
  /\ UNCHANGED <<frame, todo, tgt>>

(* The push loop moves on to the next successor, or ends.                  *)
NextTarget(t) ==
  IF todo[t] = {} THEN Return(t)
  ELSE /\ pc' = [pc EXCEPT ![t] = "push"]
       /\ tgt' = [tgt EXCEPT ![t] = NoModule]
       /\ UNCHANGED <<frame, todo>>

Report(kind, t, f) == reported' = reported \cup {<<kind, ModuleOf(t), f>>}
-----------------------------------------------------------------------------
(* A source handler: AddSource opens it; its thread creates the next frame *)
(* of the stream and hands it to SourceModule::SendData.                   *)

AddSource(t) ==
  /\ t \in SourceThreads
  /\ ctl = "idle" /\ pc[t] = "off"
  /\ Goto(t, "idle")
  /\ removed' = removed \ {t[2]}
  /\ UNCHANGED <<removals, ctlVars, histVars, frameVars, conveyor>>

CreateFrame(t) ==
  /\ t \in SourceThreads /\ pc[t] = "idle"
  /\ sent[t[2]] < MaxFrame
  /\ LET s == t[2]
         f == <<s, sent[s] + 1>>
     IN  /\ sent' = [sent EXCEPT ![s] = @ + 1]
         /\ IF "invalid" \in Outcomes /\ ~IsEos(f)   \* the decoder gave no picture
            THEN invalid' \in {invalid, invalid \cup {f}} ELSE UNCHANGED invalid
         /\ IF ~IsEos(f) /\ s \in removed
            THEN UNCHANGED threadVars          \* SendData refuses the frame
            ELSE /\ pc' = [pc EXCEPT ![t] = "provide"]
                 /\ frame' = [frame EXCEPT ![t] = f]
                 /\ UNCHANGED <<todo, tgt>>
  /\ UNCHANGED <<userVars, ctlVars, histVars, mask, conveyor>>
-----------------------------------------------------------------------------
(* Pipeline::TaskLoop                                                      *)

\* Variant: the loop pops again and again without looking at stop_.
LoopForever(t) ==
  /\ t \in TaskThreads /\ pc[t] = "top"
  /\ Goto(t, "pop")
  /\ UNCHANGED <<userVars, ctlVars, histVars, frameVars, conveyor>>

\* while (!connector->IsStopped() && data == nullptr), or the break after it
LoopTop(t) ==
  /\ t \in TaskThreads /\ pc[t] = "top"
  /\ Goto(t, IF stopped[ModuleOf(t)] THEN "off" ELSE "pop")
  /\ UNCHANGED <<userVars, ctlVars, histVars, frameVars, conveyor>>

\* Conveyor::PopDataBuffer finds a frame
Pop(t) ==
  /\ t \in TaskThreads /\ pc[t] = "pop"
  /\ conveyor[t] # <<>>
  /\ conveyor' = [conveyor EXCEPT ![t] = Tail(@)]
  /\ pc' = [pc EXCEPT ![t] = "popped"]
  /\ frame' = [frame EXCEPT ![t] = Head(conveyor[t])]
  /\ UNCHANGED <<todo, tgt, userVars, ctlVars, histVars, frameVars>>

\* Conveyor::PopDataBuffer times out; with stop_ unset it is only called again
PopTimeout(t) ==
  /\ t \in TaskThreads /\ pc[t] = "pop"
  /\ conveyor[t] = <<>> /\ stopped[ModuleOf(t)]
  /\ Goto(t, "top")
  /\ UNCHANGED <<userVars, ctlVars, histVars, frameVars, conveyor>>

\* if (connector->IsStopped()) break;  the popped frame is dropped
AfterPop(t) ==
  /\ t \in TaskThreads /\ pc[t] = "popped"
  /\ IF stopped[ModuleOf(t)]
     THEN /\ pc' = [pc EXCEPT ![t] = "off"]
          /\ frame' = [frame EXCEPT ![t] = NoFrame]
          /\ UNCHANGED <<todo, tgt, processed>>
     ELSE /\ Goto(t, "process")
          /\ processed' = [processed EXCEPT ![ModuleOf(t)][frame[t][1]] = frame[t][2]]
  /\ UNCHANGED <<userVars, ctlVars, reported, frameVars, conveyor>>

\* Module::DoProcess: a removed stream's frames and EOS skip Process
Process(t) ==
  /\ t \in TaskThreads /\ pc[t] = "process"
  /\ LET f == frame[t]
     IN  \/ /\ IsEos(f) \/ f[1] \in removed
            /\ Goto(t, "provide")
            /\ UNCHANGED <<invalid, reported>>
         \/ /\ ~IsEos(f) /\ f[1] \notin removed
            /\ \E o \in Outcomes :
                 /\ IF o \in {"error", "swallow"} THEN Return(t) ELSE Goto(t, "provide")
                 /\ invalid' = IF o = "invalid" THEN invalid \cup {f} ELSE invalid
                 /\ IF o = "error" THEN Report("EVENT_ERROR", t, f) ELSE UNCHANGED reported
  /\ UNCHANGED <<userVars, ctlVars, processed, mask, sent, conveyor>>
-----------------------------------------------------------------------------
(* Pipeline::ProvideData and Pipeline::TransmitData                        *)

\* if (!IsRunning()) return false;
ProvideData(t) ==
  /\ pc[t] = "provide"
  /\ IF running THEN Goto(t, "check") ELSE Return(t)
  /\ UNCHANGED <<userVars, ctlVars, histVars, frameVars, conveyor>>

\* Variant: the removed test covers EOS frames too.
CheckFrameDropsEos(t) ==
  /\ pc[t] = "check"
  /\ LET f == frame[t]
     IN  IF f \in invalid \/ f[1] \in removed
         THEN Return(t) /\ UNCHANGED reported
         ELSE /\ IF IsEos(f) THEN Report("EVENT_EOS", t, f) ELSE UNCHANGED reported
              /\ Goto(t, "mark")
  /\ UNCHANGED <<userVars, ctlVars, processed, frameVars, conveyor>>

\* invalid -> OnDataInvalid; EOS -> OnEos; removed -> the frame is dropped
CheckFrame(t) ==
  /\ pc[t] = "check"
  /\ LET f == frame[t]
     IN  \/ /\ f \in invalid
            /\ Report("FRAME_ERR_MSG", t, f)
            /\ Return(t)
         \/ /\ f \notin invalid /\ IsEos(f)
            /\ Report("EVENT_EOS", t, f)
            /\ Goto(t, "mark")
         \/ /\ f \notin invalid /\ ~IsEos(f)
            /\ IF f[1] \in removed THEN Return(t) ELSE Goto(t, "mark")
            /\ UNCHANGED reported
  /\ UNCHANGED <<userVars, ctlVars, processed, frameVars, conveyor>>

\* Variant: a mark overwrites the ones before it.
MarkedAnew(t) ==
  LET m == ModuleOf(t)
  IN  (IF m \in Heads THEN Modules \ Route(m) ELSE {}) \cup {m}

\* Variant: a head starts from all_modules_mask_ without taking its route out.
MarkedWithoutRoute(t) ==
  LET m == ModuleOf(t)
  IN  (IF m \in Heads THEN Modules ELSE mask[frame[t]]) \cup {m}

\* The mask MarkPassed returns; a head first sets the bits of the modules
\* it cannot reach (all_modules_mask_ ^ route_mask).
Marked(t) ==
  LET m == ModuleOf(t)
      before == IF m \in Heads THEN Modules \ Route(m) ELSE mask[frame[t]]
  IN  before \cup {m}

\* Variants: any parent is enough; no parent is asked; every module is a successor.
ReadyAfterOne(m, passed)  == {n \in NextNodes[m] : Parents(n) \cap passed # {}}
ReadyAtOnce(m, passed)    == NextNodes[m] \cap NonHeads
ReadyEverywhere(m, passed) == {n \in Modules : Parents(n) \subseteq passed}

\* Successors whose parents have all passed the frame.
Ready(m, passed) == {n \in NextNodes[m] : Parents(n) \subseteq passed}

\* Variant: an EOS frame is taken for done by the first module that marks it.
MarkEosDone(t) ==
  /\ pc[t] = "mark"
  /\ LET passed == Marked(t)
         ready  == Ready(ModuleOf(t), passed)
     IN  /\ mask' = [mask EXCEPT ![frame[t]] = passed]
         /\ IF passed = Modules \/ IsEos(frame[t]) THEN Goto(t, "pass")
            ELSE IF ready = {} THEN Return(t)
            ELSE /\ pc' = [pc EXCEPT ![t] = "push"]
                 /\ todo' = [todo EXCEPT ![t] = ready]
                 /\ UNCHANGED <<frame, tgt>>
  /\ UNCHANGED <<userVars, ctlVars, histVars, invalid, sent, conveyor>>

MarkPassed(t) ==
  /\ pc[t] = "mark"
  /\ LET passed == Marked(t)
         ready  == Ready(ModuleOf(t), passed)
     IN  /\ mask' = [mask EXCEPT ![frame[t]] = passed]
         /\ IF passed = Modules THEN Goto(t, "pass")
            ELSE IF ready = {} THEN Return(t)
            ELSE /\ pc' = [pc EXCEPT ![t] = "push"]
                 /\ todo' = [todo EXCEPT ![t] = ready]
                 /\ UNCHANGED <<frame, tgt>>
  /\ UNCHANGED <<userVars, ctlVars, histVars, invalid, sent, conveyor>>

\* OnPassThrough: the frame-done callback, and for EOS the EOS message
OnPassThrough(t) ==
  /\ pc[t] = "pass"
  /\ Report(IF IsEos(frame[t]) THEN "EOS_MSG" ELSE "DONE", t, frame[t])
  /\ Return(t)
  /\ UNCHANGED <<userVars, ctlVars, processed, frameVars, conveyor>>

\* while (!connector->IsStopped() && ..): the first test for a successor
ChooseTarget(t) ==
  /\ pc[t] = "push"
  /\ \E n \in todo[t] :
       /\ todo' = [todo EXCEPT ![t] = @ \ {n}]
       /\ IF stopped[n] 
          THEN IF todo[t] = {n} THEN /\ pc' = [pc EXCEPT ![t] = Home(t)]
                                     /\ frame' = [frame EXCEPT ![t] = NoFrame]
                                     /\ UNCHANGED tgt
               ELSE UNCHANGED <<pc, frame, tgt>>
          ELSE /\ pc' = [pc EXCEPT ![t] = "try"]
               /\ tgt' = [tgt EXCEPT ![t] = n]
               /\ UNCHANGED frame
  /\ UNCHANGED <<userVars, ctlVars, histVars, frameVars, conveyor>>

\* Variant: the frame overtakes those waiting.
PushToFront(t) ==
  /\ pc[t] = "try"
  /\ LET c == ConveyorFor(tgt[t], frame[t])
     IN  IF Len(conveyor[c]) < Capacity[tgt[t]] + 1
         THEN /\ conveyor' = [conveyor EXCEPT ![c] = <<frame[t]>> \o @]
              /\ NextTarget(t)
         ELSE /\ Goto(t, "retry")
              /\ UNCHANGED conveyor
  /\ UNCHANGED <<userVars, ctlVars, histVars, frameVars>>

\* Conveyor::PushDataBuffer
Push(t) ==
  /\ pc[t] = "try"
  /\ LET c == ConveyorFor(tgt[t], frame[t])
     IN  IF Len(conveyor[c]) < Capacity[tgt[t]]
         THEN /\ conveyor' = [conveyor EXCEPT ![c] = Append(@, frame[t])]
              /\ NextTarget(t)
         ELSE /\ Goto(t, "retry")
              /\ UNCHANGED conveyor
  /\ UNCHANGED <<userVars, ctlVars, histVars, frameVars>>

\* the test again, after the sleep of a failed push
RetryPush(t) ==
  /\ pc[t] = "retry"
  /\ IF stopped[tgt[t]] THEN NextTarget(t) ELSE Goto(t, "try")
  /\ UNCHANGED <<userVars, ctlVars, histVars, frameVars, conveyor>>
-----------------------------------------------------------------------------
(* Pipeline::Start                                                         *)

\* all modules open, then running_.store(true)
StartOpen ==
  /\ ctl = "idle" /\ ~running /\ starts < MaxStart
  /\ starts' = starts + 1
  /\ opened' = Modules
  /\ running' = TRUE
  /\ ctl' = "connect" /\ left' = NonHeads
  /\ UNCHANGED <<stopped, emptying, userVars, histVars, threadVars, frameVars, conveyor>>

\* some module fails to open: those opened before it are closed again
StartFail ==
  /\ ctl = "idle" /\ ~running /\ starts < MaxStart
  /\ starts' = starts + 1
  /\ \E S \in SUBSET Modules : 
       S # Modules /\ opened' = S /\ left' = S
  /\ ctl' = "close"
  /\ UNCHANGED <<running, stopped, emptying, userVars, histVars, threadVars, frameVars, conveyor>>

StartConnector(m) ==
  /\ ctl = "connect" /\ m \in left
  /\ stopped' = [stopped EXCEPT ![m] = FALSE]
  /\ left' = left \ {m}
  /\ UNCHANGED <<running, opened, ctl, emptying, starts,
                 userVars, histVars, threadVars, frameVars, conveyor>>

StartThreads ==
  /\ ctl = "connect" /\ left = {}
  /\ pc' = [t \in Threads |-> IF t \in TaskThreads THEN "top" ELSE pc[t]]
  /\ ctl' = "idle"
  /\ UNCHANGED <<running, stopped, opened, left, emptying, starts, frame, todo, tgt,
                 userVars, histVars, frameVars, conveyor>>

(* Pipeline::Stop                                                          *)

StopCall ==
  /\ ctl = "idle" /\ running /\ starts <= MaxStop
  /\ ctl' = "disconnect" /\ left' = NonHeads
  /\ UNCHANGED <<running, stopped, opened, emptying, starts,
                 userVars, histVars, threadVars, frameVars, conveyor>>

StopConnector(m) ==
  /\ ctl = "disconnect" /\ m \in left /\ emptying = NoModule
  /\ stopped' = [stopped EXCEPT ![m] = TRUE]
  /\ emptying' = m
  /\ UNCHANGED <<running, opened, ctl, left, starts,
                 userVars, histVars, threadVars, frameVars, conveyor>>

EmptyDataQueue(m) ==
  /\ ctl = "disconnect" /\ emptying = m
  /\ conveyor' = [c \in Conveyors |-> IF c[1] = m THEN <<>> ELSE conveyor[c]]
  /\ emptying' = NoModule /\ left' = left \ {m}
  /\ UNCHANGED <<running, stopped, opened, ctl, starts,
                 userVars, histVars, threadVars, frameVars>>

StopRunning ==
  /\ ctl = "disconnect" /\ left = {}
  /\ running' = FALSE
  /\ ctl' = "join"
  /\ UNCHANGED <<stopped, opened, left, emptying, starts,
                 userVars, histVars, threadVars, frameVars, conveyor>>

\* Variant: Stop goes on to close the modules without joining the threads.
SkipJoin ==
  /\ ctl = "join"
  /\ ctl' = "close" /\ left' = Modules
  /\ UNCHANGED <<running, stopped, opened, emptying, starts,
                 userVars, histVars, threadVars, frameVars, conveyor>>

JoinThreads ==
  /\ ctl = "join"
  /\ \A t \in TaskThreads : pc[t] = "off"
  /\ ctl' = "close" /\ left' = Modules
  /\ UNCHANGED <<running, stopped, opened, emptying, starts,
                 userVars, histVars, threadVars, frameVars, conveyor>>

\* Module::Close; a source module's Close joins its handlers' threads
CloseModule(m) ==
  /\ ctl = "close" /\ m \in left
  /\ \A t \in SourceThreads : ModuleOf(t) = m => pc[t] \in {"off", "idle"}
  /\ pc' = [t \in Threads |->
              IF t \in SourceThreads /\ ModuleOf(t) = m THEN "off" ELSE pc[t]]
  /\ opened' = opened \ {m} /\ left' = left \ {m}
  /\ UNCHANGED <<running, stopped, ctl, emptying, starts, frame, todo, tgt,
                 userVars, histVars, frameVars, conveyor>>

CloseDone ==
  /\ ctl = "close" /\ left = {}
  /\ ctl' = "idle"
  /\ UNCHANGED <<running, stopped, opened, left, emptying, starts,
                 userVars, histVars, threadVars, frameVars, conveyor>>
-----------------------------------------------------------------------------
(* SourceModule::RemoveSource with force: the stream is marked removed, its *)
(* handler is closed, and once the EOS frame is gone the mark is taken back. *)

InFlight(f) ==
  \/ \E t \in Threads : frame[t] = f
  \/ \E c \in Conveyors : \E i \in DOMAIN conveyor[c] : conveyor[c][i] = f

RemoveStream(s) ==
  /\ s \notin removed /\ removals < MaxRemove
  /\ removed' = removed \cup {s}
  /\ removals' = removals + 1
  /\ UNCHANGED <<ctlVars, histVars, threadVars, frameVars, conveyor>>

\* SourceHandler::Close has joined the thread, CheckStreamEosReached returns
UnremoveStream(s) ==
  LET t == <<SourceOf[s], s>>
  IN  /\ s \in removed
      /\ pc[t] \in {"off", "idle"} /\ ~InFlight(<<s, MaxFrame>>)
      /\ removed' = removed \ {s}
      /\ pc' = [pc EXCEPT ![t] = "off"]
      /\ UNCHANGED <<removals, ctlVars, histVars, frame, todo, tgt, frameVars, conveyor>>
-----------------------------------------------------------------------------
ThreadStep(t) ==
  \/ LoopTop(t) \/ Pop(t) \/ PopTimeout(t) \/ AfterPop(t) \/ Process(t)
  \/ ProvideData(t) \/ CheckFrame(t) \/ MarkPassed(t) \/ OnPassThrough(t)
  \/ ChooseTarget(t) \/ Push(t) \/ RetryPush(t)

\* what Start and Stop do once called
ControlStep ==
  \/ \E m \in NonHeads : StartConnector(m) \/ StopConnector(m) \/ EmptyDataQueue(m)
  \/ \E m \in Modules : CloseModule(m)
  \/ StartThreads \/ StopRunning \/ JoinThreads \/ CloseDone

Next ==
  \/ \E t \in Threads : ThreadStep(t) \/ AddSource(t) \/ CreateFrame(t)
  \/ ControlStep
  \/ StartOpen \/ StartFail \/ StopCall
  \/ \E s \in Streams : RemoveStream(s) \/ UnremoveStream(s)

Spec == Init /\ [][Next]_vars

\* Threads are scheduled; nobody has to call Start, Stop, AddSource or remove.
Fairness ==
  /\ \A t \in Threads : WF_vars(ThreadStep(t)) /\ WF_vars(CreateFrame(t))
  /\ WF_vars(ControlStep)

FairSpec == Spec /\ Fairness
-----------------------------------------------------------------------------
ThreadLabels == {"off", "idle", "top", "pop", "popped", "process", "provide",
                 "check", "mark", "pass", "push", "try", "retry"}

\* Types of all variables.
TypeOK ==
  /\ running \in BOOLEAN
  /\ stopped \in [NonHeads -> BOOLEAN]
  /\ conveyor \in [Conveyors -> Seq(Frames)]
  /\ mask \in [Frames -> SUBSET Modules]
  /\ invalid \subseteq Frames
  /\ removed \subseteq Streams
  /\ sent \in [Streams -> 0 .. MaxFrame]
  /\ pc \in [Threads -> ThreadLabels]
  /\ frame \in [Threads -> Frames \cup {NoFrame}]
  /\ todo \in [Threads -> SUBSET NonHeads]
  /\ tgt \in [Threads -> NonHeads \cup {NoModule}]
  /\ opened \subseteq Modules
  /\ ctl \in {"idle", "connect", "disconnect", "join", "close"}
  /\ left \subseteq Modules
  /\ emptying \in NonHeads \cup {NoModule}
  /\ starts \in 0 .. MaxStart
  /\ removals \in 0 .. MaxRemove
  /\ processed \in [NonHeads -> [Streams -> 0 .. MaxFrame]]
  /\ reported \subseteq {"EVENT_ERROR", "FRAME_ERR_MSG", "EVENT_EOS", "EOS_MSG", "DONE"}
                        \X Modules \X Frames

BeforeMark == {"popped", "process", "provide", "check", "mark"}

\* Where a frame that has not been marked by n can be on its way to n: with a
\* task thread of n, in a conveyor of n, or with a thread that has to push it.
HeldBy(t, n, f)  == t \in TaskThreads /\ ModuleOf(t) = n /\ frame[t] = f /\ pc[t] \in BeforeMark
QueuedAt(c, i, n, f) == c[1] = n /\ i \in DOMAIN conveyor[c] /\ conveyor[c][i] = f
PendingIn(t, n, f) == frame[t] = f /\ (n \in todo[t] \/ n = tgt[t])

HasCopy(n, f) ==
  \/ \E t \in Threads : HeldBy(t, n, f) \/ PendingIn(t, n, f)
  \/ \E c \in Conveyors : \E i \in DOMAIN conveyor[c] : QueuedAt(c, i, n, f)

\* A module only works on a frame that all its parents have marked, also where
\* branches join: TransmitData pushes when PassedByAllParentNodes holds.
ParentsFirst ==
  \A t \in TaskThreads : pc[t] \in BeforeMark =>
     Parents(ModuleOf(t)) \subseteq mask[frame[t]]

\* At a join exactly one parent, the last to mark, pushes the frame: at any time
\* a module has at most one copy of a frame coming, and none once it has marked it.
NoDuplicate ==
  \A n \in NonHeads, f \in Frames :
    /\ n \in mask[f] => ~HasCopy(n, f)
    /\ \A t1, t2 \in Threads :
         /\ HeldBy(t1, n, f) /\ HeldBy(t2, n, f) => t1 = t2
         /\ PendingIn(t1, n, f) /\ PendingIn(t2, n, f) => t1 = t2
         /\ ~(HeldBy(t1, n, f) /\ PendingIn(t2, n, f))
    /\ \A c \in Conveyors : \A i \in DOMAIN conveyor[c] : QueuedAt(c, i, n, f) =>
         /\ \A t \in Threads : ~HeldBy(t, n, f) /\ ~PendingIn(t, n, f)
         /\ \A d \in Conveyors : \A j \in DOMAIN conveyor[d] :
              QueuedAt(d, j, n, f) => d = c /\ j = i

\* Every module begins a stream's frames in the order the source made them,
\* whatever branch carried them to a join and whatever Stop and Start dropped.
InOrder ==
  [][\A m \in NonHeads, s \in Streams : processed'[m][s] >= processed[m][s]]_processed

\* When the application gets EOS_MSG for a stream, every module on the route of its
\* source has posted EVENT_EOS and no earlier frame of it is left anywhere.
EosMsgIsLast ==
  \A s \in Streams, m \in Modules :
    <<"EOS_MSG", m, <<s, MaxFrame>>>> \in reported =>
      /\ \A n \in Route(SourceOf[s]) : <<"EVENT_EOS", n, <<s, MaxFrame>>>> \in reported
      /\ \A i \in 1 .. MaxFrame - 1 : ~InFlight(<<s, i>>)

\* Module::Process never runs on a module that Stop has closed or Start has
\* not opened.
ProcessOnlyOpen ==
  \A t \in TaskThreads : pc[t] # "off" => ModuleOf(t) \in opened

Finished(m, f) == {<<"DONE", m, f>>, <<"EOS_MSG", m, f>>} \cap reported # {}
Delivered == [s \in Streams |->
  {i \in 1 .. MaxFrame : \E m \in Modules : Finished(m, <<s, i>>)}]
Delivery == INSTANCE OrderedDelivery WITH given <- sent, out <- Delivered

\* The frame-done callback and EOS_MSG see each stream in order and each frame
\* once, although the last module to mark differs from frame to frame.
DeliversInOrder == Delivery!Spec

\* Stop returns: blocked pushes and pops all notice it.
StopReturns == ctl = "disconnect" ~> ctl = "idle"

\* A frame accepted while the pipeline runs is processed by all modules, unless
\* Stop is called; a removed stream loses its data frames, but not the EOS (for
\* Outcomes = {"ok"}).
AcceptedFrameDone ==
  \A t \in SourceThreads, f \in Frames :
    (pc[t] = "check" /\ frame[t] = f /\ ctl = "idle") ~>
      \/ \E m \in Modules : Finished(m, f)
      \/ ctl = "disconnect" \/ (f[1] \in removed /\ ~IsEos(f))

\* The EOS of a stream gets through although modules fail on frames before it.
AcceptedEosDone ==
  \A t \in SourceThreads, s \in Streams :
    (pc[t] = "check" /\ frame[t] = <<s, MaxFrame>> /\ ctl = "idle") ~>
      \/ \E m \in Modules : Finished(m, <<s, MaxFrame>>)
      \/ ctl = "disconnect"

\* The comment in Stop, "stop first to ensure connector will be empty".
EmptyAfterStop ==
  ctl = "idle" /\ ~running => \A c \in Conveyors : conveyor[c] = <<>>
=============================================================================
