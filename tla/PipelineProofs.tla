--------------------------- MODULE PipelineProofs ---------------------------
(***************************************************************************)
(* Proofs about Pipeline, for every graph, number of conveyors, capacity,  *)
(* set of streams and number of frames.                                    *)
(***************************************************************************)
EXTENDS Pipeline, TLAPS

HoldsFrame == {"popped", "process", "provide", "check", "mark", "pass", "push", "try", "retry"}

\* What a thread's local variables are at each label.
ThreadOK ==
  \A t \in Threads :
    /\ pc[t] \in HoldsFrame => frame[t] \in Frames
    /\ pc[t] \notin HoldsFrame => frame[t] = NoFrame
    /\ pc[t] \in {"try", "retry"} => tgt[t] \in NonHeads /\ tgt[t] \notin todo[t]
    /\ pc[t] \notin {"try", "retry"} => tgt[t] = NoModule
    /\ pc[t] \notin {"push", "try", "retry"} => todo[t] = {}
    /\ t \in TaskThreads => pc[t] # "idle"
    /\ t \in SourceThreads => pc[t] \notin {"top", "pop", "popped", "process"}
    /\ t \in SourceThreads /\ pc[t] \in HoldsFrame => frame[t][1] = t[2]

\* Task threads exist only between the end of Start and Stop's join, and all
\* that time every module is open.
ControlOK ==
  /\ ctl \in {"connect", "close"} \/ (ctl = "idle" /\ ~running) =>
       \A t \in TaskThreads : pc[t] = "off"
  /\ ctl \in {"join", "close"} => ~running
  /\ ctl \in {"connect", "disconnect"} => running
  /\ running \/ ctl = "join" => opened = Modules

TypeInv == TypeOK /\ ThreadOK /\ ControlOK
-----------------------------------------------------------------------------
LEMMA ThreadFacts ==
  /\ \A t \in TaskThreads : t \in Threads /\ ModuleOf(t) \in NonHeads /\ Home(t) = "top"
  /\ \A t \in SourceThreads :
       t \in Threads /\ ModuleOf(t) \in Heads /\ t[2] \in Streams /\ ModuleOf(t) = SourceOf[t[2]]
  /\ \A t \in Threads : t \in TaskThreads \/ t \in SourceThreads
  /\ TaskThreads \cap SourceThreads = {}
  /\ \A t \in Threads : t \notin TaskThreads => Home(t) = "idle"
  /\ Heads \subseteq Modules /\ NonHeads \subseteq Modules
<1>1. \A t \in TaskThreads : ModuleOf(t) \in NonHeads
  BY DEF TaskThreads, Conveyors, ModuleOf
<1>2. \A t \in SourceThreads : ModuleOf(t) \in Heads /\ t[2] \in Streams /\ ModuleOf(t) = SourceOf[t[2]]
  BY ConfigAssumption DEF SourceThreads, ModuleOf
<1>3. Heads \cap NonHeads = {}
  BY DEF NonHeads
<1>. QED
  BY <1>1, <1>2, <1>3 DEF Threads, Home, Heads, NonHeads

LEMMA ConveyorForType ==
  ASSUME NEW n \in NonHeads, NEW f \in Frames
  PROVE  ConveyorFor(n, f) \in Conveyors
<1>1. n \in Modules /\ f[1] \in Streams
  BY DEF NonHeads, Frames
<1>2. Parallelism[n] \in Nat \ {0} /\ StreamIndex[f[1]] \in Nat
  BY <1>1, ConfigAssumption
<1>3. StreamIndex[f[1]] % Parallelism[n] \in 0 .. Parallelism[n] - 1
  BY <1>2, SMT
<1>. QED
  BY <1>3 DEF ConveyorFor, Conveyors

LEMMA ReadyNonHead ==
  ASSUME NEW m \in Modules, NEW passed, NEW n \in Ready(m, passed)
  PROVE  n \in NonHeads /\ m \in Parents(n) /\ n # m /\ Parents(n) \subseteq passed
<1>1. n \in NextNodes[m] /\ Parents(n) \subseteq passed
  BY DEF Ready
<1>2. n \in Modules
  BY <1>1, GraphAssumption
<1>3. m \in Parents(n)
  BY <1>1 DEF Parents
<1>4. n \in NonHeads
  BY <1>2, <1>3 DEF NonHeads, Heads
<1>5. n # m
  <2>1. {n} \in (SUBSET Modules) \ {{}}
    BY <1>2
  <2>2. Parents(n) \cap {n} = {}
    BY <2>1, GraphAssumption
  <2>. QED
    BY <2>2, <1>3
<1>. QED
  BY <1>1, <1>3, <1>4, <1>5

LEMMA MarkedType ==
  ASSUME TypeOK, NEW t \in Threads, frame[t] \in Frames
  PROVE  Marked(t) \subseteq Modules /\ ModuleOf(t) \in Marked(t) /\ ModuleOf(t) \in Modules
<1>1. ModuleOf(t) \in Modules
  BY ThreadFacts
<1>2. mask[frame[t]] \subseteq Modules
  BY DEF TypeOK
<1>. QED
  BY <1>1, <1>2 DEF Marked

-----------------------------------------------------------------------------
(* The type invariant.                                                     *)

LEMMA InitTypeInv == Init => TypeInv
<1> SUFFICES ASSUME Init PROVE TypeInv
  OBVIOUS
<1>1. TypeOK
  <2>1. \A s \in Streams : 0 \in 0 .. MaxFrame
    BY ConfigAssumption
  <2>2. <<>> \in Seq(Frames)
    OBVIOUS
  <2>3. /\ starts \in 0 .. MaxStart /\ removals \in 0 .. MaxRemove
        /\ \A s \in Streams : sent[s] \in 0 .. MaxFrame
    BY <2>1, ConfigAssumption DEF Init
  <2>4. /\ conveyor \in [Conveyors -> Seq(Frames)]
        /\ sent \in [Streams -> 0 .. MaxFrame]
        /\ processed \in [NonHeads -> [Streams -> 0 .. MaxFrame]]
    BY <2>1, <2>2 DEF Init
  <2>5. /\ pc \in [Threads -> ThreadLabels]
        /\ frame \in [Threads -> Frames \cup {NoFrame}]
        /\ todo \in [Threads -> SUBSET NonHeads]
        /\ tgt \in [Threads -> NonHeads \cup {NoModule}]
    BY DEF Init, ThreadLabels
  <2>. QED
    BY <2>3, <2>4, <2>5 DEF Init, TypeOK
<1>2. ThreadOK
  BY DEF Init, ThreadOK, HoldsFrame
<1>3. ControlOK
  BY ThreadFacts DEF Init, ControlOK
<1>. QED
  BY <1>1, <1>2, <1>3 DEF TypeInv

\* A step that changes nothing but the place of one thread keeps ControlOK.
LEMMA ThreadStepControl ==
  ASSUME ControlOK, TypeOK, NEW t \in Threads, t \in SourceThreads \/ pc[t] # "off",
         UNCHANGED ctlVars, NEW l, pc' = [pc EXCEPT ![t] = l]
  PROVE  ControlOK'
<1>1. \A u \in TaskThreads : pc[u] = "off" => pc'[u] = "off"
  BY ThreadFacts DEF TypeOK
<1>. QED
  BY <1>1, ThreadFacts DEF ControlOK, ctlVars

\* So does a step that moves no thread.
LEMMA NoThreadControl ==
  ASSUME ControlOK, UNCHANGED <<ctlVars, threadVars>>
  PROVE  ControlOK'
BY DEF ControlOK, ctlVars, threadVars

\* The three ways a thread's variables change.
LEMMA ReturnOK ==
  ASSUME TypeInv, NEW t \in Threads, Return(t), pc[t] \notin {"off", "idle"} \/ t \in TaskThreads
  PROVE  /\ pc' \in [Threads -> ThreadLabels]
         /\ frame' \in [Threads -> Frames \cup {NoFrame}]
         /\ todo' \in [Threads -> SUBSET NonHeads]
         /\ tgt' \in [Threads -> NonHeads \cup {NoModule}]
         /\ ThreadOK'
<1>1. Home(t) \in {"top", "idle"} /\ (t \in TaskThreads => Home(t) = "top")
      /\ (t \in SourceThreads => Home(t) = "idle")
  BY ThreadFacts DEF Home
<1>2. pc' \in [Threads -> ThreadLabels]
  BY <1>1 DEF Return, TypeInv, TypeOK, ThreadLabels
<1>3. /\ frame' \in [Threads -> Frames \cup {NoFrame}]
      /\ todo' \in [Threads -> SUBSET NonHeads]
      /\ tgt' \in [Threads -> NonHeads \cup {NoModule}]
  BY DEF Return, TypeInv, TypeOK
<1>4. ThreadOK'
  BY <1>1 DEF Return, TypeInv, TypeOK, ThreadOK, HoldsFrame
<1>. QED
  BY <1>2, <1>3, <1>4

LEMMA GotoOK ==
  ASSUME TypeInv, NEW t \in Threads, NEW l \in ThreadLabels, Goto(t, l),
         l \in HoldsFrame <=> pc[t] \in HoldsFrame,
         l \in {"try", "retry"} <=> pc[t] \in {"try", "retry"},
         l \in {"push", "try", "retry"} <=> pc[t] \in {"push", "try", "retry"},
         t \in TaskThreads => l # "idle",
         t \in SourceThreads => l \notin {"top", "pop", "popped", "process"}
  PROVE  /\ pc' \in [Threads -> ThreadLabels]
         /\ frame' \in [Threads -> Frames \cup {NoFrame}]
         /\ todo' \in [Threads -> SUBSET NonHeads]
         /\ tgt' \in [Threads -> NonHeads \cup {NoModule}]
         /\ ThreadOK'
BY DEF Goto, TypeInv, TypeOK, ThreadOK

LEMMA NextTargetOK ==
  ASSUME TypeInv, NEW t \in Threads, pc[t] \in {"try", "retry"}, NextTarget(t)
  PROVE  /\ pc' \in [Threads -> ThreadLabels]
         /\ frame' \in [Threads -> Frames \cup {NoFrame}]
         /\ todo' \in [Threads -> SUBSET NonHeads]
         /\ tgt' \in [Threads -> NonHeads \cup {NoModule}]
         /\ ThreadOK'
<1>1. CASE todo[t] = {}
  BY <1>1, ReturnOK DEF NextTarget
<1>2. CASE todo[t] # {}
  <2>1. /\ pc' \in [Threads -> ThreadLabels]
        /\ frame' \in [Threads -> Frames \cup {NoFrame}]
        /\ todo' \in [Threads -> SUBSET NonHeads]
        /\ tgt' \in [Threads -> NonHeads \cup {NoModule}]
    BY <1>2 DEF NextTarget, TypeInv, TypeOK, ThreadLabels
  <2>2. ThreadOK'
    BY <1>2 DEF NextTarget, TypeInv, TypeOK, ThreadOK, HoldsFrame
  <2>. QED
    BY <2>1, <2>2
<1>. QED
  BY <1>1, <1>2

\* A step that leaves the threads alone leaves ThreadOK alone.
LEMMA SameThreads ==
  ASSUME ThreadOK, UNCHANGED threadVars
  PROVE  ThreadOK'
BY DEF ThreadOK, threadVars

\* The steps of TransmitData and TaskLoop.
LEMMA ThreadStepTypeInv ==
  ASSUME TypeInv, NEW t \in Threads, ThreadStep(t)
  PROVE  TypeInv'
<1>. USE DEF userVars, ctlVars, histVars, frameVars, threadVars
<1>0. /\ pc[t] \in ThreadLabels
      /\ ModuleOf(t) \in Modules
      /\ t \in TaskThreads => ModuleOf(t) \in NonHeads
  BY ThreadFacts DEF TypeInv, TypeOK
<1>1. CASE LoopTop(t)
  <2>1. PICK l \in {"off", "pop"} : Goto(t, l) /\ pc[t] = "top" /\ t \in TaskThreads
    BY <1>1 DEF LoopTop
  <2>2. t \notin SourceThreads
    BY <2>1, ThreadFacts
  <2>3. /\ pc' \in [Threads -> ThreadLabels] /\ frame' \in [Threads -> Frames \cup {NoFrame}]
        /\ todo' \in [Threads -> SUBSET NonHeads] /\ tgt' \in [Threads -> NonHeads \cup {NoModule}]
        /\ ThreadOK'
    BY <2>1, <2>2, GotoOK DEF ThreadLabels, HoldsFrame
  <2>. QED
    BY <1>1, <2>1, <2>3, ThreadStepControl DEF LoopTop, Goto, TypeInv, TypeOK
<1>2. CASE Pop(t)
  <2>1. /\ Head(conveyor[t]) \in Frames /\ Tail(conveyor[t]) \in Seq(Frames)
        /\ t \notin SourceThreads
    BY <1>2, ThreadFacts DEF Pop, TypeInv, TypeOK, TaskThreads
  <2>2. TypeOK'
    BY <1>2, <2>1 DEF Pop, TypeInv, TypeOK, ThreadLabels, TaskThreads
  <2>3. ThreadOK'
    BY <1>2, <2>1 DEF Pop, TypeInv, TypeOK, ThreadOK, HoldsFrame
  <2>4. ControlOK'
    BY <1>2, ThreadStepControl DEF Pop, TypeInv
  <2>. QED
    BY <2>2, <2>3, <2>4 DEF TypeInv
<1>3. CASE PopTimeout(t)
  <2>1. t \notin SourceThreads
    BY <1>3, ThreadFacts DEF PopTimeout
  <2>2. /\ pc' \in [Threads -> ThreadLabels] /\ frame' \in [Threads -> Frames \cup {NoFrame}]
        /\ todo' \in [Threads -> SUBSET NonHeads] /\ tgt' \in [Threads -> NonHeads \cup {NoModule}]
        /\ ThreadOK'
    BY <1>3, <2>1, GotoOK DEF PopTimeout, ThreadLabels, HoldsFrame
  <2>. QED
    BY <1>3, <2>2, ThreadStepControl DEF PopTimeout, Goto, TypeInv, TypeOK
<1>4. CASE AfterPop(t)
  <2>0. t \notin SourceThreads /\ t \in TaskThreads /\ pc[t] = "popped"
    BY <1>4, ThreadFacts DEF AfterPop
  <2>1. CASE stopped[ModuleOf(t)]
    <3>1. TypeOK'
      BY <1>4, <2>1 DEF AfterPop, TypeInv, TypeOK, ThreadLabels
    <3>2. ThreadOK'
      BY <1>4, <2>0, <2>1 DEF AfterPop, TypeInv, TypeOK, ThreadOK, HoldsFrame
    <3>3. ControlOK'
      BY <1>4, <2>1, ThreadStepControl DEF AfterPop, TypeInv
    <3>. QED
      BY <3>1, <3>2, <3>3 DEF TypeInv
  <2>2. CASE ~stopped[ModuleOf(t)]
    <3>1. /\ pc' \in [Threads -> ThreadLabels] /\ frame' \in [Threads -> Frames \cup {NoFrame}]
          /\ todo' \in [Threads -> SUBSET NonHeads] /\ tgt' \in [Threads -> NonHeads \cup {NoModule}]
          /\ ThreadOK'
      BY <1>4, <2>0, <2>2, GotoOK DEF AfterPop, ThreadLabels, HoldsFrame
    <3>2. frame[t] \in Frames
      BY <2>0 DEF TypeInv, ThreadOK, HoldsFrame
    <3>3. frame[t][1] \in Streams /\ frame[t][2] \in 0 .. MaxFrame
      BY <3>2, ConfigAssumption DEF Frames
    <3>4. processed' \in [NonHeads -> [Streams -> 0 .. MaxFrame]]
      <4>1. processed' = [processed EXCEPT ![ModuleOf(t)][frame[t][1]] = frame[t][2]]
        BY <1>4, <2>2 DEF AfterPop
      <4>2. processed \in [NonHeads -> [Streams -> 0 .. MaxFrame]] /\ ModuleOf(t) \in NonHeads
        BY <1>0, <2>0 DEF TypeInv, TypeOK
      <4>3. [processed[ModuleOf(t)] EXCEPT ![frame[t][1]] = frame[t][2]] \in [Streams -> 0 .. MaxFrame]
        BY <3>3, <4>2
      <4>. QED
        BY <4>1, <4>2, <4>3
    <3>. QED
      BY <1>4, <2>2, <3>1, <3>4, ThreadStepControl DEF AfterPop, Goto, TypeInv, TypeOK
  <2>. QED
    BY <2>1, <2>2
<1>5. CASE Process(t)
  <2>0. /\ t \notin SourceThreads /\ t \in TaskThreads /\ pc[t] = "process"
        /\ frame[t] \in Frames
    BY <1>5, ThreadFacts DEF Process, TypeInv, ThreadOK, HoldsFrame
  <2>1. (Return(t) \/ Goto(t, "provide"))
    BY <1>5 DEF Process
  <2>2. /\ pc' \in [Threads -> ThreadLabels] /\ frame' \in [Threads -> Frames \cup {NoFrame}]
        /\ todo' \in [Threads -> SUBSET NonHeads] /\ tgt' \in [Threads -> NonHeads \cup {NoModule}]
        /\ ThreadOK'
    <3>1. CASE Return(t)
      BY <3>1, <2>0, ReturnOK
    <3>2. CASE Goto(t, "provide")
      BY <3>2, <2>0, GotoOK DEF ThreadLabels, HoldsFrame
    <3>. QED
      BY <2>1, <3>1, <3>2
  <2>3. invalid' \subseteq Frames
    BY <1>5, <2>0 DEF Process, TypeInv, TypeOK
  <2>4. reported' \in SUBSET ({"EVENT_ERROR", "FRAME_ERR_MSG", "EVENT_EOS", "EOS_MSG", "DONE"}
                              \X Modules \X Frames)
    BY <1>0, <1>5, <2>0 DEF Process, Report, TypeInv, TypeOK
  <2>5. TypeOK'
    BY <1>5, <2>2, <2>3, <2>4 DEF Process, TypeInv, TypeOK
  <2>6. ControlOK'
    BY <1>5, <2>1, ThreadStepControl DEF Process, Return, Goto, TypeInv
  <2>. QED
    BY <2>2, <2>5, <2>6 DEF TypeInv
<1>6. CASE ProvideData(t)
  <2>1. /\ pc' \in [Threads -> ThreadLabels] /\ frame' \in [Threads -> Frames \cup {NoFrame}]
        /\ todo' \in [Threads -> SUBSET NonHeads] /\ tgt' \in [Threads -> NonHeads \cup {NoModule}]
        /\ ThreadOK'
    <3>1. CASE Return(t)
      BY <1>6, <3>1, ReturnOK DEF ProvideData
    <3>2. CASE Goto(t, "check")
      BY <1>6, <3>2, GotoOK DEF ProvideData, ThreadLabels, HoldsFrame
    <3>. QED
      BY <1>6, <3>1, <3>2 DEF ProvideData
  <2>2. TypeOK'
    BY <1>6, <2>1 DEF ProvideData, TypeInv, TypeOK
  <2>3. ControlOK'
    BY <1>6, ThreadStepControl DEF ProvideData, Return, Goto, TypeInv
  <2>. QED
    BY <2>1, <2>2, <2>3 DEF TypeInv
<1>7. CASE CheckFrame(t)
  <2>0. pc[t] = "check" /\ frame[t] \in Frames
    BY <1>7 DEF CheckFrame, TypeInv, ThreadOK, HoldsFrame
  <2>1. Return(t) \/ Goto(t, "mark")
    BY <1>7 DEF CheckFrame
  <2>2. /\ pc' \in [Threads -> ThreadLabels] /\ frame' \in [Threads -> Frames \cup {NoFrame}]
        /\ todo' \in [Threads -> SUBSET NonHeads] /\ tgt' \in [Threads -> NonHeads \cup {NoModule}]
        /\ ThreadOK'
    <3>1. CASE Return(t)
      BY <2>0, <3>1, ReturnOK
    <3>2. CASE Goto(t, "mark")
      BY <2>0, <3>2, GotoOK DEF ThreadLabels, HoldsFrame
    <3>. QED
      BY <2>1, <3>1, <3>2
  <2>3. reported' \in SUBSET ({"EVENT_ERROR", "FRAME_ERR_MSG", "EVENT_EOS", "EOS_MSG", "DONE"}
                              \X Modules \X Frames)
    BY <1>0, <1>7, <2>0 DEF CheckFrame, Report, TypeInv, TypeOK
  <2>4. TypeOK'
    BY <1>7, <2>2, <2>3 DEF CheckFrame, TypeInv, TypeOK
  <2>5. ControlOK'
    BY <1>7, <2>0, <2>1, ThreadStepControl DEF CheckFrame, Return, Goto, TypeInv
  <2>. QED
    BY <2>2, <2>4, <2>5 DEF TypeInv
<1>8. CASE MarkPassed(t)
  <2>0. pc[t] = "mark" /\ frame[t] \in Frames
    BY <1>8 DEF MarkPassed, TypeInv, ThreadOK, HoldsFrame
  <2>1. Marked(t) \subseteq Modules
    BY <2>0, MarkedType DEF TypeInv
  <2>2. Ready(ModuleOf(t), Marked(t)) \subseteq NonHeads
    BY <1>0, ReadyNonHead
  <2>3. mask' \in [Frames -> SUBSET Modules]
    BY <1>8, <2>0, <2>1 DEF MarkPassed, TypeInv, TypeOK
  <2>4. /\ pc' \in [Threads -> ThreadLabels] /\ frame' \in [Threads -> Frames \cup {NoFrame}]
        /\ todo' \in [Threads -> SUBSET NonHeads] /\ tgt' \in [Threads -> NonHeads \cup {NoModule}]
        /\ ThreadOK'
    <3>1. CASE Return(t)
      BY <2>0, <3>1, ReturnOK
    <3>2. CASE Goto(t, "pass")
      BY <2>0, <3>2, GotoOK DEF ThreadLabels, HoldsFrame
    <3>3. CASE /\ pc' = [pc EXCEPT ![t] = "push"]
               /\ todo' = [todo EXCEPT ![t] = Ready(ModuleOf(t), Marked(t))]
               /\ UNCHANGED <<frame, tgt>>
      <4>1. /\ pc' \in [Threads -> ThreadLabels] /\ frame' \in [Threads -> Frames \cup {NoFrame}]
            /\ todo' \in [Threads -> SUBSET NonHeads] /\ tgt' \in [Threads -> NonHeads \cup {NoModule}]
        BY <2>2, <3>3 DEF TypeInv, TypeOK, ThreadLabels
      <4>2. ThreadOK'
        BY <2>0, <3>3 DEF TypeInv, TypeOK, ThreadOK, HoldsFrame
      <4>. QED
        BY <4>1, <4>2
    <3>. QED
      BY <1>8, <3>1, <3>2, <3>3 DEF MarkPassed
  <2>5. TypeOK'
    BY <1>8, <2>3, <2>4 DEF MarkPassed, TypeInv, TypeOK
  <2>6. \E l : pc' = [pc EXCEPT ![t] = l]
    BY <1>8 DEF MarkPassed, Return, Goto
  <2>7. ControlOK'
    BY <1>8, <2>0, <2>6, ThreadStepControl DEF MarkPassed, TypeInv
  <2>. QED
    BY <2>4, <2>5, <2>7 DEF TypeInv
<1>9. CASE OnPassThrough(t)
  <2>0. pc[t] = "pass" /\ frame[t] \in Frames
    BY <1>9 DEF OnPassThrough, TypeInv, ThreadOK, HoldsFrame
  <2>1. /\ pc' \in [Threads -> ThreadLabels] /\ frame' \in [Threads -> Frames \cup {NoFrame}]
        /\ todo' \in [Threads -> SUBSET NonHeads] /\ tgt' \in [Threads -> NonHeads \cup {NoModule}]
        /\ ThreadOK'
    BY <1>9, <2>0, ReturnOK DEF OnPassThrough
  <2>2. reported' \in SUBSET ({"EVENT_ERROR", "FRAME_ERR_MSG", "EVENT_EOS", "EOS_MSG", "DONE"}
                              \X Modules \X Frames)
    BY <1>0, <1>9, <2>0 DEF OnPassThrough, Report, TypeInv, TypeOK
  <2>3. TypeOK'
    BY <1>9, <2>1, <2>2 DEF OnPassThrough, TypeInv, TypeOK
  <2>4. ControlOK'
    BY <1>9, <2>0, ThreadStepControl DEF OnPassThrough, Return, TypeInv
  <2>. QED
    BY <2>1, <2>3, <2>4 DEF TypeInv
<1>10. CASE ChooseTarget(t)
  <2>0. /\ pc[t] = "push" /\ todo[t] \subseteq NonHeads
        /\ Home(t) \in {"top", "idle"} /\ (t \in TaskThreads => Home(t) = "top")
        /\ (t \in SourceThreads => Home(t) = "idle")
    BY <1>10, ThreadFacts DEF ChooseTarget, Home, TypeInv, TypeOK
  <2>1. PICK n \in todo[t] :
          /\ todo' = [todo EXCEPT ![t] = @ \ {n}]
          /\ \/ /\ todo[t] = {n} /\ pc' = [pc EXCEPT ![t] = Home(t)]
                /\ frame' = [frame EXCEPT ![t] = NoFrame] /\ UNCHANGED tgt
             \/ UNCHANGED <<pc, frame, tgt>>
             \/ /\ pc' = [pc EXCEPT ![t] = "try"]
                /\ tgt' = [tgt EXCEPT ![t] = n] /\ UNCHANGED frame
    BY <1>10 DEF ChooseTarget
  <2>2. /\ pc' \in [Threads -> ThreadLabels] /\ frame' \in [Threads -> Frames \cup {NoFrame}]
        /\ todo' \in [Threads -> SUBSET NonHeads] /\ tgt' \in [Threads -> NonHeads \cup {NoModule}]
    BY <2>0, <2>1 DEF TypeInv, TypeOK, ThreadLabels
  <2>3. ThreadOK'
    BY <2>0, <2>1 DEF TypeInv, TypeOK, ThreadOK, HoldsFrame
  <2>4. TypeOK'
    BY <1>10, <2>2 DEF ChooseTarget, TypeInv, TypeOK
  <2>5. \E l : pc' = [pc EXCEPT ![t] = l]
    <3>1. pc = [pc EXCEPT ![t] = pc[t]]
      BY DEF TypeInv, TypeOK
    <3>. QED
      BY <2>1, <3>1
  <2>6. ControlOK'
    BY <1>10, <2>0, <2>5, ThreadStepControl DEF ChooseTarget, TypeInv
  <2>. QED
    BY <2>3, <2>4, <2>6 DEF TypeInv
<1>11. CASE Push(t)
  <2>0. pc[t] = "try" /\ frame[t] \in Frames /\ tgt[t] \in NonHeads
    BY <1>11 DEF Push, TypeInv, ThreadOK, HoldsFrame
  <2>1. NextTarget(t) \/ Goto(t, "retry")
    BY <1>11 DEF Push
  <2>2. /\ pc' \in [Threads -> ThreadLabels] /\ frame' \in [Threads -> Frames \cup {NoFrame}]
        /\ todo' \in [Threads -> SUBSET NonHeads] /\ tgt' \in [Threads -> NonHeads \cup {NoModule}]
        /\ ThreadOK'
    <3>1. CASE NextTarget(t)
      BY <2>0, <3>1, NextTargetOK
    <3>2. CASE Goto(t, "retry")
      BY <2>0, <3>2, GotoOK DEF ThreadLabels, HoldsFrame
    <3>. QED
      BY <2>1, <3>1, <3>2
  <2>3. conveyor' \in [Conveyors -> Seq(Frames)]
    <3>1. ConveyorFor(tgt[t], frame[t]) \in Conveyors
      BY <2>0, ConveyorForType
    <3>2. Append(conveyor[ConveyorFor(tgt[t], frame[t])], frame[t]) \in Seq(Frames)
      BY <2>0, <3>1 DEF TypeInv, TypeOK
    <3>. QED
      BY <1>11, <3>1, <3>2, Zenon DEF Push, TypeInv, TypeOK
  <2>4. TypeOK'
    BY <1>11, <2>2, <2>3 DEF Push, TypeInv, TypeOK
  <2>5. \E l : pc' = [pc EXCEPT ![t] = l]
    BY <2>1 DEF NextTarget, Return, Goto
  <2>6. ControlOK'
    BY <1>11, <2>0, <2>5, ThreadStepControl DEF Push, TypeInv
  <2>. QED
    BY <2>2, <2>4, <2>6 DEF TypeInv
<1>12. CASE RetryPush(t)
  <2>0. pc[t] = "retry"
    BY <1>12 DEF RetryPush
  <2>1. NextTarget(t) \/ Goto(t, "try")
    BY <1>12 DEF RetryPush
  <2>2. /\ pc' \in [Threads -> ThreadLabels] /\ frame' \in [Threads -> Frames \cup {NoFrame}]
        /\ todo' \in [Threads -> SUBSET NonHeads] /\ tgt' \in [Threads -> NonHeads \cup {NoModule}]
        /\ ThreadOK'
    <3>1. CASE NextTarget(t)
      BY <2>0, <3>1, NextTargetOK
    <3>2. CASE Goto(t, "try")
      BY <2>0, <3>2, GotoOK DEF ThreadLabels, HoldsFrame
    <3>. QED
      BY <2>1, <3>1, <3>2
  <2>3. TypeOK'
    BY <1>12, <2>2 DEF RetryPush, TypeInv, TypeOK
  <2>4. \E l : pc' = [pc EXCEPT ![t] = l]
    BY <2>1 DEF NextTarget, Return, Goto
  <2>5. ControlOK'
    BY <1>12, <2>0, <2>4, ThreadStepControl DEF RetryPush, TypeInv
  <2>. QED
    BY <2>2, <2>3, <2>5 DEF TypeInv
<1>. QED
  BY <1>1, <1>2, <1>3, <1>4, <1>5, <1>6, <1>7, <1>8, <1>9, <1>10, <1>11, <1>12 DEF ThreadStep

LEMMA SourceTypeInv ==
  ASSUME TypeInv, NEW t \in Threads, AddSource(t) \/ CreateFrame(t)
  PROVE  TypeInv'
<1>. USE DEF userVars, ctlVars, histVars, frameVars, threadVars
<1>0. t \in SourceThreads /\ t \notin TaskThreads /\ t[2] \in Streams
  BY ThreadFacts DEF AddSource, CreateFrame
<1>1. CASE AddSource(t)
  <2>1. pc[t] = "off" /\ Goto(t, "idle")
    BY <1>1 DEF AddSource
  <2>2. /\ pc' \in [Threads -> ThreadLabels] /\ frame' \in [Threads -> Frames \cup {NoFrame}]
        /\ todo' \in [Threads -> SUBSET NonHeads] /\ tgt' \in [Threads -> NonHeads \cup {NoModule}]
        /\ ThreadOK'
    BY <1>0, <2>1, GotoOK DEF ThreadLabels, HoldsFrame
  <2>3. TypeOK'
    BY <1>1, <2>2 DEF AddSource, TypeInv, TypeOK
  <2>4. ControlOK'
    BY <1>0, <1>1, <2>1, ThreadStepControl DEF AddSource, Goto, TypeInv
  <2>. QED
    BY <2>2, <2>3, <2>4 DEF TypeInv
<1>2. CASE CreateFrame(t)
  <2>0. PICK f : f = <<t[2], sent[t[2]] + 1>>
    OBVIOUS
  <2>1. /\ sent[t[2]] + 1 \in 1 .. MaxFrame /\ f \in Frames /\ f[1] = t[2]
        /\ sent' \in [Streams -> 0 .. MaxFrame]
    BY <1>0, <1>2, <2>0, ConfigAssumption DEF CreateFrame, TypeInv, TypeOK, Frames
  <2>2. invalid' \subseteq Frames
    BY <1>2, <2>0, <2>1 DEF CreateFrame, TypeInv, TypeOK
  <2>3. CASE UNCHANGED threadVars
    <3>1. TypeOK'
      BY <1>2, <2>1, <2>2, <2>3 DEF CreateFrame, TypeInv, TypeOK
    <3>. QED
      BY <1>2, <2>3, <3>1, SameThreads, NoThreadControl DEF CreateFrame, TypeInv
  <2>4. CASE /\ pc' = [pc EXCEPT ![t] = "provide"]
             /\ frame' = [frame EXCEPT ![t] = f]
             /\ UNCHANGED <<todo, tgt>>
    <3>1. TypeOK'
      BY <1>2, <2>1, <2>2, <2>4 DEF CreateFrame, TypeInv, TypeOK, ThreadLabels
    <3>2. ThreadOK'
      BY <1>0, <1>2, <2>1, <2>4 DEF CreateFrame, TypeInv, TypeOK, ThreadOK, HoldsFrame
    <3>3. ControlOK'
      BY <1>0, <1>2, <2>4, ThreadStepControl DEF CreateFrame, TypeInv
    <3>. QED
      BY <3>1, <3>2, <3>3 DEF TypeInv
  <2>. QED
    BY <1>2, <2>0, <2>3, <2>4 DEF CreateFrame
<1>. QED
  BY <1>1, <1>2

LEMMA UnremoveTypeInv ==
  ASSUME TypeInv, NEW s \in Streams, UnremoveStream(s)
  PROVE  TypeInv'
<1>. USE DEF ctlVars, histVars, frameVars
<1>. DEFINE t == <<SourceOf[s], s>>
<1>1. t \in SourceThreads /\ t \in Threads /\ t \notin TaskThreads
  <2>1. t \in SourceThreads
    BY DEF SourceThreads
  <2>. QED
    BY <2>1, ThreadFacts
<1>2. pc[t] \in {"off", "idle"} /\ pc' = [pc EXCEPT ![t] = "off"]
  BY DEF UnremoveStream
<1>3. TypeOK'
  <2>1. pc' \in [Threads -> ThreadLabels] /\ removed' \subseteq Streams
    BY <1>1, <1>2 DEF UnremoveStream, TypeInv, TypeOK, ThreadLabels
  <2>2. UNCHANGED <<removals, ctlVars, histVars, frame, todo, tgt, frameVars, conveyor>>
    BY DEF UnremoveStream
  <2>3. (reported \subseteq {"EVENT_ERROR", "FRAME_ERR_MSG", "EVENT_EOS", "EOS_MSG", "DONE"}
                            \X Modules \X Frames)'
    BY <2>2 DEF TypeInv, TypeOK
  <2>. QED
    BY <2>1, <2>2, <2>3 DEF TypeInv, TypeOK
<1>4. ThreadOK'
  <2>1. ThreadOK /\ pc \in [Threads -> ThreadLabels] /\ UNCHANGED <<frame, todo, tgt>>
    BY DEF UnremoveStream, TypeInv, TypeOK
  <2>2. \A u \in Threads : u # t => pc'[u] = pc[u]
    BY <1>2, <2>1
  <2>3. pc'[t] = "off"
    BY <1>1, <1>2, <2>1
  <2>. HIDE DEF t
  <2>. QED
    BY <1>1, <1>2, <2>1, <2>2, <2>3 DEF ThreadOK, HoldsFrame
<1>5. ControlOK'
  BY <1>1, <1>2, ThreadStepControl DEF UnremoveStream, TypeInv
<1>. QED
  BY <1>3, <1>4, <1>5 DEF TypeInv

LEMMA ControlTypeInv ==
  ASSUME TypeInv, ControlStep \/ StartOpen \/ StartFail \/ StopCall
  PROVE  TypeInv'
<1>. USE DEF userVars, ctlVars, histVars, frameVars, threadVars
<1>1. ASSUME NEW m \in NonHeads, StartConnector(m) \/ StopConnector(m) PROVE TypeInv'
  <2>1. TypeOK'
    BY <1>1, ThreadFacts DEF StartConnector, StopConnector, TypeInv, TypeOK
  <2>2. ControlOK'
    BY <1>1 DEF StartConnector, StopConnector, TypeInv, ControlOK
  <2>. QED
    BY <1>1, <2>1, <2>2, SameThreads DEF StartConnector, StopConnector, TypeInv
<1>2. ASSUME NEW m \in NonHeads, EmptyDataQueue(m) PROVE TypeInv'
  <2>1. \A c \in Conveyors : (IF c[1] = m THEN <<>> ELSE conveyor[c]) \in Seq(Frames)
    BY DEF TypeInv, TypeOK
  <2>2. conveyor' \in [Conveyors -> Seq(Frames)]
    BY <1>2, <2>1 DEF EmptyDataQueue
  <2>3. TypeOK'
    BY <1>2, <2>2 DEF EmptyDataQueue, TypeInv, TypeOK
  <2>4. ControlOK'
    BY <1>2 DEF EmptyDataQueue, TypeInv, ControlOK
  <2>. QED
    BY <1>2, <2>3, <2>4, SameThreads DEF EmptyDataQueue, TypeInv
<1>3. ASSUME NEW m \in Modules, CloseModule(m) PROVE TypeInv'
  <2>1. \A t \in Threads :
          \/ t \in SourceThreads /\ pc[t] \in {"off", "idle"} /\ pc'[t] = "off"
          \/ pc'[t] = pc[t]
    BY <1>3 DEF CloseModule
  <2>2. pc' \in [Threads -> ThreadLabels]
    BY <1>3 DEF CloseModule, TypeInv, TypeOK, ThreadLabels
  <2>3. TypeOK'
    BY <1>3, <2>2 DEF CloseModule, TypeInv, TypeOK
  <2>4. ThreadOK'
    BY <1>3, <2>1, ThreadFacts DEF CloseModule, TypeInv, ThreadOK, HoldsFrame
  <2>5. ControlOK'
    BY <1>3, <2>1, ThreadFacts DEF CloseModule, TypeInv, ControlOK
  <2>. QED
    BY <2>3, <2>4, <2>5 DEF TypeInv
<1>4. CASE StartThreads
  <2>1. \A t \in Threads : IF t \in TaskThreads THEN pc[t] = "off" /\ pc'[t] = "top" ELSE pc'[t] = pc[t]
    BY <1>4, ThreadFacts DEF StartThreads, TypeInv, ControlOK
  <2>2. pc' \in [Threads -> ThreadLabels]
    BY <1>4 DEF StartThreads, TypeInv, TypeOK, ThreadLabels
  <2>3. TypeOK'
    BY <1>4, <2>2 DEF StartThreads, TypeInv, TypeOK
  <2>4. ThreadOK'
    BY <1>4, <2>1, ThreadFacts DEF StartThreads, TypeInv, ThreadOK, HoldsFrame
  <2>5. ControlOK'
    BY <1>4 DEF StartThreads, TypeInv, ControlOK
  <2>. QED
    BY <2>3, <2>4, <2>5 DEF TypeInv
<1>5. CASE StopRunning \/ JoinThreads \/ CloseDone \/ StopCall
  <2>1. TypeOK'
    BY <1>5, ThreadFacts DEF StopRunning, JoinThreads, CloseDone, StopCall, TypeInv, TypeOK
  <2>2. ControlOK'
    <3>1. CASE StopRunning
      BY <3>1 DEF StopRunning, TypeInv, ControlOK
    <3>2. CASE JoinThreads
      BY <3>2 DEF JoinThreads, TypeInv, TypeOK, ControlOK
    <3>3. CASE CloseDone
      BY <3>3 DEF CloseDone, TypeInv, ControlOK
    <3>4. CASE StopCall
      BY <3>4 DEF StopCall, TypeInv, ControlOK
    <3>. QED
      BY <1>5, <3>1, <3>2, <3>3, <3>4
  <2>. QED
    BY <1>5, <2>1, <2>2, SameThreads DEF StopRunning, JoinThreads, CloseDone, StopCall, TypeInv
<1>6. CASE StartOpen \/ StartFail
  <2>1. starts' \in 0 .. MaxStart
    BY <1>6, ConfigAssumption DEF StartOpen, StartFail, TypeInv, TypeOK
  <2>2. TypeOK'
    <3>1. opened' \subseteq Modules /\ left' \subseteq Modules /\ running' \in BOOLEAN
          /\ ctl' \in {"connect", "close"}
      BY <1>6, ThreadFacts DEF StartOpen, StartFail, TypeInv, TypeOK
    <3>. QED
      BY <1>6, <2>1, <3>1 DEF StartOpen, StartFail, TypeInv, TypeOK
  <2>3. ControlOK'
    BY <1>6 DEF StartOpen, StartFail, TypeInv, ControlOK
  <2>. QED
    BY <1>6, <2>2, <2>3, SameThreads DEF StartOpen, StartFail, TypeInv
<1>. QED
  BY <1>1, <1>2, <1>3, <1>4, <1>5, <1>6 DEF ControlStep

LEMMA StepTypeInv == TypeInv /\ [Next]_vars => TypeInv'
<1> SUFFICES ASSUME TypeInv, [Next]_vars PROVE TypeInv'
  OBVIOUS
<1>. USE DEF userVars, ctlVars, histVars, frameVars, threadVars
<1>1. ASSUME NEW t \in Threads, ThreadStep(t) \/ AddSource(t) \/ CreateFrame(t) PROVE TypeInv'
  BY <1>1, ThreadStepTypeInv, SourceTypeInv
<1>2. CASE ControlStep \/ StartOpen \/ StartFail \/ StopCall
  BY <1>2, ControlTypeInv
<1>3. ASSUME NEW s \in Streams, RemoveStream(s) PROVE TypeInv'
  <2>1. removed' \subseteq Streams /\ removals' \in 0 .. MaxRemove
    BY <1>3, ConfigAssumption DEF RemoveStream, TypeInv, TypeOK
  <2>2. TypeOK'
    BY <1>3, <2>1 DEF RemoveStream, TypeInv, TypeOK
  <2>. QED
    BY <1>3, <2>2, SameThreads, NoThreadControl DEF RemoveStream, TypeInv
<1>5. ASSUME NEW s \in Streams, UnremoveStream(s) PROVE TypeInv'
  BY <1>5, UnremoveTypeInv
<1>4. CASE UNCHANGED vars
  <2>1. TypeOK'
    BY <1>4 DEF vars, TypeInv, TypeOK
  <2>. QED
    BY <1>4, <2>1, SameThreads, NoThreadControl DEF vars, TypeInv
<1>. QED
  BY <1>1, <1>2, <1>3, <1>4, <1>5 DEF Next

\* Every variable keeps its type, at every point of every thread.
THEOREM TypeCorrect == Spec => []TypeOK
<1>1. TypeInv => TypeOK
  BY DEF TypeInv
<1>. QED
  BY <1>1, InitTypeInv, StepTypeInv, PTL DEF Spec

\* No thread is in a module that Start has not opened or Stop has closed: the
\* threads live from the end of Start to the join, inside Open and Close.
THEOREM OpenWhileProcessing == Spec => []ProcessOnlyOpen
<1>1. TypeInv => ProcessOnlyOpen
  <2> SUFFICES ASSUME TypeInv, NEW t \in TaskThreads, pc[t] # "off"
               PROVE  ModuleOf(t) \in opened
    BY DEF ProcessOnlyOpen
  <2>1. opened = Modules
    BY DEF TypeInv, TypeOK, ControlOK
  <2>. QED
    BY <2>1, ThreadFacts
<1>. QED
  BY <1>1, InitTypeInv, StepTypeInv, PTL DEF Spec
-----------------------------------------------------------------------------
(***************************************************************************)
(* The mask protocol of TransmitData delivers a frame to a module at most  *)
(* once and only after all the module's parents, whatever the graph.  Only *)
(* NoDuplicate is not inductive: a second copy could be created whenever a *)
(* module marks a frame again, or marks it without having been reached.    *)
(* The invariant adds where a copy can be, given the mask of its frame.    *)
(***************************************************************************)

\* A frame on its way to n: all parents of n have marked it, n has not, and n
\* can be reached from the frame's source.
Good(n, f) ==
  /\ Parents(n) \subseteq mask[f]
  /\ n \notin mask[f]
  /\ n \in Route(SourceOf[f[1]])

CopiesOK ==
  \A n \in NonHeads, f \in Frames :
    /\ \A t \in Threads : HeldBy(t, n, f) \/ PendingIn(t, n, f) => Good(n, f)
    /\ \A c \in Conveyors : \A i \in DOMAIN conveyor[c] :
         QueuedAt(c, i, n, f) => Good(n, f) /\ c = ConveyorFor(n, f)

\* A stream's frames reach a module through one conveyor, thus one thread.
PlaceOK ==
  \A t \in TaskThreads : pc[t] \in HoldsFrame => t = ConveyorFor(ModuleOf(t), frame[t])

\* A frame still with its source has been marked by nobody.
SourceOK ==
  \A t \in SourceThreads : pc[t] \in HoldsFrame =>
    /\ frame[t][2] <= sent[frame[t][1]]
    /\ pc[t] \in BeforeMark => mask[frame[t]] = {}

MaskOK ==
  \A f \in Frames :
    /\ f[2] > sent[f[1]] => mask[f] = {}
    /\ \A n \in NonHeads : n \in mask[f] /\ n \in Route(SourceOf[f[1]]) => Parents(n) \subseteq mask[f]

FlowInv == TypeInv /\ CopiesOK /\ PlaceOK /\ SourceOK /\ MaskOK /\ NoDuplicate

\* The copies after a step were there before.
Shrinks ==
  /\ mask' = mask
  /\ \A t \in Threads, n \in NonHeads, f \in Frames :
       /\ HeldBy(t, n, f)' => HeldBy(t, n, f)
       /\ PendingIn(t, n, f)' => PendingIn(t, n, f)
  /\ \A c \in Conveyors : conveyor'[c] = conveyor[c] \/ conveyor'[c] = <<>>

\* A thread drops its frame, or goes on with it without moving it.
Local(t) ==
  /\ UNCHANGED <<mask, sent, conveyor>>
  /\ \A u \in Threads \ {t} :
       pc'[u] = pc[u] /\ frame'[u] = frame[u] /\ todo'[u] = todo[u] /\ tgt'[u] = tgt[u]
  /\ \/ pc'[t] \notin HoldsFrame
     \/ /\ pc[t] \in HoldsFrame /\ frame'[t] = frame[t]
        /\ pc'[t] \in BeforeMark => pc[t] \in BeforeMark
        /\ todo'[t] \subseteq todo[t]
        /\ tgt'[t] = NoModule \/ tgt'[t] \in todo[t] \cup {tgt[t]}

\* No frame is moved; at most a thread that holds none starts or ends, and a
\* conveyor is emptied.
Quiet ==
  /\ UNCHANGED <<mask, sent, frame, todo, tgt, processed, reported>>
  /\ \A u \in Threads : pc'[u] = pc[u] \/ pc'[u] \notin HoldsFrame
  /\ \A c \in Conveyors : conveyor'[c] = conveyor[c] \/ conveyor'[c] = <<>>
  /\ UNCHANGED conveyor \/ \E m : EmptyDataQueue(m)
-----------------------------------------------------------------------------
LEMMA RouteClosed ==
  ASSUME NEW h \in Modules
  PROVE  /\ h \in Route(h)
         /\ \A p \in Route(h) : NextNodes[p] \subseteq Route(h)
<1>1. h \in Route(h)
  BY DEF Route
<1>2. ASSUME NEW p \in Route(h), NEW m \in NextNodes[p] PROVE m \in Route(h)
  <2>1. m \in Modules
    BY <1>2, GraphAssumption DEF Route
  <2>2. ASSUME NEW S \in SUBSET Modules, h \in S, \A q \in S : NextNodes[q] \subseteq S
        PROVE  m \in S
    BY <1>2, <2>2 DEF Route
  <2>. QED
    BY <2>1, <2>2 DEF Route
<1>. QED
  BY <1>1, <1>2

LEMMA FrameFacts ==
  ASSUME NEW f \in Frames
  PROVE  /\ f[1] \in Streams /\ f[2] \in 1 .. MaxFrame
         /\ SourceOf[f[1]] \in Heads /\ SourceOf[f[1]] \in Modules
BY ConfigAssumption DEF Frames, Heads

LEMMA NonHeadHasParent == \A n \in NonHeads : Parents(n) # {}
BY DEF NonHeads, Heads

\* No step but MarkPassed, Pop and Push creates or moves a copy: what remains
\* of the copies after the step was there before.
LEMMA Shrink ==
  ASSUME FlowInv, TypeInv', PlaceOK', SourceOK', Shrinks, \A s \in Streams : sent'[s] >= sent[s]
  PROVE  FlowInv'
<1>. USE DEF Shrinks
<1>1. \A c \in Conveyors : \A i \in DOMAIN conveyor'[c] :
        /\ i \in DOMAIN conveyor[c]
        /\ \A n \in NonHeads, f \in Frames : QueuedAt(c, i, n, f)' => QueuedAt(c, i, n, f)
  BY DEF QueuedAt
<1>2. \A n, f : Good(n, f)' <=> Good(n, f)
  BY DEF Good
<1>3. CopiesOK'
  BY <1>1, <1>2 DEF FlowInv, CopiesOK
<1>4. MaskOK'
  <2> SUFFICES ASSUME NEW f \in Frames
               PROVE  /\ f[2] > sent'[f[1]] => mask[f] = {}
                      /\ \A n \in NonHeads : n \in mask[f] /\ n \in Route(SourceOf[f[1]])
                           => Parents(n) \subseteq mask[f]
    BY DEF MaskOK
  <2>1. f[1] \in Streams /\ f[2] \in Int
    BY FrameFacts
  <2>2. sent[f[1]] \in Int /\ sent'[f[1]] \in Int /\ sent'[f[1]] >= sent[f[1]]
    BY <2>1, ConfigAssumption DEF FlowInv, TypeInv, TypeOK
  <2>. QED
    BY <2>1, <2>2 DEF FlowInv, MaskOK
<1>5. NoDuplicate'
  <2> SUFFICES ASSUME NEW n \in NonHeads, NEW f \in Frames
               PROVE  /\ n \in mask[f] => ~HasCopy(n, f)'
                      /\ \A t1, t2 \in Threads :
                           /\ HeldBy(t1, n, f)' /\ HeldBy(t2, n, f)' => t1 = t2
                           /\ PendingIn(t1, n, f)' /\ PendingIn(t2, n, f)' => t1 = t2
                           /\ ~(HeldBy(t1, n, f)' /\ PendingIn(t2, n, f)')
                      /\ \A c \in Conveyors : \A i \in DOMAIN conveyor'[c] : QueuedAt(c, i, n, f)' =>
                           /\ \A t \in Threads : ~HeldBy(t, n, f)' /\ ~PendingIn(t, n, f)'
                           /\ \A d \in Conveyors : \A j \in DOMAIN conveyor'[d] :
                                QueuedAt(d, j, n, f)' => d = c /\ j = i
    BY DEF NoDuplicate
  <2>1. HasCopy(n, f)' => HasCopy(n, f)
    BY <1>1 DEF HasCopy
  <2>. QED
    BY <1>1, <2>1 DEF FlowInv, NoDuplicate
<1>. QED
  BY <1>3, <1>4, <1>5 DEF FlowInv

LEMMA LocalShrinks ==
  ASSUME FlowInv, TypeInv', NEW t \in Threads, Local(t)
  PROVE  Shrinks
<1>0. BeforeMark \subseteq HoldsFrame /\ NoModule \notin NonHeads
  BY GraphAssumption DEF BeforeMark, HoldsFrame, NonHeads
<1>1. pc'[t] \notin HoldsFrame => todo'[t] = {} /\ tgt'[t] = NoModule
  BY DEF TypeInv, ThreadOK, HoldsFrame
<1>2. \A u \in Threads, n \in NonHeads, f \in Frames :
        /\ HeldBy(u, n, f)' => HeldBy(u, n, f)
        /\ PendingIn(u, n, f)' => PendingIn(u, n, f)
  BY <1>0, <1>1 DEF HeldBy, PendingIn, Local
<1>. QED
  BY <1>2 DEF Shrinks, Local

LEMMA LocalStep ==
  ASSUME FlowInv, TypeInv', NEW t \in Threads, Local(t)
  PROVE  FlowInv'
<1>. USE DEF Local
<1>1. PlaceOK'
  BY ThreadFacts DEF FlowInv, PlaceOK
<1>2. SourceOK'
  BY ThreadFacts DEF FlowInv, SourceOK, BeforeMark, HoldsFrame
<1>3. \A s \in Streams : sent'[s] >= sent[s]
  BY ConfigAssumption DEF FlowInv, TypeInv, TypeOK
<1>. QED
  BY <1>1, <1>2, <1>3, LocalShrinks, Shrink

-----------------------------------------------------------------------------
(* The steps that keep or drop the frame they hold.                        *)

LEMMA LocalForm ==
  ASSUME FlowInv, NEW t \in Threads,
         \/ LoopTop(t) \/ PopTimeout(t) \/ AfterPop(t) \/ Process(t) \/ ProvideData(t)
         \/ CheckFrame(t) \/ OnPassThrough(t) \/ ChooseTarget(t) \/ RetryPush(t) \/ AddSource(t)
  PROVE  Local(t)
<1>. USE DEF frameVars, Local
<1>0. /\ pc \in [Threads -> ThreadLabels] /\ DOMAIN frame = Threads
      /\ DOMAIN todo = Threads /\ DOMAIN tgt = Threads
      /\ Home(t) \notin HoldsFrame
  BY DEF FlowInv, TypeInv, TypeOK, Home, HoldsFrame
<1>1. ASSUME Return(t), UNCHANGED <<mask, sent, conveyor>>
      PROVE  Local(t)
  BY <1>0, <1>1 DEF Return
<1>2. ASSUME NEW l, Goto(t, l), UNCHANGED <<mask, sent, conveyor>>,
             \/ l \notin HoldsFrame
             \/ pc[t] \in HoldsFrame /\ (l \in BeforeMark => pc[t] \in BeforeMark)
      PROVE  Local(t)
  <2>1. tgt'[t] = tgt[t] /\ pc'[t] = l
    BY <1>0, <1>2 DEF Goto
  <2>. QED
    BY <1>0, <1>2, <2>1 DEF Goto
<1>3. CASE LoopTop(t) \/ PopTimeout(t) \/ AddSource(t)
  <2>1. PICK l \in {"off", "pop", "top", "idle"} : Goto(t, l)
    BY <1>3 DEF LoopTop, PopTimeout, AddSource
  <2>. QED
    BY <1>2, <1>3, <2>1 DEF LoopTop, PopTimeout, AddSource, HoldsFrame
<1>4. CASE AfterPop(t)
  <2>1. CASE stopped[ModuleOf(t)]
    <3>1. pc'[t] \notin HoldsFrame
      BY <1>0, <1>4, <2>1 DEF AfterPop, HoldsFrame
    <3>. QED
      BY <1>0, <1>4, <2>1, <3>1 DEF AfterPop
  <2>2. CASE ~stopped[ModuleOf(t)]
    BY <1>2, <1>4, <2>2 DEF AfterPop, HoldsFrame, BeforeMark
  <2>. QED
    BY <2>1, <2>2
<1>5. CASE Process(t)
  BY <1>1, <1>2, <1>5 DEF Process, HoldsFrame, BeforeMark
<1>6. CASE ProvideData(t)
  BY <1>1, <1>2, <1>6 DEF ProvideData, HoldsFrame, BeforeMark
<1>7. CASE CheckFrame(t)
  BY <1>1, <1>2, <1>7 DEF CheckFrame, HoldsFrame, BeforeMark
<1>8. CASE OnPassThrough(t)
  BY <1>1, <1>8 DEF OnPassThrough
<1>9. CASE ChooseTarget(t)
  <2>1. pc[t] = "push" /\ tgt[t] = NoModule
    BY <1>9 DEF ChooseTarget, FlowInv, TypeInv, ThreadOK
  <2>2. PICK n \in todo[t] :
          /\ todo' = [todo EXCEPT ![t] = @ \ {n}]
          /\ \/ /\ pc' = [pc EXCEPT ![t] = Home(t)]
                /\ frame' = [frame EXCEPT ![t] = NoFrame] /\ UNCHANGED tgt
             \/ UNCHANGED <<pc, frame, tgt>>
             \/ /\ pc' = [pc EXCEPT ![t] = "try"]
                /\ tgt' = [tgt EXCEPT ![t] = n] /\ UNCHANGED frame
    BY <1>9 DEF ChooseTarget
  <2>3. /\ pc'[t] \in {Home(t), "push", "try"}
        /\ pc'[t] = Home(t) \/ frame'[t] = frame[t]
        /\ todo'[t] \subseteq todo[t] /\ tgt'[t] \in todo[t] \cup {tgt[t]}
    BY <1>0, <2>1, <2>2
  <2>4. \A u \in Threads \ {t} :
          pc'[u] = pc[u] /\ frame'[u] = frame[u] /\ todo'[u] = todo[u] /\ tgt'[u] = tgt[u]
    BY <1>0, <2>2
  <2>. QED
    BY <1>0, <1>9, <2>1, <2>3, <2>4 DEF ChooseTarget, HoldsFrame, BeforeMark
<1>10. CASE RetryPush(t)
  <2>1. CASE NextTarget(t) /\ todo[t] # {}
    <3>1. pc'[t] = "push" /\ tgt'[t] = NoModule /\ frame'[t] = frame[t] /\ todo'[t] = todo[t]
      BY <1>0, <2>1 DEF NextTarget
    <3>. QED
      BY <1>0, <1>10, <2>1, <3>1 DEF RetryPush, NextTarget, HoldsFrame, BeforeMark
  <2>2. CASE Return(t)
    BY <1>1, <1>10, <2>2 DEF RetryPush
  <2>3. CASE Goto(t, "try")
    BY <1>2, <1>10, <2>3 DEF RetryPush, HoldsFrame, BeforeMark
  <2>. QED
    BY <1>10, <2>1, <2>2, <2>3 DEF RetryPush, NextTarget
<1>. QED
  BY <1>3, <1>4, <1>5, <1>6, <1>7, <1>8, <1>9, <1>10

-----------------------------------------------------------------------------
(* The steps that move a frame between a thread and a conveyor.            *)

\* t takes f, the first frame of its conveyor, for module m.
PopMoves(t, m, f) ==
  /\ t \in TaskThreads /\ t \in Conveyors /\ t \notin SourceThreads
  /\ m = ModuleOf(t) /\ m \in NonHeads /\ f \in Frames
  /\ 1 \in DOMAIN conveyor[t] /\ QueuedAt(t, 1, m, f)
  /\ UNCHANGED <<mask, sent>>
  /\ pc'[t] = "popped" /\ frame'[t] = f
  /\ \A u \in Threads \ {t} : pc'[u] = pc[u] /\ frame'[u] = frame[u]
  /\ \A u \in Threads, n \in NonHeads, g \in Frames :
       /\ HeldBy(u, n, g)' => HeldBy(u, n, g) \/ (u = t /\ n = m /\ g = f)
       /\ PendingIn(u, n, g)' => PendingIn(u, n, g) /\ u # t
  /\ \A c \in Conveyors : \A i \in DOMAIN conveyor'[c] : \A n \in NonHeads, g \in Frames :
       QueuedAt(c, i, n, g)' =>
         \/ c # t /\ i \in DOMAIN conveyor[c] /\ QueuedAt(c, i, n, g)
         \/ c = t /\ i + 1 \in DOMAIN conveyor[t] /\ QueuedAt(t, i + 1, n, g) /\ i \in Nat \ {0}

LEMMA PopForm ==
  ASSUME FlowInv, NEW t \in Threads, Pop(t)
  PROVE  PopMoves(t, ModuleOf(t), Head(conveyor[t]))
<1>. USE DEF frameVars
<1>. DEFINE f == Head(conveyor[t])
            m == ModuleOf(t)
<1>1. /\ t \in TaskThreads /\ t \in Conveyors /\ t \notin SourceThreads /\ t[1] = m
      /\ m \in NonHeads /\ conveyor \in [Conveyors -> Seq(Frames)] /\ conveyor[t] # <<>>
      /\ pc' = [pc EXCEPT ![t] = "popped"] /\ frame' = [frame EXCEPT ![t] = f]
      /\ conveyor' = [conveyor EXCEPT ![t] = Tail(@)]
      /\ UNCHANGED <<mask, sent, todo, tgt>>
      /\ DOMAIN pc = Threads /\ DOMAIN frame = Threads
      /\ todo[t] = {} /\ tgt[t] = NoModule /\ NoModule \notin NonHeads
  <2>1. t \in TaskThreads /\ t \in Conveyors /\ t \notin SourceThreads /\ t[1] = m /\ m \in NonHeads
    BY ThreadFacts DEF Pop, TaskThreads, ModuleOf
  <2>2. TypeOK /\ ThreadOK
    BY DEF FlowInv, TypeInv
  <2>3. conveyor \in [Conveyors -> Seq(Frames)] /\ DOMAIN pc = Threads /\ DOMAIN frame = Threads
    BY <2>2 DEF TypeOK
  <2>4. pc[t] = "pop" /\ todo[t] = {} /\ tgt[t] = NoModule /\ NoModule \notin NonHeads
    BY <2>2, GraphAssumption DEF Pop, ThreadOK, NonHeads
  <2>. QED
    BY <2>1, <2>3, <2>4 DEF Pop
<1>2. /\ f \in Frames /\ f = conveyor[t][1] /\ 1 \in DOMAIN conveyor[t]
      /\ \A i \in DOMAIN Tail(conveyor[t]) :
           i + 1 \in DOMAIN conveyor[t] /\ Tail(conveyor[t])[i] = conveyor[t][i + 1] /\ i \in Nat \ {0}
  <2>1. conveyor[t] \in Seq(Frames) /\ conveyor[t] # <<>>
    BY <1>1
  <2>. QED
    BY <2>1
<1>3. QueuedAt(t, 1, m, f)
  BY <1>1, <1>2 DEF QueuedAt
<1>6. \A u \in Threads, n \in NonHeads, g \in Frames :
        /\ HeldBy(u, n, g)' => HeldBy(u, n, g) \/ (u = t /\ n = m /\ g = f)
        /\ PendingIn(u, n, g)' => PendingIn(u, n, g) /\ u # t
  BY <1>1, <1>2 DEF HeldBy, PendingIn
<1>7. \A c \in Conveyors : \A i \in DOMAIN conveyor'[c] : \A n \in NonHeads, g \in Frames :
        QueuedAt(c, i, n, g)' =>
          \/ c # t /\ i \in DOMAIN conveyor[c] /\ QueuedAt(c, i, n, g)
          \/ c = t /\ i + 1 \in DOMAIN conveyor[t] /\ QueuedAt(t, i + 1, n, g) /\ i \in Nat \ {0}
  BY <1>1, <1>2 DEF QueuedAt
<1>. QED
  BY <1>1, <1>2, <1>3, <1>6, <1>7 DEF PopMoves

LEMMA PopStep ==
  ASSUME FlowInv, TypeInv', NEW t \in Threads, Pop(t)
  PROVE  FlowInv'
<1>. USE DEF PopMoves
<1>0. PICK f, m : m = ModuleOf(t) /\ f = Head(conveyor[t])
  OBVIOUS
<1>1. PopMoves(t, m, f)
  BY <1>0, PopForm
<1>4. Good(m, f) /\ t = ConveyorFor(m, f)
  BY <1>1 DEF FlowInv, CopiesOK
<1>5. \A n, g : Good(n, g)' <=> Good(n, g)
  BY <1>1 DEF Good
<1>8. CopiesOK'
  BY <1>4, <1>5, <1>1 DEF FlowInv, CopiesOK
<1>9. PlaceOK'
  BY <1>1, <1>4, ThreadFacts DEF FlowInv, PlaceOK
<1>10. SourceOK' /\ MaskOK'
  <2>1. MaskOK'
    BY <1>1 DEF FlowInv, MaskOK
  <2>2. \A u \in SourceThreads : pc'[u] = pc[u] /\ frame'[u] = frame[u]
    BY <1>1, ThreadFacts
  <2>3. SourceOK'
    BY <1>1, <2>2 DEF FlowInv, SourceOK
  <2>. QED
    BY <2>1, <2>3
<1>11. NoDuplicate'
  <2> SUFFICES ASSUME NEW n \in NonHeads, NEW g \in Frames
               PROVE  /\ n \in mask[g] => ~HasCopy(n, g)'
                      /\ \A t1, t2 \in Threads :
                           /\ HeldBy(t1, n, g)' /\ HeldBy(t2, n, g)' => t1 = t2
                           /\ PendingIn(t1, n, g)' /\ PendingIn(t2, n, g)' => t1 = t2
                           /\ ~(HeldBy(t1, n, g)' /\ PendingIn(t2, n, g)')
                      /\ \A c \in Conveyors : \A i \in DOMAIN conveyor'[c] : QueuedAt(c, i, n, g)' =>
                           /\ \A u \in Threads : ~HeldBy(u, n, g)' /\ ~PendingIn(u, n, g)'
                           /\ \A d \in Conveyors : \A j \in DOMAIN conveyor'[d] :
                                QueuedAt(d, j, n, g)' => d = c /\ j = i
    BY <1>1 DEF NoDuplicate
  <2>1. n \in mask[g] => ~HasCopy(n, g)'
    BY <1>1, <1>8 DEF CopiesOK, HasCopy, Good
  <2>2. \A u \in Threads : ~HeldBy(u, m, f) /\ ~PendingIn(u, m, f)
    BY <1>1 DEF FlowInv, NoDuplicate
  <2>3. \A t1, t2 \in Threads :
           /\ HeldBy(t1, n, g)' /\ HeldBy(t2, n, g)' => t1 = t2
           /\ PendingIn(t1, n, g)' /\ PendingIn(t2, n, g)' => t1 = t2
           /\ ~(HeldBy(t1, n, g)' /\ PendingIn(t2, n, g)')
    BY <1>1, <2>2 DEF FlowInv, NoDuplicate
  <2>4. ASSUME NEW c \in Conveyors, NEW i \in DOMAIN conveyor'[c], QueuedAt(c, i, n, g)'
        PROVE  /\ \A u \in Threads : ~HeldBy(u, n, g)' /\ ~PendingIn(u, n, g)'
               /\ \A d \in Conveyors : \A j \in DOMAIN conveyor'[d] :
                    QueuedAt(d, j, n, g)' => d = c /\ j = i
    <3>1. PICK k \in DOMAIN conveyor[c] :
             /\ QueuedAt(c, k, n, g)
             /\ IF c = t THEN k = i + 1 /\ i \in Nat \ {0} ELSE k = i
      BY <1>1, <2>4
    <3>2. ~(n = m /\ g = f)
      <4>1. ASSUME n = m, g = f PROVE FALSE
        <5>1. c = t /\ k = 1
          BY <1>1, <3>1, <4>1 DEF FlowInv, NoDuplicate
        <5>. QED
          BY <3>1, <5>1
      <4>. QED
        BY <4>1
    <3>3. \A u \in Threads : ~HeldBy(u, n, g) /\ ~PendingIn(u, n, g)
      BY <3>1 DEF FlowInv, NoDuplicate
    <3>4. ASSUME NEW d \in Conveyors, NEW j \in DOMAIN conveyor'[d], QueuedAt(d, j, n, g)'
          PROVE  d = c /\ j = i
      <4>1. PICK l \in DOMAIN conveyor[d] :
               /\ QueuedAt(d, l, n, g)
               /\ IF d = t THEN l = j + 1 /\ j \in Nat \ {0} ELSE l = j
        BY <1>1, <3>4
      <4>2. d = c /\ l = k
        BY <3>1, <4>1 DEF FlowInv, NoDuplicate
      <4>. QED
        BY <3>1, <4>1, <4>2
    <3>. QED
      BY <1>1, <3>2, <3>3, <3>4
  <2>. QED
    BY <2>1, <2>3, <2>4
<1>. QED
  BY <1>8, <1>9, <1>10, <1>11 DEF FlowInv

\* t appends the frame it holds to the conveyor c of its target m.
PushMoves(t, m, f, c) ==
  /\ m \in NonHeads /\ f \in Frames /\ c \in Conveyors /\ c = ConveyorFor(m, f)
  /\ PendingIn(t, m, f)
  /\ UNCHANGED <<mask, sent>>
  /\ \A u \in Threads :
       /\ pc'[u] \in HoldsFrame => pc[u] \in HoldsFrame /\ frame'[u] = frame[u]
       /\ pc'[u] \in BeforeMark => pc[u] \in BeforeMark
  /\ \A u \in Threads, n \in NonHeads, g \in Frames :
       /\ HeldBy(u, n, g)' => HeldBy(u, n, g)
       /\ PendingIn(u, n, g)' => PendingIn(u, n, g) /\ ~(u = t /\ n = m /\ g = f)
  /\ \A d \in Conveyors : \A i \in DOMAIN conveyor'[d] : \A n \in NonHeads, g \in Frames :
       QueuedAt(d, i, n, g)' =>
         \/ i \in DOMAIN conveyor[d] /\ QueuedAt(d, i, n, g)
         \/ d = c /\ i = Len(conveyor[c]) + 1 /\ n = m /\ g = f

LEMMA PushForm ==
  ASSUME FlowInv, NEW t \in Threads, Push(t)
  PROVE  Local(t) \/ PushMoves(t, tgt[t], frame[t], ConveyorFor(tgt[t], frame[t]))
<1>. USE DEF frameVars
<1>. DEFINE m == tgt[t]
            f == frame[t]
            c == ConveyorFor(m, f)
            k == Len(conveyor[c]) + 1
<1>1. /\ pc[t] = "try" /\ m \in NonHeads /\ m \notin todo[t] /\ f \in Frames
      /\ NoModule \notin NonHeads /\ c \in Conveyors
      /\ conveyor \in [Conveyors -> Seq(Frames)]
      /\ DOMAIN pc = Threads /\ DOMAIN frame = Threads /\ DOMAIN todo = Threads /\ DOMAIN tgt = Threads
      /\ Home(t) \notin HoldsFrame /\ Home(t) \notin BeforeMark
  <2>1. TypeOK /\ ThreadOK
    BY DEF FlowInv, TypeInv
  <2>2. pc[t] = "try" /\ m \in NonHeads /\ m \notin todo[t] /\ f \in Frames
    BY <2>1 DEF Push, ThreadOK, HoldsFrame
  <2>3. c \in Conveyors
    BY <2>2, ConveyorForType
  <2>4. NoModule \notin NonHeads
    BY GraphAssumption DEF NonHeads
  <2>. QED
    BY <2>1, <2>2, <2>3, <2>4 DEF TypeOK, Home, HoldsFrame, BeforeMark
<1>2. CASE Goto(t, "retry") /\ UNCHANGED conveyor
  <2>1. pc'[t] = "retry"
    BY <1>1, <1>2 DEF Goto
  <2>. QED
    BY <1>1, <1>2, <2>1 DEF Local, Goto, Push, HoldsFrame, BeforeMark
<1>3. CASE conveyor' = [conveyor EXCEPT ![c] = Append(@, f)] /\ NextTarget(t)
  <2>. USE <1>1, <1>3
  <2>1. /\ \A u \in Threads \ {t} :
             pc'[u] = pc[u] /\ frame'[u] = frame[u] /\ todo'[u] = todo[u] /\ tgt'[u] = tgt[u]
        /\ pc'[t] \notin BeforeMark /\ tgt'[t] = NoModule /\ todo'[t] = todo[t]
        /\ frame'[t] = f \/ (todo'[t] = {} /\ pc'[t] \notin HoldsFrame)
    <3>1. CASE todo[t] = {}
      BY <3>1 DEF NextTarget, Return
    <3>2. CASE todo[t] # {}
      BY <3>2 DEF NextTarget, BeforeMark
    <3>. QED
      BY <3>1, <3>2
  <2>2. UNCHANGED <<mask, sent>>
    BY DEF Push
  <2>3. /\ \A i \in DOMAIN conveyor'[c] :
             \/ i \in DOMAIN conveyor[c] /\ conveyor'[c][i] = conveyor[c][i]
             \/ i = k /\ conveyor'[c][i] = f
        /\ \A d \in Conveyors \ {c} : conveyor'[d] = conveyor[d]
        /\ k \notin DOMAIN conveyor[c]
    <3>1. conveyor[c] \in Seq(Frames) /\ conveyor'[c] = Append(conveyor[c], f)
      OBVIOUS
    <3>. QED
      BY <3>1
  <2>4. PendingIn(t, m, f)
    BY DEF PendingIn
  <2>7. \A u \in Threads, n \in NonHeads, g \in Frames :
          /\ HeldBy(u, n, g)' => HeldBy(u, n, g)
          /\ PendingIn(u, n, g)' => PendingIn(u, n, g) /\ ~(u = t /\ n = m /\ g = f)
    BY <2>1 DEF HeldBy, PendingIn
  <2>8. \A d \in Conveyors : \A i \in DOMAIN conveyor'[d] : \A n \in NonHeads, g \in Frames :
          QueuedAt(d, i, n, g)' =>
            \/ i \in DOMAIN conveyor[d] /\ QueuedAt(d, i, n, g)
            \/ d = c /\ i = k /\ n = m /\ g = f
    <3>1. c[1] = m
      BY DEF ConveyorFor
    <3> SUFFICES ASSUME NEW d \in Conveyors, NEW i \in DOMAIN conveyor'[d],
                        NEW n \in NonHeads, NEW g \in Frames, QueuedAt(d, i, n, g)'
                 PROVE  \/ i \in DOMAIN conveyor[d] /\ QueuedAt(d, i, n, g)
                        \/ d = c /\ i = k /\ n = m /\ g = f
      OBVIOUS
    <3>2. d[1] = n /\ conveyor'[d][i] = g
      BY DEF QueuedAt
    <3>3. CASE d = c
      BY <2>3, <3>1, <3>2, <3>3 DEF QueuedAt
    <3>4. CASE d # c
      BY <2>3, <3>2, <3>4 DEF QueuedAt
    <3>. QED
      BY <3>3, <3>4
  <2>9. \A u \in Threads :
          /\ pc'[u] \in HoldsFrame => pc[u] \in HoldsFrame /\ frame'[u] = frame[u]
          /\ pc'[u] \in BeforeMark => pc[u] \in BeforeMark
    BY <2>1 DEF HoldsFrame, BeforeMark
  <2>. QED
    BY <2>2, <2>4, <2>7, <2>8, <2>9 DEF PushMoves
<1>. QED
  BY <1>2, <1>3 DEF Push

LEMMA PushStep ==
  ASSUME FlowInv, TypeInv', NEW t \in Threads, Push(t)
  PROVE  FlowInv'
<1>1. CASE Local(t)
  BY <1>1, LocalStep
<1>2. CASE PushMoves(t, tgt[t], frame[t], ConveyorFor(tgt[t], frame[t]))
  <2>1. PICK m, f, c : PushMoves(t, m, f, c)
    BY <1>2
  <2>. USE <2>1 DEF PushMoves
  <2>5. Good(m, f)
    BY DEF FlowInv, CopiesOK
  <2>6. \A n, g : Good(n, g)' <=> Good(n, g)
    BY DEF Good
  <2>9. CopiesOK'
    BY <2>5, <2>6 DEF FlowInv, CopiesOK
  <2>10. PlaceOK'
    BY ThreadFacts DEF FlowInv, PlaceOK
  <2>11. SourceOK'
    BY ThreadFacts DEF FlowInv, SourceOK
  <2>12. MaskOK'
    BY DEF FlowInv, MaskOK
  <2>13. NoDuplicate'
    <3> SUFFICES ASSUME NEW n \in NonHeads, NEW g \in Frames
                 PROVE  /\ n \in mask[g] => ~HasCopy(n, g)'
                        /\ \A t1, t2 \in Threads :
                             /\ HeldBy(t1, n, g)' /\ HeldBy(t2, n, g)' => t1 = t2
                             /\ PendingIn(t1, n, g)' /\ PendingIn(t2, n, g)' => t1 = t2
                             /\ ~(HeldBy(t1, n, g)' /\ PendingIn(t2, n, g)')
                        /\ \A d \in Conveyors : \A i \in DOMAIN conveyor'[d] : QueuedAt(d, i, n, g)' =>
                             /\ \A u \in Threads : ~HeldBy(u, n, g)' /\ ~PendingIn(u, n, g)'
                             /\ \A e \in Conveyors : \A j \in DOMAIN conveyor'[e] :
                                  QueuedAt(e, j, n, g)' => e = d /\ j = i
      BY DEF NoDuplicate
    <3>1. n \in mask[g] => ~HasCopy(n, g)'
      BY <2>9 DEF CopiesOK, HasCopy, Good
    <3>2. \A t1, t2 \in Threads :
            /\ HeldBy(t1, n, g)' /\ HeldBy(t2, n, g)' => t1 = t2
            /\ PendingIn(t1, n, g)' /\ PendingIn(t2, n, g)' => t1 = t2
            /\ ~(HeldBy(t1, n, g)' /\ PendingIn(t2, n, g)')
      BY DEF FlowInv, NoDuplicate
    <3>3. n = m /\ g = f =>
            /\ \A u \in Threads : ~HeldBy(u, n, g)' /\ ~PendingIn(u, n, g)'
            /\ \A d \in Conveyors : \A i \in DOMAIN conveyor[d] : ~QueuedAt(d, i, n, g)
      BY DEF FlowInv, NoDuplicate
    <3>4. ASSUME NEW d \in Conveyors, NEW i \in DOMAIN conveyor'[d], QueuedAt(d, i, n, g)'
          PROVE  /\ \A u \in Threads : ~HeldBy(u, n, g)' /\ ~PendingIn(u, n, g)'
                 /\ \A e \in Conveyors : \A j \in DOMAIN conveyor'[e] :
                      QueuedAt(e, j, n, g)' => e = d /\ j = i
      <4>1. CASE n = m /\ g = f
        BY <3>3, <3>4, <4>1
      <4>2. CASE ~(n = m /\ g = f)
        <5>1. i \in DOMAIN conveyor[d] /\ QueuedAt(d, i, n, g)
          BY <3>4, <4>2
        <5>2. \A e \in Conveyors : \A j \in DOMAIN conveyor'[e] :
                QueuedAt(e, j, n, g)' => j \in DOMAIN conveyor[e] /\ QueuedAt(e, j, n, g)
          BY <4>2
        <5>. QED
          BY <5>1, <5>2 DEF FlowInv, NoDuplicate
      <4>. QED
        BY <4>1, <4>2
    <3>. QED
      BY <3>1, <3>2, <3>4
  <2>. QED
    BY <2>9, <2>10, <2>11, <2>12, <2>13 DEF FlowInv
<1>. QED
  BY <1>1, <1>2, PushForm
-----------------------------------------------------------------------------
(* Marking: the one step that changes a mask.                              *)

\* What the frame a thread is about to mark looks like.
LEMMA BeforeMarking ==
  ASSUME FlowInv, NEW t \in Threads, pc[t] = "mark", NEW f, f = frame[t],
         NEW m, m = ModuleOf(t), NEW R, R = Route(SourceOf[f[1]])
  PROVE  /\ f \in Frames /\ m \in Modules /\ m \in R
         /\ m \notin mask[f] /\ mask[f] \subseteq Marked(t)
         /\ \A n \in Marked(t) \cap R : n \in mask[f] \/ n = m
         /\ m \in Marked(t)
         /\ m \in NonHeads => Parents(m) \subseteq mask[f] /\ HeldBy(t, m, f) /\ mask[f] # {}
         /\ m \notin NonHeads => t \in SourceThreads /\ mask[f] = {}
         /\ f[2] <= sent[f[1]]
<1>1. f \in Frames /\ f[1] \in Streams /\ m \in Modules
  <2>1. f \in Frames
    BY DEF FlowInv, TypeInv, ThreadOK, HoldsFrame
  <2>. QED
    BY <2>1, FrameFacts, ThreadFacts
<1>2. CASE t \in TaskThreads
  <2>1. m \in NonHeads /\ HeldBy(t, m, f)
    BY <1>2, ThreadFacts DEF HeldBy, BeforeMark
  <2>2. Good(m, f)
    BY <1>1, <2>1 DEF FlowInv, CopiesOK
  <2>3. Marked(t) = mask[f] \cup {m}
    BY <2>1 DEF Marked, NonHeads
  <2>4. mask[f] # {}
    BY <2>1, <2>2, NonHeadHasParent DEF Good
  <2>5. f[2] <= sent[f[1]]
    <3>1. f[2] \in Int /\ sent[f[1]] \in Int
      BY <1>1, FrameFacts, ConfigAssumption DEF FlowInv, TypeInv, TypeOK
    <3>. QED
      BY <1>1, <2>4, <3>1 DEF FlowInv, MaskOK
  <2>. QED
    BY <1>1, <2>1, <2>2, <2>3, <2>4, <2>5 DEF Good
<1>3. CASE t \in SourceThreads
  <2>1. m \in Heads /\ m = SourceOf[f[1]]
    <3>1. f[1] = t[2]
      BY <1>3 DEF FlowInv, TypeInv, ThreadOK, HoldsFrame
    <3>. QED
      BY <1>3, <3>1, ThreadFacts
  <2>2. f[2] <= sent[f[1]] /\ mask[f] = {}
    BY <1>3 DEF FlowInv, SourceOK, HoldsFrame, BeforeMark
  <2>3. Marked(t) = (Modules \ R) \cup {m}
    BY <2>1 DEF Marked
  <2>4. m \in R
    BY <1>1, <2>1, RouteClosed
  <2>5. m \notin NonHeads
    BY <2>1 DEF NonHeads
  <2>. QED
    BY <1>1, <1>3, <2>2, <2>3, <2>4, <2>5
<1>. QED
  BY <1>2, <1>3, ThreadFacts

\* t, of module m, has marked f, whose mask is now P: f is pending for the
\* successors of m that are ready, and for m no more.
MarkMoves(t, m, f, P) ==
  /\ pc[t] = "mark" /\ frame[t] = f /\ m = ModuleOf(t)
  /\ f \in Frames /\ m \in Modules /\ m \in Route(SourceOf[f[1]])
  /\ m \notin mask[f] /\ mask[f] \subseteq P /\ m \in P
  /\ \A n \in P \cap Route(SourceOf[f[1]]) : n \in mask[f] \/ n = m
  /\ m \in NonHeads => Parents(m) \subseteq mask[f] /\ HeldBy(t, m, f)
  /\ m \notin NonHeads => t \in SourceThreads /\ mask[f] = {}
  /\ f[2] <= sent[f[1]]
  /\ UNCHANGED <<sent, conveyor>>
  /\ mask'[f] = P
  /\ \A g \in Frames \ {f} : mask'[g] = mask[g]
  /\ \A u \in Threads :
       /\ pc'[u] \in HoldsFrame => pc[u] \in HoldsFrame /\ frame'[u] = frame[u]
       /\ pc'[u] \in BeforeMark => pc[u] \in BeforeMark /\ u # t
  /\ \A n \in Ready(m, P) :
       n \in NonHeads /\ m \in Parents(n) /\ Good(n, f)' /\ ~HasCopy(n, f)
  /\ \A n \in NonHeads, g \in Frames : Good(n, g) /\ ~(n = m /\ g = f) => Good(n, g)'
  /\ \A u \in Threads, n \in NonHeads, g \in Frames :
       /\ HeldBy(u, n, g)' => HeldBy(u, n, g) /\ u # t /\ ~(n = m /\ g = f)
       /\ PendingIn(u, n, g)' =>
            \/ PendingIn(u, n, g) /\ u # t /\ ~(n = m /\ g = f)
            \/ u = t /\ g = f /\ n \in Ready(m, P)
  /\ \A c \in Conveyors : \A i \in DOMAIN conveyor'[c] : \A n \in NonHeads, g \in Frames :
       QueuedAt(c, i, n, g)' =>
         i \in DOMAIN conveyor[c] /\ QueuedAt(c, i, n, g) /\ ~(n = m /\ g = f)

LEMMA MarkForm ==
  ASSUME FlowInv, NEW t \in Threads, MarkPassed(t)
  PROVE  MarkMoves(t, ModuleOf(t), frame[t], Marked(t))
<1>. DEFINE P == Marked(t)
<1>0. PICK f, m, R : f = frame[t] /\ m = ModuleOf(t) /\ R = Route(SourceOf[f[1]])
  OBVIOUS
<1>1. /\ f \in Frames /\ m \in Modules /\ m \in R
      /\ m \notin mask[f] /\ mask[f] \subseteq P
      /\ \A n \in P \cap R : n \in mask[f] \/ n = m
      /\ m \in P
      /\ m \in NonHeads => Parents(m) \subseteq mask[f] /\ HeldBy(t, m, f) /\ mask[f] # {}
      /\ m \notin NonHeads => t \in SourceThreads /\ mask[f] = {}
      /\ f[2] <= sent[f[1]]
  BY <1>0, BeforeMarking DEF MarkPassed
<1>2. /\ UNCHANGED <<sent, conveyor>>
      /\ mask'[f] = P
      /\ \A g \in Frames \ {f} : mask'[g] = mask[g]
  BY <1>0, <1>1 DEF MarkPassed, FlowInv, TypeInv, TypeOK
<1>3. /\ \A u \in Threads \ {t} :
           pc'[u] = pc[u] /\ frame'[u] = frame[u] /\ todo'[u] = todo[u] /\ tgt'[u] = tgt[u]
      /\ pc'[t] \notin BeforeMark /\ tgt'[t] = NoModule /\ todo'[t] \subseteq Ready(m, P)
      /\ pc'[t] \in HoldsFrame => frame'[t] = f
      /\ pc'[t] \notin HoldsFrame => todo'[t] = {}
  <2>1. /\ DOMAIN pc = Threads /\ DOMAIN frame = Threads
        /\ DOMAIN todo = Threads /\ DOMAIN tgt = Threads
        /\ todo[t] = {} /\ tgt[t] = NoModule
    BY DEF FlowInv, TypeInv, TypeOK, ThreadOK, MarkPassed
  <2>2. Home(t) \notin BeforeMark /\ Home(t) \notin HoldsFrame
    BY DEF Home, BeforeMark, HoldsFrame
  <2>3. CASE Goto(t, "pass")
    BY <1>0, <2>1, <2>3 DEF Goto, BeforeMark, HoldsFrame
  <2>4. CASE Return(t)
    BY <2>1, <2>2, <2>4 DEF Return
  <2>5. CASE /\ pc' = [pc EXCEPT ![t] = "push"]
             /\ todo' = [todo EXCEPT ![t] = Ready(m, P)]
             /\ UNCHANGED <<frame, tgt>>
    BY <1>0, <2>1, <2>5 DEF BeforeMark, HoldsFrame
  <2>. QED
    BY <1>0, <2>3, <2>4, <2>5 DEF MarkPassed
<1>4. ASSUME NEW n \in Ready(m, P)
      PROVE  n \in NonHeads /\ n # m /\ m \in Parents(n) /\ Good(n, f)' /\ ~HasCopy(n, f)
  <2>1. n \in NonHeads /\ n # m /\ m \in Parents(n) /\ Parents(n) \subseteq P
    BY <1>1, <1>4, ReadyNonHead
  <2>2. n \in R
    <3>1. n \in NextNodes[m]
      BY <1>4 DEF Ready
    <3>. QED
      BY <1>0, <1>1, <3>1, RouteClosed, FrameFacts
  <2>3. n \notin mask[f]
    BY <1>0, <1>1, <2>1, <2>2 DEF FlowInv, MaskOK
  <2>4. n \notin P
    BY <1>1, <2>1, <2>2, <2>3
  <2>5. ~HasCopy(n, f)
    BY <1>1, <2>1 DEF FlowInv, CopiesOK, HasCopy, Good
  <2>6. Good(n, f)'
    BY <1>0, <1>2, <2>1, <2>2, <2>4 DEF Good
  <2>. QED
    BY <2>1, <2>5, <2>6
<1>5. ASSUME NEW n \in NonHeads, NEW g \in Frames, Good(n, g), ~(n = m /\ g = f)
      PROVE  Good(n, g)'
  <2>1. CASE g # f
    BY <1>2, <1>5, <2>1 DEF Good
  <2>2. CASE g = f /\ n # m
    <3>1. n \in R /\ n \notin mask[f] /\ Parents(n) \subseteq P
      BY <1>0, <1>1, <1>5, <2>2 DEF Good
    <3>. QED
      BY <1>0, <1>1, <1>2, <2>2, <3>1 DEF Good
  <2>. QED
    BY <1>5, <2>1, <2>2
<1>6. NoModule \notin NonHeads
  BY GraphAssumption DEF NonHeads
<1>7. \A u \in Threads, n \in NonHeads, g \in Frames :
        /\ HeldBy(u, n, g)' => HeldBy(u, n, g) /\ u # t /\ ~(n = m /\ g = f)
        /\ PendingIn(u, n, g)' =>
             \/ PendingIn(u, n, g) /\ u # t /\ ~(n = m /\ g = f)
             \/ u = t /\ g = f /\ n \in Ready(m, P)
  <2> SUFFICES ASSUME NEW u \in Threads, NEW n \in NonHeads, NEW g \in Frames
               PROVE  /\ HeldBy(u, n, g)' => HeldBy(u, n, g) /\ u # t /\ ~(n = m /\ g = f)
                      /\ PendingIn(u, n, g)' =>
                           \/ PendingIn(u, n, g) /\ u # t /\ ~(n = m /\ g = f)
                           \/ u = t /\ g = f /\ n \in Ready(m, P)
    OBVIOUS
  <2>1. HeldBy(u, n, g)' => HeldBy(u, n, g) /\ u # t
    BY <1>3 DEF HeldBy
  <2>2. PendingIn(u, n, g)' => \/ PendingIn(u, n, g) /\ u # t
                               \/ u = t /\ g = f /\ n \in Ready(m, P)
    BY <1>3, <1>6 DEF PendingIn
  <2>3. u # t /\ n = m /\ g = f => ~HeldBy(u, n, g) /\ ~PendingIn(u, n, g)
    BY <1>1 DEF FlowInv, NoDuplicate
  <2>. QED
    BY <2>1, <2>2, <2>3
<1>8. \A c \in Conveyors : \A i \in DOMAIN conveyor'[c] : \A n \in NonHeads, g \in Frames :
        QueuedAt(c, i, n, g)' =>
          i \in DOMAIN conveyor[c] /\ QueuedAt(c, i, n, g) /\ ~(n = m /\ g = f)
  <2>1. \A c \in Conveyors : \A i \in DOMAIN conveyor[c] : \A n \in NonHeads :
          n = m => ~QueuedAt(c, i, n, f)
    BY <1>1 DEF FlowInv, NoDuplicate
  <2>. QED
    BY <1>2, <2>1 DEF QueuedAt
<1>9. \A u \in Threads :
        /\ pc'[u] \in HoldsFrame => pc[u] \in HoldsFrame /\ frame'[u] = frame[u]
        /\ pc'[u] \in BeforeMark => pc[u] \in BeforeMark /\ u # t
  BY <1>0, <1>3 DEF MarkPassed, HoldsFrame
<1>10. pc[t] = "mark"
  BY DEF MarkPassed
<1>11. MarkMoves(t, m, f, P)
  <2>1. \A n \in Ready(m, P) :
          n \in NonHeads /\ m \in Parents(n) /\ Good(n, f)' /\ ~HasCopy(n, f)
    BY <1>4
  <2>2. \A n \in NonHeads, g \in Frames : Good(n, g) /\ ~(n = m /\ g = f) => Good(n, g)'
    BY <1>5
  <2>. HIDE DEF P
  <2>. QED
    BY <1>0, <1>1, <1>2, <1>7, <1>8, <1>9, <1>10, <2>1, <2>2 DEF MarkMoves
<1>. QED
  BY <1>0, <1>11

LEMMA MarkStep ==
  ASSUME FlowInv, TypeInv', NEW t \in Threads, MarkPassed(t)
  PROVE  FlowInv'
<1>1. PICK m, f, P : MarkMoves(t, m, f, P)
  BY MarkForm
<1>2. /\ f \in Frames /\ m \in P
      /\ m \in NonHeads => Parents(m) \subseteq mask[f]
      /\ mask[f] \subseteq P
      /\ \A n \in P \cap Route(SourceOf[f[1]]) : n \in mask[f] \/ n = m
      /\ UNCHANGED <<sent, conveyor>> /\ mask'[f] = P
      /\ \A g \in Frames \ {f} : mask'[g] = mask[g]
  BY <1>1 DEF MarkMoves
<1>3. \A u \in Threads :
        /\ pc'[u] \in HoldsFrame => pc[u] \in HoldsFrame /\ frame'[u] = frame[u]
        /\ pc'[u] \in BeforeMark => pc[u] \in BeforeMark /\ u # t
  BY <1>1 DEF MarkMoves
<1>4. \A n \in Ready(m, P) : Good(n, f)' /\ ~HasCopy(n, f)
  BY <1>1 DEF MarkMoves
<1>7. \A u \in Threads, n \in NonHeads, g \in Frames :
        /\ HeldBy(u, n, g)' => HeldBy(u, n, g) /\ u # t /\ ~(n = m /\ g = f)
        /\ PendingIn(u, n, g)' =>
             \/ PendingIn(u, n, g) /\ u # t /\ ~(n = m /\ g = f)
             \/ u = t /\ g = f /\ n \in Ready(m, P)
  BY <1>1 DEF MarkMoves
<1>8. \A c \in Conveyors : \A i \in DOMAIN conveyor'[c] : \A n \in NonHeads, g \in Frames :
        QueuedAt(c, i, n, g)' =>
          i \in DOMAIN conveyor[c] /\ QueuedAt(c, i, n, g) /\ ~(n = m /\ g = f)
  BY <1>1 DEF MarkMoves
<1>9. CopiesOK'
  <2>1. \A n \in NonHeads, g \in Frames : Good(n, g) /\ ~(n = m /\ g = f) => Good(n, g)'
    BY <1>1 DEF MarkMoves
  <2>. QED
    BY <1>4, <1>7, <1>8, <2>1 DEF FlowInv, CopiesOK
<1>10. PlaceOK'
  BY <1>3, ThreadFacts DEF FlowInv, PlaceOK
<1>11. SourceOK'
  <2> SUFFICES ASSUME NEW u \in SourceThreads, pc'[u] \in HoldsFrame
               PROVE  /\ frame[u][2] <= sent[frame[u][1]]
                      /\ pc'[u] \in BeforeMark => mask'[frame[u]] = {}
    BY <1>2, <1>3, ThreadFacts DEF SourceOK
  <2>1. /\ u \in Threads /\ pc[u] \in HoldsFrame
        /\ pc'[u] \in BeforeMark => pc[u] \in BeforeMark /\ u # t
    BY <1>3, ThreadFacts
  <2>2. frame[u] \in Frames /\ frame[u][1] = u[2]
    BY <2>1 DEF FlowInv, TypeInv, ThreadOK
  <2>3. frame[u][2] <= sent[frame[u][1]] /\ (pc[u] \in BeforeMark => mask[frame[u]] = {})
    BY <2>1 DEF FlowInv, SourceOK
  <2>4. ASSUME frame[u] = f, u # t, mask[f] = {} PROVE FALSE
    <3>1. t \in SourceThreads /\ pc[t] = "mark" /\ frame[t] = f
      BY <1>1, <2>4, NonHeadHasParent DEF MarkMoves
    <3>2. f[1] = t[2]
      BY <3>1 DEF FlowInv, TypeInv, ThreadOK, HoldsFrame
    <3>. QED
      BY <2>2, <2>4, <3>1, <3>2 DEF SourceThreads
  <2>. QED
    BY <1>2, <2>1, <2>2, <2>3, <2>4
<1>12. MaskOK'
  <2> SUFFICES ASSUME NEW g \in Frames
               PROVE  /\ g[2] > sent[g[1]] => mask'[g] = {}
                      /\ \A n \in NonHeads : n \in mask'[g] /\ n \in Route(SourceOf[g[1]])
                           => Parents(n) \subseteq mask'[g]
    BY <1>2 DEF MaskOK
  <2>1. CASE g # f
    BY <1>2, <2>1 DEF FlowInv, MaskOK
  <2>2. CASE g = f
    <3>1. ~(f[2] > sent[f[1]])
      <4>1. f[2] \in Int /\ sent[f[1]] \in Int
        BY <1>2, FrameFacts, ConfigAssumption DEF FlowInv, TypeInv, TypeOK
      <4>. QED
        BY <1>1, <4>1 DEF MarkMoves
    <3>2. ASSUME NEW n \in NonHeads, n \in P, n \in Route(SourceOf[f[1]])
          PROVE  Parents(n) \subseteq P
      <4>1. Parents(n) \subseteq mask[f]
        BY <1>2, <3>2 DEF FlowInv, MaskOK
      <4>. QED
        BY <1>2, <4>1
    <3>. QED
      BY <1>2, <2>2, <3>1, <3>2
  <2>. QED
    BY <2>1, <2>2
<1>13. NoDuplicate'
  <2> SUFFICES ASSUME NEW n \in NonHeads, NEW g \in Frames
               PROVE  /\ n \in mask'[g] => ~HasCopy(n, g)'
                      /\ \A t1, t2 \in Threads :
                           /\ HeldBy(t1, n, g)' /\ HeldBy(t2, n, g)' => t1 = t2
                           /\ PendingIn(t1, n, g)' /\ PendingIn(t2, n, g)' => t1 = t2
                           /\ ~(HeldBy(t1, n, g)' /\ PendingIn(t2, n, g)')
                      /\ \A c \in Conveyors : \A i \in DOMAIN conveyor'[c] : QueuedAt(c, i, n, g)' =>
                           /\ \A u \in Threads : ~HeldBy(u, n, g)' /\ ~PendingIn(u, n, g)'
                           /\ \A d \in Conveyors : \A j \in DOMAIN conveyor'[d] :
                                QueuedAt(d, j, n, g)' => d = c /\ j = i
    BY DEF NoDuplicate
  <2>1. n \in mask'[g] => ~HasCopy(n, g)'
    BY <1>9 DEF CopiesOK, HasCopy, Good
  <2>2. CASE g = f /\ n \in Ready(m, P)
    <3>1. /\ \A u \in Threads : ~HeldBy(u, n, g) /\ ~PendingIn(u, n, g)
          /\ \A c \in Conveyors : \A i \in DOMAIN conveyor[c] : ~QueuedAt(c, i, n, g)
      BY <1>4, <2>2 DEF HasCopy
    <3>. QED
      BY <1>7, <1>8, <2>1, <3>1
  <2>3. CASE ~(g = f /\ n \in Ready(m, P))
    <3>1. \A u \in Threads : /\ HeldBy(u, n, g)' => HeldBy(u, n, g)
                             /\ PendingIn(u, n, g)' => PendingIn(u, n, g)
      BY <1>7, <2>3
    <3>. QED
      BY <1>8, <2>1, <3>1 DEF FlowInv, NoDuplicate
  <2>. QED
    BY <2>2, <2>3
<1>. QED
  BY <1>9, <1>10, <1>11, <1>12, <1>13 DEF FlowInv
-----------------------------------------------------------------------------
(* The remaining steps, and the theorems.                                  *)

LEMMA CreateShrinks ==
  ASSUME FlowInv, NEW t \in Threads, CreateFrame(t)
  PROVE  Shrinks
<1>1. /\ UNCHANGED <<mask, conveyor, todo, tgt>> /\ t \notin TaskThreads
      /\ \A u \in Threads \ {t} : pc'[u] = pc[u] /\ frame'[u] = frame[u]
  BY ThreadFacts DEF CreateFrame, threadVars, FlowInv, TypeInv, TypeOK
<1>2. todo[t] = {} /\ tgt[t] = NoModule /\ NoModule \notin NonHeads
  BY GraphAssumption DEF CreateFrame, FlowInv, TypeInv, ThreadOK, NonHeads
<1>. QED
  BY <1>1, <1>2 DEF Shrinks, HeldBy, PendingIn

LEMMA CreateFrameStep ==
  ASSUME FlowInv, TypeInv', NEW t \in Threads, CreateFrame(t)
  PROVE  FlowInv'
<1>. DEFINE s == t[2]
            f == <<s, sent[s] + 1>>
<1>1. /\ t \in SourceThreads /\ s \in Streams /\ t \notin TaskThreads
      /\ DOMAIN pc = Threads /\ DOMAIN frame = Threads /\ pc[t] = "idle"
      /\ sent \in [Streams -> 0 .. MaxFrame] /\ sent[s] < MaxFrame /\ MaxFrame \in Nat
      /\ sent' = [sent EXCEPT ![s] = @ + 1]
      /\ UNCHANGED <<mask, conveyor, todo, tgt>>
      /\ \/ UNCHANGED <<pc, frame>>
         \/ /\ pc' = [pc EXCEPT ![t] = "provide"]
            /\ frame' = [frame EXCEPT ![t] = f]
  <2>1. t \in SourceThreads /\ s \in Streams /\ t \notin TaskThreads
    BY ThreadFacts DEF CreateFrame
  <2>2. TypeOK
    BY DEF FlowInv, TypeInv
  <2>. QED
    BY <2>1, <2>2, ConfigAssumption DEF TypeOK, CreateFrame, threadVars
<1>2. \A r \in Streams : sent'[r] >= sent[r] /\ sent[r] \in Int /\ sent'[r] \in Int
  BY <1>1
<1>3. f \in Frames /\ mask[f] = {}
  <2>1. f \in Frames
    BY <1>1 DEF Frames
  <2>2. f[2] > sent[f[1]]
    BY <1>1
  <2>. QED
    BY <2>1, <2>2 DEF FlowInv, MaskOK
<1>5. \A u \in Threads \ {t} : pc'[u] = pc[u] /\ frame'[u] = frame[u]
  BY <1>1
<1>7. PlaceOK'
  BY <1>1, <1>5, ThreadFacts DEF FlowInv, PlaceOK
<1>8. SourceOK'
  <2> SUFFICES ASSUME NEW u \in SourceThreads, pc'[u] \in HoldsFrame
               PROVE  /\ frame'[u][2] <= sent'[frame'[u][1]]
                      /\ pc'[u] \in BeforeMark => mask[frame'[u]] = {}
    BY <1>1 DEF SourceOK
  <2>1. CASE pc'[u] = pc[u] /\ frame'[u] = frame[u]
    <3>1. frame[u] \in Frames
      BY <2>1, ThreadFacts DEF FlowInv, TypeInv, ThreadOK
    <3>2. frame[u][1] \in Streams /\ frame[u][2] \in Int
      BY <3>1, FrameFacts
    <3>3. frame[u][2] <= sent[frame[u][1]] /\ (pc[u] \in BeforeMark => mask[frame[u]] = {})
      BY <2>1 DEF FlowInv, SourceOK
    <3>. QED
      BY <1>2, <2>1, <3>2, <3>3
  <2>2. CASE u = t /\ frame'[t] = f
    BY <1>1, <1>3, <2>2
  <2>3. (pc'[u] = pc[u] /\ frame'[u] = frame[u]) \/ (u = t /\ frame'[t] = f)
    <3>1. u \in Threads
      BY ThreadFacts
    <3>. QED
      BY <1>1, <1>5, <3>1
  <2>. QED
    BY <2>1, <2>2, <2>3
<1>. QED
  BY <1>1, <1>2, <1>7, <1>8, CreateShrinks, Shrink

LEMMA QuietShrinks ==
  ASSUME FlowInv, Quiet
  PROVE  Shrinks
<1>0. BeforeMark \subseteq HoldsFrame
  BY DEF BeforeMark, HoldsFrame
<1>. QED
  BY <1>0 DEF Quiet, Shrinks, HeldBy, PendingIn

LEMMA QuietStep ==
  ASSUME FlowInv, TypeInv', Quiet
  PROVE  FlowInv'
<1>. USE DEF Quiet
<1>1. PlaceOK'
  BY ThreadFacts DEF FlowInv, PlaceOK
<1>2. SourceOK'
  BY ThreadFacts DEF FlowInv, SourceOK, BeforeMark, HoldsFrame
<1>3. \A s \in Streams : sent'[s] >= sent[s]
  BY ConfigAssumption DEF FlowInv, TypeInv, TypeOK
<1>. QED
  BY <1>1, <1>2, <1>3, QuietShrinks, Shrink

LEMMA InitFlow == Init => FlowInv
<1> SUFFICES ASSUME Init PROVE FlowInv
  OBVIOUS
<1>1. TypeInv
  BY InitTypeInv
<1>2. NoModule \notin NonHeads
  BY GraphAssumption DEF NonHeads
<1>3. \A t \in Threads, n \in NonHeads, f \in Frames : ~HeldBy(t, n, f) /\ ~PendingIn(t, n, f)
  BY <1>2 DEF Init, HeldBy, PendingIn, BeforeMark
<1>4. \A c \in Conveyors, n \in NonHeads, f \in Frames : \A i \in DOMAIN conveyor[c] : ~QueuedAt(c, i, n, f)
  BY DEF Init, QueuedAt
<1>5. CopiesOK
  BY <1>3, <1>4 DEF CopiesOK
<1>6. PlaceOK /\ SourceOK
  BY ThreadFacts DEF Init, PlaceOK, SourceOK, HoldsFrame
<1>7. MaskOK
  BY DEF Init, MaskOK
<1>8. NoDuplicate
  BY <1>3, <1>4 DEF Init, NoDuplicate, HasCopy
<1>. QED
  BY <1>1, <1>5, <1>6, <1>7, <1>8 DEF FlowInv

\* What a step does to the frames on their way.
LEMMA StepKinds ==
  ASSUME FlowInv, [Next]_vars
  PROVE  \/ Quiet
         \/ \E t \in Threads : ThreadStep(t) \/ AddSource(t) \/ CreateFrame(t)
<1>. USE DEF frameVars, threadVars, histVars
<1>1. ASSUME NEW m, StartConnector(m) \/ StopConnector(m) PROVE Quiet
  BY <1>1 DEF StartConnector, StopConnector, Quiet
<1>2. ASSUME NEW m, EmptyDataQueue(m) PROVE Quiet
  BY <1>2 DEF EmptyDataQueue, Quiet
<1>3. ASSUME NEW m, CloseModule(m) PROVE Quiet
  BY <1>3 DEF CloseModule, HoldsFrame, Quiet
<1>4. CASE StartThreads
  BY <1>4 DEF StartThreads, HoldsFrame, Quiet
<1>5. CASE StopRunning \/ JoinThreads \/ CloseDone \/ StartOpen \/ StartFail \/ StopCall
  <2>1. UNCHANGED <<threadVars, frameVars, histVars, conveyor>>
    BY <1>5 DEF StopRunning, JoinThreads, CloseDone, StartOpen, StartFail, StopCall
  <2>. QED
    BY <2>1 DEF Quiet
<1>6. ASSUME NEW s \in Streams, RemoveStream(s) PROVE Quiet
  BY <1>6 DEF RemoveStream, Quiet
<1>7. ASSUME NEW s \in Streams, UnremoveStream(s) PROVE Quiet
  BY <1>7 DEF UnremoveStream, FlowInv, TypeInv, TypeOK, HoldsFrame, Quiet
<1>8. CASE UNCHANGED vars
  BY <1>8 DEF vars, Quiet
<1>. QED
  BY <1>1, <1>2, <1>3, <1>4, <1>5, <1>6, <1>7, <1>8 DEF Next, ControlStep

LEMMA StepForm ==
  ASSUME FlowInv, [Next]_vars
  PROVE  \/ Quiet
         \/ \E t \in Threads : Local(t) \/ Pop(t) \/ Push(t) \/ MarkPassed(t) \/ CreateFrame(t)
BY StepKinds, LocalForm DEF ThreadStep

LEMMA StepFlow == FlowInv /\ [Next]_vars => FlowInv'
<1> SUFFICES ASSUME FlowInv, [Next]_vars PROVE FlowInv'
  OBVIOUS
<1>1. TypeInv'
  BY StepTypeInv DEF FlowInv
<1>. QED
  BY <1>1, StepForm, QuietStep, LocalStep, PopStep, PushStep, MarkStep, CreateFrameStep

\* The mask protocol, where it counts: at a join the last parent to mark a
\* frame, and nobody else, pushes it, so no module is given a frame twice.
THEOREM NoDuplicates == Spec => []NoDuplicate
<1>1. FlowInv => NoDuplicate
  BY DEF FlowInv
<1>. QED
  BY <1>1, InitFlow, StepFlow, PTL DEF Spec

\* A module that works on a frame does so after all its parents marked it.
THEOREM ParentsAlwaysFirst == Spec => []ParentsFirst
<1>1. ASSUME FlowInv PROVE ParentsFirst
  <2> SUFFICES ASSUME NEW t \in TaskThreads, pc[t] \in BeforeMark
               PROVE  Parents(ModuleOf(t)) \subseteq mask[frame[t]]
    BY DEF ParentsFirst
  <2>1. frame[t] \in Frames /\ t \in Threads /\ ModuleOf(t) \in NonHeads
    BY <1>1, ThreadFacts DEF FlowInv, TypeInv, ThreadOK, BeforeMark, HoldsFrame
  <2>2. HeldBy(t, ModuleOf(t), frame[t])
    BY DEF HeldBy
  <2>. QED
    BY <1>1, <2>1, <2>2 DEF FlowInv, CopiesOK, Good
<1>. QED
  BY <1>1, InitFlow, StepFlow, PTL DEF Spec

(***************************************************************************)
(* No frame is lost but by the steps that drop one: under the mask         *)
(* protocol a frame could also get stuck, when the last parent to mark it  *)
(* does not see that it is the last.                                       *)
(***************************************************************************)

\* A step that drops f: a stopped connector, a Process that fails or keeps the frame
\* to itself, a pipeline that does not run, an invalid frame, a removed stream.
Losing(f) ==
  \/ \E t \in Threads : frame[t] = f /\
       \/ AfterPop(t) /\ stopped[ModuleOf(t)]
       \/ Process(t) /\ pc'[t] = Home(t)
       \/ ProvideData(t) /\ ~running
       \/ CheckFrame(t) /\ (f \in invalid \/ (f[1] \in removed /\ ~IsEos(f)))
       \/ ChooseTarget(t) /\ pc'[t] # "try"
       \/ RetryPush(t) /\ stopped[tgt[t]]
  \/ \E c \in Conveyors : EmptyDataQueue(c[1]) /\ \E i \in DOMAIN conveyor[c] : conveyor[c][i] = f

\* Where a frame has to go it is on its way: the converse of CopiesOK.
ComingOK(f) == \A n \in NonHeads : Good(n, f) => HasCopy(n, f)

\* The source's module has marked, and taken out what it cannot reach.
RouteOK(f) ==
  mask[f] # {} => /\ SourceOf[f[1]] \in mask[f]
                  /\ \A m \in Modules : m \notin mask[f] => m \in Route(SourceOf[f[1]])

\* Who marks last goes on to OnPassThrough.
PassOK(f) ==
  mask[f] = Modules => \/ \E m \in Modules : Finished(m, f)
                       \/ \E t \in Threads : pc[t] = "pass" /\ frame[t] = f

KeptInv(f) == FlowInv /\ ComingOK(f) /\ RouteOK(f) /\ PassOK(f)

\* A frame that its source's module has marked is with a thread, in a conveyor, or done.
Kept(f) == mask[f] # {} => InFlight(f) \/ \E m \in Modules : Finished(m, f)

\* Along a route every module but the first comes after another one of it.
LEMMA RouteParent ==
  ASSUME NEW h \in Modules, NEW n \in Route(h), n # h
  PROVE  \E p \in Route(h) : p \in Parents(n)
<1>. SUFFICES ASSUME \A p \in Route(h) : p \notin Parents(n) PROVE FALSE
  OBVIOUS
<1>. DEFINE S == Route(h) \ {n}
<1>1. Route(h) \subseteq Modules
  BY DEF Route
<1>2. h \in S /\ S \in SUBSET Modules
  BY <1>1, RouteClosed
<1>3. \A p \in S : NextNodes[p] \subseteq S
  BY <1>1, RouteClosed DEF Parents
<1>4. n \in S
  BY <1>2, <1>3 DEF Route
<1>. QED
  BY <1>4

LEMMA KeptInvKept ==
  ASSUME NEW f \in Frames, KeptInv(f)
  PROVE  Kept(f)
<1>. SUFFICES ASSUME mask[f] # {} PROVE InFlight(f) \/ \E m \in Modules : Finished(m, f)
  BY DEF Kept
<1>. DEFINE h == SourceOf[f[1]]
            S == Modules \ mask[f]
<1>0. h \in Modules /\ mask[f] \subseteq Modules
  BY FrameFacts DEF KeptInv, FlowInv, TypeInv, TypeOK
<1>1. CASE mask[f] = Modules
  BY <1>1 DEF KeptInv, PassOK, InFlight
<1>2. CASE mask[f] # Modules
  <2>1. S \in (SUBSET Modules) \ {{}}
    BY <1>0, <1>2
  <2>2. PICK n \in S : Parents(n) \cap S = {}
    BY <2>1, GraphAssumption
  <2>3. Parents(n) \subseteq mask[f]
    BY <2>2 DEF Parents
  <2>4. n \in Modules /\ n \notin mask[f] /\ n \in Route(h) /\ n # h
    BY <2>2 DEF KeptInv, RouteOK
  <2>5. n \in NonHeads
    <3>1. Parents(n) # {}
      BY <1>0, <2>4, RouteParent
    <3>. QED
      BY <2>4, <3>1 DEF NonHeads, Heads
  <2>6. HasCopy(n, f)
    BY <2>3, <2>4, <2>5 DEF KeptInv, ComingOK, Good
  <2>. QED
    BY <2>6 DEF HasCopy, HeldBy, PendingIn, QueuedAt, InFlight
<1>. QED
  BY <1>1, <1>2

CopyKept(f) == \A n \in NonHeads : HasCopy(n, f) => n \in mask'[f] \/ HasCopy(n, f)'

\* Where only t moves it is enough to look at what t has.
LEMMA OnlyThread ==
  ASSUME NEW t \in Threads, NEW f, UNCHANGED conveyor,
         \A u \in Threads \ {t} :
           pc'[u] = pc[u] /\ frame'[u] = frame[u] /\ todo'[u] = todo[u] /\ tgt'[u] = tgt[u],
         \A n \in NonHeads : HeldBy(t, n, f) \/ PendingIn(t, n, f) =>
                               n \in mask'[f] \/ HeldBy(t, n, f)' \/ PendingIn(t, n, f)'
  PROVE  CopyKept(f)
<1>. SUFFICES ASSUME NEW n \in NonHeads, HasCopy(n, f) PROVE n \in mask'[f] \/ HasCopy(n, f)'
  BY DEF CopyKept
<1>1. ASSUME NEW u \in Threads, HeldBy(u, n, f) \/ PendingIn(u, n, f)
      PROVE  n \in mask'[f] \/ HeldBy(u, n, f)' \/ PendingIn(u, n, f)'
  <2>1. CASE u = t
    BY <1>1, <2>1
  <2>2. CASE u # t
    BY <1>1, <2>2 DEF HeldBy, PendingIn
  <2>. QED
    BY <2>1, <2>2
<1>2. ASSUME NEW c \in Conveyors, NEW i \in DOMAIN conveyor[c], QueuedAt(c, i, n, f)
      PROVE  HasCopy(n, f)'
  BY <1>2 DEF QueuedAt, HasCopy
<1>. QED
  BY <1>1, <1>2 DEF HasCopy

LEMMA IsFrame ==
  ASSUME NEW f \in Frames
  PROVE  f # NoFrame
BY DEF Frames, NoFrame

\* What the variables of a thread say of its copies.
LEMMA ThreadCopies ==
  ASSUME FlowInv, NEW t \in Threads, NEW f \in Frames, NEW n \in NonHeads
  PROVE  /\ HeldBy(t, n, f) => frame[t] = f /\ pc[t] \in BeforeMark /\ t \in TaskThreads /\ ModuleOf(t) = n
         /\ PendingIn(t, n, f) => frame[t] = f /\ pc[t] \in {"push", "try", "retry"}
         /\ PendingIn(t, n, f) /\ pc[t] = "push" => n \in todo[t]
         /\ f # NoFrame
<1>1. /\ pc[t] \notin {"push", "try", "retry"} => todo[t] = {}
      /\ pc[t] \notin {"try", "retry"} => tgt[t] = NoModule
      /\ NoModule \notin NonHeads
  BY GraphAssumption DEF FlowInv, TypeInv, ThreadOK, NonHeads
<1>. QED
  BY <1>1, IsFrame DEF HeldBy, PendingIn

LEMMA LocalKeeps ==
  ASSUME FlowInv, NEW f \in Frames, ~Losing(f), NEW t \in Threads,
         \/ LoopTop(t) \/ PopTimeout(t) \/ AfterPop(t) \/ Process(t) \/ ProvideData(t)
         \/ CheckFrame(t) \/ OnPassThrough(t) \/ ChooseTarget(t) \/ RetryPush(t) \/ AddSource(t)
  PROVE  CopyKept(f)
<1>0. Local(t)
  BY LocalForm
<1>1. /\ pc \in [Threads -> ThreadLabels] /\ DOMAIN frame = Threads
      /\ DOMAIN todo = Threads /\ DOMAIN tgt = Threads
  BY DEF FlowInv, TypeInv, TypeOK
<1>. DEFINE Stays == \A n \in NonHeads : HeldBy(t, n, f) \/ PendingIn(t, n, f) =>
                       HeldBy(t, n, f)' \/ PendingIn(t, n, f)'
<1>s. SUFFICES Stays
  BY <1>0, OnlyThread DEF Local
<1>2. CASE frame[t] # f \/ pc[t] \in {"off", "top", "pop", "idle", "pass"}
  BY <1>2, ThreadCopies DEF BeforeMark
<1>3. ASSUME NEW l \in BeforeMark, Goto(t, l), pc[t] \in BeforeMark PROVE Stays
  <2>1. pc'[t] = l /\ frame'[t] = frame[t]
    BY <1>1, <1>3 DEF Goto
  <2>. QED
    BY <1>3, <2>1, ThreadCopies DEF HeldBy, BeforeMark
<1>. HIDE DEF Stays
<1>4. CASE frame[t] = f /\ AfterPop(t)
  BY <1>3, <1>4 DEF AfterPop, Losing, BeforeMark
<1>5. CASE frame[t] = f /\ Process(t)
  <2>1. ~Return(t)
    BY <1>1, <1>5 DEF Return, Losing
  <2>2. pc[t] = "process" /\ Goto(t, "provide")
    BY <1>5, <2>1 DEF Process
  <2>. QED
    BY <1>3, <2>2 DEF BeforeMark
<1>6. CASE frame[t] = f /\ ProvideData(t)
  BY <1>3, <1>6 DEF ProvideData, Losing, BeforeMark
<1>7. CASE frame[t] = f /\ CheckFrame(t)
  BY <1>3, <1>7 DEF CheckFrame, Losing, BeforeMark
<1>8. CASE frame[t] = f /\ ChooseTarget(t)
  <2>1. pc[t] = "push" /\ pc'[t] = "try"
    BY <1>8 DEF ChooseTarget, Losing
  <2>2. PICK m \in todo[t] : todo' = [todo EXCEPT ![t] = @ \ {m}]
                             /\ tgt' = [tgt EXCEPT ![t] = m] /\ UNCHANGED frame
    <3>1. Home(t) # "try"
      BY DEF Home
    <3>2. PICK m \in todo[t] :
            /\ todo' = [todo EXCEPT ![t] = @ \ {m}]
            /\ \/ pc' = [pc EXCEPT ![t] = Home(t)]
               \/ UNCHANGED pc
               \/ tgt' = [tgt EXCEPT ![t] = m] /\ UNCHANGED frame
      BY <1>8 DEF ChooseTarget
    <3>3. pc' # [pc EXCEPT ![t] = Home(t)] /\ pc' # pc
      BY <1>1, <2>1, <3>1
    <3>. QED
      BY <3>2, <3>3
  <2>3. todo'[t] = todo[t] \ {m} /\ tgt'[t] = m /\ frame'[t] = f
    BY <1>1, <1>8, <2>2
  <2>4. ASSUME NEW n \in NonHeads, HeldBy(t, n, f) \/ PendingIn(t, n, f) PROVE PendingIn(t, n, f)'
    <3>1. n \in todo[t]
      BY <2>1, <2>4, ThreadCopies DEF BeforeMark
    <3>. QED
      BY <2>3, <3>1 DEF PendingIn
  <2>. QED
    BY <2>4 DEF Stays
<1>9. CASE frame[t] = f /\ RetryPush(t)
  <2>1. pc[t] = "retry" /\ Goto(t, "try")
    BY <1>9 DEF RetryPush, Losing
  <2>2. UNCHANGED <<frame, todo, tgt>>
    BY <2>1 DEF Goto
  <2>. QED
    BY <2>1, <2>2, ThreadCopies DEF PendingIn, BeforeMark, Stays
<1>10. CASE LoopTop(t) \/ PopTimeout(t) \/ AddSource(t) \/ OnPassThrough(t)
  BY <1>2, <1>10 DEF LoopTop, PopTimeout, AddSource, OnPassThrough
<1>. QED
  BY <1>2, <1>4, <1>5, <1>6, <1>7, <1>8, <1>9, <1>10

LEMMA PopKeeps ==
  ASSUME FlowInv, NEW f \in Frames, NEW t \in Threads, Pop(t)
  PROVE  CopyKept(f)
<1>. SUFFICES ASSUME NEW n \in NonHeads, HasCopy(n, f) PROVE HasCopy(n, f)'
  BY DEF CopyKept
<1>1. /\ t \in Conveyors /\ t \in TaskThreads /\ pc[t] = "pop" /\ ModuleOf(t) = t[1]
      /\ conveyor \in [Conveyors -> Seq(Frames)] /\ conveyor[t] # <<>>
      /\ conveyor' = [conveyor EXCEPT ![t] = Tail(@)]
      /\ pc' = [pc EXCEPT ![t] = "popped"] /\ frame' = [frame EXCEPT ![t] = Head(conveyor[t])]
      /\ UNCHANGED <<todo, tgt>> /\ DOMAIN pc = Threads /\ DOMAIN frame = Threads
  BY DEF Pop, TaskThreads, ModuleOf, FlowInv, TypeInv, TypeOK
<1>2. ASSUME NEW u \in Threads, HeldBy(u, n, f) \/ PendingIn(u, n, f)
      PROVE  HeldBy(u, n, f)' \/ PendingIn(u, n, f)'
  <2>1. u # t
    BY <1>1, <1>2, ThreadCopies DEF BeforeMark
  <2>. QED
    BY <1>1, <1>2, <2>1 DEF HeldBy, PendingIn
<1>3. ASSUME NEW c \in Conveyors, NEW i \in DOMAIN conveyor[c], QueuedAt(c, i, n, f)
      PROVE  HasCopy(n, f)'
  <2>1. CASE c # t
    BY <1>1, <1>3, <2>1 DEF QueuedAt, HasCopy
  <2>2. CASE c = t /\ i = 1
    <3>1. pc'[t] = "popped" /\ frame'[t] = f
      BY <1>1, <1>3, <2>2 DEF QueuedAt
    <3>2. HeldBy(t, n, f)'
      BY <1>1, <1>3, <2>2, <3>1 DEF QueuedAt, HeldBy, BeforeMark
    <3>. QED
      BY <3>2 DEF HasCopy
  <2>3. CASE c = t /\ i # 1
    <3>1. conveyor[t] \in Seq(Frames) /\ conveyor'[t] = Tail(conveyor[t])
      BY <1>1
    <3>2. i - 1 \in DOMAIN conveyor'[t] /\ conveyor'[t][i - 1] = conveyor[t][i]
      BY <1>1, <2>3, <3>1
    <3>3. QueuedAt(t, i - 1, n, f)'
      BY <1>3, <2>3, <3>2 DEF QueuedAt
    <3>. QED
      BY <1>1, <3>2, <3>3 DEF HasCopy
  <2>. QED
    BY <2>1, <2>2, <2>3
<1>. QED
  BY <1>2, <1>3 DEF HasCopy

LEMMA PushKeeps ==
  ASSUME FlowInv, NEW f \in Frames, NEW t \in Threads, Push(t)
  PROVE  CopyKept(f)
<1>0. PICK m, g, c : m = tgt[t] /\ g = frame[t] /\ c = ConveyorFor(m, g)
  OBVIOUS
<1>1. /\ pc[t] = "try" /\ m \in NonHeads /\ g \in Frames /\ c \in Conveyors
      /\ conveyor \in [Conveyors -> Seq(Frames)]
      /\ DOMAIN pc = Threads /\ DOMAIN frame = Threads /\ DOMAIN todo = Threads /\ DOMAIN tgt = Threads
  <2>1. TypeOK /\ ThreadOK
    BY DEF FlowInv, TypeInv
  <2>2. pc[t] = "try" /\ m \in NonHeads /\ g \in Frames
    BY <1>0, <2>1 DEF Push, ThreadOK, HoldsFrame
  <2>. QED
    BY <1>0, <2>1, <2>2, ConveyorForType DEF TypeOK
<1>2. c[1] = m
  BY <1>0 DEF ConveyorFor
<1>3. CASE Goto(t, "retry") /\ UNCHANGED conveyor
  <2>1. UNCHANGED <<frame, todo, tgt>> /\ \A u \in Threads \ {t} : pc'[u] = pc[u]
    BY <1>1, <1>3 DEF Goto
  <2>2. \A n \in NonHeads : HeldBy(t, n, f) \/ PendingIn(t, n, f) => PendingIn(t, n, f)'
    BY <1>0, <1>1, <2>1, ThreadCopies DEF PendingIn, BeforeMark
  <2>. QED
    BY <1>3, <2>1, <2>2, OnlyThread
<1>4. CASE conveyor' = [conveyor EXCEPT ![c] = Append(@, g)] /\ NextTarget(t)
  <2>. SUFFICES ASSUME NEW n \in NonHeads, HasCopy(n, f) PROVE HasCopy(n, f)'
    BY DEF CopyKept
  <2>1. conveyor[c] \in Seq(Frames) /\ conveyor'[c] = Append(conveyor[c], g)
        /\ \A d \in Conveyors \ {c} : conveyor'[d] = conveyor[d]
    BY <1>1, <1>4
  <2>2. /\ Len(conveyor[c]) + 1 \in DOMAIN conveyor'[c] /\ conveyor'[c][Len(conveyor[c]) + 1] = g
        /\ \A i \in DOMAIN conveyor[c] : i \in DOMAIN conveyor'[c] /\ conveyor'[c][i] = conveyor[c][i]
    BY <1>1, <2>1
  <2>3. ASSUME NEW d \in Conveyors, NEW i \in DOMAIN conveyor[d], QueuedAt(d, i, n, f)
        PROVE  HasCopy(n, f)'
    <3>1. i \in DOMAIN conveyor'[d] /\ QueuedAt(d, i, n, f)'
      BY <2>1, <2>2, <2>3 DEF QueuedAt
    <3>. QED
      BY <3>1 DEF HasCopy
  <2>4. ASSUME n = m, f = g PROVE HasCopy(n, f)'
    <3>1. PICK k \in DOMAIN conveyor'[c] : conveyor'[c][k] = g
      BY <2>2
    <3>2. QueuedAt(c, k, n, f)'
      BY <1>2, <2>4, <3>1 DEF QueuedAt
    <3>. QED
      BY <1>1, <3>1, <3>2 DEF HasCopy
  <2>5. ASSUME n \in todo[t], f = g PROVE PendingIn(t, n, f)'
    BY <1>0, <1>1, <1>4, <2>5 DEF NextTarget, PendingIn
  <2>6. ASSUME NEW u \in Threads \ {t}, HeldBy(u, n, f) \/ PendingIn(u, n, f)
        PROVE  HeldBy(u, n, f)' \/ PendingIn(u, n, f)'
    <3>1. pc'[u] = pc[u] /\ frame'[u] = frame[u] /\ todo'[u] = todo[u] /\ tgt'[u] = tgt[u]
      BY <1>1, <1>4, <2>6 DEF NextTarget, Return
    <3>. QED
      BY <2>6, <3>1 DEF HeldBy, PendingIn
  <2>7. HeldBy(t, n, f) \/ PendingIn(t, n, f) => f = g /\ (n = m \/ n \in todo[t])
    BY <1>0, <1>1, ThreadCopies DEF PendingIn, BeforeMark
  <2>. QED
    BY <2>3, <2>4, <2>5, <2>6, <2>7 DEF HasCopy
<1>. QED
  BY <1>0, <1>3, <1>4 DEF Push

LEMMA MarkKeeps ==
  ASSUME FlowInv, NEW f \in Frames, NEW t \in Threads, MarkPassed(t)
  PROVE  CopyKept(f)
<1>1. /\ pc[t] = "mark" /\ UNCHANGED conveyor
      /\ mask' = [mask EXCEPT ![frame[t]] = Marked(t)] /\ mask \in [Frames -> SUBSET Modules]
  BY DEF MarkPassed, FlowInv, TypeInv, TypeOK
<1>2. \A u \in Threads \ {t} :
        pc'[u] = pc[u] /\ frame'[u] = frame[u] /\ todo'[u] = todo[u] /\ tgt'[u] = tgt[u]
  BY DEF MarkPassed, Goto, Return, FlowInv, TypeInv, TypeOK
<1>3. ASSUME NEW n \in NonHeads, HeldBy(t, n, f) \/ PendingIn(t, n, f) PROVE n \in mask'[f]
  <2>1. frame[t] = f /\ ModuleOf(t) = n
    BY <1>1, <1>3, ThreadCopies DEF BeforeMark
  <2>. QED
    BY <1>1, <2>1 DEF Marked
<1>. QED
  BY <1>1, <1>2, <1>3, OnlyThread

LEMMA CreateKeeps ==
  ASSUME FlowInv, NEW f \in Frames, NEW t \in Threads, CreateFrame(t)
  PROVE  CopyKept(f)
<1>1. pc[t] = "idle" /\ UNCHANGED conveyor
  BY DEF CreateFrame
<1>2. \A u \in Threads \ {t} :
        pc'[u] = pc[u] /\ frame'[u] = frame[u] /\ todo'[u] = todo[u] /\ tgt'[u] = tgt[u]
  BY DEF CreateFrame, threadVars, FlowInv, TypeInv, TypeOK
<1>3. \A n \in NonHeads : ~HeldBy(t, n, f) /\ ~PendingIn(t, n, f)
  BY <1>1, ThreadCopies DEF BeforeMark
<1>. QED
  BY <1>1, <1>2, <1>3, OnlyThread

\* A thread that holds a frame before and after a quiet step is where it was.
LEMMA QuietThread ==
  ASSUME TypeInv', Quiet, NEW t \in Threads, frame[t] \in Frames
  PROVE  pc'[t] = pc[t] /\ frame'[t] = frame[t]
<1>1. frame[t] # NoFrame
  BY IsFrame
<1>2. frame'[t] = frame[t] /\ (pc'[t] = pc[t] \/ pc'[t] \notin HoldsFrame)
  BY DEF Quiet
<1>3. pc'[t] \notin HoldsFrame => frame'[t] = NoFrame
  BY DEF TypeInv, ThreadOK
<1>. QED
  BY <1>1, <1>2, <1>3

LEMMA QuietKeeps ==
  ASSUME FlowInv, TypeInv', NEW f \in Frames, ~Losing(f), Quiet
  PROVE  CopyKept(f)
<1>. SUFFICES ASSUME NEW n \in NonHeads, HasCopy(n, f) PROVE HasCopy(n, f)'
  BY DEF CopyKept
<1>1. ASSUME NEW u \in Threads, HeldBy(u, n, f) \/ PendingIn(u, n, f)
      PROVE  HeldBy(u, n, f)' \/ PendingIn(u, n, f)'
  <2>1. pc'[u] = pc[u] /\ frame'[u] = frame[u]
    BY <1>1, ThreadCopies, QuietThread
  <2>. QED
    BY <1>1, <2>1 DEF HeldBy, PendingIn, Quiet
<1>2. ASSUME NEW c \in Conveyors, NEW i \in DOMAIN conveyor[c], QueuedAt(c, i, n, f)
      PROVE  HasCopy(n, f)'
  <2>1. conveyor'[c] = conveyor[c]
    <3>1. CASE UNCHANGED conveyor
      BY <3>1
    <3>2. ASSUME NEW m, EmptyDataQueue(m), c[1] # m PROVE conveyor'[c] = conveyor[c]
      BY <3>2 DEF EmptyDataQueue
    <3>3. ~EmptyDataQueue(c[1])
      BY <1>2 DEF Losing, QueuedAt
    <3>. QED
      BY <3>1, <3>2, <3>3 DEF Quiet
  <2>. QED
    BY <1>2, <2>1 DEF QueuedAt, HasCopy
<1>. QED
  BY <1>1, <1>2 DEF HasCopy

LEMMA StepKeeps ==
  ASSUME FlowInv, TypeInv', [Next]_vars, NEW f \in Frames, ~Losing(f)
  PROVE  CopyKept(f)
BY StepKinds, LocalKeeps, PopKeeps, PushKeeps, MarkKeeps, CreateKeeps, QuietKeeps DEF ThreadStep

\* Only MarkPassed changes a mask, that of the frame its thread holds.
LEMMA MaskSteps ==
  ASSUME FlowInv, [Next]_vars
  PROVE  UNCHANGED mask \/ \E t \in Threads : MarkPassed(t)
BY StepKinds DEF ThreadStep, LoopTop, Pop, PopTimeout, AfterPop, Process, ProvideData, CheckFrame,
                 OnPassThrough, ChooseTarget, Push, RetryPush, AddSource, CreateFrame, Quiet, frameVars

LEMMA ReportedStays ==
  ASSUME FlowInv, [Next]_vars
  PROVE  reported \subseteq reported'
<1>1. ASSUME NEW k, NEW t, NEW f, Report(k, t, f) PROVE reported \subseteq reported'
  BY <1>1 DEF Report
<1>2. ASSUME NEW t \in Threads, LoopTop(t) \/ Pop(t) \/ PopTimeout(t) \/ AfterPop(t) \/ ProvideData(t)
                                \/ MarkPassed(t) \/ ChooseTarget(t) \/ Push(t) \/ RetryPush(t)
                                \/ AddSource(t) \/ CreateFrame(t)
      PROVE  UNCHANGED reported
  BY <1>2 DEF LoopTop, Pop, PopTimeout, AfterPop, ProvideData, MarkPassed, ChooseTarget, Push,
              RetryPush, AddSource, CreateFrame, histVars
<1>3. ASSUME NEW t \in Threads, Process(t) \/ CheckFrame(t) \/ OnPassThrough(t)
      PROVE  reported \subseteq reported'
  BY <1>1, <1>3 DEF Process, CheckFrame, OnPassThrough
<1>. QED
  BY <1>2, <1>3, StepKinds DEF ThreadStep, Quiet

\* A thread at OnPassThrough stays there until it has reported.
LEMMA PassThread ==
  ASSUME FlowInv, TypeInv', [Next]_vars, NEW t \in Threads, pc[t] = "pass"
  PROVE  (pc'[t] = "pass" /\ frame'[t] = frame[t]) \/ OnPassThrough(t)
<1>1. CASE Quiet
  <2>1. frame[t] \in Frames
    BY DEF FlowInv, TypeInv, ThreadOK, HoldsFrame
  <2>. QED
    BY <1>1, <2>1, QuietThread
<1>2. ASSUME NEW u \in Threads, ThreadStep(u) \/ AddSource(u) \/ CreateFrame(u), u # t
      PROVE  pc'[t] = "pass" /\ frame'[t] = frame[t]
  <2>1. CASE Local(u)
    BY <1>2, <2>1 DEF Local
  <2>2. CASE Pop(u) \/ Push(u) \/ MarkPassed(u) \/ CreateFrame(u)
    BY <1>2, <2>2 DEF Pop, Push, NextTarget, MarkPassed, Return, Goto, CreateFrame, threadVars,
                      FlowInv, TypeInv, TypeOK
  <2>. QED
    BY <1>2, <2>1, <2>2, LocalForm DEF ThreadStep
<1>3. CASE ThreadStep(t) \/ AddSource(t) \/ CreateFrame(t)
  BY <1>3 DEF ThreadStep, LoopTop, Pop, PopTimeout, AfterPop, Process, ProvideData, CheckFrame,
              MarkPassed, ChooseTarget, Push, RetryPush, AddSource, CreateFrame
<1>. QED
  BY <1>1, <1>2, <1>3, StepKinds

LEMMA MarkedMask ==
  ASSUME FlowInv, NEW t \in Threads, MarkPassed(t)
  PROVE  /\ frame[t] \in Frames /\ ModuleOf(t) \in Modules /\ mask'[frame[t]] = Marked(t)
         /\ \A g \in Frames \ {frame[t]} : mask'[g] = mask[g]
<1>1. mask \in [Frames -> SUBSET Modules] /\ mask' = [mask EXCEPT ![frame[t]] = Marked(t)]
  BY DEF MarkPassed, FlowInv, TypeInv, TypeOK
<1>2. frame[t] \in Frames /\ ModuleOf(t) \in Modules
  BY BeforeMarking DEF MarkPassed
<1>. QED
  BY <1>1, <1>2

LEMMA PassStep ==
  ASSUME FlowInv, TypeInv', [Next]_vars, NEW f \in Frames, PassOK(f)
  PROVE  PassOK(f)'
<1>. SUFFICES ASSUME mask'[f] = Modules
              PROVE  \/ \E m \in Modules : Finished(m, f)'
                     \/ \E t \in Threads : pc'[t] = "pass" /\ frame'[t] = f
  BY DEF PassOK
<1>1. ASSUME mask[f] = Modules
      PROVE  \/ \E m \in Modules : Finished(m, f)'
             \/ \E t \in Threads : pc'[t] = "pass" /\ frame'[t] = f
  <2>1. ASSUME NEW m \in Modules, Finished(m, f) PROVE Finished(m, f)'
    BY <2>1, ReportedStays DEF Finished
  <2>2. ASSUME NEW t \in Threads, pc[t] = "pass", frame[t] = f
        PROVE  (pc'[t] = "pass" /\ frame'[t] = f) \/ \E m \in Modules : Finished(m, f)'
    <3>1. CASE OnPassThrough(t)
      <4>1. ModuleOf(t) \in Modules
        BY ThreadFacts
      <4>2. Finished(ModuleOf(t), f)'
        BY <2>2, <3>1 DEF OnPassThrough, Report, Finished
      <4>. QED
        BY <4>1, <4>2
    <3>. QED
      BY <2>2, <3>1, PassThread
  <2>. QED
    BY <1>1, <2>1, <2>2 DEF PassOK
<1>2. ASSUME NEW t \in Threads, MarkPassed(t), f = frame[t]
      PROVE  pc'[t] = "pass" /\ frame'[t] = f
  <2>1. Marked(t) = Modules
    BY <1>2, MarkedMask
  <2>. QED
    BY <1>2, <2>1 DEF MarkPassed, Goto, FlowInv, TypeInv, TypeOK
<1>3. ASSUME NEW t \in Threads, MarkPassed(t), f # frame[t] PROVE mask'[f] = mask[f]
  BY <1>3, MarkedMask
<1>. QED
  BY <1>1, <1>2, <1>3, MaskSteps

LEMMA RouteStep ==
  ASSUME FlowInv, [Next]_vars, NEW f \in Frames, RouteOK(f)
  PROVE  RouteOK(f)'
<1>1. CASE mask'[f] = mask[f]
  BY <1>1 DEF RouteOK
<1>2. ASSUME NEW t \in Threads, MarkPassed(t), f = frame[t] PROVE RouteOK(f)'
  <2>1. mask'[f] = Marked(t)
    BY <1>2, MarkedMask
  <2>2. CASE ModuleOf(t) \in NonHeads
    <3>1. mask[f] # {} /\ mask[f] \subseteq Marked(t)
      BY <1>2, <2>2, BeforeMarking DEF MarkPassed
    <3>. QED
      BY <2>1, <3>1 DEF RouteOK
  <2>3. CASE ModuleOf(t) \notin NonHeads
    <3>1. t \in SourceThreads
      BY <1>2, <2>3, BeforeMarking DEF MarkPassed
    <3>2. f[1] = t[2]
      BY <1>2, <3>1 DEF MarkPassed, FlowInv, TypeInv, ThreadOK, HoldsFrame
    <3>3. ModuleOf(t) = SourceOf[f[1]] /\ ModuleOf(t) \in Heads
      BY <3>1, <3>2, ThreadFacts
    <3>. QED
      BY <2>1, <3>3 DEF Marked, RouteOK
  <2>. QED
    BY <2>2, <2>3
<1>. QED
  BY <1>1, <1>2, MarkedMask, MaskSteps

LEMMA ComingStep ==
  ASSUME FlowInv, TypeInv', [Next]_vars, NEW f \in Frames, ComingOK(f), ~Losing(f)
  PROVE  ComingOK(f)'
<1>. SUFFICES ASSUME NEW n \in NonHeads, Good(n, f)' PROVE HasCopy(n, f)'
  BY DEF ComingOK
<1>1. n \notin mask'[f] /\ Parents(n) \subseteq mask'[f] /\ n \in Route(SourceOf[f[1]])
  BY DEF Good
<1>2. ASSUME Good(n, f) PROVE HasCopy(n, f)'
  BY <1>1, <1>2, StepKeeps DEF ComingOK, CopyKept
<1>3. CASE mask'[f] = mask[f]
  BY <1>1, <1>2, <1>3 DEF Good
<1>4. ASSUME NEW t \in Threads, MarkPassed(t), f = frame[t], ~Good(n, f) PROVE HasCopy(n, f)'
  <2>. DEFINE m == ModuleOf(t)
  <2>1. mask'[f] = Marked(t) /\ m \in Modules
    BY <1>4, MarkedMask
  <2>2. /\ mask[f] \subseteq Marked(t) /\ \A p \in Marked(t) \cap Route(SourceOf[f[1]]) : p \in mask[f] \/ p = m
        /\ m \in NonHeads => Marked(t) = mask[f] \cup {m}
        /\ m \notin NonHeads => m = SourceOf[f[1]] /\ mask[f] = {}
    <3>1. /\ mask[f] \subseteq Marked(t)
          /\ \A p \in Marked(t) \cap Route(SourceOf[f[1]]) : p \in mask[f] \/ p = m
          /\ m \notin NonHeads => t \in SourceThreads /\ mask[f] = {}
      BY <1>4, BeforeMarking DEF MarkPassed
    <3>2. t \in SourceThreads => f[1] = t[2]
      BY <1>4 DEF MarkPassed, FlowInv, TypeInv, ThreadOK, HoldsFrame
    <3>3. t \in SourceThreads => m = SourceOf[f[1]]
      BY <3>2, ThreadFacts
    <3>4. m \in NonHeads => Marked(t) = mask[f] \cup {m}
      BY <1>4 DEF Marked, NonHeads
    <3>. QED
      BY <3>1, <3>3, <3>4
  <2>3. m \in Parents(n)
    <3>1. CASE m \in NonHeads
      BY <1>1, <1>4, <2>1, <2>2, <3>1 DEF Good
    <3>2. CASE m \notin NonHeads
      <4>1. n # SourceOf[f[1]]
        BY <2>2, <3>2
      <4>2. PICK p \in Route(SourceOf[f[1]]) : p \in Parents(n)
        BY <1>1, <4>1, FrameFacts, RouteParent
      <4>3. p \in Marked(t) /\ p \notin mask[f]
        BY <1>1, <2>1, <2>2, <3>2, <4>2
      <4>. QED
        BY <2>2, <4>2, <4>3
    <3>. QED
      BY <3>1, <3>2
  <2>4. n \in Ready(m, Marked(t))
    BY <1>1, <2>1, <2>3 DEF Ready, Parents
  <2>5. Marked(t) # Modules
    BY <1>1, <2>1 DEF NonHeads
  <2>6. todo' = [todo EXCEPT ![t] = Ready(m, Marked(t))] /\ UNCHANGED frame
    BY <1>4, <2>4, <2>5 DEF MarkPassed
  <2>7. frame'[t] = f /\ n \in todo'[t]
    BY <1>4, <2>4, <2>6 DEF FlowInv, TypeInv, TypeOK
  <2>. QED
    BY <2>7 DEF HasCopy, PendingIn
<1>. QED
  BY <1>2, <1>3, <1>4, MarkedMask, MaskSteps

LEMMA InitKept ==
  ASSUME Init, NEW f \in Frames
  PROVE  KeptInv(f)
<1>1. mask[f] = {} /\ Modules # {}
  BY FrameFacts DEF Init
<1>2. ComingOK(f)
  BY <1>1, NonHeadHasParent DEF ComingOK, Good
<1>. QED
  BY <1>1, <1>2, InitFlow DEF KeptInv, RouteOK, PassOK

\* A frame gets to the callback of the application or is dropped by one of the steps
\* that mean to: it is never stuck, forgotten at a fork, or taken for done too early,
\* as it would be if two parents of a join could each believe the other to be the last.
THEOREM LostOnlyByIntent ==
  ASSUME NEW f \in Frames
  PROVE  Spec /\ [][~Losing(f)]_vars => []Kept(f)
<1>1. Init => KeptInv(f)
  BY InitKept
<1>2. KeptInv(f) /\ [Next]_vars /\ [~Losing(f)]_vars => KeptInv(f)'
  <2>. SUFFICES ASSUME KeptInv(f), [Next]_vars, [~Losing(f)]_vars PROVE KeptInv(f)'
    OBVIOUS
  <2>1. FlowInv /\ FlowInv' /\ TypeInv'
    BY StepFlow DEF KeptInv, FlowInv
  <2>2. CASE ~Losing(f)
    BY <2>1, <2>2, PassStep, RouteStep, ComingStep DEF KeptInv
  <2>3. CASE UNCHANGED vars
    <3>1. ComingOK(f)'
      BY <2>3 DEF KeptInv, ComingOK, Good, HasCopy, HeldBy, PendingIn, QueuedAt, vars, threadVars, frameVars
    <3>. QED
      BY <2>1, <3>1, PassStep, RouteStep DEF KeptInv
  <2>. QED
    BY <2>2, <2>3
<1>3. KeptInv(f) => Kept(f)
  BY KeptInvKept
<1>. QED
  BY <1>1, <1>2, <1>3, PTL DEF Spec
=============================================================================
