------------------------ MODULE PipelineOrderProofs -------------------------
(***************************************************************************)
(* Proof that the frames of a stream never overtake each other, although a *)
(* frame may take another branch to a join than the one before it, may be  *)
(* dropped anywhere, and is done with the last module to mark it.          *)
(*                                                                         *)
(* The invariant compares two frames of a stream by their masks: a module  *)
(* that has marked the newer one has nothing of the older one, and neither *)
(* have the conveyors and threads between it and its parents.              *)
(***************************************************************************)
EXTENDS PipelineProofs

Older(f, g) == f[1] = g[1] /\ f[2] < g[2]

\* A module that works on a frame has marked no newer one.
LastOK ==
  \A t \in Threads : pc[t] \in HoldsFrame =>
    /\ ModuleOf(t) \in Route(SourceOf[frame[t][1]])
    /\ \A g \in Frames : Older(frame[t], g) => ModuleOf(t) \notin mask[g]

\* A thread pushes to successors of its module.
PendOK ==
  \A t \in Threads, n \in NonHeads, f \in Frames :
    PendingIn(t, n, f) => ModuleOf(t) \in Parents(n)

\* Behind a frame that waits for n there are only newer ones.
LineOK ==
  \A c \in Conveyors : \A i \in DOMAIN conveyor[c] :
    \A n \in NonHeads, f, g \in Frames : QueuedAt(c, i, n, f) /\ Older(f, g) =>
      /\ n \notin mask[g]
      /\ \A t \in Threads : ~HeldBy(t, n, g)
      /\ \A d \in Conveyors : \A j \in DOMAIN conveyor[d] : QueuedAt(d, j, n, g) => i < j

\* f is with a thread of n or in its conveyor.
Comes(n, f) ==
  \/ \E t \in Threads : HeldBy(t, n, f)
  \/ \E c \in Conveyors : \E i \in DOMAIN conveyor[c] : QueuedAt(c, i, n, f)

\* The frame a module began with last was marked by its parents, and nothing
\* older comes to it.
BegunOK ==
  \A m \in NonHeads, s \in Streams : processed[m][s] > 0 =>
    /\ Parents(m) \subseteq mask[<<s, processed[m][s]>>]
    /\ \A f \in Frames : Older(f, <<s, processed[m][s]>>) => ~Comes(m, f)

\* Only what all modules have marked is reported as done, by one thread, once.
DoneOK ==
  /\ \A m \in Modules, f \in Frames : Finished(m, f) => mask[f] = Modules
  /\ \A t \in Threads : pc[t] = "pass" =>
       /\ mask[frame[t]] = Modules
       /\ \A m \in Modules : ~Finished(m, frame[t])
       /\ \A u \in Threads : pc[u] = "pass" /\ frame[u] = frame[t] => u = t

\* A module on the route posts EVENT_EOS before it marks the EOS frame.
EosOK ==
  /\ \A f \in Frames : IsEos(f) =>
       \A n \in mask[f] \cap Route(SourceOf[f[1]]) : <<"EVENT_EOS", n, f>> \in reported
  /\ \A t \in Threads : pc[t] = "mark" /\ IsEos(frame[t]) =>
       <<"EVENT_EOS", ModuleOf(t), frame[t]>> \in reported

OrderInv == FlowInv /\ LastOK /\ PendOK /\ LineOK
-----------------------------------------------------------------------------
LEMMA OlderFacts ==
  ASSUME NEW f \in Frames, NEW g \in Frames, Older(f, g)
  PROVE  f[1] = g[1] /\ f[2] < g[2] /\ f # g /\ f[2] \in Int /\ g[2] \in Int /\ ~Older(g, f)
BY FrameFacts DEF Older

\* A stream's frames are with one thread of a module.
LEMMA SameThread ==
  ASSUME FlowInv, NEW t \in Threads, NEW u \in Threads,
         pc[t] \in HoldsFrame, pc[u] \in HoldsFrame,
         ModuleOf(t) = ModuleOf(u), frame[t][1] = frame[u][1]
  PROVE  t = u
<1>1. Heads \cap NonHeads = {}
  BY DEF NonHeads
<1>2. CASE t \in TaskThreads /\ u \in TaskThreads
  BY <1>2 DEF FlowInv, PlaceOK, ConveyorFor
<1>3. CASE t \in SourceThreads /\ u \in SourceThreads
  <2>1. t[2] = u[2]
    BY <1>3 DEF FlowInv, TypeInv, ThreadOK
  <2>. QED
    BY <1>3, <2>1 DEF SourceThreads
<1>. QED
  BY <1>1, <1>2, <1>3, ThreadFacts

LEMMA PendingHeld ==
  ASSUME FlowInv, NEW t \in Threads, NEW n \in NonHeads, NEW f \in Frames,
         PendingIn(t, n, f) \/ HeldBy(t, n, f)
  PROVE  pc[t] \in HoldsFrame /\ frame[t] = f
<1>1. NoModule \notin NonHeads
  BY GraphAssumption DEF NonHeads
<1>. QED
  BY <1>1 DEF PendingIn, HeldBy, BeforeMark, HoldsFrame, FlowInv, TypeInv, ThreadOK

LEMMA CopyGood ==
  ASSUME FlowInv, NEW n \in NonHeads, NEW f \in Frames, HasCopy(n, f)
  PROVE  Good(n, f)
BY DEF FlowInv, CopiesOK, HasCopy

\* A frame about to be pushed to n: no newer one has got as far.
LEMMA PendingBefore ==
  ASSUME OrderInv, NEW t \in Threads, NEW n \in NonHeads, NEW f \in Frames, NEW g \in Frames,
         PendingIn(t, n, f), Older(f, g)
  PROVE  ~(Parents(n) \subseteq mask[g]) /\ n \notin mask[g] /\ ~HasCopy(n, g)
<1>1. pc[t] \in HoldsFrame /\ frame[t] = f
  BY PendingHeld DEF OrderInv
<1>2. ModuleOf(t) \in Parents(n) /\ ModuleOf(t) \notin mask[g]
  BY <1>1 DEF OrderInv, PendOK, LastOK
<1>3. n \in Route(SourceOf[g[1]])
  <2>1. Good(n, f)
    BY DEF OrderInv, FlowInv, CopiesOK
  <2>. QED
    BY <2>1, OlderFacts DEF Good
<1>4. n \notin mask[g]
  BY <1>2, <1>3 DEF OrderInv, FlowInv, MaskOK
<1>5. ~HasCopy(n, g)
  BY <1>2, CopyGood DEF OrderInv, Good
<1>. QED
  BY <1>2, <1>4, <1>5

LEMMA OrderShrink ==
  ASSUME OrderInv, Shrinks
  PROVE  PendOK' /\ LineOK'
<1>1. PendOK'
  BY DEF OrderInv, PendOK, Shrinks
<1>2. \A c \in Conveyors : \A i \in DOMAIN conveyor'[c] :
        /\ i \in DOMAIN conveyor[c]
        /\ \A n \in NonHeads, f \in Frames : QueuedAt(c, i, n, f)' => QueuedAt(c, i, n, f)
  BY DEF QueuedAt, Shrinks
<1>3. LineOK'
  BY <1>2 DEF OrderInv, LineOK, Shrinks
<1>. QED
  BY <1>1, <1>3

LEMMA OrderLast ==
  ASSUME OrderInv, UNCHANGED mask,
         \A u \in Threads : pc'[u] \in HoldsFrame => pc[u] \in HoldsFrame /\ frame'[u] = frame[u]
  PROVE  LastOK'
BY DEF OrderInv, LastOK

LEMMA OrderCreate ==
  ASSUME OrderInv, NEW t \in Threads, CreateFrame(t)
  PROVE  LastOK'
<1>. DEFINE s == t[2]
            f == <<s, sent[s] + 1>>
<1>1. /\ UNCHANGED mask /\ ModuleOf(t) = SourceOf[s] /\ s \in Streams
      /\ \A u \in Threads \ {t} : pc'[u] = pc[u] /\ frame'[u] = frame[u]
      /\ pc'[t] \in HoldsFrame => frame'[t] = f
      /\ sent[s] \in Int
  <2>1. TypeOK
    BY DEF OrderInv, FlowInv, TypeInv
  <2>2. pc[t] = "idle" /\ s \in Streams /\ ModuleOf(t) = SourceOf[s]
    BY ThreadFacts DEF CreateFrame
  <2>. QED
    BY <2>1, <2>2, ConfigAssumption DEF CreateFrame, threadVars, TypeOK, HoldsFrame
<1>2. SourceOf[s] \in Route(SourceOf[s])
  BY <1>1, RouteClosed, ConfigAssumption, ThreadFacts
<1>3. ASSUME NEW g \in Frames, Older(f, g) PROVE mask[g] = {}
  <2>1. g[1] = s /\ g[2] > sent[s]
    BY <1>1, <1>3, FrameFacts DEF Older
  <2>. QED
    BY <2>1 DEF OrderInv, FlowInv, MaskOK
<1> SUFFICES ASSUME NEW u \in Threads, pc'[u] \in HoldsFrame
             PROVE  /\ ModuleOf(u) \in Route(SourceOf[frame'[u][1]])
                    /\ \A g \in Frames : Older(frame'[u], g) => ModuleOf(u) \notin mask[g]
  BY <1>1 DEF LastOK, Older
<1>4. CASE u = t
  BY <1>1, <1>2, <1>3, <1>4
<1>5. CASE u # t
  BY <1>1, <1>5 DEF OrderInv, LastOK
<1>. QED
  BY <1>4, <1>5

LEMMA OrderPop ==
  ASSUME OrderInv, NEW t \in Threads, Pop(t)
  PROVE  LastOK' /\ PendOK' /\ LineOK'
<1>. USE DEF OrderInv
<1>1. PICK m, f : PopMoves(t, m, f)
  BY PopForm
<1>2. /\ m = ModuleOf(t) /\ m \in NonHeads /\ f \in Frames /\ t \in Conveyors
      /\ 1 \in DOMAIN conveyor[t] /\ QueuedAt(t, 1, m, f)
      /\ UNCHANGED <<mask, sent>> /\ frame'[t] = f
      /\ \A u \in Threads \ {t} : pc'[u] = pc[u] /\ frame'[u] = frame[u]
  BY <1>1 DEF PopMoves
<1>3. \A u \in Threads, n \in NonHeads, g \in Frames :
        /\ HeldBy(u, n, g)' => HeldBy(u, n, g) \/ (u = t /\ n = m /\ g = f)
        /\ PendingIn(u, n, g)' => PendingIn(u, n, g)
  BY <1>1 DEF PopMoves
<1>4. LastOK'
  <2>1. m \in Route(SourceOf[f[1]])
    BY <1>2 DEF FlowInv, CopiesOK, Good
  <2>2. \A g \in Frames : Older(f, g) => m \notin mask[g]
    BY <1>2 DEF LineOK
  <2>. QED
    BY <1>2, <2>1, <2>2 DEF LastOK
<1>5. PendOK'
  BY <1>3 DEF PendOK
<1>6. LineOK'
  <2> SUFFICES ASSUME NEW c \in Conveyors, NEW i \in DOMAIN conveyor'[c], NEW n \in NonHeads,
                      NEW h \in Frames, NEW g \in Frames, QueuedAt(c, i, n, h)', Older(h, g)
               PROVE  /\ n \notin mask[g]
                      /\ \A u \in Threads : ~HeldBy(u, n, g)'
                      /\ \A d \in Conveyors : \A j \in DOMAIN conveyor'[d] :
                           QueuedAt(d, j, n, g)' => i < j
    BY <1>2 DEF LineOK, Older
  <2>1. PICK k \in DOMAIN conveyor[c] :
           QueuedAt(c, k, n, h) /\ (IF c = t THEN k = i + 1 /\ i \in Nat \ {0} ELSE k = i)
    BY <1>1 DEF PopMoves
  <2>2. k \in Nat \ {0} /\ c = ConveyorFor(n, h)
    <3>1. conveyor[c] \in Seq(Frames)
      BY DEF FlowInv, TypeInv, TypeOK
    <3>. QED
      BY <2>1, <3>1 DEF FlowInv, CopiesOK
  <2>3. n \notin mask[g] /\ \A u \in Threads : ~HeldBy(u, n, g)
    BY <2>1 DEF LineOK
  <2>4. ~(n = m /\ g = f)
    <3>1. ASSUME n = m, g = f PROVE FALSE
      <4>1. k < 1
        BY <1>2, <2>1, <3>1 DEF LineOK
      <4>. QED
        BY <2>2, <4>1
    <3>. QED
      BY <3>1
  <2>5. ASSUME NEW d \in Conveyors, NEW j \in DOMAIN conveyor'[d], QueuedAt(d, j, n, g)'
        PROVE  i < j
    <3>1. PICK l \in DOMAIN conveyor[d] :
             QueuedAt(d, l, n, g) /\ (IF d = t THEN l = j + 1 /\ j \in Nat \ {0} ELSE l = j)
      BY <1>1, <2>5 DEF PopMoves
    <3>2. k < l
      BY <2>1, <3>1 DEF LineOK
    <3>3. d = ConveyorFor(n, g) /\ conveyor[d] \in Seq(Frames)
      BY <3>1 DEF FlowInv, CopiesOK, TypeInv, TypeOK
    <3>4. c = d /\ l \in Nat
      BY <2>2, <3>3, OlderFacts DEF ConveyorFor
    <3>. QED
      BY <2>1, <2>2, <3>1, <3>2, <3>4
  <2>. QED
    BY <1>3, <2>3, <2>4, <2>5
<1>. QED
  BY <1>4, <1>5, <1>6

LEMMA OrderPush ==
  ASSUME OrderInv, NEW t \in Threads, NEW m, NEW f, NEW b, PushMoves(t, m, f, b)
  PROVE  LastOK' /\ PendOK' /\ LineOK'
<1>. USE DEF OrderInv
<1>1. /\ m \in NonHeads /\ f \in Frames /\ b \in Conveyors /\ b = ConveyorFor(m, f)
      /\ PendingIn(t, m, f) /\ UNCHANGED <<mask, sent>>
      /\ \A u \in Threads, n \in NonHeads, g \in Frames :
           /\ HeldBy(u, n, g)' => HeldBy(u, n, g)
           /\ PendingIn(u, n, g)' => PendingIn(u, n, g)
  BY DEF PushMoves
<1>2. LastOK'
  BY OrderLast DEF PushMoves
<1>3. PendOK'
  BY <1>1 DEF PendOK
<1>4. LineOK'
  <2> SUFFICES ASSUME NEW c \in Conveyors, NEW i \in DOMAIN conveyor'[c], NEW n \in NonHeads,
                      NEW h \in Frames, NEW g \in Frames, QueuedAt(c, i, n, h)', Older(h, g)
               PROVE  /\ n \notin mask[g]
                      /\ \A u \in Threads : ~HeldBy(u, n, g)'
                      /\ \A d \in Conveyors : \A j \in DOMAIN conveyor'[d] :
                           QueuedAt(d, j, n, g)' => i < j
    BY <1>1 DEF LineOK, Older
  <2>1. \A d \in Conveyors : \A j \in DOMAIN conveyor'[d] : QueuedAt(d, j, n, g)' =>
          \/ j \in DOMAIN conveyor[d] /\ QueuedAt(d, j, n, g)
          \/ d = b /\ j = Len(conveyor[b]) + 1 /\ n = m /\ g = f
    BY DEF PushMoves
  <2>2. CASE i \in DOMAIN conveyor[c] /\ QueuedAt(c, i, n, h)
    <3>1. /\ n \notin mask[g]
          /\ \A u \in Threads : ~HeldBy(u, n, g)
          /\ \A d \in Conveyors : \A j \in DOMAIN conveyor[d] : QueuedAt(d, j, n, g) => i < j
      BY <2>2 DEF LineOK
    <3>2. n = m /\ g = f => i < Len(conveyor[b]) + 1
      <4>1. c = ConveyorFor(n, h) /\ conveyor[c] \in Seq(Frames)
        BY <2>2 DEF FlowInv, CopiesOK, TypeInv, TypeOK
      <4>2. n = m /\ g = f => c = b
        BY <1>1, <4>1, OlderFacts DEF ConveyorFor
      <4>. QED
        BY <2>2, <4>1, <4>2
    <3>. QED
      BY <1>1, <2>1, <3>1, <3>2
  <2>3. CASE n = m /\ h = f
    <3>1. n \notin mask[g] /\ ~HasCopy(n, g)
      BY <1>1, <2>3, PendingBefore
    <3>2. g # f
      BY <2>3, OlderFacts
    <3>. QED
      BY <1>1, <2>1, <3>1, <3>2 DEF HasCopy
  <2>. QED
    BY <2>2, <2>3 DEF PushMoves
<1>. QED
  BY <1>2, <1>3, <1>4

LEMMA OrderMark ==
  ASSUME OrderInv, NEW t \in Threads, MarkPassed(t)
  PROVE  LastOK' /\ PendOK' /\ LineOK'
<1>. USE DEF OrderInv
<1>1. PICK m, f, P : MarkMoves(t, m, f, P)
  BY MarkForm
<1>2. /\ pc[t] = "mark" /\ frame[t] = f /\ m = ModuleOf(t) /\ f \in Frames
      /\ m \in NonHeads => HeldBy(t, m, f)
      /\ \A n \in P \cap Route(SourceOf[f[1]]) : n \in mask[f] \/ n = m
      /\ mask'[f] = P
      /\ \A g \in Frames \ {f} : mask'[g] = mask[g]
      /\ \A u \in Threads : pc'[u] \in HoldsFrame => pc[u] \in HoldsFrame /\ frame'[u] = frame[u]
  BY <1>1 DEF MarkMoves
<1>3. \A u \in Threads, n \in NonHeads, g \in Frames :
        /\ HeldBy(u, n, g)' => HeldBy(u, n, g)
        /\ PendingIn(u, n, g)' => PendingIn(u, n, g) \/ (u = t /\ m \in Parents(n))
  BY <1>1 DEF MarkMoves
<1>4. \A c \in Conveyors : \A i \in DOMAIN conveyor'[c] : \A n \in NonHeads, g \in Frames :
        QueuedAt(c, i, n, g)' => i \in DOMAIN conveyor[c] /\ QueuedAt(c, i, n, g)
  BY <1>1 DEF MarkMoves
<1>5. LastOK'
  <2> SUFFICES ASSUME NEW u \in Threads, pc'[u] \in HoldsFrame
               PROVE  /\ ModuleOf(u) \in Route(SourceOf[frame'[u][1]])
                      /\ \A g \in Frames : Older(frame'[u], g) => ModuleOf(u) \notin mask'[g]
    BY DEF LastOK, Older
  <2>1. pc[u] \in HoldsFrame /\ frame'[u] = frame[u] /\ frame[u] \in Frames
    BY <1>2 DEF FlowInv, TypeInv, ThreadOK
  <2>2. /\ ModuleOf(u) \in Route(SourceOf[frame[u][1]])
        /\ \A g \in Frames : Older(frame[u], g) => ModuleOf(u) \notin mask[g]
    BY <2>1 DEF LastOK
  <2>3. ASSUME Older(frame[u], f), ModuleOf(u) \in P PROVE FALSE
    <3>1. frame[u][1] = f[1] /\ frame[u] # f
      BY <1>2, <2>1, <2>3, OlderFacts
    <3>2. ModuleOf(u) = m
      BY <1>2, <2>2, <2>3, <3>1
    <3>3. u = t
      BY <1>2, <2>1, <3>1, <3>2, SameThread DEF HoldsFrame
    <3>. QED
      BY <1>2, <3>1, <3>3
  <2>. QED
    BY <1>2, <2>1, <2>2, <2>3
<1>6. PendOK'
  BY <1>2, <1>3 DEF PendOK
<1>7. LineOK'
  <2> SUFFICES ASSUME NEW c \in Conveyors, NEW i \in DOMAIN conveyor'[c], NEW n \in NonHeads,
                      NEW h \in Frames, NEW g \in Frames, QueuedAt(c, i, n, h)', Older(h, g)
               PROVE  /\ n \notin mask'[g]
                      /\ \A u \in Threads : ~HeldBy(u, n, g)'
                      /\ \A d \in Conveyors : \A j \in DOMAIN conveyor'[d] :
                           QueuedAt(d, j, n, g)' => i < j
    BY DEF LineOK, Older
  <2>1. i \in DOMAIN conveyor[c] /\ QueuedAt(c, i, n, h)
    BY <1>4
  <2>2. /\ n \notin mask[g]
        /\ \A u \in Threads : ~HeldBy(u, n, g)
        /\ \A d \in Conveyors : \A j \in DOMAIN conveyor[d] : QueuedAt(d, j, n, g) => i < j
    BY <2>1 DEF LineOK
  <2>3. ASSUME g = f, n \in P PROVE FALSE
    <3>1. n \in Route(SourceOf[f[1]])
      <4>1. Good(n, h)
        BY <2>1 DEF FlowInv, CopiesOK
      <4>. QED
        BY <2>3, <4>1, OlderFacts DEF Good
    <3>. QED
      BY <1>2, <2>2, <2>3, <3>1
  <2>. QED
    BY <1>2, <1>3, <1>4, <2>2, <2>3
<1>. QED
  BY <1>5, <1>6, <1>7

LEMMA StepOrder == OrderInv /\ [Next]_vars => OrderInv'
<1> SUFFICES ASSUME OrderInv, [Next]_vars PROVE OrderInv'
  OBVIOUS
<1>0. FlowInv /\ FlowInv' /\ TypeInv'
  BY StepFlow DEF OrderInv, FlowInv
<1>1. CASE Quiet
  <2>1. LastOK'
    BY <1>1, OrderLast DEF Quiet
  <2>. QED
    BY <1>0, <1>1, <2>1, QuietShrinks, OrderShrink DEF OrderInv
<1>2. ASSUME NEW t \in Threads, Local(t) PROVE OrderInv'
  <2>1. LastOK'
    BY <1>2, OrderLast DEF Local
  <2>. QED
    BY <1>0, <1>2, <2>1, LocalShrinks, OrderShrink DEF OrderInv
<1>3. ASSUME NEW t \in Threads, Pop(t) PROVE OrderInv'
  BY <1>0, <1>3, OrderPop DEF OrderInv
<1>4. ASSUME NEW t \in Threads, Push(t) PROVE OrderInv'
  <2>1. CASE Local(t)
    BY <1>2, <2>1
  <2>2. CASE PushMoves(t, tgt[t], frame[t], ConveyorFor(tgt[t], frame[t]))
    BY <1>0, <2>2, OrderPush DEF OrderInv
  <2>. QED
    BY <1>0, <1>4, <2>1, <2>2, PushForm
<1>5. ASSUME NEW t \in Threads, MarkPassed(t) PROVE OrderInv'
  BY <1>0, <1>5, OrderMark DEF OrderInv
<1>6. ASSUME NEW t \in Threads, CreateFrame(t) PROVE OrderInv'
  <2>1. LastOK'
    BY <1>6, OrderCreate
  <2>. QED
    BY <1>0, <1>6, <2>1, CreateShrinks, OrderShrink DEF OrderInv
<1>. QED
  BY <1>0, <1>1, <1>2, <1>3, <1>4, <1>5, <1>6, StepForm

LEMMA InitOrder == Init => OrderInv
<1> SUFFICES ASSUME Init PROVE OrderInv
  OBVIOUS
<1>1. FlowInv
  BY InitFlow
<1>2. LastOK
  BY DEF Init, LastOK, HoldsFrame
<1>3. PendOK
  <2>1. NoModule \notin NonHeads
    BY GraphAssumption DEF NonHeads
  <2>. QED
    BY <2>1 DEF Init, PendOK, PendingIn
<1>4. LineOK
  BY DEF Init, LineOK, QueuedAt
<1>. QED
  BY <1>1, <1>2, <1>3, <1>4 DEF OrderInv
-----------------------------------------------------------------------------
(* What a module begins with.                                              *)

\* What comes to a module was on its way to it; marks are not taken back.
LEMMA StepComes ==
  ASSUME OrderInv, [Next]_vars
  PROVE  /\ \A f \in Frames : mask[f] \subseteq mask'[f]
         /\ \A n \in NonHeads, f \in Frames : Comes(n, f)' => HasCopy(n, f)
<1>. USE DEF OrderInv
<1>1. ASSUME Shrinks
      PROVE  /\ \A f \in Frames : mask[f] \subseteq mask'[f]
             /\ \A n \in NonHeads, f \in Frames : Comes(n, f)' => HasCopy(n, f)
  BY <1>1 DEF Shrinks, Comes, HasCopy, QueuedAt
<1>2. ASSUME NEW t \in Threads, NEW m, NEW g, PopMoves(t, m, g)
      PROVE  /\ \A f \in Frames : mask[f] \subseteq mask'[f]
             /\ \A n \in NonHeads, f \in Frames : Comes(n, f)' => HasCopy(n, f)
  BY <1>2 DEF PopMoves, Comes, HasCopy
<1>3. ASSUME NEW t \in Threads, NEW m, NEW g, NEW c, PushMoves(t, m, g, c)
      PROVE  /\ \A f \in Frames : mask[f] \subseteq mask'[f]
             /\ \A n \in NonHeads, f \in Frames : Comes(n, f)' => HasCopy(n, f)
  BY <1>3 DEF PushMoves, Comes, HasCopy
<1>4. ASSUME NEW t \in Threads, NEW m, NEW g, NEW P, MarkMoves(t, m, g, P)
      PROVE  /\ \A f \in Frames : mask[f] \subseteq mask'[f]
             /\ \A n \in NonHeads, f \in Frames : Comes(n, f)' => HasCopy(n, f)
  BY <1>4 DEF MarkMoves, Comes, HasCopy
<1>5. TypeInv'
  BY StepFlow DEF FlowInv
<1>. QED
  BY <1>1, <1>2, <1>3, <1>4, <1>5, StepForm, QuietShrinks, LocalShrinks, CreateShrinks,
     PopForm, PushForm, MarkForm

\* Only AfterPop writes processed.
LEMMA ProcessedForm ==
  ASSUME FlowInv, [Next]_vars
  PROVE  UNCHANGED processed \/ \E t \in Threads : AfterPop(t)
<1>1. ASSUME NEW t \in Threads, ThreadStep(t)
      PROVE  UNCHANGED processed \/ AfterPop(t)
  BY <1>1 DEF ThreadStep, histVars, LoopTop, Pop, PopTimeout, Process, ProvideData, CheckFrame,
              MarkPassed, OnPassThrough, ChooseTarget, Push, RetryPush
<1>2. ASSUME NEW t \in Threads, AddSource(t) \/ CreateFrame(t) PROVE UNCHANGED processed
  BY <1>2 DEF AddSource, CreateFrame, histVars
<1>. QED
  BY <1>1, <1>2, StepKinds DEF Quiet

\* A thread that goes on with the frame it popped writes its number.
LEMMA Begins ==
  ASSUME OrderInv, NEW t \in Threads, AfterPop(t), processed' # processed,
         NEW m, m = ModuleOf(t), NEW f, f = frame[t]
  PROVE  /\ m \in NonHeads /\ f \in Frames /\ f = <<f[1], f[2]>> /\ HeldBy(t, m, f)
         /\ processed' = [processed EXCEPT ![m][f[1]] = f[2]]
         /\ UNCHANGED <<mask, conveyor>> /\ \A n \in NonHeads, g \in Frames : Comes(n, g)' => Comes(n, g)
<1>1. t \in TaskThreads /\ m \in NonHeads /\ pc[t] = "popped" /\ UNCHANGED <<mask, conveyor>>
  BY ThreadFacts DEF AfterPop, frameVars
<1>2. f \in Frames
  BY <1>1 DEF OrderInv, FlowInv, TypeInv, ThreadOK, HoldsFrame
<1>3. HeldBy(t, m, f)
  BY <1>1 DEF HeldBy, BeforeMark
<1>4. Shrinks
  <2>1. TypeInv'
    BY StepTypeInv DEF OrderInv, FlowInv, Next, ThreadStep
  <2>. QED
    BY <2>1, LocalForm, LocalShrinks DEF OrderInv
<1>5. \A n \in NonHeads, g \in Frames : Comes(n, g)' => Comes(n, g)
  BY <1>1, <1>4 DEF Shrinks, Comes, QueuedAt
<1>6. f = <<f[1], f[2]>>
  BY <1>2 DEF Frames
<1>. QED
  BY <1>1, <1>2, <1>3, <1>5, <1>6 DEF AfterPop

\* While a module has a frame in hand, nothing older comes to it.
LEMMA HeldIsOldest ==
  ASSUME OrderInv, NEW t \in Threads, NEW m \in NonHeads, NEW f \in Frames, NEW g \in Frames,
         HeldBy(t, m, f), Older(g, f)
  PROVE  ~Comes(m, g)
<1>1. ASSUME NEW u \in Threads, HeldBy(u, m, g) PROVE FALSE
  <2>1. u = t
    BY <1>1, PendingHeld, SameThread, OlderFacts DEF OrderInv, HeldBy
  <2>. QED
    BY <1>1, <2>1, OlderFacts DEF HeldBy
<1>2. ASSUME NEW c \in Conveyors, NEW i \in DOMAIN conveyor[c], QueuedAt(c, i, m, g) PROVE FALSE
  BY <1>2 DEF OrderInv, LineOK
<1>. QED
  BY <1>1, <1>2 DEF Comes

LEMMA StepBegun ==
  ASSUME OrderInv, BegunOK, [Next]_vars
  PROVE  BegunOK'
<1>0. processed \in [NonHeads -> [Streams -> 0 .. MaxFrame]] /\ MaxFrame \in Nat
  BY ConfigAssumption DEF OrderInv, FlowInv, TypeInv, TypeOK
<1>1. CASE UNCHANGED processed
  <2> SUFFICES ASSUME NEW m \in NonHeads, NEW s \in Streams, processed[m][s] > 0,
                      NEW q, q = <<s, processed[m][s]>>
               PROVE  Parents(m) \subseteq mask'[q] /\ \A f \in Frames : Older(f, q) => ~Comes(m, f)'
    BY <1>1 DEF BegunOK, Older
  <2>1. q \in Frames
    BY <1>0 DEF Frames
  <2>2. Parents(m) \subseteq mask[q] /\ \A f \in Frames : Older(f, q) => ~Comes(m, f)
    BY DEF BegunOK
  <2>3. ASSUME NEW f \in Frames, Older(f, q), HasCopy(m, f) PROVE FALSE
    <3>1. PICK t \in Threads : PendingIn(t, m, f)
      BY <2>2, <2>3 DEF HasCopy, Comes
    <3>. QED
      BY <2>1, <2>2, <2>3, <3>1, PendingBefore
  <2>. QED
    BY <2>1, <2>2, <2>3, StepComes
<1>2. ASSUME NEW t \in Threads, AfterPop(t), processed' # processed PROVE BegunOK'
  <2>1. PICK m, f : m = ModuleOf(t) /\ f = frame[t]
    OBVIOUS
  <2>2. /\ m \in NonHeads /\ f \in Frames /\ f = <<f[1], f[2]>> /\ HeldBy(t, m, f)
        /\ processed' = [processed EXCEPT ![m][f[1]] = f[2]]
        /\ UNCHANGED mask /\ \A n \in NonHeads, g \in Frames : Comes(n, g)' => Comes(n, g)
    BY <1>2, <2>1, Begins
  <2> SUFFICES ASSUME NEW n \in NonHeads, NEW s \in Streams, processed'[n][s] > 0
               PROVE  /\ Parents(n) \subseteq mask[<<s, processed'[n][s]>>]
                      /\ \A g \in Frames : Older(g, <<s, processed'[n][s]>>) => ~Comes(n, g)
    BY <2>2 DEF BegunOK, Older
  <2>3. CASE n = m /\ s = f[1]
    <3>1. <<s, processed'[n][s]>> = f
      BY <1>0, <2>2, <2>3
    <3>2. Parents(m) \subseteq mask[f]
      BY <2>2 DEF OrderInv, FlowInv, CopiesOK, Good
    <3>. QED
      BY <2>2, <2>3, <3>1, <3>2, HeldIsOldest
  <2>4. CASE ~(n = m /\ s = f[1])
    <3>1. processed'[n][s] = processed[n][s]
      BY <1>0, <2>2, <2>4
    <3>. QED
      BY <3>1 DEF BegunOK
  <2>. QED
    BY <2>3, <2>4
<1>. QED
  BY <1>1, <1>2, ProcessedForm DEF OrderInv

\* TaskLoop gives a module the frames of a stream in the order in which the
\* source made them, whatever branches they took and whatever was dropped.
THEOREM BeginsInOrder == Spec => InOrder
<1>1. Init => BegunOK
  BY DEF Init, BegunOK
<1>2. ASSUME OrderInv, BegunOK, [Next]_vars
      PROVE  [\A m \in NonHeads, s \in Streams : processed'[m][s] >= processed[m][s]]_processed
  <2>0. processed \in [NonHeads -> [Streams -> 0 .. MaxFrame]] /\ MaxFrame \in Nat
    BY <1>2, ConfigAssumption DEF OrderInv, FlowInv, TypeInv, TypeOK
  <2> SUFFICES ASSUME NEW t \in Threads, AfterPop(t), processed' # processed,
                      NEW n \in NonHeads, NEW s \in Streams
               PROVE  processed'[n][s] >= processed[n][s]
    BY <1>2, ProcessedForm DEF OrderInv
  <2>1. PICK m, f : m = ModuleOf(t) /\ f = frame[t]
    OBVIOUS
  <2>2. /\ m \in NonHeads /\ f \in Frames /\ HeldBy(t, m, f)
        /\ processed' = [processed EXCEPT ![m][f[1]] = f[2]]
    BY <1>2, <2>1, Begins
  <2>3. f[1] \in Streams /\ f[2] \in 1 .. MaxFrame
    BY <2>2, FrameFacts
  <2>4. ~(f[2] < processed[m][f[1]])
    <3> SUFFICES ASSUME f[2] < processed[m][f[1]] PROVE FALSE
      OBVIOUS
    <3>1. processed[m][f[1]] > 0 /\ Older(f, <<f[1], processed[m][f[1]]>>)
      BY <2>0, <2>2, <2>3 DEF Older
    <3>2. ~Comes(m, f)
      BY <1>2, <2>2, <2>3, <3>1 DEF BegunOK
    <3>. QED
      BY <2>2, <3>2 DEF Comes
  <2>. QED
    BY <2>0, <2>2, <2>3, <2>4
<1>. QED
  BY <1>1, <1>2, InitOrder, StepOrder, StepBegun, PTL DEF Spec, InOrder
-----------------------------------------------------------------------------
(* What is done.                                                           *)

LEMMA ReportForm ==
  ASSUME FlowInv, [Next]_vars
  PROVE  /\ reported \subseteq reported'
         /\ \/ \A m \in Modules, f \in Frames : Finished(m, f)' <=> Finished(m, f)
            \/ \E t \in Threads : OnPassThrough(t)
<1>1. ASSUME NEW t \in Threads, ThreadStep(t), ~Process(t), ~CheckFrame(t), ~OnPassThrough(t)
      PROVE  UNCHANGED reported
  BY <1>1 DEF ThreadStep, histVars, LoopTop, Pop, PopTimeout, AfterPop, ProvideData,
              MarkPassed, ChooseTarget, Push, RetryPush
<1>2. ASSUME NEW t \in Threads, AddSource(t) \/ CreateFrame(t) PROVE UNCHANGED reported
  BY <1>2 DEF AddSource, CreateFrame, histVars
<1>3. ASSUME NEW t \in Threads, Process(t) \/ CheckFrame(t)
      PROVE  \E kind \in {"EVENT_ERROR", "FRAME_ERR_MSG", "EVENT_EOS"} :
               \/ UNCHANGED reported
               \/ reported' = reported \cup {<<kind, ModuleOf(t), frame[t]>>}
  BY <1>3 DEF Process, CheckFrame, Report
<1>4. CASE UNCHANGED reported
  BY <1>4 DEF Finished
<1>5. ASSUME NEW t \in Threads, Process(t) \/ CheckFrame(t)
      PROVE  /\ reported \subseteq reported'
             /\ \A m \in Modules, f \in Frames : Finished(m, f)' <=> Finished(m, f)
  BY <1>3, <1>5 DEF Finished
<1>6. ASSUME NEW t \in Threads, OnPassThrough(t) PROVE reported \subseteq reported'
  BY <1>6 DEF OnPassThrough, Report
<1>. QED
  BY <1>1, <1>2, <1>4, <1>5, <1>6, StepKinds DEF Quiet

\* How a thread comes to the labels "mark" and "pass".
LEMMA PcForm ==
  ASSUME FlowInv, [Next]_vars, NEW u \in Threads
  PROVE  /\ pc'[u] \in {"mark", "pass"} => frame'[u] = frame[u]
         /\ pc'[u] = "pass" => pc[u] = "pass" \/ (MarkPassed(u) /\ Marked(u) = Modules)
         /\ pc'[u] = "mark" => pc[u] = "mark" \/ CheckFrame(u)
<1>. DEFINE Same == /\ pc'[u] \in {"mark", "pass"} => frame'[u] = frame[u]
                    /\ pc'[u] = "pass" => pc[u] = "pass"
                    /\ pc'[u] = "mark" => pc[u] = "mark"
<1>0. /\ DOMAIN pc = Threads /\ DOMAIN frame = Threads
      /\ \A t \in Threads : Home(t) \notin {"mark", "pass"}
  BY DEF FlowInv, TypeInv, TypeOK, Home
<1>1. CASE Quiet
  BY <1>1 DEF Quiet, HoldsFrame
<1>2. ASSUME NEW t \in Threads, NEW l, Goto(t, l), l \notin {"mark", "pass"} PROVE Same
  BY <1>0, <1>2 DEF Goto
<1>3. ASSUME NEW t \in Threads, Return(t) PROVE Same
  BY <1>0, <1>3 DEF Return
<1>4. ASSUME NEW t \in Threads, LoopTop(t) \/ PopTimeout(t) \/ AddSource(t) \/ OnPassThrough(t)
                                  \/ Process(t) \/ ProvideData(t)
      PROVE  Same
  BY <1>2, <1>3, <1>4 DEF LoopTop, PopTimeout, AddSource, OnPassThrough, Process, ProvideData
<1>5. ASSUME NEW t \in Threads, RetryPush(t) \/ Push(t) PROVE Same
  <2>1. ASSUME NextTarget(t) PROVE Same
    BY <1>0, <1>3, <2>1 DEF NextTarget
  <2>. QED
    BY <1>2, <1>5, <2>1 DEF RetryPush, Push
<1>6. ASSUME NEW t \in Threads, ChooseTarget(t) PROVE Same
  <2>1. \/ UNCHANGED <<pc, frame>>
        \/ \E l \in {Home(t), "try"} : /\ pc' = [pc EXCEPT ![t] = l]
                                       /\ frame' \in {frame, [frame EXCEPT ![t] = NoFrame]}
    BY <1>6 DEF ChooseTarget
  <2>. QED
    BY <1>0, <2>1
<1>7. ASSUME NEW t \in Threads, AfterPop(t) PROVE Same
  <2>1. CASE stopped[ModuleOf(t)]
    BY <1>0, <1>7, <2>1 DEF AfterPop
  <2>. QED
    BY <1>2, <1>7, <2>1 DEF AfterPop
<1>8. ASSUME NEW t \in Threads, Pop(t) PROVE Same
  BY <1>0, <1>8 DEF Pop
<1>9. ASSUME NEW t \in Threads, CreateFrame(t) PROVE Same
  BY <1>0, <1>9 DEF CreateFrame, threadVars
<1>10. ASSUME NEW t \in Threads, CheckFrame(t) PROVE Same \/ (t = u /\ Goto(t, "mark"))
  <2>1. CASE Return(t)
    BY <1>3, <2>1
  <2>2. CASE Goto(t, "mark")
    BY <1>0, <2>2 DEF Goto
  <2>. QED
    BY <1>10, <2>1, <2>2 DEF CheckFrame
<1>11. ASSUME NEW t \in Threads, MarkPassed(t)
       PROVE  Same \/ (t = u /\ Goto(t, "pass") /\ Marked(t) = Modules)
  <2>1. CASE Return(t)
    BY <1>3, <2>1
  <2>2. CASE Goto(t, "pass") /\ Marked(t) = Modules
    BY <1>0, <2>2 DEF Goto
  <2>3. CASE pc' = [pc EXCEPT ![t] = "push"] /\ UNCHANGED frame
    BY <1>0, <2>3
  <2>. QED
    BY <1>11, <2>1, <2>2, <2>3 DEF MarkPassed
<1>12. ASSUME Goto(u, "mark") \/ Goto(u, "pass")
       PROVE  frame'[u] = frame[u] /\ (Goto(u, "mark") => pc'[u] = "mark") /\ (Goto(u, "pass") => pc'[u] = "pass")
  BY <1>0, <1>12 DEF Goto
<1>. QED
  BY <1>1, <1>4, <1>5, <1>6, <1>7, <1>8, <1>9, <1>10, <1>11, <1>12, StepKinds DEF ThreadStep

LEMMA MarkFacts ==
  ASSUME FlowInv, NEW t \in Threads, MarkPassed(t)
  PROVE  /\ pc[t] = "mark" /\ frame[t] \in Frames /\ ModuleOf(t) \in Modules
         /\ ModuleOf(t) \notin mask[frame[t]] /\ mask'[frame[t]] = Marked(t)
         /\ UNCHANGED reported
         /\ \A u \in Threads \ {t} : pc'[u] = pc[u]
<1>1. UNCHANGED reported /\ \A u \in Threads \ {t} : pc'[u] = pc[u]
  BY DEF MarkPassed, histVars, Goto, Return, FlowInv, TypeInv, TypeOK
<1>. QED
  BY <1>1, MarkForm DEF MarkMoves

LEMMA StepDone ==
  ASSUME OrderInv, DoneOK, [Next]_vars
  PROVE  DoneOK'
<1>. USE DEF OrderInv
<1>1. /\ \A f \in Frames : mask[f] \subseteq mask'[f] /\ mask'[f] \subseteq Modules
      /\ \A t \in Threads : pc[t] = "pass" => frame[t] \in Frames
  <2>1. TypeOK' /\ ThreadOK
    BY StepFlow DEF FlowInv, TypeInv
  <2>. QED
    BY <2>1, StepComes DEF TypeOK, ThreadOK, HoldsFrame
<1>2. \A f \in Frames : mask[f] = Modules => mask'[f] = Modules
  BY <1>1
<1>3. ASSUME NEW t \in Threads, OnPassThrough(t), NEW m \in Modules, NEW f \in Frames, Finished(m, f)'
      PROVE  pc[t] = "pass" /\ pc'[t] # "pass" /\ (Finished(m, f) \/ f = frame[t])
  BY <1>3 DEF OnPassThrough, Report, Return, Finished, Home, FlowInv, TypeInv, TypeOK
<1>4. ASSUME NEW m \in Modules, NEW f \in Frames, Finished(m, f)' PROVE mask'[f] = Modules
  BY <1>2, <1>3, <1>4, ReportForm DEF DoneOK
<1>5. ASSUME NEW t \in Threads, pc'[t] = "pass", NEW f, f = frame[t]
      PROVE  /\ mask'[f] = Modules /\ frame'[t] = f
             /\ \A m \in Modules : ~Finished(m, f)'
             /\ \A u \in Threads : pc'[u] = "pass" /\ frame'[u] = f => u = t
  <2>1. \A u \in Threads : pc'[u] = "pass" => frame'[u] = frame[u]
    BY PcForm
  <2>2. CASE pc[t] = "pass"
    <3>1. f \in Frames /\ mask[f] = Modules /\ mask'[f] = Modules
      BY <1>1, <1>2, <1>5, <2>2 DEF DoneOK
    <3>2. ASSUME NEW m \in Modules, Finished(m, f)' PROVE FALSE
      <4>1. ~Finished(m, f)
        BY <1>5, <2>2 DEF DoneOK
      <4>2. PICK v \in Threads : OnPassThrough(v)
        BY <3>1, <3>2, <4>1, ReportForm
      <4>3. pc[v] = "pass" /\ pc'[v] # "pass" /\ frame[v] = f
        BY <1>3, <3>1, <3>2, <4>1, <4>2
      <4>. QED
        BY <1>5, <2>2, <4>3 DEF DoneOK
    <3>3. ASSUME NEW u \in Threads, pc'[u] = "pass", frame'[u] = f PROVE u = t
      <4>1. CASE pc[u] = "pass"
        BY <1>5, <2>1, <2>2, <3>3, <4>1 DEF DoneOK
      <4>2. CASE MarkPassed(u)
        BY <2>1, <3>1, <3>3, <4>2, MarkFacts
      <4>. QED
        BY <3>3, <4>1, <4>2, PcForm
    <3>. QED
      BY <1>5, <2>1, <3>1, <3>2, <3>3
  <2>3. CASE MarkPassed(t) /\ Marked(t) = Modules
    <3>1. /\ f \in Frames /\ mask'[f] = Modules /\ mask[f] # Modules /\ UNCHANGED reported
          /\ pc[t] = "mark" /\ \A u \in Threads \ {t} : pc'[u] = pc[u]
      BY <1>5, <2>3, MarkFacts
    <3>2. \A m \in Modules : ~Finished(m, f)'
      BY <3>1 DEF DoneOK, Finished
    <3>3. ASSUME NEW u \in Threads, pc'[u] = "pass", frame'[u] = f, u # t PROVE FALSE
      <4>1. pc[u] = "pass" /\ frame[u] = f
        BY <2>1, <3>1, <3>3
      <4>. QED
        BY <3>1, <4>1 DEF DoneOK
    <3>. QED
      BY <1>5, <2>1, <3>1, <3>2, <3>3
  <2>. QED
    BY <1>5, <2>2, <2>3, PcForm
<1>. QED
  BY <1>4, <1>5 DEF DoneOK

LEMMA StepEos ==
  ASSUME OrderInv, EosOK, [Next]_vars
  PROVE  EosOK'
<1>. USE DEF OrderInv
<1>1. reported \subseteq reported'
  BY ReportForm
<1>2. ASSUME NEW f \in Frames, IsEos(f), NEW n \in mask'[f] \cap Route(SourceOf[f[1]])
      PROVE  <<"EVENT_EOS", n, f>> \in reported'
  <2>1. CASE n \in mask[f]
    BY <1>1, <1>2, <2>1 DEF EosOK
  <2>2. CASE n \notin mask[f]
    <3>1. PICK t \in Threads : MarkPassed(t)
      BY <1>2, <2>2, StepForm, PopForm DEF Quiet, Local, PopMoves, Push, CreateFrame, frameVars
    <3>2. PICK m, g, P : MarkMoves(t, m, g, P)
      BY <3>1, MarkForm
    <3>3. f = g /\ n = m /\ m = ModuleOf(t) /\ g = frame[t] /\ pc[t] = "mark"
      BY <1>2, <2>2, <3>2 DEF MarkMoves
    <3>. QED
      BY <1>1, <1>2, <3>3 DEF EosOK
  <2>. QED
    BY <2>1, <2>2
<1>3. ASSUME NEW t \in Threads, pc'[t] = "mark", IsEos(frame'[t])
      PROVE  <<"EVENT_EOS", ModuleOf(t), frame'[t]>> \in reported'
  <2>1. frame'[t] = frame[t]
    BY <1>3, PcForm
  <2>2. CASE pc[t] = "mark"
    BY <1>1, <1>3, <2>1, <2>2 DEF EosOK
  <2>3. CASE CheckFrame(t) /\ pc[t] # "mark"
    <3>1. Goto(t, "mark")
      BY <1>3, <2>3 DEF CheckFrame, Return, Home, FlowInv, TypeInv, TypeOK
    <3>. QED
      BY <1>3, <2>1, <2>3, <3>1 DEF CheckFrame, Report, Return, Home, FlowInv, TypeInv, TypeOK
  <2>. QED
    BY <1>3, <2>2, <2>3, PcForm
<1>. QED
  BY <1>2, <1>3 DEF EosOK, IsEos
-----------------------------------------------------------------------------
(* What the application sees.                                              *)

LEMMA InitDone == Init => DoneOK /\ EosOK
BY DEF Init, DoneOK, EosOK, Finished

\* OnPassThrough reports a frame after all older ones of its stream that are
\* ever reported.
LEMMA DeliverStep ==
  ASSUME OrderInv, DoneOK, NEW t \in Threads, OnPassThrough(t)
  PROVE  Delivery!Deliver(frame[t][1])
<1>. USE DEF OrderInv
<1>. DEFINE f == frame[t]
            s == f[1]
            i == f[2]
            m == ModuleOf(t)
<1>1. pc[t] = "pass" /\ UNCHANGED sent
  BY DEF OnPassThrough, frameVars
<1>2. f \in Frames /\ f = <<s, i>> /\ s \in Streams /\ i \in 1 .. MaxFrame /\ m \in Modules
  <2>1. f \in Frames /\ m \in Modules
    BY <1>1, ThreadFacts DEF FlowInv, TypeInv, ThreadOK, HoldsFrame
  <2>. QED
    BY <2>1 DEF Frames
<1>3. mask[f] = Modules /\ \A n \in Modules : ~Finished(n, f)
  BY <1>1 DEF DoneOK
<1>4. i \in 1 .. sent[s]
  <2>1. ~(i > sent[s])
    <3>1. mask[f] # {}
      BY <1>2, <1>3
    <3>2. i > sent[s] => mask[f] = {}
      BY <1>2 DEF FlowInv, MaskOK
    <3>. QED
      BY <3>1, <3>2
  <2>2. sent[s] \in Int
    BY <1>2, ConfigAssumption DEF FlowInv, TypeInv, TypeOK
  <2>. QED
    BY <1>2, <2>1, <2>2
<1>5. ASSUME NEW j \in Delivered[s] PROVE j < i
  <2>1. PICK n \in Modules : Finished(n, <<s, j>>) /\ j \in 1 .. MaxFrame
    BY <1>2 DEF Delivered
  <2>2. <<s, j>> \in Frames
    BY <1>2, <2>1 DEF Frames
  <2>3. mask[<<s, j>>] = Modules
    BY <2>1, <2>2 DEF DoneOK
  <2>4. ~Older(f, <<s, j>>)
    BY <1>1, <1>2, <2>2, <2>3 DEF LastOK, HoldsFrame
  <2>5. j # i
    BY <1>2, <1>3, <2>1
  <2>. QED
    BY <1>2, <2>1, <2>4, <2>5 DEF Older
<1>6. Delivered' = [Delivered EXCEPT ![s] = @ \cup {i}]
  <2>1. reported' = reported \cup {<<IF IsEos(f) THEN "EOS_MSG" ELSE "DONE", m, f>>}
    BY DEF OnPassThrough, Report
  <2>2. ASSUME NEW r \in Streams, NEW j \in 1 .. MaxFrame
        PROVE  (\E n \in Modules : Finished(n, <<r, j>>)') <=>
                 (\E n \in Modules : Finished(n, <<r, j>>)) \/ (r = s /\ j = i)
    <3>1. ASSUME NEW n \in Modules, NEW g
          PROVE  (Finished(n, g) \/ (n = m /\ g = f)) <=> Finished(n, g)'
      <4>1. Finished(n, g) <=> <<"DONE", n, g>> \in reported \/ <<"EOS_MSG", n, g>> \in reported
        BY DEF Finished
      <4>2. Finished(n, g)' <=> <<"DONE", n, g>> \in reported' \/ <<"EOS_MSG", n, g>> \in reported'
        BY DEF Finished
      <4>. QED
        BY <2>1, <4>1, <4>2
    <3>2. <<r, j>> = f <=> r = s /\ j = i
      BY <1>2
    <3>. QED
      BY <1>2, <3>1, <3>2
  <2>3. ASSUME NEW r \in Streams
        PROVE  Delivered'[r] = IF r = s THEN Delivered[r] \cup {i} ELSE Delivered[r]
    BY <1>2, <2>2 DEF Delivered
  <2>4. /\ Delivered' = [r \in Streams |-> Delivered'[r]]
        /\ DOMAIN Delivered = Streams
    BY DEF Delivered
  <2>. QED
    BY <1>2, <2>3, <2>4
<1>. QED
  BY <1>1, <1>4, <1>5, <1>6 DEF Delivery!Deliver

LEMMA StepDelivers ==
  ASSUME OrderInv, DoneOK, [Next]_vars
  PROVE  [Delivery!Next]_<<sent, Delivered>>
<1>. USE DEF OrderInv
<1>1. ASSUME NEW t \in Threads, OnPassThrough(t) PROVE Delivery!Next
  <2>1. frame[t] \in Frames
    BY <1>1 DEF OnPassThrough, FlowInv, TypeInv, ThreadOK, HoldsFrame
  <2>2. frame[t][1] \in Streams
    BY <2>1, FrameFacts
  <2>. QED
    BY <1>1, <2>2, DeliverStep DEF Delivery!Next
<1>2. CASE \A m \in Modules, f \in Frames : Finished(m, f)' <=> Finished(m, f)
  <2>1. UNCHANGED Delivered
    BY <1>2 DEF Delivered, Frames
  <2>2. UNCHANGED sent \/ \E t \in Threads : CreateFrame(t)
    BY StepForm, PopForm, MarkForm DEF Quiet, Local, PopMoves, Push, frameVars, MarkMoves
  <2>3. ASSUME NEW t \in Threads, CreateFrame(t) PROVE Delivery!Give(t[2])
    BY <2>1, <2>3 DEF CreateFrame, Delivery!Give
  <2>4. ASSUME NEW t \in Threads, CreateFrame(t) PROVE t[2] \in Streams
    BY <2>4, ThreadFacts DEF CreateFrame
  <2>. QED
    BY <2>1, <2>2, <2>3, <2>4 DEF Delivery!Next
<1>. QED
  BY <1>1, <1>2, ReportForm

\* Pipeline's OnPassThrough implements OrderedDelivery: the frame-done callback
\* and EOS_MSG see a stream's frames in order, each once, and none that the
\* source did not make.
THEOREM DoneInOrder == Spec => DeliversInOrder
<1>1. ASSUME Init PROVE Delivery!Init
  BY <1>1 DEF Init, Delivery!Init, Delivered, Finished
<1>2. ASSUME OrderInv, DoneOK, [Next]_vars PROVE [Delivery!Next]_<<sent, Delivered>>
  BY <1>2, StepDelivers
<1>. QED
  BY <1>1, <1>2, InitOrder, InitDone, StepOrder, StepDone, PTL DEF Spec, DeliversInOrder, Delivery!Spec

\* When EOS_MSG is posted, every module on the route has seen the EOS, and
\* TransmitData and the conveyors are through with all the frames before it.
THEOREM EosMsgEndsStream == Spec => []EosMsgIsLast
<1>1. ASSUME OrderInv, DoneOK, EosOK PROVE EosMsgIsLast
  <2> SUFFICES ASSUME NEW s \in Streams, NEW m \in Modules, NEW e, e = <<s, MaxFrame>>,
                      <<"EOS_MSG", m, e>> \in reported
               PROVE  /\ \A n \in Route(SourceOf[s]) : <<"EVENT_EOS", n, e>> \in reported
                      /\ \A i \in 1 .. MaxFrame - 1 : ~InFlight(<<s, i>>)
    BY DEF EosMsgIsLast
  <2>1. e \in Frames /\ IsEos(e) /\ e[1] = s
    BY ConfigAssumption DEF Frames, IsEos
  <2>2. mask[e] = Modules
    BY <1>1, <2>1 DEF DoneOK, Finished
  <2>3. \A n \in Route(SourceOf[s]) : <<"EVENT_EOS", n, e>> \in reported
    BY <1>1, <2>1, <2>2 DEF EosOK, Route
  <2>4. ASSUME NEW i \in 1 .. MaxFrame - 1, NEW f, f = <<s, i>> PROVE ~InFlight(f)
    <3>1. f \in Frames /\ Older(f, e)
      BY <2>1, <2>4, ConfigAssumption DEF Frames, Older
    <3>2. ASSUME NEW t \in Threads, frame[t] = f PROVE FALSE
      <4>1. pc[t] \in HoldsFrame
        BY <1>1, <2>4, <3>2 DEF OrderInv, FlowInv, TypeInv, ThreadOK, NoFrame
      <4>. QED
        BY <1>1, <2>1, <2>2, <3>1, <3>2, <4>1, ThreadFacts DEF OrderInv, LastOK
    <3>3. ASSUME NEW c \in Conveyors, NEW i2 \in DOMAIN conveyor[c], conveyor[c][i2] = f PROVE FALSE
      <4>1. c[1] \in NonHeads /\ c[1] \in Modules
        BY ThreadFacts DEF TaskThreads, ModuleOf
      <4>. QED
        BY <1>1, <2>1, <2>2, <3>1, <3>3, <4>1 DEF OrderInv, LineOK, QueuedAt
    <3>. QED
      BY <3>2, <3>3 DEF InFlight
  <2>. QED
    BY <2>3, <2>4
<1>. QED
  BY <1>1, InitOrder, InitDone, StepOrder, StepDone, StepEos, PTL DEF Spec
=============================================================================
