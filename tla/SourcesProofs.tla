---------------------------- MODULE SourcesProofs ----------------------------
(***************************************************************************)
(* Proofs about Sources, for any number of stream ids, handlers and        *)
(* callers.                                                                *)
(***************************************************************************)
EXTENDS Sources, WellFoundedInduction, TLAPS

\* A caller in RemoveSource works on a stream id.
One == {"find", "join", "poll", "unset", "erase"}
RidOK == \A c \in Callers : pc[c] \in One => rid[c] \in Ids

Labels == One \cup {"idle", "unlock", "stopall", "joinall", "pollall", "pollnext"}
-----------------------------------------------------------------------------
(* Types                                                                    *)

LEMMA IndexType ==
  ASSUME TypeOK, NEW i \in Ids
  PROVE  IndexFor(i) \in 0 .. NoIndex
<1>. DEFINE free == 0 .. MaxStreamNum - 1 \ Range(idxMap)
<1>1. MaxStreamNum \in Nat /\ NoIndex = MaxStreamNum
  BY SourcesAssumption DEF NoIndex
<1>2. CASE idxMap[i] # NoIndex \/ free = {}
  BY <1>2 DEF IndexFor, TypeOK
<1>3. CASE ~(idxMap[i] # NoIndex \/ free = {})
  <2>1. free \subseteq 0 .. NoIndex /\ free \subseteq Nat
    BY <1>1
  <2>2. \E n \in free : \A m \in free : n <= m
    <3>. DEFINE R == {ss \in Nat \X Nat : ss[1] < ss[2]}
    <3>1. IsWellFoundedOn(R, Nat)
      BY NatLessThanWellFounded DEF OpToRel
    <3>2. free # {}
      BY <1>3
    <3>3. \E n \in free : \A m \in free : ~(<<m, n>> \in R)
      <4>. HIDE DEF R, free
      <4>. QED
        BY <2>1, <3>1, <3>2, WFMin, Zenon
    <3>4. PICK n \in free : \A m \in free : ~(<<m, n>> \in R)
      BY <3>3
    <3>5. ASSUME NEW m \in free PROVE n <= m
      <4>1. ~(<<m, n>> \in R) /\ m \in Nat /\ n \in Nat
        BY <2>1, <3>4, <3>5
      <4>. QED
        BY <4>1
    <3>. QED
      BY <3>4, <3>5
  <2>3. IndexFor(i) = CHOOSE n \in free : \A m \in free : n <= m
    BY <1>3 DEF IndexFor
  <2>. QED
    BY <2>1, <2>2, <2>3
<1>. QED
  BY <1>2, <1>3

LEMMA InitTypes == Init => TypeOK /\ RidOK
<1>. SUFFICES ASSUME Init PROVE TypeOK /\ RidOK
  OBVIOUS
<1>. USE DEF Init
<1>1. 0 \in 0 .. MaxHandler /\ NoIndex \in 0 .. NoIndex /\ 0 \in 0 .. MaxRemove /\ 0 <= MaxFrame
  BY SourcesAssumption, SMT DEF NoIndex
<1>2. /\ made \in 0 .. MaxHandler /\ id \in [Handlers -> Ids]
      /\ index \in [Handlers -> 0 .. NoIndex] /\ idxMap \in [Ids -> 0 .. NoIndex]
      /\ calls \in 0 .. MaxRemove
  BY <1>1
<1>3. \A h \in Handlers : flight[h] \in Seq({"data", "eos"}) /\ Len(flight[h]) <= MaxFrame
  BY <1>1
<1>4. /\ held \in [Handlers -> BOOLEAN] /\ alive \in [Handlers -> BOOLEAN]
      /\ running \in [Handlers -> BOOLEAN] /\ eosSent \in [Handlers -> BOOLEAN]
      /\ thread \in [Handlers -> {"none", "open", "run", "process", "send", "ended"}]
      /\ source_map \in [Ids -> Handlers \cup {None}] /\ mutex \in Callers \cup {NoCaller}
      /\ removed \subseteq Ids /\ mixed \subseteq Ids /\ raced \subseteq Ids
      /\ eosMap \in [Ids -> {"absent", "coming", "reached"}]
      /\ rid \in [Callers -> Ids \cup {"all"}] /\ force \in [Callers -> BOOLEAN]
      /\ target \in [Callers -> Handlers \cup {None}] /\ todo \in [Callers -> SUBSET Ids]
      /\ aborted \in BOOLEAN
  OBVIOUS
<1>5. pc \in [Callers -> Labels] /\ RidOK
  BY DEF Labels, One, RidOK
<1>. QED
  BY <1>2, <1>3, <1>4, <1>5 DEF TypeOK, Labels, One

LEMMA StepTypes ==
  ASSUME TypeOK, RidOK, Next
  PROVE  TypeOK' /\ RidOK'
<1>. USE DEF handlerVars, threadVars, tableVars, callVars
<1>1. ASSUME NEW h \in Handlers, MakeHandler(h) PROVE TypeOK' /\ RidOK'
  <2>1. id[h] \in Ids /\ IndexFor(id[h]) \in 0 .. NoIndex
    BY IndexType DEF TypeOK
  <2>. QED
    BY <1>1, <2>1 DEF MakeHandler, TypeOK, RidOK, Handlers
<1>2. ASSUME NEW h \in Handlers, Drop(h) PROVE TypeOK' /\ RidOK'
  <2>1. running' \in [Handlers -> BOOLEAN]
    BY <1>2, Zenon DEF Drop, TypeOK
  <2>. QED
    BY <1>2, <2>1 DEF Drop, TypeOK, RidOK
<1>3. ASSUME NEW h \in Handlers, Destroy(h) PROVE TypeOK' /\ RidOK'
  <2>1. NoIndex \in 0 .. NoIndex
    BY SourcesAssumption DEF NoIndex
  <2>. QED
    BY <1>3, <2>1 DEF Destroy, TypeOK, RidOK
<1>4. ASSUME NEW h \in Handlers, AddSource(h) PROVE TypeOK' /\ RidOK'
  <2>1. raced' \subseteq Ids /\ removed' \subseteq Ids
    BY <1>4 DEF AddSource, TypeOK
  <2>2. CASE UNCHANGED <<source_map, threadVars, aborted>>
    BY <1>4, <2>1, <2>2 DEF AddSource, TypeOK, RidOK
  <2>3. CASE /\ running' = [running EXCEPT ![h] = TRUE]
             /\ aborted' = (thread[h] # "none")
             /\ thread' = [thread EXCEPT ![h] = "open"]
             /\ source_map' = [source_map EXCEPT ![id[h]] = h]
             /\ UNCHANGED <<eosSent, flight, mixed>>
    <3>1. /\ running' \in [Handlers -> BOOLEAN] /\ aborted' \in BOOLEAN
          /\ thread' \in [Handlers -> {"none", "open", "run", "process", "send", "ended"}]
          /\ source_map' \in [Ids -> Handlers \cup {None}]
      BY <2>3, Zenon DEF TypeOK
    <3>. QED
      BY <1>4, <2>1, <2>3, <3>1 DEF AddSource, TypeOK, RidOK
  <2>. QED
    BY <1>4, <2>2, <2>3 DEF AddSource
<1>5. ASSUME NEW h \in Handlers, ThreadStep(h) PROVE TypeOK' /\ RidOK'
  <2>1. ASSUME NEW l \in {"run", "ended", "process", "send"}, Leave(h, l)
        PROVE  TypeOK' /\ RidOK'
    <3>1. /\ thread' = [thread EXCEPT ![h] = l]
          /\ UNCHANGED <<running, eosSent, flight, mixed, handlerVars, tableVars, callVars,
                         eosMap, aborted>>
      BY <2>1, Zenon DEF Leave
    <3>2. thread' \in [Handlers -> {"none", "open", "run", "process", "send", "ended"}]
      BY <3>1 DEF TypeOK
    <3>. QED
      BY <3>1, <3>2 DEF TypeOK, RidOK
  <2>2. CASE Prepare(h) \/ LoopTest(h) \/ CheckRemoved(h) \/ RoundEnds(h)
    <3>1. \E l \in {"run", "ended", "process", "send"} : Leave(h, l)
      BY <2>2 DEF Prepare, LoopTest, CheckRemoved, RoundEnds
    <3>. QED
      BY <2>1, <3>1
  <2>3. CASE SendData(h)
    <3>1. Append(flight[h], "data") \in Seq({"data", "eos"}) /\ Len(Append(flight[h], "data")) <= MaxFrame
      BY <2>3, SourcesAssumption DEF SendData, TypeOK
    <3>2. \A g \in Handlers : flight'[g] \in Seq({"data", "eos"}) /\ Len(flight'[g]) <= MaxFrame
      BY <2>3, <3>1 DEF SendData, TypeOK
    <3>. QED
      BY <2>3, <3>2 DEF SendData, TypeOK, RidOK
  <2>4. CASE EndOfStream(h)
    <3>1. Append(flight[h], "eos") \in Seq({"data", "eos"}) /\ Len(Append(flight[h], "eos")) <= MaxFrame
      BY <2>4, SourcesAssumption DEF EndOfStream, TypeOK
    <3>2. \A g \in Handlers : flight'[g] \in Seq({"data", "eos"}) /\ Len(flight'[g]) <= MaxFrame
      <4>1. CASE eosSent[h]
        BY <2>4, <4>1 DEF EndOfStream, TypeOK
      <4>2. CASE ~eosSent[h]
        <5>1. flight' = [flight EXCEPT ![h] = Append(flight[h], "eos")]
          BY <2>4, <4>2, Zenon DEF EndOfStream
        <5>. QED
          BY <3>1, <5>1 DEF TypeOK
      <4>. QED
        BY <4>1, <4>2
    <3>3. mixed' \subseteq Ids /\ eosMap' \in [Ids -> {"absent", "coming", "reached"}]
      <4>1. CASE eosSent[h]
        BY <2>4, <4>1 DEF EndOfStream, TypeOK
      <4>2. CASE ~eosSent[h]
        <5>1. /\ mixed' = mixed \cup {i \in {id[h]} : EosComing(i) # {}}
              /\ eosMap' = [eosMap EXCEPT ![id[h]] = "coming"]
          BY <2>4, <4>2, Zenon DEF EndOfStream
        <5>2. id[h] \in Ids /\ mixed \subseteq Ids /\ eosMap \in [Ids -> {"absent", "coming", "reached"}]
          BY DEF TypeOK
        <5>. QED
          BY <5>1, <5>2
      <4>. QED
        BY <4>1, <4>2
    <3>4. /\ thread' \in [Handlers -> {"none", "open", "run", "process", "send", "ended"}]
          /\ eosSent' \in [Handlers -> BOOLEAN]
      BY <2>4 DEF EndOfStream, TypeOK
    <3>5. UNCHANGED <<running, handlerVars, tableVars, callVars, aborted>>
      BY <2>4 DEF EndOfStream
    <3>. QED
      BY <3>2, <3>3, <3>4, <3>5 DEF TypeOK, RidOK
  <2>. QED
    BY <1>5, <2>2, <2>3, <2>4 DEF ThreadStep
<1>6. ASSUME NEW h \in Handlers, FrameGone(h) PROVE TypeOK' /\ RidOK'
  <2>1. Tail(flight[h]) \in Seq({"data", "eos"}) /\ Len(Tail(flight[h])) <= MaxFrame
    BY <1>6, SourcesAssumption DEF FrameGone, TypeOK
  <2>2. \A g \in Handlers : flight'[g] \in Seq({"data", "eos"}) /\ Len(flight'[g]) <= MaxFrame
    BY <1>6, <2>1 DEF FrameGone, TypeOK
  <2>. QED
    BY <1>6, <2>2 DEF FrameGone, TypeOK, RidOK
<1>7. ASSUME NEW c \in Callers, NEW f \in BOOLEAN, NEW i \in Ids, RemoveSource(c, i, f)
      PROVE  TypeOK' /\ RidOK'
  BY <1>7, SourcesAssumption DEF RemoveSource, Call, Goto, TypeOK, RidOK, One
<1>8. ASSUME NEW c \in Callers, NEW f \in BOOLEAN, RemoveSources(c, f)
      PROVE  TypeOK' /\ RidOK'
  BY <1>8, SourcesAssumption DEF RemoveSources, Call, Goto, ListedIds, TypeOK, RidOK, One
<1>9. ASSUME NEW c \in Callers, CallerStep(c) PROVE TypeOK' /\ RidOK'
  <2>. USE DEF Goto, RidOK, One
  <2>1. CASE Find(c)
    <3>1. rid[c] \in Ids /\ source_map[rid[c]] \in Handlers \cup {None}
      BY <1>9, <2>1 DEF Find, TypeOK
    <3>2. CASE source_map[rid[c]] = None
      <4>1. /\ pc' \in [Callers -> Labels] /\ rid' \in [Callers -> Ids \cup {"all"}]
            /\ force' \in [Callers -> BOOLEAN] /\ target' \in [Callers -> Handlers \cup {None}]
        <5>1. Return(c)
          BY <2>1, <3>2, Zenon DEF Find
        <5>. QED
          BY <5>1 DEF Return, TypeOK, Labels, One
      <4>2. RidOK'
        <5>1. Return(c)
          BY <2>1, <3>2, Zenon DEF Find
        <5>2. \A d \in Callers : pc'[d] \in One => d # c /\ pc'[d] = pc[d] /\ rid'[d] = rid[d]
          BY <5>1 DEF Return, TypeOK
        <5>. QED
          BY <5>2
      <4>. QED
        BY <2>1, <3>2, <4>1, <4>2 DEF Find, TypeOK, Labels
    <3>3. CASE source_map[rid[c]] # None
      <4>1. /\ pc' = [pc EXCEPT ![c] = "join"] /\ mutex' = c
            /\ target' = [target EXCEPT ![c] = source_map[rid[c]]]
            /\ running' = [running EXCEPT ![source_map[rid[c]]] = FALSE]
            /\ UNCHANGED <<rid, force, todo, calls, raced, source_map, removed, handlerVars,
                           thread, eosSent, flight, mixed, eosMap, aborted>>
        BY <2>1, <3>3, Zenon DEF Find
      <4>2. /\ pc' \in [Callers -> Labels] /\ target' \in [Callers -> Handlers \cup {None}]
            /\ running' \in [Handlers -> BOOLEAN]
        BY <3>1, <4>1 DEF TypeOK, Labels
      <4>3. RidOK'
        BY <2>1, <4>1 DEF Find, TypeOK
      <4>. QED
        BY <1>9, <4>1, <4>2, <4>3 DEF TypeOK, Labels
    <3>. QED
      BY <3>2, <3>3
  <2>2. CASE CloseDone(c)
    BY <2>2 DEF CloseDone, TypeOK
  <2>3. CASE Poll(c)
    BY <2>3 DEF Poll, Forget, TypeOK
  <2>4. CASE Unset(c)
    BY <2>4 DEF Unset, TypeOK
  <2>5. CASE Erase(c)
    <3>1. running' \in [Handlers -> BOOLEAN]
      BY <2>5, Zenon DEF Erase, StopUnheld, TypeOK
    <3>. QED
      BY <2>5, <3>1 DEF Erase, TypeOK
  <2>6. CASE Unlock(c)
    BY <2>6 DEF Unlock, Return, TypeOK
  <2>7. CASE StopNext(c)
    <3>. DEFINE more == {h \in Handlers : Listed(h) /\ running[h]}
    <3>1. CASE more = {}
      <4>1. /\ pc' = [pc EXCEPT ![c] = "pollall"] /\ mutex' = NoCaller
            /\ UNCHANGED <<target, running, rid, force, todo, calls, raced, source_map, removed,
                           handlerVars, thread, eosSent, flight, mixed, eosMap, aborted>>
        BY <2>7, <3>1, Zenon DEF StopNext
      <4>2. pc' \in [Callers -> Labels]
        BY <4>1 DEF TypeOK, Labels
      <4>. QED
        BY <4>1, <4>2 DEF TypeOK, Labels
    <3>2. CASE more # {}
      <4>1. PICK h \in more : /\ Goto(c, "joinall") /\ mutex' = c
                              /\ target' = [target EXCEPT ![c] = h]
                              /\ running' = [running EXCEPT ![h] = FALSE]
        BY <2>7, <3>2, Zenon DEF StopNext
      <4>2. h \in Handlers
        OBVIOUS
      <4>. HIDE DEF more
      <4>. QED
        BY <1>9, <2>7, <4>1, <4>2 DEF StopNext, TypeOK
    <3>. QED
      BY <3>1, <3>2
  <2>8. CASE JoinNext(c)
    BY <2>8 DEF JoinNext, TypeOK
  <2>9. CASE PollBegin(c)
    BY <2>9 DEF PollBegin, ListedIds, TypeOK
  <2>10. CASE PollNext(c)
    BY <2>10 DEF PollNext, Forget, TypeOK
  <2>11. CASE Clear(c)
    <3>1. running' \in [Handlers -> BOOLEAN]
      BY <2>11, Zenon DEF Clear, StopUnheld, TypeOK
    <3>. QED
      BY <2>11, <3>1 DEF Clear, TypeOK
  <2>. QED
    BY <1>9, <2>1, <2>2, <2>3, <2>4, <2>5, <2>6, <2>7, <2>8, <2>9, <2>10, <2>11 DEF CallerStep
<1>. QED
  BY <1>1, <1>2, <1>3, <1>4, <1>5, <1>6, <1>7, <1>8, <1>9 DEF Next

\* Every reachable state is well typed, for any number of handlers and callers;
\* in particular no frame of a handler exceeds the room the pipeline has.
THEOREM SourceTypes == Spec => []TypeOK
<1>1. TypeOK /\ RidOK /\ [Next]_vars => (TypeOK /\ RidOK)'
  <2>1. CASE UNCHANGED vars
    BY <2>1 DEF vars, handlerVars, threadVars, tableVars, callVars, TypeOK, RidOK
  <2>. QED
    BY <2>1, StepTypes
<1>. QED
  BY <1>1, InitTypes, PTL DEF Spec
-----------------------------------------------------------------------------
(* The removed flag                                                         *)

\* The forced removal that still has to clear the flag of stream i.
Owns(c, i) ==
  /\ force[c]
  /\ \/ rid[c] = i /\ pc[c] \in {"find", "join", "poll", "unset"}
     \/ rid[c] = "all" /\ pc[c] \in {"stopall", "joinall", "pollall"}
     \/ rid[c] = "all" /\ pc[c] = "pollnext" /\ i \in todo[c]

FlagInv == \A i \in removed : source_map[i] # None => \E c \in Callers : Owns(c, i)

LEMMA InitFlag == Init => FlagInv
BY DEF Init, FlagInv

LEMMA StepFlag ==
  ASSUME TypeOK, RidOK, FlagInv, Next
  PROVE  FlagInv'
<1>. USE DEF handlerVars, threadVars, tableVars, callVars
<1>. SUFFICES ASSUME NEW i \in Ids, i \in removed', source_map'[i] # None
              PROVE  \E c \in Callers : Owns(c, i)'
  BY StepTypes DEF FlagInv, TypeOK
<1>. DEFINE Old == i \in removed /\ source_map[i] # None
<1>1. Old => \E c \in Callers : Owns(c, i)
  BY DEF FlagInv
<1>2. ASSUME Old, UNCHANGED <<force, rid, pc, todo>> PROVE \E c \in Callers : Owns(c, i)'
  BY <1>1, <1>2 DEF Owns
<1>3. ASSUME NEW h \in Handlers, MakeHandler(h) \/ Drop(h) \/ Destroy(h) \/ AddSource(h)
      PROVE  \E c \in Callers : Owns(c, i)'
  <2>1. UNCHANGED <<force, rid, pc, todo>>
    BY <1>3 DEF MakeHandler, Drop, Destroy, AddSource
  <2>2. CASE MakeHandler(h) \/ Drop(h) \/ Destroy(h)
    BY <1>2, <2>1, <2>2 DEF MakeHandler, Drop, Destroy
  <2>3. CASE AddSource(h)
    <3>1. i # id[h] /\ i \in removed
      BY <2>3 DEF AddSource
    <3>2. source_map[i] # None
      BY <2>3, <3>1 DEF AddSource, TypeOK
    <3>. QED
      BY <1>2, <2>1, <3>1, <3>2
  <2>. QED
    BY <1>3, <2>2, <2>3
<1>4. ASSUME NEW h \in Handlers, ThreadStep(h) \/ FrameGone(h)
      PROVE  \E c \in Callers : Owns(c, i)'
  BY <1>2, <1>4 DEF ThreadStep, Prepare, LoopTest, CheckRemoved, RoundEnds, Leave,
                        SendData, EndOfStream, FrameGone
<1>5. ASSUME NEW c \in Callers, NEW f \in BOOLEAN, NEW j \in Ids, RemoveSource(c, j, f)
      PROVE  \E d \in Callers : Owns(d, i)'
  <2>1. CASE Old
    <3>1. PICK d \in Callers : Owns(d, i)
      BY <1>1, <2>1
    <3>2. d # c
      BY <1>5, <3>1 DEF RemoveSource, Call, Owns
    <3>. QED
      BY <1>5, <3>1, <3>2 DEF RemoveSource, Call, Goto, Owns, TypeOK
  <2>2. CASE ~Old
    <3>1. f /\ i = j
      BY <1>5, <2>2 DEF RemoveSource
    <3>2. Owns(c, i)'
      BY <1>5, <3>1 DEF RemoveSource, Call, Goto, Owns, TypeOK
    <3>. QED
      BY <3>2
  <2>. QED
    BY <2>1, <2>2
<1>6. ASSUME NEW c \in Callers, NEW f \in BOOLEAN, RemoveSources(c, f)
      PROVE  \E d \in Callers : Owns(d, i)'
  <2>1. CASE Old
    <3>1. PICK d \in Callers : Owns(d, i)
      BY <1>1, <2>1
    <3>2. d # c
      BY <1>6, <3>1 DEF RemoveSources, Call, Owns
    <3>. QED
      BY <1>6, <3>1, <3>2 DEF RemoveSources, Call, Goto, Owns, TypeOK
  <2>2. CASE ~Old
    <3>1. f
      BY <1>6, <2>2 DEF RemoveSources
    <3>2. Owns(c, i)'
      BY <1>6, <3>1 DEF RemoveSources, Call, Goto, Owns, TypeOK
    <3>. QED
      BY <3>2
  <2>. QED
    BY <2>1, <2>2
<1>7. ASSUME NEW c \in Callers, CallerStep(c)
      PROVE  \E d \in Callers : Owns(d, i)'
  <2>. USE DEF Goto
  <2>1. i \in removed
    BY <1>7 DEF CallerStep, Find, CloseDone, Poll, Unset, Erase, Unlock, StopNext, JoinNext,
                PollBegin, PollNext, Clear
  <2>2. source_map[i] # None
    <3>1. CASE UNCHANGED source_map
      BY <3>1
    <3>2. CASE Erase(c)
      BY <3>2, <1>7 DEF Erase, TypeOK
    <3>3. CASE Clear(c)
      BY <3>3 DEF Clear
    <3>. QED
      BY <1>7, <3>1, <3>2, <3>3
         DEF CallerStep, Find, CloseDone, Poll, Unset, Unlock, StopNext, JoinNext, PollBegin, PollNext
  <2>3. PICK d \in Callers : Owns(d, i)
    BY <1>1, <2>1, <2>2
  <2>4. ASSUME d # c, UNCHANGED todo PROVE Owns(d, i)'
    <3>1. /\ pc'[d] = pc[d] /\ rid'[d] = rid[d] /\ force'[d] = force[d]
      BY <1>7, <2>4 DEF CallerStep, Find, CloseDone, Poll, Unset, Erase, Unlock, StopNext, JoinNext,
                PollBegin, PollNext, Clear, Return, TypeOK
    <3>. QED
      BY <2>3, <2>4, <3>1 DEF Owns
  <2>5. CASE Find(c)
    BY <1>7, <2>2, <2>3, <2>4, <2>5 DEF Find, Owns, TypeOK, Return
  <2>6. CASE CloseDone(c)
    BY <1>7, <2>3, <2>4, <2>6 DEF CloseDone, Owns, TypeOK
  <2>7. CASE Poll(c)
    BY <1>7, <2>3, <2>4, <2>7 DEF Poll, Owns, TypeOK
  <2>8. CASE Unset(c)
    <3>1. d # c
      <4>. SUFFICES ASSUME d = c PROVE FALSE
        OBVIOUS
      <4>1. rid[c] = i
        BY <2>3, <2>8 DEF Unset, Owns
      <4>. QED
        BY <2>8, <4>1 DEF Unset
    <3>. QED
      BY <2>4, <2>8, <3>1 DEF Unset
  <2>9. CASE Erase(c) \/ Unlock(c)
    <3>1. d # c
      BY <2>3, <2>9 DEF Erase, Unlock, Owns
    <3>. QED
      BY <2>4, <2>9, <3>1 DEF Erase, Unlock
  <2>10. CASE StopNext(c)
    <3>1. CASE d # c
      BY <2>4, <2>10, <3>1 DEF StopNext
    <3>2. CASE d = c
      <4>1. pc'[c] \in {"joinall", "pollall"}
        BY <1>7, <2>10 DEF StopNext, TypeOK
      <4>2. force[c] /\ (rid[c] = "all") /\ UNCHANGED <<force, rid>>
        <5>1. pc[c] = "stopall" /\ UNCHANGED <<force, rid>>
          BY <2>10 DEF StopNext
        <5>. QED
          BY <2>3, <3>2, <5>1 DEF Owns
      <4>3. Owns(c, i)'
        BY <4>1, <4>2 DEF Owns
      <4>. QED
        BY <4>3
    <3>. QED
      BY <3>1, <3>2
  <2>11. CASE JoinNext(c)
    BY <1>7, <2>3, <2>4, <2>11 DEF JoinNext, Owns, TypeOK
  <2>12. CASE PollBegin(c)
    <3>1. /\ force'[d] = force[d] /\ rid'[d] = rid[d]
          /\ IF d = c THEN pc'[d] = "pollnext" /\ todo'[d] = ListedIds
                      ELSE pc'[d] = pc[d] /\ todo'[d] = todo[d]
      BY <1>7, <2>12 DEF PollBegin, TypeOK
    <3>2. pc[c] = "pollall" /\ i \in ListedIds
      BY <2>2, <2>12 DEF PollBegin, ListedIds
    <3>3. Owns(d, i)'
      BY <2>3, <3>1, <3>2 DEF Owns
    <3>. QED
      BY <3>3
  <2>13. CASE PollNext(c)
    <3>1. PICK j \in todo[c] : /\ removed' = removed \ {j}
                               /\ todo' = [todo EXCEPT ![c] = @ \ {j}]
      BY <2>13 DEF PollNext
    <3>2. i # j /\ UNCHANGED <<pc, rid, force>>
      BY <2>13, <3>1 DEF PollNext
    <3>3. i \in todo[d] => i \in todo'[d]
      BY <3>1, <3>2 DEF TypeOK
    <3>4. Owns(d, i)'
      BY <2>3, <3>2, <3>3 DEF Owns
    <3>. QED
      BY <3>4
  <2>14. CASE Clear(c)
    BY <2>14 DEF Clear
  <2>. QED
    BY <1>7, <2>5, <2>6, <2>7, <2>8, <2>9, <2>10, <2>11, <2>12, <2>13, <2>14 DEF CallerStep
<1>. QED
  BY <1>3, <1>4, <1>5, <1>6, <1>7 DEF Next

\* The frames of a stream in source_map_ are dropped only while a forced removal of
\* it is in progress, for any number of streams, removals and threads: the flag of
\* SetStreamRemoved always has a call that will clear it, or no stream to harm.
THEOREM NeverDropsForNobody == Spec => []ActiveNotDropped
<1>1. TypeOK /\ RidOK /\ FlagInv /\ [Next]_vars => (TypeOK /\ RidOK /\ FlagInv)'
  <2>1. CASE UNCHANGED vars
    BY <2>1 DEF vars, handlerVars, threadVars, tableVars, callVars, TypeOK, RidOK, FlagInv, Owns
  <2>. QED
    BY <2>1, StepTypes, StepFlag
<1>2. TypeOK /\ FlagInv => ActiveNotDropped
  <2>. SUFFICES ASSUME TypeOK, FlagInv, NEW i \in removed, source_map[i] # None
                PROVE  \E c \in Busy(i) : force[c]
    BY DEF ActiveNotDropped
  <2>1. PICK c \in Callers : Owns(c, i)
    BY DEF FlagInv
  <2>2. c \in Busy(i) /\ force[c]
    BY <2>1 DEF Owns, Busy
  <2>. QED
    BY <2>2
<1>. QED
  BY <1>1, <1>2, InitTypes, InitFlag, PTL DEF Spec
-----------------------------------------------------------------------------
(* What a step leaves alone                                                 *)

Found == {"join", "poll", "unset", "erase"}
All == {"stopall", "joinall", "pollall", "pollnext"}

HandlerStep(h) ==
  MakeHandler(h) \/ Drop(h) \/ Destroy(h) \/ AddSource(h) \/ ThreadStep(h) \/ FrameGone(h)

CallStep(c) ==
  \E f \in BOOLEAN : RemoveSources(c, f) \/ \E i \in Ids : RemoveSource(c, i, f)

LEMMA StepKinds ==
  Next => \/ \E h \in Handlers : HandlerStep(h)
          \/ \E c \in Callers : CallStep(c) \/ CallerStep(c)
BY DEF Next, HandlerStep, CallStep

LEMMA HandlerKeeps ==
  ASSUME NEW h \in Handlers, HandlerStep(h)
  PROVE  /\ UNCHANGED <<pc, rid, force, target, todo, mutex, id>>
         /\ raced \subseteq raced' /\ mixed \subseteq mixed'
<1>. USE DEF handlerVars, threadVars, tableVars, callVars
<1>1. CASE MakeHandler(h) \/ Drop(h) \/ Destroy(h)
  BY <1>1 DEF MakeHandler, Drop, Destroy
<1>2. CASE AddSource(h)
  BY <1>2 DEF AddSource
<1>3. CASE ThreadStep(h) \/ FrameGone(h)
  <2>1. UNCHANGED <<pc, rid, force, target, todo, mutex, id, raced>>
    BY <1>3 DEF ThreadStep, Prepare, LoopTest, CheckRemoved, RoundEnds, Leave, SendData,
                EndOfStream, FrameGone
  <2>2. mixed \subseteq mixed'
    BY <1>3 DEF ThreadStep, Prepare, LoopTest, CheckRemoved, RoundEnds, Leave, SendData,
                EndOfStream, FrameGone
  <2>. QED
    BY <2>1, <2>2
<1>. QED
  BY <1>1, <1>2, <1>3 DEF HandlerStep

LEMMA CallKeeps ==
  ASSUME TypeOK, NEW c \in Callers, CallStep(c)
  PROVE  /\ UNCHANGED <<handlerVars, threadVars, source_map, mutex, target, todo, eosMap, aborted>>
         /\ raced \subseteq raced' /\ pc[c] = "idle"
         /\ (pc'[c] = "find" /\ rid'[c] \in Ids) \/ (pc'[c] = "stopall" /\ rid'[c] = "all")
         /\ \A d \in Callers \ {c} :
              pc'[d] = pc[d] /\ rid'[d] = rid[d] /\ force'[d] = force[d]
<1>. USE DEF Goto
<1>1. ASSUME NEW f \in BOOLEAN, NEW i \in Ids, RemoveSource(c, i, f)
      PROVE  /\ pc' = [pc EXCEPT ![c] = "find"] /\ rid' = [rid EXCEPT ![c] = i]
             /\ force' = [force EXCEPT ![c] = f] /\ pc[c] = "idle" /\ raced \subseteq raced'
             /\ UNCHANGED <<handlerVars, threadVars, source_map, mutex, target, todo, eosMap, aborted>>
  BY <1>1, Zenon DEF RemoveSource, Call
<1>2. ASSUME NEW f \in BOOLEAN, RemoveSources(c, f)
      PROVE  /\ pc' = [pc EXCEPT ![c] = "stopall"] /\ rid' = [rid EXCEPT ![c] = "all"]
             /\ force' = [force EXCEPT ![c] = f] /\ pc[c] = "idle" /\ raced \subseteq raced'
             /\ UNCHANGED <<handlerVars, threadVars, source_map, mutex, target, todo, eosMap, aborted>>
  BY <1>2, Zenon DEF RemoveSources, Call
<1>3. pc \in [Callers -> Labels] /\ rid \in [Callers -> Ids \cup {"all"}] /\ force \in [Callers -> BOOLEAN]
  BY DEF TypeOK, Labels, One
<1>4. PICK f \in BOOLEAN : RemoveSources(c, f) \/ \E i \in Ids : RemoveSource(c, i, f)
  BY Zenon DEF CallStep
<1>. HIDE DEF Goto
<1>5. CASE RemoveSources(c, f)
  BY <1>2, <1>3, <1>5
<1>6. CASE \E i \in Ids : RemoveSource(c, i, f)
  <2>1. PICK i \in Ids : RemoveSource(c, i, f)
    BY <1>6, Zenon
  <2>. QED
    BY <1>1, <1>3, <2>1
<1>. QED
  BY <1>4, <1>5, <1>6

LEMMA CallerKeeps ==
  ASSUME TypeOK, NEW c \in Callers, CallerStep(c)
  PROVE  /\ UNCHANGED <<handlerVars, eosSent, flight, mixed, raced, aborted>>
         /\ \A d \in Callers \ {c} :
              /\ pc'[d] = pc[d] /\ rid'[d] = rid[d] /\ force'[d] = force[d]
              /\ target'[d] = target[d] /\ todo'[d] = todo[d]
         /\ pc'[c] # "idle" => pc[c] # "idle" /\ rid'[c] = rid[c] /\ force'[c] = force[c]
<1>. USE DEF handlerVars, threadVars, tableVars, callVars, Goto, Return
<1>1. UNCHANGED <<handlerVars, eosSent, flight, mixed, raced, aborted>>
  BY DEF CallerStep, Find, CloseDone, Poll, Unset, Erase, Unlock, StopNext, JoinNext, PollBegin,
         PollNext, Clear
<1>2. /\ pc \in [Callers -> Labels] /\ rid \in [Callers -> Ids \cup {"all"}]
      /\ force \in [Callers -> BOOLEAN] /\ target \in [Callers -> Handlers \cup {None}]
      /\ todo \in [Callers -> SUBSET Ids]
  BY DEF TypeOK, Labels, One
<1>3. CASE Find(c)
  BY <1>1, <1>2, <1>3 DEF Find
<1>4. CASE CloseDone(c) \/ Poll(c) \/ Unset(c) \/ Erase(c) \/ Unlock(c)
  BY <1>1, <1>2, <1>4 DEF CloseDone, Poll, Unset, Erase, Unlock
<1>5. CASE StopNext(c) \/ JoinNext(c)
  BY <1>1, <1>2, <1>5 DEF StopNext, JoinNext
<1>6. CASE PollBegin(c) \/ PollNext(c) \/ Clear(c)
  BY <1>1, <1>2, <1>6 DEF PollBegin, PollNext, Clear
<1>. QED
  BY <1>3, <1>4, <1>5, <1>6 DEF CallerStep

-----------------------------------------------------------------------------
(* The mutex and the removals of one id                                     *)

LocksOK ==
  \A c \in Callers :
    /\ pc[c] \in {"join", "unlock", "joinall", "pollnext"} => mutex = c
    /\ pc[c] \in All => rid[c] = "all"

LEMMA CallerMutex ==
  ASSUME TypeOK, LocksOK, NEW c \in Callers, CallerStep(c)
  PROVE  /\ mutex' = mutex \/ mutex \in {NoCaller, c}
         /\ pc'[c] \in {"join", "unlock", "joinall", "pollnext"} => mutex' = c
         /\ pc'[c] \in All => pc[c] \in All
<1>. USE DEF Goto, Return, tableVars
<1>1. pc \in [Callers -> Labels]
  BY DEF TypeOK, Labels, One
<1>2. CASE Find(c)
  BY <1>1, <1>2 DEF Find, All
<1>3. CASE CloseDone(c)
  BY <1>1, <1>3 DEF CloseDone, LocksOK, All
<1>4. CASE Poll(c) \/ Unset(c) \/ Erase(c)
  BY <1>1, <1>4 DEF Poll, Unset, Erase, All
<1>5. CASE Unlock(c)
  BY <1>1, <1>5 DEF Unlock, LocksOK, All
<1>6. CASE StopNext(c)
  BY <1>1, <1>6 DEF StopNext, All
<1>7. CASE JoinNext(c) \/ PollBegin(c) \/ PollNext(c) \/ Clear(c)
  BY <1>1, <1>7 DEF JoinNext, PollBegin, PollNext, Clear, LocksOK, All
<1>. QED
  BY <1>2, <1>3, <1>4, <1>5, <1>6, <1>7 DEF CallerStep

LEMMA StepLocks ==
  ASSUME TypeOK, LocksOK, Next
  PROVE  LocksOK'
<1>1. ASSUME NEW h \in Handlers, HandlerStep(h) PROVE LocksOK'
  BY <1>1, HandlerKeeps DEF LocksOK
<1>2. ASSUME NEW c \in Callers, CallStep(c) PROVE LocksOK'
  <2>1. /\ mutex' = mutex
        /\ pc'[c] = "find" \/ (pc'[c] = "stopall" /\ rid'[c] = "all")
        /\ \A d \in Callers \ {c} : pc'[d] = pc[d] /\ rid'[d] = rid[d]
    BY <1>2, CallKeeps
  <2>. QED
    BY <2>1 DEF LocksOK, All
<1>3. ASSUME NEW c \in Callers, CallerStep(c) PROVE LocksOK'
  <2>1. /\ \A d \in Callers \ {c} : pc'[d] = pc[d] /\ rid'[d] = rid[d]
        /\ pc'[c] # "idle" => rid'[c] = rid[c]
    BY <1>3, CallerKeeps
  <2>2. /\ mutex' = mutex \/ mutex \in {NoCaller, c}
        /\ pc'[c] \in {"join", "unlock", "joinall", "pollnext"} => mutex' = c
        /\ pc'[c] \in All => pc[c] \in All
    BY <1>3, CallerMutex
  <2>3. ASSUME NEW d \in Callers \ {c}, pc[d] \in {"join", "unlock", "joinall", "pollnext"}
        PROVE  mutex' = d
    BY <2>2, <2>3, SourcesAssumption DEF LocksOK
  <2>. QED
    BY <2>1, <2>2, <2>3 DEF LocksOK, All
<1>. QED
  BY <1>1, <1>2, <1>3, StepKinds

\* Two removals of one id at a time are recorded.
OverlapOK == \A i \in Ids : \A c, d \in Busy(i) : c # d => i \in raced

LEMMA StepOverlap ==
  ASSUME TypeOK, OverlapOK, Next
  PROVE  OverlapOK'
<1>1. ASSUME NEW h \in Handlers, HandlerStep(h) PROVE OverlapOK'
  <2>1. UNCHANGED <<pc, rid>> /\ raced \subseteq raced'
    BY <1>1, HandlerKeeps
  <2>. QED
    BY <2>1 DEF OverlapOK, Busy
<1>2. ASSUME NEW c \in Callers, CallStep(c) PROVE OverlapOK'
  <2>1. /\ raced \subseteq raced' /\ pc[c] = "idle"
        /\ \A d \in Callers \ {c} : pc'[d] = pc[d] /\ rid'[d] = rid[d]
    BY <1>2, CallKeeps
  <2>2. raced' = raced \cup {j \in Ids : rid'[c] \in {j, "all"} /\ Busy(j) # {}}
    <3>1. ASSUME NEW f \in BOOLEAN, NEW i \in Ids \cup {"all"}, Call(c, i, f)
          PROVE  raced' = raced \cup {j \in Ids : rid'[c] \in {j, "all"} /\ Busy(j) # {}}
      <4>1. rid'[c] = i
        BY <3>1 DEF Call, TypeOK
      <4>. QED
        BY <3>1, <4>1, Zenon DEF Call
    <3>2. \E f \in BOOLEAN : Call(c, "all", f) \/ \E i \in Ids : Call(c, i, f)
      BY <1>2, Zenon DEF CallStep, RemoveSources, RemoveSource
    <3>. QED
      BY <3>1, <3>2
  <2>3. ASSUME NEW i \in Ids, NEW d \in Callers, NEW e \in Callers, d # e,
               d \in Busy(i)', e \in Busy(i)'
        PROVE  i \in raced'
    <3>1. CASE d # c /\ e # c
      BY <2>1, <2>3, <3>1 DEF OverlapOK, Busy
    <3>2. CASE d = c \/ e = c
      <4>1. rid'[c] \in {i, "all"} /\ Busy(i) # {}
        BY <2>1, <2>3, <3>2 DEF Busy
      <4>. QED
        BY <2>2, <4>1
    <3>. QED
      BY <3>1, <3>2
  <2>. QED
    BY <2>3 DEF OverlapOK, Busy
<1>3. ASSUME NEW c \in Callers, CallerStep(c) PROVE OverlapOK'
  <2>1. /\ raced' = raced
        /\ \A d \in Callers \ {c} : pc'[d] = pc[d] /\ rid'[d] = rid[d]
        /\ pc'[c] # "idle" => pc[c] # "idle" /\ rid'[c] = rid[c]
    BY <1>3, CallerKeeps
  <2>2. ASSUME NEW i \in Ids PROVE Busy(i)' \subseteq Busy(i)
    BY <2>1 DEF Busy
  <2>. QED
    BY <2>1, <2>2 DEF OverlapOK
<1>. QED
  BY <1>1, <1>2, <1>3, StepKinds

-----------------------------------------------------------------------------
(* What a step does to source_map_, running_ and the threads                *)

\* A handler is added: its id was free, and so was the mutex.
Added(h) ==
  /\ held[h] /\ mutex = NoCaller /\ source_map[id[h]] = None
  /\ source_map' = [source_map EXCEPT ![id[h]] = h]
  /\ running' = [running EXCEPT ![h] = TRUE]
  /\ thread' = [thread EXCEPT ![h] = "open"]
  /\ aborted' = (thread[h] # "none")
  /\ (\E c \in Callers : pc[c] = "pollall") => id[h] \in raced'
  /\ UNCHANGED <<made, held, eosSent, flight, eosMap, mixed>>

\* Nothing is added; handlers in source_map_ run on.
Quiet ==
  /\ UNCHANGED <<source_map, aborted>>
  /\ \A g \in Handlers :
       /\ running'[g] => running[g]
       /\ running[g] /\ Listed(g) => running'[g]
       /\ thread[g] = "none" => thread'[g] = "none"
       /\ held'[g] => held[g] \/ (g = made + 1 /\ g = made')
  /\ made' = made \/ made' = made + 1

LEMMA HandlerMoves ==
  ASSUME TypeOK, NEW h \in Handlers, HandlerStep(h)
  PROVE  Added(h) \/ Quiet
<1>. USE DEF handlerVars, threadVars, tableVars, callVars
<1>0. /\ id \in [Handlers -> Ids] /\ source_map \in [Ids -> Handlers \cup {None}]
      /\ running \in [Handlers -> BOOLEAN] /\ held \in [Handlers -> BOOLEAN]
      /\ thread \in [Handlers -> {"none", "open", "run", "process", "send", "ended"}]
  BY DEF TypeOK
<1>1. CASE MakeHandler(h)
  BY <1>0, <1>1 DEF MakeHandler, Quiet
<1>2. CASE Drop(h)
  <2>1. /\ UNCHANGED <<source_map, aborted, thread, made>> /\ held' = [held EXCEPT ![h] = FALSE]
        /\ running' = [running EXCEPT ![h] = running[h] /\ Listed(h)]
    BY <1>2, Zenon DEF Drop
  <2>2. \A g \in Handlers : /\ running'[g] => running[g]
                            /\ running[g] /\ Listed(g) => running'[g]
    BY <1>0, <2>1, Zenon
  <2>. QED
    BY <1>0, <2>1, <2>2 DEF Quiet
<1>3. CASE Destroy(h)
  BY <1>0, <1>3 DEF Destroy, Quiet
<1>4. CASE AddSource(h)
  <2>1. CASE UNCHANGED <<source_map, threadVars, aborted>>
    BY <1>4, <2>1 DEF AddSource, Quiet
  <2>2. CASE ~UNCHANGED <<source_map, threadVars, aborted>>
    <3>1. /\ held[h] /\ mutex = NoCaller /\ source_map[id[h]] = None
          /\ running' = [running EXCEPT ![h] = TRUE]
          /\ aborted' = (thread[h] # "none")
          /\ thread' = [thread EXCEPT ![h] = "open"]
          /\ source_map' = [source_map EXCEPT ![id[h]] = h]
          /\ raced' = raced \cup {i \in {id[h]} : \E c \in Callers : pc[c] = "pollall"}
          /\ UNCHANGED <<made, held, eosSent, flight, eosMap, mixed>>
      BY <1>4, <2>2, Zenon DEF AddSource
    <3>2. (\E c \in Callers : pc[c] = "pollall") => id[h] \in raced'
      BY <3>1
    <3>. QED
      BY <3>1, <3>2, Zenon DEF Added
  <2>. QED
    BY <2>1, <2>2
<1>5. CASE ThreadStep(h)
  <2>1. /\ UNCHANGED <<source_map, aborted, running, held, made>> /\ thread[h] # "none"
        /\ \E l \in {"run", "process", "send", "ended"} : thread' = [thread EXCEPT ![h] = l]
    BY <1>5 DEF ThreadStep, Prepare, LoopTest, CheckRemoved, RoundEnds, Leave, SendData,
                EndOfStream
  <2>. QED
    BY <1>0, <2>1 DEF Quiet
<1>6. CASE FrameGone(h)
  BY <1>6 DEF FrameGone, Quiet
<1>. QED
  BY <1>1, <1>2, <1>3, <1>4, <1>5, <1>6 DEF HandlerStep

LEMMA CallerMoves ==
  ASSUME TypeOK, RidOK, LocksOK, NEW c \in Callers, CallerStep(c)
  PROVE  /\ \A g \in Handlers : /\ running'[g] => running[g]
                                /\ thread'[g] \in {thread[g], "none"}
         /\ \A i \in Ids :
              \/ source_map'[i] = source_map[i]
              \/ /\ source_map'[i] = None /\ c \in Busy(i) /\ pc[c] \in {"erase", "pollnext"}
                 /\ pc[c] = "erase" => mutex = NoCaller /\ i = rid[c]
<1>. USE DEF Goto, Return, handlerVars, threadVars, tableVars, callVars
<1>0. /\ source_map \in [Ids -> Handlers \cup {None}] /\ rid \in [Callers -> Ids \cup {"all"}]
      /\ running \in [Handlers -> BOOLEAN]
      /\ thread \in [Handlers -> {"none", "open", "run", "process", "send", "ended"}]
  BY DEF TypeOK
<1>1. CASE Find(c)
  BY <1>0, <1>1 DEF Find
<1>2. CASE CloseDone(c) \/ JoinNext(c)
  BY <1>0, <1>2 DEF CloseDone, JoinNext
<1>3. CASE Poll(c) \/ Unset(c) \/ Unlock(c) \/ PollBegin(c) \/ PollNext(c)
  <2>1. UNCHANGED <<source_map, running, thread>>
    BY <1>3 DEF Poll, Unset, Unlock, PollBegin, PollNext
  <2>. QED
    BY <2>1
<1>4. CASE Erase(c)
  <2>1. /\ UNCHANGED thread /\ source_map' = [source_map EXCEPT ![rid[c]] = None]
        /\ pc[c] = "erase" /\ mutex = NoCaller
        /\ \A g \in Handlers : running'[g] => running[g]
    BY <1>4 DEF Erase, StopUnheld
  <2>2. rid[c] \in Ids /\ c \in Busy(rid[c])
    BY <2>1 DEF RidOK, One, Busy
  <2>. QED
    BY <1>0, <2>1, <2>2
<1>5. CASE StopNext(c)
  <2>1. UNCHANGED <<source_map, thread>>
    BY <1>5 DEF StopNext
  <2>2. \/ running' = running
        \/ \E h \in Handlers : running' = [running EXCEPT ![h] = FALSE]
    BY <1>5 DEF StopNext
  <2>. QED
    BY <1>0, <2>1, <2>2
<1>6. CASE Clear(c)
  <2>1. /\ UNCHANGED thread /\ source_map' = [i \in Ids |-> None] /\ pc[c] = "pollnext"
        /\ \A g \in Handlers : running'[g] => running[g]
    BY <1>6 DEF Clear, StopUnheld
  <2>2. \A i \in Ids : c \in Busy(i)
    BY <2>1 DEF LocksOK, All, Busy
  <2>. QED
    BY <1>0, <2>1, <2>2
<1>. QED
  BY <1>1, <1>2, <1>3, <1>4, <1>5, <1>6 DEF CallerStep

-----------------------------------------------------------------------------
(* No handler is forgotten                                                  *)

\* source_map_ holds a handler under its own id.
ListedOK == \A i \in Ids : source_map[i] # None => id[source_map[i]] = i

\* A handler that is still to be made has no thread.
FreshOK == \A h \in Handlers : (held[h] => h <= made) /\ (h > made => thread[h] = "none")

\* The handler a removal has found stays in the map, stopped and then joined, until
\* the removal erases it.
ClosedOK ==
  \A c \in Callers : pc[c] \in Found =>
    /\ target[c] \in Handlers /\ id[target[c]] = rid[c]
    /\ rid[c] \notin raced =>
         /\ source_map[rid[c]] = target[c] /\ ~running[target[c]]
         /\ pc[c] # "join" => thread[target[c]] = "none"

\* RemoveSources has stopped every handler of the map.
StoppedOK ==
  \A c \in Callers : pc[c] \in {"pollall", "pollnext"} =>
    \A h \in Handlers : Listed(h) /\ running[h] => id[h] \in raced

\* Whoever stops a handler of the map joins its thread.
Joiner(h) == \E c \in Callers : pc[c] \in {"join", "joinall"} /\ target[c] = h
JoinedOK == \A h \in Handlers : Listed(h) /\ thread[h] # "none" => running[h] \/ Joiner(h)

\* What is not in the map neither runs nor waits for a second thread.
GoneOK ==
  \A h \in Handlers : ~Listed(h) =>
    /\ running[h] => id[h] \in raced
    /\ held[h] /\ thread[h] # "none" => id[h] \in raced

AbortOK == aborted => raced # {}

ForgetInv ==
  /\ TypeOK /\ RidOK /\ LocksOK /\ OverlapOK
  /\ ListedOK /\ FreshOK /\ ClosedOK /\ StoppedOK /\ JoinedOK /\ GoneOK /\ AbortOK

LEMMA InitForget == Init => ForgetInv
<1>. SUFFICES ASSUME Init PROVE ForgetInv
  OBVIOUS
<1>1. TypeOK /\ RidOK
  BY InitTypes
<1>2. LocksOK /\ OverlapOK /\ ListedOK /\ ClosedOK /\ StoppedOK
  BY DEF Init, LocksOK, All, OverlapOK, Busy, ListedOK, ClosedOK, Found, StoppedOK
<1>3. FreshOK /\ JoinedOK /\ GoneOK /\ AbortOK
  BY DEF Init, FreshOK, JoinedOK, GoneOK, AbortOK
<1>. QED
  BY <1>1, <1>2, <1>3 DEF ForgetInv

LEMMA AddedForget ==
  ASSUME ForgetInv, TypeOK', NEW h \in Handlers, HandlerStep(h), Added(h)
  PROVE  ListedOK' /\ FreshOK' /\ ClosedOK' /\ StoppedOK' /\ JoinedOK' /\ GoneOK' /\ AbortOK'
<1>. USE DEF ForgetInv
<1>1. /\ id \in [Handlers -> Ids] /\ source_map \in [Ids -> Handlers \cup {None}]
      /\ running \in [Handlers -> BOOLEAN] /\ held \in [Handlers -> BOOLEAN]
      /\ thread \in [Handlers -> {"none", "open", "run", "process", "send", "ended"}]
  BY DEF TypeOK
<1>2. /\ UNCHANGED <<pc, rid, target, mutex, id>> /\ raced \subseteq raced'
  BY HandlerKeeps
<1>3. /\ held[h] /\ mutex = NoCaller /\ source_map[id[h]] = None
      /\ source_map' = [source_map EXCEPT ![id[h]] = h]
      /\ running' = [running EXCEPT ![h] = TRUE]
      /\ thread' = [thread EXCEPT ![h] = "open"]
      /\ aborted' = (thread[h] # "none")
      /\ (\E c \in Callers : pc[c] = "pollall") => id[h] \in raced'
      /\ UNCHANGED <<made, held>>
  BY Zenon DEF Added
<1>4. /\ source_map'[id[h]] = h /\ running'[h] /\ thread'[h] = "open"
      /\ \A i \in Ids \ {id[h]} : source_map'[i] = source_map[i]
      /\ \A g \in Handlers \ {h} : running'[g] = running[g] /\ thread'[g] = thread[g]
  BY <1>1, <1>3
<1>5. None \notin Handlers
  BY DEF None, Handlers
<1>6. ListedOK'
  BY <1>1, <1>2, <1>4 DEF ListedOK
<1>7. FreshOK'
  <2>1. h <= made /\ made \in Nat /\ h \in Nat
    BY <1>3 DEF FreshOK, Handlers, TypeOK
  <2>. QED
    BY <1>3, <1>4, <2>1 DEF FreshOK
<1>8. ASSUME NEW g \in Handlers, g # h, Listed(g)'
      PROVE  Listed(g)
  BY <1>1, <1>2, <1>4, <1>8 DEF Listed
<1>9. ClosedOK'
  <2>1. ASSUME NEW c \in Callers, pc[c] \in Found, rid[c] \notin raced
        PROVE  rid[c] # id[h] /\ target[c] # h /\ rid[c] \in Ids
    BY <1>3, <1>5, <2>1 DEF ClosedOK, RidOK, Found, One
  <2>. QED
    BY <1>2, <1>4, <2>1 DEF ClosedOK
<1>10. StoppedOK'
  <2>1. ASSUME NEW c \in Callers, pc[c] \in {"pollall", "pollnext"}
        PROVE  id[h] \in raced'
    BY <1>3, <2>1, SourcesAssumption DEF LocksOK
  <2>. QED
    BY <1>2, <1>4, <1>8, <2>1 DEF StoppedOK
<1>11. JoinedOK'
  BY <1>2, <1>4, <1>8 DEF JoinedOK, Joiner
<1>12. ASSUME NEW g \in Handlers, ~Listed(g)'
       PROVE  g # h /\ ~Listed(g)
  BY <1>1, <1>2, <1>3, <1>4, <1>5, <1>12 DEF Listed
<1>13. GoneOK'
  BY <1>2, <1>3, <1>4, <1>12 DEF GoneOK
<1>14. AbortOK'
  <2>1. ~Listed(h)
    BY <1>3, <1>5 DEF Listed
  <2>. QED
    BY <1>2, <1>3, <2>1 DEF AbortOK, GoneOK
<1>. QED
  BY <1>6, <1>7, <1>9, <1>10, <1>11, <1>13, <1>14

LEMMA QuietForget ==
  ASSUME ForgetInv, NEW h \in Handlers, HandlerStep(h), Quiet
  PROVE  ListedOK' /\ FreshOK' /\ ClosedOK' /\ StoppedOK' /\ JoinedOK' /\ GoneOK' /\ AbortOK'
<1>. USE DEF ForgetInv
<1>2. /\ UNCHANGED <<pc, rid, target, mutex, id>> /\ raced \subseteq raced'
  BY HandlerKeeps
<1>3. /\ UNCHANGED <<source_map, aborted>>
      /\ \A g \in Handlers :
           /\ running'[g] => running[g]
           /\ running[g] /\ Listed(g) => running'[g]
           /\ thread[g] = "none" => thread'[g] = "none"
           /\ held'[g] => held[g] \/ (g = made + 1 /\ g = made')
      /\ made' = made \/ made' = made + 1
  BY DEF Quiet
<1>4. \A g \in Handlers : Listed(g)' = Listed(g)
  BY <1>2, <1>3 DEF Listed
<1>5. made \in Nat /\ \A g \in Handlers : g \in Nat
  BY DEF TypeOK, Handlers
<1>6. ListedOK'
  BY <1>2, <1>3 DEF ListedOK
<1>7. FreshOK'
  BY <1>3, <1>5 DEF FreshOK
<1>8. ClosedOK'
  BY <1>2, <1>3 DEF ClosedOK
<1>9. StoppedOK'
  BY <1>2, <1>3, <1>4 DEF StoppedOK
<1>10. JoinedOK'
  BY <1>2, <1>3, <1>4 DEF JoinedOK, Joiner
<1>11. GoneOK'
  <2>1. ASSUME NEW g \in Handlers, held'[g], thread'[g] # "none"
        PROVE  held[g] /\ thread[g] # "none"
    BY <1>3, <1>5, <2>1 DEF FreshOK
  <2>. QED
    BY <1>2, <1>3, <1>4, <2>1 DEF GoneOK
<1>12. AbortOK'
  BY <1>2, <1>3 DEF AbortOK
<1>. QED
  BY <1>6, <1>7, <1>8, <1>9, <1>10, <1>11, <1>12

LEMMA CallForget ==
  ASSUME ForgetInv, NEW c \in Callers, CallStep(c)
  PROVE  ListedOK' /\ FreshOK' /\ ClosedOK' /\ StoppedOK' /\ JoinedOK' /\ GoneOK' /\ AbortOK'
<1>. USE DEF ForgetInv
<1>1. /\ UNCHANGED <<handlerVars, threadVars, source_map, mutex, target, aborted>>
      /\ raced \subseteq raced' /\ pc[c] = "idle" /\ pc'[c] \in {"find", "stopall"}
      /\ \A d \in Callers \ {c} : pc'[d] = pc[d] /\ rid'[d] = rid[d]
  BY CallKeeps
<1>2. /\ UNCHANGED <<id, made, held, running, thread, source_map, target, aborted>>
      /\ \A g \in Handlers : Listed(g)' = Listed(g)
  BY <1>1 DEF handlerVars, threadVars, Listed
<1>3. ListedOK' /\ FreshOK'
  BY <1>2 DEF ListedOK, FreshOK
<1>4. ClosedOK'
  BY <1>1, <1>2 DEF ClosedOK, Found
<1>5. StoppedOK'
  BY <1>1, <1>2 DEF StoppedOK
<1>6. JoinedOK'
  BY <1>1, <1>2 DEF JoinedOK, Joiner
<1>7. GoneOK' /\ AbortOK'
  BY <1>1, <1>2 DEF GoneOK, AbortOK
<1>. QED
  BY <1>3, <1>4, <1>5, <1>6, <1>7

LEMMA CallerForget ==
  ASSUME ForgetInv, NEW c \in Callers, CallerStep(c)
  PROVE  ListedOK' /\ FreshOK' /\ ClosedOK' /\ StoppedOK' /\ JoinedOK' /\ GoneOK' /\ AbortOK'
<1>. USE DEF ForgetInv
<1>0. /\ id \in [Handlers -> Ids] /\ source_map \in [Ids -> Handlers \cup {None}]
      /\ running \in [Handlers -> BOOLEAN] /\ target \in [Callers -> Handlers \cup {None}]
      /\ thread \in [Handlers -> {"none", "open", "run", "process", "send", "ended"}]
      /\ pc \in [Callers -> Labels]
  BY DEF TypeOK, Labels, One
<1>1. /\ UNCHANGED <<id, made, held, raced, aborted>>
      /\ \A d \in Callers \ {c} : pc'[d] = pc[d] /\ rid'[d] = rid[d] /\ target'[d] = target[d]
      /\ pc'[c] # "idle" => rid'[c] = rid[c]
  BY CallerKeeps DEF handlerVars
<1>2. /\ \A g \in Handlers : /\ running'[g] => running[g]
                             /\ thread'[g] \in {thread[g], "none"}
      /\ \A i \in Ids :
           \/ source_map'[i] = source_map[i]
           \/ /\ source_map'[i] = None /\ c \in Busy(i) /\ pc[c] \in {"erase", "pollnext"}
              /\ pc[c] = "erase" => mutex = NoCaller /\ i = rid[c]
  BY CallerMoves
<1>3. None \notin Handlers
  BY DEF None, Handlers
<1>4. \A g \in Handlers : Listed(g)' => Listed(g)
  BY <1>0, <1>1, <1>2, <1>3 DEF Listed
<1>5. ListedOK'
  BY <1>1, <1>2 DEF ListedOK
<1>6. FreshOK'
  BY <1>1, <1>2 DEF FreshOK
<1>7. ClosedOK'
  <2>1. ASSUME NEW d \in Callers \ {c}, pc[d] \in Found
        PROVE  rid[d] \notin raced => source_map'[rid[d]] = source_map[rid[d]]
    <3>1. rid[d] \in Ids /\ d \in Busy(rid[d])
      BY <2>1 DEF RidOK, Found, One, Busy
    <3>2. c \in Busy(rid[d]) => rid[d] \in raced
      BY <2>1, <3>1 DEF OverlapOK
    <3>. QED
      BY <1>2, <3>1, <3>2
  <2>2. ASSUME NEW d \in Callers \ {c}, pc'[d] \in Found
        PROVE  /\ target'[d] \in Handlers /\ id'[target'[d]] = rid'[d]
               /\ rid'[d] \notin raced' =>
                    /\ source_map'[rid'[d]] = target'[d] /\ ~running'[target'[d]]
                    /\ pc'[d] # "join" => thread'[target'[d]] = "none"
    BY <1>1, <1>2, <2>1, <2>2 DEF ClosedOK
  <2>3. ASSUME pc'[c] \in Found
        PROVE  /\ target'[c] \in Handlers /\ id'[target'[c]] = rid'[c]
               /\ rid'[c] \notin raced' =>
                    /\ source_map'[rid'[c]] = target'[c] /\ ~running'[target'[c]]
                    /\ pc'[c] # "join" => thread'[target'[c]] = "none"
    <3>. USE DEF Goto, Return
    <3>1. CASE Find(c)
      <4>1. /\ source_map[rid[c]] # None /\ pc' = [pc EXCEPT ![c] = "join"]
            /\ target' = [target EXCEPT ![c] = source_map[rid[c]]]
            /\ running' = [running EXCEPT ![source_map[rid[c]]] = FALSE]
            /\ UNCHANGED <<rid, source_map>> /\ rid[c] \in Ids
        BY <1>0, <2>3, <3>1 DEF Find, Found, RidOK, One
      <4>2. source_map[rid[c]] \in Handlers /\ id[source_map[rid[c]]] = rid[c]
        BY <1>0, <4>1 DEF ListedOK
      <4>. QED
        BY <1>0, <1>1, <4>1, <4>2
    <3>2. CASE CloseDone(c)
      <4>1. /\ pc[c] = "join" /\ thread' = [thread EXCEPT ![target[c]] = "none"]
            /\ UNCHANGED <<rid, target, source_map, running>>
        BY <3>2 DEF CloseDone, handlerVars
      <4>2. target[c] \in Handlers /\ id[target[c]] = rid[c]
            /\ (rid[c] \notin raced => source_map[rid[c]] = target[c] /\ ~running[target[c]])
        BY <4>1 DEF ClosedOK, Found
      <4>. QED
        BY <1>0, <1>1, <4>1, <4>2
    <3>3. CASE Poll(c) \/ Unset(c)
      <4>1. /\ pc[c] \in {"poll", "unset"}
            /\ UNCHANGED <<rid, target, source_map, running, thread>>
        BY <3>3 DEF Poll, Unset, threadVars, tableVars
      <4>. QED
        BY <1>1, <4>1 DEF ClosedOK, Found
    <3>4. CASE Erase(c) \/ Unlock(c) \/ StopNext(c) \/ JoinNext(c) \/ PollBegin(c) \/ PollNext(c) \/ Clear(c)
      BY <1>0, <2>3, <3>4 DEF Erase, Unlock, StopNext, JoinNext, PollBegin, PollNext, Clear, Found
    <3>. QED
      BY <3>1, <3>2, <3>3, <3>4 DEF CallerStep
  <2>. QED
    BY <2>2, <2>3 DEF ClosedOK
<1>8. StoppedOK'
  <2>1. ASSUME pc'[c] \in {"pollall", "pollnext"}, pc[c] \notin {"pollall", "pollnext"},
               NEW g \in Handlers, Listed(g)', running'[g]
        PROVE  FALSE
    <3>1. StopNext(c)
      BY <1>0, <2>1 DEF CallerStep, Find, CloseDone, Poll, Unset, Erase, Unlock, JoinNext, PollBegin,
                        PollNext, Clear, Goto, Return
    <3>2. {h \in Handlers : Listed(h) /\ running[h]} = {}
      BY <1>0, <2>1, <3>1 DEF StopNext, Goto
    <3>. QED
      BY <1>2, <1>4, <2>1, <3>2
  <2>. QED
    BY <1>1, <1>2, <1>4, <2>1 DEF StoppedOK
<1>9. JoinedOK'
  <2>. SUFFICES ASSUME NEW g \in Handlers, Listed(g)', thread'[g] # "none", ~running'[g]
                PROVE  Joiner(g)'
    BY DEF JoinedOK
  <2>1. Listed(g) /\ thread[g] # "none" /\ thread'[g] = thread[g]
    BY <1>2, <1>4
  <2>. USE DEF Goto, Return
  <2>2. CASE running[g]
    <3>1. CASE Find(c)
      BY <1>0, <2>2, <3>1 DEF Find, Joiner
    <3>2. CASE StopNext(c)
      <4>1. PICK h \in Handlers : /\ pc' = [pc EXCEPT ![c] = "joinall"]
                                  /\ target' = [target EXCEPT ![c] = h]
                                  /\ running' = [running EXCEPT ![h] = FALSE]
        BY <2>2, <3>2 DEF StopNext
      <4>2. g = h
        BY <1>0, <2>2, <4>1
      <4>. QED
        BY <1>0, <4>1, <4>2 DEF Joiner
    <3>3. CASE Erase(c)
      <4>1. source_map' = [source_map EXCEPT ![rid[c]] = None] /\ pc[c] = "erase"
            /\ StopUnheld({source_map[rid[c]]})
        BY <3>3 DEF Erase
      <4>2. g = source_map[rid[c]]
        BY <1>0, <2>2, <4>1 DEF StopUnheld
      <4>3. rid[c] \in Ids /\ id[g] = rid[c]
        BY <1>3, <4>1, <4>2 DEF RidOK, One, ListedOK
      <4>. QED
        BY <1>0, <1>1, <1>3, <4>1, <4>3 DEF Listed
    <3>4. CASE Clear(c)
      BY <1>0, <1>1, <1>3, <3>4 DEF Clear, Listed
    <3>5. CASE CloseDone(c) \/ Poll(c) \/ Unset(c) \/ Unlock(c) \/ JoinNext(c) \/ PollBegin(c) \/ PollNext(c)
      BY <2>2, <3>5 DEF CloseDone, Poll, Unset, Unlock, JoinNext, PollBegin, PollNext, threadVars
    <3>. QED
      BY <3>1, <3>2, <3>3, <3>4, <3>5 DEF CallerStep
  <2>3. CASE ~running[g]
    <3>1. PICK d \in Callers : pc[d] \in {"join", "joinall"} /\ target[d] = g
      BY <2>1, <2>3 DEF JoinedOK, Joiner
    <3>2. CASE d # c
      BY <1>1, <3>1, <3>2 DEF Joiner
    <3>3. CASE d = c
      <4>1. CloseDone(c) \/ JoinNext(c)
        BY <3>1, <3>3 DEF CallerStep, Find, Poll, Unset, Erase, Unlock, StopNext, PollBegin,
                          PollNext, Clear
      <4>2. thread' = [thread EXCEPT ![g] = "none"]
        BY <3>1, <3>3, <4>1 DEF CloseDone, JoinNext
      <4>. QED
        BY <1>0, <2>1, <4>2
    <3>. QED
      BY <3>2, <3>3
  <2>. QED
    BY <2>2, <2>3
<1>10. GoneOK'
  <2>1. ASSUME NEW g \in Handlers, ~Listed(g)', Listed(g), running[g]
        PROVE  id[g] \in raced
    <3>1. (pc[c] = "erase" /\ id[g] = rid[c]) \/ pc[c] = "pollnext"
      BY <1>0, <1>1, <1>2, <2>1 DEF Listed
    <3>2. CASE pc[c] = "erase" /\ id[g] = rid[c]
      BY <2>1, <3>2 DEF ClosedOK, Found, Listed
    <3>3. CASE pc[c] = "pollnext"
      BY <2>1, <3>3 DEF StoppedOK
    <3>. QED
      BY <3>1, <3>2, <3>3
  <2>2. ASSUME NEW g \in Handlers, ~Listed(g)', Listed(g), thread[g] # "none"
        PROVE  id[g] \in raced
    <3>1. (pc[c] = "erase" /\ mutex = NoCaller) \/ (pc[c] = "pollnext" /\ mutex = c)
      BY <1>0, <1>1, <1>2, <2>2 DEF Listed, LocksOK
    <3>2. ~Joiner(g)
      BY <3>1, SourcesAssumption DEF Joiner, LocksOK
    <3>. QED
      BY <2>1, <2>2, <3>2 DEF JoinedOK
  <2>. QED
    BY <1>1, <1>2, <2>1, <2>2 DEF GoneOK
<1>11. AbortOK'
  BY <1>1 DEF AbortOK
<1>. QED
  BY <1>5, <1>6, <1>7, <1>8, <1>9, <1>10, <1>11

LEMMA StepForget ==
  ASSUME ForgetInv, Next
  PROVE  ForgetInv'
<1>1. TypeOK' /\ RidOK' /\ LocksOK' /\ OverlapOK'
  BY StepTypes, StepLocks, StepOverlap DEF ForgetInv
<1>2. ASSUME NEW h \in Handlers, HandlerStep(h)
      PROVE  ListedOK' /\ FreshOK' /\ ClosedOK' /\ StoppedOK' /\ JoinedOK' /\ GoneOK' /\ AbortOK'
  <2>1. Added(h) \/ Quiet
    BY <1>2, HandlerMoves DEF ForgetInv
  <2>. QED
    BY <1>1, <1>2, <2>1, AddedForget, QuietForget
<1>3. ASSUME NEW c \in Callers, CallStep(c) \/ CallerStep(c)
      PROVE  ListedOK' /\ FreshOK' /\ ClosedOK' /\ StoppedOK' /\ JoinedOK' /\ GoneOK' /\ AbortOK'
  BY <1>3, CallForget, CallerForget
<1>. QED
  BY <1>1, <1>2, <1>3, StepKinds DEF ForgetInv

LEMMA StutterForget == ForgetInv /\ UNCHANGED vars => ForgetInv'
BY DEF vars, handlerVars, threadVars, tableVars, callVars, ForgetInv, TypeOK, RidOK, LocksOK,
       OverlapOK, Busy, ListedOK, FreshOK, ClosedOK, StoppedOK, JoinedOK, Joiner, GoneOK, AbortOK, Listed

\* RemoveSource and RemoveSources leave no handler that reads on where no removal can
\* find it, and Open never replaces a thread that nobody joined, unless removals of
\* the id overlapped or it was added between two sections of RemoveSources; for any
\* number of streams, handlers and calling threads.
THEOREM ForgetsNone == Spec => []NoneForgotten
<1>1. ForgetInv /\ [Next]_vars => ForgetInv'
  BY StepForget, StutterForget
<1>2. ForgetInv => NoneForgotten
  BY DEF ForgetInv, GoneOK, AbortOK, NoneForgotten
<1>. QED
  BY <1>1, <1>2, InitForget, PTL DEF Spec

-----------------------------------------------------------------------------
(* Waiting for the EOS                                                      *)

HasEos(s) == \E n \in DOMAIN s : s[n] = "eos"
OneEos(s) == \A m, n \in DOMAIN s : s[m] = "eos" /\ s[n] = "eos" => m = n

LEMMA EosAppend ==
  ASSUME NEW s \in Seq({"data", "eos"})
  PROVE  /\ HasEos(Append(s, "data")) => HasEos(s)
         /\ OneEos(s) => OneEos(Append(s, "data"))
         /\ ~HasEos(s) => OneEos(Append(s, "eos"))
<1>1. /\ \A n \in DOMAIN Append(s, "data") : Append(s, "data")[n] = "eos" => n \in DOMAIN s /\ s[n] = "eos"
      /\ \A n \in DOMAIN Append(s, "eos") : n \in DOMAIN s \/ n = Len(s) + 1
      /\ \A n \in DOMAIN s : Append(s, "eos")[n] = s[n]
  OBVIOUS
<1>. QED
  BY <1>1 DEF HasEos, OneEos

LEMMA EosTail ==
  ASSUME NEW s \in Seq({"data", "eos"}), s # <<>>
  PROVE  /\ HasEos(Tail(s)) => HasEos(s)
         /\ OneEos(s) => OneEos(Tail(s))
         /\ OneEos(s) /\ Head(s) = "eos" => ~HasEos(Tail(s))
<1>1. /\ \A n \in DOMAIN Tail(s) : n + 1 \in DOMAIN s /\ s[n + 1] = Tail(s)[n] /\ n + 1 # 1
      /\ 1 \in DOMAIN s /\ Head(s) = s[1]
      /\ \A m, n \in DOMAIN Tail(s) : m + 1 = n + 1 => m = n
  OBVIOUS
<1>2. HasEos(Tail(s)) => HasEos(s)
  BY <1>1 DEF HasEos
<1>3. OneEos(s) => OneEos(Tail(s))
  BY <1>1 DEF OneEos
<1>4. OneEos(s) /\ Head(s) = "eos" => ~HasEos(Tail(s))
  BY <1>1 DEF OneEos, HasEos
<1>. QED
  BY <1>2, <1>3, <1>4

\* The flag of a stream says "coming" while an EOS of it is in the pipeline, but for
\* streams of which two were there at once.
EosOK ==
  \A h \in Handlers :
    /\ OneEos(flight[h])
    /\ HasEos(flight[h]) =>
         /\ eosSent[h]
         /\ id[h] \notin mixed => eosMap[id[h]] = "coming"
         /\ \A g \in Handlers : g # h /\ id[g] = id[h] /\ HasEos(flight[g]) => id[h] \in mixed

LEMMA StepFlight ==
  ASSUME TypeOK, flight \in [Handlers -> Seq({"data", "eos"})], Next
  PROVE  flight' \in [Handlers -> Seq({"data", "eos"})]
<1>. USE DEF handlerVars, threadVars, tableVars, callVars
<1>1. ASSUME NEW s \in Seq({"data", "eos"})
      PROVE  /\ Append(s, "data") \in Seq({"data", "eos"}) /\ Append(s, "eos") \in Seq({"data", "eos"})
             /\ s # <<>> => Tail(s) \in Seq({"data", "eos"})
  OBVIOUS
<1>2. ASSUME NEW h \in Handlers, HandlerStep(h)
      PROVE  flight' \in [Handlers -> Seq({"data", "eos"})]
  <2>1. \/ UNCHANGED flight
        \/ flight' = [flight EXCEPT ![h] = Append(flight[h], "data")]
        \/ flight' = [flight EXCEPT ![h] = Append(flight[h], "eos")]
        \/ flight[h] # <<>> /\ flight' = [flight EXCEPT ![h] = Tail(flight[h])]
    BY <1>2, Zenon DEF HandlerStep, MakeHandler, Drop, Destroy, AddSource, ThreadStep, Prepare,
                LoopTest, CheckRemoved, RoundEnds, Leave, SendData, EndOfStream, FrameGone
  <2>. QED
    BY <1>1, <2>1
<1>. QED
  BY <1>2, StepKinds, CallKeeps, CallerKeeps

LEMMA StepEos ==
  ASSUME TypeOK, flight \in [Handlers -> Seq({"data", "eos"})], EosOK, Next
  PROVE  EosOK'
<1>. USE DEF handlerVars, threadVars, tableVars, callVars
<1>0. /\ id \in [Handlers -> Ids] /\ eosSent \in [Handlers -> BOOLEAN]
      /\ eosMap \in [Ids -> {"absent", "coming", "reached"}]
      /\ \A h \in Handlers : flight[h] \in Seq({"data", "eos"})
  BY DEF TypeOK
<1>1. ASSUME NEW h \in Handlers, MakeHandler(h) \/ Drop(h) \/ Destroy(h) \/ AddSource(h)
      PROVE  EosOK'
  <2>1. UNCHANGED <<flight, eosSent, eosMap, mixed, id>>
    BY <1>1 DEF MakeHandler, Drop, Destroy, AddSource
  <2>. QED
    BY <2>1 DEF EosOK
<1>2. ASSUME NEW h \in Handlers, Prepare(h) \/ LoopTest(h) \/ CheckRemoved(h) \/ RoundEnds(h)
      PROVE  EosOK'
  <2>1. UNCHANGED <<flight, eosSent, eosMap, mixed, id>>
    BY <1>2 DEF Prepare, LoopTest, CheckRemoved, RoundEnds, Leave
  <2>. QED
    BY <2>1 DEF EosOK
<1>3. ASSUME NEW h \in Handlers, SendData(h)
      PROVE  EosOK'
  <2>1. /\ \A g \in Handlers \ {h} : flight'[g] = flight[g]
        /\ flight'[h] = flight[h] \/ flight'[h] = Append(flight[h], "data")
        /\ UNCHANGED <<eosSent, eosMap, mixed, id>>
    BY <1>3 DEF SendData, TypeOK
  <2>2. \A g \in Handlers : /\ HasEos(flight'[g]) => HasEos(flight[g])
                            /\ OneEos(flight[g]) => OneEos(flight'[g])
    <3>1. /\ HasEos(Append(flight[h], "data")) => HasEos(flight[h])
          /\ OneEos(flight[h]) => OneEos(Append(flight[h], "data"))
      BY <1>0, EosAppend
    <3>. QED
      BY <2>1, <3>1
  <2>. QED
    BY <2>1, <2>2 DEF EosOK
<1>4. ASSUME NEW h \in Handlers, EndOfStream(h)
      PROVE  EosOK'
  <2>1. CASE eosSent[h]
    <3>1. UNCHANGED <<flight, eosMap, mixed, id>> /\ eosSent' = [eosSent EXCEPT ![h] = TRUE]
      BY <1>4, <2>1 DEF EndOfStream
    <3>2. \A g \in Handlers : eosSent[g] => eosSent'[g]
      BY <1>0, <3>1
    <3>. QED
      BY <3>1, <3>2 DEF EosOK
  <2>2. CASE ~eosSent[h]
    <3>1. /\ eosSent' = [eosSent EXCEPT ![h] = TRUE]
          /\ flight' = [flight EXCEPT ![h] = Append(flight[h], "eos")]
          /\ eosMap' = [eosMap EXCEPT ![id[h]] = "coming"]
          /\ mixed' = mixed \cup {i \in {id[h]} : EosComing(i) # {}}
          /\ UNCHANGED id
      BY <1>4, <2>2, Zenon DEF EndOfStream
    <3>2. /\ eosSent'[h] /\ eosMap'[id[h]] = "coming"
          /\ \A g \in Handlers : eosSent[g] => eosSent'[g]
          /\ \A i \in Ids : eosMap[i] = "coming" => eosMap'[i] = "coming"
      BY <1>0, <3>1
    <3>3. ~HasEos(flight[h]) /\ OneEos(Append(flight[h], "eos"))
      BY <1>0, <2>2, EosAppend DEF EosOK
    <3>4. /\ flight'[h] = flight[h] \/ flight'[h] = Append(flight[h], "eos")
          /\ \A g \in Handlers \ {h} : flight'[g] = flight[g]
      BY <3>1 DEF TypeOK
    <3>5. mixed \subseteq mixed' /\ \A g \in Handlers : id[g] = id[h] /\ HasEos(flight[g]) => id[h] \in mixed'
      BY <3>1 DEF EosComing, HasEos
    <3>6. \A g \in Handlers \ {h} : HasEos(flight'[g]) => HasEos(flight[g])
      BY <3>4
    <3>7. \A g \in Handlers : OneEos(flight'[g])
      BY <3>3, <3>4 DEF EosOK
    <3>8. \A g \in Handlers : HasEos(flight'[g]) => eosSent'[g] /\ (id[g] \notin mixed' => eosMap'[id[g]] = "coming")
      BY <1>0, <3>2, <3>5, <3>6 DEF EosOK
    <3>9. \A f, g \in Handlers : f # g /\ id[f] = id[g] /\ HasEos(flight'[f]) /\ HasEos(flight'[g])
                                   => id[g] \in mixed'
      BY <3>5, <3>6 DEF EosOK
    <3>. QED
      BY <3>1, <3>7, <3>8, <3>9 DEF EosOK
  <2>. QED
    BY <2>1, <2>2
<1>5. ASSUME NEW h \in Handlers, FrameGone(h)
      PROVE  EosOK'
  <2>1. /\ flight[h] # <<>> /\ UNCHANGED <<eosSent, mixed, id>>
        /\ flight' = [flight EXCEPT ![h] = Tail(@)]
        /\ eosMap' = IF Head(flight[h]) = "eos" THEN [eosMap EXCEPT ![id[h]] = "reached"] ELSE eosMap
    BY <1>5 DEF FrameGone
  <2>2. /\ \A g \in Handlers \ {h} : flight'[g] = flight[g]
        /\ flight'[h] = flight[h] \/ flight'[h] = Tail(flight[h])
    BY <2>1 DEF TypeOK
  <2>3. \A g \in Handlers : /\ HasEos(flight'[g]) => HasEos(flight[g])
                            /\ OneEos(flight'[g])
    BY <1>0, <2>1, <2>2, EosTail DEF EosOK
  <2>4. ASSUME NEW g \in Handlers, HasEos(flight'[g]), id[g] \notin mixed
        PROVE  eosMap'[id[g]] = "coming"
    <3>1. HasEos(flight[g]) /\ eosMap[id[g]] = "coming" /\ id[g] \in Ids
      BY <1>0, <2>3, <2>4 DEF EosOK
    <3>2. CASE Head(flight[h]) # "eos"
      BY <2>1, <3>1, <3>2
    <3>3. CASE Head(flight[h]) = "eos"
      <4>1. HasEos(flight[h])
        BY <1>0, <2>1, <3>3 DEF HasEos
      <4>2. g # h
        <5>1. OneEos(flight[h]) /\ flight[h] \in Seq({"data", "eos"})
          BY <1>0 DEF EosOK
        <5>2. ~HasEos(Tail(flight[h]))
          BY <2>1, <3>3, <5>1, EosTail
        <5>3. flight'[h] = Tail(flight[h])
          BY <2>1
        <5>. QED
          BY <2>4, <5>2, <5>3
      <4>3. id[g] # id[h]
        BY <2>4, <3>1, <4>1, <4>2 DEF EosOK
      <4>. QED
        BY <1>0, <2>1, <3>1, <4>3
    <3>. QED
      BY <3>2, <3>3
  <2>. QED
    BY <2>1, <2>3, <2>4 DEF EosOK
<1>6. ASSUME NEW c \in Callers, CallStep(c)
      PROVE  EosOK'
  <2>1. UNCHANGED <<flight, eosSent, eosMap, mixed, id>>
    BY <1>6, CallKeeps
  <2>. QED
    BY <2>1 DEF EosOK
<1>7. ASSUME NEW c \in Callers, CallerStep(c)
      PROVE  EosOK'
  <2>1. UNCHANGED <<flight, eosSent, mixed, id>>
    BY <1>7, CallerKeeps
  <2>2. eosMap' = eosMap \/ \E i : eosMap' = Forget(i)
    BY <1>7 DEF CallerStep, Find, CloseDone, Poll, Unset, Erase, Unlock, StopNext, JoinNext,
                PollBegin, PollNext, Clear
  <2>3. \A i \in Ids : eosMap[i] = "coming" => eosMap'[i] = "coming"
    BY <1>0, <2>2 DEF Forget
  <2>. QED
    BY <1>0, <2>1, <2>3 DEF EosOK
<1>. QED
  BY <1>1, <1>2, <1>3, <1>4, <1>5, <1>6, <1>7, StepKinds DEF HandlerStep, ThreadStep

\* Where a forced removal has seen no EOS coming, there is none, and none comes: the
\* thread of the handler is joined.
WaitedOK ==
  \A c \in Callers : force[c] =>
    /\ pc[c] = "unset" /\ rid[c] \notin mixed \cup raced => ~HasEos(flight[target[c]])
    /\ pc[c] = "pollnext" =>
         \A h \in Handlers : Listed(h) /\ id[h] \notin todo[c] \cup mixed \cup raced => ~HasEos(flight[h])

LEMMA StepWaited ==
  ASSUME ForgetInv, flight \in [Handlers -> Seq({"data", "eos"})], EosOK, WaitedOK, Next
  PROVE  WaitedOK'
<1>0. /\ id \in [Handlers -> Ids] /\ source_map \in [Ids -> Handlers \cup {None}]
      /\ pc \in [Callers -> Labels] /\ todo \in [Callers -> SUBSET Ids]
  BY DEF ForgetInv, TypeOK, Labels, One
<1>1. ASSUME NEW h \in Handlers, HandlerStep(h)
      PROVE  WaitedOK'
  <2>. USE DEF handlerVars, threadVars, tableVars, callVars
  <2>1. /\ UNCHANGED <<pc, rid, force, target, todo, mutex, id>>
        /\ raced \subseteq raced' /\ mixed \subseteq mixed'
    BY <1>1, HandlerKeeps
  <2>2. ASSUME NEW g \in Handlers, HasEos(flight'[g]), ~HasEos(flight[g])
        PROVE  thread[g] # "none"
    <3>1. CASE EndOfStream(h)
      <4>1. thread[h] = "process" /\ (flight' = flight \/ flight' = [flight EXCEPT ![h] = Append(@, "eos")])
        BY <3>1 DEF EndOfStream
      <4>2. g = h
        BY <2>2, <4>1
      <4>. QED
        BY <4>1, <4>2
    <3>2. CASE SendData(h)
      <4>1. thread[h] = "send" /\ flight' = [flight EXCEPT ![h] = Append(@, "data")]
        BY <3>2 DEF SendData
      <4>. QED
        BY <2>2, <4>1
    <3>3. CASE FrameGone(h)
      <4>1. flight[h] # <<>> /\ flight' = [flight EXCEPT ![h] = Tail(@)]
        BY <3>3 DEF FrameGone
      <4>2. flight[h] \in Seq({"data", "eos"})
        BY DEF ForgetInv, TypeOK
      <4>3. HasEos(Tail(flight[h])) => HasEos(flight[h])
        BY <4>1, <4>2, EosTail
      <4>4. flight'[g] = flight[g] \/ (g = h /\ flight'[g] = Tail(flight[h]))
        BY <4>1
      <4>. QED
        BY <2>2, <4>3, <4>4
    <3>4. CASE UNCHANGED flight
      BY <2>2, <3>4
    <3>. QED
      BY <1>1, <3>1, <3>2, <3>3, <3>4
         DEF HandlerStep, MakeHandler, Drop, Destroy, AddSource, ThreadStep, Prepare, LoopTest,
             CheckRemoved, RoundEnds, Leave
  <2>3. ASSUME NEW c \in Callers, force[c], pc[c] = "unset", rid[c] \notin mixed' \cup raced'
        PROVE  ~HasEos(flight'[target[c]])
    <3>1. target[c] \in Handlers /\ thread[target[c]] = "none"
      BY <2>1, <2>3 DEF ForgetInv, ClosedOK, Found
    <3>2. ~HasEos(flight[target[c]])
      BY <2>1, <2>3 DEF WaitedOK
    <3>. QED
      BY <2>2, <3>1, <3>2
  <2>4. ASSUME NEW c \in Callers, force[c], pc[c] = "pollnext", NEW g \in Handlers, Listed(g)',
               id[g] \notin todo[c] \cup mixed' \cup raced'
        PROVE  ~HasEos(flight'[g])
    <3>1. mutex = c /\ mutex # NoCaller
      BY <2>4, SourcesAssumption DEF ForgetInv, LocksOK
    <3>2. UNCHANGED source_map
      BY <1>1, <3>1, HandlerMoves DEF ForgetInv, Added, Quiet
    <3>3. Listed(g)
      BY <2>1, <2>4, <3>2 DEF Listed
    <3>4. ~Joiner(g)
      BY <2>4, <3>1 DEF ForgetInv, LocksOK, Joiner
    <3>5. thread[g] = "none"
      BY <2>1, <2>4, <3>3, <3>4 DEF ForgetInv, JoinedOK, StoppedOK
    <3>6. ~HasEos(flight[g])
      BY <2>1, <2>4, <3>3 DEF WaitedOK
    <3>. QED
      BY <2>2, <3>5, <3>6
  <2>. QED
    BY <2>1, <2>3, <2>4 DEF WaitedOK
<1>2. ASSUME NEW c \in Callers, CallStep(c)
      PROVE  WaitedOK'
  <2>1. /\ UNCHANGED <<handlerVars, threadVars, source_map, target, todo>>
        /\ raced \subseteq raced' /\ pc'[c] \in {"find", "stopall"}
        /\ \A d \in Callers \ {c} : pc'[d] = pc[d] /\ rid'[d] = rid[d] /\ force'[d] = force[d]
    BY <1>2, CallKeeps DEF ForgetInv
  <2>2. /\ UNCHANGED <<flight, mixed, target, todo, id>>
        /\ \A g \in Handlers : Listed(g)' = Listed(g)
    BY <2>1 DEF handlerVars, threadVars, Listed
  <2>. QED
    BY <2>1, <2>2 DEF WaitedOK
<1>3. ASSUME NEW c \in Callers, CallerStep(c)
      PROVE  WaitedOK'
  <2>1. /\ UNCHANGED <<id, flight, mixed, raced>>
        /\ \A d \in Callers \ {c} :
             /\ pc'[d] = pc[d] /\ rid'[d] = rid[d] /\ force'[d] = force[d]
             /\ target'[d] = target[d] /\ todo'[d] = todo[d]
        /\ pc'[c] # "idle" => rid'[c] = rid[c] /\ force'[c] = force[c]
    BY <1>3, CallerKeeps DEF ForgetInv, handlerVars
  <2>2. \A g \in Handlers : Listed(g)' => Listed(g)
    <3>1. \A i \in Ids : source_map'[i] = source_map[i] \/ source_map'[i] = None
      BY <1>3, CallerMoves DEF ForgetInv
    <3>2. None \notin Handlers
      BY DEF None, Handlers
    <3>. QED
      BY <1>0, <2>1, <3>1, <3>2 DEF Listed
  <2>3. ASSUME NEW d \in Callers \ {c}, force'[d]
        PROVE  /\ pc'[d] = "unset" /\ rid'[d] \notin mixed' \cup raced' => ~HasEos(flight'[target'[d]])
               /\ pc'[d] = "pollnext" =>
                    \A h \in Handlers : Listed(h)' /\ id'[h] \notin todo'[d] \cup mixed' \cup raced'
                                          => ~HasEos(flight'[h])
    BY <2>1, <2>2, <2>3 DEF WaitedOK
  <2>. USE DEF Goto, Return, Reached
  <2>4. ASSUME force'[c], pc'[c] = "unset", rid[c] \notin mixed \cup raced
        PROVE  ~HasEos(flight[target'[c]])
    <3>1. Poll(c)
      BY <1>0, <1>3, <2>4 DEF CallerStep, Find, CloseDone, Unset, Erase, Unlock, StopNext, JoinNext,
                              PollBegin, PollNext, Clear
    <3>2. pc[c] = "poll" /\ eosMap[rid[c]] # "coming" /\ target' = target
      BY <2>1, <2>4, <3>1 DEF Poll
    <3>3. target[c] \in Handlers /\ id[target[c]] = rid[c]
      BY <3>2 DEF ForgetInv, ClosedOK, Found
    <3>. QED
      BY <2>4, <3>2, <3>3 DEF EosOK
  <2>5. ASSUME force'[c], pc'[c] = "pollnext", NEW h \in Handlers, Listed(h)',
               id[h] \notin todo'[c] \cup mixed \cup raced
        PROVE  ~HasEos(flight[h])
    <3>1. CASE PollBegin(c)
      <4>1. todo'[c] = ListedIds /\ UNCHANGED source_map
        BY <1>0, <3>1 DEF PollBegin
      <4>2. id[h] \in ListedIds
        <5>1. None \notin Handlers
          BY DEF None, Handlers
        <5>. QED
          BY <1>0, <2>2, <2>5, <5>1 DEF Listed, ListedIds
      <4>. QED
        BY <2>5, <4>1, <4>2
    <3>2. CASE PollNext(c)
      <4>1. PICK i \in todo[c] : /\ force[c] => eosMap[i] # "coming"
                                 /\ todo' = [todo EXCEPT ![c] = @ \ {i}]
        BY <3>2 DEF PollNext
      <4>2. pc[c] = "pollnext" /\ force[c]
        BY <2>1, <2>5, <3>2 DEF PollNext
      <4>3. CASE id[h] = i
        BY <2>5, <4>1, <4>2, <4>3 DEF EosOK
      <4>4. CASE id[h] # i
        <5>1. id[h] \notin todo[c]
          BY <1>0, <2>5, <4>1, <4>4
        <5>. QED
          BY <2>2, <2>5, <4>2, <5>1 DEF WaitedOK
      <4>. QED
        BY <4>3, <4>4
    <3>. QED
      BY <1>0, <1>3, <2>5, <3>1, <3>2
         DEF CallerStep, Find, CloseDone, Poll, Unset, Erase, Unlock, StopNext, JoinNext, Clear
  <2>6. pc'[c] \in {"unset", "pollnext"} => rid'[c] = rid[c]
    BY <2>1
  <2>. QED
    BY <2>1, <2>3, <2>4, <2>5, <2>6 DEF WaitedOK
<1>. QED
  BY <1>1, <1>2, <1>3, StepKinds

EosInv == ForgetInv /\ flight \in [Handlers -> Seq({"data", "eos"})] /\ EosOK /\ WaitedOK

LEMMA InitEos == Init => EosInv
<1>. SUFFICES ASSUME Init PROVE EosInv
  OBVIOUS
<1>1. \A h \in Handlers : flight[h] = <<>>
  BY DEF Init
<1>2. flight \in [Handlers -> Seq({"data", "eos"})]
  BY DEF Init
<1>3. EosOK
  BY <1>1 DEF EosOK, OneEos, HasEos
<1>4. WaitedOK
  BY DEF Init, WaitedOK
<1>. QED
  BY <1>2, <1>3, <1>4, InitForget DEF EosInv

\* "wait for eos reached": a forced removal goes on only when no EOS of its handler is
\* in the pipeline, unless EOS frames of two handlers of the id were there at once or
\* removals of it overlapped; for any number of streams, frames and calling threads.
THEOREM RemovalWaitsForEos == Spec => []WaitsForEos
<1>1. EosInv /\ [Next]_vars => EosInv'
  <2>1. CASE UNCHANGED vars
    <3>1. EosInv /\ UNCHANGED vars => EosOK'
      BY DEF EosInv, EosOK, vars, handlerVars, threadVars
    <3>2. EosInv /\ UNCHANGED vars => WaitedOK'
      BY DEF EosInv, WaitedOK, Listed, vars, handlerVars, threadVars, tableVars, callVars
    <3>3. UNCHANGED vars => UNCHANGED flight
      BY DEF vars, threadVars
    <3>. QED
      BY <2>1, <3>1, <3>2, <3>3, StutterForget DEF EosInv
  <2>2. CASE Next
    <3>1. EosInv => TypeOK
      BY DEF EosInv, ForgetInv
    <3>. QED
      BY <2>2, <3>1, StepForget, StepFlight, StepEos, StepWaited DEF EosInv
  <2>. QED
    BY <2>1, <2>2
<1>2. EosInv => WaitsForEos
  <2>. SUFFICES ASSUME EosInv, NEW c \in Callers, NEW h \in Waited(c), h \in EosComing(id[h])
                PROVE  id[h] \in mixed \cup raced
    BY DEF WaitsForEos
  <2>1. force[c] /\ h \in Handlers /\ HasEos(flight[h])
    BY DEF Waited, EosComing, HasEos
  <2>2. CASE pc[c] = "unset"
    <3>1. h = target[c] /\ id[h] = rid[c]
      BY <2>1, <2>2 DEF Waited, EosInv, ForgetInv, ClosedOK, Found
    <3>. QED
      BY <2>1, <2>2, <3>1 DEF EosInv, WaitedOK
  <2>3. CASE pc[c] = "pollnext"
    <3>1. PICK i \in ListedIds \ todo[c] : h = source_map[i]
      BY <2>1, <2>3 DEF Waited
    <3>2. id[h] = i /\ Listed(h)
      BY <3>1 DEF EosInv, ForgetInv, ListedOK, ListedIds, Listed
    <3>. QED
      BY <2>1, <2>3, <3>1, <3>2 DEF EosInv, WaitedOK
  <2>. QED
    BY <2>1, <2>2, <2>3 DEF Waited
<1>. QED
  BY <1>1, <1>2, InitEos, PTL DEF Spec
=============================================================================
