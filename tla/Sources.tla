------------------------------- MODULE Sources -------------------------------
(***************************************************************************)
(* Adding and removing streams while the pipeline runs                     *)
(* (framework/src/unistream_source.cpp, unistream_frame.cpp, IdxManager in *)
(* unistream_pipeline.cpp, and the file handler's thread).  A stream is a  *)
(* handler in source_map_; its stream id is also the key of three tables   *)
(* that outlive the handler: the stream index, the removed flag and the    *)
(* EOS flag, the last two of them static.                                  *)
(*                                                                         *)
(* The frames of a handler are counted from their creation to their        *)
(* destruction at the end of the running pipeline, in order; those of two  *)
(* handlers are not ordered.                                               *)
(***************************************************************************)
EXTENDS Integers, Sequences, FiniteSets, Functions

CONSTANTS
  Ids,           (* stream ids                                             *)
  Callers,       (* application threads that remove streams                *)
  MaxStreamNum,  (* kMaxStreamNum                                          *)
  MaxHandler,    (* bound: handlers made                                   *)
  MaxFrame,      (* bound: frames of a handler in the pipeline             *)
  MaxRemove      (* bound: calls of RemoveSource and RemoveSources         *)

NoCaller == "free"

ASSUME SourcesAssumption ==
  /\ Ids # {} /\ MaxStreamNum \in Nat \ {0} /\ MaxHandler \in Nat
  /\ MaxFrame \in Nat \ {0} /\ MaxRemove \in Nat /\ NoCaller \notin Callers

Handlers == 1 .. MaxHandler
None == 0
NoIndex == MaxStreamNum    \* kInvalidStreamIdx

VARIABLES
  made,        (* number of handlers made                                  *)
  id,          (* SourceHandler::stream_id_                                *)
  index,       (* SourceHandler::stream_index_                             *)
  held,        (* the application holds a reference to it                  *)
  alive,       (* it is not destroyed                                      *)
  running,     (* running_ of its implementation                           *)
  thread,      (* its thread; "none" when it is not joinable               *)
  eosSent,     (* SourceRender::eos_sent_                                  *)
  flight,      (* its frames in the pipeline                               *)
  source_map,  (* SourceModule::source_map_                                *)
  mutex,       (* the caller that holds SourceModule::mutex_               *)
  idxMap,      (* IdxManager::stream_idx_map and stream_bitset             *)
  removed,     (* ids that s_stream_removed_map_ holds as true             *)
  eosMap,      (* s_stream_eos_map_                                        *)
  pc,          (* where each caller is                                     *)
  rid,         (* the id it removes                                        *)
  force,       (* its argument force                                       *)
  target,      (* the handler it closes                                    *)
  todo,        (* ids it has still to wait for in RemoveSources            *)
  calls,       (* number of removals                                       *)
  aborted,     (* std::terminate was called                                *)
  mixed,       (* history: ids of which two EOS frames were on their way   *)
  raced        (* history: ids of which two removals overlapped, or that   *)
               (* were added between two sections of RemoveSources         *)

handlerVars == <<made, id, index, held, alive, idxMap>>
threadVars  == <<running, thread, eosSent, flight, mixed>>
tableVars   == <<source_map, mutex, removed>>
callVars    == <<pc, rid, force, target, todo, calls, raced>>
vars == <<handlerVars, threadVars, tableVars, callVars, eosMap, aborted>>

Listed(h) == source_map[id[h]] = h
ListedIds == {i \in Ids : source_map[i] # None}
Busy(i) == {c \in Callers : pc[c] # "idle" /\ (rid[c] = i \/ rid[c] = "all")}

Init ==
  /\ made = 0
  /\ id \in [Handlers -> Ids]
  /\ index = [h \in Handlers |-> NoIndex]
  /\ held = [h \in Handlers |-> FALSE] /\ alive = [h \in Handlers |-> FALSE]
  /\ running = [h \in Handlers |-> FALSE] /\ thread = [h \in Handlers |-> "none"]
  /\ eosSent = [h \in Handlers |-> FALSE] /\ flight = [h \in Handlers |-> <<>>]
  /\ source_map = [i \in Ids |-> None] /\ mutex = NoCaller
  /\ idxMap = [i \in Ids |-> NoIndex]
  /\ removed = {} /\ eosMap = [i \in Ids |-> "absent"]
  /\ pc = [c \in Callers |-> "idle"] /\ rid = [c \in Callers |-> "all"]
  /\ force = [c \in Callers |-> FALSE] /\ target = [c \in Callers |-> None]
  /\ todo = [c \in Callers |-> {}] /\ calls = 0
  /\ aborted = FALSE /\ mixed = {} /\ raced = {}
-----------------------------------------------------------------------------
(* Handlers                                                                *)

\* GetStreamIndex: the index the id has, else the first free one
IndexFor(i) ==
  LET free == 0 .. MaxStreamNum - 1 \ Range(idxMap)
  IN  IF idxMap[i] # NoIndex \/ free = {} THEN idxMap[i]
      ELSE CHOOSE n \in free : \A m \in free : n <= m

\* CreateSource
MakeHandler(h) ==
  /\ h = made + 1
  /\ made' = h
  /\ index' = [index EXCEPT ![h] = IndexFor(id[h])]
  /\ idxMap' = [idxMap EXCEPT ![id[h]] = IndexFor(id[h])]
  /\ held' = [held EXCEPT ![h] = TRUE] /\ alive' = [alive EXCEPT ![h] = TRUE]
  /\ UNCHANGED <<id, threadVars, tableVars, callVars, eosMap, aborted>>

\* The application lets go of a handler.
Drop(h) ==
  /\ held[h]
  /\ held' = [held EXCEPT ![h] = FALSE]
  /\ running' = [running EXCEPT ![h] = @ /\ Listed(h)]
  /\ UNCHANGED <<made, id, index, alive, idxMap, thread, eosSent, flight, mixed,
                 tableVars, callVars, eosMap, aborted>>

\* the end of the destructor, when nobody refers to the handler
Destroy(h) ==
  /\ alive[h] /\ ~held[h] /\ ~Listed(h) /\ thread[h] \in {"none", "ended"}
  /\ alive' = [alive EXCEPT ![h] = FALSE]
  /\ thread' = [thread EXCEPT ![h] = "none"]
  /\ idxMap' = [idxMap EXCEPT ![id[h]] = NoIndex]    \* ReturnStreamIndex
  /\ UNCHANGED <<made, id, index, held, running, eosSent, flight, mixed,
                 tableVars, callVars, eosMap, aborted>>

\* Variant: the removed flag of an earlier stream of this id stays.
AddKeepFlag(h) ==
  /\ held[h] /\ mutex = NoCaller
  /\ source_map[id[h]] = None /\ Cardinality(ListedIds) < MaxStreamNum
  /\ index[h] # NoIndex /\ thread[h] = "none"
  /\ source_map' = [source_map EXCEPT ![id[h]] = h]
  /\ running' = [running EXCEPT ![h] = TRUE]
  /\ thread' = [thread EXCEPT ![h] = "open"]
  /\ raced' = raced \cup {i \in {id[h]} : \E c \in Callers : pc[c] = "pollall"}
  /\ UNCHANGED <<handlerVars, eosSent, flight, mixed, mutex, removed, pc, rid, force,
                 target, todo, calls, eosMap, aborted>>

\* AddSource in one piece, under mutex_.  Open may fail; it replaces thread_,
\* which a handler erased without Close still has.
AddSource(h) ==
  /\ held[h] /\ mutex = NoCaller
  /\ source_map[id[h]] = None /\ Cardinality(ListedIds) < MaxStreamNum
  /\ removed' = removed \ {id[h]}
  /\ \/ UNCHANGED <<source_map, threadVars, aborted>>
     \/ /\ index[h] # NoIndex
        /\ running' = [running EXCEPT ![h] = TRUE]
        /\ aborted' = (thread[h] # "none")
        /\ thread' = [thread EXCEPT ![h] = "open"]
        /\ source_map' = [source_map EXCEPT ![id[h]] = h]
        /\ UNCHANGED <<eosSent, flight, mixed>>
  /\ raced' = raced \cup {i \in {id[h]} : \E c \in Callers : pc[c] = "pollall"}
  /\ UNCHANGED <<handlerVars, mutex, pc, rid, force, target, todo, calls, eosMap>>
-----------------------------------------------------------------------------
(* FileHandlerImpl::Loop and the frames it sends                           *)

Leave(h, l) ==
  /\ thread' = [thread EXCEPT ![h] = l]
  /\ UNCHANGED <<running, eosSent, flight, mixed, handlerVars, tableVars, callVars, eosMap, aborted>>

\* PrepareResources; without a decoder no EOS is ever sent
Prepare(h) == thread[h] = "open" /\ \E l \in {"run", "ended"} : Leave(h, l)

\* while (running_.load()): after Stop the decoder is destroyed and sends no EOS
LoopTest(h) == thread[h] = "run" /\ Leave(h, IF running[h] THEN "process" ELSE "ended")

\* Process gives no frame, or the last time: a failure, or a decoder that never
\* reports the EOS
RoundEnds(h) == thread[h] = "process" /\ \E l \in {"run", "ended"} : Leave(h, l)

\* SendData: if (!IsEos() && IsStreamRemoved()) return false
CheckRemoved(h) == thread[h] = "process" /\ id[h] \notin removed /\ Leave(h, "send")

\* TransmitData waits for room in the pipeline
SendData(h) ==
  /\ thread[h] = "send" /\ Len(flight[h]) < MaxFrame
  /\ thread' = [thread EXCEPT ![h] = "run"]
  /\ flight' = [flight EXCEPT ![h] = Append(@, "data")]
  /\ UNCHANGED <<running, eosSent, mixed, handlerVars, tableVars, callVars, eosMap, aborted>>

EosComing(i) == {h \in Handlers : id[h] = i /\ \E n \in DOMAIN flight[h] : flight[h][n] = "eos"}

\* Variant: the EOS frame does not reset the flag of its stream.
EndKeepFlag(h) ==
  /\ thread[h] = "process" /\ Len(flight[h]) < MaxFrame
  /\ thread' = [thread EXCEPT ![h] = "ended"]
  /\ eosSent' = [eosSent EXCEPT ![h] = TRUE]
  /\ flight' = IF eosSent[h] THEN flight ELSE [flight EXCEPT ![h] = Append(@, "eos")]
  /\ UNCHANGED <<running, mixed, handlerVars, tableVars, callVars, eosMap, aborted>>

\* the decoder reports the end of the file: SendFlowEos, once in the handler's life
EndOfStream(h) ==
  /\ thread[h] = "process" /\ Len(flight[h]) < MaxFrame
  /\ thread' = [thread EXCEPT ![h] = "ended"]
  /\ eosSent' = [eosSent EXCEPT ![h] = TRUE]
  /\ IF eosSent[h] THEN UNCHANGED <<flight, eosMap, mixed>>
     ELSE /\ flight' = [flight EXCEPT ![h] = Append(@, "eos")]
          /\ eosMap' = [eosMap EXCEPT ![id[h]] = "coming"]
          /\ mixed' = mixed \cup {i \in {id[h]} : EosComing(i) # {}}
  /\ UNCHANGED <<running, handlerVars, tableVars, callVars, aborted>>

\* the last reference to a frame goes: ~UNIFrameInfo
FrameGone(h) ==
  /\ flight[h] # <<>>
  /\ flight' = [flight EXCEPT ![h] = Tail(@)]
  /\ eosMap' = IF Head(flight[h]) = "eos" THEN [eosMap EXCEPT ![id[h]] = "reached"] ELSE eosMap
  /\ UNCHANGED <<running, thread, eosSent, mixed, handlerVars, tableVars, callVars, aborted>>
-----------------------------------------------------------------------------
(* CheckStreamEosReached                                                   *)

\* Variant: an id without an entry is waited for, too.
WaitForEntry(i, sync) == sync => eosMap[i] = "reached"

\* it returns at once unless sync, and then when the EOS is not expected
Reached(i, sync) == sync => eosMap[i] # "coming"
Forget(i) == IF eosMap[i] = "reached" THEN [eosMap EXCEPT ![i] = "absent"] ELSE eosMap

Goto(c, l) == pc' = [pc EXCEPT ![c] = l]

\* the call of c is over, its arguments and locals are gone
Return(c) ==
  /\ Goto(c, "idle")
  /\ rid' = [rid EXCEPT ![c] = "all"] /\ force' = [force EXCEPT ![c] = FALSE]
  /\ target' = [target EXCEPT ![c] = None]
-----------------------------------------------------------------------------
(* RemoveSource                                                            *)

Call(c, i, f) ==
  /\ pc[c] = "idle" /\ calls < MaxRemove
  /\ calls' = calls + 1
  /\ rid' = [rid EXCEPT ![c] = i] /\ force' = [force EXCEPT ![c] = f]
  /\ raced' = raced \cup {j \in Ids : i \in {j, "all"} /\ Busy(j) # {}}

\* SetStreamRemoved(stream_id, force)
RemoveSource(c, i, f) ==
  /\ Call(c, i, f) /\ Goto(c, "find")
  /\ removed' = IF f THEN removed \cup {i} ELSE removed \ {i}
  /\ UNCHANGED <<target, todo, source_map, mutex, handlerVars, threadVars, eosMap, aborted>>

\* Variant: the handler is not closed.
FindNoClose(c) ==
  /\ pc[c] = "find" /\ mutex = NoCaller
  /\ IF source_map[rid[c]] = None
     THEN Return(c)
     ELSE /\ Goto(c, "poll")
          /\ target' = [target EXCEPT ![c] = source_map[rid[c]]]
          /\ UNCHANGED <<rid, force>>
  /\ UNCHANGED <<mutex, todo, calls, raced, source_map, removed, handlerVars,
                 threadVars, eosMap, aborted>>

\* Close begins: running_ = 0, under mutex_ until the thread is joined
Find(c) ==
  /\ pc[c] = "find" /\ mutex = NoCaller
  /\ IF source_map[rid[c]] = None
     THEN Return(c) /\ UNCHANGED <<mutex, running>>
     ELSE /\ Goto(c, "join") /\ mutex' = c
          /\ target' = [target EXCEPT ![c] = source_map[rid[c]]]
          /\ running' = [running EXCEPT ![source_map[rid[c]]] = FALSE]
          /\ UNCHANGED <<rid, force>>
  /\ UNCHANGED <<todo, calls, raced, source_map, removed, handlerVars,
                 thread, eosSent, flight, mixed, eosMap, aborted>>

CloseDone(c) ==
  /\ pc[c] = "join" /\ thread[target[c]] \in {"none", "ended"}
  /\ thread' = [thread EXCEPT ![target[c]] = "none"]
  /\ Goto(c, "poll") /\ mutex' = NoCaller
  /\ UNCHANGED <<rid, force, target, todo, calls, raced, source_map, removed,
                 handlerVars, running, eosSent, flight, mixed, eosMap, aborted>>

\* CheckStreamEosReached
Poll(c) ==
  /\ pc[c] = "poll" /\ Reached(rid[c], force[c])
  /\ eosMap' = Forget(rid[c])
  /\ Goto(c, "unset")
  /\ UNCHANGED <<rid, force, target, todo, calls, raced, tableVars, handlerVars, threadVars, aborted>>

\* SetStreamRemoved(stream_id, false)
Unset(c) ==
  /\ pc[c] = "unset"
  /\ removed' = removed \ {rid[c]}
  /\ Goto(c, "erase")
  /\ UNCHANGED <<rid, force, target, todo, calls, raced, source_map, mutex,
                 handlerVars, threadVars, eosMap, aborted>>

\* handlers whose last reference is the map's are closed by their destructor
StopUnheld(hs) == running' = [h \in Handlers |-> running[h] /\ (h \in hs => held[h])]

\* source_map_.erase(iter): whichever handler has the id now
Erase(c) ==
  /\ pc[c] = "erase" /\ mutex = NoCaller
  /\ source_map' = [source_map EXCEPT ![rid[c]] = None]
  /\ StopUnheld({source_map[rid[c]]})
  /\ Goto(c, "unlock") /\ mutex' = c
  /\ UNCHANGED <<rid, force, target, todo, calls, raced, removed, handlerVars,
                 thread, eosSent, flight, mixed, eosMap, aborted>>

\* the handlers erased are destroyed before the lock is released
Unlock(c) ==
  /\ pc[c] = "unlock"
  /\ \A h \in Handlers : alive[h] => held[h] \/ Listed(h)
  /\ Return(c) /\ mutex' = NoCaller
  /\ UNCHANGED <<todo, calls, raced, source_map, removed,
                 handlerVars, threadVars, eosMap, aborted>>
-----------------------------------------------------------------------------
(* RemoveSources, in three critical sections                               *)

RemoveSources(c, f) ==
  /\ mutex = NoCaller
  /\ Call(c, "all", f) /\ Goto(c, "stopall")
  /\ removed' = IF f THEN removed \cup ListedIds ELSE removed \ ListedIds
  /\ UNCHANGED <<target, todo, source_map, mutex, handlerVars, threadVars, eosMap, aborted>>

\* Stop of the next handler that is still running; the last one leaves
StopNext(c) ==
  /\ pc[c] = "stopall" /\ mutex \in {NoCaller, c}
  /\ LET more == {h \in Handlers : Listed(h) /\ running[h]}
     IN  IF more = {}
         THEN Goto(c, "pollall") /\ mutex' = NoCaller /\ UNCHANGED <<target, running>>
         ELSE \E h \in more :
                /\ Goto(c, "joinall") /\ mutex' = c
                /\ target' = [target EXCEPT ![c] = h]
                /\ running' = [running EXCEPT ![h] = FALSE]
  /\ UNCHANGED <<rid, force, todo, calls, raced, source_map, removed, handlerVars,
                 thread, eosSent, flight, mixed, eosMap, aborted>>

JoinNext(c) ==
  /\ pc[c] = "joinall" /\ thread[target[c]] = "ended"
  /\ thread' = [thread EXCEPT ![target[c]] = "none"]
  /\ Goto(c, "stopall")
  /\ UNCHANGED <<rid, force, target, todo, calls, raced, tableVars, handlerVars,
                 running, eosSent, flight, mixed, eosMap, aborted>>

PollBegin(c) ==
  /\ pc[c] = "pollall" /\ mutex = NoCaller
  /\ mutex' = c /\ todo' = [todo EXCEPT ![c] = ListedIds]
  /\ Goto(c, "pollnext")
  /\ UNCHANGED <<rid, force, target, calls, raced, source_map, removed,
                 handlerVars, threadVars, eosMap, aborted>>

\* CheckStreamEosReached and SetStreamRemoved(false) of one stream
PollNext(c) ==
  /\ pc[c] = "pollnext"
  /\ \E i \in todo[c] :
       /\ Reached(i, force[c])
       /\ eosMap' = Forget(i)
       /\ removed' = removed \ {i}
       /\ todo' = [todo EXCEPT ![c] = @ \ {i}]
  /\ UNCHANGED <<pc, rid, force, target, calls, raced, source_map, mutex,
                 handlerVars, threadVars, aborted>>

\* source_map_.clear()
Clear(c) ==
  /\ pc[c] = "pollnext" /\ todo[c] = {}
  /\ source_map' = [i \in Ids |-> None]
  /\ StopUnheld(Range(source_map))
  /\ Goto(c, "unlock")
  /\ UNCHANGED <<rid, force, target, todo, calls, raced, mutex, removed, handlerVars,
                 thread, eosSent, flight, mixed, eosMap, aborted>>
-----------------------------------------------------------------------------
CallerStep(c) ==
  \/ Find(c) \/ CloseDone(c) \/ Poll(c) \/ Unset(c) \/ Erase(c) \/ Unlock(c)
  \/ StopNext(c) \/ JoinNext(c) \/ PollBegin(c) \/ PollNext(c) \/ Clear(c)

ThreadStep(h) ==
  Prepare(h) \/ LoopTest(h) \/ CheckRemoved(h) \/ RoundEnds(h) \/ SendData(h) \/ EndOfStream(h)

Next ==
  /\ ~aborted
  /\ \/ \E h \in Handlers : MakeHandler(h) \/ Drop(h) \/ Destroy(h) \/ AddSource(h)
     \/ \E h \in Handlers : ThreadStep(h) \/ FrameGone(h)
     \/ \E c \in Callers, f \in BOOLEAN :
          RemoveSources(c, f) \/ \E i \in Ids : RemoveSource(c, i, f)
     \/ \E c \in Callers : CallerStep(c)

Spec == Init /\ [][Next]_vars

\* The callers and handler threads are scheduled, and the pipeline lets every
\* frame go.
FairSpec ==
  /\ Spec
  /\ \A c \in Callers : WF_vars(~aborted /\ CallerStep(c))
  /\ \A h \in Handlers :
       /\ WF_vars(~aborted /\ ThreadStep(h))
       /\ WF_vars(~aborted /\ FrameGone(h))
       /\ WF_vars(~aborted /\ Destroy(h))
-----------------------------------------------------------------------------
\* Types of all variables.
TypeOK ==
  /\ made \in 0 .. MaxHandler /\ id \in [Handlers -> Ids]
  /\ index \in [Handlers -> 0 .. NoIndex] /\ idxMap \in [Ids -> 0 .. NoIndex]
  /\ held \in [Handlers -> BOOLEAN] /\ alive \in [Handlers -> BOOLEAN]
  /\ running \in [Handlers -> BOOLEAN] /\ eosSent \in [Handlers -> BOOLEAN]
  /\ thread \in [Handlers -> {"none", "open", "run", "process", "send", "ended"}]
  /\ \A h \in Handlers : flight[h] \in Seq({"data", "eos"}) /\ Len(flight[h]) <= MaxFrame
  /\ source_map \in [Ids -> Handlers \cup {None}]
  /\ mutex \in Callers \cup {NoCaller}
  /\ removed \subseteq Ids /\ mixed \subseteq Ids /\ raced \subseteq Ids
  /\ eosMap \in [Ids -> {"absent", "coming", "reached"}]
  /\ pc \in [Callers -> {"idle", "find", "join", "poll", "unset", "erase", "unlock",
                          "stopall", "joinall", "pollall", "pollnext"}]
  /\ rid \in [Callers -> Ids \cup {"all"}] /\ force \in [Callers -> BOOLEAN]
  /\ target \in [Callers -> Handlers \cup {None}] /\ todo \in [Callers -> SUBSET Ids]
  /\ calls \in 0 .. MaxRemove /\ aborted \in BOOLEAN

\* The frames of a stream in source_map_ are dropped only while a forced removal
\* of it is in progress: a flag left by a removal that found nothing, or by one
\* that raced with another, never reaches the next stream of that id.
ActiveNotDropped ==
  \A i \in removed : source_map[i] # None => \E c \in Busy(i) : force[c]

\* the handlers whose EOS a forced removal has just waited for
Waited(c) ==
  IF ~force[c] THEN {}
  ELSE IF pc[c] = "unset" THEN {target[c]}
  ELSE IF pc[c] = "pollnext" THEN {source_map[i] : i \in ListedIds \ todo[c]}
  ELSE {}

\* "wait for eos reached": a forced removal goes on only when no EOS of the handler
\* is in the pipeline, whatever flag earlier streams of the id left behind, unless
\* EOS frames of two handlers of the id were there at once or removals overlapped.
WaitsForEos ==
  \A c \in Callers : \A h \in Waited(c) :
    h \in EosComing(id[h]) => id[h] \in mixed \cup raced

\* A handler that reads on is in source_map_, where a removal finds it, and Open
\* never meets a thread nobody joined, unless removals of its id overlapped or it
\* was added between two sections of RemoveSources.
NoneForgotten ==
  /\ \A h \in Handlers : running[h] => Listed(h) \/ id[h] \in raced
  /\ aborted => raced # {}

\* RemoveSource and RemoveSources return, forced or not.
RemoveReturns ==
  \A c \in Callers : pc[c] # "idle" ~> pc[c] = "idle" \/ aborted

\* Two streams in source_map_ have different indices (SetStreamIndex: "Number to
\* identify stream").
IndexUnique ==
  \A g, h \in Handlers : Listed(g) /\ Listed(h) /\ g # h => index[g] # index[h]
=============================================================================
