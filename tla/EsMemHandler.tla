----------------------------- MODULE EsMemHandler -----------------------------
(***************************************************************************)
(* A stream that the application writes packet by packet                   *)
(* (modules/source/src/data_handler_mem.cpp, BoundedQueue and SourceRender *)
(* in data_handler_util.hpp, EsParser in video_parser.cpp, MluDecoder in   *)
(* video_decoder.cpp and MpsVdec in ax_service_impl_vdec.cpp).  Writers    *)
(* run the parser, whose pictures go through a bounded queue to the decode *)
(* thread; the decoder is polled in that thread and its pictures are sent  *)
(* on from there.                                                          *)
(*                                                                         *)
(* A packet is one picture, numbered in the order in which the parser gets *)
(* them.  The parser gives a picture when it sees the next one begin or is *)
(* told that the stream ends (libavcodec).                                 *)
(***************************************************************************)
EXTENDS Integers, Sequences, FiniteSets, Functions

CONSTANTS
  Writers,    (* application threads that call Write                       *)
  MaxQueue,   (* capacity of the queue                                     *)
  MaxWrite,   (* bound: calls of Write                                     *)
  MaxOpen     (* bound: calls of Open                                      *)

Eos == 0
NoPicture == 0
NoWriter == "free"
Pictures == 1 .. MaxWrite
Kinds == {"data", "end", "eos", "last"}   \* "last": data with FLAG_EOS

ASSUME EsMemAssumption ==
  /\ IsFiniteSet(Writers) /\ NoWriter \notin Writers
  /\ MaxQueue \in Nat \ {0} /\ MaxWrite \in Nat /\ MaxOpen \in Nat

VARIABLES
  owner,        (* where Open and Close are                                *)
  opens,        (* number of calls of Open                                 *)
  running,      (* running_                                                *)
  eos_reached,  (* eos_reached_                                            *)
  info_set,     (* info_set_; the parser's first_time_ is its negation     *)
  open_success, (* EsParserImpl::open_success_                             *)
  pending,      (* the picture the parser holds                            *)
  parser,       (* the writer that holds the parser's mutex                *)
  has_queue,    (* queue_ is not null                                      *)
  queue,        (* its pictures and EOS                                    *)
  thread,       (* where DecodeLoop is                                     *)
  decoder,      (* pictures in the decoder                                 *)
  eos_sent,     (* SourceRender::eos_sent_                                 *)
  pc,           (* where each writer is                                    *)
  kind,         (* the packet it writes                                    *)
  todo,         (* what it has still to push                               *)
  given,        (* number of pictures given to the parser                  *)
  since,        (* history: given when Open was last called                *)
  out           (* history: what was sent since then                       *)

ownerVars  == <<owner, opens, since>>
stateVars  == <<running, eos_reached>>
parserVars == <<info_set, open_success, pending, parser, given>>
queueVars  == <<has_queue, queue>>
threadVars == <<thread, decoder, eos_sent, out>>
writerVars == <<pc, kind, todo>>
vars == <<ownerVars, stateVars, parserVars, queueVars, threadVars, writerVars>>

Ended == {"ended", "failed", "late"}   \* the ways DecodeLoop returns

Init ==
  /\ owner = "closed" /\ opens = 0 /\ since = 0
  /\ running = FALSE /\ eos_reached = FALSE
  /\ info_set = FALSE /\ open_success = FALSE /\ given = 0
  /\ pending = NoPicture /\ parser = NoWriter
  /\ has_queue = FALSE /\ queue = <<>>
  /\ thread = "none" /\ decoder = <<>> /\ eos_sent = FALSE /\ out = <<>>
  /\ pc = [w \in Writers |-> "idle"] /\ kind = [w \in Writers |-> "data"]
  /\ todo = [w \in Writers |-> <<>>]
-----------------------------------------------------------------------------
(* Open and Close, called one at a time (SourceModule::mutex_)             *)

\* a new queue, running_ = true, the decode thread is started
Open ==
  /\ owner = "closed" /\ opens < MaxOpen
  /\ owner' = "opening" /\ opens' = opens + 1
  /\ has_queue' = TRUE /\ queue' = <<>>
  /\ running' = TRUE /\ thread' = "prepare"
  /\ since' = given /\ out' = <<>>
  /\ UNCHANGED <<eos_reached, parserVars, decoder, eos_sent, writerVars>>

\* parser_.Open; when it fails, the thread stays
OpenParser ==
  /\ owner = "opening" /\ parser = NoWriter
  /\ \/ open_success' = TRUE /\ owner' = "open"
     \/ owner' = "failed" /\ UNCHANGED open_success
  /\ UNCHANGED <<opens, since, stateVars, info_set, pending, parser, given,
                 queueVars, threadVars, writerVars>>

\* Variant: Close does not stop the thread.
CloseWithoutStop ==
  /\ owner = "open"
  /\ owner' = "join"
  /\ UNCHANGED <<opens, since, stateVars, parserVars, queueVars, threadVars, writerVars>>

\* Close, which begins with Stop
Close ==
  /\ owner = "open"
  /\ owner' = "join" /\ running' = FALSE
  /\ UNCHANGED <<opens, since, eos_reached, parserVars, queueVars, threadVars, writerVars>>

\* the thread is joined and the queue deleted
Join ==
  /\ owner = "join" /\ thread \in Ended
  /\ owner' = "parser" /\ thread' = "none"
  /\ has_queue' = FALSE /\ queue' = <<>>
  /\ UNCHANGED <<opens, since, stateVars, parserVars, decoder, eos_sent, out, writerVars>>

\* Variant: the parser keeps the picture it holds.
CloseParserKeep ==
  /\ owner = "parser" /\ parser = NoWriter
  /\ owner' = "closed" /\ open_success' = FALSE
  /\ UNCHANGED <<opens, since, stateVars, info_set, pending, parser, given,
                 queueVars, threadVars, writerVars>>

\* parser_.Close
CloseParser ==
  /\ owner = "parser" /\ parser = NoWriter
  /\ owner' = "closed" /\ open_success' = FALSE /\ pending' = NoPicture
  /\ UNCHANGED <<opens, since, stateVars, info_set, parser, given,
                 queueVars, threadVars, writerVars>>
-----------------------------------------------------------------------------
(* Write                                                                   *)

\* writers whose picture the parser has still to number
Parsing == {w \in Writers : pc[w] = "parse" /\ kind[w] # "end"}

\* A packet is refused after the EOS and when the handler is not running.
Write(w, k) ==
  /\ pc[w] = "idle" /\ running /\ ~eos_reached
  /\ k \in {"data", "last"} => given + Cardinality(Parsing) < MaxWrite
  /\ kind' = [kind EXCEPT ![w] = k]
  /\ IF k = "eos" THEN /\ pc' = [pc EXCEPT ![w] = "emit"]
                       /\ todo' = [todo EXCEPT ![w] = <<Eos>>]
                  ELSE pc' = [pc EXCEPT ![w] = "parse"] /\ UNCHANGED todo
  /\ UNCHANGED <<ownerVars, stateVars, parserVars, queueVars, threadVars>>

\* w has frames to hand over, under the parser's mutex
Emit(w, frames) ==
  /\ parser' = w
  /\ pc' = [pc EXCEPT ![w] = "emit"] /\ todo' = [todo EXCEPT ![w] = frames]

\* EsParserImpl::Parse.  Up to the first key picture, pictures are dropped; an
\* error in that one ends the stream.
Parse(w) ==
  /\ pc[w] = "parse" /\ parser = NoWriter
  /\ \/ /\ ~open_success
        /\ Emit(w, <<Eos>>)
        /\ UNCHANGED <<eos_reached, info_set, pending, given>>
     \/ /\ open_success
        /\ LET end  == IF kind[w] = "end" THEN <<Eos>> ELSE <<>>
               next == IF kind[w] = "end" THEN NoPicture ELSE given + 1
           IN  /\ pending' = next /\ given' = IF kind[w] = "end" THEN given ELSE next
               /\ \/ /\ pending # NoPicture
                     /\ info_set' = TRUE
                     /\ Emit(w, <<pending>> \o end)
                     /\ UNCHANGED eos_reached
                  \/ /\ ~info_set \/ pending = NoPicture
                     /\ Emit(w, end)
                     /\ UNCHANGED <<eos_reached, info_set>>
                  \/ /\ ~info_set /\ pending # NoPicture
                     /\ eos_reached' = TRUE
                     /\ pc' = [pc EXCEPT ![w] = "idle"]
                     /\ UNCHANGED <<info_set, parser, todo>>
  /\ UNCHANGED <<ownerVars, running, open_success, queueVars, threadVars, kind>>

\* OnParserFrame begins
OnParserFrame(w) ==
  /\ pc[w] = "emit" /\ todo[w] # <<>>
  /\ pc' = [pc EXCEPT ![w] = "push"]
  /\ eos_reached' = (eos_reached \/ Head(todo[w]) = Eos)
  /\ UNCHANGED <<ownerVars, running, parserVars, queueVars, threadVars, kind, todo>>

Pushed(w) ==
  /\ todo' = [todo EXCEPT ![w] = Tail(@)] /\ pc' = [pc EXCEPT ![w] = "emit"]
  /\ UNCHANGED <<ownerVars, stateVars, parserVars, has_queue, threadVars, kind>>

\* Push with a timeout, until it succeeds or running_ is seen false; the queue may
\* be the next one by then
Push(w) ==
  /\ pc[w] = "push"
  /\ \/ has_queue /\ Len(queue) < MaxQueue /\ queue' = Append(queue, Head(todo[w]))
     \/ (~has_queue \/ ~running) /\ UNCHANGED queue
  /\ Pushed(w)

\* the parser returns; FLAG_EOS asks for an EOS, without its mutex
Parsed(w) ==
  /\ pc[w] = "emit" /\ todo[w] = <<>>
  /\ parser' = IF parser = w THEN NoWriter ELSE parser
  /\ IF kind[w] = "last"
     THEN /\ kind' = [kind EXCEPT ![w] = "eos"] /\ todo' = [todo EXCEPT ![w] = <<Eos>>]
          /\ UNCHANGED <<pc, eos_reached>>
     ELSE /\ pc' = [pc EXCEPT ![w] = "idle"]
          /\ eos_reached' = (eos_reached \/ kind[w] = "eos")
          /\ UNCHANGED <<kind, todo>>
  /\ UNCHANGED <<ownerVars, running, info_set, open_success, pending, given,
                 queueVars, threadVars>>
-----------------------------------------------------------------------------
(* DecodeLoop                                                              *)

Goto(l) ==
  /\ thread' = l
  /\ UNCHANGED <<ownerVars, stateVars, parserVars, writerVars>>

\* ClearResources destroys the decoder with what is left in it
End(l) == Goto(l) /\ decoder' = <<>> /\ UNCHANGED queueVars

SendFlowEos ==
  /\ eos_sent' = TRUE
  /\ out' = IF eos_sent THEN out ELSE Append(out, Eos)

\* Variant: an EOS that comes before any picture is not noticed.
WaitForInfoOnly ==
  /\ thread = "prepare"
  /\ \/ ~running /\ Goto("ended")
     \/ running /\ info_set /\ Goto("create")
  /\ UNCHANGED <<queueVars, decoder, eos_sent, out>>

\* PrepareResources polls until there is something to decode, or nothing
WaitForInfo ==
  /\ thread = "prepare"
  /\ \/ ~running /\ Goto("ended")
     \/ running /\ eos_reached /\ ~info_set /\ Goto("noinfo")
     \/ running /\ info_set /\ Goto("create")
  /\ UNCHANGED <<queueVars, decoder, eos_sent, out>>

\* it looks at info_set_ again; if that is set by now, it has not copied info_
\* and no decoder can be created
NoInfo ==
  /\ thread = "noinfo"
  /\ \/ ~running /\ End("ended") /\ UNCHANGED <<eos_sent, out>>
     \/ running /\ ~info_set /\ SendFlowEos /\ End("ended")
     \/ running /\ info_set /\ End("failed") /\ UNCHANGED <<eos_sent, out>>

Create ==
  /\ thread = "create"
  /\ \/ ~running /\ End("ended")
     \/ running /\ \/ End("failed")
                   \/ Goto("loop") /\ UNCHANGED <<queueVars, decoder>>
  /\ UNCHANGED <<eos_sent, out>>

\* while (running_.load())
LoopTest ==
  /\ thread = "loop"
  /\ IF running THEN Goto("pop") /\ UNCHANGED <<queueVars, decoder>> ELSE End("ended")
  /\ UNCHANGED <<eos_sent, out>>

\* Process: Pop with a timeout, and the decoder takes the picture or fails
Pop ==
  /\ thread = "pop"
  /\ \/ queue = <<>> /\ Goto("loop") /\ UNCHANGED <<queueVars, decoder>>
     \/ /\ queue # <<>> /\ queue' = Tail(queue) /\ UNCHANGED has_queue
        /\ IF Head(queue) = Eos
           THEN Goto("flush") /\ UNCHANGED decoder
           ELSE \/ Goto("poll") /\ decoder' = Append(decoder, Head(queue))
                \/ Goto("failed") /\ decoder' = <<>>
  /\ UNCHANGED <<eos_sent, out>>

\* GetChnFrame and OnDecodeFrame, which may discard the picture
GetPicture ==
  /\ thread \in {"poll", "flush"} /\ decoder # <<>>
  /\ decoder' = Tail(decoder)
  /\ out' \in {out, Append(out, Head(decoder))}
  /\ Goto(thread) /\ UNCHANGED <<queueVars, eos_sent>>

\* no picture within the timeout: back to the queue; or an error
PollEnds ==
  /\ thread = "poll"
  /\ \/ Goto("loop") /\ UNCHANGED <<queueVars, decoder>>
     \/ End("failed")
  /\ UNCHANGED <<eos_sent, out>>

\* CheckHandleEos reports the EOS once the decoder is empty.  No picture within the
\* timeout ends the flush, too, and so does an error: then there is no EOS.
FlushEnds ==
  /\ thread = "flush"
  /\ \/ decoder = <<>> /\ SendFlowEos /\ End("ended")
     \/ decoder # <<>> /\ End("late") /\ UNCHANGED <<eos_sent, out>>
     \/ End("failed") /\ UNCHANGED <<eos_sent, out>>
-----------------------------------------------------------------------------
WriterStep(w) == Parse(w) \/ OnParserFrame(w) \/ Push(w) \/ Parsed(w)

OwnerStep == OpenParser \/ Join \/ CloseParser

ThreadStep ==
  WaitForInfo \/ NoInfo \/ Create \/ LoopTest \/ Pop \/ GetPicture \/ PollEnds \/ FlushEnds

Next ==
  \/ Open \/ Close \/ OwnerStep \/ ThreadStep
  \/ \E w \in Writers : WriterStep(w) \/ \E k \in Kinds : Write(w, k)

Spec == Init /\ [][Next]_vars

\* All threads are scheduled; every wait of theirs has a timeout.
FairSpec ==
  /\ Spec
  /\ \A w \in Writers : WF_vars(WriterStep(w))
  /\ WF_vars(OwnerStep) /\ WF_vars(ThreadStep)
-----------------------------------------------------------------------------
\* Types of all variables.
TypeOK ==
  /\ owner \in {"closed", "opening", "open", "join", "parser", "failed"}
  /\ opens \in 0 .. MaxOpen /\ given \in 0 .. MaxWrite /\ since \in 0 .. MaxWrite
  /\ running \in BOOLEAN /\ eos_reached \in BOOLEAN /\ eos_sent \in BOOLEAN
  /\ info_set \in BOOLEAN /\ open_success \in BOOLEAN
  /\ pending \in Pictures \cup {NoPicture} /\ parser \in Writers \cup {NoWriter}
  /\ has_queue \in BOOLEAN
  /\ queue \in Seq(Pictures \cup {Eos}) /\ Len(queue) <= MaxQueue
  /\ thread \in Ended \cup {"none", "prepare", "noinfo", "create", "loop", "pop",
                            "poll", "flush"}
  /\ decoder \in Seq(Pictures) /\ out \in Seq(Pictures \cup {Eos})
  /\ pc \in [Writers -> {"idle", "parse", "emit", "push"}]
  /\ kind \in [Writers -> Kinds] /\ todo \in [Writers -> Seq(Pictures \cup {Eos})]

\* What is sent is in the order in which it was written, with the EOS last, and no
\* picture of it was written before Open: not what the parser, the queue or the
\* decoder held, nor what a writer was pushing during Close.
SentInOrder ==
  \A i \in DOMAIN out :
    /\ out[i] = Eos => i = Len(out)
    /\ out[i] # Eos => /\ out[i] > since
                      /\ \A j \in 1 .. i - 1 : out[j] < out[i]

\* An EOS that got into the queue is sent, unless the handler is closed first, the
\* decoder fails, or it has pictures left that do not come within the timeout.
EosIsSent ==
  (\E i \in DOMAIN queue : queue[i] = Eos) ~>
    eos_sent \/ ~running \/ thread \in {"failed", "late"}

\* The decode thread is gone while the handler is running: nobody empties the queue.
Deserted == running /\ thread \in Ended

\* Write and Open return unless the queue is deserted; Close always returns.
CallsReturn ==
  /\ \A w \in Writers : pc[w] # "idle" ~> pc[w] = "idle" \/ Deserted
  /\ owner \in {"opening", "join", "parser"} ~> owner \in {"closed", "open", "failed"} \/ Deserted
=============================================================================
