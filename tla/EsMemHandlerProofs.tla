------------------------- MODULE EsMemHandlerProofs -------------------------
(***************************************************************************)
(* What the handler sends is in the order written and never older than the *)
(* last Open, for any number of writers, packets and openings and any      *)
(* capacity of the queue.  The pictures are followed along their way: the  *)
(* parser, the hands of the one writer that holds its mutex, the queue,    *)
(* the decoder and what was sent; each place has only pictures older than  *)
(* the place before it.                                                    *)
(***************************************************************************)
EXTENDS EsMemHandler, FiniteSetTheorems, TLAPS

Items == Pictures \cup {Eos}

\* Every writer whose picture is not numbered yet has its number left.
Room == given + Cardinality(Parsing) <= MaxWrite

\* A writer that pushes has something to push.
Handing == \A w \in Writers : pc[w] = "push" => todo[w] # <<>>

Types == TypeOK /\ Room /\ Handing

\* Eos is 0: it is below every picture, and pictures alone need compare.
Rising(s) == \A i, j \in DOMAIN s : i < j /\ s[j] # Eos => s[i] < s[j]
Before(s, t) == \A i \in DOMAIN s, j \in DOMAIN t : t[j] # Eos => s[i] < t[j]
Below(s, n) == \A i \in DOMAIN s : s[i] < n
Above(s, n) == \A i \in DOMAIN s : s[i] # Eos => s[i] > n

Lines ==
  /\ Rising(out) /\ Rising(decoder) /\ Rising(queue)
  /\ Before(out, decoder) /\ Before(out, queue) /\ Before(decoder, queue)
  /\ Above(out, since) /\ Above(decoder, since) /\ Above(queue, since)
  /\ Below(out, given + 1) /\ Below(decoder, given + 1) /\ Below(queue, given + 1)

\* n is newer than all that is in the queue, the decoder or sent.
Newer(n) ==
  /\ n > since /\ n <= given
  /\ Below(out, n) /\ Below(decoder, n) /\ Below(queue, n)

HeldInv == pending # NoPicture => Newer(pending) /\ open_success

\* Only the writer that holds the parser's mutex has a picture, and it comes first.
HandsInv ==
  \A w \in Writers : \A i \in DOMAIN todo[w] : todo[w][i] # Eos =>
    /\ i = 1 /\ parser = w /\ open_success
    /\ Newer(todo[w][i])
    /\ pending # NoPicture => todo[w][i] < pending

Active == {"loop", "pop", "poll", "flush"}

PhaseInv ==
  /\ owner \in {"closed", "opening", "failed"} => ~open_success
  /\ owner \in {"closed", "parser"} => thread = "none"
  /\ thread \notin Active => decoder = <<>>
  /\ \A w \in Writers : pc[w] \in {"idle", "parse"} => todo[w] = <<>>
  /\ since <= given

EosInv ==
  \A i \in DOMAIN out : out[i] = Eos => i = Len(out) /\ thread \in {"ended", "none"}

OrderInv == Lines /\ HeldInv /\ HandsInv /\ PhaseInv /\ EosInv
-----------------------------------------------------------------------------
(* Types                                                                    *)

LEMMA ConstantTypes ==
  /\ Items \subseteq Nat /\ Pictures \subseteq Items /\ Eos \in Items
  /\ MaxQueue \in Nat \ {0} /\ MaxWrite \in Nat /\ MaxOpen \in Nat
  /\ \A n \in Items : n # Eos => n \in Pictures /\ n > 0
BY EsMemAssumption DEF Items, Pictures, Eos

LEMMA EmptyType ==
  /\ <<>> \in Seq(Pictures) /\ <<>> \in Seq(Pictures \cup {Eos})
  /\ Len(<<>>) \in Nat /\ Len(<<>>) <= MaxQueue
BY EsMemAssumption

LEMMA AppendType ==
  ASSUME NEW S, NEW s \in Seq(S), NEW x \in S
  PROVE  /\ Append(s, x) \in Seq(S) /\ Len(s) \in Nat /\ Len(Append(s, x)) = Len(s) + 1
OBVIOUS

LEMMA TailType ==
  ASSUME NEW S, NEW s \in Seq(S), s # <<>>
  PROVE  /\ Head(s) \in S /\ Tail(s) \in Seq(S)
         /\ Len(s) \in Nat /\ Len(Tail(s)) = Len(s) - 1
OBVIOUS

\* Parsing may lose writers at any step.
LEMMA ParsingShrinks ==
  ASSUME TypeOK, Room, Parsing' \subseteq Parsing, given' = given
  PROVE  Room'
<1>1. IsFiniteSet(Parsing) /\ Cardinality(Parsing) \in Nat
  BY EsMemAssumption, FS_Subset, FS_CardinalityType DEF Parsing
<1>2. Cardinality(Parsing') <= Cardinality(Parsing) /\ Cardinality(Parsing') \in Nat
  BY <1>1, FS_Subset, FS_CardinalityType
<1>. QED
  BY <1>1, <1>2, ConstantTypes DEF Room, TypeOK

LEMMA InitTypes == Init => Types
<1>. SUFFICES ASSUME Init PROVE Types
  OBVIOUS
<1>1. TypeOK
  <2>1. /\ pc \in [Writers -> {"idle", "parse", "emit", "push"}]
        /\ kind \in [Writers -> Kinds] /\ todo \in [Writers -> Seq(Pictures \cup {Eos})]
    BY EmptyType DEF Init, Kinds
  <2>2. 0 \in 0 .. MaxOpen /\ 0 \in 0 .. MaxWrite
    BY ConstantTypes
  <2>. QED
    BY <2>1, <2>2, EmptyType DEF Init, TypeOK, NoPicture
<1>2. Parsing = {}
  BY DEF Init, Parsing
<1>3. Room
  BY <1>2, FS_EmptySet, ConstantTypes DEF Init, Room
<1>. QED
  BY <1>1, <1>3 DEF Init, Types, Handing

\* The types of what the decode thread changes.
QueueTyped   == queue \in Seq(Pictures \cup {Eos}) /\ Len(queue) <= MaxQueue
DecoderTyped == decoder \in Seq(Pictures)
OutTyped     == out \in Seq(Pictures \cup {Eos})

ThreadTyped ==
  /\ has_queue \in BOOLEAN /\ eos_sent \in BOOLEAN
  /\ thread \in Ended \cup {"none", "prepare", "noinfo", "create", "loop", "pop",
                            "poll", "flush"}
  /\ QueueTyped /\ DecoderTyped /\ OutTyped

LEMMA OwnerTypes ==
  ASSUME Types, Open \/ Close \/ OwnerStep
  PROVE  Types'
<1>. USE DEF ownerVars, stateVars, parserVars, queueVars, threadVars, writerVars
<1>1. Parsing' = Parsing /\ given' = given /\ Handing'
  BY DEF Types, Open, Close, OwnerStep, OpenParser, Join, CloseParser, Parsing, Handing
<1>2. Room'
  BY <1>1, ParsingShrinks DEF Types
<1>3. /\ UNCHANGED <<info_set, parser, given, writerVars, eos_reached>>
      /\ owner' \in {"closed", "opening", "open", "join", "parser", "failed"}
      /\ running' \in {running, TRUE, FALSE} /\ open_success' \in {open_success, TRUE, FALSE}
      /\ pending' \in {pending, NoPicture} /\ since' \in {since, given}
  BY DEF Open, Close, OwnerStep, OpenParser, Join, CloseParser
<1>4. opens' \in 0 .. MaxOpen
  BY ConstantTypes DEF Types, TypeOK, Open, Close, OwnerStep, OpenParser, Join, CloseParser
<1>5. ThreadTyped'
  <2>1. /\ UNCHANGED <<decoder, eos_sent>>
        /\ has_queue' \in {has_queue, TRUE, FALSE} /\ queue' \in {queue, <<>>}
        /\ thread' \in {thread, "prepare", "none"} /\ out' \in {out, <<>>}
    BY DEF Open, Close, OwnerStep, OpenParser, Join, CloseParser
  <2>2. ThreadTyped
    BY DEF Types, TypeOK, ThreadTyped, QueueTyped, DecoderTyped, OutTyped
  <2>3. QueueTyped'
    BY <2>1, <2>2, EmptyType DEF ThreadTyped, QueueTyped
  <2>4. OutTyped'
    BY <2>1, <2>2, EmptyType DEF ThreadTyped, OutTyped
  <2>5. DecoderTyped'
    BY <2>1, <2>2 DEF ThreadTyped, DecoderTyped
  <2>. QED
    BY <2>1, <2>2, <2>3, <2>4, <2>5 DEF ThreadTyped
<1>6. TypeOK'
  BY <1>3, <1>4, <1>5 DEF Types, TypeOK, ThreadTyped, QueueTyped, DecoderTyped, OutTyped
<1>. QED
  BY <1>1, <1>2, <1>6 DEF Types

LEMMA ThreadTypes ==
  ASSUME Types, ThreadStep
  PROVE  Types'
<1>. USE DEF ownerVars, stateVars, parserVars, queueVars, writerVars, Goto, End
<1>1. UNCHANGED <<ownerVars, stateVars, parserVars, writerVars, has_queue>>
  BY DEF ThreadStep, WaitForInfo, NoInfo, Create, LoopTest, Pop, GetPicture, PollEnds,
         FlushEnds
<1>2. Room' /\ Handing'
  <2>1. Parsing' = Parsing /\ given' = given /\ Handing'
    BY <1>1 DEF Types, Parsing, Handing
  <2>. QED
    BY <2>1, ParsingShrinks DEF Types
<1>3. ThreadTyped
  BY DEF Types, TypeOK, ThreadTyped, QueueTyped, DecoderTyped, OutTyped
<1>. SUFFICES ThreadTyped'
  <2>1. ASSUME ThreadTyped' PROVE TypeOK'
    BY <1>1, <2>1 DEF Types, TypeOK, ThreadTyped, QueueTyped, DecoderTyped, OutTyped
  <2>. QED
    BY <1>2, <2>1 DEF Types
<1>4. SendFlowEos => eos_sent' \in BOOLEAN /\ OutTyped'
  BY <1>3 DEF SendFlowEos, ThreadTyped, OutTyped
<1>5. CASE WaitForInfo \/ Create \/ LoopTest \/ PollEnds
  <2>1. /\ UNCHANGED <<queue, eos_sent, out>> /\ decoder' \in {decoder, <<>>}
        /\ thread' \in {"ended", "failed", "create", "noinfo", "loop", "pop"}
    BY <1>5 DEF WaitForInfo, Create, LoopTest, PollEnds
  <2>2. DecoderTyped' /\ QueueTyped' /\ OutTyped'
    BY <1>3, <2>1, EmptyType DEF ThreadTyped, DecoderTyped, QueueTyped, OutTyped
  <2>. QED
    BY <1>1, <1>3, <2>1, <2>2 DEF ThreadTyped, Ended
<1>6. CASE NoInfo \/ FlushEnds
  <2>1. /\ UNCHANGED queue /\ decoder' = <<>> /\ thread' \in Ended
        /\ SendFlowEos \/ UNCHANGED <<eos_sent, out>>
    BY <1>6 DEF NoInfo, FlushEnds, Ended
  <2>2. eos_sent' \in BOOLEAN /\ OutTyped'
    BY <1>3, <1>4, <2>1 DEF ThreadTyped, OutTyped
  <2>3. DecoderTyped' /\ QueueTyped'
    BY <1>3, <2>1, EmptyType DEF ThreadTyped, DecoderTyped, QueueTyped
  <2>. QED
    BY <1>1, <1>3, <2>1, <2>2, <2>3 DEF ThreadTyped
<1>7. CASE Pop
  <2>0. /\ UNCHANGED <<eos_sent, out>> /\ thread' \in {"loop", "flush", "poll", "failed"}
        /\ queue' = queue \/ (queue # <<>> /\ queue' = Tail(queue))
        /\ \/ decoder' \in {decoder, <<>>}
           \/ queue # <<>> /\ Head(queue) # Eos /\ decoder' = Append(decoder, Head(queue))
    BY <1>7 DEF Pop
  <2>1. QueueTyped'
    <3>1. queue # <<>> => /\ Tail(queue) \in Seq(Pictures \cup {Eos})
                          /\ Len(queue) \in Nat /\ Len(Tail(queue)) = Len(queue) - 1
      BY <1>3, TailType DEF ThreadTyped, QueueTyped
    <3>2. queue \in Seq(Pictures \cup {Eos}) /\ Len(queue) <= MaxQueue /\ MaxQueue \in Nat
      BY <1>3, ConstantTypes DEF ThreadTyped, QueueTyped
    <3>3. CASE queue' = queue
      BY <3>2, <3>3 DEF QueueTyped
    <3>4. CASE queue # <<>> /\ queue' = Tail(queue)
      <4>1. Len(queue') = Len(queue) - 1 /\ Len(queue) \in Nat
        BY <3>1, <3>4
      <4>. QED
        BY <3>1, <3>2, <3>4, <4>1 DEF QueueTyped
    <3>. QED
      BY <2>0, <3>3, <3>4
  <2>2. DecoderTyped'
    <3>1. queue # <<>> /\ Head(queue) # Eos => Head(queue) \in Pictures
      BY <1>3, TailType DEF ThreadTyped, QueueTyped
    <3>2. CASE decoder' \in {decoder, <<>>}
      BY <1>3, <3>2, EmptyType DEF ThreadTyped, DecoderTyped
    <3>3. CASE queue # <<>> /\ Head(queue) # Eos /\ decoder' = Append(decoder, Head(queue))
      BY <1>3, <3>1, <3>3, AppendType DEF ThreadTyped, DecoderTyped
    <3>. QED
      BY <2>0, <3>2, <3>3
  <2>3. OutTyped'
    BY <1>3, <2>0 DEF ThreadTyped, OutTyped
  <2>. QED
    BY <1>1, <1>3, <2>0, <2>1, <2>2, <2>3 DEF ThreadTyped, Ended
<1>8. CASE GetPicture
  <2>0. /\ UNCHANGED <<queue, eos_sent, thread>> /\ decoder # <<>>
        /\ decoder' = Tail(decoder) /\ out' \in {out, Append(out, Head(decoder))}
    BY <1>8 DEF GetPicture
  <2>1. DecoderTyped' /\ Head(decoder) \in Pictures \cup {Eos}
    BY <1>3, <2>0, TailType DEF ThreadTyped, DecoderTyped
  <2>2. OutTyped'
    BY <1>3, <2>0, <2>1, AppendType DEF ThreadTyped, OutTyped
  <2>3. QueueTyped'
    BY <1>3, <2>0 DEF ThreadTyped, QueueTyped
  <2>. QED
    BY <1>1, <1>3, <2>0, <2>1, <2>2, <2>3 DEF ThreadTyped
<1>. QED
  BY <1>5, <1>6, <1>7, <1>8 DEF ThreadStep

LEMMA WriteTypes ==
  ASSUME Types, NEW w \in Writers, NEW k \in Kinds, Write(w, k)
  PROVE  Types'
<1>. USE DEF Types, ownerVars, stateVars, parserVars, queueVars, threadVars
<1>1. pc' \in [Writers -> {"idle", "parse", "emit", "push"}] /\ kind' \in [Writers -> Kinds]
  BY DEF Write, TypeOK
<1>2. <<Eos>> \in Seq(Pictures \cup {Eos})
  OBVIOUS
<1>3. todo' \in [Writers -> Seq(Pictures \cup {Eos})]
  BY <1>2 DEF Write, TypeOK
<1>4. TypeOK'
  BY <1>1, <1>3 DEF Write, TypeOK
<1>5. Handing'
  BY DEF Write, TypeOK, Handing
<1>6. CASE k \in {"data", "last"}
  <2>1. Parsing' = Parsing \cup {w} /\ w \notin Parsing
    BY <1>6 DEF Write, TypeOK, Parsing
  <2>2. IsFiniteSet(Parsing) /\ Cardinality(Parsing) \in Nat
    BY EsMemAssumption, FS_Subset, FS_CardinalityType DEF Parsing
  <2>3. Cardinality(Parsing') = Cardinality(Parsing) + 1
    BY <2>1, <2>2, FS_AddElement
  <2>4. given + Cardinality(Parsing) < MaxWrite /\ given' = given
    BY <1>6 DEF Write
  <2>5. Room'
    BY <2>2, <2>3, <2>4, ConstantTypes DEF Room, TypeOK
  <2>. QED
    BY <1>4, <1>5, <2>5
<1>7. CASE k \notin {"data", "last"}
  <2>1. Parsing' \subseteq Parsing /\ given' = given
    BY <1>7 DEF Write, TypeOK, Parsing, Kinds
  <2>. QED
    BY <1>4, <1>5, <2>1, ParsingShrinks
<1>. QED
  BY <1>6, <1>7

\* A writer that has given its packet to the parser is no longer counted.
LEMMA ParseRoom ==
  ASSUME Types, NEW w \in Writers, Parse(w)
  PROVE  /\ Room' /\ given' \in 0 .. MaxWrite
         /\ open_success => pending' \in Pictures \cup {NoPicture}
<1>. USE DEF Types, parserVars
<1>1. IsFiniteSet(Parsing) /\ Cardinality(Parsing) \in Nat
  BY EsMemAssumption, FS_Subset, FS_CardinalityType DEF Parsing
<1>2. kind' = kind /\ pc[w] = "parse" /\ pc' \in [Writers -> {"idle", "parse", "emit", "push"}]
      /\ pc'[w] # "parse" /\ \A v \in Writers \ {w} : pc'[v] = pc[v]
  BY DEF Parse, Emit, TypeOK
<1>3. CASE kind[w] = "end" \/ ~open_success
  <2>1. Parsing' \subseteq Parsing
    BY <1>2 DEF Parsing
  <2>2. given' = given /\ (open_success => pending' = NoPicture)
    BY <1>3 DEF Parse
  <2>. QED
    BY <2>1, <2>2, ParsingShrinks DEF TypeOK
<1>4. CASE kind[w] # "end" /\ open_success
  <2>1. Parsing' = Parsing \ {w} /\ w \in Parsing
    BY <1>2, <1>4 DEF Parsing
  <2>2. Cardinality(Parsing') = Cardinality(Parsing) - 1 /\ Cardinality(Parsing') \in Nat
    BY <1>1, <2>1, FS_RemoveElement, FS_CardinalityType
  <2>3. given' = given + 1 /\ pending' = given + 1
    BY <1>4 DEF Parse
  <2>4. given + 1 <= MaxWrite /\ given \in Nat
    BY <1>1, <2>2, ConstantTypes DEF Room, TypeOK
  <2>5. given + 1 \in Pictures /\ given + 1 \in 0 .. MaxWrite
    BY <2>4, ConstantTypes DEF Pictures
  <2>6. Room'
    BY <1>1, <2>2, <2>3, <2>4, ConstantTypes DEF Room
  <2>. QED
    BY <2>3, <2>5, <2>6
<1>. QED
  BY <1>3, <1>4

LEMMA WriterTypes ==
  ASSUME Types, NEW w \in Writers, WriterStep(w)
  PROVE  Types'
<1>. USE DEF Types, ownerVars, stateVars, parserVars, queueVars, threadVars
<1>. DEFINE S == Seq(Pictures \cup {Eos})
<1>1. todo[w] # <<>> => Head(todo[w]) \in Pictures \cup {Eos} /\ Tail(todo[w]) \in S
  BY DEF TypeOK
<1>2. CASE Parse(w)
  <2>1. Room' /\ given' \in 0 .. MaxWrite /\ pending' \in Pictures \cup {NoPicture}
    BY <1>2, ParseRoom DEF Parse, TypeOK
  <2>2. <<>> \in S /\ <<Eos>> \in S
    OBVIOUS
  <2>3. pending # NoPicture => <<pending>> \o <<>> \in S /\ <<pending>> \o <<Eos>> \in S
    BY DEF TypeOK
  <2>4. todo' \in [Writers -> S] /\ pc' \in [Writers -> {"idle", "parse", "emit", "push"}]
    <3>1. \A f \in S : Emit(w, f) =>
            todo' \in [Writers -> S] /\ pc' \in [Writers -> {"idle", "parse", "emit", "push"}]
      BY DEF Emit, TypeOK
    <3>. QED
      BY <1>2, <2>2, <2>3, <3>1 DEF Parse, TypeOK
  <2>5. parser' \in Writers \cup {NoWriter} /\ eos_reached' \in BOOLEAN /\ info_set' \in BOOLEAN
    BY <1>2 DEF Parse, Emit, TypeOK
  <2>6. Handing'
    <3>1. pc'[w] # "push" /\ \A v \in Writers \ {w} : pc'[v] = pc[v] /\ todo'[v] = todo[v]
      BY <1>2 DEF Parse, Emit, TypeOK
    <3>. QED
      BY <3>1 DEF Handing
  <2>. QED
    BY <1>2, <2>1, <2>4, <2>5, <2>6 DEF Parse, TypeOK
<1>3. CASE OnParserFrame(w)
  <2>1. eos_reached' \in BOOLEAN
    BY <1>3, Zenon DEF OnParserFrame, TypeOK
  <2>2. TypeOK' /\ Handing'
    BY <1>3, <2>1 DEF OnParserFrame, TypeOK, Handing
  <2>3. Parsing' \subseteq Parsing /\ given' = given
    BY <1>3 DEF OnParserFrame, TypeOK, Parsing
  <2>. QED
    BY <2>2, <2>3, ParsingShrinks
<1>4. CASE Push(w)
  <2>1. todo[w] # <<>>
    BY <1>4 DEF Push, Handing
  <2>2. queue' \in S /\ Len(queue') <= MaxQueue
    <3>1. /\ Append(queue, Head(todo[w])) \in S /\ Len(queue) \in Nat
          /\ Len(Append(queue, Head(todo[w]))) = Len(queue) + 1
      BY <1>1, <2>1, AppendType DEF TypeOK
    <3>2. \/ queue' = queue
          \/ Len(queue) < MaxQueue /\ queue' = Append(queue, Head(todo[w]))
      BY <1>4 DEF Push
    <3>3. queue \in S /\ Len(queue) <= MaxQueue /\ MaxQueue \in Nat
      BY ConstantTypes DEF TypeOK
    <3>4. CASE queue' = queue
      BY <3>3, <3>4
    <3>5. CASE Len(queue) < MaxQueue /\ queue' = Append(queue, Head(todo[w]))
      <4>1. Len(queue') = Len(queue) + 1 /\ Len(queue) \in Nat
        BY <3>1, <3>5
      <4>. QED
        BY <3>1, <3>3, <3>5, <4>1
    <3>. QED
      BY <3>2, <3>4, <3>5
  <2>3. todo' \in [Writers -> S]
    BY <1>1, <1>4, <2>1 DEF Push, Pushed, TypeOK
  <2>4. TypeOK' /\ Handing'
    BY <1>4, <2>2, <2>3 DEF Push, Pushed, TypeOK, Handing
  <2>5. Parsing' \subseteq Parsing /\ given' = given
    BY <1>4 DEF Push, Pushed, TypeOK, Parsing
  <2>. QED
    BY <2>4, <2>5, ParsingShrinks
<1>5. CASE Parsed(w)
  <2>1. eos_reached' \in BOOLEAN /\ parser' \in Writers \cup {NoWriter}
    BY <1>5, Zenon DEF Parsed, TypeOK
  <2>2. todo' \in [Writers -> S] /\ kind' \in [Writers -> Kinds]
        /\ pc' \in [Writers -> {"idle", "parse", "emit", "push"}]
    <3>1. <<Eos>> \in S
      OBVIOUS
    <3>. QED
      BY <1>5, <3>1 DEF Parsed, TypeOK, Kinds
  <2>3. TypeOK'
    BY <1>5, <2>1, <2>2 DEF Parsed, TypeOK
  <2>4. Handing'
    BY <1>5 DEF Parsed, TypeOK, Handing
  <2>5. Parsing' \subseteq Parsing /\ given' = given
    BY <1>5 DEF Parsed, TypeOK, Parsing
  <2>. QED
    BY <2>3, <2>4, <2>5, ParsingShrinks
<1>. QED
  BY <1>2, <1>3, <1>4, <1>5 DEF WriterStep

LEMMA StutterTypes == ASSUME Types, UNCHANGED vars PROVE Types'
<1>. USE DEF vars, ownerVars, stateVars, parserVars, queueVars, threadVars, writerVars
<1>1. TypeOK' /\ Handing'
  BY DEF Types, TypeOK, Handing
<1>2. Parsing' = Parsing /\ given' = given
  BY DEF Parsing
<1>. QED
  BY <1>1, <1>2, ParsingShrinks DEF Types

LEMMA StepTypes == Types /\ [Next]_vars => Types'
<1>1. ASSUME Types, Next PROVE Types'
  <2>1. CASE Open \/ Close \/ OwnerStep
    BY <1>1, <2>1, OwnerTypes
  <2>2. CASE ThreadStep
    BY <1>1, <2>2, ThreadTypes
  <2>3. CASE \E w \in Writers : WriterStep(w) \/ \E k \in Kinds : Write(w, k)
    BY <1>1, <2>3, WriterTypes, WriteTypes
  <2>. QED
    BY <1>1, <2>1, <2>2, <2>3 DEF Next
<1>. QED
  BY <1>1, StutterTypes

\* The variables keep their types: no queue of the handler grows past its capacity,
\* and no packet is numbered twice (BoundedQueue, ESMemHandlerImpl, EsParser).
THEOREM EsMemTypes == Spec => []TypeOK
<1>1. Init => Types
  BY InitTypes
<1>2. Types /\ [Next]_vars => Types'
  BY StepTypes
<1>3. Types => TypeOK
  BY DEF Types
<1>. QED
  BY <1>1, <1>2, <1>3, PTL DEF Spec
-----------------------------------------------------------------------------
(* Order of sequences                                                       *)

LEMMA EmptyOrder ==
  ASSUME NEW s \in Seq(Nat), NEW n \in Nat
  PROVE  /\ Rising(<<>>) /\ Before(<<>>, s) /\ Before(s, <<>>)
         /\ Below(<<>>, n) /\ Above(<<>>, n)
BY DEF Rising, Before, Below, Above

LEMMA TailOrder ==
  ASSUME NEW s \in Seq(Nat), NEW t \in Seq(Nat), NEW n \in Nat, s # <<>>
  PROVE  /\ Tail(s) \in Seq(Nat) /\ Head(s) \in Nat
         /\ Rising(s) => Rising(Tail(s)) /\ Above(Tail(s), Head(s))
         /\ Below(s, n) => Below(Tail(s), n) /\ Head(s) < n
         /\ Above(s, n) => Above(Tail(s), n) /\ (Head(s) # Eos => Head(s) > n)
         /\ Before(s, t) => Before(Tail(s), t) /\ Above(t, Head(s))
         /\ Before(t, s) => Before(t, Tail(s)) /\ (Head(s) # Eos => Below(t, Head(s)))
<1>1. /\ Tail(s) \in Seq(Nat) /\ Head(s) = s[1] /\ 1 \in DOMAIN s
      /\ \A i \in DOMAIN Tail(s) : i \in Nat /\ i > 0 /\ i + 1 \in DOMAIN s /\ Tail(s)[i] = s[i + 1]
  OBVIOUS
<1>2. \A i \in DOMAIN s : s[i] \in Nat
  OBVIOUS
<1>3. \A i \in DOMAIN t : t[i] \in Nat
  OBVIOUS
<1>4. Rising(s) => Rising(Tail(s)) /\ Above(Tail(s), Head(s))
  <2>1. ASSUME Rising(s), NEW i \in DOMAIN Tail(s), NEW j \in DOMAIN Tail(s), i < j,
               Tail(s)[j] # Eos
        PROVE  Tail(s)[i] < Tail(s)[j]
    BY <1>1, <2>1 DEF Rising
  <2>2. ASSUME Rising(s), NEW j \in DOMAIN Tail(s), Tail(s)[j] # Eos
        PROVE  Tail(s)[j] > Head(s)
    BY <1>1, <1>2, <2>2 DEF Rising
  <2>. QED
    BY <2>1, <2>2 DEF Rising, Above
<1>5. Below(s, n) => Below(Tail(s), n) /\ Head(s) < n
  BY <1>1 DEF Below
<1>6. Above(s, n) => Above(Tail(s), n) /\ (Head(s) # Eos => Head(s) > n)
  BY <1>1 DEF Above
<1>7. Before(s, t) => Before(Tail(s), t) /\ Above(t, Head(s))
  BY <1>1, <1>2, <1>3 DEF Before, Above
<1>8. Before(t, s) => Before(t, Tail(s)) /\ (Head(s) # Eos => Below(t, Head(s)))
  BY <1>1 DEF Before, Below
<1>. QED
  BY <1>1, <1>2, <1>4, <1>5, <1>6, <1>7, <1>8

LEMMA AppendItems ==
  ASSUME NEW s \in Seq(Nat), NEW x \in Nat
  PROVE  \A i \in DOMAIN Append(s, x) :
           \/ i \in DOMAIN s /\ Append(s, x)[i] = s[i]
           \/ Append(s, x)[i] = x /\ i = Len(Append(s, x))
OBVIOUS

LEMMA AppendOrder ==
  ASSUME NEW s \in Seq(Nat), NEW t \in Seq(Nat), NEW n \in Nat, NEW x \in Nat
  PROVE  /\ Append(s, x) \in Seq(Nat)
         /\ Rising(s) /\ (x # Eos => Below(s, x)) => Rising(Append(s, x))
         /\ Below(s, n) /\ x < n => Below(Append(s, x), n)
         /\ Above(s, n) /\ (x # Eos => x > n) => Above(Append(s, x), n)
         /\ Before(s, t) /\ Above(t, x) => Before(Append(s, x), t)
         /\ Before(t, s) /\ (x # Eos => Below(t, x)) => Before(t, Append(s, x))
<1>1. /\ Append(s, x) \in Seq(Nat)
      /\ \A i \in DOMAIN Append(s, x) :
           \/ i \in DOMAIN s /\ Append(s, x)[i] = s[i]
           \/ Append(s, x)[i] = x /\ i \in Nat /\ \A j \in DOMAIN s : j < i
  OBVIOUS
<1>2. \A i \in DOMAIN s : s[i] \in Nat
  OBVIOUS
<1>3. \A i \in DOMAIN t : t[i] \in Nat
  OBVIOUS
<1>4. ASSUME Rising(s), x # Eos => Below(s, x) PROVE Rising(Append(s, x))
  <2>1. ASSUME NEW i \in DOMAIN Append(s, x), NEW j \in DOMAIN Append(s, x), i < j,
               Append(s, x)[j] # Eos
        PROVE  Append(s, x)[i] < Append(s, x)[j]
    <3>1. i \in DOMAIN s /\ Append(s, x)[i] = s[i]
      BY <2>1
    <3>2. CASE j \in DOMAIN s /\ Append(s, x)[j] = s[j]
      BY <1>4, <2>1, <3>1, <3>2 DEF Rising
    <3>3. CASE Append(s, x)[j] = x
      BY <1>4, <2>1, <3>1, <3>3 DEF Below
    <3>. QED
      BY <1>1, <3>2, <3>3
  <2>. QED
    BY <2>1 DEF Rising
<1>5. Below(s, n) /\ x < n => Below(Append(s, x), n)
  BY <1>1 DEF Below
<1>6. Above(s, n) /\ (x # Eos => x > n) => Above(Append(s, x), n)
  BY <1>1 DEF Above
<1>7. Before(s, t) /\ Above(t, x) => Before(Append(s, x), t)
  BY <1>1, <1>3 DEF Before, Above
<1>8. Before(t, s) /\ (x # Eos => Below(t, x)) => Before(t, Append(s, x))
  BY <1>1 DEF Before, Below
<1>. QED
  BY <1>1, <1>4, <1>5, <1>6, <1>7, <1>8

LEMMA BelowMore ==
  ASSUME NEW s \in Seq(Nat), NEW m \in Nat, NEW n \in Nat, Below(s, m), m <= n
  PROVE  Below(s, n)
<1>1. \A i \in DOMAIN s : s[i] \in Nat
  OBVIOUS
<1>. QED
  BY <1>1 DEF Below
-----------------------------------------------------------------------------
(* Order                                                                    *)

LEMMA NatLines ==
  ASSUME TypeOK
  PROVE  /\ out \in Seq(Nat) /\ decoder \in Seq(Nat) /\ queue \in Seq(Nat)
         /\ \A w \in Writers : todo[w] \in Seq(Nat) /\ \A i \in DOMAIN todo[w] : todo[w][i] \in Items
         /\ given \in Nat /\ since \in Nat /\ pending \in Nat /\ Eos \in Nat
<1>1. ASSUME NEW S \in SUBSET Nat, NEW q \in Seq(S) PROVE q \in Seq(Nat)
  <2>1. Len(q) \in Nat /\ q \in [1 .. Len(q) -> S]
    OBVIOUS
  <2>2. q \in [1 .. Len(q) -> Nat]
    BY <2>1
  <2>. QED
    BY <2>1, <2>2
<1>2. Pictures \in SUBSET Nat /\ Pictures \cup {Eos} \in SUBSET Nat /\ NoPicture \in Nat
  BY ConstantTypes DEF NoPicture
<1>3. out \in Seq(Nat) /\ decoder \in Seq(Nat) /\ queue \in Seq(Nat)
  BY <1>1, <1>2 DEF TypeOK
<1>4. \A w \in Writers : todo[w] \in Seq(Nat) /\ \A i \in DOMAIN todo[w] : todo[w][i] \in Items
  BY <1>1, <1>2 DEF TypeOK, Items
<1>. QED
  BY <1>2, <1>3, <1>4, ConstantTypes DEF TypeOK

LEMMA InitOrder == Init => OrderInv
<1>. SUFFICES ASSUME Init PROVE OrderInv
  OBVIOUS
<1>1. <<>> \in Seq(Nat) /\ \A i \in DOMAIN <<>> : FALSE
  OBVIOUS
<1>2. Lines
  <2>1. 0 \in Nat /\ 0 + 1 \in Nat
    OBVIOUS
  <2>2. given + 1 = 0 + 1 /\ since = 0 /\ out = <<>> /\ decoder = <<>> /\ queue = <<>>
    BY DEF Init
  <2>. QED
    BY <1>1, <2>1, <2>2, EmptyOrder, Zenon DEF Lines
<1>. QED
  BY <1>1, <1>2 DEF Init, OrderInv, HeldInv, HandsInv, PhaseInv, EosInv

\* What holds a picture keeps it as long as no place overtakes it.
LEMMA HeldKept ==
  ASSUME TypeOK, HeldInv, HandsInv, UNCHANGED <<pending, parser, open_success, todo>>,
         \A n \in Nat : Newer(n) => Newer(n)'
  PROVE  HeldInv' /\ HandsInv'
<1>1. pending \in Nat /\ \A w \in Writers : \A i \in DOMAIN todo[w] : todo[w][i] \in Nat
  BY NatLines, ConstantTypes
<1>2. HeldInv'
  BY <1>1 DEF HeldInv
<1>3. HandsInv'
  BY <1>1 DEF HandsInv
<1>. QED
  BY <1>2, <1>3

\* DecodeLoop goes on, or ends and loses what is in the decoder.
LEMMA MoveOrder ==
  ASSUME TypeOK, OrderInv, UNCHANGED <<owner, since, parserVars, queueVars, writerVars, out>>,
         thread \notin Ended \cup {"none"}, thread' # "none",
         decoder' \in {decoder, <<>>}, thread' \notin Active => decoder' = <<>>
  PROVE  OrderInv'
<1>. USE DEF parserVars, queueVars, writerVars, OrderInv
<1>1. Lines'
  BY NatLines, EmptyOrder DEF Lines
<1>2. \A n \in Nat : Newer(n) => Newer(n)'
  BY EmptyOrder, NatLines DEF Newer
<1>3. HeldInv' /\ HandsInv'
  BY <1>2, HeldKept
<1>4. PhaseInv'
  BY DEF PhaseInv
<1>5. EosInv'
  BY DEF EosInv, Ended
<1>. QED
  BY <1>1, <1>3, <1>4, <1>5

\* The EOS is sent when the decoder is empty, and the loop ends.
LEMMA EosOrder ==
  ASSUME TypeOK, OrderInv, SendFlowEos,
         UNCHANGED <<owner, since, parserVars, queueVars, writerVars>>,
         thread \notin Ended \cup {"none"}, thread' = "ended", decoder = <<>>, decoder' = <<>>
  PROVE  OrderInv'
<1>. USE DEF parserVars, queueVars, writerVars, OrderInv
<1>1. out' = out \/ out' = Append(out, Eos)
  BY DEF SendFlowEos
<1>2. CASE out' = out
  BY <1>2, MoveOrder DEF Active
<1>3. CASE out' = Append(out, Eos)
  <2>1. Eos \in Nat /\ Eos = 0 /\ Above(queue, Eos)
    BY NatLines DEF Above, Eos
  <2>2. /\ Rising(out') /\ Above(out', since) /\ Below(out', given + 1) /\ Before(out', queue)
    BY <1>3, <2>1, NatLines, AppendOrder DEF Lines
  <2>3. Lines'
    BY <2>2, NatLines, EmptyOrder, <1>3, AppendOrder, <2>1 DEF Lines
  <2>4. \A n \in Nat : Newer(n) => Newer(n)'
    BY <1>3, <2>1, NatLines, AppendOrder DEF Newer
  <2>5. HeldInv' /\ HandsInv'
    BY <2>4, HeldKept
  <2>6. PhaseInv'
    BY DEF PhaseInv
  <2>7. EosInv'
    <3>1. \A i \in DOMAIN out : out[i] # Eos
      BY DEF EosInv, Ended
    <3>2. \A i \in DOMAIN out' : (i \in DOMAIN out /\ out'[i] = out[i]) \/ i = Len(out')
      BY <1>3, <2>1, NatLines, AppendItems
    <3>. QED
      BY <3>1, <3>2 DEF EosInv
  <2>. QED
    BY <2>3, <2>5, <2>6, <2>7
<1>. QED
  BY <1>1, <1>2, <1>3

LEMMA PopOrder ==
  ASSUME TypeOK, OrderInv, Pop
  PROVE  OrderInv'
<1>. USE DEF ownerVars, parserVars, queueVars, writerVars, OrderInv, Goto
<1>1. CASE queue = <<>>
  BY <1>1, MoveOrder DEF Pop, Active, Ended, PhaseInv
<1>2. CASE queue # <<>>
  <2>. DEFINE x == Head(queue)
  <2>1. queue \in Seq(Nat) /\ decoder \in Seq(Nat) /\ out \in Seq(Nat)
        /\ given + 1 \in Nat /\ since \in Nat /\ x \in Nat
    BY <1>2, NatLines, TailOrder
  <2>2. /\ Rising(queue') /\ Above(queue', x) /\ Below(queue', given + 1) /\ x < given + 1
        /\ Above(queue', since) /\ (x # Eos => x > since)
        /\ Before(out, queue') /\ (x # Eos => Below(out, x))
        /\ Before(decoder, queue') /\ (x # Eos => Below(decoder, x))
        /\ queue' \in Seq(Nat)
    BY <1>2, <2>1, TailOrder DEF Pop, Lines
  <2>3. \A n \in Nat : Below(queue, n) => Below(queue', n) /\ x < n
    BY <1>2, <2>1, TailOrder DEF Pop
  <2>4. UNCHANGED <<out, since, given, pending, parser, open_success, todo, owner, pc>>
    BY DEF Pop
  <2>5. EosInv'
    BY <1>2 DEF Pop, EosInv, Ended
  <2>6. CASE decoder' \in {decoder, <<>>}
    <3>1. Lines'
      BY <2>1, <2>2, <2>4, <2>6, EmptyOrder DEF Lines
    <3>2. \A n \in Nat : Newer(n) => Newer(n)'
      BY <2>1, <2>3, <2>4, <2>6, EmptyOrder DEF Newer
    <3>3. PhaseInv'
      BY <1>2, <2>6 DEF Pop, PhaseInv, Active
    <3>. QED
      BY <2>4, <2>5, <3>1, <3>2, <3>3, HeldKept
  <2>7. CASE x # Eos /\ decoder' = Append(decoder, x) /\ thread' = "poll"
    <3>1. /\ Rising(decoder') /\ Below(decoder', given + 1) /\ Above(decoder', since)
          /\ Before(decoder', queue') /\ Before(out, decoder')
      BY <2>1, <2>2, <2>7, AppendOrder DEF Lines
    <3>2. Lines'
      BY <2>2, <2>4, <3>1 DEF Lines
    <3>3. \A n \in Nat : Newer(n) => Newer(n)'
      BY <2>1, <2>3, <2>4, <2>7, AppendOrder DEF Newer
    <3>4. PhaseInv'
      BY <2>4, <2>7 DEF Pop, PhaseInv, Active
    <3>. QED
      BY <2>4, <2>5, <3>2, <3>3, <3>4, HeldKept
  <2>. QED
    BY <1>2, <2>6, <2>7 DEF Pop
<1>. QED
  BY <1>1, <1>2

LEMMA GetPictureOrder ==
  ASSUME TypeOK, OrderInv, GetPicture
  PROVE  OrderInv'
<1>. USE DEF ownerVars, parserVars, queueVars, writerVars, OrderInv, Goto
<1>. DEFINE x == Head(decoder)
<1>1. queue \in Seq(Nat) /\ decoder \in Seq(Nat) /\ out \in Seq(Nat)
      /\ given + 1 \in Nat /\ since \in Nat /\ decoder # <<>> /\ x \in Nat
  BY NatLines, TailOrder DEF GetPicture
<1>2. x # Eos
  BY ConstantTypes, TailType, <1>1 DEF TypeOK, Pictures, Eos
<1>3. /\ Rising(decoder') /\ Above(decoder', x) /\ Below(decoder', given + 1) /\ x < given + 1
      /\ Above(decoder', since) /\ x > since
      /\ Before(out, decoder') /\ Below(out, x)
      /\ Before(decoder', queue) /\ Above(queue, x) /\ decoder' \in Seq(Nat)
  BY <1>1, <1>2, TailOrder DEF GetPicture, Lines
<1>4. \A n \in Nat : Below(decoder, n) => Below(decoder', n) /\ x < n
  BY <1>1, TailOrder DEF GetPicture
<1>5. UNCHANGED <<queue, since, given, pending, parser, open_success, todo, owner, pc, thread>>
  BY DEF GetPicture
<1>6. PhaseInv'
  BY <1>5 DEF GetPicture, PhaseInv, Active
<1>7. CASE out' = out
  <2>1. Lines'
    BY <1>3, <1>5, <1>7 DEF Lines
  <2>2. \A n \in Nat : Newer(n) => Newer(n)'
    BY <1>4, <1>5, <1>7 DEF Newer
  <2>3. EosInv'
    BY <1>5, <1>7 DEF EosInv
  <2>. QED
    BY <1>5, <1>6, <2>1, <2>2, <2>3, HeldKept
<1>8. CASE out' = Append(out, x)
  <2>1. /\ Rising(out') /\ Below(out', given + 1) /\ Above(out', since)
        /\ Before(out', decoder') /\ Before(out', queue)
    BY <1>1, <1>3, <1>8, AppendOrder DEF Lines
  <2>2. Lines'
    BY <1>3, <1>5, <2>1 DEF Lines
  <2>3. \A n \in Nat : Newer(n) => Newer(n)'
    BY <1>1, <1>4, <1>5, <1>8, AppendOrder DEF Newer
  <2>4. EosInv'
    <3>1. \A i \in DOMAIN out : out[i] # Eos
      BY DEF EosInv, GetPicture
    <3>2. \A i \in DOMAIN out' : (i \in DOMAIN out /\ out'[i] = out[i]) \/ out'[i] = x
      BY <1>1, <1>8, AppendItems
    <3>. QED
      BY <1>2, <3>1, <3>2 DEF EosInv
  <2>. QED
    BY <1>5, <1>6, <2>2, <2>3, <2>4, HeldKept
<1>. QED
  BY <1>7, <1>8 DEF GetPicture

LEMMA ThreadOrder ==
  ASSUME TypeOK, OrderInv, ThreadStep
  PROVE  OrderInv'
<1>. USE DEF ownerVars, parserVars, queueVars, writerVars, Goto, End, Active, Ended
<1>1. CASE WaitForInfo
  BY <1>1, MoveOrder DEF WaitForInfo, OrderInv, PhaseInv
<1>2. CASE NoInfo
  <2>1. decoder = <<>>
    BY <1>2 DEF NoInfo, OrderInv, PhaseInv
  <2>. QED
    BY <1>2, <2>1, MoveOrder, EosOrder DEF NoInfo
<1>3. CASE Create
  BY <1>3, MoveOrder DEF Create, OrderInv, PhaseInv
<1>4. CASE LoopTest
  BY <1>4, MoveOrder DEF LoopTest
<1>5. CASE PollEnds
  BY <1>5, MoveOrder DEF PollEnds
<1>6. CASE FlushEnds
  BY <1>6, MoveOrder, EosOrder DEF FlushEnds
<1>. QED
  BY <1>1, <1>2, <1>3, <1>4, <1>5, <1>6, PopOrder, GetPictureOrder DEF ThreadStep

\* Without an open parser nobody has a picture in hand.
LEMMA EmptyHands ==
  ASSUME OrderInv, ~open_success \/ parser = NoWriter
  PROVE  /\ \A w \in Writers : \A i \in DOMAIN todo[w] : todo[w][i] = Eos
         /\ ~open_success => pending = NoPicture
BY EsMemAssumption DEF OrderInv, HeldInv, HandsInv

LEMMA OwnerOrder ==
  ASSUME TypeOK, OrderInv, Open \/ Close \/ OwnerStep
  PROVE  OrderInv'
<1>. USE DEF ownerVars, stateVars, parserVars, queueVars, threadVars, writerVars
<1>1. \A i \in DOMAIN <<>> : FALSE
  OBVIOUS
<1>2. CASE Open
  <2>1. decoder' = <<>> /\ out' = <<>> /\ queue' = <<>> /\ since' = given /\ given' = given
    BY <1>2 DEF Open, OrderInv, PhaseInv, Active
  <2>2. given \in Nat /\ given + 1 \in Nat /\ <<>> \in Seq(Nat)
    BY NatLines
  <2>3. Lines'
    BY <2>1, <2>2, EmptyOrder, Zenon DEF Lines
  <2>4. ~open_success /\ open_success' = open_success /\ todo' = todo /\ pending' = pending
    BY <1>2 DEF Open, OrderInv, PhaseInv
  <2>5. HeldInv' /\ HandsInv'
    BY <2>4, EmptyHands DEF HeldInv, HandsInv
  <2>6. PhaseInv'
    BY <1>2, <2>1, <2>2 DEF Open, OrderInv, PhaseInv, Active
  <2>7. EosInv'
    BY <1>1, <2>1 DEF EosInv
  <2>. QED
    BY <2>3, <2>5, <2>6, <2>7 DEF OrderInv
<1>3. CASE Close
  <2>1. Lines' /\ PhaseInv' /\ EosInv'
    BY <1>3 DEF Close, OrderInv, Lines, PhaseInv, EosInv
  <2>2. HeldInv' /\ HandsInv'
    BY <1>3, HeldKept DEF Close, OrderInv, Newer
  <2>. QED
    BY <2>1, <2>2 DEF OrderInv
<1>4. CASE OpenParser
  <2>1. ~open_success
    BY <1>4 DEF OpenParser, OrderInv, PhaseInv
  <2>2. HeldInv' /\ HandsInv'
    BY <1>4, <2>1, EmptyHands DEF OpenParser, HeldInv, HandsInv
  <2>3. Lines' /\ PhaseInv' /\ EosInv'
    BY <1>4 DEF OpenParser, OrderInv, Lines, PhaseInv, EosInv
  <2>. QED
    BY <2>2, <2>3 DEF OrderInv
<1>5. CASE Join
  <2>1. decoder = <<>> /\ decoder' = <<>> /\ queue' = <<>>
    BY <1>5 DEF Join, OrderInv, PhaseInv, Active, Ended
  <2>2. Lines'
    BY <1>5, <2>1, EmptyOrder, NatLines DEF Join, OrderInv, Lines
  <2>3. \A n \in Nat : Newer(n) => Newer(n)'
    BY <1>5, <2>1, EmptyOrder DEF Join, Newer
  <2>4. HeldInv' /\ HandsInv'
    BY <1>5, <2>3, HeldKept DEF Join, OrderInv
  <2>5. PhaseInv' /\ EosInv'
    BY <1>5, <2>1 DEF Join, OrderInv, PhaseInv, EosInv
  <2>. QED
    BY <2>2, <2>4, <2>5 DEF OrderInv
<1>6. CASE CloseParser
  <2>1. HeldInv' /\ HandsInv'
    BY <1>6, EmptyHands DEF CloseParser, HeldInv, HandsInv
  <2>2. Lines' /\ PhaseInv' /\ EosInv'
    BY <1>6 DEF CloseParser, OrderInv, Lines, PhaseInv, EosInv
  <2>. QED
    BY <2>1, <2>2 DEF OrderInv
<1>. QED
  BY <1>2, <1>3, <1>4, <1>5, <1>6 DEF OwnerStep

LEMMA WriteOrder ==
  ASSUME Types, OrderInv, NEW w \in Writers, NEW k \in Kinds, Write(w, k)
  PROVE  OrderInv'
<1>. USE DEF ownerVars, stateVars, parserVars, queueVars, threadVars
<1>1. \A i \in DOMAIN <<Eos>> : <<Eos>>[i] = Eos
  OBVIOUS
<1>2. Lines' /\ HeldInv' /\ EosInv'
  BY DEF Write, OrderInv, Lines, HeldInv, Newer, EosInv
<1>3. /\ \A v \in Writers : todo'[v] = todo[v] \/ (todo'[v] = <<Eos>> /\ pc'[v] = "emit")
      /\ \A v \in Writers : pc'[v] \in {"idle", "parse"} => pc[v] \in {"idle", "parse"}
  <2>1. pc[w] = "idle" /\ pc \in [Writers -> {"idle", "parse", "emit", "push"}]
        /\ todo \in [Writers -> Seq(Pictures \cup {Eos})]
    BY DEF Write, Types, TypeOK
  <2>2. \/ pc' = [pc EXCEPT ![w] = "emit"] /\ todo' = [todo EXCEPT ![w] = <<Eos>>]
        \/ pc' = [pc EXCEPT ![w] = "parse"] /\ todo' = todo
    BY DEF Write
  <2>3. \A v \in Writers \ {w} : pc'[v] = pc[v] /\ todo'[v] = todo[v]
    BY <2>1, <2>2, Zenon
  <2>4. (pc'[w] = "emit" /\ todo'[w] = <<Eos>>) \/ todo'[w] = todo[w]
    BY <2>1, <2>2, Zenon
  <2>5. pc[w] \in {"idle", "parse"}
    BY <2>1
  <2>. QED
    BY <2>3, <2>4, <2>5, Zenon
<1>4. HandsInv'
  BY <1>1, <1>3 DEF Write, OrderInv, HandsInv, Newer
<1>5. PhaseInv'
  BY <1>3 DEF Write, OrderInv, PhaseInv, Types, TypeOK
<1>. QED
  BY <1>2, <1>4, <1>5 DEF OrderInv

\* What the parser hands over: the picture it held, an EOS, both or nothing.
LEMMA ParseHands ==
  ASSUME Types, OrderInv, NEW w \in Writers, Parse(w)
  PROVE  /\ \A v \in Writers \ {w} : todo'[v] = todo[v] /\ pc'[v] = pc[v]
         /\ pc'[w] = "emit" \/ (pc'[w] = "idle" /\ todo'[w] = todo[w])
         /\ \A i \in DOMAIN todo'[w] : todo'[w][i] # Eos =>
              /\ i = 1 /\ parser' = w /\ open_success
              /\ todo'[w][i] = pending /\ pending # NoPicture
<1>. DEFINE S == Seq(Pictures \cup {Eos})
<1>1. pc[w] = "parse" /\ todo[w] = <<>>
      /\ pc \in [Writers -> {"idle", "parse", "emit", "push"}] /\ todo \in [Writers -> S]
  BY DEF Parse, Types, TypeOK, OrderInv, PhaseInv
<1>2. ASSUME NEW f, Emit(w, f)
      PROVE  /\ \A v \in Writers \ {w} : todo'[v] = todo[v] /\ pc'[v] = pc[v]
             /\ pc'[w] = "emit" /\ todo'[w] = f /\ parser' = w
  BY <1>1, <1>2, Zenon DEF Emit
<1>3. /\ \A i \in DOMAIN <<>> : FALSE
      /\ \A i \in DOMAIN <<Eos>> : <<Eos>>[i] = Eos
  OBVIOUS
<1>. DEFINE end == IF kind[w] = "end" THEN <<Eos>> ELSE <<>>
<1>4. end \in {<<>>, <<Eos>>}
  OBVIOUS
<1>5. CASE Emit(w, <<Eos>>)
  BY <1>2, <1>3, <1>5
<1>6. CASE open_success /\ Emit(w, end)
  BY <1>2, <1>3, <1>4, <1>6
<1>7. CASE open_success /\ pending # NoPicture /\ Emit(w, <<pending>> \o end)
  <2>1. \A i \in DOMAIN (<<pending>> \o end) :
          (<<pending>> \o end)[i] # Eos => i = 1 /\ (<<pending>> \o end)[i] = pending
    <3>1. \A i \in DOMAIN (<<pending>> \o <<>>) :
            (<<pending>> \o <<>>)[i] # Eos => i = 1 /\ (<<pending>> \o <<>>)[i] = pending
      OBVIOUS
    <3>2. \A i \in DOMAIN (<<pending>> \o <<Eos>>) :
            (<<pending>> \o <<Eos>>)[i] # Eos => i = 1 /\ (<<pending>> \o <<Eos>>)[i] = pending
      OBVIOUS
    <3>. QED
      BY <3>1, <3>2, <1>4
  <2>. HIDE DEF end
  <2>. QED
    BY <1>2, <1>7, <2>1
<1>8. CASE pc' = [pc EXCEPT ![w] = "idle"] /\ todo' = todo
  <2>1. pc'[w] = "idle" /\ \A v \in Writers \ {w} : pc'[v] = pc[v]
    BY <1>1, <1>8, Zenon
  <2>. QED
    BY <1>1, <1>3, <1>8, <2>1
<1>9. \/ Emit(w, <<Eos>>) \/ (open_success /\ Emit(w, end))
      \/ (open_success /\ pending # NoPicture /\ Emit(w, <<pending>> \o end))
      \/ (pc' = [pc EXCEPT ![w] = "idle"] /\ todo' = todo)
  BY DEF Parse
<1>. QED
  BY <1>5, <1>6, <1>7, <1>8, <1>9

LEMMA ParseOrder ==
  ASSUME Types, OrderInv, NEW w \in Writers, Parse(w)
  PROVE  OrderInv'
<1>. USE DEF ownerVars, queueVars, threadVars
<1>1. UNCHANGED <<owner, since, queue, thread, decoder, out, open_success>> /\ parser = NoWriter
  BY DEF Parse
<1>2. /\ out \in Seq(Nat) /\ decoder \in Seq(Nat) /\ queue \in Seq(Nat)
      /\ given \in Nat /\ since \in Nat /\ pending \in Nat /\ since <= given
  BY NatLines DEF Types, OrderInv, PhaseInv
<1>3. given' \in Nat /\ given <= given'
      /\ (~open_success => pending' = pending)
      /\ (open_success => pending' = NoPicture \/ (pending' = given' /\ given' = given + 1))
  <2>1. CASE ~open_success
    BY <1>2, <2>1 DEF Parse
  <2>2. CASE open_success
    <3>1. /\ pending' = (IF kind[w] = "end" THEN NoPicture ELSE given + 1)
          /\ given' = (IF kind[w] = "end" THEN given ELSE given + 1)
      BY <2>2 DEF Parse
    <3>. QED
      BY <1>2, <2>2, <3>1
  <2>. QED
    BY <2>1, <2>2
<1>4. Lines'
  <2>1. given + 1 \in Nat /\ given' + 1 \in Nat /\ given + 1 <= given' + 1
    <3>1. given \in Nat /\ given' \in Nat /\ given <= given'
      BY <1>2, <1>3, Zenon
    <3>2. \A m, n \in Nat : m <= n => m + 1 \in Nat /\ n + 1 \in Nat /\ m + 1 <= n + 1
      OBVIOUS
    <3>. QED
      BY <3>1, <3>2, Zenon
  <2>2. /\ Below(out, given' + 1) /\ Below(decoder, given' + 1) /\ Below(queue, given' + 1)
    BY <1>2, <2>1, BelowMore DEF OrderInv, Lines
  <2>. QED
    BY <1>1, <2>2 DEF OrderInv, Lines
<1>5. \A n \in Nat : Newer(n) => Newer(n)'
  BY <1>1, <1>2, <1>3 DEF Newer
<1>6. HeldInv'
  <2>1. CASE ~open_success
    BY <1>1, <1>3, <2>1 DEF OrderInv, HeldInv
  <2>2. CASE open_success /\ pending' = given' /\ given' = given + 1
    <3>1. /\ Below(out', given') /\ Below(decoder', given') /\ Below(queue', given')
          /\ given' > since' /\ given' <= given'
      BY <1>1, <1>2, <2>2 DEF OrderInv, Lines
    <3>2. Newer(pending)'
      BY <2>2, <3>1 DEF Newer
    <3>. QED
      BY <1>1, <2>2, <3>2 DEF HeldInv
  <2>3. CASE pending' = NoPicture
    BY <2>3 DEF HeldInv
  <2>. QED
    BY <1>3, <2>1, <2>2, <2>3
<1>7. HandsInv'
  <2>1. ASSUME NEW v \in Writers \ {w}, NEW i \in DOMAIN todo'[v] PROVE todo'[v][i] = Eos
    BY <1>1, <2>1, ParseHands, EmptyHands
  <2>2. ASSUME NEW i \in DOMAIN todo'[w], NEW n, n = todo'[w][i], n # Eos
        PROVE  /\ i = 1 /\ parser' = w /\ open_success'
               /\ Newer(n)' /\ (pending' # NoPicture => n < pending')
    <3>1. i = 1 /\ parser' = w /\ open_success' /\ n = pending
          /\ pending # NoPicture /\ open_success
      BY <1>1, <2>2, ParseHands
    <3>2. n \in Nat /\ Newer(n)
      BY <1>2, <3>1 DEF OrderInv, HeldInv
    <3>3. n <= given /\ Newer(n)'
      BY <1>5, <3>2 DEF Newer
    <3>4. pending' # NoPicture => n < pending'
      BY <1>2, <1>3, <3>1, <3>2, <3>3
    <3>. QED
      BY <3>1, <3>3, <3>4
  <2>3. \A v \in Writers : \A i \in DOMAIN todo'[v] : todo'[v][i] # Eos =>
          /\ i = 1 /\ parser' = v /\ open_success'
          /\ \A n : n = todo'[v][i] => Newer(n)' /\ (pending' # NoPicture => n < pending')
    BY <2>1, <2>2
  <2>. QED
    BY <2>3 DEF HandsInv, Newer
<1>8. PhaseInv'
  <2>1. \A v \in Writers : pc'[v] \in {"idle", "parse"} => todo'[v] = <<>>
    BY ParseHands DEF Parse, OrderInv, PhaseInv
  <2>. QED
    BY <1>1, <1>2, <1>3, <2>1 DEF OrderInv, PhaseInv
<1>9. EosInv'
  BY <1>1 DEF OrderInv, EosInv
<1>. QED
  BY <1>4, <1>6, <1>7, <1>8, <1>9 DEF OrderInv

\* What a writer pushes is newer than all that the queue and the decoder have.
LEMMA PushOrder ==
  ASSUME Types, OrderInv, NEW w \in Writers, Push(w)
  PROVE  OrderInv'
<1>. USE DEF ownerVars, stateVars, parserVars, threadVars
<1>. DEFINE x == Head(todo[w])
<1>1. /\ UNCHANGED <<owner, since, thread, decoder, out, open_success, pending, parser, given>>
      /\ pc[w] = "push" /\ todo[w] # <<>>
  BY DEF Push, Pushed, Types, Handing
<1>2. /\ out \in Seq(Nat) /\ decoder \in Seq(Nat) /\ queue \in Seq(Nat)
      /\ given \in Nat /\ since \in Nat /\ pending \in Nat /\ since <= given /\ Eos = 0
      /\ todo[w] \in Seq(Nat)
  BY NatLines DEF Types, OrderInv, PhaseInv, Eos
<1>3. /\ 1 \in DOMAIN todo[w] /\ x = todo[w][1] /\ x \in Nat
      /\ \A i \in DOMAIN Tail(todo[w]) : i + 1 \in DOMAIN todo[w] /\ i + 1 # 1
                                         /\ Tail(todo[w])[i] = todo[w][i + 1]
  BY <1>1, <1>2
<1>4. x # Eos => parser = w /\ open_success /\ Newer(x) /\ (pending # NoPicture => x < pending)
  BY <1>3 DEF OrderInv, HandsInv
<1>5. \A i \in DOMAIN Tail(todo[w]) : Tail(todo[w])[i] = Eos
  BY <1>3 DEF OrderInv, HandsInv
<1>6. todo'[w] = Tail(todo[w]) /\ pc'[w] = "emit"
      /\ \A v \in Writers \ {w} : todo'[v] = todo[v] /\ pc'[v] = pc[v]
  <2>1. /\ pc \in [Writers -> {"idle", "parse", "emit", "push"}]
        /\ todo \in [Writers -> Seq(Pictures \cup {Eos})]
    BY DEF Types, TypeOK
  <2>2. todo' = [todo EXCEPT ![w] = Tail(@)] /\ pc' = [pc EXCEPT ![w] = "emit"]
    BY DEF Push, Pushed
  <2>. QED
    BY <2>1, <2>2, Zenon
<1>7. queue' = queue \/ queue' = Append(queue, x)
  BY DEF Push
<1>. HIDE DEF x
<1>8. /\ Above(queue, since) /\ Above(decoder, since) /\ Above(out, since)
      /\ x # Eos => x > since /\ x <= given /\ Below(queue, x) /\ Below(decoder, x) /\ Below(out, x)
      /\ x < given + 1
  BY <1>2, <1>3, <1>4 DEF OrderInv, Lines, Newer
<1>9. Lines'
  <2>1. CASE queue' = queue
    BY <1>1, <2>1 DEF OrderInv, Lines
  <2>2. CASE queue' = Append(queue, x)
    <3>1. given + 1 \in Nat
      BY <1>2
    <3>2. /\ Rising(queue') /\ Below(queue', given + 1) /\ Above(queue', since)
          /\ Before(out, queue') /\ Before(decoder, queue')
      BY <1>2, <1>3, <1>8, <2>2, <3>1, AppendOrder DEF OrderInv, Lines
    <3>. QED
      BY <1>1, <3>2 DEF OrderInv, Lines
  <2>. QED
    BY <1>7, <2>1, <2>2
<1>10. \A n \in Nat : Newer(n) /\ x < n => Newer(n)'
  <2>1. ASSUME NEW n \in Nat, Below(queue, n), x < n PROVE Below(queue', n)
    <3>1. queue \in Seq(Nat) /\ x \in Nat
      BY <1>2, <1>3
    <3>2. Below(Append(queue, x), n)
      BY <2>1, <3>1, AppendOrder
    <3>. QED
      BY <1>7, <2>1, <3>2
  <2>. QED
    BY <1>1, <2>1 DEF Newer
<1>11. HeldInv'
  <2>1. pending # NoPicture => x < pending
    BY <1>2, <1>4, <1>3, ConstantTypes DEF Eos, NoPicture
  <2>. QED
    BY <1>1, <1>2, <1>10, <2>1 DEF OrderInv, HeldInv
<1>12. HandsInv'
  <2>1. \A i \in DOMAIN todo'[w] : todo'[w][i] = Eos
    BY <1>5, <1>6
  <2>2. ASSUME NEW v \in Writers \ {w}, NEW i \in DOMAIN todo'[v], NEW n, n = todo'[v][i], n # Eos
        PROVE  /\ i = 1 /\ parser' = v /\ open_success'
               /\ Newer(n)' /\ (pending' # NoPicture => n < pending')
    <3>1. i \in DOMAIN todo[v] /\ n = todo[v][i]
      BY <1>6, <2>2
    <3>2. /\ i = 1 /\ parser = v /\ open_success /\ Newer(n)
          /\ pending # NoPicture => n < pending
      BY <2>2, <3>1 DEF OrderInv, HandsInv
    <3>3. n \in Nat
      BY <3>1, NatLines, ConstantTypes DEF Types
    <3>4. x = Eos /\ x < n
      BY <1>2, <1>4, <2>2, <3>2, <3>3
    <3>5. Newer(n)'
      BY <1>10, <3>2, <3>3, <3>4
    <3>. QED
      BY <1>1, <3>2, <3>5
  <2>3. \A v \in Writers : \A i \in DOMAIN todo'[v] : todo'[v][i] # Eos =>
          /\ i = 1 /\ parser' = v /\ open_success'
          /\ \A n : n = todo'[v][i] => Newer(n)' /\ (pending' # NoPicture => n < pending')
    BY <2>1, <2>2
  <2>. QED
    BY <2>3 DEF HandsInv, Newer
<1>13. PhaseInv'
  <2>1. \A v \in Writers : pc'[v] \in {"idle", "parse"} => todo'[v] = <<>>
    BY <1>6 DEF OrderInv, PhaseInv
  <2>. QED
    BY <1>1, <2>1 DEF OrderInv, PhaseInv
<1>14. EosInv'
  BY <1>1 DEF OrderInv, EosInv
<1>. QED
  BY <1>9, <1>11, <1>12, <1>13, <1>14 DEF OrderInv

\* The parser is left, or an EOS follows what it handed over.
LEMMA ParsedOrder ==
  ASSUME Types, OrderInv, NEW w \in Writers, Parsed(w)
  PROVE  OrderInv'
<1>. USE DEF ownerVars, queueVars, threadVars
<1>1. /\ UNCHANGED <<owner, since, queue, thread, decoder, out, open_success, pending, given>>
      /\ pc[w] = "emit" /\ todo[w] = <<>> /\ parser' \in {parser, NoWriter}
      /\ parser # w => parser' = parser
  BY DEF Parsed
<1>2. /\ \A v \in Writers \ {w} : todo'[v] = todo[v] /\ pc'[v] = pc[v]
      /\ (todo'[w] = <<>> \/ (todo'[w] = <<Eos>> /\ pc'[w] = "emit"))
  <2>1. /\ pc \in [Writers -> {"idle", "parse", "emit", "push"}]
        /\ todo \in [Writers -> Seq(Pictures \cup {Eos})]
    BY DEF Types, TypeOK
  <2>2. CASE todo' = [todo EXCEPT ![w] = <<Eos>>] /\ pc' = pc
    BY <1>1, <2>1, <2>2, Zenon
  <2>3. CASE todo' = todo /\ pc' = [pc EXCEPT ![w] = "idle"]
    BY <1>1, <2>1, <2>3, Zenon
  <2>. QED
    BY <2>2, <2>3 DEF Parsed
<1>3. /\ \A i \in DOMAIN <<>> : FALSE
      /\ \A i \in DOMAIN <<Eos>> : <<Eos>>[i] = Eos
  OBVIOUS
<1>4. Lines' /\ HeldInv' /\ EosInv'
  BY <1>1 DEF OrderInv, Lines, HeldInv, Newer, EosInv
<1>5. HandsInv'
  <2>1. \A i \in DOMAIN todo'[w] : todo'[w][i] = Eos
    BY <1>2, <1>3
  <2>2. \A v \in Writers \ {w} : \A i \in DOMAIN todo'[v] : todo'[v][i] # Eos => parser' = v
    BY <1>1, <1>2 DEF OrderInv, HandsInv
  <2>. QED
    BY <1>1, <1>2, <2>1, <2>2 DEF OrderInv, HandsInv, Newer
<1>6. PhaseInv'
  BY <1>1, <1>2 DEF OrderInv, PhaseInv
<1>. QED
  BY <1>4, <1>5, <1>6 DEF OrderInv

LEMMA WriterOrder ==
  ASSUME Types, OrderInv, NEW w \in Writers, WriterStep(w)
  PROVE  OrderInv'
<1>1. CASE OnParserFrame(w)
  <2>. USE DEF ownerVars, parserVars, queueVars, threadVars
  <2>1. HeldInv' /\ HandsInv'
    BY <1>1, HeldKept DEF OnParserFrame, Types, OrderInv, Newer
  <2>2. Lines' /\ EosInv'
    BY <1>1 DEF OnParserFrame, OrderInv, Lines, EosInv
  <2>3. PhaseInv'
    BY <1>1 DEF OnParserFrame, OrderInv, PhaseInv, Types, TypeOK
  <2>. QED
    BY <2>1, <2>2, <2>3 DEF OrderInv
<1>. QED
  BY <1>1, ParseOrder, PushOrder, ParsedOrder DEF WriterStep

LEMMA StepOrder == Types /\ OrderInv /\ [Next]_vars => OrderInv'
<1>1. ASSUME Types, OrderInv, Next PROVE OrderInv'
  <2>1. CASE Open \/ Close \/ OwnerStep
    BY <1>1, <2>1, OwnerOrder DEF Types
  <2>2. CASE ThreadStep
    BY <1>1, <2>2, ThreadOrder DEF Types
  <2>3. CASE \E w \in Writers : WriterStep(w) \/ \E k \in Kinds : Write(w, k)
    BY <1>1, <2>3, WriterOrder, WriteOrder
  <2>. QED
    BY <1>1, <2>1, <2>2, <2>3 DEF Next
<1>2. ASSUME OrderInv, UNCHANGED vars PROVE OrderInv'
  BY <1>2 DEF vars, ownerVars, stateVars, parserVars, queueVars, threadVars, writerVars,
              OrderInv, Lines, HeldInv, HandsInv, PhaseInv, EosInv, Newer
<1>. QED
  BY <1>1, <1>2

LEMMA OrderedOut == Types /\ OrderInv => SentInOrder
<1>. SUFFICES ASSUME Types, OrderInv PROVE SentInOrder
  OBVIOUS
<1>1. out \in Seq(Nat)
  BY NatLines DEF Types
<1>2. ASSUME NEW i \in DOMAIN out, out[i] # Eos
      PROVE  out[i] > since /\ \A j \in 1 .. i - 1 : out[j] < out[i]
  <2>1. \A j \in 1 .. i - 1 : j \in DOMAIN out /\ j < i
    BY <1>1
  <2>. QED
    BY <1>2, <2>1 DEF OrderInv, Lines, Rising, Above
<1>. QED
  BY <1>2 DEF SentInOrder, OrderInv, EosInv

\* What the handler sends is in the order in which it was written, with the EOS last,
\* and no picture of it was written before the last Open: the parser, the queue and
\* the decoder lose what they hold when the handler is closed, and a writer that was
\* pushing meanwhile does not bring it into the next queue (ESMemHandlerImpl,
\* EsParserImpl, SourceRender::SendFlowEos).
THEOREM SentAlwaysInOrder == Spec => []SentInOrder
<1>1. Init => Types /\ OrderInv
  BY InitTypes, InitOrder
<1>2. Types /\ OrderInv /\ [Next]_vars => (Types /\ OrderInv)'
  BY StepTypes, StepOrder
<1>3. Types /\ OrderInv => SentInOrder
  BY OrderedOut
<1>. QED
  BY <1>1, <1>2, <1>3, PTL DEF Spec
=============================================================================
