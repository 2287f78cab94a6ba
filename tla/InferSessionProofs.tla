------------------------- MODULE InferSessionProofs -------------------------
(***************************************************************************)
(* Proofs about InferSession, for any number of requests, any sizes and    *)
(* tags and any number of calls.                                           *)
(***************************************************************************)
EXTENDS InferSession, FiniteSetTheorems, WellFoundedInduction, TLAPS

\* A response task that has not ended works on some request.
CurOK == \A k \in Requests : task[k] # "none" => cur[k] \in Requests

SessionInv == TypeOK /\ CurOK /\ OneResponder

\* AnsweredWhole needs to know why a request may be handed over: whoever does it,
\* its last worker, its sender when it is empty, or the running task, has seen
\* it finished, and a finished request lacks no piece.
WholeOK ==
  /\ \A r \in finished : wait_num[r] = 0 /\ r < next_id
  /\ notifying \subseteq finished
  /\ \A r \in Requests :
       /\ wait_num[r] > 0 => r < next_id
       /\ sending[r] = "check" => r \in finished
       /\ sending[r] = "listed" /\ data_num[r] = 0 => r \in finished
  /\ \A k \in Requests : task[k] \in {"respond", "release", "delete"} => cur[k] \in finished
  /\ answered \subseteq finished /\ deleted \subseteq finished
  /\ deleted \cap notifying = {}

\* What was answered is older than the request that is being answered, and that one
\* is older than what is listed, where the older is in front.
OrderOK ==
  /\ \A i \in DOMAIN request_list :
       /\ request_list[i] < next_id
       /\ \A r \in answered : r < request_list[i]
       /\ \A k \in Requests : task[k] = "respond" => cur[k] < request_list[i]
       /\ \A j \in DOMAIN request_list : i < j => request_list[i] < request_list[j]
  /\ \A k \in Requests : task[k] = "respond" =>
       cur[k] < next_id /\ \A r \in answered : r < cur[k]
  /\ \A r \in answered : r < next_id
-----------------------------------------------------------------------------
LEMMA ListFacts ==
  ASSUME NEW S, NEW q \in Seq(S), q # <<>>
  PROVE  Head(q) \in S /\ Tail(q) \in Seq(S)
  OBVIOUS

LEMMA TailFacts ==
  ASSUME NEW S, NEW q \in Seq(S), q # <<>>
  PROVE  /\ 1 \in DOMAIN q /\ Head(q) = q[1] /\ Head(q) \in S
         /\ \A i \in DOMAIN Tail(q) : i + 1 \in DOMAIN q /\ i + 1 # 1 /\ Tail(q)[i] = q[i + 1]
         /\ \A i, j \in DOMAIN Tail(q) : i # j => i + 1 # j + 1
  OBVIOUS

LEMMA AppendFacts ==
  ASSUME NEW S, NEW q \in Seq(S), NEW e \in S
  PROVE  /\ \A i \in DOMAIN Append(q, e) :
              (i \in DOMAIN q /\ Append(q, e)[i] = q[i]) \/ (i = Len(q) + 1 /\ Append(q, e)[i] = e)
         /\ \A i \in DOMAIN q : q[i] \in S
  OBVIOUS

LEMMA CounterRange ==
  ASSUME NEW n \in Int
  PROVE  n % CounterMod \in 0 .. CounterMod - 1
<1>1. CounterMod \in Nat /\ CounterMod > 0
  BY SessionAssumption
<1>. QED
  BY <1>1, SMT

LEMMA InitSession == Init => SessionInv
<1>. SUFFICES ASSUME Init PROVE SessionInv
  OBVIOUS
<1>. USE DEF Init
<1>1. (CHOOSE t \in Tags : TRUE) \in Tags
  BY SessionAssumption
<1>2. TypeOK
  <2>0. /\ pc \in [Callers -> CallerLabels] /\ sender \in [Requests -> SUBSET Callers]
        /\ lost \subseteq Callers
    BY DEF CallerLabels
  <2>1. 0 \in 0 .. CounterMod - 1 /\ 1 \in 1 .. MaxRequest + 1
    BY SessionAssumption, SMT
  <2>2. 0 \in 0 .. MaxDiscard /\ 0 \in 0 .. MaxWait
    BY SessionAssumption, SMT
  <2>3. /\ waiter \in [pc : {"idle", "wait", "spin"}, last : Requests \cup {None}, before : SUBSET Requests]
        /\ calls \in [discard : 0 .. MaxDiscard, wait : 0 .. MaxWait]
    BY <2>2
  <2>4. /\ request_list \in Seq(Requests)
        /\ tag \in [Requests -> Tags]
        /\ data_num \in [Requests -> Nat] /\ wait_num \in [Requests -> Nat]
        /\ sending \in [Requests -> SendLabels] /\ task \in [Requests -> TaskLabels]
        /\ cur \in [Requests -> Requests \cup {None}]
    BY <1>1 DEF SendLabels, TaskLabels
  <2>. QED
    BY <2>0, <2>1, <2>3, <2>4 DEF TypeOK
<1>3. CurOK /\ OneResponder
  BY DEF CurOK, OneResponder
<1>. QED
  BY <1>2, <1>3 DEF SessionInv

\* The handover to a response task, by whichever thread makes the check.
LEMMA HandOver ==
  ASSUME SessionInv, NEW caller \in Requests, CheckAndResponse(caller)
  PROVE  /\ life' \in {"alive", "waiting", "woken", "gone"}
         /\ request_list' \in Seq(Requests)
         /\ in_response' \in BOOLEAN
         /\ task' \in [Requests -> TaskLabels]
         /\ cur' \in [Requests -> Requests \cup {None}]
         /\ CurOK' /\ OneResponder'
<1>. DEFINE front == Head(request_list)
<1>. USE DEF SessionInv
<1>0. /\ life \in {"alive", "waiting", "woken", "gone"} /\ in_response \in BOOLEAN
      /\ request_list \in Seq(Requests)
      /\ task \in [Requests -> TaskLabels] /\ cur \in [Requests -> Requests \cup {None}]
  BY DEF TypeOK
<1>1. CASE UNCHANGED <<request_list, in_response, task, cur>> /\ life' \in {life, "woken"}
  BY <1>1 DEF TypeOK, CurOK, OneResponder
<1>2. CASE /\ request_list # <<>> /\ ~in_response /\ in_response' = TRUE
           /\ request_list' = Tail(request_list)
           /\ task' = [task EXCEPT ![front] = "respond"]
           /\ cur' = [cur EXCEPT ![front] = front]
           /\ UNCHANGED life
  <2>1. front \in Requests /\ Tail(request_list) \in Seq(Requests)
    BY <1>0, <1>2, ListFacts
  <2>. HIDE DEF front
  <2>2. \A k \in Requests : task[k] = "none"
    BY <1>2 DEF OneResponder
  <2>3. task' \in [Requests -> TaskLabels] /\ cur' \in [Requests -> Requests \cup {None}]
    BY <1>0, <1>2, <2>1 DEF TaskLabels
  <2>4. \A k \in Requests : task'[k] # "none" <=> k = front
    BY <1>0, <1>2, <2>1, <2>2
  <2>5. cur'[front] = front
    BY <1>0, <1>2, <2>1
  <2>6. /\ life' \in {"alive", "waiting", "woken", "gone"} /\ in_response' = TRUE
        /\ request_list' \in Seq(Requests)
    BY <1>0, <1>2, <2>1
  <2>7. CurOK'
    BY <2>1, <2>4, <2>5 DEF CurOK
  <2>8. OneResponder'
    BY <2>1, <2>4, <2>6 DEF OneResponder
  <2>. QED
    BY <2>3, <2>6, <2>7, <2>8
<1>. QED
  BY <1>1, <1>2 DEF CheckAndResponse

\* What the thread of a request does to the variables of the callers.
CallerTypes ==
  pc \in [Callers -> CallerLabels] /\ sender \in [Requests -> SUBSET Callers] /\ lost \subseteq Callers

LEMMA GotoTypes ==
  ASSUME CallerTypes, NEW c, NEW at \in CallerLabels, Goto(c, at)
  PROVE  pc' \in [Callers -> CallerLabels]
  BY DEF CallerTypes, Goto

LEMMA NotifyTypes ==
  ASSUME CallerTypes, NotifyOne, UNCHANGED sender
  PROVE  CallerTypes'
<1>1. ASSUME NEW c \in Callers, Goto(c, "lock"), lost' = (lost \cup In("doze")) \ {c}
      PROVE  CallerTypes'
  BY <1>1, GotoTypes DEF CallerTypes, CallerLabels, In
<1>2. CASE lost' = lost \cup In("doze") /\ UNCHANGED pc
  BY <1>2 DEF CallerTypes, In
<1>. QED
  BY <1>1, <1>2 DEF NotifyOne, In

LEMMA SentTypes ==
  ASSUME CallerTypes, NEW r \in Requests, Sent(r)
  PROVE  pc' \in [Callers -> CallerLabels] /\ sender' \in [Requests -> SUBSET Callers]
  BY DEF CallerTypes, CallerLabels, Sent

LEMMA StepSession == SessionInv /\ [Next]_vars => SessionInv'
<1>. SUFFICES ASSUME SessionInv, [Next]_vars PROVE SessionInv'
  OBVIOUS
<1>. USE DEF SessionInv, requestVars, callerVars
<1>c. CallerTypes
  BY DEF CallerTypes, TypeOK
<1>0. ASSUME NEW c \in Callers, Request(c) \/ LockLimit(c) \/ Sleep(c) PROVE SessionInv'
  <2>1. \E at \in CallerLabels : Goto(c, at)
    BY <1>0 DEF Request, LockLimit, Sleep, CallerLabels
  <2>2. pc' \in [Callers -> CallerLabels]
    BY <1>c, <2>1, GotoTypes
  <2>t. TypeOK'
    BY <1>0, <2>2 DEF Request, LockLimit, Sleep, TypeOK
  <2>o. CurOK' /\ OneResponder'
    BY <1>0 DEF Request, LockLimit, Sleep, CurOK, OneResponder
  <2>. QED
    BY <2>t, <2>o
<1>1. ASSUME NEW c \in Callers, NEW r \in Requests, Send(c, r) PROVE SessionInv'
  <2>1. PICK n \in DataNums, t \in Tags :
          /\ tag' = [tag EXCEPT ![r] = t]
          /\ data_num' = [data_num EXCEPT ![r] = n]
          /\ wait_num' = [wait_num EXCEPT ![r] = n]
          /\ finished' = IF n = 0 THEN finished \cup {r} ELSE finished
    BY <1>1 DEF Send
  <2>2. n \in Nat
    BY SessionAssumption
  <2>3. next_id' \in 1 .. MaxRequest + 1
    BY <1>1, SessionAssumption DEF Send, Requests
  <2>4. request_list' \in Seq(Requests)
    BY <1>1 DEF Send, TypeOK
  <2>c. pc' \in [Callers -> CallerLabels] /\ sender' \in [Requests -> SUBSET Callers]
    <3>1. Goto(c, "sending") /\ sender' = [sender EXCEPT ![r] = {c}]
      BY <1>1 DEF Send
    <3>. QED
      BY <1>c, <3>1, GotoTypes DEF CallerTypes, CallerLabels
  <2>5. TypeOK'
    BY <1>1, <2>1, <2>2, <2>3, <2>4, <2>c DEF Send, TypeOK, SendLabels
  <2>6. CurOK' /\ OneResponder'
    BY <1>1 DEF Send, CurOK, OneResponder
  <2>. QED
    BY <2>5, <2>6
<1>2. ASSUME NEW r \in Requests, Upload(r) PROVE SessionInv'
  <2>1. units + data_num[r] \in Int /\ reqs + 1 \in Int
    BY DEF TypeOK
  <2>2. units' \in 0 .. CounterMod - 1 /\ reqs' \in 0 .. CounterMod - 1
    BY <1>2, <2>1, CounterRange DEF Upload
  <2>c. CallerTypes'
    <3>1. pc' \in [Callers -> CallerLabels] /\ sender' \in [Requests -> SUBSET Callers]
      BY <1>2, <1>c, SentTypes DEF Upload, CallerTypes
    <3>2. lost' \subseteq Callers
      BY <1>2, <1>c DEF Upload, CallerTypes, In
    <3>. QED
      BY <3>1, <3>2 DEF CallerTypes
  <2>t. TypeOK'
    BY <1>2, <2>2, <2>c DEF Upload, TypeOK, SendLabels, CallerTypes
  <2>o. CurOK' /\ OneResponder'
    BY <1>2, <2>2 DEF Upload, TypeOK, CurOK, OneResponder
  <2>. QED
    BY <2>t, <2>o
<1>3. ASSUME NEW r \in Requests, CheckEmpty(r) PROVE SessionInv'
  <2>1. CheckAndResponse(r) /\ Sent(r)
    BY <1>3 DEF CheckEmpty
  <2>2. pc' \in [Callers -> CallerLabels] /\ sender' \in [Requests -> SUBSET Callers]
    BY <1>c, <2>1, SentTypes
  <2>. QED
    BY <1>3, <2>1, <2>2, HandOver DEF CheckEmpty, TypeOK, SendLabels
<1>4. ASSUME NEW r \in Requests, ProcessDone(r) PROVE SessionInv'
  <2>1. wait_num[r] - 1 \in Nat
    BY <1>4 DEF ProcessDone, TypeOK
  <2>t. TypeOK'
    BY <1>4, <2>1 DEF ProcessDone, TypeOK
  <2>o. CurOK' /\ OneResponder'
    BY <1>4, <2>1 DEF ProcessDone, TypeOK, CurOK, OneResponder
  <2>. QED
    BY <2>t, <2>o
<1>5. ASSUME NEW r \in Requests, DoneNotifier(r) PROVE SessionInv'
  <2>1. CheckAndResponse(r)
    BY <1>5 DEF DoneNotifier
  <2>. QED
    BY <1>5, <2>1, HandOver DEF DoneNotifier, TypeOK
<1>6. ASSUME NEW k \in Requests, Respond(k) PROVE SessionInv'
  <2>t. TypeOK'
    BY <1>6 DEF Respond, CurOK, TypeOK, TaskLabels
  <2>o. CurOK' /\ OneResponder'
    BY <1>6 DEF Respond, TypeOK, CurOK, OneResponder
  <2>. QED
    BY <2>t, <2>o
<1>7. ASSUME NEW k \in Requests, ReleaseCount(k) PROVE SessionInv'
  <2>1. data_num[cur[k]] \in Nat
    BY <1>7 DEF ReleaseCount, CurOK, TypeOK
  <2>2. units - data_num[cur[k]] \in Int /\ reqs - 1 \in Int
    BY <2>1 DEF TypeOK
  <2>3. units' \in 0 .. CounterMod - 1 /\ reqs' \in 0 .. CounterMod - 1
    BY <1>7, <2>2, CounterRange DEF ReleaseCount
  <2>c. CallerTypes'
    BY <1>7, <1>c, NotifyTypes DEF ReleaseCount
  <2>t. TypeOK'
    BY <1>7, <2>3, <2>c DEF ReleaseCount, TypeOK, TaskLabels, CallerTypes
  <2>o. CurOK' /\ OneResponder'
    BY <1>7, <2>3 DEF ReleaseCount, TypeOK, CurOK, OneResponder
  <2>. QED
    BY <2>t, <2>o
<1>8. ASSUME NEW k \in Requests, Delete(k) PROVE SessionInv'
  <2>t. TypeOK'
    BY <1>8 DEF Delete, CurOK, TypeOK, TaskLabels
  <2>o. CurOK' /\ OneResponder'
    BY <1>8 DEF Delete, TypeOK, CurOK, OneResponder
  <2>. QED
    BY <2>t, <2>o
<1>9. ASSUME NEW k \in Requests, NextRequest(k) PROVE SessionInv'
  <2>1. CASE /\ request_list = <<>> /\ in_response' = FALSE
             /\ life' = IF life = "waiting" THEN "woken" ELSE life
             /\ task' = [task EXCEPT ![k] = "none"]
             /\ UNCHANGED <<request_list, cur>>
    <3>t. TypeOK'
      BY <1>9, <2>1 DEF NextRequest, TypeOK, TaskLabels
    <3>o. CurOK' /\ OneResponder'
      BY <1>9, <2>1 DEF NextRequest, TypeOK, CurOK, OneResponder
    <3>. QED
      BY <3>t, <3>o
  <2>2. CASE /\ request_list # <<>>
             /\ request_list' = Tail(request_list)
             /\ cur' = [cur EXCEPT ![k] = Head(request_list)]
             /\ task' = [task EXCEPT ![k] = "respond"]
             /\ UNCHANGED <<life, in_response>>
    <3>1. Head(request_list) \in Requests /\ Tail(request_list) \in Seq(Requests)
      BY <2>2, ListFacts DEF TypeOK
    <3>t. TypeOK'
      BY <1>9, <2>2, <3>1 DEF NextRequest, TypeOK, TaskLabels
    <3>2. \A q \in Requests : (task'[q] # "none" <=> task[q] # "none")
                             /\ (q # k => cur'[q] = cur[q]) /\ cur'[k] \in Requests
      BY <1>9, <2>2, <3>1 DEF NextRequest, TypeOK
    <3>o. CurOK' /\ OneResponder'
      BY <2>2, <3>2 DEF CurOK, OneResponder
    <3>. QED
      BY <3>t, <3>o
  <2>3. CASE /\ task' = [task EXCEPT ![k] = "clear"]
             /\ UNCHANGED <<life, request_list, in_response, cur>>
    <3>t. TypeOK'
      BY <1>9, <2>3 DEF NextRequest, TypeOK, TaskLabels
    <3>o. CurOK' /\ OneResponder'
      BY <1>9, <2>3 DEF NextRequest, TypeOK, CurOK, OneResponder
    <3>. QED
      BY <3>t, <3>o
  <2>. QED
    BY <1>9, <2>1, <2>2, <2>3 DEF NextRequest
<1>10. ASSUME NEW k \in Requests, ClearInResponse(k) PROVE SessionInv'
  <2>t. TypeOK'
    BY <1>10 DEF ClearInResponse, TypeOK, TaskLabels
  <2>o. CurOK' /\ OneResponder'
    BY <1>10 DEF ClearInResponse, TypeOK, CurOK, OneResponder
  <2>. QED
    BY <2>t, <2>o
<1>11. ASSUME NEW t \in Tags, WaitTaskDone(t) PROVE SessionInv'
  <2>1. \A i \in DOMAIN request_list : request_list[i] \in Requests
    BY DEF TypeOK
  <2>2. {r \in 1 .. next_id - 1 : tag[r] = t} \in SUBSET Requests
    BY SessionAssumption DEF TypeOK, Requests
  <2>3. waiter' \in [pc : {"idle", "wait", "spin"}, last : Requests \cup {None}, before : SUBSET Requests]
    BY <1>11, <2>1, <2>2 DEF WaitTaskDone
  <2>4. calls' \in [discard : 0 .. MaxDiscard, wait : 0 .. MaxWait]
    <3>0. calls \in [discard : 0 .. MaxDiscard, wait : 0 .. MaxWait] /\ calls.wait < MaxWait
      BY <1>11 DEF WaitTaskDone, TypeOK
    <3>1. calls.wait + 1 \in 0 .. MaxWait /\ calls.discard \in 0 .. MaxDiscard
      BY <3>0, SessionAssumption
    <3>2. calls' = [discard |-> calls.discard, wait |-> calls.wait + 1]
      BY <1>11 DEF WaitTaskDone, TypeOK
    <3>. QED
      BY <3>1, <3>2
  <2>t. TypeOK'
    BY <1>11, <2>3, <2>4 DEF WaitTaskDone, TypeOK
  <2>o. CurOK' /\ OneResponder'
    BY <1>11, <2>3, <2>4 DEF WaitTaskDone, TypeOK, CurOK, OneResponder
  <2>. QED
    BY <2>t, <2>o
<1>12. ASSUME NEW t \in Tags, DiscardTask(t) PROVE SessionInv'
  <2>1. Listed \subseteq Requests
    BY DEF Listed, TypeOK
  <2>2. calls' \in [discard : 0 .. MaxDiscard, wait : 0 .. MaxWait]
    <3>0. calls \in [discard : 0 .. MaxDiscard, wait : 0 .. MaxWait] /\ calls.discard < MaxDiscard
      BY <1>12 DEF DiscardTask, TypeOK
    <3>1. calls.discard + 1 \in 0 .. MaxDiscard /\ calls.wait \in 0 .. MaxWait
      BY <3>0, SessionAssumption
    <3>2. calls' = [calls EXCEPT !.discard = @ + 1]
      BY <1>12 DEF DiscardTask
    <3>3. calls' = [discard |-> calls.discard + 1, wait |-> calls.wait]
      BY <3>0, <3>2
    <3>. QED
      BY <3>1, <3>3
  <2>t. TypeOK'
    BY <1>12, <2>1, <2>2 DEF DiscardTask, TypeOK
  <2>o. CurOK' /\ OneResponder'
    BY <1>12, <2>1, <2>2 DEF DiscardTask, TypeOK, CurOK, OneResponder
  <2>. QED
    BY <2>t, <2>o
<1>13. ASSUME FutureReady \/ SpinEnd PROVE SessionInv'
  <2>t. TypeOK'
    BY <1>13 DEF FutureReady, SpinEnd, TypeOK
  <2>o. CurOK' /\ OneResponder'
    BY <1>13 DEF FutureReady, SpinEnd, TypeOK, CurOK, OneResponder
  <2>. QED
    BY <2>t, <2>o
<1>14. ASSUME Destroy PROVE SessionInv'
  <2>t. TypeOK'
    BY <1>14 DEF Destroy, TypeOK
  <2>o. CurOK' /\ OneResponder'
    BY <1>14 DEF Destroy, TypeOK, CurOK, OneResponder
  <2>. QED
    BY <2>t, <2>o
<1>15. CASE UNCHANGED vars
  <2>t. TypeOK'
    BY <1>15 DEF vars, requestVars, TypeOK
  <2>o. CurOK' /\ OneResponder'
    BY <1>15 DEF vars, requestVars, TypeOK, CurOK, OneResponder
  <2>. QED
    BY <2>t, <2>o
<1>. QED
  BY <1>0, <1>1, <1>2, <1>3, <1>4, <1>5, <1>6, <1>7, <1>8, <1>9, <1>10, <1>11, <1>12, <1>13, <1>14, <1>15
     DEF Next, CallerStep, SenderStep, WorkerStep, TaskStep, WaiterStep

-----------------------------------------------------------------------------
\* In every reachable state the variables have their types.
THEOREM SessionTypes == Spec => []TypeOK
<1>1. SessionInv => TypeOK
  BY DEF SessionInv
<1>. QED
  BY InitSession, StepSession, <1>1, PTL DEF Spec

\* At most one response task runs in a session, although CheckAndResponse tests
\* in_response_ under request_mutex_ and the task clears it without that mutex.
THEOREM SingleResponder == Spec => []OneResponder
<1>1. SessionInv => OneResponder
  BY DEF SessionInv
<1>. QED
  BY InitSession, StepSession, <1>1, PTL DEF Spec
-----------------------------------------------------------------------------
LEMMA StepWhole == SessionInv /\ WholeOK /\ [Next]_vars => WholeOK'
<1>. SUFFICES ASSUME SessionInv, WholeOK, [Next]_vars PROVE WholeOK'
  OBVIOUS
<1>. USE DEF requestVars, callerVars
<1>t. TypeOK /\ CurOK
  BY DEF SessionInv
<1>0. ASSUME NEW caller \in Requests, caller \in finished, CheckAndResponse(caller),
             UNCHANGED finished
      PROVE  \A k \in Requests : task'[k] \in {"respond", "release", "delete"} => cur'[k] \in finished'
  <2>1. request_list # <<>> => Head(request_list) \in Requests
    BY <1>t, ListFacts DEF TypeOK
  <2>. QED
    <3>1. CASE UNCHANGED <<task, cur>>
      BY <1>0, <3>1 DEF WholeOK
    <3>2. CASE /\ request_list # <<>>
               /\ caller = Head(request_list) \/ Head(request_list) \in finished
               /\ task' = [task EXCEPT ![Head(request_list)] = "respond"]
               /\ cur' = [cur EXCEPT ![Head(request_list)] = Head(request_list)]
      <4>. DEFINE front == Head(request_list)
      <4>1. front \in Requests /\ front \in finished
        BY <1>0, <2>1, <3>2
      <4>2. cur'[front] = front
        BY <1>t, <3>2, <4>1 DEF TypeOK
      <4>3. \A k \in Requests : k # front => task'[k] = task[k] /\ cur'[k] = cur[k]
        BY <1>t, <3>2 DEF TypeOK
      <4>. QED
        BY <1>0, <4>1, <4>2, <4>3 DEF WholeOK
    <3>. QED
      BY <1>0, <3>1, <3>2 DEF CheckAndResponse
<1>1. ASSUME NEW c \in Callers, NEW r \in Requests, Send(c, r) PROVE WholeOK'
  <2>1. PICK n \in DataNums, t \in Tags :
          /\ tag' = [tag EXCEPT ![r] = t]
          /\ data_num' = [data_num EXCEPT ![r] = n]
          /\ wait_num' = [wait_num EXCEPT ![r] = n]
          /\ finished' = IF n = 0 THEN finished \cup {r} ELSE finished
    BY <1>1 DEF Send
  <2>2. r \notin finished /\ next_id = r /\ next_id' = r + 1
    BY <1>1, <1>t DEF Send, WholeOK, TypeOK
  <2>3. \A q \in finished' : wait_num'[q] = 0 /\ q < next_id'
    BY <1>t, <2>1, <2>2 DEF WholeOK, TypeOK, Requests
  <2>4. \A q \in Requests : wait_num'[q] > 0 => q < next_id'
    BY <1>t, <2>1, <2>2 DEF WholeOK, TypeOK, Requests
  <2>5. \A q \in Requests :
          /\ sending'[q] = "check" => q \in finished'
          /\ sending'[q] = "listed" /\ data_num'[q] = 0 => q \in finished'
    BY <1>1, <1>t, <2>1 DEF Send, WholeOK, TypeOK
  <2>. QED
    BY <1>1, <2>1, <2>2, <2>3, <2>4, <2>5 DEF Send, WholeOK
<1>2. ASSUME NEW r \in Requests, Upload(r) PROVE WholeOK'
  BY <1>2, <1>t DEF Upload, WholeOK, TypeOK
<1>3. ASSUME NEW r \in Requests, CheckEmpty(r) PROVE WholeOK'
  <2>1. r \in finished /\ CheckAndResponse(r) /\ UNCHANGED finished
    BY <1>3 DEF CheckEmpty, WholeOK
  <2>2. \A k \in Requests : task'[k] \in {"respond", "release", "delete"} => cur'[k] \in finished'
    BY <1>0, <2>1
  <2>. QED
    BY <1>3, <1>t, <2>2 DEF CheckEmpty, WholeOK, TypeOK
<1>4. ASSUME NEW r \in Requests, ProcessDone(r) PROVE WholeOK'
  <2>1. r \notin finished
    BY <1>4 DEF ProcessDone, WholeOK
  <2>2. r < next_id
    BY <1>4 DEF ProcessDone, WholeOK
  <2>. QED
    BY <1>4, <1>t, <2>1, <2>2 DEF ProcessDone, WholeOK, TypeOK
<1>5. ASSUME NEW r \in Requests, DoneNotifier(r) PROVE WholeOK'
  <2>1. r \in finished /\ CheckAndResponse(r) /\ UNCHANGED finished
    BY <1>5 DEF DoneNotifier, WholeOK
  <2>2. \A k \in Requests : task'[k] \in {"respond", "release", "delete"} => cur'[k] \in finished'
    BY <1>0, <2>1
  <2>. QED
    BY <1>5, <1>t, <2>2 DEF DoneNotifier, WholeOK, TypeOK
<1>6. ASSUME NEW k \in Requests, Respond(k) PROVE WholeOK'
  <2>1. /\ UNCHANGED <<next_id, data_num, wait_num, finished, sending, notifying, cur, deleted>>
        /\ task' = [task EXCEPT ![k] = "release"] /\ task[k] = "respond"
        /\ answered' \subseteq answered \cup {cur[k]}
    BY <1>6 DEF Respond
  <2>2. \A q \in Requests : task'[q] \in {"respond", "release", "delete"} =>
                              task[q] \in {"respond", "release", "delete"}
    BY <1>t, <2>1 DEF TypeOK
  <2>. QED
    BY <2>1, <2>2 DEF WholeOK
<1>7. ASSUME NEW k \in Requests, ReleaseCount(k) PROVE WholeOK'
  BY <1>7, <1>t DEF ReleaseCount, WholeOK, TypeOK
<1>8. ASSUME NEW k \in Requests, Delete(k) PROVE WholeOK'
  BY <1>8, <1>t DEF Delete, WholeOK, TypeOK
<1>9. ASSUME NEW k \in Requests, NextRequest(k) PROVE WholeOK'
  <2>1. UNCHANGED <<next_id, data_num, wait_num, finished, sending, notifying, answered, deleted>>
    BY <1>9 DEF NextRequest
  <2>2. \E l \in {"none", "respond", "clear"} : task' = [task EXCEPT ![k] = l]
    BY <1>9 DEF NextRequest
  <2>3. /\ \A q \in Requests : q # k => task'[q] = task[q] /\ cur'[q] = cur[q]
        /\ task'[k] = "respond" => cur'[k] \in finished
        /\ task'[k] \in {"none", "respond", "clear"}
    BY <1>9, <1>t, <2>2 DEF NextRequest, TypeOK
  <2>4. \A q \in Requests : task'[q] \in {"respond", "release", "delete"} => cur'[q] \in finished'
    BY <2>1, <2>3 DEF WholeOK
  <2>. QED
    BY <2>1, <2>4 DEF WholeOK
<1>10. ASSUME NEW k \in Requests, ClearInResponse(k) PROVE WholeOK'
  BY <1>10, <1>t DEF ClearInResponse, WholeOK, TypeOK
<1>11. ASSUME NEW t \in Tags, WaitTaskDone(t) \/ DiscardTask(t) PROVE WholeOK'
  BY <1>11 DEF WaitTaskDone, DiscardTask, WholeOK
<1>12. CASE FutureReady \/ SpinEnd \/ Destroy \/ UNCHANGED vars
  BY <1>12 DEF FutureReady, SpinEnd, Destroy, vars, WholeOK
<1>13. ASSUME NEW c \in Callers, Request(c) \/ LockLimit(c) \/ Sleep(c) PROVE WholeOK'
  BY <1>13 DEF Request, LockLimit, Sleep, WholeOK
<1>. QED
  BY <1>1, <1>2, <1>3, <1>4, <1>5, <1>6, <1>7, <1>8, <1>9, <1>10, <1>11, <1>12, <1>13
     DEF Next, CallerStep, SenderStep, WorkerStep, TaskStep, WaiterStep

\* A request is answered and destroyed only when no worker has a piece of it and
\* none is inside its ProcessDone.
THEOREM AnsweredWhenWhole == Spec => []AnsweredWhole
<1>1. Init => WholeOK
  BY DEF Init, WholeOK
<1>2. WholeOK => AnsweredWhole
  BY DEF WholeOK, AnsweredWhole
<1>. QED
  BY InitSession, StepSession, StepWhole, <1>1, <1>2, PTL DEF Spec
-----------------------------------------------------------------------------
(* OrderOK and the refinement                                              *)

LEMMA OrderFrame ==
  ASSUME OrderOK, UNCHANGED <<request_list, next_id, answered, cur>>,
         \A k \in Requests : task'[k] = "respond" => task[k] = "respond"
  PROVE  OrderOK'
  BY DEF OrderOK

\* A task takes the front request over, and no other task answers one.
LEMMA OrderTake ==
  ASSUME OrderOK, TypeOK, UNCHANGED <<next_id, answered>>, request_list # <<>>,
         NEW k \in Requests, request_list' = Tail(request_list),
         task' = [task EXCEPT ![k] = "respond"], cur' = [cur EXCEPT ![k] = Head(request_list)],
         \A j \in Requests : task[j] # "respond"
  PROVE  OrderOK'
<1>. DEFINE front == Head(request_list)
<1>1. request_list \in Seq(Requests) /\ front \in Requests
  BY TailFacts DEF TypeOK
<1>2. 1 \in DOMAIN request_list /\ front = request_list[1]
  BY <1>1, TailFacts
<1>3. \A i \in DOMAIN request_list' : i + 1 \in DOMAIN request_list /\ request_list'[i] = request_list[i + 1]
  BY <1>1, TailFacts
<1>4. \A i \in DOMAIN request_list' : 1 < i + 1
  BY <1>1
<1>5. \A i, j \in DOMAIN request_list' : i < j => i + 1 < j + 1
  BY <1>1
<1>6. \A j \in Requests : task'[j] = "respond" => j = k /\ cur'[j] = front
  BY DEF TypeOK
<1>. HIDE DEF front
<1>7. ASSUME NEW i \in DOMAIN request_list'
      PROVE  /\ request_list'[i] < next_id
             /\ \A r \in answered : r < request_list'[i]
             /\ \A j \in Requests : task'[j] = "respond" => cur'[j] < request_list'[i]
             /\ \A j \in DOMAIN request_list' : i < j => request_list'[i] < request_list'[j]
  <2>1. front < request_list'[i]
    BY <1>2, <1>3, <1>4 DEF OrderOK
  <2>2. \A j \in DOMAIN request_list' : i < j => request_list'[i] < request_list'[j]
    BY <1>3, <1>5 DEF OrderOK
  <2>. QED
    BY <1>3, <1>6, <2>1, <2>2 DEF OrderOK
<1>8. \A j \in Requests : task'[j] = "respond" =>
        cur'[j] < next_id /\ \A r \in answered : r < cur'[j]
  BY <1>2, <1>6 DEF OrderOK
<1>. QED
  BY <1>7, <1>8 DEF OrderOK

LEMMA OrderCheck ==
  ASSUME SessionInv, OrderOK, UNCHANGED <<next_id, answered>>,
         NEW r \in Requests, CheckAndResponse(r)
  PROVE  OrderOK'
<1>. USE DEF SessionInv
<1>1. CASE UNCHANGED <<request_list, task, cur>>
  BY <1>1, OrderFrame
<1>2. CASE /\ request_list # <<>> /\ ~in_response /\ request_list' = Tail(request_list)
           /\ task' = [task EXCEPT ![Head(request_list)] = "respond"]
           /\ cur' = [cur EXCEPT ![Head(request_list)] = Head(request_list)]
  <2>1. Head(request_list) \in Requests
    BY <1>2, TailFacts DEF TypeOK
  <2>2. \A j \in Requests : task[j] # "respond"
    BY <1>2 DEF OneResponder
  <2>. QED
    BY <1>2, <2>1, <2>2, OrderTake
<1>. QED
  BY <1>1, <1>2 DEF CheckAndResponse

LEMMA OrderSend ==
  ASSUME TypeOK, OrderOK, NEW c \in Callers, NEW r \in Requests, Send(c, r)
  PROVE  OrderOK'
<1>1. request_list \in Seq(Requests) /\ next_id = r /\ r \in Int /\ next_id' = r + 1
  BY DEF Send, TypeOK, Requests
<1>2. \A i \in DOMAIN request_list' :
        (i \in DOMAIN request_list /\ request_list'[i] = request_list[i])
          \/ (i = Len(request_list) + 1 /\ request_list'[i] = r)
  BY <1>1, AppendFacts DEF Send
<1>3. \A i \in DOMAIN request_list : i < Len(request_list) + 1 /\ i \in Int /\ request_list[i] \in Requests
  BY <1>1
<1>4. UNCHANGED <<task, cur, answered>>
  BY DEF Send
<1>5. /\ \A q \in answered : q \in Int
      /\ \A k \in Requests : cur[k] \in Int
      /\ \A i \in DOMAIN request_list : request_list[i] \in Int
  <2>1. \A q \in Requests : q \in Int
    BY DEF Requests
  <2>2. /\ answered \subseteq Requests
        /\ \A k \in Requests : cur[k] \in Requests \/ cur[k] = 0
    BY DEF TypeOK, None
  <2>. QED
    BY <1>3, <2>1, <2>2
<1>6. ASSUME NEW i \in DOMAIN request_list'
      PROVE  /\ request_list'[i] < next_id'
             /\ \A q \in answered' : q < request_list'[i]
             /\ \A k \in Requests : task'[k] = "respond" => cur'[k] < request_list'[i]
             /\ \A j \in DOMAIN request_list' : i < j => request_list'[i] < request_list'[j]
  <2>1. CASE i \in DOMAIN request_list /\ request_list'[i] = request_list[i]
    <3>1. request_list[i] < r
      BY <1>1, <2>1 DEF OrderOK
    <3>2. \A j \in DOMAIN request_list' : i < j => request_list'[i] < request_list'[j]
      BY <1>2, <2>1, <3>1 DEF OrderOK
    <3>. QED
      BY <1>1, <1>4, <1>5, <2>1, <3>1, <3>2 DEF OrderOK
  <2>2. CASE i = Len(request_list) + 1 /\ request_list'[i] = r
    <3>1. \A j \in DOMAIN request_list' : ~(i < j)
      BY <1>1, <1>2, <1>3, <2>2
    <3>. QED
      BY <1>1, <1>4, <2>2, <3>1 DEF OrderOK
  <2>. QED
    BY <1>2, <2>1, <2>2
<1>7. \A k \in Requests : task'[k] = "respond" =>
        cur'[k] < next_id' /\ \A q \in answered' : q < cur'[k]
  BY <1>1, <1>4, <1>5 DEF OrderOK
<1>8. \A q \in answered' : q < next_id'
  BY <1>1, <1>4, <1>5 DEF OrderOK
<1>. QED
  BY <1>6, <1>7, <1>8 DEF OrderOK

LEMMA OrderRespond ==
  ASSUME SessionInv, OrderOK, NEW k \in Requests, Respond(k)
  PROVE  OrderOK'
<1>. USE DEF SessionInv
<1>1. UNCHANGED <<request_list, next_id, cur>> /\ answered' \subseteq answered \cup {cur[k]}
  BY DEF Respond
<1>2. \A j \in Requests : task'[j] # "respond"
  BY DEF Respond, OneResponder, TypeOK
<1>3. task[k] = "respond"
  BY DEF Respond
<1>. QED
  BY <1>1, <1>2, <1>3 DEF OrderOK

LEMMA StepOrder == SessionInv /\ OrderOK /\ [Next]_vars => OrderOK'
<1>. SUFFICES ASSUME SessionInv, OrderOK, [Next]_vars PROVE OrderOK'
  OBVIOUS
<1>. USE DEF callerVars
<1>t. TypeOK
  BY DEF SessionInv
<1>1. CASE UNCHANGED <<request_list, next_id, answered, cur, task>>
  BY <1>1, OrderFrame
<1>2. ASSUME NEW c \in Callers, Request(c) \/ LockLimit(c) \/ Sleep(c) PROVE OrderOK'
  BY <1>1, <1>2 DEF Request, LockLimit, Sleep
<1>3. ASSUME NEW c \in Callers, NEW r \in Requests, Send(c, r) PROVE OrderOK'
  BY <1>t, <1>3, OrderSend
<1>4. ASSUME NEW r \in Requests, Upload(r) PROVE OrderOK'
  BY <1>1, <1>4 DEF Upload
<1>5. ASSUME NEW r \in Requests, CheckEmpty(r) \/ DoneNotifier(r) PROVE OrderOK'
  BY <1>5, OrderCheck DEF CheckEmpty, DoneNotifier
<1>6. ASSUME NEW r \in Requests, ProcessDone(r) PROVE OrderOK'
  BY <1>1, <1>6 DEF ProcessDone
<1>7. ASSUME NEW k \in Requests, Respond(k) PROVE OrderOK'
  BY <1>7, OrderRespond
<1>8. ASSUME NEW k \in Requests, ReleaseCount(k) \/ Delete(k) \/ ClearInResponse(k) PROVE OrderOK'
  <2>1. UNCHANGED <<request_list, next_id, answered, cur>>
    BY <1>8 DEF ReleaseCount, Delete, ClearInResponse
  <2>2. \A j \in Requests : task'[j] = "respond" => task[j] = "respond"
    BY <1>8, <1>t DEF ReleaseCount, Delete, ClearInResponse, TypeOK
  <2>. QED
    BY <2>1, <2>2, OrderFrame
<1>9. ASSUME NEW k \in Requests, NextRequest(k) PROVE OrderOK'
  <2>0. UNCHANGED <<next_id, answered>> /\ task[k] = "next"
    BY <1>9 DEF NextRequest
  <2>1. \A j \in Requests : task[j] # "respond"
    BY <2>0 DEF SessionInv, OneResponder
  <2>2. CASE task' \in {[task EXCEPT ![k] = "none"], [task EXCEPT ![k] = "clear"]}
             /\ UNCHANGED <<request_list, cur>>
    <3>1. \A j \in Requests : task'[j] = "respond" => task[j] = "respond"
      BY <1>t, <2>2 DEF TypeOK
    <3>. QED
      BY <2>0, <2>2, <3>1, OrderFrame
  <2>3. CASE /\ request_list # <<>> /\ request_list' = Tail(request_list)
             /\ cur' = [cur EXCEPT ![k] = Head(request_list)] /\ task' = [task EXCEPT ![k] = "respond"]
    BY <1>t, <2>0, <2>1, <2>3, OrderTake
  <2>. QED
    BY <1>9, <2>2, <2>3 DEF NextRequest
<1>10. ASSUME NEW t \in Tags, WaitTaskDone(t) \/ DiscardTask(t) PROVE OrderOK'
  BY <1>1, <1>10 DEF WaitTaskDone, DiscardTask
<1>11. CASE WaiterStep \/ Destroy \/ UNCHANGED vars
  BY <1>1, <1>11 DEF WaiterStep, FutureReady, SpinEnd, Destroy, vars
<1>. QED
  BY <1>2, <1>3, <1>4, <1>5, <1>6, <1>7, <1>8, <1>9, <1>10, <1>11
     DEF Next, CallerStep, SenderStep, WorkerStep, TaskStep

\* A step that sends nothing and answers nothing is no step of the service.
LEMMA ServiceStutter ==
  ASSUME UNCHANGED <<next_id, answered>>
  PROVE  [Service!Next]_<<[s \in {"session"} |-> next_id - 1], [s \in {"session"} |-> answered]>>
  OBVIOUS

\* Send gives a request, Respond delivers one that is newer than all before.
LEMMA ServiceStep ==
  ASSUME SessionInv, OrderOK, [Next]_vars
  PROVE  [Service!Next]_<<[s \in {"session"} |-> next_id - 1], [s \in {"session"} |-> answered]>>
<1>. USE DEF callerVars
<1>t. TypeOK
  BY DEF SessionInv
<1>1. CASE UNCHANGED <<next_id, answered>>
  BY <1>1, ServiceStutter
<1>2. ASSUME NEW c \in Callers, NEW r \in Requests, Send(c, r) PROVE Service!Give("session")
  <2>1. /\ next_id - 1 < MaxRequest /\ next_id' - 1 = next_id - 1 + 1 /\ UNCHANGED answered
    BY <1>2, <1>t, SessionAssumption DEF Send, TypeOK, Requests
  <2>. QED
    BY <2>1 DEF Service!Give
<1>3. ASSUME NEW k \in Requests, Respond(k), answered' # answered PROVE Service!Deliver("session")
  <2>1. /\ answered' = answered \cup {cur[k]} /\ UNCHANGED next_id
        /\ cur[k] < next_id /\ \A r \in answered : r < cur[k]
    BY <1>3 DEF Respond, OrderOK
  <2>2. cur[k] \in 1 .. next_id - 1
    <3>1. cur[k] \in Requests
      BY <1>3 DEF Respond, SessionInv, CurOK
    <3>2. next_id \in Int
      BY <1>t DEF TypeOK
    <3>. QED
      BY <2>1, <3>1, <3>2 DEF Requests
  <2>. QED
    BY <2>1, <2>2 DEF Service!Deliver
<1>4. CASE \E c \in Callers, r \in Requests : Send(c, r)
  BY <1>2, <1>4 DEF Service!Next
<1>5. CASE \E k \in Requests : Respond(k)
  <2>1. UNCHANGED next_id
    BY <1>5 DEF Respond
  <2>. QED
    BY <1>1, <1>3, <1>5, <2>1 DEF Service!Next
<1>6. ASSUME NEW c \in Callers, Request(c) \/ LockLimit(c) \/ Sleep(c) PROVE UNCHANGED <<next_id, answered>>
  BY <1>6 DEF Request, LockLimit, Sleep
<1>7. ASSUME NEW r \in Requests, SenderStep(r) \/ WorkerStep(r) PROVE UNCHANGED <<next_id, answered>>
  BY <1>7 DEF SenderStep, WorkerStep, Upload, CheckEmpty, ProcessDone, DoneNotifier
<1>8. ASSUME NEW k \in Requests, ReleaseCount(k) \/ Delete(k) \/ NextRequest(k) \/ ClearInResponse(k)
      PROVE  UNCHANGED <<next_id, answered>>
  BY <1>8 DEF ReleaseCount, Delete, NextRequest, ClearInResponse
<1>9. ASSUME NEW t \in Tags, WaitTaskDone(t) \/ DiscardTask(t) PROVE UNCHANGED <<next_id, answered>>
  BY <1>9 DEF WaitTaskDone, DiscardTask
<1>10. CASE WaiterStep \/ Destroy \/ UNCHANGED vars
  BY <1>1, <1>10 DEF WaiterStep, FutureReady, SpinEnd, Destroy, vars
<1>. QED
  BY <1>1, <1>4, <1>5, <1>6, <1>7, <1>8, <1>9, <1>10 DEF Next, CallerStep, TaskStep

\* A session implements OrderedDelivery: its observers get the responses in the
\* order in which the requests were sent, each at most once, whatever the workers
\* do and whichever thread hands the front request over.
THEOREM RespondsOnlyInOrder == Spec => RespondsInOrder
<1>1. Init => OrderOK /\ Service!Init
  BY DEF Init, OrderOK, Service!Init
<1>2. SessionInv /\ OrderOK /\ [Next]_vars =>
        [Service!Next]_<<[s \in {"session"} |-> next_id - 1], [s \in {"session"} |-> answered]>>
  BY ServiceStep
<1>. QED
  BY InitSession, StepSession, StepOrder, <1>1, <1>2, PTL DEF Spec, RespondsInOrder, Service!Spec

-----------------------------------------------------------------------------
(* Who waits.  First the limit of WaitIfCacheFull: WithinLimit, although    *)
(* the limit is tested and counted in two steps and the counter may go      *)
(* below zero.  Then WaitTaskDone, and what the destructor leaves behind.   *)

\* Requests whose Upload is to come: released all the same, or not yet.
Listing == {r \in Requests : sending[r] = "listed"}
Early   == Listing \cap Released
Pending == Listing \ Released

\* Send is with one request per caller, and with one caller per request.
OwnerOK ==
  /\ \A r \in Requests :
       /\ sending[r] \in {"listed", "check"} =>
            \E c \in Callers : sender[r] = {c} /\ pc[c] = "sending"
       /\ sending[r] \in {"none", "sent"} => sender[r] = {}
  /\ \A r, q \in Requests : r # q => sender[r] \cap sender[q] = {}

\* A request is in one place, request_list_ or a task's hand, until it is destroyed.
PlaceOK ==
  /\ \A r \in Requests : r >= next_id => sending[r] = "none"
  /\ \A i \in DOMAIN request_list :
       /\ sending[request_list[i]] # "none" /\ request_list[i] \notin deleted
       /\ \A k \in Requests : task[k] # "none" => cur[k] # request_list[i]
  /\ \A i, j \in DOMAIN request_list : i # j => request_list[i] # request_list[j]
  /\ \A k \in Requests :
       /\ task[k] # "none" => sending[cur[k]] # "none"
       /\ task[k] \in {"respond", "release", "delete"} => cur[k] \notin deleted
  /\ \A r \in deleted : sending[r] # "none"

\* processing_req_ is what was counted less what was released too early, in
\* the arithmetic of an unsigned counter.
Wrapped(n) == IF n >= 0 THEN n ELSE n + CounterMod
CountOK == reqs = Wrapped(Cardinality(Counted) - Cardinality(Early))

\* Who has passed the test and is not counted yet has a caller of its own.
SpaceOK ==
  Cardinality(Counted) + Cardinality(Pending) + Cardinality(In("send"))
    <= MaxProcessing - 1 + Cardinality(Callers)

LimitInv == SessionInv /\ OwnerOK /\ PlaceOK /\ CountOK /\ SpaceOK
-----------------------------------------------------------------------------
LEMMA ModFacts ==
  /\ \A x \in 0 .. CounterMod - 1 : x % CounterMod = x
  /\ CounterMod % CounterMod = 0
  /\ (-1) % CounterMod = CounterMod - 1
<1>1. CounterMod \in Nat /\ CounterMod > 0
  BY SessionAssumption
<1>2. ASSUME NEW x \in 0 .. CounterMod - 1 PROVE x % CounterMod = x
  BY <1>1, <1>2, SMT
<1>3. CounterMod % CounterMod = 0
  BY <1>1, SMT
<1>4. (-1) % CounterMod = CounterMod - 1
  BY <1>1, SMT
<1>. QED
  BY <1>2, <1>3, <1>4

\* Counting up and down in the unsigned counter.
LEMMA CountUp ==
  ASSUME NEW n \in Int, -CounterMod <= n, n + 1 < CounterMod
  PROVE  (Wrapped(n) + 1) % CounterMod = Wrapped(n + 1)
<1>0. CounterMod \in Nat /\ CounterMod > 0
  BY SessionAssumption
<1>1. CASE n >= 0
  <2>1. n + 1 \in 0 .. CounterMod - 1
    BY <1>0, <1>1
  <2>. QED
    BY <1>1, <2>1, ModFacts DEF Wrapped
<1>2. CASE n = -1
  <2>1. Wrapped(n) + 1 = CounterMod /\ Wrapped(n + 1) = 0
    BY <1>0, <1>2 DEF Wrapped
  <2>. QED
    BY <2>1, ModFacts
<1>3. CASE n < -1
  <2>1. n + CounterMod + 1 \in 0 .. CounterMod - 1
    BY <1>0, <1>3
  <2>2. Wrapped(n) + 1 = n + CounterMod + 1 /\ Wrapped(n + 1) = n + CounterMod + 1
    BY <1>0, <1>3 DEF Wrapped
  <2>. QED
    BY <2>1, <2>2, ModFacts
<1>. QED
  BY <1>1, <1>2, <1>3

LEMMA CountDown ==
  ASSUME NEW n \in Int, -CounterMod <= n - 1, n < CounterMod
  PROVE  (Wrapped(n) - 1) % CounterMod = Wrapped(n - 1)
<1>0. CounterMod \in Nat /\ CounterMod > 0
  BY SessionAssumption
<1>1. CASE n >= 1
  <2>1. n - 1 \in 0 .. CounterMod - 1
    BY <1>0, <1>1
  <2>. QED
    BY <1>1, <2>1, ModFacts DEF Wrapped
<1>2. CASE n = 0
  <2>1. Wrapped(n) - 1 = -1 /\ Wrapped(n - 1) = CounterMod - 1
    BY <1>0, <1>2 DEF Wrapped
  <2>. QED
    BY <2>1, ModFacts
<1>3. CASE n < 0
  <2>1. n + CounterMod - 1 \in 0 .. CounterMod - 1
    BY <1>0, <1>3
  <2>2. Wrapped(n) - 1 = n + CounterMod - 1 /\ Wrapped(n - 1) = n + CounterMod - 1
    BY <1>0, <1>3 DEF Wrapped
  <2>. QED
    BY <2>1, <2>2, ModFacts
<1>. QED
  BY <1>1, <1>2, <1>3

\* The sets that are counted are finite, and Listing is in two parts.
LEMMA Sizes ==
  /\ Cardinality(Callers) \in Nat /\ MaxProcessing \in Nat \ {0} /\ CounterMod \in Nat
  /\ MaxProcessing + Cardinality(Callers) <= CounterMod
  /\ IsFiniteSet(Counted) /\ IsFiniteSet(Early) /\ IsFiniteSet(Pending) /\ IsFiniteSet(Listing)
  /\ Cardinality(Counted) \in Nat /\ Cardinality(Early) \in Nat /\ Cardinality(Pending) \in Nat
  /\ Cardinality(Listing) = Cardinality(Early) + Cardinality(Pending)
  /\ \A at : IsFiniteSet(In(at)) /\ Cardinality(In(at)) \in Nat
<1>1. IsFiniteSet(Requests)
  BY SessionAssumption, FS_Interval DEF Requests
<1>2. /\ Counted \in SUBSET Requests /\ Early \in SUBSET Requests
      /\ Pending \in SUBSET Requests /\ Listing \in SUBSET Requests
  BY DEF Counted, Early, Pending, Listing
<1>3. /\ IsFiniteSet(Counted) /\ IsFiniteSet(Early) /\ IsFiniteSet(Pending) /\ IsFiniteSet(Listing)
  BY <1>1, <1>2, FS_Subset
<1>4. /\ Cardinality(Counted) \in Nat /\ Cardinality(Early) \in Nat /\ Cardinality(Pending) \in Nat
  BY <1>3, FS_CardinalityType
<1>5. Cardinality(Listing) = Cardinality(Early) + Cardinality(Pending)
  <2>1. Early \cup Pending = Listing /\ Early \cap Pending = {}
    BY DEF Early, Pending
  <2>2. Cardinality(Early \cup Pending) =
          Cardinality(Early) + Cardinality(Pending) - Cardinality(Early \cap Pending)
    BY <1>3, FS_Union
  <2>. QED
    BY <1>4, <2>1, <2>2, FS_EmptySet
<1>6. ASSUME NEW at PROVE IsFiniteSet(In(at)) /\ Cardinality(In(at)) \in Nat
  <2>1. In(at) \in SUBSET Callers
    BY DEF In
  <2>. QED
    BY <2>1, SessionAssumption, FS_Subset, FS_CardinalityType
<1>7. /\ Cardinality(Callers) \in Nat /\ MaxProcessing \in Nat \ {0} /\ CounterMod \in Nat
      /\ MaxProcessing + Cardinality(Callers) <= CounterMod
  BY SessionAssumption, FS_CardinalityType
<1>. QED
  BY <1>3, <1>4, <1>5, <1>6, <1>7

\* Each request on its way to Upload has a caller that is in Send with it.
LEMMA Listers ==
  ASSUME TypeOK, OwnerOK, NEW C \in SUBSET Callers, In("sending") \cap C = {}
  PROVE  Cardinality(Listing) + Cardinality(C) <= Cardinality(Callers)
<1>. DEFINE who == [r \in Listing |-> CHOOSE c \in Callers : sender[r] = {c}]
<1>1. ASSUME NEW r \in Listing PROVE who[r] \in In("sending") /\ sender[r] = {who[r]}
  <2>1. PICK c \in Callers : sender[r] = {c} /\ pc[c] = "sending"
    BY <1>1 DEF OwnerOK, Listing
  <2>2. who[r] \in Callers /\ sender[r] = {who[r]}
    BY <2>1
  <2>3. who[r] = c
    BY <2>1, <2>2
  <2>. QED
    BY <2>1, <2>2, <2>3 DEF In
<1>2. who \in Injection(Listing, In("sending"))
  <2>1. who \in [Listing -> In("sending")]
    BY <1>1
  <2>2. ASSUME NEW r \in Listing, NEW q \in Listing, who[r] = who[q] PROVE r = q
    BY <1>1, <2>2 DEF OwnerOK, Listing
  <2>3. DOMAIN who = Listing
    OBVIOUS
  <2>. HIDE DEF who
  <2>4. IsInjective(who)
    BY <2>2, <2>3 DEF IsInjective
  <2>. QED
    BY <2>1, <2>4 DEF Injection
<1>3. Cardinality(Listing) <= Cardinality(In("sending"))
  BY <1>2, Sizes, FS_Injection
<1>4. Cardinality(In("sending")) + Cardinality(C) <= Cardinality(Callers)
  <2>1. IsFiniteSet(C) /\ Cardinality(C) \in Nat
    BY SessionAssumption, FS_Subset, FS_CardinalityType
  <2>3. IsFiniteSet(In("sending")) /\ Cardinality(In("sending")) \in Nat
    BY Sizes
  <2>4. Cardinality(In("sending") \cup C) =
          Cardinality(In("sending")) + Cardinality(C) - Cardinality(In("sending") \cap C)
    BY <2>1, <2>3, FS_Union
  <2>2. Cardinality(In("sending") \cup C) = Cardinality(In("sending")) + Cardinality(C)
    <3>1. Cardinality(In("sending") \cap C) = 0
      BY FS_EmptySet, Zenon
    <3>. QED
      BY <2>1, <2>3, <2>4, <3>1
  <2>5. (In("sending") \cup C) \in SUBSET Callers
    BY DEF In
  <2>. QED
    BY <2>2, <2>5, SessionAssumption, FS_Subset
<1>5. Cardinality(C) \in Nat
  BY SessionAssumption, FS_Subset, FS_CardinalityType
<1>. QED
  BY <1>3, <1>4, <1>5, Sizes
-----------------------------------------------------------------------------
(* OwnerOK                                                                 *)

LEMMA OwnerFrame ==
  ASSUME OwnerOK, UNCHANGED <<sending, sender>>,
         \A c \in Callers : pc[c] = "sending" => pc'[c] = "sending"
  PROVE  OwnerOK'
  BY DEF OwnerOK

LEMMA OwnerSent ==
  ASSUME TypeOK, OwnerOK, NEW r \in Requests, sending[r] \in {"listed", "check"},
         sending' = [sending EXCEPT ![r] = "sent"], Sent(r)
  PROVE  OwnerOK'
<1>1. \A q \in Requests : q # r => sending'[q] = sending[q] /\ sender'[q] = sender[q]
  BY DEF Sent, TypeOK
<1>2. sending'[r] = "sent" /\ sender'[r] = {}
  BY DEF Sent, TypeOK
<1>3. ASSUME NEW q \in Requests, q # r, sending[q] \in {"listed", "check"}
      PROVE  \E c \in Callers : sender'[q] = {c} /\ pc'[c] = "sending"
  <2>1. PICK c \in Callers : sender[q] = {c} /\ pc[c] = "sending"
    BY <1>3 DEF OwnerOK
  <2>2. c \notin sender[r]
    BY <1>3, <2>1 DEF OwnerOK
  <2>3. pc'[c] = "sending"
    BY <2>1, <2>2 DEF Sent
  <2>. QED
    BY <1>1, <1>3, <2>1, <2>3
<1>4. \A q, t \in Requests : q # t => sender'[q] \cap sender'[t] = {}
  BY <1>1, <1>2 DEF OwnerOK
<1>5. \A q \in Requests : sending'[q] \in {"none", "sent"} => sender'[q] = {}
  BY <1>1, <1>2 DEF OwnerOK
<1>6. \A q \in Requests : sending'[q] \in {"listed", "check"} =>
        \E c \in Callers : sender'[q] = {c} /\ pc'[c] = "sending"
  BY <1>1, <1>2, <1>3
<1>. QED
  BY <1>4, <1>5, <1>6 DEF OwnerOK

LEMMA OwnerSend ==
  ASSUME TypeOK, OwnerOK, PlaceOK, NEW c \in Callers, NEW r \in Requests, Send(c, r)
  PROVE  OwnerOK'
<1>1. sending[r] = "none" /\ sender[r] = {}
  BY DEF Send, PlaceOK, OwnerOK, Requests
<1>2. \A q \in Requests : q # r => sending'[q] = sending[q] /\ sender'[q] = sender[q]
  BY DEF Send, TypeOK
<1>3. sending'[r] = "listed" /\ sender'[r] = {c} /\ pc'[c] = "sending"
  BY DEF Send, Goto, TypeOK
<1>4. \A d \in Callers : pc[d] = "sending" => pc'[d] = "sending" /\ d # c
  BY DEF Send, Goto, Calling, TypeOK
<1>5. \A q \in Requests : q # r => c \notin sender[q]
  <2>1. SUFFICES ASSUME NEW q \in Requests, q # r, c \in sender[q] PROVE FALSE
    OBVIOUS
  <2>2. sending[q] \in {"listed", "check"}
    BY <2>1 DEF OwnerOK, TypeOK, SendLabels
  <2>3. pc[c] = "sending"
    BY <2>1, <2>2 DEF OwnerOK
  <2>. QED
    BY <2>3, <1>4
<1>6. \A q, t \in Requests : q # t => sender'[q] \cap sender'[t] = {}
  BY <1>2, <1>3, <1>5 DEF OwnerOK
<1>7. ASSUME NEW q \in Requests
      PROVE  /\ sending'[q] \in {"listed", "check"} =>
                  \E d \in Callers : sender'[q] = {d} /\ pc'[d] = "sending"
             /\ sending'[q] \in {"none", "sent"} => sender'[q] = {}
  BY <1>2, <1>3, <1>4 DEF OwnerOK
<1>. QED
  BY <1>6, <1>7 DEF OwnerOK

LEMMA StepOwner == SessionInv /\ OwnerOK /\ PlaceOK /\ [Next]_vars => OwnerOK'
<1>. SUFFICES ASSUME SessionInv, OwnerOK, PlaceOK, [Next]_vars PROVE OwnerOK'
  OBVIOUS
<1>. USE DEF callerVars
<1>t. TypeOK
  BY DEF SessionInv
<1>0. ASSUME NEW c \in Callers, Request(c) \/ LockLimit(c) \/ Sleep(c) PROVE OwnerOK'
  <2>1. \A d \in Callers : pc[d] = "sending" => pc'[d] = "sending"
    BY <1>0, <1>t DEF Request, LockLimit, Sleep, Goto, Calling, TypeOK
  <2>. QED
    BY <1>0, <2>1, OwnerFrame DEF Request, LockLimit, Sleep
<1>1. ASSUME NEW c \in Callers, NEW r \in Requests, Send(c, r) PROVE OwnerOK'
  BY <1>1, <1>t, OwnerSend
<1>2. ASSUME NEW r \in Requests, Upload(r) PROVE OwnerOK'
  <2>1. CASE data_num[r] = 0
    <3>1. UNCHANGED <<pc, sender>> /\ sending[r] = "listed" /\ sending' = [sending EXCEPT ![r] = "check"]
      BY <1>2, <2>1 DEF Upload
    <3>. QED
      BY <1>t, <3>1 DEF OwnerOK, TypeOK
  <2>2. CASE data_num[r] # 0
    BY <1>2, <1>t, <2>2, OwnerSent DEF Upload
  <2>. QED
    BY <2>1, <2>2
<1>3. ASSUME NEW r \in Requests, CheckEmpty(r) PROVE OwnerOK'
  BY <1>3, <1>t, OwnerSent DEF CheckEmpty
<1>4. ASSUME NEW k \in Requests, ReleaseCount(k) PROVE OwnerOK'
  <2>1. \A d \in Callers : pc[d] = "sending" => pc'[d] = "sending"
    BY <1>4, <1>t DEF ReleaseCount, NotifyOne, Goto, In, TypeOK
  <2>. QED
    BY <1>4, <2>1, OwnerFrame DEF ReleaseCount
<1>5. CASE UNCHANGED <<sending, callerVars>>
  BY <1>5, OwnerFrame
<1>6. ASSUME NEW r \in Requests, WorkerStep(r) \/ Respond(r) \/ Delete(r) \/ NextRequest(r) \/ ClearInResponse(r)
      PROVE  UNCHANGED <<sending, callerVars>>
  BY <1>6 DEF WorkerStep, ProcessDone, DoneNotifier, Respond, Delete, NextRequest, ClearInResponse
<1>7. ASSUME NEW t \in Tags, WaitTaskDone(t) \/ DiscardTask(t) PROVE UNCHANGED <<sending, callerVars>>
  BY <1>7 DEF WaitTaskDone, DiscardTask
<1>8. CASE WaiterStep \/ Destroy \/ UNCHANGED vars
  BY <1>5, <1>8 DEF WaiterStep, FutureReady, SpinEnd, Destroy, vars
<1>. QED
  BY <1>0, <1>1, <1>2, <1>3, <1>4, <1>5, <1>6, <1>7, <1>8 DEF Next, CallerStep, SenderStep, TaskStep
-----------------------------------------------------------------------------
(* PlaceOK                                                                 *)

\* Whether Send was called with a request does not change.
SameSent == \A r \in Requests : sending'[r] = "none" <=> sending[r] = "none"

LEMMA PlaceFrame ==
  ASSUME PlaceOK, TypeOK, CurOK, SameSent, UNCHANGED <<next_id, request_list, cur, deleted>>,
         \A k \in Requests :
           /\ task'[k] # "none" => task[k] # "none"
           /\ task'[k] \in {"respond", "release", "delete"} => task[k] \in {"respond", "release", "delete"}
  PROVE  PlaceOK'
<1>1. \A r \in Requests : r >= next_id => sending'[r] = "none"
  BY DEF PlaceOK, SameSent
<1>2. ASSUME NEW i \in DOMAIN request_list
      PROVE  /\ sending'[request_list[i]] # "none" /\ request_list[i] \notin deleted
             /\ \A k \in Requests : task'[k] # "none" => cur[k] # request_list[i]
  <2>1. request_list[i] \in Requests
    BY DEF TypeOK
  <2>. QED
    BY <2>1 DEF PlaceOK, SameSent
<1>3. \A i, j \in DOMAIN request_list : i # j => request_list[i] # request_list[j]
  BY DEF PlaceOK
<1>4. ASSUME NEW k \in Requests
      PROVE  /\ task'[k] # "none" => sending'[cur[k]] # "none"
             /\ task'[k] \in {"respond", "release", "delete"} => cur[k] \notin deleted
  BY DEF PlaceOK, SameSent, CurOK
<1>5. \A r \in deleted : sending'[r] # "none"
  BY DEF PlaceOK, SameSent, TypeOK
<1>. QED
  BY <1>1, <1>2, <1>3, <1>4, <1>5 DEF PlaceOK

\* A task takes the front request over.
LEMMA PlaceTake ==
  ASSUME PlaceOK, TypeOK, CurOK, SameSent, UNCHANGED <<next_id, deleted>>, request_list # <<>>,
         NEW k \in Requests, request_list' = Tail(request_list),
         task' = [task EXCEPT ![k] = "respond"], cur' = [cur EXCEPT ![k] = Head(request_list)]
  PROVE  PlaceOK'
<1>. DEFINE front == Head(request_list)
<1>0. request_list \in Seq(Requests)
  BY DEF TypeOK
<1>1. front \in Requests /\ 1 \in DOMAIN request_list /\ front = request_list[1]
  BY <1>0, TailFacts
<1>2. \A i \in DOMAIN request_list' : /\ i + 1 \in DOMAIN request_list
                                      /\ i + 1 # 1 /\ request_list'[i] = request_list[i + 1]
  BY <1>0, TailFacts
<1>3. sending[front] # "none" /\ front \notin deleted
  BY <1>1 DEF PlaceOK
<1>4. \A j \in Requests : j # k => task'[j] = task[j] /\ cur'[j] = cur[j]
  BY DEF TypeOK
<1>5. task'[k] = "respond" /\ cur'[k] = front
  BY DEF TypeOK
<1>6. ASSUME NEW i \in DOMAIN request_list'
      PROVE  /\ sending'[request_list'[i]] # "none" /\ request_list'[i] \notin deleted
             /\ \A j \in Requests : task'[j] # "none" => cur'[j] # request_list'[i]
  <2>1. request_list[i + 1] \in Requests /\ sending[request_list[i + 1]] # "none"
    BY <1>0, <1>2 DEF PlaceOK
  <2>2. request_list[i + 1] # front /\ request_list[i + 1] \notin deleted
    BY <1>1, <1>2 DEF PlaceOK
  <2>3. \A j \in Requests : task[j] # "none" => cur[j] # request_list[i + 1]
    BY <1>2 DEF PlaceOK
  <2>4. request_list'[i] = request_list[i + 1]
    BY <1>2
  <2>5. ASSUME NEW j \in Requests, task'[j] # "none" PROVE cur'[j] # request_list[i + 1]
    BY <1>4, <1>5, <2>2, <2>3, <2>5
  <2>. HIDE DEF front
  <2>. QED
    BY <2>1, <2>2, <2>4, <2>5 DEF SameSent
<1>7. ASSUME NEW i \in DOMAIN request_list', NEW j \in DOMAIN request_list', i # j
      PROVE  request_list'[i] # request_list'[j]
  <2>1. i + 1 # j + 1
    BY <1>0, <1>7, TailFacts
  <2>. QED
    BY <1>2, <2>1 DEF PlaceOK
<1>8. ASSUME NEW j \in Requests
      PROVE  /\ task'[j] # "none" => sending'[cur'[j]] # "none"
             /\ task'[j] \in {"respond", "release", "delete"} => cur'[j] \notin deleted
  <2>1. CASE j = k
    BY <1>1, <1>3, <1>5, <2>1 DEF SameSent
  <2>2. CASE j # k
    BY <1>4, <2>2 DEF PlaceOK, SameSent, CurOK
  <2>. QED
    BY <2>1, <2>2
<1>9. /\ \A r \in Requests : r >= next_id => sending'[r] = "none"
      /\ \A r \in deleted : sending'[r] # "none"
  BY DEF PlaceOK, SameSent, TypeOK
<1>. QED
  BY <1>6, <1>7, <1>8, <1>9 DEF PlaceOK

LEMMA PlaceSend ==
  ASSUME PlaceOK, TypeOK, CurOK, NEW c \in Callers, NEW r \in Requests, Send(c, r)
  PROVE  PlaceOK'
<1>0. request_list \in Seq(Requests) /\ r = next_id /\ r \in Int
  BY DEF TypeOK, Send, Requests
<1>1. sending[r] = "none"
  BY <1>0 DEF PlaceOK
<1>2. sending'[r] = "listed" /\ \A q \in Requests : q # r => sending'[q] = sending[q]
  BY DEF Send, TypeOK
<1>3. r \notin deleted /\ \A k \in Requests : task[k] # "none" => cur[k] # r
  BY <1>1 DEF PlaceOK
<1>4. \A i \in DOMAIN request_list : request_list[i] # r /\ request_list[i] \in Requests
  BY <1>0, <1>1, AppendFacts DEF PlaceOK
<1>5. \A i \in DOMAIN request_list' :
        (i \in DOMAIN request_list /\ request_list'[i] = request_list[i])
          \/ (i = Len(request_list) + 1 /\ request_list'[i] = r)
  BY <1>0, AppendFacts DEF Send
<1>6. UNCHANGED <<task, cur, deleted>> /\ next_id' = r + 1
  BY DEF Send
<1>7. \A q \in Requests : q >= next_id' => sending'[q] = "none"
  <2>1. \A q \in Requests : q >= r + 1 => q >= next_id /\ q # r
    BY <1>0 DEF Requests
  <2>. QED
    BY <1>2, <1>6, <2>1 DEF PlaceOK
<1>8. ASSUME NEW i \in DOMAIN request_list'
      PROVE  /\ sending'[request_list'[i]] # "none" /\ request_list'[i] \notin deleted'
             /\ \A k \in Requests : task'[k] # "none" => cur'[k] # request_list'[i]
  <2>1. CASE i \in DOMAIN request_list /\ request_list'[i] = request_list[i]
    BY <1>2, <1>4, <1>6, <2>1 DEF PlaceOK
  <2>2. CASE request_list'[i] = r
    BY <1>2, <1>3, <1>6, <2>2
  <2>. QED
    BY <1>5, <2>1, <2>2
<1>9. \A i, j \in DOMAIN request_list' : i # j => request_list'[i] # request_list'[j]
  BY <1>4, <1>5 DEF PlaceOK
<1>10. ASSUME NEW k \in Requests
       PROVE  /\ task'[k] # "none" => sending'[cur'[k]] # "none"
              /\ task'[k] \in {"respond", "release", "delete"} => cur'[k] \notin deleted'
  BY <1>2, <1>3, <1>6 DEF PlaceOK, CurOK
<1>11. \A q \in deleted' : sending'[q] # "none"
  BY <1>2, <1>3, <1>6 DEF PlaceOK, TypeOK
<1>. QED
  BY <1>7, <1>8, <1>9, <1>10, <1>11 DEF PlaceOK

LEMMA PlaceDelete ==
  ASSUME PlaceOK, SessionInv, NEW k \in Requests, Delete(k)
  PROVE  PlaceOK'
<1>. USE DEF SessionInv
<1>1. /\ task[k] = "delete" /\ task'[k] = "next"
      /\ \A j \in Requests : j # k => task[j] = "none" /\ task'[j] = "none"
  BY DEF Delete, OneResponder, TypeOK
<1>2. UNCHANGED <<request_list, sending, cur, next_id>> /\ deleted' = deleted \cup {cur[k]}
  BY DEF Delete
<1>3. sending[cur[k]] # "none" /\ \A i \in DOMAIN request_list : cur[k] # request_list[i]
  BY <1>1 DEF PlaceOK
<1>4. ASSUME NEW j \in Requests
      PROVE  /\ task'[j] # "none" => sending[cur[j]] # "none"
             /\ task'[j] \notin {"respond", "release", "delete"}
             /\ \A i \in DOMAIN request_list : task'[j] # "none" => cur[j] # request_list[i]
  BY <1>1, <1>3
<1>5. \A i \in DOMAIN request_list : sending[request_list[i]] # "none" /\ request_list[i] \notin deleted'
  BY <1>2, <1>3 DEF PlaceOK
<1>6. /\ \A r \in Requests : r >= next_id => sending[r] = "none"
      /\ \A i, j \in DOMAIN request_list : i # j => request_list[i] # request_list[j]
      /\ \A r \in deleted' : sending[r] # "none"
  BY <1>2, <1>3 DEF PlaceOK
<1>. QED
  BY <1>2, <1>4, <1>5, <1>6 DEF PlaceOK

\* CheckAndResponse, whoever calls it.
LEMMA PlaceCheck ==
  ASSUME PlaceOK, SessionInv, SameSent, UNCHANGED <<next_id, deleted>>,
         NEW r \in Requests, CheckAndResponse(r)
  PROVE  PlaceOK'
<1>. USE DEF SessionInv
<1>1. CASE UNCHANGED <<request_list, task, cur>>
  BY <1>1, PlaceFrame
<1>2. CASE /\ request_list # <<>> /\ request_list' = Tail(request_list)
           /\ task' = [task EXCEPT ![Head(request_list)] = "respond"]
           /\ cur' = [cur EXCEPT ![Head(request_list)] = Head(request_list)]
  <2>1. Head(request_list) \in Requests
    BY <1>2, TailFacts DEF TypeOK
  <2>. QED
    BY <1>2, <2>1, PlaceTake
<1>. QED
  BY <1>1, <1>2 DEF CheckAndResponse

LEMMA StepPlace == SessionInv /\ PlaceOK /\ [Next]_vars => PlaceOK'
<1>. SUFFICES ASSUME SessionInv, PlaceOK, [Next]_vars PROVE PlaceOK'
  OBVIOUS
<1>. USE DEF callerVars
<1>t. TypeOK /\ CurOK
  BY DEF SessionInv
<1>1. CASE SameSent /\ UNCHANGED <<next_id, request_list, task, cur, deleted>>
  BY <1>t, <1>1, PlaceFrame
<1>2. ASSUME NEW c \in Callers, Request(c) \/ LockLimit(c) \/ Sleep(c) PROVE PlaceOK'
  BY <1>1, <1>2 DEF Request, LockLimit, Sleep, SameSent
<1>3. ASSUME NEW c \in Callers, NEW r \in Requests, Send(c, r) PROVE PlaceOK'
  BY <1>t, <1>3, PlaceSend
<1>4. ASSUME NEW r \in Requests, Upload(r) PROVE PlaceOK'
  <2>1. SameSent
    BY <1>4, <1>t DEF Upload, SameSent, TypeOK
  <2>. QED
    BY <1>1, <1>4, <2>1 DEF Upload
<1>5. ASSUME NEW r \in Requests, CheckEmpty(r) PROVE PlaceOK'
  <2>1. SameSent
    BY <1>5, <1>t DEF CheckEmpty, SameSent, TypeOK
  <2>. QED
    BY <1>5, <2>1, PlaceCheck DEF CheckEmpty
<1>6. ASSUME NEW r \in Requests, WorkerStep(r) PROVE PlaceOK'
  <2>1. CASE ProcessDone(r)
    BY <1>1, <2>1 DEF ProcessDone, SameSent
  <2>2. CASE DoneNotifier(r)
    BY <2>2, PlaceCheck DEF DoneNotifier, SameSent
  <2>. QED
    BY <1>6, <2>1, <2>2 DEF WorkerStep
<1>7. ASSUME NEW k \in Requests, Respond(k) \/ ReleaseCount(k) \/ ClearInResponse(k) PROVE PlaceOK'
  <2>1. UNCHANGED <<sending, next_id, request_list, cur, deleted>>
    BY <1>7 DEF Respond, ReleaseCount, ClearInResponse
  <2>2. \A j \in Requests :
          /\ task'[j] # "none" => task[j] # "none"
          /\ task'[j] \in {"respond", "release", "delete"} => task[j] \in {"respond", "release", "delete"}
    BY <1>7, <1>t DEF Respond, ReleaseCount, ClearInResponse, TypeOK
  <2>. QED
    BY <1>t, <2>1, <2>2, PlaceFrame DEF SameSent
<1>8. ASSUME NEW k \in Requests, Delete(k) PROVE PlaceOK'
  BY <1>8, PlaceDelete
<1>9. ASSUME NEW k \in Requests, NextRequest(k) PROVE PlaceOK'
  <2>0. SameSent /\ UNCHANGED <<next_id, deleted>>
    BY <1>9 DEF NextRequest, SameSent
  <2>1. CASE task' \in {[task EXCEPT ![k] = "none"], [task EXCEPT ![k] = "clear"]}
             /\ UNCHANGED <<request_list, cur>>
    <3>1. \A j \in Requests :
            /\ task'[j] # "none" => task[j] # "none"
            /\ task'[j] \in {"respond", "release", "delete"} => task[j] \in {"respond", "release", "delete"}
      BY <1>9, <1>t, <2>1 DEF NextRequest, TypeOK
    <3>. QED
      BY <1>t, <2>0, <2>1, <3>1, PlaceFrame
  <2>2. CASE /\ request_list # <<>> /\ request_list' = Tail(request_list)
             /\ cur' = [cur EXCEPT ![k] = Head(request_list)] /\ task' = [task EXCEPT ![k] = "respond"]
    BY <1>t, <2>0, <2>2, PlaceTake
  <2>. QED
    BY <1>9, <2>1, <2>2 DEF NextRequest
<1>10. ASSUME NEW t \in Tags, WaitTaskDone(t) \/ DiscardTask(t) PROVE PlaceOK'
  BY <1>1, <1>10 DEF WaitTaskDone, DiscardTask, SameSent
<1>11. CASE WaiterStep \/ Destroy \/ UNCHANGED vars
  BY <1>1, <1>11 DEF WaiterStep, FutureReady, SpinEnd, Destroy, vars, SameSent
<1>. QED
  BY <1>2, <1>3, <1>4, <1>5, <1>6, <1>7, <1>8, <1>9, <1>10, <1>11 DEF Next, CallerStep, SenderStep, TaskStep
-----------------------------------------------------------------------------
(* CountOK and SpaceOK                                                     *)

Room == CountOK /\ SpaceOK

\* Where the requests are, for the counter.
SameSets == Counted' = Counted /\ Early' = Early /\ Pending' = Pending

\* The two bounds that keep the arithmetic of the counter right.
LEMMA Bounds ==
  ASSUME TypeOK, OwnerOK, SpaceOK
  PROVE  /\ Cardinality(Early) + Cardinality(Pending) < CounterMod
         /\ Cardinality(Counted) + Cardinality(Pending) < CounterMod
<1>1. In("sending") \cap {} = {} /\ {} \in SUBSET Callers /\ Cardinality({}) = 0
  BY FS_EmptySet
<1>2. Cardinality(Listing) + 0 <= Cardinality(Callers)
  BY <1>1, Listers
<1>. QED
  BY <1>2, Sizes DEF SpaceOK

LEMMA RoomFrame ==
  ASSUME Room, SameSets, UNCHANGED reqs, In("send")' = In("send")
  PROVE  Room'
  BY DEF Room, CountOK, SpaceOK, SameSets, Wrapped

\* What leaves the three sets alone: Send does not move a request, and no task
\* passes ReleaseCount.
LEMMA SetsFrame ==
  ASSUME UNCHANGED deleted,
         \A r \in Requests :
           /\ sending'[r] = "listed" <=> sending[r] = "listed"
           /\ sending'[r] \in {"check", "sent"} <=> sending[r] \in {"check", "sent"},
         \A k \in Requests :
           /\ task'[k] = "delete" <=> task[k] = "delete"
           /\ task[k] = "delete" => cur'[k] = cur[k]
  PROVE  SameSets /\ Released' = Released
<1>1. Released' = Released
  BY DEF Released
<1>2. Listing' = Listing
  BY DEF Listing
<1>3. Counted' = Counted
  BY <1>1 DEF Counted
<1>. QED
  BY <1>1, <1>2, <1>3 DEF SameSets, Early, Pending

\* The predicate of WaitIfCacheFull leaves a place for the thread it lets through.
LEMMA RoomEnter ==
  ASSUME TypeOK, OwnerOK, Room, NEW c \in Callers, pc[c] \in {"idle", "lock"}, IdlePred,
         Goto(c, "send"), SameSets, UNCHANGED reqs
  PROVE  Room'
<1>1. In("send")' = In("send") \cup {c} /\ c \notin In("send")
  BY DEF In, Goto, TypeOK
<1>2. Cardinality(In("send")') = Cardinality(In("send")) + 1
  BY <1>1, Sizes, FS_AddElement
<1>3. In("send") \cup {c} \in SUBSET Callers /\ In("sending") \cap (In("send") \cup {c}) = {}
  BY DEF In
<1>4. Cardinality(Listing) + Cardinality(In("send") \cup {c}) <= Cardinality(Callers)
  BY <1>3, Listers
<1>5. Cardinality(Early) + Cardinality(Pending) + Cardinality(In("send")) + 1 <= Cardinality(Callers)
  BY <1>1, <1>2, <1>4, Sizes
<1>6. Cardinality(Counted) - Cardinality(Early) <= MaxProcessing - 1
  <2>1. reqs < MaxProcessing /\ reqs = Wrapped(Cardinality(Counted) - Cardinality(Early))
    BY DEF IdlePred, BelowLimit, Room, CountOK
  <2>. QED
    BY <2>1, Sizes DEF Wrapped
<1>7. SpaceOK'
  BY <1>2, <1>5, <1>6, Sizes DEF SpaceOK, SameSets
<1>8. CountOK'
  BY DEF Room, CountOK, SameSets, Wrapped
<1>. QED
  BY <1>7, <1>8 DEF Room

LEMMA RoomSend ==
  ASSUME TypeOK, CurOK, PlaceOK, Room, NEW c \in Callers, NEW r \in Requests, Send(c, r)
  PROVE  Room'
<1>1. sending[r] = "none" /\ sending'[r] = "listed"
  BY DEF Send, PlaceOK, TypeOK, Requests
<1>2. \A q \in Requests : q # r => sending'[q] = sending[q]
  BY DEF Send, TypeOK
<1>3. UNCHANGED <<deleted, task, cur, reqs>>
  BY DEF Send
<1>4. r \notin deleted /\ \A k \in Requests : task[k] # "none" => cur[k] # r
  BY <1>1 DEF PlaceOK
<1>5. Released' = Released /\ r \notin Released
  BY <1>3, <1>4 DEF Released
<1>6. Listing' = Listing \cup {r} /\ r \notin Listing
  BY <1>1, <1>2 DEF Listing
<1>7. Counted' = Counted
  BY <1>1, <1>2, <1>5 DEF Counted
<1>8. Early' = Early /\ Pending' = Pending \cup {r} /\ r \notin Pending
  BY <1>5, <1>6 DEF Early, Pending
<1>9. In("send")' = In("send") \ {c} /\ c \in In("send")
  BY DEF Send, In, Goto, Calling, TypeOK
<1>10. Cardinality(Pending') = Cardinality(Pending) + 1
  BY <1>8, Sizes, FS_AddElement
<1>11. Cardinality(In("send")') = Cardinality(In("send")) - 1
  BY <1>9, Sizes, FS_RemoveElement
<1>12. SpaceOK'
  BY <1>7, <1>10, <1>11, Sizes DEF Room, SpaceOK
<1>13. CountOK'
  BY <1>3, <1>7, <1>8 DEF Room, CountOK, Wrapped
<1>. QED
  BY <1>12, <1>13 DEF Room

\* Upload: the counter is raised for a request that was pending, or pays back for
\* one that was released too early.
LEMMA RoomUpload ==
  ASSUME TypeOK, OwnerOK, Room, NEW r \in Requests, Upload(r)
  PROVE  Room'
<1>. DEFINE n == Cardinality(Counted) - Cardinality(Early)
<1>1. sending[r] = "listed" /\ sending'[r] \in {"check", "sent"}
  BY DEF Upload, TypeOK
<1>2. \A q \in Requests : q # r => sending'[q] = sending[q]
  BY DEF Upload, TypeOK
<1>3. Released' = Released
  BY DEF Upload, Released
<1>4. Listing' = Listing \ {r} /\ r \in Listing
  BY <1>1, <1>2 DEF Listing
<1>5. In("send")' = In("send")
  <2>1. sender[r] \cap In("send") = {}
    BY <1>1 DEF OwnerOK, In
  <2>. QED
    BY <2>1 DEF Upload, Sent, In
<1>6. reqs' = (reqs + 1) % CounterMod /\ reqs = Wrapped(n)
  BY DEF Upload, Room, CountOK
<1>7. /\ Cardinality(Early) + Cardinality(Pending) < CounterMod
      /\ Cardinality(Counted) + Cardinality(Pending) < CounterMod
  BY Bounds DEF Room
<1>8. CASE r \in Released
  <2>1. Counted' = Counted /\ Pending' = Pending /\ Early' = Early \ {r} /\ r \in Early
    BY <1>1, <1>2, <1>3, <1>4, <1>8 DEF Counted, Early, Pending
  <2>2. Cardinality(Early') = Cardinality(Early) - 1
    BY <2>1, Sizes, FS_RemoveElement
  <2>3. Cardinality(Early) >= 1
    BY <2>1, Sizes, FS_EmptySet
  <2>4. n \in Int /\ -CounterMod <= n /\ n + 1 < CounterMod
    BY <1>7, <2>3, Sizes
  <2>5. reqs' = Wrapped(n + 1)
    BY <1>6, <2>4, CountUp
  <2>6. CountOK'
    <3>1. n + 1 = Cardinality(Counted') - Cardinality(Early')
      BY <2>1, <2>2, Sizes
    <3>. QED
      BY <2>5, <3>1 DEF CountOK, Wrapped
  <2>7. SpaceOK'
    BY <1>5, <2>1 DEF Room, SpaceOK
  <2>. QED
    BY <2>6, <2>7 DEF Room
<1>9. CASE r \notin Released
  <2>1. /\ Counted' = Counted \cup {r} /\ r \notin Counted
        /\ Pending' = Pending \ {r} /\ r \in Pending /\ Early' = Early
    BY <1>1, <1>2, <1>3, <1>4, <1>9 DEF Counted, Early, Pending
  <2>2. Cardinality(Counted') = Cardinality(Counted) + 1 /\ Cardinality(Pending') = Cardinality(Pending) - 1
    BY <2>1, Sizes, FS_AddElement, FS_RemoveElement
  <2>3. Cardinality(Pending) >= 1
    BY <2>1, Sizes, FS_EmptySet
  <2>4. n \in Int /\ -CounterMod <= n /\ n + 1 < CounterMod
    BY <1>7, <2>3, Sizes
  <2>5. reqs' = Wrapped(n + 1)
    BY <1>6, <2>4, CountUp
  <2>6. CountOK'
    <3>1. n + 1 = Cardinality(Counted') - Cardinality(Early')
      BY <2>1, <2>2, Sizes
    <3>. QED
      BY <2>5, <3>1 DEF CountOK, Wrapped
  <2>7. SpaceOK'
    BY <1>5, <2>2, Sizes DEF Room, SpaceOK
  <2>. QED
    BY <2>6, <2>7 DEF Room
<1>. QED
  BY <1>8, <1>9

LEMMA RoomRelease ==
  ASSUME SessionInv, OwnerOK, PlaceOK, Room, NEW k \in Requests, ReleaseCount(k)
  PROVE  Room'
<1>. DEFINE n == Cardinality(Counted) - Cardinality(Early)
            r == cur[k]
<1>. USE DEF SessionInv
<1>1. r \in Requests /\ r \notin deleted /\ sending[r] \in {"listed", "check", "sent"}
  BY DEF ReleaseCount, CurOK, PlaceOK, TypeOK, SendLabels
<1>2. \A j \in Requests : (task[j] = "delete" => FALSE) /\ (task'[j] = "delete" <=> j = k)
  BY DEF ReleaseCount, OneResponder, TypeOK
<1>3. UNCHANGED <<deleted, cur, sending>>
  BY DEF ReleaseCount
<1>4. Released = deleted /\ Released' = deleted \cup {r} /\ r \notin Released
  BY <1>1, <1>2, <1>3 DEF Released
<1>5. In("send")' = In("send")
  BY DEF ReleaseCount, NotifyOne, Goto, In, TypeOK
<1>6. reqs' = (reqs - 1) % CounterMod /\ reqs = Wrapped(n)
  BY DEF ReleaseCount, Room, CountOK
<1>7. /\ Cardinality(Early) + Cardinality(Pending) < CounterMod
      /\ Cardinality(Counted) + Cardinality(Pending) < CounterMod
  BY Bounds DEF Room
<1>. HIDE DEF r
<1>8. CASE sending[r] = "listed"
  <2>1. /\ Counted' = Counted /\ Pending' = Pending \ {r} /\ r \in Pending
        /\ Early' = Early \cup {r} /\ r \notin Early
    BY <1>1, <1>3, <1>4, <1>8 DEF Counted, Early, Pending, Listing
  <2>2. Cardinality(Early') = Cardinality(Early) + 1 /\ Cardinality(Pending') = Cardinality(Pending) - 1
    BY <2>1, Sizes, FS_AddElement, FS_RemoveElement
  <2>3. Cardinality(Pending) >= 1
    BY <2>1, Sizes, FS_EmptySet
  <2>4. n \in Int /\ -CounterMod <= n - 1 /\ n < CounterMod
    BY <1>7, <2>3, Sizes
  <2>5. reqs' = Wrapped(n - 1)
    BY <1>6, <2>4, CountDown
  <2>6. CountOK'
    <3>1. n - 1 = Cardinality(Counted') - Cardinality(Early')
      BY <2>1, <2>2, Sizes
    <3>. QED
      BY <2>5, <3>1 DEF CountOK, Wrapped
  <2>7. SpaceOK'
    BY <1>5, <2>1, <2>2, Sizes DEF Room, SpaceOK
  <2>. QED
    BY <2>6, <2>7 DEF Room
<1>9. CASE sending[r] # "listed"
  <2>1. /\ Counted' = Counted \ {r} /\ r \in Counted
        /\ Pending' = Pending /\ Early' = Early
    BY <1>1, <1>3, <1>4, <1>9 DEF Counted, Early, Pending, Listing
  <2>2. Cardinality(Counted') = Cardinality(Counted) - 1
    BY <2>1, Sizes, FS_RemoveElement
  <2>3. Cardinality(Counted) >= 1
    BY <2>1, Sizes, FS_EmptySet
  <2>4. n \in Int /\ -CounterMod <= n - 1 /\ n < CounterMod
    BY <1>7, <2>3, Sizes
  <2>5. reqs' = Wrapped(n - 1)
    BY <1>6, <2>4, CountDown
  <2>6. CountOK'
    <3>1. n - 1 = Cardinality(Counted') - Cardinality(Early')
      BY <2>1, <2>2, Sizes
    <3>. QED
      BY <2>5, <3>1 DEF CountOK, Wrapped
  <2>7. SpaceOK'
    BY <1>5, <2>1, <2>2, Sizes DEF Room, SpaceOK
  <2>. QED
    BY <2>6, <2>7 DEF Room
<1>. QED
  BY <1>8, <1>9

\* Destroying a request that was released changes nothing.
LEMMA RoomDelete ==
  ASSUME SessionInv, Room, NEW k \in Requests, Delete(k)
  PROVE  Room'
<1>. USE DEF SessionInv, callerVars
<1>1. \A j \in Requests : (task[j] = "delete" <=> j = k) /\ task'[j] # "delete"
  BY DEF Delete, OneResponder, TypeOK
<1>2. cur[k] \in Requests
  BY DEF Delete, CurOK
<1>3. Released' = Released
  BY <1>1, <1>2 DEF Delete, Released
<1>4. Listing' = Listing /\ Counted' = Counted
  BY <1>3 DEF Delete, Listing, Counted
<1>5. SameSets
  BY <1>3, <1>4 DEF SameSets, Early, Pending
<1>6. UNCHANGED reqs /\ In("send")' = In("send")
  BY DEF Delete, In
<1>. QED
  BY <1>5, <1>6, RoomFrame

\* CheckAndResponse gives a request to a task, which has not released it.
LEMMA SetsCheck ==
  ASSUME SessionInv, NEW r \in Requests, CheckAndResponse(r)
  PROVE  \A k \in Requests : /\ task'[k] = "delete" <=> task[k] = "delete"
                             /\ task[k] = "delete" => cur'[k] = cur[k]
<1>. USE DEF SessionInv
<1>1. CASE UNCHANGED <<task, cur>>
  BY <1>1
<1>2. CASE /\ request_list # <<>> /\ ~in_response
           /\ task' = [task EXCEPT ![Head(request_list)] = "respond"]
           /\ cur' = [cur EXCEPT ![Head(request_list)] = Head(request_list)]
  <2>1. \A k \in Requests : task[k] = "none"
    BY <1>2 DEF OneResponder
  <2>. QED
    BY <1>2, <2>1 DEF TypeOK
<1>. QED
  BY <1>1, <1>2 DEF CheckAndResponse

LEMMA StepRoom == SessionInv /\ OwnerOK /\ PlaceOK /\ Room /\ [Next]_vars => Room'
<1>. SUFFICES ASSUME SessionInv, OwnerOK, PlaceOK, Room, [Next]_vars PROVE Room'
  OBVIOUS
<1>. USE DEF callerVars
<1>t. TypeOK /\ CurOK
  BY DEF SessionInv
<1>1. CASE UNCHANGED <<sending, task, cur, deleted, reqs>> /\ In("send")' = In("send")
  BY <1>1, SetsFrame, RoomFrame
<1>2. ASSUME NEW c \in Callers, Request(c) \/ LockLimit(c) \/ Sleep(c) PROVE Room'
  <2>1. UNCHANGED <<sending, task, cur, deleted, reqs>>
    BY <1>2 DEF Request, LockLimit, Sleep
  <2>2. \/ pc[c] \in {"idle", "lock"} /\ IdlePred /\ Goto(c, "send")
        \/ pc[c] # "send" /\ \E at \in {"lock", "doze", "asleep"} : Goto(c, at)
    BY <1>2 DEF Request, LockLimit, Sleep, Calling
  <2>3. CASE pc[c] \in {"idle", "lock"} /\ IdlePred /\ Goto(c, "send")
    BY <1>t, <2>1, <2>3, SetsFrame, RoomEnter
  <2>4. CASE pc[c] # "send" /\ \E at \in {"lock", "doze", "asleep"} : Goto(c, at)
    <3>1. In("send")' = In("send")
      BY <1>t, <2>4 DEF In, Goto, TypeOK
    <3>. QED
      BY <1>1, <2>1, <3>1
  <2>. QED
    BY <2>2, <2>3, <2>4
<1>3. ASSUME NEW c \in Callers, NEW r \in Requests, Send(c, r) PROVE Room'
  BY <1>t, <1>3, RoomSend
<1>4. ASSUME NEW r \in Requests, Upload(r) PROVE Room'
  BY <1>t, <1>4, RoomUpload
<1>5. ASSUME NEW r \in Requests, CheckEmpty(r) PROVE Room'
  <2>1. \A q \in Requests : /\ sending'[q] = "listed" <=> sending[q] = "listed"
                            /\ sending'[q] \in {"check", "sent"} <=> sending[q] \in {"check", "sent"}
    BY <1>5, <1>t DEF CheckEmpty, TypeOK
  <2>2. UNCHANGED <<deleted, reqs>> /\ CheckAndResponse(r)
    BY <1>5 DEF CheckEmpty
  <2>3. In("send")' = In("send")
    <3>1. sender[r] \cap In("send") = {}
      BY <1>5 DEF CheckEmpty, OwnerOK, In
    <3>. QED
      BY <1>5, <3>1 DEF CheckEmpty, Sent, In
  <2>4. SameSets
    BY <2>1, <2>2, SetsCheck, SetsFrame
  <2>. QED
    BY <2>2, <2>3, <2>4, RoomFrame
<1>6. ASSUME NEW r \in Requests, WorkerStep(r) PROVE Room'
  <2>1. CASE ProcessDone(r)
    BY <1>1, <2>1 DEF ProcessDone, In
  <2>2. CASE DoneNotifier(r)
    <3>1. UNCHANGED <<deleted, reqs, sending, pc>> /\ CheckAndResponse(r)
      BY <2>2 DEF DoneNotifier
    <3>2. SameSets
      BY <3>1, SetsCheck, SetsFrame
    <3>. QED
      BY <3>1, <3>2, RoomFrame DEF In
  <2>. QED
    BY <1>6, <2>1, <2>2 DEF WorkerStep
<1>7. ASSUME NEW k \in Requests, ReleaseCount(k) PROVE Room'
  BY <1>7, RoomRelease
<1>8. ASSUME NEW k \in Requests, Delete(k) PROVE Room'
  BY <1>8, RoomDelete
<1>9. ASSUME NEW k \in Requests, Respond(k) \/ NextRequest(k) \/ ClearInResponse(k) PROVE Room'
  <2>1. UNCHANGED <<sending, deleted, reqs, pc>>
    BY <1>9 DEF Respond, NextRequest, ClearInResponse
  <2>2. /\ task[k] # "delete" /\ task'[k] # "delete"
        /\ \A j \in Requests : j # k => task'[j] = task[j] /\ cur'[j] = cur[j]
    BY <1>9, <1>t DEF Respond, NextRequest, ClearInResponse, TypeOK
  <2>3. \A j \in Requests : /\ task'[j] = "delete" <=> task[j] = "delete"
                            /\ task[j] = "delete" => cur'[j] = cur[j]
    BY <2>2
  <2>4. SameSets
    BY <2>1, <2>3, SetsFrame
  <2>. QED
    BY <2>1, <2>4, RoomFrame DEF In
<1>10. ASSUME NEW t \in Tags, WaitTaskDone(t) \/ DiscardTask(t) PROVE Room'
  BY <1>1, <1>10 DEF WaitTaskDone, DiscardTask, In
<1>11. CASE WaiterStep \/ Destroy \/ UNCHANGED vars
  BY <1>1, <1>11 DEF WaiterStep, FutureReady, SpinEnd, Destroy, vars, In
<1>. QED
  BY <1>2, <1>3, <1>4, <1>5, <1>6, <1>7, <1>8, <1>9, <1>10, <1>11 DEF Next, CallerStep, SenderStep, TaskStep

LEMMA InitLimit == Init => OwnerOK /\ PlaceOK /\ Room
<1>. SUFFICES ASSUME Init PROVE OwnerOK /\ PlaceOK /\ Room
  OBVIOUS
<1>1. OwnerOK /\ PlaceOK
  BY DEF Init, OwnerOK, PlaceOK
<1>2. Counted = {} /\ Early = {} /\ Pending = {} /\ In("send") = {} /\ reqs = 0
  BY DEF Init, Counted, Early, Pending, Listing, In
<1>3. CountOK /\ SpaceOK
  BY <1>2, Sizes, FS_EmptySet DEF CountOK, SpaceOK, Wrapped
<1>. QED
  BY <1>1, <1>3 DEF Room

\* The limit of WaitIfCacheFull, which is tested before Upload counts and without
\* a common lock: however many threads call Request, no more than
\* max_processing_num_ - 1 requests and one more per calling thread are counted
\* by Upload and not yet by ReleaseCount.
THEOREM NeverBeyondLimit == Spec => []WithinLimit
<1>1. Init => LimitInv
  BY InitSession, InitLimit DEF LimitInv, Room
<1>2. LimitInv /\ [Next]_vars => LimitInv'
  BY StepSession, StepOwner, StepPlace, StepRoom DEF LimitInv, Room
<1>3. LimitInv => WithinLimit
  BY Sizes DEF LimitInv, SpaceOK, WithinLimit
<1>. QED
  BY <1>1, <1>2, <1>3, PTL DEF Spec
-----------------------------------------------------------------------------
(***************************************************************************)
(* WaitTaskDone and the destructor.  Requests leave request_list_ in the   *)
(* order they were sent, so whoever has seen the last one leave has waited *)
(* for all before it.  What an ended session has left behind follows from  *)
(* in_response_ being FALSE only when no task has a request, and from the  *)
(* buffered units being those of the packages of the listed requests.      *)
(***************************************************************************)

\* The task has a request that is not destroyed yet.
Working(k) == task[k] \in {"respond", "release", "delete"}

\* A request that was sent is listed, in a task's hands, or destroyed; what has
\* left the list was sent before all that is still in it.
HeldOK ==
  /\ \A r \in 1 .. next_id - 1 :
       r \in Listed \cup deleted \/ \E k \in Requests : Working(k) /\ cur[k] = r
  /\ \A i \in DOMAIN request_list :
       /\ request_list[i] < next_id
       /\ \A j \in DOMAIN request_list : i < j => request_list[i] < request_list[j]
       /\ \A r \in deleted : r < request_list[i]
       /\ \A k \in Requests : Working(k) => cur[k] < request_list[i]

\* What WaitTaskDone still has to wait for is listed before the request whose
\* future it holds, and no longer listed once it looks at in_response_.
WaitOK ==
  /\ waiter.pc # "idle" => \A r \in waiter.before : r < next_id
  /\ waiter.pc = "wait" => \A r \in waiter.before \cap Listed : r <= waiter.last
  /\ waiter.pc = "spin" => waiter.before \cap Listed = {}

GoneOK == life = "gone" => request_list = <<>> /\ \A k \in Requests : task[k] = "none"

\* What a request has in processing_unit_: its size from Upload to ReleaseCount,
\* and less than nothing when it is released before its Upload.
Weight(r) == (IF sending[r] \in {"check", "sent"} THEN data_num[r] ELSE 0)
             - (IF r \in Released THEN data_num[r] ELSE 0)

\* P[r] is the sum of the weights of 1 .. r.
Sums(P) ==
  /\ P \in [0 .. MaxRequest -> Int] /\ P[0] = 0
  /\ \A r \in Requests : P[r] = P[r - 1] + Weight(r)

\* processing_unit_ is the sum of all weights, in the arithmetic of an unsigned counter.
UnitsOK == \E P : Sums(P) /\ \E q \in Int : P[MaxRequest] = units + q * CounterMod
-----------------------------------------------------------------------------
LEMMA FrontFacts ==
  ASSUME NEW S, NEW q \in Seq(S), q # <<>>
  PROVE  \A i \in DOMAIN q : i = 1 \/ (i - 1 \in DOMAIN Tail(q) /\ Tail(q)[i - 1] = q[i])
  OBVIOUS

LEMMA HeldFrame ==
  ASSUME HeldOK, UNCHANGED <<request_list, next_id, deleted>>,
         \A k \in Requests : Working(k)' = Working(k) /\ (Working(k) => cur'[k] = cur[k])
  PROVE  HeldOK'
<1>1. Listed' = Listed
  BY DEF Listed
<1>. QED
  BY <1>1 DEF HeldOK

\* A task takes the front request over.
LEMMA HeldTake ==
  ASSUME TypeOK, HeldOK, UNCHANGED <<next_id, deleted>>, request_list # <<>>,
         NEW k \in Requests, request_list' = Tail(request_list),
         task' = [task EXCEPT ![k] = "respond"], cur' = [cur EXCEPT ![k] = Head(request_list)],
         \A j \in Requests : ~Working(j)
  PROVE  HeldOK'
<1>. DEFINE front == Head(request_list)
<1>1. request_list \in Seq(Requests) /\ front \in Requests
  BY TailFacts DEF TypeOK
<1>2. 1 \in DOMAIN request_list /\ front = request_list[1]
  BY <1>1, TailFacts
<1>3. \A i \in DOMAIN request_list' : i + 1 \in DOMAIN request_list /\ request_list'[i] = request_list[i + 1]
  BY <1>1, TailFacts
<1>4. \A i \in DOMAIN request_list : i = 1 \/ (i - 1 \in DOMAIN request_list' /\ request_list'[i - 1] = request_list[i])
  BY <1>1, FrontFacts
<1>5. \A i, j \in DOMAIN request_list' : 1 < i + 1 /\ (i < j => i + 1 < j + 1)
  BY <1>1
<1>6. \A j \in Requests : /\ Working(j)' <=> j = k
                          /\ Working(j)' => cur'[j] = front
  <2>1. \A j \in Requests : task'[j] = IF j = k THEN "respond" ELSE task[j]
    BY DEF TypeOK
  <2>2. cur'[k] = front
    BY DEF TypeOK
  <2>3. ASSUME NEW j \in Requests PROVE Working(j)' <=> j = k
    <3>1. ~Working(j)
      OBVIOUS
    <3>. QED
      BY <2>1, <3>1 DEF Working
  <2>. QED
    BY <2>2, <2>3
<1>. HIDE DEF front
<1>7. \A r \in Listed : r \in Listed' \/ r = front
  <2>1. SUFFICES ASSUME NEW i \in DOMAIN request_list
                 PROVE  request_list[i] \in Listed' \/ request_list[i] = front
    BY DEF Listed
  <2>2. CASE i - 1 \in DOMAIN request_list' /\ request_list'[i - 1] = request_list[i]
    BY <2>2 DEF Listed
  <2>. QED
    BY <1>2, <1>4, <2>2
<1>8. ASSUME NEW r \in 1 .. next_id' - 1
      PROVE  r \in Listed' \cup deleted' \/ \E j \in Requests : Working(j)' /\ cur'[j] = r
  <2>1. r \in Listed \cup deleted
    BY <1>8 DEF HeldOK
  <2>. QED
    BY <2>1, <1>6, <1>7
<1>9. ASSUME NEW i \in DOMAIN request_list'
      PROVE  /\ request_list'[i] < next_id'
             /\ \A j \in DOMAIN request_list' : i < j => request_list'[i] < request_list'[j]
             /\ \A r \in deleted' : r < request_list'[i]
             /\ \A j \in Requests : Working(j)' => cur'[j] < request_list'[i]
  BY <1>2, <1>3, <1>5, <1>6 DEF HeldOK
<1>. QED
  BY <1>8, <1>9 DEF HeldOK

LEMMA HeldSend ==
  ASSUME SessionInv, HeldOK, PlaceOK, NEW c \in Callers, NEW r \in Requests, Send(c, r)
  PROVE  HeldOK'
<1>1. /\ next_id = r /\ next_id' = r + 1 /\ request_list' = Append(request_list, r)
      /\ UNCHANGED <<task, cur, deleted>> /\ r \in Nat
  BY DEF Send, Requests
<1>2. request_list \in Seq(Requests) /\ TypeOK
  BY DEF SessionInv, TypeOK
<1>3. \A i \in DOMAIN request_list' :
        (i \in DOMAIN request_list /\ request_list'[i] = request_list[i]) \/ (i = Len(request_list) + 1 /\ request_list'[i] = r)
  BY <1>1, <1>2, AppendFacts
<1>4. /\ \A i \in DOMAIN request_list : i \in DOMAIN request_list' /\ request_list'[i] = request_list[i]
      /\ Len(request_list) + 1 \in DOMAIN request_list' /\ request_list'[Len(request_list) + 1] = r
      /\ \A i \in DOMAIN request_list : i < Len(request_list) + 1 /\ i \in Nat
  BY <1>1, <1>2
<1>5. Listed \cup {r} \subseteq Listed'
  BY <1>4 DEF Listed
<1>6. \A q \in 1 .. next_id' - 1 : q \in 1 .. next_id - 1 \/ q = r
  BY <1>1
<1>0. \A q \in Requests : q \in Int /\ (sending[q] # "none" => q < r)
  BY <1>1 DEF PlaceOK, Requests
<1>7. \A q \in deleted : q < r
  BY <1>0, <1>2 DEF PlaceOK, TypeOK
<1>8. ASSUME NEW k \in Requests, Working(k) PROVE cur[k] < r
  <2>1. cur[k] \in Requests /\ sending[cur[k]] # "none"
    BY <1>8 DEF PlaceOK, Working, SessionInv, CurOK
  <2>. QED
    BY <1>0, <2>1
<1>9. ASSUME NEW i \in DOMAIN request_list PROVE request_list[i] < r + 1
  <2>1. request_list[i] \in Nat
    <3>1. request_list[i] \in Requests
      BY <1>2
    <3>. QED
      BY <3>1 DEF Requests
  <2>2. request_list[i] < r
    BY <1>1 DEF HeldOK
  <2>. QED
    BY <1>1, <2>1, <2>2
<1>10. \A k \in Requests : Working(k)' = Working(k) /\ cur'[k] = cur[k]
  BY <1>1 DEF Working
<1>11. ASSUME NEW q \in 1 .. next_id' - 1
       PROVE  q \in Listed' \cup deleted' \/ \E j \in Requests : Working(j)' /\ cur'[j] = q
  BY <1>1, <1>5, <1>6, <1>10 DEF HeldOK
<1>12. ASSUME NEW i \in DOMAIN request_list'
       PROVE  /\ request_list'[i] < next_id'
              /\ \A j \in DOMAIN request_list' : i < j => request_list'[i] < request_list'[j]
              /\ \A q \in deleted' : q < request_list'[i]
              /\ \A j \in Requests : Working(j)' => cur'[j] < request_list'[i]
  <2>1. CASE i \in DOMAIN request_list
    <3>1. request_list'[i] = request_list[i] /\ request_list[i] < next_id'
      BY <1>1, <1>4, <1>9, <2>1
    <3>2. \A j \in DOMAIN request_list' : i < j => request_list'[i] < request_list'[j]
      BY <1>1, <1>3, <1>4, <2>1 DEF HeldOK
    <3>. QED
      BY <1>1, <1>10, <2>1, <3>1, <3>2 DEF HeldOK
  <2>2. CASE i = Len(request_list) + 1 /\ request_list'[i] = r
    <3>1. \A j \in DOMAIN request_list' : ~(i < j)
      BY <1>1, <1>2, <2>2
    <3>. QED
      BY <1>1, <1>7, <1>8, <1>10, <2>2, <3>1
  <2>. QED
    BY <1>3, <2>1, <2>2
<1>. QED
  BY <1>11, <1>12 DEF HeldOK

LEMMA HeldDelete ==
  ASSUME SessionInv, HeldOK, NEW k \in Requests, Delete(k)
  PROVE  HeldOK'
<1>. USE DEF SessionInv
<1>1. /\ deleted' = deleted \cup {cur[k]} /\ UNCHANGED <<request_list, next_id, cur>>
      /\ Working(k)
  BY DEF Delete, Working
<1>2. \A j \in Requests : Working(j) => j = k
  BY <1>1 DEF OneResponder, Working
<1>3. \A j \in Requests : ~Working(j)'
  BY <1>2 DEF Delete, Working, TypeOK
<1>4. Listed' = Listed
  BY <1>1 DEF Listed
<1>. QED
  BY <1>1, <1>2, <1>3, <1>4 DEF HeldOK

LEMMA HeldCheck ==
  ASSUME SessionInv, HeldOK, NEW r \in Requests, CheckAndResponse(r), UNCHANGED <<next_id, deleted>>
  PROVE  HeldOK'
<1>. USE DEF SessionInv
<1>1. CASE UNCHANGED <<request_list, task, cur>>
  BY <1>1, HeldFrame DEF Working
<1>2. CASE /\ request_list # <<>> /\ ~in_response
           /\ request_list' = Tail(request_list)
           /\ task' = [task EXCEPT ![Head(request_list)] = "respond"]
           /\ cur' = [cur EXCEPT ![Head(request_list)] = Head(request_list)]
  <2>1. Head(request_list) \in Requests
    BY <1>2, TailFacts DEF TypeOK
  <2>2. \A j \in Requests : ~Working(j)
    BY <1>2 DEF OneResponder, Working
  <2>. QED
    BY <1>2, <2>1, <2>2, HeldTake
<1>. QED
  BY <1>1, <1>2 DEF CheckAndResponse

LEMMA StepHeld == SessionInv /\ PlaceOK /\ HeldOK /\ [Next]_vars => HeldOK'
<1>. SUFFICES ASSUME SessionInv, PlaceOK, HeldOK, [Next]_vars PROVE HeldOK'
  OBVIOUS
<1>t. TypeOK
  BY DEF SessionInv
<1>1. CASE UNCHANGED <<request_list, next_id, deleted, task, cur>>
  BY <1>1, HeldFrame DEF Working
<1>2. ASSUME NEW c \in Callers, Request(c) \/ LockLimit(c) \/ Sleep(c) PROVE HeldOK'
  BY <1>1, <1>2 DEF Request, LockLimit, Sleep
<1>3. ASSUME NEW c \in Callers, NEW r \in Requests, Send(c, r) PROVE HeldOK'
  BY <1>3, HeldSend
<1>4. ASSUME NEW r \in Requests, Upload(r) \/ ProcessDone(r) PROVE HeldOK'
  BY <1>1, <1>4 DEF Upload, ProcessDone
<1>5. ASSUME NEW r \in Requests, CheckEmpty(r) \/ DoneNotifier(r) PROVE HeldOK'
  BY <1>5, HeldCheck DEF CheckEmpty, DoneNotifier
<1>6. ASSUME NEW k \in Requests, Respond(k) \/ ReleaseCount(k) \/ ClearInResponse(k) PROVE HeldOK'
  <2>1. UNCHANGED <<request_list, next_id, deleted, cur>>
    BY <1>6 DEF Respond, ReleaseCount, ClearInResponse
  <2>2. \A j \in Requests : Working(j)' = Working(j)
    BY <1>6, <1>t DEF Respond, ReleaseCount, ClearInResponse, Working, TypeOK
  <2>. QED
    BY <2>1, <2>2, HeldFrame
<1>7. ASSUME NEW k \in Requests, Delete(k) PROVE HeldOK'
  BY <1>7, HeldDelete
<1>8. ASSUME NEW k \in Requests, NextRequest(k) PROVE HeldOK'
  <2>0. task[k] = "next" /\ UNCHANGED <<next_id, deleted>>
    BY <1>8 DEF NextRequest
  <2>1. CASE task' \in {[task EXCEPT ![k] = "none"], [task EXCEPT ![k] = "clear"]}
             /\ UNCHANGED <<request_list, cur>>
    <3>1. \A j \in Requests : Working(j)' = Working(j)
      BY <1>t, <2>0, <2>1 DEF Working, TypeOK
    <3>. QED
      BY <2>0, <2>1, <3>1, HeldFrame
  <2>2. CASE /\ request_list # <<>> /\ request_list' = Tail(request_list)
             /\ cur' = [cur EXCEPT ![k] = Head(request_list)] /\ task' = [task EXCEPT ![k] = "respond"]
    <3>1. \A j \in Requests : ~Working(j)
      BY <2>0 DEF SessionInv, OneResponder, Working
    <3>. QED
      BY <1>t, <2>0, <2>2, <3>1, HeldTake
  <2>. QED
    BY <1>8, <2>1, <2>2 DEF NextRequest
<1>9. ASSUME NEW t \in Tags, WaitTaskDone(t) \/ DiscardTask(t) PROVE HeldOK'
  BY <1>1, <1>9 DEF WaitTaskDone, DiscardTask
<1>10. CASE WaiterStep \/ Destroy \/ UNCHANGED vars
  BY <1>1, <1>10 DEF WaiterStep, FutureReady, SpinEnd, Destroy, vars
<1>. QED
  BY <1>2, <1>3, <1>4, <1>5, <1>6, <1>7, <1>8, <1>9, <1>10
     DEF Next, CallerStep, SenderStep, WorkerStep, TaskStep

-----------------------------------------------------------------------------
(* WaitOK and GoneOK                                                       *)

\* Only Send adds to the list, and what it adds is new.
LEMMA ListGrows ==
  ASSUME TypeOK, [Next]_vars
  PROVE  next_id' >= next_id /\ Listed' \subseteq Listed \cup {next_id}
<1>0. request_list \in Seq(Requests) /\ next_id \in Int
  BY DEF TypeOK
<1>1. CASE UNCHANGED <<request_list, next_id>>
  BY <1>0, <1>1 DEF Listed
<1>2. CASE request_list # <<>> /\ request_list' = Tail(request_list) /\ UNCHANGED next_id
  <2>1. \A i \in DOMAIN request_list' : i + 1 \in DOMAIN request_list /\ request_list'[i] = request_list[i + 1]
    BY <1>0, <1>2, TailFacts
  <2>. QED
    BY <1>0, <1>2, <2>1 DEF Listed
<1>3. ASSUME NEW c \in Callers, NEW r \in Requests, Send(c, r)
      PROVE  next_id' >= next_id /\ Listed' \subseteq Listed \cup {next_id}
  <2>1. next_id = r /\ next_id' = r + 1 /\ request_list' = Append(request_list, r)
    BY <1>3 DEF Send
  <2>2. \A i \in DOMAIN request_list' :
          (i \in DOMAIN request_list /\ request_list'[i] = request_list[i]) \/ request_list'[i] = r
    BY <1>0, <2>1, AppendFacts
  <2>3. \A e \in Listed' : e \in Listed \/ e = next_id
    BY <2>1, <2>2 DEF Listed
  <2>. QED
    BY <1>0, <2>1, <2>3
<1>4. ASSUME NEW r \in Requests, CheckAndResponse(r), UNCHANGED next_id
      PROVE  next_id' >= next_id /\ Listed' \subseteq Listed \cup {next_id}
  BY <1>1, <1>2, <1>4 DEF CheckAndResponse
<1>5. ASSUME NEW c \in Callers, Request(c) \/ LockLimit(c) \/ Sleep(c)
      PROVE  UNCHANGED <<request_list, next_id>>
  BY <1>5 DEF Request, LockLimit, Sleep
<1>6. ASSUME NEW r \in Requests, Upload(r) \/ ProcessDone(r) PROVE UNCHANGED <<request_list, next_id>>
  BY <1>6 DEF Upload, ProcessDone
<1>7. ASSUME NEW r \in Requests, CheckEmpty(r) \/ DoneNotifier(r)
      PROVE  CheckAndResponse(r) /\ UNCHANGED next_id
  BY <1>7 DEF CheckEmpty, DoneNotifier
<1>8. ASSUME NEW k \in Requests, Respond(k) \/ ReleaseCount(k) \/ Delete(k) \/ ClearInResponse(k)
      PROVE  UNCHANGED <<request_list, next_id>>
  BY <1>8 DEF Respond, ReleaseCount, Delete, ClearInResponse
<1>9. ASSUME NEW k \in Requests, NextRequest(k)
      PROVE  /\ UNCHANGED next_id
             /\ UNCHANGED request_list \/ (request_list # <<>> /\ request_list' = Tail(request_list))
  BY <1>9 DEF NextRequest
<1>10. ASSUME NEW t \in Tags, WaitTaskDone(t) \/ DiscardTask(t) PROVE UNCHANGED <<request_list, next_id>>
  BY <1>10 DEF WaitTaskDone, DiscardTask
<1>11. CASE WaiterStep \/ Destroy \/ UNCHANGED vars
  BY <1>1, <1>11 DEF WaiterStep, FutureReady, SpinEnd, Destroy, vars
<1>. QED
  BY <1>1, <1>2, <1>3, <1>4, <1>5, <1>6, <1>7, <1>8, <1>9, <1>10, <1>11
     DEF Next, CallerStep, SenderStep, WorkerStep, TaskStep

\* Only the thread in WaitTaskDone changes what it waits for.
LEMMA WaiterAlone ==
  ASSUME [Next]_vars
  PROVE  UNCHANGED waiter \/ FutureReady \/ SpinEnd \/ \E t \in Tags : WaitTaskDone(t)
<1>1. ASSUME NEW c \in Callers, Request(c) \/ CallerStep(c) PROVE UNCHANGED waiter
  BY <1>1 DEF CallerStep, Request, LockLimit, Sleep, Send
<1>2. ASSUME NEW r \in Requests, SenderStep(r) \/ WorkerStep(r) PROVE UNCHANGED waiter
  BY <1>2 DEF SenderStep, WorkerStep, Upload, CheckEmpty, ProcessDone, DoneNotifier
<1>3. ASSUME NEW k \in Requests, TaskStep(k) PROVE UNCHANGED waiter
  BY <1>3 DEF TaskStep, Respond, ReleaseCount, Delete, NextRequest, ClearInResponse
<1>4. ASSUME NEW t \in Tags, DiscardTask(t) PROVE UNCHANGED waiter
  BY <1>4 DEF DiscardTask
<1>. QED
  BY <1>1, <1>2, <1>3, <1>4 DEF Next, WaiterStep, Destroy, vars

LEMMA StepWait == TypeOK /\ HeldOK /\ WaitOK /\ [Next]_vars => WaitOK'
<1>. SUFFICES ASSUME TypeOK, HeldOK, WaitOK, [Next]_vars PROVE WaitOK'
  OBVIOUS
<1>0. /\ waiter \in [pc : {"idle", "wait", "spin"}, last : Requests \cup {None}, before : SUBSET Requests]
      /\ next_id \in Int /\ next_id' \in Int /\ Requests \subseteq Int
      /\ request_list \in Seq(Requests)
  <2>1. next_id' = next_id \/ next_id' = next_id + 1
    BY DEF Next, vars, CallerStep, SenderStep, WorkerStep, TaskStep, WaiterStep, Request, LockLimit, Sleep,
           Send, Upload, CheckEmpty, ProcessDone, DoneNotifier, Respond, ReleaseCount, Delete, NextRequest,
           ClearInResponse, WaitTaskDone, DiscardTask, FutureReady, SpinEnd, Destroy
  <2>. QED
    BY <2>1 DEF TypeOK, Requests
<1>1. CASE UNCHANGED waiter
  <2>1. ASSUME NEW r \in waiter.before, waiter.pc # "idle"
        PROVE  r < next_id' /\ (r \in Listed' => r \in Listed)
    <3>1. r < next_id /\ r \in Int
      BY <1>0, <2>1 DEF WaitOK
    <3>. QED
      BY <1>0, <3>1, ListGrows
  <2>. QED
    BY <1>1, <2>1 DEF WaitOK
<1>2. ASSUME NEW t \in Tags, WaitTaskDone(t) PROVE WaitOK'
  <2>. DEFINE before  == {r \in 1 .. next_id - 1 : tag[r] = t}
              indices == {i \in DOMAIN request_list : request_list[i] \in before}
  <2>1. UNCHANGED <<next_id, request_list>> /\ waiter'.before = before
    BY <1>2 DEF WaitTaskDone
  <2>2. \A r \in waiter'.before : r < next_id'
    BY <1>0, <2>1
  <2>3. Listed' = Listed
    BY <2>1 DEF Listed
  <2>4. CASE indices = {} /\ waiter' = [pc |-> "spin", last |-> None, before |-> before]
    <3>1. before \cap Listed = {}
      BY <2>4 DEF Listed
    <3>. QED
      BY <2>1, <2>2, <2>3, <2>4, <3>1 DEF WaitOK
  <2>5. ASSUME NEW i \in indices, \A j \in indices : j <= i,
               waiter' = [pc |-> "wait", last |-> request_list[i], before |-> before]
        PROVE  WaitOK'
    <3>1. ASSUME NEW r \in before \cap Listed PROVE r <= request_list[i]
      <4>1. PICK j \in DOMAIN request_list : r = request_list[j]
        BY DEF Listed
      <4>2. j \in indices /\ i \in Int /\ j \in Int /\ request_list[i] \in Int
        BY <1>0, <4>1
      <4>3. j <= i
        BY <2>5, <4>2
      <4>. QED
        BY <4>1, <4>2, <4>3 DEF HeldOK
    <3>. QED
      BY <2>1, <2>2, <2>3, <2>5, <3>1 DEF WaitOK
  <2>. QED
    BY <1>2, <2>4, <2>5 DEF WaitTaskDone
<1>3. CASE FutureReady
  <2>1. waiter' = [waiter EXCEPT !.pc = "spin"] /\ UNCHANGED <<next_id, request_list>>
    BY <1>3 DEF FutureReady
  <2>2. waiter.pc = "wait" /\ waiter.last \in deleted
    BY <1>3 DEF FutureReady
  <2>3. \A r \in waiter.before : r \notin Listed
    <3>1. SUFFICES ASSUME NEW i \in DOMAIN request_list, request_list[i] \in waiter.before PROVE FALSE
      BY DEF Listed
    <3>2. request_list[i] <= waiter.last
      BY <2>2, <3>1 DEF WaitOK, Listed
    <3>3. waiter.last < request_list[i]
      BY <2>2 DEF HeldOK
    <3>4. waiter.last \in Requests
      BY <2>2 DEF TypeOK
    <3>5. request_list[i] \in Requests
      BY <1>0
    <3>6. waiter.last \in Int /\ request_list[i] \in Int
      BY <3>4, <3>5 DEF Requests
    <3>. QED
      BY <3>2, <3>3, <3>6
  <2>4. Listed' = Listed
    BY <2>1 DEF Listed
  <2>. QED
    BY <1>0, <2>1, <2>2, <2>3, <2>4 DEF WaitOK
<1>4. CASE SpinEnd
  BY <1>0, <1>4 DEF SpinEnd, WaitOK
<1>. QED
  BY <1>1, <1>2, <1>3, <1>4, WaiterAlone

LEMMA StepGone == SessionInv /\ GoneOK /\ [Next]_vars => GoneOK'
<1>. SUFFICES ASSUME SessionInv, GoneOK, [Next]_vars, life' = "gone"
              PROVE  request_list' = <<>> /\ \A k \in Requests : task'[k] = "none"
  BY DEF GoneOK
<1>. USE DEF requestVars, callerVars
<1>t. TypeOK
  BY DEF SessionInv
<1>1. CASE life = "gone" /\ UNCHANGED <<request_list, task>>
  BY <1>1 DEF GoneOK
<1>2. CASE Destroy
  BY <1>2, <1>t DEF Destroy, AllDone, SessionInv, OneResponder
<1>3. ASSUME NEW r \in Requests, CheckAndResponse(r) PROVE life = "gone" /\ UNCHANGED <<request_list, task>>
  BY <1>3 DEF CheckAndResponse, GoneOK
<1>4. ASSUME NEW c \in Callers, Request(c) \/ CallerStep(c) PROVE life = "gone" /\ UNCHANGED <<request_list, task>>
  BY <1>4 DEF CallerStep, Request, LockLimit, Sleep, Send
<1>5. ASSUME NEW r \in Requests, SenderStep(r) \/ WorkerStep(r)
      PROVE  life = "gone" /\ UNCHANGED <<request_list, task>>
  BY <1>3, <1>5 DEF SenderStep, WorkerStep, Upload, CheckEmpty, ProcessDone, DoneNotifier
<1>6. ASSUME NEW k \in Requests, TaskStep(k) PROVE FALSE
  <2>1. task[k] # "none" /\ life = "gone"
    BY <1>6 DEF TaskStep, Respond, ReleaseCount, Delete, NextRequest, ClearInResponse
  <2>. QED
    BY <2>1 DEF GoneOK
<1>7. ASSUME NEW t \in Tags, WaitTaskDone(t) \/ DiscardTask(t) PROVE FALSE
  BY <1>7 DEF WaitTaskDone, DiscardTask
<1>8. CASE WaiterStep \/ UNCHANGED vars
  BY <1>1, <1>8 DEF WaiterStep, FutureReady, SpinEnd, vars
<1>. QED
  BY <1>1, <1>2, <1>4, <1>5, <1>6, <1>7, <1>8 DEF Next

-----------------------------------------------------------------------------
(* UnitsOK                                                                 *)

\* Division with remainder, as the code's counter does it.
LEMMA Remainder ==
  ASSUME NEW x \in Int
  PROVE  x % CounterMod \in 0 .. CounterMod - 1 /\ \E q \in Int : x = (x % CounterMod) + q * CounterMod
<1>1. CounterMod \in Nat /\ CounterMod > 0
  BY SessionAssumption
<1>2. x % CounterMod \in 0 .. CounterMod - 1
  BY CounterRange
<1>3. x \div CounterMod \in Int /\ x = (x % CounterMod) + (x \div CounterMod) * CounterMod
  BY <1>1, SMT
<1>. QED
  BY <1>2, <1>3

LEMMA Distribute ==
  ASSUME NEW a \in Int, NEW b \in Int, NEW m \in Int
  PROVE  a * m + b * m = (a + b) * m
  BY SMT

LEMMA SmallMultiple ==
  ASSUME NEW x \in 0 .. CounterMod - 1, NEW q \in Int, x + q * CounterMod = 0
  PROVE  x = 0
<1>1. CounterMod \in Nat /\ CounterMod > 0
  BY SessionAssumption
<1>2. ASSUME q >= 1 PROVE FALSE
  BY <1>1, <1>2, SMT
<1>3. ASSUME q <= -1 PROVE FALSE
  <2>1. (-q) * CounterMod >= CounterMod
    BY <1>1, <1>3, SMT
  <2>2. (-q) * CounterMod = -(q * CounterMod)
    BY <1>1, SMT
  <2>3. q * CounterMod \in Int
    BY <1>1
  <2>. QED
    BY <1>1, <2>1, <2>2, <2>3
<1>4. q = 0 => q * CounterMod = 0
  BY <1>1, SMT
<1>. QED
  BY <1>2, <1>3, <1>4

\* The sums of a request and of those after it move by what its weight moves.
LEMMA UnitsMove ==
  ASSUME TypeOK, UnitsOK, NEW r \in Requests, NEW d \in Int,
         \A p \in Requests : Weight(p) \in Int,
         \A p \in Requests : Weight(p)' = IF p = r THEN Weight(p) + d ELSE Weight(p),
         units' = (units + d) % CounterMod
  PROVE  UnitsOK'
<1>0. /\ MaxRequest \in Nat /\ CounterMod \in Int /\ units \in Int /\ units + d \in Int
      /\ Requests = 1 .. MaxRequest
  BY SessionAssumption DEF TypeOK, Requests
<1>1. PICK P : Sums(P) /\ \E q \in Int : P[MaxRequest] = units + q * CounterMod
  BY DEF UnitsOK
<1>q. PICK q \in Int : P[MaxRequest] = units + q * CounterMod
  BY <1>1
<1>2. PICK e \in Int : units + d = units' + e * CounterMod
  <2>1. \E e \in Int : units + d = ((units + d) % CounterMod) + e * CounterMod
    BY <1>0, Remainder
  <2>. QED
    BY <2>1
<1>. DEFINE N == [i \in 0 .. MaxRequest |-> IF i >= r THEN P[i] + d ELSE P[i]]
<1>3. /\ P \in [0 .. MaxRequest -> Int] /\ P[0] = 0
      /\ \A p \in Requests : P[p] = P[p - 1] + Weight(p)
  BY <1>1 DEF Sums
<1>4. N \in [0 .. MaxRequest -> Int] /\ N[0] = 0
  BY <1>0, <1>3
<1>5. ASSUME NEW p \in Requests PROVE N[p] = N[p - 1] + Weight(p)'
  <2>1. /\ p \in Int /\ r \in Int /\ p \in 0 .. MaxRequest /\ p - 1 \in 0 .. MaxRequest
        /\ P[p] \in Int /\ P[p - 1] \in Int
    BY <1>0, <1>3
  <2>2. /\ N[p] = IF p >= r THEN P[p] + d ELSE P[p]
        /\ N[p - 1] = IF p - 1 >= r THEN P[p - 1] + d ELSE P[p - 1]
    BY <2>1
  <2>3. P[p] = P[p - 1] + Weight(p) /\ Weight(p) \in Int
    BY <1>3
  <2>4. CASE p = r
    BY <2>1, <2>2, <2>3, <2>4
  <2>5. CASE p # r
    BY <2>1, <2>2, <2>3, <2>5
  <2>. QED
    BY <2>4, <2>5
<1>6. N[MaxRequest] = units' + (e + q) * CounterMod
  <2>1. N[MaxRequest] = P[MaxRequest] + d
    BY <1>0
  <2>2. e * CounterMod + q * CounterMod = (e + q) * CounterMod
    BY <1>0, Distribute
  <2>3. e * CounterMod \in Int /\ q * CounterMod \in Int /\ units' \in Int
    BY <1>0, Remainder
  <2>. DEFINE a == e * CounterMod
              b == q * CounterMod
              c == (e + q) * CounterMod
  <2>4. /\ a \in Int /\ b \in Int /\ a + b = c /\ N[MaxRequest] = P[MaxRequest] + d
        /\ P[MaxRequest] = units + b /\ units + d = units' + a /\ units' \in Int
    BY <1>q, <1>2, <2>1, <2>2, <2>3
  <2>. HIDE DEF a, b, c, N
  <2>5. N[MaxRequest] = units' + c
    BY <1>0, <2>4
  <2>. QED
    BY <2>5 DEF c
<1>. HIDE DEF N
<1>7. Sums(N)'
  BY <1>4, <1>5 DEF Sums
<1>. QED
  BY <1>6, <1>7 DEF UnitsOK

LEMMA UnitsFrame ==
  ASSUME UnitsOK, UNCHANGED units, \A r \in Requests : Weight(r)' = Weight(r)
  PROVE  UnitsOK'
<1>1. PICK P : Sums(P) /\ \E q \in Int : P[MaxRequest] = units + q * CounterMod
  BY DEF UnitsOK
<1>2. Sums(P)'
  BY <1>1 DEF Sums
<1>. QED
  BY <1>1, <1>2 DEF UnitsOK

LEMMA WeightType == TypeOK => \A r \in Requests : Weight(r) \in Int
  BY DEF TypeOK, Weight

LEMMA UnitsSets ==
  ASSUME UnitsOK, UNCHANGED <<deleted, data_num, units>>,
         \A r \in Requests :
           /\ sending'[r] = "listed" <=> sending[r] = "listed"
           /\ sending'[r] \in {"check", "sent"} <=> sending[r] \in {"check", "sent"},
         \A k \in Requests :
           /\ task'[k] = "delete" <=> task[k] = "delete"
           /\ task[k] = "delete" => cur'[k] = cur[k]
  PROVE  UnitsOK'
<1>1. Released' = Released
  BY SetsFrame
<1>2. \A r \in Requests : Weight(r)' = Weight(r)
  BY <1>1 DEF Weight
<1>. QED
  BY <1>2, UnitsFrame

LEMMA UnitsSend ==
  ASSUME SessionInv, PlaceOK, UnitsOK, NEW c \in Callers, NEW r \in Requests, Send(c, r)
  PROVE  UnitsOK'
<1>0. TypeOK
  BY DEF SessionInv
<1>1. sending[r] = "none" /\ sending'[r] = "listed" /\ UNCHANGED <<units, task, cur, deleted>>
  BY <1>0 DEF Send, PlaceOK, TypeOK, Requests
<1>2. r \notin Released
  BY <1>1 DEF Released, PlaceOK
<1>3. Released' = Released
  BY <1>1 DEF Released
<1>4. \A q \in Requests : q # r => sending'[q] = sending[q] /\ data_num'[q] = data_num[q]
  BY <1>0 DEF Send, TypeOK
<1>5. ASSUME NEW q \in Requests PROVE Weight(q)' = Weight(q)
  BY <1>1, <1>2, <1>3, <1>4 DEF Weight
<1>. QED
  BY <1>1, <1>5, UnitsFrame

LEMMA UnitsUpload ==
  ASSUME SessionInv, UnitsOK, NEW r \in Requests, Upload(r)
  PROVE  UnitsOK'
<1>0. TypeOK
  BY DEF SessionInv
<1>1. /\ sending[r] = "listed" /\ sending'[r] \in {"check", "sent"}
      /\ UNCHANGED data_num /\ units' = (units + data_num[r]) % CounterMod /\ data_num[r] \in Int
  BY <1>0 DEF Upload, TypeOK, requestVars
<1>2. Released' = Released
  BY DEF Upload, Released
<1>3. \A q \in Requests : q # r => sending'[q] = sending[q]
  BY <1>0 DEF Upload, TypeOK
<1>4. ASSUME NEW q \in Requests
      PROVE  Weight(q)' = IF q = r THEN Weight(q) + data_num[r] ELSE Weight(q)
  BY <1>0, <1>1, <1>2, <1>3 DEF Weight, TypeOK
<1>. QED
  BY <1>0, <1>1, <1>4, UnitsMove, WeightType

LEMMA UnitsRelease ==
  ASSUME SessionInv, PlaceOK, UnitsOK, NEW k \in Requests, ReleaseCount(k)
  PROVE  UnitsOK'
<1>. DEFINE r == cur[k]
<1>0. TypeOK
  BY DEF SessionInv
<1>1. r \in Requests /\ r \notin deleted
  BY <1>0 DEF ReleaseCount, SessionInv, CurOK, PlaceOK
<1>2. \A j \in Requests : task[j] # "delete" /\ (task'[j] = "delete" <=> j = k)
  BY <1>0 DEF ReleaseCount, SessionInv, OneResponder, TypeOK
<1>3. /\ UNCHANGED <<deleted, cur, sending, data_num>>
      /\ units' = (units - data_num[r]) % CounterMod /\ data_num[r] \in Int
  BY <1>0, <1>1 DEF ReleaseCount, TypeOK, requestVars
<1>. HIDE DEF r
<1>4. Released = deleted
  BY <1>2 DEF Released
<1>5. Released' = deleted \cup {r}
  BY <1>1, <1>2, <1>3 DEF Released, r
<1>6. ASSUME NEW q \in Requests
      PROVE  Weight(q)' = IF q = r THEN Weight(q) + (-data_num[r]) ELSE Weight(q)
  <2>1. data_num[q] \in Int
    BY <1>0 DEF TypeOK
  <2>2. CASE q = r
    <3>1. r \in Released' /\ r \notin Released
      BY <1>1, <1>4, <1>5
    <3>. QED
      BY <1>3, <2>1, <2>2, <3>1 DEF Weight
  <2>3. CASE q # r
    <3>1. q \in Released' <=> q \in Released
      BY <1>4, <1>5, <2>3
    <3>. QED
      BY <1>3, <2>3, <3>1 DEF Weight
  <2>. QED
    BY <2>2, <2>3
<1>7. units' = (units + (-data_num[r])) % CounterMod /\ -data_num[r] \in Int
  BY <1>0, <1>3 DEF TypeOK
<1>. QED
  BY <1>0, <1>1, <1>6, <1>7, UnitsMove, WeightType

LEMMA StepUnits == SessionInv /\ PlaceOK /\ UnitsOK /\ [Next]_vars => UnitsOK'
<1>. SUFFICES ASSUME SessionInv, PlaceOK, UnitsOK, [Next]_vars PROVE UnitsOK'
  OBVIOUS
<1>. USE DEF requestVars
<1>t. TypeOK
  BY DEF SessionInv
<1>1. CASE UNCHANGED <<sending, task, cur, deleted, data_num, units>>
  BY <1>1, UnitsSets
<1>2. ASSUME NEW c \in Callers, Request(c) \/ LockLimit(c) \/ Sleep(c) PROVE UnitsOK'
  BY <1>1, <1>2 DEF Request, LockLimit, Sleep
<1>3. ASSUME NEW c \in Callers, NEW r \in Requests, Send(c, r) PROVE UnitsOK'
  BY <1>3, UnitsSend
<1>4. ASSUME NEW r \in Requests, Upload(r) PROVE UnitsOK'
  BY <1>4, UnitsUpload
<1>5. ASSUME NEW r \in Requests, CheckEmpty(r) PROVE UnitsOK'
  <2>1. \A q \in Requests : /\ sending'[q] = "listed" <=> sending[q] = "listed"
                            /\ sending'[q] \in {"check", "sent"} <=> sending[q] \in {"check", "sent"}
    BY <1>5, <1>t DEF CheckEmpty, TypeOK
  <2>2. UNCHANGED <<deleted, data_num, units>> /\ CheckAndResponse(r)
    BY <1>5 DEF CheckEmpty
  <2>. QED
    BY <2>1, <2>2, SetsCheck, UnitsSets
<1>6. ASSUME NEW r \in Requests, WorkerStep(r) PROVE UnitsOK'
  <2>1. CASE ProcessDone(r)
    BY <1>1, <2>1 DEF ProcessDone
  <2>2. CASE DoneNotifier(r)
    <3>1. UNCHANGED <<deleted, data_num, units, sending>> /\ CheckAndResponse(r)
      BY <2>2 DEF DoneNotifier
    <3>. QED
      BY <3>1, SetsCheck, UnitsSets
  <2>. QED
    BY <1>6, <2>1, <2>2 DEF WorkerStep
<1>7. ASSUME NEW k \in Requests, ReleaseCount(k) PROVE UnitsOK'
  BY <1>7, UnitsRelease
<1>8. ASSUME NEW k \in Requests, Delete(k) PROVE UnitsOK'
  <2>1. \A j \in Requests : (task[j] = "delete" <=> j = k) /\ task'[j] # "delete"
    BY <1>8, <1>t DEF Delete, SessionInv, OneResponder, TypeOK
  <2>2. cur[k] \in Requests
    BY <1>8 DEF Delete, SessionInv, CurOK
  <2>3. Released' = Released
    BY <1>8, <2>1, <2>2 DEF Delete, Released
  <2>4. UNCHANGED <<sending, data_num, units>>
    BY <1>8 DEF Delete
  <2>5. \A r \in Requests : Weight(r)' = Weight(r)
    BY <2>3, <2>4 DEF Weight
  <2>. QED
    BY <2>4, <2>5, UnitsFrame
<1>9. ASSUME NEW k \in Requests, Respond(k) \/ NextRequest(k) \/ ClearInResponse(k) PROVE UnitsOK'
  <2>1. UNCHANGED <<sending, deleted, data_num, units>>
    BY <1>9 DEF Respond, NextRequest, ClearInResponse
  <2>2. /\ task[k] # "delete" /\ task'[k] # "delete"
        /\ \A j \in Requests : j # k => task'[j] = task[j] /\ cur'[j] = cur[j]
    BY <1>9, <1>t DEF Respond, NextRequest, ClearInResponse, TypeOK
  <2>3. \A j \in Requests : /\ task'[j] = "delete" <=> task[j] = "delete"
                            /\ task[j] = "delete" => cur'[j] = cur[j]
    BY <2>2
  <2>. QED
    BY <2>1, <2>3, UnitsSets
<1>10. ASSUME NEW t \in Tags, WaitTaskDone(t) \/ DiscardTask(t) PROVE UnitsOK'
  BY <1>1, <1>10 DEF WaitTaskDone, DiscardTask
<1>11. CASE WaiterStep \/ Destroy \/ UNCHANGED vars
  BY <1>1, <1>11 DEF WaiterStep, FutureReady, SpinEnd, Destroy, vars
<1>. QED
  BY <1>2, <1>3, <1>4, <1>5, <1>6, <1>7, <1>8, <1>9, <1>10, <1>11 DEF Next, CallerStep, SenderStep, TaskStep

\* Sums of nothing are nothing: otherwise there is a first one that is not.
LEMMA NoWeight ==
  ASSUME NEW P, Sums(P), \A r \in Requests : Weight(r) = 0
  PROVE  P[MaxRequest] = 0
<1>. DEFINE R == {ss \in Nat \X Nat : ss[1] < ss[2]}
            T == {i \in 0 .. MaxRequest : P[i] # 0}
<1>0. MaxRequest \in Nat
  BY SessionAssumption
<1>1. IsWellFoundedOn(R, Nat)
  BY NatLessThanWellFounded DEF OpToRel
<1>2. SUFFICES ASSUME T # {} PROVE FALSE
  BY <1>0
<1>3. T \subseteq Nat
  BY <1>0
<1>4. \E i \in T : \A j \in T : ~(<<j, i>> \in R)
  <2>. HIDE DEF R, T
  <2>. QED
    BY <1>1, <1>2, <1>3, WFMin, Zenon
<1>5. PICK i \in T : \A j \in T : ~(<<j, i>> \in R)
  BY <1>4
<1>6. i # 0 /\ i \in Nat /\ i <= MaxRequest
  BY <1>0 DEF Sums
<1>7. P[i] = P[i - 1]
  <2>1. P[i] = P[i - 1] + Weight(i) /\ Weight(i) = 0
    BY <1>0, <1>6 DEF Sums, Requests
  <2>2. P[i - 1] \in Int
    BY <1>0, <1>6 DEF Sums
  <2>. QED
    BY <2>1, <2>2
<1>8. i - 1 \in T /\ <<i - 1, i>> \in R
  BY <1>0, <1>6, <1>7
<1>. QED
  BY <1>5, <1>8

LEMMA InitWait == Init => HeldOK /\ WaitOK /\ GoneOK /\ UnitsOK
<1>. SUFFICES ASSUME Init PROVE HeldOK /\ WaitOK /\ GoneOK /\ UnitsOK
  OBVIOUS
<1>1. HeldOK
  BY DEF Init, HeldOK
<1>2. WaitOK /\ GoneOK
  BY DEF Init, WaitOK, GoneOK
<1>3. UnitsOK
  <2>. DEFINE P == [i \in 0 .. MaxRequest |-> 0]
  <2>0. MaxRequest \in Nat /\ CounterMod \in Nat
    BY SessionAssumption
  <2>1. \A r \in Requests : Weight(r) = 0
    BY DEF Init, Weight, Released
  <2>2. Sums(P)
    BY <2>0, <2>1 DEF Sums, Requests
  <2>3. P[MaxRequest] = units + 0 * CounterMod
    BY <2>0 DEF Init
  <2>. HIDE DEF P
  <2>4. \E q \in Int : P[MaxRequest] = units + q * CounterMod
    BY <2>3
  <2>. QED
    BY <2>2, <2>4 DEF UnitsOK
<1>. QED
  BY <1>1, <1>2, <1>3

WaitInv == SessionInv /\ PlaceOK /\ HeldOK /\ WaitOK

\* WaitTaskDone returns only when every request with the tag sent before the call
\* is destroyed, after its response: the future of the last listed one stands for
\* those in front of it, and in_response_ for the one in the hands of the task.
THEOREM WaitsForAll == Spec => WaitCoversAll
<1>1. Init => WaitInv
  BY InitSession, InitLimit, InitWait DEF WaitInv
<1>2. WaitInv /\ [Next]_vars => WaitInv'
  <2>1. WaitInv => TypeOK
    BY DEF WaitInv, SessionInv
  <2>. QED
    BY <2>1, StepSession, StepPlace, StepHeld, StepWait DEF WaitInv
<1>3. WaitInv /\ [Next]_vars =>
        [waiter.pc = "spin" /\ waiter'.pc = "idle" => waiter.before \subseteq deleted]_waiter
  <2>. SUFFICES ASSUME WaitInv, [Next]_vars, waiter.pc = "spin", waiter'.pc = "idle", NEW r \in waiter.before
                PROVE  r \in deleted
    OBVIOUS
  <2>1. SpinEnd
    BY WaiterAlone DEF FutureReady, WaitTaskDone
  <2>2. \A k \in Requests : ~Working(k)
    BY <2>1 DEF SpinEnd, WaitInv, SessionInv, OneResponder, Working
  <2>3. r \in 1 .. next_id - 1 /\ r \notin Listed
    BY DEF WaitInv, WaitOK, SessionInv, TypeOK, Requests
  <2>. QED
    BY <2>2, <2>3 DEF WaitInv, HeldOK
<1>. QED
  BY <1>1, <1>2, <1>3, PTL DEF Spec, WaitCoversAll

LeaveInv == LimitInv /\ WholeOK /\ HeldOK /\ GoneOK /\ UnitsOK

LEMMA CountersEmpty ==
  ASSUME LeaveInv, \A r \in 1 .. next_id - 1 : sending[r] = "sent" /\ r \in deleted
  PROVE  units = 0 /\ reqs = 0
<1>0. TypeOK /\ PlaceOK /\ CurOK
  BY DEF LeaveInv, LimitInv, SessionInv
<1>1. ASSUME NEW r \in Requests
      PROVE  \/ sending[r] = "sent" /\ r \in deleted
             \/ sending[r] = "none" /\ r \notin Released
  <2>1. r \in 1 .. next_id - 1 \/ r >= next_id
    BY <1>0 DEF TypeOK, Requests
  <2>2. r >= next_id => sending[r] = "none"
    BY <1>0 DEF PlaceOK
  <2>3. sending[r] = "none" => r \notin Released
    BY <1>0 DEF PlaceOK, Released
  <2>. QED
    BY <2>1, <2>2, <2>3
<1>2. Counted = {} /\ Early = {}
  BY <1>1 DEF Counted, Early, Listing, Released
<1>3. reqs = 0
  BY <1>2, FS_EmptySet DEF LeaveInv, LimitInv, CountOK, Wrapped
<1>4. \A r \in Requests : Weight(r) = 0
  BY <1>0, <1>1 DEF Weight, TypeOK, Released
<1>5. PICK P : Sums(P) /\ \E q \in Int : P[MaxRequest] = units + q * CounterMod
  BY DEF LeaveInv, UnitsOK
<1>6. P[MaxRequest] = 0
  BY <1>4, <1>5, NoWeight
<1>7. units = 0
  BY <1>0, <1>5, <1>6, SmallMultiple DEF TypeOK
<1>. QED
  BY <1>3, <1>7

\* Once every request was answered or skipped the limit counters are back at zero,
\* although they may wrap below it on the way; after ~Session nobody is inside.
THEOREM LeavesNothingBehind == Spec => []LeavesNothing
<1>1. Init => LeaveInv
  <2>1. Init => WholeOK
    BY DEF Init, WholeOK
  <2>. QED
    BY <2>1, InitSession, InitLimit, InitWait DEF LeaveInv, LimitInv, Room
<1>2. LeaveInv /\ [Next]_vars => LeaveInv'
  BY StepSession, StepOwner, StepPlace, StepRoom, StepWhole, StepHeld, StepGone, StepUnits
     DEF LeaveInv, LimitInv, Room
<1>3. LeaveInv => LeavesNothing
  <2>1. ASSUME LeaveInv, life = "gone"
        PROVE  (\A k \in Requests : task[k] = "none") /\ notifying = {} /\ request_list = <<>>
    <3>1. request_list = <<>> /\ \A k \in Requests : task[k] = "none"
      BY <2>1 DEF LeaveInv, GoneOK
    <3>2. ASSUME NEW r \in notifying PROVE FALSE
      <4>1. r \in 1 .. next_id - 1 /\ r \notin deleted
        BY <2>1, <3>2 DEF LeaveInv, WholeOK, LimitInv, SessionInv, TypeOK, Requests
      <4>2. r \notin Listed /\ \A k \in Requests : ~Working(k)
        BY <3>1 DEF Listed, Working
      <4>. QED
        BY <2>1, <4>1, <4>2 DEF LeaveInv, HeldOK
    <3>. QED
      BY <3>1, <3>2
  <2>. QED
    BY <2>1, CountersEmpty DEF LeavesNothing
<1>. QED
  BY <1>1, <1>2, <1>3, PTL DEF Spec

-----------------------------------------------------------------------------
(* No request is lost                                                       *)

\* What has passed Respond has been answered, unless it was discarded.
Settled == answered \cup discarded
RespondedOK ==
  /\ deleted \subseteq Settled
  /\ \A k \in Requests : task[k] \in {"release", "delete"} => cur[k] \in Settled

LEMMA StepResponded ==
  ASSUME TypeOK, RespondedOK, [Next]_vars
  PROVE  RespondedOK'
<1>0. DOMAIN task = Requests /\ DOMAIN cur = Requests
  BY DEF TypeOK
<1>1. ASSUME Settled \subseteq Settled', UNCHANGED <<deleted, task, cur>> PROVE RespondedOK'
  BY <1>1 DEF RespondedOK
<1>2. ASSUME NEW c \in Callers, Request(c) \/ CallerStep(c) PROVE RespondedOK'
  BY <1>1, <1>2 DEF CallerStep, Request, LockLimit, Sleep, Send, Settled
<1>3. ASSUME NEW r \in Requests, Upload(r) \/ ProcessDone(r) PROVE RespondedOK'
  BY <1>1, <1>3 DEF Upload, ProcessDone, Settled
<1>4. ASSUME NEW t \in Tags, WaitTaskDone(t) \/ DiscardTask(t) PROVE RespondedOK'
  BY <1>1, <1>4 DEF WaitTaskDone, DiscardTask, Settled
<1>5. CASE WaiterStep \/ Destroy \/ UNCHANGED vars
  BY <1>1, <1>5 DEF WaiterStep, FutureReady, SpinEnd, Destroy, vars, Settled
<1>6. ASSUME NEW k \in Requests, task'[k] \notin {"release", "delete"}, UNCHANGED <<answered, discarded, deleted>>,
             \A j \in Requests : j # k => task'[j] = task[j] /\ cur'[j] = cur[j]
      PROVE  RespondedOK'
  BY <1>6 DEF RespondedOK, Settled
<1>7. ASSUME NEW r \in Requests, CheckAndResponse(r), UNCHANGED <<answered, discarded, deleted>>
      PROVE  RespondedOK'
  <2>1. CASE UNCHANGED <<task, cur>>
    BY <1>1, <1>7, <2>1 DEF Settled
  <2>2. CASE /\ request_list # <<>> /\ task' = [task EXCEPT ![Head(request_list)] = "respond"]
             /\ cur' = [cur EXCEPT ![Head(request_list)] = Head(request_list)]
    <3>1. Head(request_list) \in Requests
      BY <2>2 DEF TypeOK
    <3>2. /\ task'[Head(request_list)] = "respond"
          /\ \A j \in Requests : j # Head(request_list) => task'[j] = task[j] /\ cur'[j] = cur[j]
      BY <1>0, <2>2, <3>1
    <3>. QED
      BY <1>6, <1>7, <3>1, <3>2
  <2>. QED
    BY <1>7, <2>1, <2>2 DEF CheckAndResponse
<1>8. ASSUME NEW r \in Requests, CheckEmpty(r) \/ DoneNotifier(r) PROVE RespondedOK'
  BY <1>7, <1>8 DEF CheckEmpty, DoneNotifier
<1>9. ASSUME NEW k \in Requests, NextRequest(k) \/ ClearInResponse(k) PROVE RespondedOK'
  <2>1. /\ UNCHANGED <<answered, discarded, deleted>>
        /\ \/ task' = [task EXCEPT ![k] = "none"] /\ cur' = cur
           \/ task' = [task EXCEPT ![k] = "clear"] /\ cur' = cur
           \/ task' = [task EXCEPT ![k] = "respond"] /\ cur' = [cur EXCEPT ![k] = Head(request_list)]
    BY <1>9 DEF NextRequest, ClearInResponse
  <2>. QED
    BY <1>0, <1>6, <2>1
<1>10. ASSUME NEW k \in Requests, Respond(k) PROVE RespondedOK'
  <2>1. /\ UNCHANGED <<discarded, deleted, cur>> /\ task' = [task EXCEPT ![k] = "release"]
        /\ answered \subseteq answered' /\ cur[k] \in answered' \cup discarded
    BY <1>10 DEF Respond
  <2>. QED
    BY <1>0, <2>1 DEF RespondedOK, Settled
<1>11. ASSUME NEW k \in Requests, ReleaseCount(k) PROVE RespondedOK'
  <2>1. /\ UNCHANGED <<answered, discarded, deleted, cur>> /\ task' = [task EXCEPT ![k] = "delete"]
        /\ task[k] = "release"
    BY <1>11 DEF ReleaseCount
  <2>. QED
    BY <1>0, <2>1 DEF RespondedOK, Settled
<1>12. ASSUME NEW k \in Requests, Delete(k) PROVE RespondedOK'
  <2>1. /\ UNCHANGED <<answered, discarded, cur>> /\ task' = [task EXCEPT ![k] = "next"]
        /\ task[k] = "delete" /\ deleted' = deleted \cup {cur[k]}
    BY <1>12 DEF Delete
  <2>. QED
    BY <1>0, <2>1 DEF RespondedOK, Settled
<1>. QED
  BY <1>2, <1>3, <1>4, <1>5, <1>8, <1>9, <1>10, <1>11, <1>12 DEF Next, SenderStep, WorkerStep, TaskStep

\* A request that Send has put in the list stays there until a response task takes it
\* out, and that task ends with it only when its Response has run or it was discarded.
NoRequestLost ==
  \A r \in 1 .. next_id - 1 :
    r \in Listed \/ r \in Settled \/ \E k \in Requests : task[k] = "respond" /\ cur[k] = r

\* The front of the list is taken by CheckAndResponse or by the response task's own
\* loop, of several senders and workers one each time: no request slips through
\* between them, and none is destroyed before Response has seen it.
THEOREM RequestsKept == Spec => []NoRequestLost
<1>. DEFINE KeptInv == WaitInv /\ RespondedOK
<1>1. Init => KeptInv
  BY InitSession, InitLimit, InitWait DEF WaitInv, Init, RespondedOK
<1>2. KeptInv /\ [Next]_vars => KeptInv'
  <2>1. WaitInv => TypeOK
    BY DEF WaitInv, SessionInv
  <2>. QED
    BY <2>1, StepSession, StepPlace, StepHeld, StepWait, StepResponded DEF WaitInv
<1>3. KeptInv => NoRequestLost
  BY DEF WaitInv, HeldOK, RespondedOK, NoRequestLost, Working
<1>. QED
  BY <1>1, <1>2, <1>3, PTL DEF Spec
=============================================================================
