-------------------------- MODULE OrderedDelivery ---------------------------
(***************************************************************************)
(* What a pipeline promises the application about a stream: the frames it  *)
(* reports as done are frames that were given to it, each at most once and *)
(* in the order they were given.  Frames may be left out (a module failed, *)
(* the stream was removed, the pipeline was stopped).                      *)
(***************************************************************************)
EXTENDS Naturals

CONSTANTS Streams, MaxFrame

VARIABLES
  given,  (* stream -> number of frames given to the pipeline *)
  out     (* stream -> the frames reported as done            *)

Init ==
  /\ given = [s \in Streams |-> 0]
  /\ out = [s \in Streams |-> {}]

Give(s) ==
  /\ given[s] < MaxFrame
  /\ given' = [given EXCEPT ![s] = @ + 1]
  /\ UNCHANGED out

Deliver(s) ==
  \E i \in 1 .. given[s] :
    /\ \A j \in out[s] : j < i
    /\ out' = [out EXCEPT ![s] = @ \cup {i}]
    /\ UNCHANGED given

Next == \E s \in Streams : Give(s) \/ Deliver(s)

Spec == Init /\ [][Next]_<<given, out>>
=============================================================================
