----------------------------- MODULE ExactlyOnce -----------------------------
(***************************************************************************)
(* What the executor promises to the sessions (and InferSession assumes):  *)
(* each piece that is handed over is reported at most once, and nothing is *)
(* reported that was not handed over.  Pieces may be reported in any       *)
(* order, several at a time.                                               *)
(***************************************************************************)
EXTENDS Naturals

CONSTANT Pieces

VARIABLES
  given,    (* pieces handed over                 *)
  reports   (* number of reports of each piece    *)

Init == given = {} /\ reports = [p \in Pieces |-> 0]

Give(S) ==
  /\ S \cap given = {}
  /\ given' = given \cup S
  /\ UNCHANGED reports

Report(S) ==
  /\ \A p \in S : p \in given /\ reports[p] = 0
  /\ reports' = [p \in Pieces |-> IF p \in S THEN 1 ELSE reports[p]]
  /\ UNCHANGED given

Next == \E S \in SUBSET Pieces : Give(S) \/ Report(S)

Spec == Init /\ [][Next]_<<given, reports>>
=============================================================================
