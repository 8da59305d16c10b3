----------------------------- MODULE AnswerOutbox -----------------------------
(***************************************************************************)
(* What a respondent may rely on while the page stays open and its storage *)
(* works: every answer is settled once, accepted by the server or refused  *)
(* for good, and answers are settled in the order they were given.  This   *)
(* is the specification that ResponseQueue implements.                     *)
(***************************************************************************)
EXTENDS Naturals

CONSTANT Count  (* how many answers the respondent gives *)

VARIABLE status

Numbers == 1 .. Count
Status == {"ungiven", "pending", "accepted", "refused"}
Settled == {"accepted", "refused"}

Init == status = [a \in Numbers |-> "ungiven"]

\* All answers before a have been given and settled.
Earliest(a) == \A b \in Numbers : b < a => status[b] \in Settled

Give(a) ==
  /\ status[a] = "ungiven"
  /\ \A b \in Numbers : b < a => status[b] # "ungiven"
  /\ status' = [status EXCEPT ![a] = "pending"]

Settle(a) ==
  /\ status[a] = "pending" /\ Earliest(a)
  /\ \E s \in Settled : status' = [status EXCEPT ![a] = s]

Next == \E a \in Numbers : Give(a) \/ Settle(a)

Spec == Init /\ [][Next]_status
=============================================================================
