--------------------------- MODULE RelayContract ---------------------------
(***************************************************************************)
(* What a relay without a queue of its own promises the sender of a message  *)
(* (handleDATA, proxy.go:606: "Acceptance transfers responsibility only      *)
(* after upstream delivery").                                               *)
(*                                                                         *)
(* Each message is begun, at most once taken by the next hop and at most     *)
(* once answered.  The relay knows that the next hop has the message         *)
(* ("yes"), that it has not ("no"), or, when the reply was lost, neither     *)
(* ("unsure").  It says 250 only when it knows the message is taken, 5xx     *)
(* only when it knows it is not, and never defers a message it knows to be   *)
(* taken.  An answer on a dead connection says nothing ("unseen").           *)
(***************************************************************************)
EXTENDS Naturals

CONSTANT MaxTxns

VARIABLES begun, taken, answer

vars == <<begun, taken, answer>>

Msgs == 1..MaxTxns

Init ==
  /\ begun = 0
  /\ taken = [t \in Msgs |-> "no"]
  /\ answer = [t \in Msgs |-> "none"]

Begin ==
  /\ begun < MaxTxns
  /\ begun' = begun + 1
  /\ UNCHANGED <<taken, answer>>

\* Only the newest message is in the relay's hands.
Take(t) ==
  /\ t = begun
  /\ taken[t] = "no" /\ answer[t] = "none"
  /\ \E know \in {"yes", "unsure"} : taken' = [taken EXCEPT ![t] = know]
  /\ UNCHANGED <<begun, answer>>

Truthful(status, know) ==
  CASE status = "250" -> know = "yes"
    [] status = "5xx" -> know = "no"
    [] status = "4xx" -> know # "yes"
    [] OTHER -> TRUE

Answer(t) ==
  /\ t = begun
  /\ answer[t] = "none"
  /\ \E status \in {"250", "4xx", "5xx", "unseen"} :
       /\ Truthful(status, taken[t])
       /\ answer' = [answer EXCEPT ![t] = status]
  /\ UNCHANGED <<begun, taken>>

Next == Begin \/ \E t \in Msgs : Take(t) \/ Answer(t)

Spec == Init /\ [][Next]_vars

\* No answer misstates what the relay knows.
Honest == \A t \in Msgs : Truthful(answer[t], taken[t])
=============================================================================
