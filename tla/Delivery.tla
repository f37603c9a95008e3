------------------------------ MODULE Delivery ------------------------------
(***************************************************************************)
(* What the service promises of the prompts of a Thread, without queue,    *)
(* locks, retries or events: the provider takes a prompt at most once, and *)
(* what is recorded of it is final and true.  Of an uncertain prompt alone *)
(* nothing is said: the provider may have taken it, or may take it later.  *)
(***************************************************************************)
CONSTANT Prompts

VARIABLES
  given,  \* the prompts the provider took
  fate    \* what is recorded of each

vars == <<given, fate>>

Init ==
  /\ given = {}
  /\ fate = [r \in Prompts |-> "none"]

\* The provider takes a prompt, perhaps before the service knows.
Give(r) ==
  /\ r \notin given /\ fate[r] \in {"none", "uncertain"}
  /\ given' = given \cup {r}
  /\ UNCHANGED fate

\* The service records what became of a prompt it sent, or did not.
Answer(r, answer) ==
  /\ fate[r] = "none"
  /\ answer = "accepted" => r \in given
  /\ answer = "rejected" => r \notin given
  /\ fate' = [fate EXCEPT ![r] = answer]
  /\ UNCHANGED given

\* The owner takes prompts back that were not sent.
Cancel(R) ==
  /\ R # {} /\ R \cap given = {} /\ \A r \in R : fate[r] = "none"
  /\ fate' = [r \in Prompts |-> IF r \in R THEN "cancelled" ELSE fate[r]]
  /\ UNCHANGED given

Next ==
  \/ \E r \in Prompts : Give(r)
  \/ \E r \in Prompts, answer \in {"accepted", "rejected", "uncertain"} :
       Answer(r, answer)
  \/ \E R \in SUBSET Prompts : Cancel(R)

Spec == Init /\ [][Next]_vars

\* An accepted prompt reached the provider, a rejected or cancelled one did
\* not and never will.
RecordIsTrue ==
  \A r \in Prompts :
    /\ fate[r] = "accepted" => r \in given
    /\ fate[r] \in {"rejected", "cancelled"} => r \notin given
=============================================================================
