----------------------------- MODULE SendPromise -----------------------------
(***************************************************************************)
(* What the send pipeline promises the product about an outreach e-mail:   *)
(* the recipient gets at most one copy, "sent" is only said of an e-mail   *)
(* that has left or that an operator vouches for, and "failed", after      *)
(* which the same message may be submitted again, only of one that has not *)
(* left and never will.  In between the result may be unknown, and then    *)
(* only evidence or an operator ends it.  Attempts, retries, recoveries,   *)
(* workflow runs and time limits are not visible here.                     *)
(***************************************************************************)

CONSTANTS
  Intents,     \* the e-mails
  Copies       \* names for the copies that could reach the recipient

VARIABLES
  status,      \* what the product shows for the e-mail
  copies       \* the copies the recipient got

vars == <<status, copies>>

Status == {"none", "pending", "unknown", "sent", "failed", "disowned"}

TypeOK ==
  /\ status \in [Intents -> Status]
  /\ copies \in [Intents -> SUBSET Copies]

Init ==
  /\ status = [i \in Intents |-> "none"]
  /\ copies = [i \in Intents |-> {}]

Become(i, s) ==
  /\ status' = [status EXCEPT ![i] = s]
  /\ UNCHANGED copies

Submit(i) == status[i] = "none" /\ Become(i, "pending")

\* The one copy may arrive late, after an operator has decided.
Deliver(i) ==
  /\ status[i] \notin {"none", "failed"}
  /\ copies[i] = {}
  /\ \E c \in Copies : copies' = [copies EXCEPT ![i] = {c}]
  /\ UNCHANGED status

Accept(i) == status[i] = "pending" /\ copies[i] # {} /\ Become(i, "sent")

Fail(i) == status[i] = "pending" /\ copies[i] = {} /\ Become(i, "failed")

Doubt(i) == status[i] = "pending" /\ Become(i, "unknown")

Decide(i) ==
  /\ status[i] = "unknown"
  /\ \E s \in {"sent", "disowned"} : Become(i, s)

Next ==
  \E i \in Intents :
    \/ Submit(i) \/ Deliver(i) \/ Accept(i) \/ Fail(i) \/ Doubt(i) \/ Decide(i)

Spec == Init /\ [][Next]_vars
=============================================================================
