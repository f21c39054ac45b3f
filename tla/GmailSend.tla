------------------------------ MODULE GmailSend ------------------------------
(***************************************************************************)
(* The life of an outreach e-mail from the moment its Send Intent row is   *)
(* committed: outbox relay, one Temporal workflow run per intent, the      *)
(* claim / dispatch / settle activities, the recovery of a stalled         *)
(* dispatch by a Gmail search, the reconciliation of an unknown result,    *)
(* and the mailbox lane that all intents of one Gmail connection share.    *)
(*                                                                         *)
(* Every activity runs at most once (maximumAttempts 1); when it exceeds   *)
(* its 30 second limit the run closes, but the activity itself goes on:    *)
(* its transaction may still commit and its HTTP call may still reach      *)
(* Gmail.  Time is abstract: a reservation may expire at any moment and a  *)
(* wait is a step not taken.                                               *)
(***************************************************************************)
EXTENDS Naturals

CONSTANTS
  Intents,         \* the Send Intents of one Gmail connection
  MaxAttempts,     \* maxAttempts of the send workflow
  Failing,         \* kinds of activity that may exceed their time limit
  CallsOutlive     \* may a provider call be unresolved when a new run starts?

ASSUME MaxAttemptsAssumption == MaxAttempts \in Nat \ {0}
ASSUME CallsOutliveAssumption == CallsOutlive \in BOOLEAN

VARIABLES
  intent,          \* backlink_send_intents.status
  reservation,     \* backlink_rate_limit_reservations.status
  lane,            \* backlink_rate_limit_reservations.lane_sequence
  lastLane,        \* max(lane_sequence) of the connection
  expired,         \* intents whose reservation is past expires_at
  attemptNo,       \* number of the latest Send Attempt, 0 before the first
  attempt,         \* backlink_send_attempts.status with its error code
  reconciliation,  \* backlink_send_reconciliations.outcome
  outbox,          \* the send-intent.created event
  pc,              \* where the open workflow run stands, or "closed"
  seen,            \* the settlement, status or answer the run holds
  call,            \* the dispatch activity of each attempt, up to Gmail
  lateSettles      \* settle activities whose run is no longer waiting

rows == <<intent, reservation, attemptNo, attempt, reconciliation>>
slots == <<lane, lastLane>>
vars == <<intent, reservation, lane, lastLane, expired, attemptNo, attempt,
          reconciliation, outbox, pc, seen, call, lateSettles>>

Numbers == 1..MaxAttempts

IntentStatus == {"NONE", "READY", "DISPATCHING", "PROVIDER_ACCEPTED",
                 "DELIVERY_UNKNOWN", "FAILED_RETRYABLE", "FAILED_FINAL"}
ReservationStatus == {"NONE", "RESERVED", "CONSUMED", "RELEASED"}

\* NOT_FOUND is FAILED_RETRYABLE with the code GMAIL_SEND_RFC_MESSAGE_NOT_FOUND.
Settlement == {"PROVIDER_ACCEPTED", "DELIVERY_UNKNOWN", "FAILED_RETRYABLE",
               "NOT_FOUND", "FAILED_FINAL"}
Retryable == {"FAILED_RETRYABLE", "NOT_FOUND"}
NotSentVerdict == Retryable \cup {"FAILED_FINAL"}
AttemptStatus == {"NONE", "DISPATCHING"} \cup Settlement
Outcome == {"PROVIDER_ACCEPTED", "CONFIRMED_NOT_SENT"}

Activity == {"claim", "dispatch", "settle", "load", "query", "recover",
             "reconcile"}
Unresolved == {"preparing", "cleared", "inflight"}
NeverSent == {"none", "dropped"}
CallStage == {"accepted"} \cup NeverSent \cup Unresolved

StatusOf(settlement) ==
  IF settlement \in Retryable THEN "FAILED_RETRYABLE" ELSE settlement

Latest(i) == IF attemptNo[i] = 0 THEN "NONE" ELSE attempt[i][attemptNo[i]]

RowsTypeOK ==
  /\ intent \in [Intents -> IntentStatus]
  /\ reservation \in [Intents -> ReservationStatus]
  /\ attemptNo \in [Intents -> 0..MaxAttempts]
  /\ attempt \in [Intents -> [Numbers -> AttemptStatus]]
  /\ reconciliation \in [Intents -> Outcome \cup {"NONE"}]

RunsTypeOK ==
  /\ pc \in [Intents -> Activity \cup {"closed"}]
  /\ seen \in [Intents -> AttemptStatus]

TypeOK ==
  /\ RowsTypeOK
  /\ RunsTypeOK
  /\ lane \in [Intents -> Nat]
  /\ lastLane \in Nat
  /\ expired \subseteq Intents
  /\ outbox \in [Intents -> {"absent", "pending", "delivered", "published"}]
  /\ call \in [Intents -> [Numbers -> CallStage]]
  /\ lateSettles \subseteq
       [intent : Intents, no : Numbers, settlement : Settlement]

Init ==
  /\ intent = [i \in Intents |-> "NONE"]
  /\ reservation = [i \in Intents |-> "NONE"]
  /\ lane = [i \in Intents |-> 0]
  /\ lastLane = 0
  /\ expired = {}
  /\ attemptNo = [i \in Intents |-> 0]
  /\ attempt = [i \in Intents |-> [n \in Numbers |-> "NONE"]]
  /\ reconciliation = [i \in Intents |-> "NONE"]
  /\ outbox = [i \in Intents |-> "absent"]
  /\ pc = [i \in Intents |-> "closed"]
  /\ seen = [i \in Intents |-> "NONE"]
  /\ call = [i \in Intents |-> [n \in Numbers |-> "none"]]
  /\ lateSettles = {}

GotoSeeing(i, label, value) ==
  /\ pc' = [pc EXCEPT ![i] = label]
  /\ seen' = [seen EXCEPT ![i] = value]

Goto(i, label) == GotoSeeing(i, label, "NONE")

-----------------------------------------------------------------------------
(* Creation, the outbox relay and the clock *)

\* The promise of the outbox, which OutboxRelay implements.
Outbox == INSTANCE EventDelivery WITH Events <- Intents, delivery <- outbox

\* The commit of `create`: intent, reservation and outbox event in one
\* transaction, the reservation at the end of the mailbox lane.
CreateIntent(i) ==
  /\ intent[i] = "NONE"
  /\ intent' = [intent EXCEPT ![i] = "READY"]
  /\ reservation' = [reservation EXCEPT ![i] = "RESERVED"]
  /\ lane' = [lane EXCEPT ![i] = lastLane + 1]
  /\ lastLane' = lastLane + 1
  /\ Outbox!Append(i)
  /\ UNCHANGED <<expired, attemptNo, attempt, reconciliation, pc, seen, call,
                 lateSettles>>

\* Faulty: a new run does not wait for the calls of the run before it.
QuietFaulty(i) == i \in Intents

\* The timing assumption on the gap between two runs of one intent.
Quiet(i) == CallsOutlive \/ \A n \in Numbers : call[i][n] \notin Unresolved

\* Temporal refuses a second open run of the same workflow id, and the
\* consumer takes that refusal for success.
StartRun(i) ==
  IF pc[i] = "closed"
  THEN Quiet(i) /\ Goto(i, "claim")
  ELSE UNCHANGED <<pc, seen>>

\* The relay hands the event to the consumer at least once, and perhaps again
\* when its mark or its claim was lost, even after the event was published.
RelayDeliver(i) ==
  /\ outbox[i] # "absent"
  /\ StartRun(i)
  /\ IF outbox[i] = "pending" THEN Outbox!Deliver(i) ELSE UNCHANGED outbox
  /\ UNCHANGED <<rows, slots, expired, call, lateSettles>>

RelayPublishes(i) ==
  /\ Outbox!Publish(i)
  /\ UNCHANGED <<rows, slots, expired, pc, seen, call, lateSettles>>

\* Faulty: the scan skips reservations that are past expires_at.
RecoverStaleSendFaulty(i) ==
  /\ intent[i] = "DISPATCHING"
  /\ reservation[i] = "RESERVED"
  /\ i \notin expired
  /\ Latest(i) = "DISPATCHING"
  /\ StartRun(i)
  /\ UNCHANGED <<rows, slots, expired, outbox, call, lateSettles>>

\* The worker's periodic scan for dispatches that started long ago.
RecoverStaleSend(i) ==
  /\ intent[i] = "DISPATCHING"
  /\ reservation[i] = "RESERVED"
  /\ Latest(i) = "DISPATCHING"
  /\ StartRun(i)
  /\ UNCHANGED <<rows, slots, expired, outbox, call, lateSettles>>

Expire(i) ==
  /\ reservation[i] = "RESERVED"
  /\ expired' = expired \cup {i}
  /\ UNCHANGED <<rows, slots, outbox, pc, seen, call, lateSettles>>

-----------------------------------------------------------------------------
(* claim: one transaction under the connection's gmail-send lock *)

\* Faulty: expired slots do not hold up the lane.
NoEarlierReservedFaulty(i) ==
  \A j \in Intents :
    reservation[j] = "RESERVED" /\ j \notin expired => lane[j] >= lane[i]

NoEarlierReserved(i) ==
  \A j \in Intents : reservation[j] = "RESERVED" => lane[j] >= lane[i]

\* The answers that change no row: already completed, needs reconciliation,
\* already failed.  A slot that must wait is a claim not taken.
ClaimAnswered(i) ==
  /\ pc[i] = "claim"
  /\ \/ /\ Latest(i) \in {"PROVIDER_ACCEPTED", "FAILED_FINAL"}
        /\ Goto(i, "closed")
     \/ /\ Latest(i) \in {"DISPATCHING", "DELIVERY_UNKNOWN"}
        /\ Goto(i, "load")
     \/ /\ Latest(i) \in Retryable \cup {"NONE"}
        /\ reservation[i] = "RELEASED"
        /\ Goto(i, "closed")
  /\ UNCHANGED <<rows, slots, expired, outbox, call, lateSettles>>

\* Faulty: a stalled dispatch is claimed again without asking Gmail.
ClaimableFaulty(i) ==
  /\ pc[i] = "claim"
  /\ Latest(i) \in Retryable \cup {"NONE", "DISPATCHING"}
  /\ reservation[i] = "RESERVED"

Claimable(i) ==
  /\ pc[i] = "claim"
  /\ Latest(i) \in Retryable \cup {"NONE"}
  /\ reservation[i] = "RESERVED"

\* Expired, or out of attempts: the intent fails and gives its slot back.
ClaimGivesUp(i) ==
  /\ Claimable(i)
  /\ i \in expired \/ attemptNo[i] = MaxAttempts
  /\ intent' = [intent EXCEPT ![i] = "FAILED_FINAL"]
  /\ reservation' = [reservation EXCEPT ![i] = "RELEASED"]
  /\ Goto(i, "closed")
  /\ UNCHANGED <<slots, expired, attemptNo, attempt, reconciliation, outbox,
                 call, lateSettles>>

\* The next attempt is written DISPATCHING before Gmail is called.  When the
\* claim outlives its time limit the rows are there and nobody dispatches.
ClaimSlot(i) ==
  /\ Claimable(i)
  /\ i \notin expired
  /\ attemptNo[i] < MaxAttempts
  /\ NoEarlierReserved(i)
  /\ LET n == attemptNo[i] + 1
     IN /\ attemptNo' = [attemptNo EXCEPT ![i] = n]
        /\ attempt' = [attempt EXCEPT ![i][n] = "DISPATCHING"]
        /\ \/ /\ Goto(i, "dispatch")
              /\ call' = [call EXCEPT ![i][n] = "preparing"]
           \/ /\ "claim" \in Failing
              /\ Goto(i, "closed")
              /\ UNCHANGED call
  /\ intent' = [intent EXCEPT ![i] = "DISPATCHING"]
  /\ UNCHANGED <<reservation, slots, expired, reconciliation, outbox,
                 lateSettles>>

-----------------------------------------------------------------------------
(* dispatch: the activity of attempt n, whether or not its run still waits *)

Awaited(i, n) == pc[i] = "dispatch" /\ n = attemptNo[i]

\* The policy gate passes on what one transaction read ...
PassGate(i, n) ==
  /\ call[i][n] = "preparing"
  /\ reservation[i] = "RESERVED"
  /\ i \notin expired
  /\ call' = [call EXCEPT ![i][n] = "cleared"]
  /\ UNCHANGED <<rows, slots, expired, outbox, pc, seen, lateSettles>>

\* ... and only then is Gmail called.
CallGmail(i, n) ==
  /\ call[i][n] = "cleared"
  /\ call' = [call EXCEPT ![i][n] = "inflight"]
  /\ UNCHANGED <<rows, slots, expired, outbox, pc, seen, lateSettles>>

\* settlementFor a definitely_not_sent result, which the result calls
\* retryable or not.
NotSentSettlement(n) ==
  {"FAILED_FINAL"} \cup IF n < MaxAttempts THEN {"FAILED_RETRYABLE"} ELSE {}

\* definitely_not_sent: the gate blocks, a step before the call fails, or
\* Gmail refuses the message.
NotSent(i, n) ==
  /\ call[i][n] \in Unresolved
  /\ call' = [call EXCEPT ![i][n] = "dropped"]
  /\ IF Awaited(i, n)
     THEN \E settlement \in NotSentSettlement(n) :
            GotoSeeing(i, "settle", settlement)
     ELSE UNCHANGED <<pc, seen>>
  /\ UNCHANGED <<rows, slots, expired, outbox, lateSettles>>

\* Gmail puts the message in the mailbox; the sender need not learn it.
GmailAccepts(i, n) ==
  /\ call[i][n] = "inflight"
  /\ call' = [call EXCEPT ![i][n] = "accepted"]
  /\ UNCHANGED <<rows, slots, expired, outbox, pc, seen, lateSettles>>

\* The worker dies before the call, or the request is lost on its way.
CallLost(i, n) ==
  /\ call[i][n] \in Unresolved
  /\ call' = [call EXCEPT ![i][n] = "dropped"]
  /\ UNCHANGED <<rows, slots, expired, outbox, pc, seen, lateSettles>>

\* Faulty: a request that has left counts as accepted.
ReturnAcceptedFaulty(i) ==
  /\ pc[i] = "dispatch"
  /\ call[i][attemptNo[i]] \in {"inflight", "accepted"}
  /\ GotoSeeing(i, "settle", "PROVIDER_ACCEPTED")
  /\ UNCHANGED <<rows, slots, expired, outbox, call, lateSettles>>

ReturnAccepted(i) ==
  /\ pc[i] = "dispatch"
  /\ call[i][attemptNo[i]] = "accepted"
  /\ GotoSeeing(i, "settle", "PROVIDER_ACCEPTED")
  /\ UNCHANGED <<rows, slots, expired, outbox, call, lateSettles>>

\* Faulty: an ambiguous answer is taken for a failure that may be retried.
ReturnUnknownFaulty(i) ==
  /\ pc[i] = "dispatch"
  /\ call[i][attemptNo[i]] \in {"inflight", "accepted"}
  /\ GotoSeeing(i, "settle", "FAILED_RETRYABLE")
  /\ UNCHANGED <<rows, slots, expired, outbox, call, lateSettles>>

\* acceptance_unknown: 5xx, a timeout or a broken connection after the
\* request left.  The request may still be on its way.
ReturnUnknown(i) ==
  /\ pc[i] = "dispatch"
  /\ call[i][attemptNo[i]] \in {"inflight", "accepted"}
  /\ GotoSeeing(i, "settle", "DELIVERY_UNKNOWN")
  /\ UNCHANGED <<rows, slots, expired, outbox, call, lateSettles>>

-----------------------------------------------------------------------------
(* settle: one transaction under the gmail-send lock, fenced by the attempt *)

\* Faulty: an unknown result keeps its slot until it is reconciled.
QuotaAfterFaulty(i, settlement) ==
  CASE settlement = "PROVIDER_ACCEPTED" -> "CONSUMED"
    [] settlement = "FAILED_FINAL" -> "RELEASED"
    [] OTHER -> reservation[i]

QuotaAfter(i, settlement) ==
  CASE settlement \in {"PROVIDER_ACCEPTED", "DELIVERY_UNKNOWN"} -> "CONSUMED"
    [] settlement = "FAILED_FINAL" -> "RELEASED"
    [] OTHER -> reservation[i]

\* Faulty: the settlement does not look at the status of the attempt.
SettleRowsFaulty(i, n, settlement) ==
  /\ attempt' = [attempt EXCEPT ![i][n] = settlement]
  /\ intent' = [intent EXCEPT ![i] = StatusOf(settlement)]
  /\ reservation' = [reservation EXCEPT ![i] = QuotaAfter(i, settlement)]
  /\ UNCHANGED <<attemptNo, reconciliation>>

\* The first settlement of an attempt wins; every later one only reads it.
\* The exceptions of `settle` and `claim` ("cannot be consumed", "cannot be
\* released", "has no accepted or unknown Send Attempt") are steps that are
\* not enabled here; RowsAgree says that no state reaches them.
SettleRows(i, n, settlement) ==
  IF attempt[i][n] = "DISPATCHING"
  THEN /\ settlement \in Retryable \/ reservation[i] = "RESERVED"
       /\ attempt' = [attempt EXCEPT ![i][n] = settlement]
       /\ intent' = [intent EXCEPT ![i] = StatusOf(settlement)]
       /\ reservation' =
            [reservation EXCEPT ![i] = QuotaAfter(i, settlement)]
       /\ UNCHANGED <<attemptNo, reconciliation>>
  ELSE UNCHANGED rows

\* Where the run goes on an attempt that reads `settled`; an unknown result
\* is reconciled by the send loop and only reported by the recovery.
AfterSettle(settled, ifUnknown) ==
  CASE settled \in Retryable -> "claim"
    [] settled = "DELIVERY_UNKNOWN" -> ifUnknown
    [] OTHER -> "closed"

Settle(i) ==
  /\ pc[i] = "settle"
  /\ SettleRows(i, attemptNo[i], seen[i])
  /\ Goto(i, AfterSettle(attempt'[i][attemptNo[i]], "load"))
  /\ UNCHANGED <<slots, expired, outbox, call, lateSettles>>

Recover(i) ==
  /\ pc[i] = "recover"
  /\ SettleRows(i, attemptNo[i], seen[i])
  /\ Goto(i, AfterSettle(attempt'[i][attemptNo[i]], "closed"))
  /\ UNCHANGED <<slots, expired, outbox, call, lateSettles>>

\* Faulty: a late settlement is applied to whichever attempt is the latest.
LateSettleFaulty(m) ==
  /\ m \in lateSettles
  /\ lateSettles' = lateSettles \ {m}
  /\ \/ SettleRows(m.intent, attemptNo[m.intent], m.settlement)
     \/ UNCHANGED rows
  /\ UNCHANGED <<slots, expired, outbox, pc, seen, call>>

\* A settlement whose run has closed commits, or dies with its worker.
LateSettle(m) ==
  /\ m \in lateSettles
  /\ lateSettles' = lateSettles \ {m}
  /\ SettleRows(m.intent, m.no, m.settlement) \/ UNCHANGED rows
  /\ UNCHANGED <<slots, expired, outbox, pc, seen, call>>

-----------------------------------------------------------------------------
(* reconciliation of an attempt whose outcome the run does not know *)

Load(i) ==
  /\ pc[i] = "load"
  /\ IF /\ reconciliation[i] = "NONE"
        /\ \/ /\ Latest(i) = "DISPATCHING" /\ intent[i] = "DISPATCHING"
              /\ reservation[i] = "RESERVED"
           \/ /\ Latest(i) = "DELIVERY_UNKNOWN"
              /\ intent[i] = "DELIVERY_UNKNOWN"
              /\ reservation[i] = "CONSUMED"
     THEN GotoSeeing(i, "query", Latest(i))
     ELSE Goto(i, "closed")
  /\ UNCHANGED <<rows, slots, expired, outbox, call, lateSettles>>

\* Gmail is asked for the attempt's RFC Message-ID.
QueryFound(i) ==
  /\ pc[i] = "query"
  /\ call[i][attemptNo[i]] = "accepted"
  /\ GotoSeeing(i, IF seen[i] = "DISPATCHING" THEN "recover" ELSE "reconcile",
                "PROVIDER_ACCEPTED")
  /\ UNCHANGED <<rows, slots, expired, outbox, call, lateSettles>>

\* Faulty: a search without an answer counts as not found.
QueryNotFoundFaulty(i) ==
  /\ pc[i] = "query"
  /\ IF seen[i] = "DISPATCHING"
     THEN GotoSeeing(i, "recover", "NOT_FOUND")
     ELSE Goto(i, "closed")
  /\ UNCHANGED <<rows, slots, expired, outbox, call, lateSettles>>

QueryNotFound(i) ==
  /\ pc[i] = "query"
  /\ call[i][attemptNo[i]] # "accepted"
  /\ IF seen[i] = "DISPATCHING"
     THEN GotoSeeing(i, "recover", "NOT_FOUND")
     ELSE Goto(i, "closed")
  /\ UNCHANGED <<rows, slots, expired, outbox, call, lateSettles>>

\* recheck_required, or manual_confirmation_required: nothing is written.
QueryInconclusive(i) ==
  /\ pc[i] = "query"
  /\ Goto(i, "closed")
  /\ UNCHANGED <<rows, slots, expired, outbox, call, lateSettles>>

\* The reconciliation fact is written once per attempt; a decision that
\* comes second is answered with the fact or refused.
RecordReconciliation(i, outcome) ==
  IF /\ reconciliation[i] = "NONE"
     /\ Latest(i) = "DELIVERY_UNKNOWN"
     /\ intent[i] = "DELIVERY_UNKNOWN"
     /\ reservation[i] = "CONSUMED"
  THEN /\ reconciliation' = [reconciliation EXCEPT ![i] = outcome]
       /\ intent' = [intent EXCEPT ![i] =
            IF outcome = "CONFIRMED_NOT_SENT" THEN "FAILED_FINAL" ELSE outcome]
       /\ UNCHANGED <<reservation, attemptNo, attempt>>
  ELSE UNCHANGED rows

Reconcile(i) ==
  /\ pc[i] = "reconcile"
  /\ RecordReconciliation(i, "PROVIDER_ACCEPTED")
  /\ Goto(i, "closed")
  /\ UNCHANGED <<slots, expired, outbox, call, lateSettles>>

\* An operator's decision on a result that Gmail could not prove.
ManualDecision(i) ==
  /\ intent[i] = "DELIVERY_UNKNOWN"
  /\ \E outcome \in Outcome :
       RecordReconciliation(i, outcome)
  /\ UNCHANGED <<slots, expired, outbox, pc, seen, call, lateSettles>>

\* An activity exceeds its time limit and the run fails; a settlement on its
\* way to the database stays on its way.
ActivityTimesOut(i) ==
  /\ pc[i] \in Failing
  /\ Goto(i, "closed")
  /\ lateSettles' =
       IF pc[i] \in {"settle", "recover"}
       THEN lateSettles \cup
              {[intent |-> i, no |-> attemptNo[i], settlement |-> seen[i]]}
       ELSE lateSettles
  /\ UNCHANGED <<rows, slots, expired, outbox, call>>

-----------------------------------------------------------------------------

RunStep(i) ==
  \/ ClaimAnswered(i) \/ ClaimGivesUp(i) \/ ClaimSlot(i)
  \/ ReturnAccepted(i) \/ ReturnUnknown(i)
  \/ Settle(i) \/ Recover(i)
  \/ Load(i) \/ QueryFound(i) \/ QueryNotFound(i) \/ QueryInconclusive(i)
  \/ Reconcile(i)

CallStep(i, n) ==
  \/ PassGate(i, n) \/ CallGmail(i, n) \/ NotSent(i, n)
  \/ GmailAccepts(i, n) \/ CallLost(i, n)

IntentStep(i) ==
  \/ CreateIntent(i) \/ RelayDeliver(i) \/ RelayPublishes(i)
  \/ RecoverStaleSend(i) \/ Expire(i)
  \/ RunStep(i) \/ ManualDecision(i) \/ ActivityTimesOut(i)
  \/ \E n \in Numbers : CallStep(i, n)

Next ==
  \/ \E i \in Intents : IntentStep(i)
  \/ \E m \in lateSettles : LateSettle(m)

Spec == Init /\ [][Next]_vars

\* Fairness.  The relay and the recovery scan run in a loop, Temporal drives
\* every open run and enforces the time limit of its activities, a call that
\* was issued comes to an end, and Gmail's search is not down for ever.
Fairness ==
  \A i \in Intents :
    /\ WF_vars(outbox[i] = "pending" /\ RelayDeliver(i))
    /\ WF_vars(RecoverStaleSend(i))
    /\ WF_vars(RunStep(i))
    /\ SF_vars(QueryFound(i) \/ QueryNotFound(i))
    /\ WF_vars(\E n \in Numbers : CallStep(i, n))
    /\ WF_vars(ActivityTimesOut(i))

FairSpec == Spec /\ Fairness

-----------------------------------------------------------------------------
(* Properties *)

\* The intent, its latest attempt, its quota reservation and its
\* reconciliation fact always tell one story, whatever the order in which
\* claims, late settlements, recoveries and decisions commit.  It is what the
\* "cannot be consumed", "cannot be released" and "has no accepted or unknown
\* Send Attempt" exceptions of the repositories take for granted.
RowsOf(i) ==
  <<intent[i], Latest(i), reservation[i], reconciliation[i]>> \in
    {<<"NONE", "NONE", "NONE", "NONE">>,
     <<"READY", "NONE", "RESERVED", "NONE">>,
     <<"DISPATCHING", "DISPATCHING", "RESERVED", "NONE">>,
     <<"FAILED_RETRYABLE", "FAILED_RETRYABLE", "RESERVED", "NONE">>,
     <<"FAILED_RETRYABLE", "NOT_FOUND", "RESERVED", "NONE">>,
     <<"PROVIDER_ACCEPTED", "PROVIDER_ACCEPTED", "CONSUMED", "NONE">>,
     <<"DELIVERY_UNKNOWN", "DELIVERY_UNKNOWN", "CONSUMED", "NONE">>,
     <<"PROVIDER_ACCEPTED", "DELIVERY_UNKNOWN", "CONSUMED",
       "PROVIDER_ACCEPTED">>,
     <<"FAILED_FINAL", "DELIVERY_UNKNOWN", "CONSUMED", "CONFIRMED_NOT_SENT">>,
     <<"FAILED_FINAL", "NONE", "RELEASED", "NONE">>,
     <<"FAILED_FINAL", "FAILED_RETRYABLE", "RELEASED", "NONE">>,
     <<"FAILED_FINAL", "NOT_FOUND", "RELEASED", "NONE">>,
     <<"FAILED_FINAL", "FAILED_FINAL", "RELEASED", "NONE">>}

RowsAgree == \A i \in Intents : RowsOf(i)

\* No attempt is ever made after one that was accepted, is unknown, failed
\* for good or is still dispatching: all but the latest are retryable.
AttemptsOf(i) ==
  \A n \in Numbers :
    /\ n < attemptNo[i] => attempt[i][n] \in Retryable
    /\ n = attemptNo[i] => attempt[i][n] # "NONE"
    /\ n > attemptNo[i] => attempt[i][n] = "NONE"

OnlyRetryableIsRetried == \A i \in Intents : AttemptsOf(i)

\* The mailbox is served in lane order: once an intent has been claimed no
\* slot before it is still reserved.  Hence the mailbox has at most one
\* dispatching attempt, across intents, retries and recoveries.
LaneOrder ==
  \A i, j \in Intents :
    attemptNo[i] > 0 /\ reservation[j] = "RESERVED" => lane[j] >= lane[i]

\* The recipient gets the e-mail of an intent at most once, however often its
\* workflow is restarted.
AtMostOneDelivery ==
  \A i \in Intents : \A m, n \in Numbers :
    call[i][m] = "accepted" /\ call[i][n] = "accepted" => m = n

\* An intent that the pipeline declares FAILED_FINAL by itself (and whose
\* logical message may then be submitted again) never reached the mailbox,
\* and its quota slot was released for a message that was not sent.
FailedMeansNotSent ==
  \A i \in Intents :
    intent[i] = "FAILED_FINAL" /\ reconciliation[i] = "NONE"
      => \A n \in Numbers : call[i][n] # "accepted"

\* Terminal rows are final: an attempt is settled once, a slot is consumed or
\* released once, a reconciliation is decided once, and neither an accepted
\* nor a failed intent is ever reopened, by no late or repeated activity.
FactsAreFinal ==
  [][\A i \in Intents :
       /\ \A n \in Numbers :
            attempt[i][n] \in Settlement => attempt'[i][n] = attempt[i][n]
       /\ reservation[i] \in {"CONSUMED", "RELEASED"}
            => reservation'[i] = reservation[i]
       /\ reconciliation[i] # "NONE"
            => reconciliation'[i] = reconciliation[i]
       /\ intent[i] \in {"PROVIDER_ACCEPTED", "FAILED_FINAL"}
            => intent'[i] = intent[i]]_vars

\* Where a run stands and what it holds agree with the rows it works on, and
\* what a late settlement brings is no news about the attempt of the run that
\* dispatches: together with the three properties above, the inductive
\* invariant of the rows.
RunOf(i) ==
  /\ intent[i] = "NONE" => pc[i] = "closed" /\ outbox[i] = "absent"
  /\ pc[i] \in {"dispatch", "settle"} => Latest(i) = "DISPATCHING"
  /\ pc[i] \in {"load", "query", "recover", "reconcile"} => attemptNo[i] > 0
  /\ pc[i] = "settle" => seen[i] \in Settlement \ {"NOT_FOUND"}
  /\ pc[i] = "recover" => seen[i] \in {"NOT_FOUND", "PROVIDER_ACCEPTED"}

LateSettlesAgree ==
  \A m \in lateSettles :
    /\ m.no <= attemptNo[m.intent]
    /\ pc[m.intent] \in {"dispatch", "settle"} => m.no < attemptNo[m.intent]

RunsAgree == LateSettlesAgree /\ \A i \in Intents : RunOf(i)

LanesAreNumbered ==
  /\ \A i \in Intents : lane[i] <= lastLane
  /\ \A i, j \in Intents :
       /\ reservation[i] # "NONE" /\ reservation[j] # "NONE"
       /\ lane[i] = lane[j]
       => i = j

IInv ==
  /\ TypeOK
  /\ RowsAgree
  /\ OnlyRetryableIsRetried
  /\ RunsAgree
  /\ LanesAreNumbered
  /\ LaneOrder

\* Whoever says that an attempt was not sent -- its row, the run that is about
\* to settle it, a settlement still under way -- is right, and no search of
\* the mailbox overtakes the call it searches for.  This is what the timing
\* assumption buys, and what AtMostOneDelivery rests on.
VerdictsOf(i) ==
  LET latestCall == call[i][attemptNo[i]]
  IN /\ \A n \in Numbers :
          /\ n > attemptNo[i] => call[i][n] = "none"
          /\ attempt[i][n] \in NotSentVerdict => call[i][n] \in NeverSent
     /\ pc[i] \in {"settle", "recover"} /\ seen[i] \in NotSentVerdict
          => latestCall \in NeverSent
     /\ pc[i] \in {"claim", "load"} /\ Latest(i) = "DISPATCHING"
          => latestCall \notin Unresolved
     /\ pc[i] = "query" /\ seen[i] = "DISPATCHING"
          => latestCall \notin Unresolved

LateVerdictsAreTrue ==
  \A m \in lateSettles :
    m.settlement \in NotSentVerdict => call[m.intent][m.no] \in NeverSent

VerdictsAreTrue ==
  LateVerdictsAreTrue /\ \A i \in Intents : VerdictsOf(i)

\* A reserved slot is eventually consumed or released, so that the mailbox
\* lane behind it moves on.
SlotEventuallyFreed ==
  \A i \in Intents :
    reservation[i] = "RESERVED" ~> reservation[i] \in {"CONSUMED", "RELEASED"}

\* A "sent" that no operator vouched for is true: the attempt that the
\* pipeline takes for accepted is in the recipient's mailbox.
AcceptancesOf(i) ==
  /\ \A n \in Numbers :
       attempt[i][n] = "PROVIDER_ACCEPTED" => call[i][n] = "accepted"
  /\ pc[i] \in {"settle", "recover"} /\ seen[i] = "PROVIDER_ACCEPTED"
       => call[i][attemptNo[i]] = "accepted"

AcceptancesAreTrue ==
  /\ \A i \in Intents : AcceptancesOf(i)
  /\ \A m \in lateSettles :
       m.settlement = "PROVIDER_ACCEPTED" => call[m.intent][m.no] = "accepted"

-----------------------------------------------------------------------------
(* The pipeline keeps the promise of SendPromise *)

Shown(i) ==
  CASE intent[i] = "NONE" -> "none"
    [] intent[i] = "DELIVERY_UNKNOWN" -> "unknown"
    [] intent[i] = "PROVIDER_ACCEPTED" -> "sent"
    [] intent[i] = "FAILED_FINAL" ->
         IF reconciliation[i] = "NONE" THEN "failed" ELSE "disowned"
    [] OTHER -> "pending"

Delivered(i) == {n \in Numbers : call[i][n] = "accepted"}

Promise ==
  INSTANCE SendPromise WITH
    Copies <- Numbers,
    status <- [i \in Intents |-> Shown(i)],
    copies <- [i \in Intents |-> Delivered(i)]

\* Whatever the attempts, the late settlements, the recoveries and the
\* redelivered events do, the product sees a behaviour of SendPromise.
PromiseKept == Promise!Spec

-----------------------------------------------------------------------------
(* The mailbox, over all its intents, is the lane that MailboxQuota times *)

Dispatching == {i \in Intents : Latest(i) = "DISPATCHING"}

Mailbox ==
  INSTANCE SlotLane WITH slot <- reservation, dispatching <- Dispatching

\* Whatever late settlements, recoveries and decisions do, the slots of the
\* mailbox go through a behaviour of SlotLane: one dispatch at a time, in the
\* order of the lane.
LaneKept == Mailbox!Spec
=============================================================================
