-------------------------- MODULE SendPromiseProofs --------------------------
(***************************************************************************)
(* GmailSend implements SendPromise when no provider call is unresolved at *)
(* the start of a new run.  An acceptance is true under any timing: this   *)
(* is shown first.  Then every step of one intent, or of a late            *)
(* settlement, is a step of the promise or leaves what the product sees    *)
(* as it is.                                                               *)
(***************************************************************************)
EXTENDS GmailSendProofs

\* Which steps record an acceptance, or bring a run to a place where it may.
LEMMA AcceptanceSources ==
  ASSUME TypeOK, NEW i \in Intents, IntentOK(i), IntentStep(i)
  PROVE  /\ \A k \in Numbers : attempt'[i][k] = "PROVIDER_ACCEPTED" =>
              \/ attempt[i][k] = "PROVIDER_ACCEPTED"
              \/ /\ pc[i] \in {"settle", "recover"} /\ k = attemptNo[i]
                 /\ seen[i] = "PROVIDER_ACCEPTED"
         /\ pc'[i] \in {"settle", "recover"} /\ seen'[i] = "PROVIDER_ACCEPTED"
              => /\ ~ClaimSlot(i)
                 /\ \/ pc[i] = pc'[i] /\ seen[i] = seen'[i]
                    \/ call[i][attemptNo[i]] = "accepted"
<1> USE DEF TypeOK, RowsTypeOK, RunsTypeOK, IntentOK
<1>1. CASE CreateIntent(i) \/ Expire(i) \/ ManualDecision(i)
  <2>1. UNCHANGED <<attempt, pc, seen>>
    BY <1>1 DEF CreateIntent, Expire, ManualDecision, RecordReconciliation,
                rows
  <2> QED BY <2>1 DEF ClaimSlot, Claimable
<1>2. CASE \/ RelayDeliver(i) \/ RelayPublishes(i) \/ RecoverStaleSend(i)
           \/ ClaimAnswered(i) \/ ClaimGivesUp(i) \/ Load(i)
           \/ QueryInconclusive(i) \/ Reconcile(i) \/ ActivityTimesOut(i)
  <2>1. UNCHANGED attempt
    BY <1>2 DEF RelayDeliver, RelayPublishes, RecoverStaleSend, ClaimAnswered,
                ClaimGivesUp, Load, QueryInconclusive, Reconcile,
                RecordReconciliation, ActivityTimesOut, rows
  <2>2. UNCHANGED <<pc, seen>> \/ pc'[i] \in {"claim", "load", "query", "closed"}
    BY <1>2, GotoEffect, GotoNoneEffect
       DEF RelayDeliver, RelayPublishes, RecoverStaleSend, StartRun,
           ClaimAnswered, ClaimGivesUp, Load, QueryInconclusive, Reconcile,
           ActivityTimesOut
  <2> QED BY <2>1, <2>2 DEF ClaimSlot, Claimable
<1>3. CASE ClaimSlot(i)
  <2>1. \A k \in Numbers : attempt'[i][k] \in {attempt[i][k], "DISPATCHING"}
    BY <1>3 DEF ClaimSlot
  <2>2. pc'[i] \in {"dispatch", "closed"}
    BY <1>3, GotoNoneEffect DEF ClaimSlot
  <2> QED BY <2>1, <2>2
<1>4. CASE ReturnAccepted(i) \/ ReturnUnknown(i)
  <2>1. UNCHANGED attempt
    BY <1>4 DEF ReturnAccepted, ReturnUnknown, rows
  <2>2. /\ pc[i] = "dispatch"
        /\ \/ seen'[i] = "DELIVERY_UNKNOWN"
           \/ call[i][attemptNo[i]] = "accepted"
    BY <1>4, GotoEffect DEF ReturnAccepted, ReturnUnknown
  <2> QED BY <2>1, <2>2 DEF ClaimSlot, Claimable
<1>5. CASE Settle(i) \/ Recover(i)
  <2>1. attemptNo[i] \in Numbers /\ seen[i] \in Settlement
    BY <1>5, NoneBeforeFirst DEF Settle, Recover, RunOf, Settlement, Numbers
  <2>2. \A k \in Numbers : \/ attempt'[i][k] = attempt[i][k]
                           \/ k = attemptNo[i] /\ attempt'[i][k] = seen[i]
    BY <1>5, <2>1, SettleRowsVerdict DEF Settle, Recover
  <2>3. pc'[i] \in {"claim", "load", "closed"}
    BY <1>5, GotoNoneEffect DEF Settle, Recover, AfterSettle
  <2> QED BY <1>5, <2>2, <2>3 DEF Settle, Recover
<1>6. CASE QueryFound(i) \/ QueryNotFound(i)
  <2>1. UNCHANGED attempt
    BY <1>6 DEF QueryFound, QueryNotFound, rows
  <2>2. /\ pc[i] = "query"
        /\ \/ pc'[i] = "closed" \/ seen'[i] = "NOT_FOUND"
           \/ call[i][attemptNo[i]] = "accepted"
    BY <1>6, GotoEffect, GotoNoneEffect DEF QueryFound, QueryNotFound
  <2> QED BY <2>1, <2>2 DEF ClaimSlot, Claimable
<1>7. ASSUME NEW n \in Numbers, CallStep(i, n), UNCHANGED <<pc, seen>>
      PROVE  UNCHANGED <<attempt, pc, seen>>
  BY <1>7 DEF CallStep, PassGate, CallGmail, NotSent, GmailAccepts, CallLost,
              rows
<1>8. ASSUME NEW n \in Numbers, CallStep(i, n), ~UNCHANGED <<pc, seen>>
      PROVE  /\ UNCHANGED attempt /\ pc[i] = "dispatch"
             /\ seen'[i] \in {"FAILED_FINAL", "FAILED_RETRYABLE"}
  <2>1. NotSent(i, n) /\ Awaited(i, n)
    BY <1>8 DEF CallStep, PassGate, CallGmail, NotSent, GmailAccepts, CallLost
  <2>2. PICK settlement \in NotSentSettlement(n) :
               GotoSeeing(i, "settle", settlement)
    BY <2>1 DEF NotSent
  <2>3. seen'[i] = settlement
    BY <2>2, GotoEffect
  <2> QED BY <2>1, <2>3 DEF NotSent, Awaited, NotSentSettlement, rows
<1> QED BY <1>1, <1>2, <1>3, <1>4, <1>5, <1>6, <1>7, <1>8
        DEF IntentStep, RunStep, ClaimSlot, Claimable

\* A step of an intent keeps its acceptances true.
LEMMA IntentAcceptances ==
  ASSUME TypeOK, NEW i \in Intents, IntentOK(i), AcceptancesOf(i),
         IntentStep(i)
  PROVE  AcceptancesOf(i)'
<1> USE DEF TypeOK, RowsTypeOK
<1>1. ASSUME NEW k \in Numbers, call[i][k] = "accepted", k <= attemptNo[i]
      PROVE  call'[i][k] = "accepted"
  <2>1. call[i][k] \notin Unresolved
    BY <1>1 DEF Unresolved
  <2>2. k # attemptNo[i] + 1
    BY <1>1 DEF Numbers
  <2> QED BY <1>1, <2>1, <2>2, CallEffect
<1>2. ASSUME NEW k \in Numbers, attempt[i][k] # "NONE"
      PROVE  k <= attemptNo[i]
  BY <1>2 DEF IntentOK, AttemptsOf, Numbers
<1>3. ASSUME NEW k \in Numbers, attempt'[i][k] = "PROVIDER_ACCEPTED"
      PROVE  call'[i][k] = "accepted"
  <2>1. CASE attempt[i][k] = "PROVIDER_ACCEPTED"
    BY <1>1, <1>2, <2>1 DEF AcceptancesOf
  <2>2. CASE /\ pc[i] \in {"settle", "recover"} /\ k = attemptNo[i]
             /\ seen[i] = "PROVIDER_ACCEPTED"
    BY <1>1, <2>2 DEF AcceptancesOf
  <2> QED BY <1>3, <2>1, <2>2, AcceptanceSources
<1>4. ASSUME pc'[i] \in {"settle", "recover"}, seen'[i] = "PROVIDER_ACCEPTED"
      PROVE  call'[i][attemptNo'[i]] = "accepted"
  <2>1. ~ClaimSlot(i) /\ call[i][attemptNo[i]] = "accepted"
    BY <1>4, AcceptanceSources DEF AcceptancesOf
  <2>2. attemptNo'[i] = attemptNo[i]
    BY <2>1, WhatOneIntentDoes
  <2>3. attemptNo'[i] \in Numbers
    <3>1. IntentOK(i)'
      BY IntentStepKeepsIntent
    <3>2. attemptNo'[i] # 0
      BY <1>4, <2>2, <3>1 DEF IntentOK, RunOf, Latest
    <3>3. attemptNo[i] # 0 => attemptNo[i] \in Numbers
      BY NoneBeforeFirst DEF IntentOK
    <3> QED BY <2>2, <3>2, <3>3
  <2> QED BY <1>1, <2>1, <2>2, <2>3
<1> QED BY <1>3, <1>4 DEF AcceptancesOf

\* Every step keeps every acceptance true.
LEMMA AcceptancesStep ==
  ASSUME IInv, AcceptancesAreTrue, [Next]_vars
  PROVE  AcceptancesAreTrue'
<1>1. /\ TypeOK /\ LateSettlesAgree
      /\ \A j \in Intents : IntentOK(j) /\ AcceptancesOf(j)
  BY DEF IInv, RowsAgree, OnlyRetryableIsRetried, RunsAgree, IntentOK,
         AcceptancesAreTrue
<1>2. ASSUME NEW i \in Intents, IntentStep(i) PROVE AcceptancesAreTrue'
  <2>1. ASSUME NEW j \in Intents PROVE AcceptancesOf(j)'
    <3>1. CASE j = i
      BY <1>1, <1>2, <3>1, IntentAcceptances
    <3>2. CASE j # i
      BY <1>1, <1>2, <3>2, OthersUntouched DEF SameAt, AcceptancesOf
    <3> QED BY <3>1, <3>2
  <2>2. ASSUME NEW m \in lateSettles', m.settlement = "PROVIDER_ACCEPTED"
        PROVE  call'[m.intent][m.no] = "accepted"
    <3>1. CASE m \in lateSettles /\ m.intent # i
      BY <1>1, <1>2, <2>2, <3>1, OthersUntouched
         DEF SameAt, TypeOK, AcceptancesAreTrue
    <3>2. CASE m \in lateSettles /\ m.intent = i
      <4>1. /\ m.no \in Numbers /\ m.no <= attemptNo[i]
            /\ call[i][m.no] = "accepted"
        BY <1>1, <2>2, <3>2 DEF TypeOK, LateSettlesAgree, AcceptancesAreTrue
      <4>2. call[i][m.no] \notin Unresolved /\ m.no # attemptNo[i] + 1
        BY <1>1, <4>1 DEF Unresolved, Numbers, TypeOK, RowsTypeOK
      <4> QED BY <1>1, <1>2, <3>2, <4>1, <4>2, CallEffect
    <3>3. CASE m \notin lateSettles
      <4>1. ActivityTimesOut(i)
        BY <1>1, <1>2, <3>3, WhatOneIntentDoes
      <4>2. /\ m.intent = i /\ m.no = attemptNo[i] /\ m.settlement = seen[i]
            /\ pc[i] \in {"settle", "recover"} /\ call' = call
        BY <3>3, <4>1 DEF ActivityTimesOut
      <4> QED BY <1>1, <2>2, <4>2 DEF AcceptancesOf
    <3> QED BY <3>1, <3>2, <3>3
  <2> QED BY <2>1, <2>2 DEF AcceptancesAreTrue
<1>3. ASSUME NEW m \in lateSettles, LateSettle(m) PROVE AcceptancesAreTrue'
  <2>1. /\ m.intent \in Intents /\ m.no \in Numbers
        /\ m.settlement \in Settlement /\ m.no <= attemptNo[m.intent]
    BY <1>1 DEF TypeOK, LateSettlesAgree
  <2>2. /\ UNCHANGED <<pc, seen, call, attemptNo>>
        /\ lateSettles' \subseteq lateSettles
    BY <1>1, <1>3, LateSettleRowsEffect DEF LateSettle
  <2>3. ASSUME NEW j \in Intents, NEW k \in Numbers
        PROVE  \/ attempt'[j][k] = attempt[j][k]
               \/ j = m.intent /\ k = m.no /\ attempt'[j][k] = m.settlement
    BY <1>1, <1>3, <2>1 DEF TypeOK, RowsTypeOK, LateSettle, SettleRows, rows
  <2>4. ASSUME NEW j \in Intents PROVE AcceptancesOf(j)'
    BY <1>1, <2>2, <2>3 DEF AcceptancesOf, AcceptancesAreTrue
  <2> QED BY <2>2, <2>4 DEF AcceptancesAreTrue
<1>4. CASE UNCHANGED vars
  BY <1>4 DEF vars, AcceptancesAreTrue, AcceptancesOf
<1> QED BY <1>2, <1>3, <1>4 DEF Next

\* Nothing has been accepted at first.
LEMMA InitAcceptances == Init => AcceptancesAreTrue
  BY DEF Init, AcceptancesAreTrue, AcceptancesOf, Numbers

\* What the pipeline records as accepted by Gmail is in the mailbox, under
\* any timing of calls and runs.
THEOREM AcceptancesHold == Spec => []AcceptancesAreTrue
<1>1. IInv /\ AcceptancesAreTrue /\ [Next]_vars => AcceptancesAreTrue'
  BY AcceptancesStep
<1> QED BY <1>1, InitAcceptances, Inductive, PTL DEF Spec

-----------------------------------------------------------------------------
(* What the product sees of one intent *)

\* A copy that the recipient got belongs to the latest attempt.
LEMMA DeliveredByLatest ==
  ASSUME TypeOK, NEW i \in Intents, AttemptsOf(i), VerdictsOf(i),
         NEW n \in Numbers, call[i][n] \in {"accepted", "inflight"}
  PROVE  /\ n = attemptNo[i] /\ Latest(i) = attempt[i][n]
         /\ Latest(i) \notin NotSentVerdict \cup {"NONE"}
<1>1. attempt[i][n] \notin NotSentVerdict /\ ~(n > attemptNo[i])
  BY DEF VerdictsOf, NeverSent
<1>2. ~(n < attemptNo[i])
  BY <1>1 DEF AttemptsOf, NotSentVerdict
<1>3. n \in Nat \ {0} /\ attemptNo[i] \in Nat
  BY DEF TypeOK, RowsTypeOK, Numbers
<1>4. n = attemptNo[i]
  BY <1>1, <1>2, <1>3
<1> QED BY <1>1, <1>3, <1>4 DEF Latest, AttemptsOf

\* An intent whose latest attempt is not sent has reached nobody.
LEMMA NothingDelivered ==
  ASSUME TypeOK, NEW i \in Intents, AttemptsOf(i), VerdictsOf(i),
         \/ Latest(i) \in NotSentVerdict \cup {"NONE"}
         \/ call[i][attemptNo[i]] # "accepted"
  PROVE  Delivered(i) = {}
  BY DeliveredByLatest DEF Delivered

\* One step of the promise for one e-mail.
PromiseStep(i) ==
  \/ Shown(i)' = Shown(i) /\ Delivered(i)' = Delivered(i)
  \/ /\ Delivered(i)' = Delivered(i)
     /\ \/ Shown(i) = "none" /\ Shown(i)' = "pending"
        \/ Shown(i) = "pending" /\ Shown(i)' = "unknown"
        \/ /\ Shown(i) = "pending" /\ Shown(i)' = "sent"
           /\ Delivered(i) # {}
        \/ /\ Shown(i) = "pending" /\ Shown(i)' = "failed"
           /\ Delivered(i) = {}
        \/ Shown(i) = "unknown" /\ Shown(i)' \in {"sent", "disowned"}
  \/ /\ Shown(i)' = Shown(i) /\ Shown(i) \notin {"none", "failed"}
     /\ Delivered(i) = {} /\ \E n \in Numbers : Delivered(i)' = {n}

\* Deliveries change with the calls only ...
LEMMA SameCalls ==
  ASSUME NEW i \in Intents, call'[i] = call[i]
  PROVE  Delivered(i)' = Delivered(i)
  BY DEF Delivered

\* ... and what is shown with intent and reconciliation only.
LEMMA SameRowsShown ==
  ASSUME NEW i \in Intents, intent'[i] = intent[i],
         reconciliation'[i] = reconciliation[i]
  PROVE  Shown(i)' = Shown(i)
  BY DEF Shown

\* A settlement, awaited or late, is a step of the promise.
LEMMA SettlePromise ==
  ASSUME TypeOK, NEW i \in Intents, NEW n \in Numbers, n <= attemptNo[i],
         RowsOf(i), AttemptsOf(i), VerdictsOf(i),
         NEW settlement \in Settlement, SettleRows(i, n, settlement),
         UNCHANGED call,
         settlement = "PROVIDER_ACCEPTED" => call[i][n] = "accepted",
         settlement \in NotSentVerdict => call[i][n] \in NeverSent
  PROVE  PromiseStep(i)
<1>1. Delivered(i)' = Delivered(i)
  BY SameCalls
<1>2. CASE attempt[i][n] # "DISPATCHING"
  BY <1>1, <1>2, SameRowsShown DEF SettleRows, rows, PromiseStep
<1>3. CASE attempt[i][n] = "DISPATCHING"
  <2>1. /\ n = attemptNo[i] /\ intent[i] = "DISPATCHING"
        /\ reconciliation[i] = "NONE"
    BY <1>3, DispatchingRows
  <2>2. /\ intent'[i] = StatusOf(settlement)
        /\ reconciliation'[i] = "NONE"
    BY <1>3, <2>1 DEF SettleRows, TypeOK, RowsTypeOK
  <2>3. Shown(i) = "pending"
    BY <2>1 DEF Shown
  <2>4. CASE settlement = "PROVIDER_ACCEPTED"
    <3>1. Shown(i)' = "sent"
      BY <2>2, <2>4 DEF Shown, StatusOf, Retryable
    <3>2. Delivered(i) # {}
      BY <2>4 DEF Delivered
    <3> QED BY <1>1, <2>3, <3>1, <3>2 DEF PromiseStep
  <2>5. CASE settlement = "DELIVERY_UNKNOWN"
    <3>1. Shown(i)' = "unknown"
      BY <2>2, <2>5 DEF Shown, StatusOf, Retryable
    <3> QED BY <1>1, <2>3, <3>1 DEF PromiseStep
  <2>6. CASE settlement \in Retryable
    <3>1. Shown(i)' = "pending"
      BY <2>2, <2>6 DEF Shown, StatusOf
    <3> QED BY <1>1, <2>3, <3>1 DEF PromiseStep
  <2>7. CASE settlement = "FAILED_FINAL"
    <3>1. Shown(i)' = "failed"
      BY <2>2, <2>7 DEF Shown, StatusOf, Retryable
    <3>2. Delivered(i) = {}
      BY <2>1, <2>7, NothingDelivered DEF NotSentVerdict, NeverSent
    <3> QED BY <1>1, <2>3, <3>1, <3>2 DEF PromiseStep
  <2> QED BY <2>4, <2>5, <2>6, <2>7 DEF Settlement, Retryable
<1> QED BY <1>2, <1>3

\* A step of a provider call is a delivery or shows nothing.
LEMMA CallStepPromise ==
  ASSUME TypeOK, NEW i \in Intents, RowsOf(i), AttemptsOf(i), VerdictsOf(i),
         NEW n \in Numbers, CallStep(i, n)
  PROVE  PromiseStep(i)
<1>1. Shown(i)' = Shown(i)
  BY SameRowsShown DEF CallStep, PassGate, CallGmail, NotSent, GmailAccepts,
                       CallLost, rows
<1>2. CASE GmailAccepts(i, n)
  <2>1. call[i][n] = "inflight" /\ call' = [call EXCEPT ![i][n] = "accepted"]
    BY <1>2 DEF GmailAccepts
  <2>2. /\ n = attemptNo[i] /\ Latest(i) = attempt[i][n]
        /\ Latest(i) \notin NotSentVerdict \cup {"NONE"}
    BY <2>1, DeliveredByLatest
  <2>3. Delivered(i) = {}
    BY <2>1, <2>2, NothingDelivered
  <2>4. Delivered(i)' = {n}
    BY <2>1, <2>3 DEF Delivered, TypeOK
  <2>5. Shown(i) \notin {"none", "failed"}
    BY <2>2 DEF Shown, RowsOf, NotSentVerdict, Retryable
  <2> QED BY <1>1, <2>3, <2>4, <2>5 DEF PromiseStep
<1>3. CASE PassGate(i, n) \/ CallGmail(i, n) \/ NotSent(i, n) \/ CallLost(i, n)
  <2>1. PICK stage \in {"cleared", "inflight", "dropped"} :
          call' = [call EXCEPT ![i][n] = stage]
    BY <1>3 DEF PassGate, CallGmail, NotSent, CallLost
  <2>2. call[i][n] \in Unresolved
    BY <1>3 DEF PassGate, CallGmail, NotSent, CallLost, Unresolved
  <2>3. Delivered(i)' = Delivered(i)
    BY <2>1, <2>2 DEF Delivered, TypeOK, Unresolved
  <2> QED BY <1>1, <2>3 DEF PromiseStep
<1> QED BY <1>2, <1>3 DEF CallStep

\* Every step of an intent is a step of the promise.
LEMMA IntentPromise ==
  ASSUME TypeOK, NEW i \in Intents, IntentOK(i), VerdictsOf(i),
         AcceptancesOf(i), IntentStep(i)
  PROVE  PromiseStep(i)
<1> USE DEF IntentOK
<1>1. CASE CreateIntent(i)
  <2>1. intent[i] = "NONE" /\ intent'[i] = "READY" /\ UNCHANGED call
    BY <1>1 DEF CreateIntent, TypeOK, RowsTypeOK
  <2> QED BY <2>1, SameCalls DEF Shown, PromiseStep
<1>2. CASE ClaimGivesUp(i)
  <2>1. /\ Latest(i) \in Retryable \cup {"NONE"}
        /\ reservation[i] = "RESERVED"
        /\ intent'[i] = "FAILED_FINAL" /\ UNCHANGED <<reconciliation, call>>
    BY <1>2 DEF ClaimGivesUp, Claimable, TypeOK, RowsTypeOK
  <2>2. Shown(i) = "pending" /\ reconciliation[i] = "NONE"
    BY <2>1 DEF Shown, RowsOf, Retryable
  <2>3. Delivered(i) = {}
    BY <2>1, NothingDelivered DEF NotSentVerdict
  <2> QED BY <2>1, <2>2, <2>3, SameCalls DEF Shown, PromiseStep
<1>3. CASE ClaimSlot(i)
  <2> DEFINE next == attemptNo[i] + 1
  <2>1. /\ Latest(i) \in Retryable \cup {"NONE"}
        /\ reservation[i] = "RESERVED" /\ intent'[i] = "DISPATCHING"
        /\ UNCHANGED call \/ call' = [call EXCEPT ![i][next] = "preparing"]
    BY <1>3 DEF ClaimSlot, Claimable, TypeOK, RowsTypeOK
  <2>2. attemptNo[i] \in 0..MaxAttempts /\ attemptNo[i] < MaxAttempts
    BY <1>3 DEF ClaimSlot, TypeOK, RowsTypeOK
  <2>3. next \in Numbers /\ next > attemptNo[i]
    BY <2>2, MaxAttemptsAssumption DEF Numbers
  <2>4. Shown(i) = "pending" /\ Shown(i)' = "pending"
    BY <2>1 DEF Shown, RowsOf, Retryable
  <2>5. call[i][next] = "none"
    BY <2>3 DEF VerdictsOf
  <2>6. Delivered(i)' = Delivered(i)
    BY <2>1, <2>5, <2>3 DEF Delivered, TypeOK
  <2> QED BY <2>4, <2>6 DEF PromiseStep
<1>4. CASE Settle(i) \/ Recover(i)
  <2>1. /\ attemptNo[i] \in Numbers /\ attemptNo[i] <= attemptNo[i]
        /\ seen[i] \in Settlement
    BY <1>4, NoneBeforeFirst
       DEF Settle, Recover, RunOf, Settlement, Numbers, TypeOK, RowsTypeOK
  <2>2. /\ SettleRows(i, attemptNo[i], seen[i]) /\ UNCHANGED call
        /\ pc[i] \in {"settle", "recover"}
    BY <1>4 DEF Settle, Recover
  <2> QED BY <2>1, <2>2, SettlePromise DEF AcceptancesOf, VerdictsOf
<1>5. CASE Reconcile(i) \/ ManualDecision(i)
  <2>1. UNCHANGED call
    BY <1>5 DEF Reconcile, ManualDecision
  <2>2. PICK outcome \in Outcome : RecordReconciliation(i, outcome)
    BY <1>5 DEF Reconcile, ManualDecision, Outcome
  <2>3. CASE UNCHANGED rows
    BY <2>1, <2>3, SameCalls, SameRowsShown DEF rows, PromiseStep
  <2>4. CASE ~UNCHANGED rows
    <3>1. /\ intent[i] = "DELIVERY_UNKNOWN" /\ reconciliation'[i] # "NONE"
          /\ intent'[i] \in {"PROVIDER_ACCEPTED", "FAILED_FINAL"}
      BY <2>2, <2>4 DEF RecordReconciliation, TypeOK, RowsTypeOK, Outcome
    <3>2. Shown(i) = "unknown" /\ Shown(i)' \in {"sent", "disowned"}
      BY <3>1 DEF Shown
    <3> QED BY <2>1, <3>2, SameCalls DEF PromiseStep
  <2> QED BY <2>3, <2>4
<1>6. CASE \/ RelayDeliver(i) \/ RelayPublishes(i) \/ RecoverStaleSend(i)
           \/ Expire(i) \/ ClaimAnswered(i) \/ ReturnAccepted(i)
           \/ ReturnUnknown(i) \/ Load(i) \/ QueryFound(i)
           \/ QueryNotFound(i) \/ QueryInconclusive(i) \/ ActivityTimesOut(i)
  <2>1. UNCHANGED rows /\ UNCHANGED call
    BY <1>6 DEF RelayDeliver, RelayPublishes, RecoverStaleSend, Expire,
                ClaimAnswered, ReturnAccepted, ReturnUnknown, Load,
                QueryFound, QueryNotFound, QueryInconclusive, ActivityTimesOut
  <2> QED BY <2>1, SameCalls, SameRowsShown DEF rows, PromiseStep
<1> QED BY <1>1, <1>2, <1>3, <1>4, <1>5, <1>6, CallStepPromise
        DEF IntentStep, RunStep

-----------------------------------------------------------------------------
(* From one e-mail to all of them *)

SeesSame(j) == Shown(j)' = Shown(j) /\ Delivered(j)' = Delivered(j)

\* A step of the promise for one e-mail is one of SendPromise.
LEMMA PromiseOfOne ==
  ASSUME NEW i \in Intents, PromiseStep(i),
         \A j \in Intents : j # i => SeesSame(j)
  PROVE  [Promise!Next]_(Promise!vars)
<1> DEFINE status == [j \in Intents |-> Shown(j)]
           copies == [j \in Intents |-> Delivered(j)]
<1>1. SeesSame(i) => UNCHANGED Promise!vars
  BY DEF SeesSame, Promise!vars
<1>2. status' = [status EXCEPT ![i] = Shown(i)']
  BY DEF SeesSame
<1>3. copies' = [copies EXCEPT ![i] = Delivered(i)']
  BY DEF SeesSame
<1>4. Delivered(i)' = Delivered(i) => copies' = copies
  BY <1>3
<1>5. Shown(i)' = Shown(i) => status' = status
  BY <1>2
<1>6. status[i] = Shown(i) /\ copies[i] = Delivered(i)
  OBVIOUS
<1>7. ASSUME NEW s, Shown(i)' = s, Delivered(i)' = Delivered(i)
      PROVE  Promise!Become(i, s)
  BY <1>2, <1>4, <1>7 DEF Promise!Become
<1>8. ASSUME Shown(i)' = Shown(i), Shown(i) \notin {"none", "failed"},
             Delivered(i) = {}, NEW n \in Numbers, Delivered(i)' = {n}
      PROVE  Promise!Deliver(i)
  <2>1. copies' = [copies EXCEPT ![i] = {n}]
    BY <1>3, <1>8
  <2> QED BY <1>5, <1>6, <1>8, <2>1 DEF Promise!Deliver
<1> HIDE DEF status, copies
<1>9. CASE Delivered(i)' = Delivered(i) /\ Shown(i)' # Shown(i)
  <2>1. \/ Promise!Submit(i) \/ Promise!Doubt(i) \/ Promise!Accept(i)
        \/ Promise!Fail(i) \/ Promise!Decide(i)
    BY <1>6, <1>7, <1>9
       DEF PromiseStep, status, copies, Promise!Submit, Promise!Doubt,
           Promise!Accept, Promise!Fail, Promise!Decide
  <2> QED BY <2>1 DEF Promise!Next
<1> QED BY <1>1, <1>8, <1>9 DEF PromiseStep, SeesSame, Promise!Next

\* Every step of GmailSend is one of SendPromise, or shows nothing.
LEMMA PromiseNext ==
  ASSUME IInv, VerdictsAreTrue, AcceptancesAreTrue, [Next]_vars
  PROVE  [Promise!Next]_(Promise!vars)
<1>1. /\ TypeOK /\ LateSettlesAgree
      /\ \A j \in Intents : IntentOK(j) /\ VerdictsOf(j) /\ AcceptancesOf(j)
  BY DEF IInv, RowsAgree, OnlyRetryableIsRetried, RunsAgree, IntentOK,
         VerdictsAreTrue, AcceptancesAreTrue
<1>2. ASSUME NEW i \in Intents, IntentStep(i)
      PROVE  [Promise!Next]_(Promise!vars)
  <2>1. PromiseStep(i)
    BY <1>1, <1>2, IntentPromise
  <2>2. \A j \in Intents : j # i => SeesSame(j)
    BY <1>1, <1>2, OthersUntouched, SameCalls, SameRowsShown
       DEF SameAt, SeesSame
  <2> QED BY <2>1, <2>2, PromiseOfOne
<1>3. ASSUME NEW m \in lateSettles, LateSettle(m)
      PROVE  [Promise!Next]_(Promise!vars)
  <2>1. /\ m.intent \in Intents /\ m.no \in Numbers
        /\ m.settlement \in Settlement /\ m.no <= attemptNo[m.intent]
    BY <1>1 DEF TypeOK, LateSettlesAgree
  <2>2. UNCHANGED call
    BY <1>3 DEF LateSettle
  <2>3. CASE UNCHANGED rows
    <3>1. \A j \in Intents : SeesSame(j)
      BY <2>2, <2>3, SameCalls, SameRowsShown DEF rows, SeesSame
    <3>2. PromiseStep(m.intent)
      BY <2>1, <3>1 DEF SeesSame, PromiseStep
    <3> QED BY <2>1, <3>1, <3>2, PromiseOfOne
  <2>4. CASE SettleRows(m.intent, m.no, m.settlement)
    <3>1. PromiseStep(m.intent)
      BY <1>1, <2>1, <2>2, <2>4, SettlePromise
         DEF IntentOK, AcceptancesAreTrue, VerdictsAreTrue,
             LateVerdictsAreTrue
    <3>2. ASSUME NEW j \in Intents, j # m.intent PROVE SeesSame(j)
      <4>1. intent'[j] = intent[j] /\ reconciliation'[j] = reconciliation[j]
        BY <1>1, <2>1, <2>4, <3>2 DEF SettleRows, rows, TypeOK, RowsTypeOK
      <4> QED BY <2>2, <4>1, SameCalls, SameRowsShown DEF SeesSame
    <3> QED BY <2>1, <3>1, <3>2, PromiseOfOne
  <2> QED BY <1>3, <2>3, <2>4 DEF LateSettle
<1>4. CASE UNCHANGED vars
  <2>1. \A j \in Intents : SeesSame(j)
    BY <1>4, SameCalls, SameRowsShown DEF vars, SeesSame
  <2> QED BY <2>1 DEF SeesSame, Promise!vars
<1> QED BY <1>2, <1>3, <1>4 DEF Next

\* Nothing is shown at first.
LEMMA InitPromise == Init => Promise!Init
  BY DEF Init, Promise!Init, Shown, Delivered, Numbers

\* GmailSend implements SendPromise, for every set of e-mails and number of
\* attempts, when calls do not outlive the gap between two runs.
THEOREM KeepsPromise ==
  ASSUME CallsOutlive = FALSE
  PROVE  Spec => PromiseKept
<1>1. /\ IInv /\ VerdictsAreTrue /\ AcceptancesAreTrue /\ [Next]_vars
      => [Promise!Next]_(Promise!vars)
  BY PromiseNext
<1> QED BY <1>1, InitPromise, Inductive, AtMostOnce, AcceptancesHold, PTL
        DEF Spec, PromiseKept, Promise!Spec
=============================================================================
