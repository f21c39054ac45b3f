--------------------------- MODULE GmailSendProofs ---------------------------
(***************************************************************************)
(* What TLAPS proves of GmailSend, for every set of intents, every attempt *)
(* limit and every choice of activities that may fail.                     *)
(***************************************************************************)
EXTENDS GmailSend, TLAPS

USE MaxAttemptsAssumption, CallsOutliveAssumption

-----------------------------------------------------------------------------
(* What the helpers of the actions do to the types *)

\* A run that moves keeps the types of pc and seen.
LEMMA GotoType ==
  ASSUME RunsTypeOK, NEW i \in Intents, NEW label \in Activity \cup {"closed"},
         NEW value \in AttemptStatus, GotoSeeing(i, label, value)
  PROVE  RunsTypeOK'
  BY DEF RunsTypeOK, GotoSeeing

\* ... also when it holds nothing afterwards.
LEMMA GotoNoneType ==
  ASSUME RunsTypeOK, NEW i \in Intents, NEW label \in Activity \cup {"closed"},
         Goto(i, label)
  PROVE  RunsTypeOK'
  BY GotoType DEF Goto, AttemptStatus

\* Starting a run, or being refused, keeps the types of pc and seen.
LEMMA StartRunType ==
  ASSUME RunsTypeOK, NEW i \in Intents, StartRun(i)
  PROVE  RunsTypeOK'
<1>1. CASE pc[i] = "closed"
  BY <1>1, GotoNoneType DEF StartRun, Activity
<1>2. CASE pc[i] # "closed"
  BY <1>2 DEF StartRun, RunsTypeOK
<1> QED BY <1>1, <1>2

\* A settlement writes values of the right types.
LEMMA SettleRowsType ==
  ASSUME RowsTypeOK, NEW i \in Intents, NEW n \in Numbers,
         NEW settlement \in Settlement, SettleRows(i, n, settlement)
  PROVE  RowsTypeOK'
<1>1. CASE attempt[i][n] = "DISPATCHING"
  <2>1. StatusOf(settlement) \in IntentStatus
    BY DEF StatusOf, Settlement, Retryable, IntentStatus
  <2>2. QuotaAfter(i, settlement) \in ReservationStatus
    BY DEF QuotaAfter, ReservationStatus, RowsTypeOK
  <2>3. settlement \in AttemptStatus
    BY DEF AttemptStatus
  <2>4. intent' \in [Intents -> IntentStatus]
    BY <1>1, <2>1 DEF SettleRows, RowsTypeOK
  <2>5. reservation' \in [Intents -> ReservationStatus]
    BY <1>1, <2>2 DEF SettleRows, RowsTypeOK
  <2>6. attempt' \in [Intents -> [Numbers -> AttemptStatus]]
    <3>1. attempt' = [attempt EXCEPT ![i][n] = settlement]
      BY <1>1 DEF SettleRows
    <3> QED BY <2>3, <3>1 DEF RowsTypeOK
  <2> QED BY <1>1, <2>4, <2>5, <2>6 DEF SettleRows, RowsTypeOK
<1>2. CASE attempt[i][n] # "DISPATCHING"
  BY <1>2 DEF SettleRows, RowsTypeOK, rows
<1> QED BY <1>1, <1>2

\* A reconciliation writes values of the right types.
LEMMA RecordReconciliationType ==
  ASSUME RowsTypeOK, NEW i \in Intents, NEW outcome \in Outcome,
         RecordReconciliation(i, outcome)
  PROVE  RowsTypeOK'
<1>1. CASE UNCHANGED rows
  BY <1>1 DEF RowsTypeOK, rows
<1>2. CASE ~UNCHANGED rows
  BY <1>2 DEF RecordReconciliation, RowsTypeOK, IntentStatus, Outcome
<1> QED BY <1>1, <1>2

-----------------------------------------------------------------------------
(* Type correctness.  That a settlement is what a run in "settle" holds is   *)
(* part of RunOf, so the induction needs it.                                 *)

\* Nothing exists at first.
LEMMA InitType == Init => TypeOK
  BY DEF Init, TypeOK, RowsTypeOK, RunsTypeOK, IntentStatus, AttemptStatus,
         ReservationStatus, CallStage, NeverSent

\* The outbox moves one event on.
LEMMA OutboxEffect ==
  ASSUME TypeOK, NEW i \in Intents,
         Outbox!Append(i) \/ Outbox!Deliver(i) \/ Outbox!Publish(i)
  PROVE  /\ outbox' \in
              [Intents -> {"absent", "pending", "delivered", "published"}]
         /\ \A j \in Intents \ {i} : outbox'[j] = outbox[j]
  BY DEF TypeOK, Outbox!Append, Outbox!Deliver, Outbox!Publish, Outbox!Become

\* Every action keeps the types.
LEMMA TypeStep ==
  ASSUME TypeOK, RunsAgree, [Next]_vars
  PROVE  TypeOK'
<1> USE DEF TypeOK
<1>1. ASSUME NEW i \in Intents, CreateIntent(i) PROVE TypeOK'
  BY <1>1, OutboxEffect DEF CreateIntent, RowsTypeOK, RunsTypeOK,
                            IntentStatus, ReservationStatus
<1>2. ASSUME NEW i \in Intents,
             RelayDeliver(i) \/ RelayPublishes(i) \/ RecoverStaleSend(i)
      PROVE  TypeOK'
  <2>1. RunsTypeOK'
    BY <1>2, StartRunType DEF RelayDeliver, RelayPublishes, RecoverStaleSend,
                              RunsTypeOK
  <2> QED BY <1>2, <2>1, OutboxEffect DEF RelayDeliver, RelayPublishes, RecoverStaleSend,
                            rows, slots, RowsTypeOK
<1>3. ASSUME NEW i \in Intents, Expire(i) PROVE TypeOK'
  BY <1>3 DEF Expire, RowsTypeOK, RunsTypeOK, rows, slots
<1>4. ASSUME NEW i \in Intents, ClaimAnswered(i) PROVE TypeOK'
  <2>1. RunsTypeOK'
    BY <1>4, GotoNoneType DEF ClaimAnswered, Activity
  <2> QED BY <1>4, <2>1 DEF ClaimAnswered, RowsTypeOK, rows, slots
<1>5. ASSUME NEW i \in Intents, ClaimGivesUp(i) PROVE TypeOK'
  <2>1. RunsTypeOK'
    BY <1>5, GotoNoneType DEF ClaimGivesUp
  <2> QED BY <1>5, <2>1 DEF ClaimGivesUp, RowsTypeOK, slots, IntentStatus,
                            ReservationStatus
<1>6. ASSUME NEW i \in Intents, ClaimSlot(i) PROVE TypeOK'
  <2>1. RunsTypeOK'
    BY <1>6, GotoNoneType DEF ClaimSlot, Activity
  <2>2. attemptNo[i] + 1 \in Numbers /\ attemptNo[i] + 1 \in 0..MaxAttempts
    BY <1>6 DEF ClaimSlot, RowsTypeOK, Numbers
  <2>3. RowsTypeOK'
    BY <1>6, <2>2 DEF ClaimSlot, RowsTypeOK, IntentStatus, AttemptStatus
  <2>4. call' \in [Intents -> [Numbers -> CallStage]]
    <3>1. CASE UNCHANGED call
      BY <3>1
    <3>2. CASE call' = [call EXCEPT ![i][attemptNo[i] + 1] = "preparing"]
      BY <2>2, <3>2 DEF CallStage, Unresolved
    <3> QED BY <1>6, <3>1, <3>2 DEF ClaimSlot
  <2> QED BY <1>6, <2>1, <2>3, <2>4 DEF ClaimSlot, slots
<1>7. ASSUME NEW i \in Intents, ReturnAccepted(i) \/ ReturnUnknown(i)
      PROVE  TypeOK'
  <2>1. RunsTypeOK'
    BY <1>7, GotoType DEF ReturnAccepted, ReturnUnknown, Activity,
                          AttemptStatus, Settlement
  <2> QED BY <1>7, <2>1 DEF ReturnAccepted, ReturnUnknown, RowsTypeOK, rows,
                            slots
<1>8. ASSUME NEW i \in Intents, Settle(i) \/ Recover(i) PROVE TypeOK'
  <2>1. attemptNo[i] \in Numbers /\ seen[i] \in Settlement
    BY <1>8 DEF Settle, Recover, RunsAgree, RunOf, Latest, RowsTypeOK,
                Settlement, Numbers
  <2>2. RowsTypeOK'
    BY <1>8, <2>1, SettleRowsType DEF Settle, Recover
  <2>3. RunsTypeOK'
    BY <1>8, GotoNoneType DEF Settle, Recover, AfterSettle, Activity
  <2> QED BY <1>8, <2>2, <2>3 DEF Settle, Recover, slots
<1>9. ASSUME NEW i \in Intents, Load(i) \/ QueryFound(i) \/ QueryNotFound(i)
                                \/ QueryInconclusive(i)
      PROVE  TypeOK'
  <2>1. Latest(i) \in AttemptStatus
    BY DEF Latest, RowsTypeOK, Numbers, AttemptStatus
  <2>2. RunsTypeOK'
    BY <1>9, <2>1, GotoType, GotoNoneType
       DEF Load, QueryFound, QueryNotFound, QueryInconclusive, Activity,
           AttemptStatus, Settlement
  <2> QED BY <1>9, <2>2 DEF Load, QueryFound, QueryNotFound,
                            QueryInconclusive, RowsTypeOK, rows, slots
<1>10. ASSUME NEW i \in Intents, Reconcile(i) PROVE TypeOK'
  <2>1. RowsTypeOK'
    BY <1>10, RecordReconciliationType DEF Reconcile, Outcome
  <2>2. RunsTypeOK'
    BY <1>10, GotoNoneType DEF Reconcile
  <2> QED BY <1>10, <2>1, <2>2 DEF Reconcile, slots
<1>11. ASSUME NEW i \in Intents, ManualDecision(i) PROVE TypeOK'
  <2>1. RowsTypeOK'
    BY <1>11, RecordReconciliationType DEF ManualDecision
  <2> QED BY <1>11, <2>1 DEF ManualDecision, slots, RunsTypeOK
<1>12. ASSUME NEW i \in Intents, ActivityTimesOut(i) PROVE TypeOK'
  <2>1. RunsTypeOK'
    BY <1>12, GotoNoneType DEF ActivityTimesOut
  <2>2. pc[i] \in {"settle", "recover"}
          => attemptNo[i] \in Numbers /\ seen[i] \in Settlement
    BY DEF RunsAgree, RunOf, Latest, RowsTypeOK, Settlement, Numbers
  <2>3. lateSettles' \subseteq
          [intent : Intents, no : Numbers, settlement : Settlement]
    BY <1>12, <2>2 DEF ActivityTimesOut
  <2> QED BY <1>12, <2>1, <2>3 DEF ActivityTimesOut, RowsTypeOK, rows, slots
<1>13. ASSUME NEW i \in Intents, NEW n \in Numbers, CallStep(i, n)
       PROVE  TypeOK'
  <2>1. call' \in [Intents -> [Numbers -> CallStage]]
    BY <1>13 DEF CallStep, PassGate, CallGmail, NotSent, GmailAccepts,
                 CallLost, CallStage, NeverSent, Unresolved
  <2>2. RunsTypeOK'
    <3>1. CASE NotSent(i, n)
      BY <3>1, GotoType DEF NotSent, NotSentSettlement, Activity,
                            AttemptStatus, Settlement, RunsTypeOK
    <3>2. CASE ~NotSent(i, n)
      BY <1>13, <3>2 DEF CallStep, PassGate, CallGmail, GmailAccepts,
                         CallLost, RunsTypeOK
    <3> QED BY <3>1, <3>2
  <2> QED BY <1>13, <2>1, <2>2
          DEF CallStep, PassGate, CallGmail, NotSent, GmailAccepts, CallLost,
              RowsTypeOK, rows, slots
<1>14. ASSUME NEW m \in lateSettles, LateSettle(m) PROVE TypeOK'
  <2>1. RowsTypeOK'
    <3>1. CASE UNCHANGED rows
      BY <3>1 DEF rows, RowsTypeOK
    <3>2. CASE SettleRows(m.intent, m.no, m.settlement)
      BY <3>2, SettleRowsType
    <3> QED BY <1>14, <3>1, <3>2 DEF LateSettle
  <2> QED BY <1>14, <2>1 DEF LateSettle, RunsTypeOK, slots
<1>15. CASE UNCHANGED vars
  BY <1>15 DEF vars, RowsTypeOK, RunsTypeOK
<1> QED BY <1>1, <1>2, <1>3, <1>4, <1>5, <1>6, <1>7, <1>8, <1>9, <1>10,
           <1>11, <1>12, <1>13, <1>14, <1>15 DEF Next, IntentStep, RunStep

-----------------------------------------------------------------------------
(* The rows of one intent *)

\* Latest is NONE exactly before the first attempt.
LEMMA NoneBeforeFirst ==
  ASSUME TypeOK, NEW i \in Intents, AttemptsOf(i)
  PROVE  /\ attemptNo[i] = 0 <=> Latest(i) = "NONE"
         /\ attemptNo[i] # 0 => attemptNo[i] \in Numbers
  BY DEF TypeOK, RowsTypeOK, AttemptsOf, Latest, Numbers

\* Only the latest attempt can be dispatching, and then nothing is decided.
LEMMA DispatchingRows ==
  ASSUME TypeOK, NEW i \in Intents, NEW n \in Numbers, n <= attemptNo[i],
         RowsOf(i), AttemptsOf(i), attempt[i][n] = "DISPATCHING"
  PROVE  /\ n = attemptNo[i] /\ Latest(i) = "DISPATCHING"
         /\ intent[i] = "DISPATCHING" /\ reservation[i] = "RESERVED"
         /\ reconciliation[i] = "NONE"
<1>1. n = attemptNo[i]
  <2>1. ~(n < attemptNo[i])
    BY DEF AttemptsOf, Retryable
  <2>2. attemptNo[i] \in Nat /\ n \in Nat
    BY DEF TypeOK, RowsTypeOK, Numbers
  <2> QED BY <2>1, <2>2
<1>2. Latest(i) = "DISPATCHING"
  BY <1>1 DEF Latest, Numbers
<1>3. /\ intent[i] = "DISPATCHING" /\ reservation[i] = "RESERVED"
      /\ reconciliation[i] = "NONE"
  BY <1>2 DEF RowsOf
<1> QED BY <1>1, <1>2, <1>3

\* The rows of an intent that no step touches stay as they are.
LEMMA SameRows ==
  ASSUME NEW i \in Intents, RowsOf(i), AttemptsOf(i),
         intent'[i] = intent[i], reservation'[i] = reservation[i],
         attemptNo'[i] = attemptNo[i], attempt'[i] = attempt[i],
         reconciliation'[i] = reconciliation[i]
  PROVE  RowsOf(i)' /\ AttemptsOf(i)' /\ Latest(i)' = Latest(i)
  BY DEF RowsOf, AttemptsOf, Latest

\* A settlement keeps the rows of its intent in agreement.
LEMMA SettleRowsAgree ==
  ASSUME TypeOK, NEW i \in Intents, NEW n \in Numbers, n <= attemptNo[i],
         NEW settlement \in Settlement, RowsOf(i), AttemptsOf(i),
         SettleRows(i, n, settlement)
  PROVE  /\ RowsOf(i)' /\ AttemptsOf(i)'
         /\ attempt[i][n] = "DISPATCHING" => Latest(i)' = settlement
         /\ attempt[i][n] # "DISPATCHING" => Latest(i)' = Latest(i)
         /\ attemptNo' = attemptNo
         /\ intent'[i] = "NONE" => intent[i] = "NONE"
<1>1. CASE attempt[i][n] = "DISPATCHING"
  <2>1. n = attemptNo[i] /\ intent[i] = "DISPATCHING"
        /\ reservation[i] = "RESERVED" /\ reconciliation[i] = "NONE"
    BY <1>1, DispatchingRows
  <2>2. /\ attempt' = [attempt EXCEPT ![i][n] = settlement]
        /\ intent'[i] = StatusOf(settlement)
        /\ reservation'[i] = QuotaAfter(i, settlement)
        /\ attemptNo' = attemptNo /\ reconciliation' = reconciliation
    BY <1>1 DEF SettleRows, TypeOK, RowsTypeOK
  <2>3. Latest(i)' = settlement
    BY <2>1, <2>2 DEF Latest, TypeOK, RowsTypeOK, Numbers
  <2>4. RowsOf(i)' /\ intent'[i] # "NONE"
    BY <2>1, <2>2, <2>3 DEF RowsOf, StatusOf, QuotaAfter, Settlement, Retryable
  <2>5. AttemptsOf(i)'
    BY <2>1, <2>2 DEF AttemptsOf, TypeOK, RowsTypeOK, Settlement, Numbers
  <2> QED BY <1>1, <2>2, <2>3, <2>4, <2>5
<1>2. CASE attempt[i][n] # "DISPATCHING"
  <2>1. UNCHANGED rows
    BY <1>2 DEF SettleRows
  <2> QED BY <1>2, <2>1, SameRows DEF rows
<1> QED BY <1>1, <1>2

\* A reconciliation keeps the rows of its intent in agreement.
LEMMA RecordReconciliationAgrees ==
  ASSUME TypeOK, NEW i \in Intents, NEW outcome \in Outcome, RowsOf(i),
         AttemptsOf(i), RecordReconciliation(i, outcome)
  PROVE  /\ RowsOf(i)' /\ AttemptsOf(i)' /\ Latest(i)' = Latest(i)
         /\ attemptNo' = attemptNo
         /\ intent'[i] = "NONE" => intent[i] = "NONE"
<1>1. CASE UNCHANGED rows
  BY <1>1, SameRows DEF rows
<1>2. CASE ~UNCHANGED rows
  <2>1. /\ reconciliation[i] = "NONE" /\ Latest(i) = "DELIVERY_UNKNOWN"
        /\ reservation[i] = "CONSUMED"
        /\ reconciliation'[i] = outcome
        /\ intent'[i] = IF outcome = "CONFIRMED_NOT_SENT"
                       THEN "FAILED_FINAL" ELSE outcome
        /\ UNCHANGED <<reservation, attemptNo, attempt>>
    BY <1>2 DEF RecordReconciliation, TypeOK, RowsTypeOK
  <2>2. Latest(i)' = Latest(i) /\ AttemptsOf(i)'
    BY <2>1 DEF Latest, AttemptsOf
  <2>3. RowsOf(i)' /\ intent'[i] # "NONE"
    BY <2>1, <2>2 DEF RowsOf, Outcome
  <2> QED BY <2>1, <2>2, <2>3
<1> QED BY <1>1, <1>2

-----------------------------------------------------------------------------
(* A step of one intent leaves the rows, the run and the calls of every      *)
(* other intent alone: only the lane and the late settlements are shared.    *)

SameAt(j) ==
  /\ intent'[j] = intent[j] /\ reservation'[j] = reservation[j]
  /\ attemptNo'[j] = attemptNo[j] /\ attempt'[j] = attempt[j]
  /\ reconciliation'[j] = reconciliation[j]
  /\ outbox'[j] = outbox[j] /\ lane'[j] = lane[j]
  /\ pc'[j] = pc[j] /\ seen'[j] = seen[j] /\ call'[j] = call[j]

\* A step of one intent is no step of another.
LEMMA OthersUntouched ==
  ASSUME TypeOK, NEW i \in Intents, NEW j \in Intents, j # i, IntentStep(i)
  PROVE  SameAt(j)
<1> USE DEF TypeOK, RowsTypeOK, RunsTypeOK, SameAt, Goto, GotoSeeing, rows,
            slots
<1>1. CASE CreateIntent(i) \/ Expire(i)
  BY <1>1, OutboxEffect DEF CreateIntent, Expire
<1>2. CASE RelayDeliver(i) \/ RelayPublishes(i) \/ RecoverStaleSend(i)
  <2>1. pc'[j] = pc[j] /\ seen'[j] = seen[j]
    BY <1>2 DEF RelayDeliver, RelayPublishes, RecoverStaleSend, StartRun
  <2> QED BY <1>2, <2>1, OutboxEffect DEF RelayDeliver, RelayPublishes,
                                          RecoverStaleSend
<1>3. CASE ClaimAnswered(i) \/ ClaimGivesUp(i)
  BY <1>3 DEF ClaimAnswered, ClaimGivesUp
<1>4. CASE ClaimSlot(i)
  <2>1. call'[j] = call[j]
    BY <1>4 DEF ClaimSlot
  <2>2. pc'[j] = pc[j] /\ seen'[j] = seen[j]
    BY <1>4 DEF ClaimSlot
  <2> QED BY <1>4, <2>1, <2>2 DEF ClaimSlot
<1>5. CASE ReturnAccepted(i) \/ ReturnUnknown(i)
  BY <1>5 DEF ReturnAccepted, ReturnUnknown
<1>6. CASE Settle(i) \/ Recover(i)
  <2>1. /\ intent'[j] = intent[j] /\ reservation'[j] = reservation[j]
        /\ attempt'[j] = attempt[j] /\ attemptNo'[j] = attemptNo[j]
        /\ reconciliation'[j] = reconciliation[j]
    <3>1. CASE attempt[i][attemptNo[i]] = "DISPATCHING"
      BY <1>6, <3>1 DEF Settle, Recover, SettleRows
    <3>2. CASE attempt[i][attemptNo[i]] # "DISPATCHING"
      BY <1>6, <3>2 DEF Settle, Recover, SettleRows
    <3> QED BY <3>1, <3>2
  <2> QED BY <1>6, <2>1 DEF Settle, Recover
<1>7. CASE Load(i) \/ QueryFound(i) \/ QueryNotFound(i) \/ QueryInconclusive(i)
  <2>1. pc'[j] = pc[j] /\ seen'[j] = seen[j]
    BY <1>7 DEF Load, QueryFound, QueryNotFound, QueryInconclusive
  <2> QED BY <1>7, <2>1 DEF Load, QueryFound, QueryNotFound,
                            QueryInconclusive
<1>8. CASE Reconcile(i) \/ ManualDecision(i)
  <2>1. /\ intent'[j] = intent[j] /\ reservation'[j] = reservation[j]
        /\ attempt'[j] = attempt[j] /\ attemptNo'[j] = attemptNo[j]
        /\ reconciliation'[j] = reconciliation[j]
    BY <1>8 DEF Reconcile, ManualDecision, RecordReconciliation
  <2> QED BY <1>8, <2>1 DEF Reconcile, ManualDecision
<1>9. CASE ActivityTimesOut(i)
  BY <1>9 DEF ActivityTimesOut
<1>10. ASSUME NEW n \in Numbers, CallStep(i, n) PROVE SameAt(j)
  <2>1. pc'[j] = pc[j] /\ seen'[j] = seen[j]
    BY <1>10 DEF CallStep, PassGate, CallGmail, NotSent, GmailAccepts, CallLost
  <2>2. call'[j] = call[j]
    BY <1>10 DEF CallStep, PassGate, CallGmail, NotSent, GmailAccepts, CallLost
  <2> QED BY <1>10, <2>1, <2>2 DEF CallStep, PassGate, CallGmail, NotSent,
                                   GmailAccepts, CallLost
<1> QED BY <1>1, <1>2, <1>3, <1>4, <1>5, <1>6, <1>7, <1>8, <1>9, <1>10
        DEF IntentStep, RunStep

-----------------------------------------------------------------------------
(* The invariant of the rows, for the intent that takes the step *)

IntentOK(i) == RowsOf(i) /\ AttemptsOf(i) /\ RunOf(i)

\* Where a run stands after it moved.
LEMMA GotoEffect ==
  ASSUME RunsTypeOK, NEW i \in Intents, NEW label, NEW value,
         GotoSeeing(i, label, value)
  PROVE  pc'[i] = label /\ seen'[i] = value
  BY DEF RunsTypeOK, GotoSeeing

\* Where a run stands after it moved holding nothing.
LEMMA GotoNoneEffect ==
  ASSUME RunsTypeOK, NEW i \in Intents, NEW label, Goto(i, label)
  PROVE  pc'[i] = label /\ seen'[i] = "NONE"
  BY GotoEffect DEF Goto

\* A step of an intent keeps its rows, attempts and run in agreement.
LEMMA IntentStepKeepsIntent ==
  ASSUME TypeOK, NEW i \in Intents, IntentOK(i), IntentStep(i)
  PROVE  IntentOK(i)'
<1> USE DEF TypeOK, IntentOK, RunOf
<1>0. /\ attemptNo[i] = 0 <=> Latest(i) = "NONE"
      /\ attemptNo[i] # 0 => attemptNo[i] \in Numbers
  BY NoneBeforeFirst
<1>1. CASE CreateIntent(i)
  <2>1. /\ intent'[i] = "READY" /\ reservation'[i] = "RESERVED"
        /\ Latest(i)' = Latest(i) /\ reconciliation'[i] = reconciliation[i]
        /\ pc'[i] = "closed" /\ AttemptsOf(i)'
    BY <1>1 DEF CreateIntent, RowsTypeOK, Latest, AttemptsOf
  <2>2. Latest(i) = "NONE" /\ reconciliation[i] = "NONE"
    BY <1>1 DEF CreateIntent, RowsOf
  <2> QED BY <2>1, <2>2 DEF RowsOf
<1>2. CASE \/ RelayDeliver(i) \/ RelayPublishes(i) \/ RecoverStaleSend(i)
           \/ Expire(i)
  <2>1. RowsOf(i)' /\ AttemptsOf(i)' /\ Latest(i)' = Latest(i)
    BY <1>2, SameRows DEF RelayDeliver, RelayPublishes, RecoverStaleSend,
                          Expire, rows
  <2>2. \/ pc'[i] = pc[i] /\ seen'[i] = seen[i]
        \/ pc'[i] = "claim"
    BY <1>2, GotoNoneEffect DEF RelayDeliver, RelayPublishes,
                                RecoverStaleSend, Expire, StartRun
  <2>3. intent[i] # "NONE" \/ Expire(i)
    BY <1>2 DEF RelayDeliver, RelayPublishes, RecoverStaleSend, Outbox!Publish
  <2>4. UNCHANGED <<intent, attemptNo>> /\ (Expire(i) => UNCHANGED <<pc, outbox>>)
    BY <1>2 DEF RelayDeliver, RelayPublishes, RecoverStaleSend, Expire, rows
  <2> QED BY <2>1, <2>2, <2>3, <2>4
<1>3. CASE ClaimAnswered(i)
  <2>1. RowsOf(i)' /\ AttemptsOf(i)' /\ Latest(i)' = Latest(i)
    BY <1>3, SameRows DEF ClaimAnswered, rows
  <2>2. \/ Goto(i, "closed")
        \/ Goto(i, "load") /\ Latest(i) # "NONE"
    BY <1>3 DEF ClaimAnswered
  <2>3. \/ pc'[i] = "closed"
        \/ pc'[i] = "load" /\ attemptNo[i] > 0
    BY <1>0, <2>2, GotoNoneEffect DEF Numbers
  <2>4. intent[i] # "NONE" /\ UNCHANGED <<intent, attemptNo>>
    BY <1>3 DEF ClaimAnswered, rows
  <2> QED BY <2>1, <2>3, <2>4
<1>4. CASE ClaimGivesUp(i)
  <2>1. /\ intent'[i] = "FAILED_FINAL" /\ reservation'[i] = "RELEASED"
        /\ Latest(i)' = Latest(i) /\ reconciliation'[i] = reconciliation[i]
        /\ AttemptsOf(i)'
    BY <1>4 DEF ClaimGivesUp, RowsTypeOK, Latest, AttemptsOf
  <2>2. Latest(i) \in Retryable \cup {"NONE"} /\ reservation[i] = "RESERVED"
    BY <1>4 DEF ClaimGivesUp, Claimable
  <2>3. RowsOf(i)'
    BY <2>1, <2>2 DEF RowsOf, Retryable
  <2>4. pc'[i] = "closed"
    BY <1>4, GotoNoneEffect DEF ClaimGivesUp
  <2> QED BY <2>1, <2>3, <2>4
<1>5. CASE ClaimSlot(i)
  <2> DEFINE n == attemptNo[i] + 1
  <2>1. n \in Numbers /\ attemptNo[i] \in Nat
    BY <1>5 DEF ClaimSlot, RowsTypeOK, Numbers
  <2>2. /\ attemptNo' = [attemptNo EXCEPT ![i] = n]
        /\ attempt' = [attempt EXCEPT ![i][n] = "DISPATCHING"]
        /\ intent'[i] = "DISPATCHING" /\ reservation' = reservation
        /\ reconciliation' = reconciliation
    BY <1>5 DEF ClaimSlot, RowsTypeOK
  <2>3. Latest(i) \in Retryable \cup {"NONE"} /\ reservation[i] = "RESERVED"
    BY <1>5 DEF ClaimSlot, Claimable
  <2>4. Latest(i)' = "DISPATCHING"
    BY <2>1, <2>2 DEF Latest, RowsTypeOK, Numbers
  <2>5. RowsOf(i)'
    BY <2>2, <2>3, <2>4 DEF RowsOf, Retryable
  <2>6. AttemptsOf(i)'
    <3> SUFFICES ASSUME NEW k \in Numbers
                 PROVE  /\ k < n => attempt'[i][k] \in Retryable
                        /\ k = n => attempt'[i][k] # "NONE"
                        /\ k > n => attempt'[i][k] = "NONE"
      BY <2>1, <2>2 DEF AttemptsOf, RowsTypeOK
    <3>1. CASE k = n
      BY <2>1, <2>2, <3>1 DEF RowsTypeOK
    <3>2. CASE k = attemptNo[i]
      BY <2>1, <2>2, <2>3, <3>2 DEF RowsTypeOK, Latest, Numbers, AttemptsOf
    <3>3. CASE k # n /\ k # attemptNo[i]
      <4>1. attempt'[i][k] = attempt[i][k]
        BY <2>2, <3>3 DEF RowsTypeOK
      <4> QED BY <2>1, <3>3, <4>1 DEF AttemptsOf, Numbers
    <3> QED BY <3>1, <3>2, <3>3
  <2>7. pc'[i] \in {"dispatch", "closed"}
    BY <1>5, GotoNoneEffect DEF ClaimSlot
  <2> QED BY <2>2, <2>4, <2>5, <2>6, <2>7
<1>6. CASE ReturnAccepted(i) \/ ReturnUnknown(i)
  <2>1. RowsOf(i)' /\ AttemptsOf(i)' /\ Latest(i)' = Latest(i)
    BY <1>6, SameRows DEF ReturnAccepted, ReturnUnknown, rows
  <2>2. /\ pc[i] = "dispatch" /\ pc'[i] = "settle"
        /\ seen'[i] \in {"PROVIDER_ACCEPTED", "DELIVERY_UNKNOWN"}
        /\ intent' = intent
    BY <1>6, GotoEffect DEF ReturnAccepted, ReturnUnknown, rows
  <2> QED BY <2>1, <2>2 DEF Settlement
<1>7. CASE Settle(i) \/ Recover(i)
  <2>1. attemptNo[i] \in Numbers /\ attemptNo[i] <= attemptNo[i]
        /\ seen[i] \in Settlement
    BY <1>0, <1>7 DEF Settle, Recover, Settlement, Numbers
  <2>2. /\ RowsOf(i)' /\ AttemptsOf(i)' /\ attemptNo' = attemptNo
        /\ intent'[i] = "NONE" => intent[i] = "NONE"
    BY <1>7, <2>1, SettleRowsAgree DEF Settle, Recover
  <2>3. pc'[i] \in {"claim", "load", "closed"}
    BY <1>7, GotoNoneEffect DEF Settle, Recover, AfterSettle
  <2>4. attemptNo[i] > 0 /\ intent[i] # "NONE"
    BY <1>7, <2>1 DEF Settle, Recover, Numbers
  <2> QED BY <2>2, <2>3, <2>4
<1>8. CASE Load(i) \/ QueryFound(i) \/ QueryNotFound(i) \/ QueryInconclusive(i)
  <2>1. RowsOf(i)' /\ AttemptsOf(i)' /\ Latest(i)' = Latest(i)
    BY <1>8, SameRows DEF Load, QueryFound, QueryNotFound, QueryInconclusive,
                          rows
  <2>2. pc'[i] \in {"query", "recover", "reconcile", "closed"}
    BY <1>8, GotoEffect, GotoNoneEffect
       DEF Load, QueryFound, QueryNotFound, QueryInconclusive
  <2>3. pc'[i] = "recover" => seen'[i] \in {"NOT_FOUND", "PROVIDER_ACCEPTED"}
    BY <1>8, GotoEffect, GotoNoneEffect
       DEF Load, QueryFound, QueryNotFound, QueryInconclusive
  <2>4. pc[i] \in {"load", "query"} /\ UNCHANGED <<intent, attemptNo>>
    BY <1>8 DEF Load, QueryFound, QueryNotFound, QueryInconclusive, rows
  <2> QED BY <2>1, <2>2, <2>3, <2>4
<1>9. CASE Reconcile(i)
  <2>1. /\ RowsOf(i)' /\ AttemptsOf(i)' /\ attemptNo' = attemptNo
        /\ intent'[i] = "NONE" => intent[i] = "NONE"
    BY <1>9, RecordReconciliationAgrees DEF Reconcile, Outcome
  <2>2. pc[i] = "reconcile" /\ pc'[i] = "closed"
    BY <1>9, GotoNoneEffect DEF Reconcile
  <2> QED BY <2>1, <2>2
<1>10. CASE ManualDecision(i)
  <2>1. /\ RowsOf(i)' /\ AttemptsOf(i)' /\ Latest(i)' = Latest(i)
        /\ attemptNo' = attemptNo
        /\ intent'[i] = "NONE" => intent[i] = "NONE"
    BY <1>10, RecordReconciliationAgrees DEF ManualDecision
  <2> QED BY <1>10, <2>1 DEF ManualDecision
<1>11. CASE ActivityTimesOut(i)
  <2>1. RowsOf(i)' /\ AttemptsOf(i)' /\ Latest(i)' = Latest(i)
    BY <1>11, SameRows DEF ActivityTimesOut, rows
  <2>2. pc'[i] = "closed" /\ UNCHANGED <<intent, outbox>>
    BY <1>11, GotoNoneEffect DEF ActivityTimesOut, rows
  <2> QED BY <2>1, <2>2
<1>12. ASSUME NEW n \in Numbers, CallStep(i, n) PROVE IntentOK(i)'
  <2>1. RowsOf(i)' /\ AttemptsOf(i)' /\ Latest(i)' = Latest(i)
    BY <1>12, SameRows DEF CallStep, PassGate, CallGmail, NotSent,
                           GmailAccepts, CallLost, rows
  <2>2. UNCHANGED <<intent, attemptNo, outbox>>
    BY <1>12 DEF CallStep, PassGate, CallGmail, NotSent, GmailAccepts,
                 CallLost, rows
  <2>3. \/ UNCHANGED <<pc, seen>>
        \/ /\ pc[i] = "dispatch" /\ pc'[i] = "settle"
           /\ seen'[i] \in {"FAILED_FINAL", "FAILED_RETRYABLE"}
    BY <1>12, GotoEffect DEF CallStep, PassGate, CallGmail, NotSent, Awaited,
                             NotSentSettlement, GmailAccepts, CallLost
  <2> QED BY <2>1, <2>2, <2>3 DEF Settlement
<1> QED BY <1>1, <1>2, <1>3, <1>4, <1>5, <1>6, <1>7, <1>8, <1>9, <1>10, <1>11,
           <1>12 DEF IntentStep, RunStep

\* What no step touches stays in agreement.
LEMMA SameIntent ==
  ASSUME NEW j \in Intents, IntentOK(j), SameAt(j)
  PROVE  IntentOK(j)'
<1>1. RowsOf(j)' /\ AttemptsOf(j)' /\ Latest(j)' = Latest(j)
  BY SameRows DEF IntentOK, SameAt
<1> QED BY <1>1 DEF IntentOK, RunOf, SameAt

\* A late settlement finds the attempt of a run that dispatches untouched,
\* because its own attempt is an earlier one, and settled.
LEMMA LateSettleKeepsIntent ==
  ASSUME TypeOK, LateSettlesAgree, NEW m \in lateSettles, LateSettle(m),
         NEW j \in Intents, IntentOK(j)
  PROVE  IntentOK(j)'
<1>1. /\ m.intent \in Intents /\ m.no \in Numbers /\ m.settlement \in Settlement
      /\ m.no <= attemptNo[m.intent]
      /\ pc[m.intent] \in {"dispatch", "settle"} => m.no < attemptNo[m.intent]
  BY DEF TypeOK, LateSettlesAgree
<1>2. UNCHANGED <<pc, seen, outbox>>
  BY DEF LateSettle
<1>3. CASE UNCHANGED rows
  <2>1. RowsOf(j)' /\ AttemptsOf(j)' /\ Latest(j)' = Latest(j)
    BY <1>3, SameRows DEF IntentOK, rows
  <2> QED BY <1>2, <1>3, <2>1 DEF IntentOK, RunOf, rows
<1>4. CASE SettleRows(m.intent, m.no, m.settlement) /\ j = m.intent
  <2>1. /\ RowsOf(j)' /\ AttemptsOf(j)' /\ attemptNo' = attemptNo
        /\ intent'[j] = "NONE" => intent[j] = "NONE"
        /\ attempt[j][m.no] # "DISPATCHING" => Latest(j)' = Latest(j)
    BY <1>1, <1>4, SettleRowsAgree DEF IntentOK
  <2>2. m.no < attemptNo[j] => attempt[j][m.no] # "DISPATCHING"
    BY <1>1, <1>4 DEF IntentOK, AttemptsOf, Retryable
  <2> QED BY <1>1, <1>2, <1>4, <2>1, <2>2 DEF IntentOK, RunOf
<1>5. CASE SettleRows(m.intent, m.no, m.settlement) /\ j # m.intent
  <2>1. /\ intent'[j] = intent[j] /\ reservation'[j] = reservation[j]
        /\ attempt'[j] = attempt[j] /\ attemptNo'[j] = attemptNo[j]
        /\ reconciliation'[j] = reconciliation[j]
    <3>1. CASE attempt[m.intent][m.no] = "DISPATCHING"
      BY <1>1, <1>5, <3>1 DEF SettleRows, TypeOK, RowsTypeOK
    <3>2. CASE attempt[m.intent][m.no] # "DISPATCHING"
      BY <1>5, <3>2 DEF SettleRows, rows
    <3> QED BY <3>1, <3>2
  <2>2. RowsOf(j)' /\ AttemptsOf(j)' /\ Latest(j)' = Latest(j)
    BY <2>1, SameRows DEF IntentOK
  <2> QED BY <1>2, <2>1, <2>2 DEF IntentOK, RunOf
<1> QED BY <1>3, <1>4, <1>5 DEF LateSettle

\* Every step keeps every intent in agreement.
LEMMA IntentsStep ==
  ASSUME TypeOK, RowsAgree, OnlyRetryableIsRetried, RunsAgree, [Next]_vars
  PROVE  \A j \in Intents : IntentOK(j)'
<1> SUFFICES ASSUME NEW j \in Intents PROVE IntentOK(j)'
  OBVIOUS
<1>1. IntentOK(j)
  BY DEF RowsAgree, OnlyRetryableIsRetried, RunsAgree, IntentOK
<1>2. ASSUME NEW i \in Intents, IntentStep(i) PROVE IntentOK(j)'
  <2>1. CASE i = j
    BY <1>1, <1>2, <2>1, IntentStepKeepsIntent
  <2>2. CASE i # j
    BY <1>1, <1>2, <2>2, OthersUntouched, SameIntent
  <2> QED BY <2>1, <2>2
<1>3. ASSUME NEW m \in lateSettles, LateSettle(m) PROVE IntentOK(j)'
  BY <1>1, <1>3, LateSettleKeepsIntent DEF RunsAgree
<1>4. CASE UNCHANGED vars
  BY <1>1, <1>4, SameIntent DEF vars, SameAt
<1> QED BY <1>2, <1>3, <1>4 DEF Next

-----------------------------------------------------------------------------
(* Late settlements and the mailbox lane *)

\* A claim numbers the next attempt.
LEMMA ClaimNumbers ==
  ASSUME TypeOK, NEW i \in Intents, ClaimSlot(i)
  PROVE  attemptNo'[i] = attemptNo[i] + 1
  BY DEF TypeOK, RowsTypeOK, ClaimSlot

\* Only a claim numbers a new attempt or lets a run dispatch, and only a
\* creation reserves a slot.
LEMMA WhatOneIntentDoes ==
  ASSUME TypeOK, NEW i \in Intents, IntentStep(i)
  PROVE  /\ ClaimSlot(i) \/ attemptNo'[i] = attemptNo[i]
         /\ pc'[i] \in {"dispatch", "settle"}
              => ClaimSlot(i) \/ pc[i] \in {"dispatch", "settle"}
         /\ ~CreateIntent(i) =>
              /\ UNCHANGED slots
              /\ reservation'[i] = "RESERVED" => reservation[i] = "RESERVED"
              /\ reservation'[i] # "NONE" => reservation[i] # "NONE"
         /\ ~ActivityTimesOut(i) => UNCHANGED lateSettles
<1> USE DEF TypeOK, RowsTypeOK
<1>1. CASE \/ CreateIntent(i) \/ Expire(i)
  BY <1>1 DEF CreateIntent, Expire, rows
<1>2. CASE \/ RelayDeliver(i) \/ RelayPublishes(i) \/ RecoverStaleSend(i)
  <2>1. pc'[i] \in {pc[i], "claim"}
    BY <1>2, GotoNoneEffect DEF RelayDeliver, RelayPublishes,
                                RecoverStaleSend, StartRun
  <2> QED BY <1>2, <2>1 DEF RelayDeliver, RelayPublishes, RecoverStaleSend,
                            rows
<1>3. CASE ClaimAnswered(i) \/ ClaimGivesUp(i) \/ ClaimSlot(i)
  BY <1>3, GotoNoneEffect DEF ClaimAnswered, ClaimGivesUp, ClaimSlot, Claimable,
                              rows
<1>4. CASE ReturnAccepted(i) \/ ReturnUnknown(i)
  BY <1>4 DEF ReturnAccepted, ReturnUnknown, rows
<1>5. CASE Settle(i) \/ Recover(i)
  <2>1. attemptNo' = attemptNo
    BY <1>5 DEF Settle, Recover, SettleRows, rows
  <2>2. /\ reservation'[i] = "RESERVED" => reservation[i] = "RESERVED"
        /\ reservation'[i] # "NONE" => reservation[i] # "NONE"
    BY <1>5 DEF Settle, Recover, SettleRows, QuotaAfter, Retryable, rows
  <2>3. pc'[i] \in {"claim", "load", "closed"}
    BY <1>5, GotoNoneEffect DEF Settle, Recover, AfterSettle
  <2> QED BY <1>5, <2>1, <2>2, <2>3 DEF Settle, Recover
<1>6. CASE Load(i) \/ QueryFound(i) \/ QueryNotFound(i) \/ QueryInconclusive(i)
  <2>1. pc'[i] \in {"query", "recover", "reconcile", "closed"}
    BY <1>6, GotoEffect, GotoNoneEffect
       DEF Load, QueryFound, QueryNotFound, QueryInconclusive
  <2> QED BY <1>6, <2>1 DEF Load, QueryFound, QueryNotFound,
                            QueryInconclusive, rows
<1>7. CASE Reconcile(i) \/ ManualDecision(i)
  BY <1>7, GotoNoneEffect DEF Reconcile, ManualDecision, RecordReconciliation,
                              rows
<1>8. CASE ActivityTimesOut(i)
  BY <1>8, GotoNoneEffect DEF ActivityTimesOut, rows
<1>9. ASSUME NEW n \in Numbers, CallStep(i, n)
      PROVE  /\ UNCHANGED <<attemptNo, reservation, slots, lateSettles>>
             /\ UNCHANGED pc \/ pc[i] = "dispatch"
  BY <1>9 DEF CallStep, PassGate, CallGmail, NotSent, Awaited, GmailAccepts,
              CallLost, rows
<1> QED BY <1>1, <1>2, <1>3, <1>4, <1>5, <1>6, <1>7, <1>8, <1>9
        DEF IntentStep, RunStep

\* A late settlement frees slots but never reserves one.
LEMMA LateSettleRowsEffect ==
  ASSUME TypeOK, NEW m \in lateSettles, LateSettle(m)
  PROVE  /\ UNCHANGED <<attemptNo, slots, pc>>
         /\ \A j \in Intents :
              /\ reservation'[j] = "RESERVED" => reservation[j] = "RESERVED"
              /\ reservation'[j] # "NONE" => reservation[j] # "NONE"
         /\ lateSettles' \subseteq lateSettles
  BY DEF TypeOK, RowsTypeOK, LateSettle, SettleRows, QuotaAfter, Retryable, rows

\* A settlement that comes late is never one of an attempt under dispatch.
LEMMA LateSettlesStep ==
  ASSUME TypeOK, LateSettlesAgree, [Next]_vars
  PROVE  LateSettlesAgree'
<1> USE DEF TypeOK, RowsTypeOK
<1>1. ASSUME NEW i \in Intents, IntentStep(i), NEW m \in lateSettles'
      PROVE  /\ m.no <= attemptNo'[m.intent]
             /\ pc'[m.intent] \in {"dispatch", "settle"}
                  => m.no < attemptNo'[m.intent]
  <2>1. CASE m \in lateSettles /\ m.intent = i
    <3>1. /\ m.no \in Nat /\ attemptNo[i] \in Nat /\ m.no <= attemptNo[i]
          /\ pc[i] \in {"dispatch", "settle"} => m.no < attemptNo[i]
      BY <2>1 DEF LateSettlesAgree, Numbers
    <3>2. CASE ClaimSlot(i)
      <4>1. attemptNo'[i] = attemptNo[i] + 1
        BY <3>2, ClaimNumbers
      <4> QED BY <2>1, <3>1, <4>1
    <3>3. CASE ~ClaimSlot(i)
      <4>1. /\ attemptNo'[i] = attemptNo[i]
            /\ pc'[i] \in {"dispatch", "settle"}
                 => pc[i] \in {"dispatch", "settle"}
        BY <1>1, <3>3, WhatOneIntentDoes
      <4> QED BY <2>1, <3>1, <4>1
    <3> QED BY <3>2, <3>3
  <2>2. CASE m \in lateSettles /\ m.intent # i
    BY <1>1, <2>2, OthersUntouched DEF SameAt, LateSettlesAgree
  <2>3. CASE m \notin lateSettles
    <3>1. ActivityTimesOut(i)
      BY <1>1, <2>3, WhatOneIntentDoes
    <3>2. m.intent = i /\ m.no = attemptNo[i] /\ attemptNo' = attemptNo
      BY <2>3, <3>1 DEF ActivityTimesOut, rows
    <3>3. pc'[i] = "closed"
      BY <3>1, GotoNoneEffect DEF ActivityTimesOut
    <3> QED BY <3>2, <3>3
  <2> QED BY <2>1, <2>2, <2>3
<1>2. ASSUME NEW m \in lateSettles, LateSettle(m) PROVE LateSettlesAgree'
  BY <1>2, LateSettleRowsEffect DEF LateSettlesAgree
<1>3. CASE UNCHANGED vars
  BY <1>3 DEF vars, LateSettlesAgree
<1> QED BY <1>1, <1>2, <1>3 DEF Next, LateSettlesAgree

\* Every step keeps the mailbox in lane order.
LEMMA LaneStep ==
  ASSUME TypeOK, RowsAgree, OnlyRetryableIsRetried, LanesAreNumbered,
         LaneOrder, [Next]_vars
  PROVE  LanesAreNumbered' /\ LaneOrder'
<1> USE DEF TypeOK, RowsTypeOK, LanesAreNumbered, LaneOrder
<1>1. ASSUME NEW i \in Intents, CreateIntent(i)
      PROVE  LanesAreNumbered' /\ LaneOrder'
  <2>1. attemptNo[i] = 0
    BY <1>1, NoneBeforeFirst
       DEF CreateIntent, RowsAgree, RowsOf, OnlyRetryableIsRetried
  <2>2. /\ lane' = [lane EXCEPT ![i] = lastLane + 1]
        /\ lastLane' = lastLane + 1 /\ attemptNo' = attemptNo
        /\ reservation' = [reservation EXCEPT ![i] = "RESERVED"]
    BY <1>1 DEF CreateIntent
  <2> QED BY <2>1, <2>2
<1>2. ASSUME NEW i \in Intents, IntentStep(i), ~CreateIntent(i)
      PROVE  LanesAreNumbered' /\ LaneOrder'
  <2>1. lane' = lane /\ lastLane' = lastLane
    BY <1>2, WhatOneIntentDoes DEF slots
  <2>2. \A j \in Intents :
          /\ reservation'[j] = "RESERVED" => reservation[j] = "RESERVED"
          /\ reservation'[j] # "NONE" => reservation[j] # "NONE"
    BY <1>2, WhatOneIntentDoes, OthersUntouched DEF SameAt
  <2>3. \A j \in Intents :
          \/ attemptNo'[j] = attemptNo[j]
          \/ j = i /\ NoEarlierReserved(i)
    BY <1>2, WhatOneIntentDoes, OthersUntouched DEF SameAt, ClaimSlot
  <2> QED BY <2>1, <2>2, <2>3 DEF NoEarlierReserved
<1>3. ASSUME NEW m \in lateSettles, LateSettle(m)
      PROVE  LanesAreNumbered' /\ LaneOrder'
  BY <1>3, LateSettleRowsEffect DEF slots
<1>4. CASE UNCHANGED vars
  BY <1>4 DEF vars
<1> QED BY <1>1, <1>2, <1>3, <1>4 DEF Next

-----------------------------------------------------------------------------
(* The inductive invariant, and the safety properties that follow from it *)

\* The inductive invariant holds at first.
LEMMA InitIInv == Init => IInv
<1> SUFFICES ASSUME Init PROVE IInv
  OBVIOUS
<1>1. TypeOK
  BY InitType
<1>2. \A i \in Intents : IntentOK(i)
  <2> SUFFICES ASSUME NEW i \in Intents PROVE IntentOK(i)
    OBVIOUS
  <2>1. Latest(i) = "NONE" /\ attemptNo[i] = 0
    BY DEF Init, Latest
  <2>2. RowsOf(i)
    BY <2>1 DEF Init, RowsOf
  <2>3. AttemptsOf(i) /\ RunOf(i)
    BY <2>1 DEF Init, AttemptsOf, RunOf, Numbers
  <2> QED BY <2>2, <2>3 DEF IntentOK
<1>3. LateSettlesAgree /\ LanesAreNumbered /\ LaneOrder
  BY DEF Init, LateSettlesAgree, LanesAreNumbered, LaneOrder
<1> QED BY <1>1, <1>2, <1>3
        DEF IInv, RowsAgree, OnlyRetryableIsRetried, RunsAgree, IntentOK

\* Every step keeps the inductive invariant.
LEMMA IInvStep == IInv /\ [Next]_vars => IInv'
<1> SUFFICES ASSUME IInv, [Next]_vars PROVE IInv'
  OBVIOUS
<1> USE DEF IInv
<1>1. TypeOK'
  BY TypeStep
<1>2. \A j \in Intents : IntentOK(j)'
  BY IntentsStep
<1>3. LateSettlesAgree'
  BY LateSettlesStep DEF RunsAgree
<1>4. LanesAreNumbered' /\ LaneOrder'
  BY LaneStep
<1> QED BY <1>1, <1>2, <1>3, <1>4
        DEF RowsAgree, OnlyRetryableIsRetried, RunsAgree, IntentOK

\* The rows of every e-mail, the run that works on it, the settlements that
\* come late and the order of the mailbox lane agree in every reachable state.
THEOREM Inductive == Spec => []IInv
  BY InitIInv, IInvStep, PTL DEF Spec

\* Every column and every variable of a run keeps its type; in particular no
\* attempt is numbered beyond maxAttempts.
THEOREM TypeCorrect == Spec => []TypeOK
  BY Inductive, PTL DEF IInv

\* Intent, latest attempt, quota reservation and reconciliation fact never
\* contradict each other, so no "cannot be consumed" exception is reachable.
THEOREM RowsAlwaysAgree == Spec => []RowsAgree
  BY Inductive, PTL DEF IInv

\* claim numbers a new attempt only after a retryable one.
THEOREM OnlyRetryableRetried == Spec => []OnlyRetryableIsRetried
  BY Inductive, PTL DEF IInv

\* No intent has been claimed while an earlier slot of the mailbox is held.
THEOREM MailboxInLaneOrder == Spec => []LaneOrder
  BY Inductive, PTL DEF IInv

-----------------------------------------------------------------------------
(* Terminal facts never change *)

FinalAt(i) ==
  /\ \A n \in Numbers :
       attempt[i][n] \in Settlement => attempt'[i][n] = attempt[i][n]
  /\ reservation[i] \in {"CONSUMED", "RELEASED"}
       => reservation'[i] = reservation[i]
  /\ reconciliation[i] # "NONE" => reconciliation'[i] = reconciliation[i]
  /\ intent[i] \in {"PROVIDER_ACCEPTED", "FAILED_FINAL"}
       => intent'[i] = intent[i]

\* A settlement changes no terminal fact of its intent.
LEMMA SettleRowsFinal ==
  ASSUME TypeOK, NEW i \in Intents, NEW n \in Numbers, n <= attemptNo[i],
         RowsOf(i), AttemptsOf(i), NEW settlement \in Settlement,
         SettleRows(i, n, settlement)
  PROVE  FinalAt(i)
<1> USE DEF FinalAt, TypeOK, RowsTypeOK
<1>1. CASE attempt[i][n] = "DISPATCHING"
  <2>1. intent[i] = "DISPATCHING" /\ reservation[i] = "RESERVED"
    BY <1>1, DispatchingRows
  <2>2. attempt' = [attempt EXCEPT ![i][n] = settlement]
        /\ reconciliation' = reconciliation
    BY <1>1 DEF SettleRows
  <2>3. ASSUME NEW k \in Numbers, attempt[i][k] \in Settlement
        PROVE  attempt'[i][k] = attempt[i][k]
    BY <1>1, <2>2, <2>3 DEF Settlement
  <2> QED BY <2>1, <2>2, <2>3
<1>2. CASE attempt[i][n] # "DISPATCHING"
  BY <1>2 DEF SettleRows, rows
<1> QED BY <1>1, <1>2

\* A step of an intent changes none of its terminal facts.
LEMMA IntentStepFinal ==
  ASSUME TypeOK, NEW i \in Intents, IntentOK(i), IntentStep(i)
  PROVE  FinalAt(i)
<1> USE DEF TypeOK, RowsTypeOK, IntentOK
<1>1. CASE UNCHANGED rows
  BY <1>1 DEF rows, FinalAt
<1>2. CASE CreateIntent(i)
  BY <1>2 DEF CreateIntent, FinalAt, RowsOf
<1>3. CASE ClaimGivesUp(i)
  BY <1>3 DEF ClaimGivesUp, Claimable, FinalAt, RowsOf
<1>4. CASE ClaimSlot(i)
  <2>1. attempt[i][attemptNo[i] + 1] = "NONE"
    BY <1>4 DEF ClaimSlot, AttemptsOf, Numbers
  <2>2. reservation[i] = "RESERVED" /\ Latest(i) \in Retryable \cup {"NONE"}
    BY <1>4 DEF ClaimSlot, Claimable
  <2>3. intent[i] \notin {"PROVIDER_ACCEPTED", "FAILED_FINAL"}
    BY <2>2 DEF RowsOf, Retryable
  <2>4. /\ attempt' = [attempt EXCEPT ![i][attemptNo[i] + 1] = "DISPATCHING"]
        /\ UNCHANGED <<reservation, reconciliation>>
    BY <1>4 DEF ClaimSlot
  <2>5. ASSUME NEW k \in Numbers, attempt[i][k] \in Settlement
        PROVE  attempt'[i][k] = attempt[i][k]
    BY <2>1, <2>4, <2>5 DEF Settlement
  <2> QED BY <2>3, <2>4, <2>5 DEF FinalAt
<1>5. CASE Settle(i) \/ Recover(i)
  <2>1. attemptNo[i] \in Numbers /\ attemptNo[i] <= attemptNo[i]
        /\ seen[i] \in Settlement
    BY <1>5, NoneBeforeFirst DEF Settle, Recover, RunOf, Settlement, Numbers
  <2> QED BY <1>5, <2>1, SettleRowsFinal DEF Settle, Recover
<1>6. ASSUME NEW outcome \in Outcome, RecordReconciliation(i, outcome)
      PROVE  FinalAt(i)
  BY <1>6 DEF RecordReconciliation, FinalAt, rows
<1>7. CASE Reconcile(i) \/ ManualDecision(i)
  BY <1>6, <1>7 DEF Reconcile, ManualDecision, Outcome
<1>8. ASSUME NEW n \in Numbers, CallStep(i, n) PROVE UNCHANGED rows
  BY <1>8 DEF CallStep, PassGate, CallGmail, NotSent, GmailAccepts, CallLost
<1> QED BY <1>1, <1>2, <1>3, <1>4, <1>5, <1>7, <1>8
        DEF IntentStep, RunStep, RelayDeliver, RelayPublishes,
            RecoverStaleSend, Expire, ClaimAnswered, ReturnAccepted,
            ReturnUnknown, Load, QueryFound, QueryNotFound,
            QueryInconclusive, ActivityTimesOut

\* A late settlement changes no terminal fact.
LEMMA LateSettleFinal ==
  ASSUME TypeOK, LateSettlesAgree, NEW m \in lateSettles, LateSettle(m),
         NEW i \in Intents, RowsOf(m.intent), AttemptsOf(m.intent)
  PROVE  FinalAt(i)
<1>1. /\ m.intent \in Intents /\ m.no \in Numbers /\ m.settlement \in Settlement
      /\ m.no <= attemptNo[m.intent]
  BY DEF TypeOK, LateSettlesAgree
<1>2. CASE UNCHANGED rows
  BY <1>2 DEF rows, FinalAt
<1>3. CASE SettleRows(m.intent, m.no, m.settlement) /\ i = m.intent
  BY <1>1, <1>3, SettleRowsFinal
<1>4. CASE SettleRows(m.intent, m.no, m.settlement) /\ i # m.intent
  <2>1. CASE attempt[m.intent][m.no] = "DISPATCHING"
    BY <1>1, <1>4, <2>1 DEF SettleRows, FinalAt, TypeOK, RowsTypeOK
  <2>2. CASE attempt[m.intent][m.no] # "DISPATCHING"
    BY <1>4, <2>2 DEF SettleRows, FinalAt, rows
  <2> QED BY <2>1, <2>2
<1> QED BY <1>2, <1>3, <1>4 DEF LateSettle

\* No step changes a terminal fact.
LEMMA StepIsFinal ==
  ASSUME IInv, [Next]_vars
  PROVE  \A i \in Intents : FinalAt(i)
<1> SUFFICES ASSUME NEW i \in Intents PROVE FinalAt(i)
  OBVIOUS
<1>1. TypeOK /\ LateSettlesAgree /\ \A j \in Intents : IntentOK(j)
  BY DEF IInv, RowsAgree, OnlyRetryableIsRetried, RunsAgree, IntentOK
<1>2. ASSUME NEW j \in Intents, IntentStep(j) PROVE FinalAt(i)
  <2>1. CASE j = i
    BY <1>1, <1>2, <2>1, IntentStepFinal
  <2>2. CASE j # i
    BY <1>1, <1>2, <2>2, OthersUntouched DEF SameAt, FinalAt
  <2> QED BY <2>1, <2>2
<1>3. ASSUME NEW m \in lateSettles, LateSettle(m) PROVE FinalAt(i)
  <2>1. m.intent \in Intents
    BY <1>1 DEF TypeOK
  <2> QED BY <1>1, <1>3, <2>1, LateSettleFinal DEF IntentOK
<1>4. CASE UNCHANGED vars
  BY <1>4 DEF vars, FinalAt
<1> QED BY <1>2, <1>3, <1>4 DEF Next

\* No step of any activity, late or repeated, changes a terminal fact.
THEOREM Finality == Spec => FactsAreFinal
<1>1. IInv /\ [Next]_vars =>
        [\A i \in Intents :
           /\ \A n \in Numbers :
                attempt[i][n] \in Settlement => attempt'[i][n] = attempt[i][n]
           /\ reservation[i] \in {"CONSUMED", "RELEASED"}
                => reservation'[i] = reservation[i]
           /\ reconciliation[i] # "NONE"
                => reconciliation'[i] = reconciliation[i]
           /\ intent[i] \in {"PROVIDER_ACCEPTED", "FAILED_FINAL"}
                => intent'[i] = intent[i]]_vars
  BY StepIsFinal DEF FinalAt
<1> QED BY <1>1, Inductive, PTL DEF Spec, FactsAreFinal

-----------------------------------------------------------------------------
(* At most one delivery.  From here on no provider call outlives the gap     *)
(* between two runs of its intent.                                           *)

\* A call that is over stays as it is; only a claim starts a new one.
LEMMA CallEffect ==
  ASSUME TypeOK, NEW i \in Intents, IntentStep(i), NEW k \in Numbers,
         call[i][k] \notin Unresolved, ~(ClaimSlot(i) /\ k = attemptNo[i] + 1)
  PROVE  call'[i][k] = call[i][k]
<1> USE DEF TypeOK
<1>1. CASE UNCHANGED call
  BY <1>1
<1>2. CASE ClaimSlot(i)
  <2>1. \/ UNCHANGED call
        \/ call' = [call EXCEPT ![i][attemptNo[i] + 1] = "preparing"]
    BY <1>2 DEF ClaimSlot
  <2> QED BY <1>2, <2>1
<1>3. ASSUME NEW n \in Numbers, CallStep(i, n)
      PROVE  call'[i][k] = call[i][k]
  <2>1. call[i][n] \in Unresolved
    BY <1>3 DEF CallStep, PassGate, CallGmail, NotSent, GmailAccepts, CallLost,
                Unresolved
  <2> QED BY <1>3, <2>1 DEF CallStep, PassGate, CallGmail, NotSent,
                            GmailAccepts, CallLost
<1> QED BY <1>1, <1>2, <1>3
        DEF IntentStep, RunStep, CreateIntent, RelayDeliver, RelayPublishes,
            RecoverStaleSend, Expire, ClaimAnswered, ClaimGivesUp,
            ReturnAccepted, ReturnUnknown, Settle, Recover, Load, QueryFound,
            QueryNotFound, QueryInconclusive, Reconcile, ManualDecision,
            ActivityTimesOut

\* What a settlement leaves in the rows is an old verdict or the new one.
LEMMA SettleRowsVerdict ==
  ASSUME TypeOK, NEW i \in Intents, NEW n \in Numbers,
         NEW settlement \in Settlement, SettleRows(i, n, settlement),
         NEW k \in Numbers
  PROVE  \/ attempt'[i][k] = attempt[i][k]
         \/ k = n /\ attempt'[i][k] = settlement
  BY DEF TypeOK, RowsTypeOK, SettleRows, rows

\* Which steps write a verdict, or bring a run to a place where it may write
\* one on the strength of a search.
LEMMA VerdictSources ==
  ASSUME TypeOK, CallsOutlive = FALSE, NEW i \in Intents, IntentOK(i),
         IntentStep(i)
  PROVE  /\ \A k \in Numbers : attempt'[i][k] \in NotSentVerdict =>
              \/ attempt[i][k] \in NotSentVerdict
              \/ /\ pc[i] \in {"settle", "recover"} /\ k = attemptNo[i]
                 /\ seen[i] \in NotSentVerdict
         /\ pc'[i] \in {"settle", "recover"} /\ seen'[i] \in NotSentVerdict =>
              \/ pc[i] = pc'[i] /\ seen[i] = seen'[i]
              \/ call'[i][attemptNo[i]] = "dropped"
              \/ /\ pc[i] = "query" /\ seen[i] = "DISPATCHING"
                 /\ call[i][attemptNo[i]] # "accepted"
         /\ pc'[i] \in {"claim", "load"} /\ Latest(i)' = "DISPATCHING" =>
              \/ pc[i] \in {"claim", "load"} /\ Latest(i) = "DISPATCHING"
              \/ \A k \in Numbers : call[i][k] \notin Unresolved
         /\ pc'[i] = "query" /\ seen'[i] = "DISPATCHING" =>
              \/ pc[i] = "query" /\ seen[i] = "DISPATCHING"
              \/ pc[i] = "load" /\ Latest(i) = "DISPATCHING"
<1> USE DEF TypeOK, RowsTypeOK, RunsTypeOK, IntentOK
<1>1. CASE CreateIntent(i) \/ Expire(i)
  <2>1. UNCHANGED <<attempt, attemptNo, pc, seen>> /\ Latest(i)' = Latest(i)
    BY <1>1 DEF CreateIntent, Expire, rows, Latest
  <2> QED BY <2>1
<1>2. CASE RelayDeliver(i) \/ RelayPublishes(i) \/ RecoverStaleSend(i)
  <2>1. UNCHANGED <<attempt, attemptNo>> /\ Latest(i)' = Latest(i)
    BY <1>2 DEF RelayDeliver, RelayPublishes, RecoverStaleSend, rows, Latest
  <2>2. \/ UNCHANGED <<pc, seen>>
        \/ pc'[i] = "claim" /\ \A k \in Numbers : call[i][k] \notin Unresolved
    BY <1>2, GotoNoneEffect DEF RelayDeliver, RelayPublishes,
                                RecoverStaleSend, StartRun, Quiet
  <2> QED BY <2>1, <2>2
<1>3. CASE ClaimAnswered(i)
  <2>1. UNCHANGED <<attempt, attemptNo>> /\ Latest(i)' = Latest(i)
    BY <1>3 DEF ClaimAnswered, rows, Latest
  <2>2. pc[i] = "claim" /\ pc'[i] \in {"closed", "load"}
    BY <1>3, GotoNoneEffect DEF ClaimAnswered
  <2> QED BY <2>1, <2>2
<1>4. CASE ClaimGivesUp(i)
  BY <1>4, GotoNoneEffect DEF ClaimGivesUp
<1>5. CASE ClaimSlot(i)
  <2>1. attempt' = [attempt EXCEPT ![i][attemptNo[i] + 1] = "DISPATCHING"]
    BY <1>5 DEF ClaimSlot
  <2>2. \A k \in Numbers : attempt'[i][k] \in {attempt[i][k], "DISPATCHING"}
    BY <2>1
  <2>3. pc'[i] \in {"dispatch", "closed"}
    BY <1>5, GotoNoneEffect DEF ClaimSlot
  <2> QED BY <2>2, <2>3 DEF NotSentVerdict, Retryable
<1>6. CASE ReturnAccepted(i) \/ ReturnUnknown(i)
  <2>1. UNCHANGED attempt
    BY <1>6 DEF ReturnAccepted, ReturnUnknown, rows
  <2>2. /\ pc'[i] = "settle"
        /\ seen'[i] \in {"PROVIDER_ACCEPTED", "DELIVERY_UNKNOWN"}
    BY <1>6, GotoEffect DEF ReturnAccepted, ReturnUnknown
  <2> QED BY <2>1, <2>2 DEF NotSentVerdict, Retryable
<1>7. CASE Settle(i) \/ Recover(i)
  <2>1. attemptNo[i] \in Numbers /\ seen[i] \in Settlement
        /\ attemptNo[i] <= attemptNo[i]
    BY <1>7, NoneBeforeFirst DEF Settle, Recover, RunOf, Settlement, Numbers
  <2>2. \A k \in Numbers : \/ attempt'[i][k] = attempt[i][k]
                           \/ k = attemptNo[i] /\ attempt'[i][k] = seen[i]
    BY <1>7, <2>1, SettleRowsVerdict DEF Settle, Recover
  <2>3. pc'[i] = "load" => attempt'[i][attemptNo[i]] = "DELIVERY_UNKNOWN"
    BY <1>7, GotoNoneEffect DEF Settle, Recover, AfterSettle
  <2>4. pc'[i] = "claim" => attempt'[i][attemptNo[i]] \in Retryable
    BY <1>7, GotoNoneEffect DEF Settle, Recover, AfterSettle
  <2>5. pc'[i] \in {"claim", "load", "closed"}
    BY <1>7, GotoNoneEffect DEF Settle, Recover, AfterSettle
  <2>6. attemptNo' = attemptNo
    BY <1>7, <2>1, SettleRowsAgree DEF Settle, Recover
  <2>7. Latest(i)' = attempt'[i][attemptNo[i]]
    BY <2>1, <2>6 DEF Latest, Numbers
  <2> QED BY <1>7, <2>2, <2>3, <2>4, <2>5, <2>7 DEF Settle, Recover, Retryable
<1>8. CASE Load(i) \/ QueryFound(i) \/ QueryNotFound(i) \/ QueryInconclusive(i)
  <2>1. UNCHANGED <<attempt, attemptNo, call>>
    BY <1>8 DEF Load, QueryFound, QueryNotFound, QueryInconclusive, rows
  <2>2. CASE Load(i)
    <3>1. pc[i] = "load" /\ pc'[i] \in {"query", "closed"}
          /\ (pc'[i] = "query" => seen'[i] = Latest(i))
      BY <2>2, GotoEffect, GotoNoneEffect DEF Load
    <3> QED BY <2>1, <3>1
  <2>3. CASE QueryFound(i)
    BY <2>1, <2>3, GotoEffect DEF QueryFound, NotSentVerdict, Retryable
  <2>4. CASE QueryNotFound(i)
    <3>1. /\ pc[i] = "query" /\ call[i][attemptNo[i]] # "accepted"
          /\ \/ pc'[i] = "closed"
             \/ pc'[i] = "recover" /\ seen[i] = "DISPATCHING"
      BY <2>4, GotoEffect, GotoNoneEffect DEF QueryNotFound
    <3> QED BY <2>1, <3>1
  <2>5. CASE QueryInconclusive(i)
    BY <2>1, <2>5, GotoNoneEffect DEF QueryInconclusive
  <2> QED BY <1>8, <2>2, <2>3, <2>4, <2>5
<1>9. CASE Reconcile(i) \/ ManualDecision(i)
  <2>1. UNCHANGED <<attempt, attemptNo>> /\ Latest(i)' = Latest(i)
    BY <1>9 DEF Reconcile, ManualDecision, RecordReconciliation, rows, Latest
  <2>2. UNCHANGED <<pc, seen>> \/ pc'[i] = "closed"
    BY <1>9, GotoNoneEffect DEF Reconcile, ManualDecision
  <2> QED BY <2>1, <2>2
<1>10. CASE ActivityTimesOut(i)
  <2>1. UNCHANGED attempt /\ pc'[i] = "closed"
    BY <1>10, GotoNoneEffect DEF ActivityTimesOut, rows
  <2> QED BY <2>1
<1>11. ASSUME NEW n \in Numbers, CallStep(i, n), pc' = pc, seen' = seen
       PROVE  UNCHANGED <<attempt, attemptNo, pc, seen>>
              /\ Latest(i)' = Latest(i)
  BY <1>11 DEF CallStep, PassGate, CallGmail, NotSent, GmailAccepts, CallLost,
               rows, Latest
<1>12. ASSUME NEW n \in Numbers, CallStep(i, n), ~UNCHANGED <<pc, seen>>
       PROVE  /\ UNCHANGED attempt /\ pc'[i] = "settle"
              /\ call'[i][attemptNo[i]] = "dropped"
  <2>1. NotSent(i, n) /\ Awaited(i, n)
    BY <1>12 DEF CallStep, PassGate, CallGmail, NotSent, GmailAccepts, CallLost
  <2>2. call' = [call EXCEPT ![i][n] = "dropped"] /\ n = attemptNo[i]
    BY <2>1 DEF NotSent, Awaited
  <2>3. pc'[i] = "settle"
    BY <2>1, GotoEffect DEF NotSent
  <2> QED BY <2>1, <2>2, <2>3 DEF NotSent, rows
<1> QED BY <1>1, <1>2, <1>3, <1>4, <1>5, <1>6, <1>7, <1>8, <1>9, <1>10, <1>11,
           <1>12 DEF IntentStep, RunStep

\* A step of an intent keeps its not-sent verdicts true.
LEMMA IntentVerdicts ==
  ASSUME TypeOK, CallsOutlive = FALSE, NEW i \in Intents, IntentOK(i),
         VerdictsOf(i), IntentStep(i)
  PROVE  VerdictsOf(i)'
<1> DEFINE latest == attemptNo[i]
<1> USE DEF TypeOK, RowsTypeOK
<1>1. \A k \in Numbers :
        call[i][k] \notin Unresolved /\ ~(ClaimSlot(i) /\ k = latest + 1)
          => call'[i][k] = call[i][k]
  BY CallEffect
<1>2. "none" \notin Unresolved /\ \A v \in NeverSent : v \notin Unresolved
  BY DEF Unresolved, NeverSent
<1>3. CASE ClaimSlot(i)
  <2>1. /\ attemptNo'[i] = latest + 1 /\ latest + 1 \in Numbers
        /\ attempt'[i][latest + 1] = "DISPATCHING"
        /\ \A k \in Numbers : attempt'[i][k] \in {attempt[i][k], "DISPATCHING"}
    BY <1>3 DEF ClaimSlot, Numbers
  <2>2. pc'[i] \in {"dispatch", "closed"}
    BY <1>3, GotoNoneEffect DEF ClaimSlot
  <2>3. ASSUME NEW k \in Numbers
        PROVE  /\ k > attemptNo'[i] => call'[i][k] = "none"
               /\ attempt'[i][k] \in NotSentVerdict => call'[i][k] \in NeverSent
    <3>1. k # latest + 1 /\ k > attemptNo'[i] => k > latest
      BY <2>1 DEF Numbers
    <3>2. k = latest + 1 => attempt'[i][k] \notin NotSentVerdict
                            /\ ~(k > attemptNo'[i])
      BY <2>1 DEF NotSentVerdict, Retryable, Numbers
    <3>3. attempt'[i][k] \in NotSentVerdict => attempt[i][k] \in NotSentVerdict
      BY <2>1 DEF NotSentVerdict, Retryable
    <3> QED BY <1>1, <1>2, <3>1, <3>2, <3>3 DEF VerdictsOf
  <2> QED BY <2>2, <2>3 DEF VerdictsOf
<1>4. CASE ~ClaimSlot(i)
  <2>1. attemptNo'[i] = latest
    BY <1>4, WhatOneIntentDoes
  <2>2. latest # 0 => latest \in Numbers
    BY NoneBeforeFirst DEF IntentOK
  <2>3. ASSUME NEW k \in Numbers
        PROVE  /\ k > latest => call'[i][k] = "none"
               /\ attempt'[i][k] \in NotSentVerdict => call'[i][k] \in NeverSent
    BY <1>1, <1>2, <1>4, VerdictSources DEF VerdictsOf
  <2>4. pc'[i] \in {"settle", "recover"} /\ seen'[i] \in NotSentVerdict
          => call'[i][latest] \in NeverSent
    <3> SUFFICES ASSUME pc'[i] \in {"settle", "recover"},
                        seen'[i] \in NotSentVerdict
                 PROVE  call'[i][latest] \in NeverSent
      OBVIOUS
    <3>1. latest \in Numbers
      BY <2>1, <2>2, IntentStepKeepsIntent DEF IntentOK, RunOf, Latest
    <3>2. CASE pc[i] = pc'[i] /\ seen[i] = seen'[i]
      BY <1>1, <1>2, <1>4, <3>1, <3>2 DEF VerdictsOf
    <3>3. CASE call'[i][latest] = "dropped"
      BY <3>3 DEF NeverSent
    <3>4. CASE /\ pc[i] = "query" /\ seen[i] = "DISPATCHING"
               /\ call[i][latest] # "accepted"
      <4>1. call[i][latest] \in NeverSent
        BY <3>1, <3>4 DEF VerdictsOf, CallStage
      <4> QED BY <1>1, <1>2, <1>4, <3>1, <4>1
    <3> QED BY <3>2, <3>3, <3>4, VerdictSources
  <2>5. pc'[i] \in {"claim", "load"} /\ Latest(i)' = "DISPATCHING"
          => call'[i][latest] \notin Unresolved
    <3> SUFFICES ASSUME pc'[i] \in {"claim", "load"},
                        Latest(i)' = "DISPATCHING"
                 PROVE  call'[i][latest] \notin Unresolved
      OBVIOUS
    <3>1. latest \in Numbers
      BY <2>1, <2>2 DEF Latest
    <3> QED BY <1>1, <1>4, <3>1, VerdictSources DEF VerdictsOf
  <2>6. pc'[i] = "query" /\ seen'[i] = "DISPATCHING"
          => call'[i][latest] \notin Unresolved
    <3> SUFFICES ASSUME pc'[i] = "query", seen'[i] = "DISPATCHING"
                 PROVE  call'[i][latest] \notin Unresolved
      OBVIOUS
    <3>1. latest \in Numbers
      BY <2>1, <2>2, IntentStepKeepsIntent DEF IntentOK, RunOf
    <3> QED BY <1>1, <1>4, <3>1, VerdictSources DEF VerdictsOf
  <2> QED BY <2>1, <2>3, <2>4, <2>5, <2>6 DEF VerdictsOf
<1> QED BY <1>3, <1>4

\* Every step keeps every not-sent verdict true.
LEMMA VerdictsStep ==
  ASSUME CallsOutlive = FALSE, IInv, VerdictsAreTrue, [Next]_vars
  PROVE  VerdictsAreTrue'
<1>1. /\ TypeOK /\ LateSettlesAgree
      /\ \A j \in Intents : IntentOK(j) /\ VerdictsOf(j)
  BY DEF IInv, RowsAgree, OnlyRetryableIsRetried, RunsAgree, IntentOK,
         VerdictsAreTrue
<1>2. ASSUME NEW i \in Intents, IntentStep(i) PROVE VerdictsAreTrue'
  <2>1. ASSUME NEW j \in Intents PROVE VerdictsOf(j)'
    <3>1. CASE j = i
      BY <1>1, <1>2, <3>1, IntentVerdicts
    <3>2. CASE j # i
      BY <1>1, <1>2, <3>2, OthersUntouched DEF SameAt, VerdictsOf, Latest
    <3> QED BY <3>1, <3>2
  <2>2. ASSUME NEW m \in lateSettles', m.settlement \in NotSentVerdict
        PROVE  call'[m.intent][m.no] \in NeverSent
    <3>1. CASE m \in lateSettles /\ m.intent # i
      BY <1>1, <1>2, <2>2, <3>1, OthersUntouched
         DEF SameAt, TypeOK, VerdictsAreTrue, LateVerdictsAreTrue
    <3>2. CASE m \in lateSettles /\ m.intent = i
      <4>1. /\ m.no \in Numbers /\ m.no <= attemptNo[i]
            /\ call[i][m.no] \in NeverSent
        BY <1>1, <2>2, <3>2
           DEF TypeOK, LateSettlesAgree, VerdictsAreTrue, LateVerdictsAreTrue
      <4>2. call[i][m.no] \notin Unresolved /\ m.no # attemptNo[i] + 1
        BY <1>1, <4>1 DEF NeverSent, Unresolved, Numbers, TypeOK, RowsTypeOK
      <4> QED BY <1>1, <1>2, <3>2, <4>1, <4>2, CallEffect
    <3>3. CASE m \notin lateSettles
      <4>1. ActivityTimesOut(i)
        BY <1>1, <1>2, <3>3, WhatOneIntentDoes
      <4>2. /\ m.intent = i /\ m.no = attemptNo[i] /\ m.settlement = seen[i]
            /\ pc[i] \in {"settle", "recover"} /\ call' = call
        BY <3>3, <4>1 DEF ActivityTimesOut
      <4> QED BY <1>1, <2>2, <4>2 DEF VerdictsOf
    <3> QED BY <3>1, <3>2, <3>3
  <2> QED BY <2>1, <2>2 DEF VerdictsAreTrue, LateVerdictsAreTrue
<1>3. ASSUME NEW m \in lateSettles, LateSettle(m) PROVE VerdictsAreTrue'
  <2>1. /\ m.intent \in Intents /\ m.no \in Numbers
        /\ m.settlement \in Settlement /\ m.no <= attemptNo[m.intent]
    BY <1>1 DEF TypeOK, LateSettlesAgree
  <2>2. UNCHANGED <<pc, seen, call, attemptNo>> /\ lateSettles' \subseteq lateSettles
    BY <1>1, <1>3, LateSettleRowsEffect DEF LateSettle
  <2>3. ASSUME NEW j \in Intents, NEW k \in Numbers
        PROVE  \/ attempt'[j][k] = attempt[j][k]
               \/ j = m.intent /\ k = m.no /\ attempt'[j][k] = m.settlement
    BY <1>1, <1>3, <2>1 DEF TypeOK, RowsTypeOK, LateSettle, SettleRows, rows
  <2>4. ASSUME NEW j \in Intents PROVE VerdictsOf(j)'
    <3>1. ASSUME NEW k \in Numbers
          PROVE  /\ k > attemptNo'[j] => call'[j][k] = "none"
                 /\ attempt'[j][k] \in NotSentVerdict
                      => call'[j][k] \in NeverSent
      <4>1. CASE attempt'[j][k] = attempt[j][k]
        BY <1>1, <2>2, <4>1 DEF VerdictsOf
      <4>2. CASE j = m.intent /\ k = m.no /\ attempt'[j][k] = m.settlement
        BY <1>1, <2>2, <4>2
           DEF VerdictsOf, VerdictsAreTrue, LateVerdictsAreTrue
      <4> QED BY <2>3, <4>1, <4>2
    <3>2. Latest(j)' = "DISPATCHING" => Latest(j) = "DISPATCHING"
      BY <1>1, <2>1, <2>2, <2>3, NoneBeforeFirst
         DEF Latest, Settlement, IntentOK
    <3> QED BY <1>1, <2>2, <3>1, <3>2 DEF VerdictsOf
  <2> QED BY <2>2, <2>4 DEF VerdictsAreTrue, LateVerdictsAreTrue
<1>4. CASE UNCHANGED vars
  BY <1>4 DEF vars, VerdictsAreTrue, LateVerdictsAreTrue, VerdictsOf, Latest
<1> QED BY <1>2, <1>3, <1>4 DEF Next

\* No verdict has been given at first.
LEMMA InitVerdicts == Init => VerdictsAreTrue
  BY DEF Init, VerdictsAreTrue, LateVerdictsAreTrue, VerdictsOf, Latest,
         NotSentVerdict, Retryable, NeverSent, Numbers

\* A message that was accepted belongs to the latest attempt, because every
\* earlier one was settled as not sent, and that was true.
LEMMA VerdictsImply ==
  ASSUME IInv, VerdictsAreTrue
  PROVE  AtMostOneDelivery /\ FailedMeansNotSent
<1>1. TypeOK /\ \A i \in Intents : RowsOf(i) /\ AttemptsOf(i) /\ VerdictsOf(i)
  BY DEF IInv, RowsAgree, OnlyRetryableIsRetried, VerdictsAreTrue
<1>2. ASSUME NEW i \in Intents, NEW n \in Numbers, call[i][n] = "accepted"
      PROVE  n = attemptNo[i] /\ attempt[i][n] \notin NotSentVerdict
  <2>1. attempt[i][n] \notin NotSentVerdict /\ ~(n > attemptNo[i])
    BY <1>1, <1>2 DEF VerdictsOf, NeverSent
  <2>2. ~(n < attemptNo[i])
    BY <1>1, <2>1 DEF AttemptsOf, NotSentVerdict
  <2>3. n \in Nat /\ attemptNo[i] \in Nat
    BY <1>1 DEF TypeOK, RowsTypeOK, Numbers
  <2> QED BY <2>1, <2>2, <2>3
<1>3. AtMostOneDelivery
  BY <1>2 DEF AtMostOneDelivery
<1>4. ASSUME NEW i \in Intents, intent[i] = "FAILED_FINAL",
             reconciliation[i] = "NONE", NEW n \in Numbers
      PROVE  call[i][n] # "accepted"
  <2>1. Latest(i) \in {"NONE", "FAILED_RETRYABLE", "NOT_FOUND", "FAILED_FINAL"}
    BY <1>1, <1>4 DEF RowsOf
  <2>2. n = attemptNo[i] => attempt[i][n] = Latest(i) /\ Latest(i) # "NONE"
    BY <1>1 DEF Latest, AttemptsOf, Numbers
  <2> QED BY <1>2, <2>1, <2>2 DEF NotSentVerdict, Retryable
<1> QED BY <1>3, <1>4 DEF FailedMeansNotSent

\* When no provider call is unresolved at the start of a new run, not-sent
\* verdicts are true, an e-mail is delivered at most once and one that failed
\* by itself not at all.
THEOREM AtMostOnce ==
  ASSUME CallsOutlive = FALSE
  PROVE  Spec => [](VerdictsAreTrue /\ AtMostOneDelivery /\ FailedMeansNotSent)
<1>1. IInv /\ VerdictsAreTrue /\ [Next]_vars => VerdictsAreTrue'
  BY VerdictsStep
<1>2. IInv /\ VerdictsAreTrue => AtMostOneDelivery /\ FailedMeansNotSent
  BY VerdictsImply
<1> QED BY <1>1, <1>2, InitVerdicts, Inductive, PTL DEF Spec

\* Under the same assumption: an intent that failed by itself, without an
\* operator's decision, never reached the recipient (send-attempt.repository.ts,
\* settle and claim).
COROLLARY FailuresWereNotSent ==
  ASSUME CallsOutlive = FALSE PROVE Spec => []FailedMeansNotSent
BY AtMostOnce, PTL

\* And what an activity, late or not, reports as not sent was not sent
\* (GoogleGmailProviderClient.findByRfcMessageId, GmailSendActivity).
COROLLARY VerdictsTrue ==
  ASSUME CallsOutlive = FALSE PROVE Spec => []VerdictsAreTrue
BY AtMostOnce, PTL

-----------------------------------------------------------------------------
(* The slots of the mailbox go through a behaviour of SlotLane *)

LEMMA InitMailbox == Init => Mailbox!Init
  BY DEF Init, Mailbox!Init, Dispatching, Latest

\* Who is dispatching has been claimed and holds a reserved slot.
LEMMA DispatchingIsClaimed ==
  ASSUME IInv, NEW i \in Dispatching
  PROVE  i \in Intents /\ attemptNo[i] > 0 /\ reservation[i] = "RESERVED"
<1>1. i \in Intents /\ Latest(i) = "DISPATCHING"
  BY DEF Dispatching
<1>2. attemptNo[i] # 0 /\ attemptNo[i] \in Nat
  BY <1>1 DEF Latest, IInv, TypeOK, RowsTypeOK
<1>3. reservation[i] = "RESERVED"
  BY <1>1 DEF IInv, RowsAgree, RowsOf
<1> QED BY <1>1, <1>2, <1>3

\* The slot in dispatch is the first of the lane that is still reserved.
LEMMA FirstOfTheLane ==
  ASSUME IInv, NEW i \in Dispatching, NEW j \in Intents,
         reservation[j] = "RESERVED", lane[i] >= lane[j]
  PROVE  i = j
<1>1. i \in Intents /\ attemptNo[i] > 0 /\ reservation[i] = "RESERVED"
  BY DispatchingIsClaimed
<1>2. lane[j] >= lane[i]
  BY <1>1 DEF IInv, LaneOrder
<1>3. lane[i] \in Nat /\ lane[j] \in Nat
  BY <1>1 DEF IInv, TypeOK
<1>4. lane[i] = lane[j]
  BY <1>2, <1>3
<1> QED BY <1>1, <1>4 DEF IInv, LanesAreNumbered

LEMMA OneDispatching ==
  ASSUME IInv, NEW i \in Dispatching
  PROVE  Dispatching = {i}
<1> SUFFICES ASSUME NEW j \in Dispatching PROVE j = i
  OBVIOUS
<1>1. /\ i \in Intents /\ attemptNo[i] > 0 /\ reservation[i] = "RESERVED"
      /\ j \in Intents /\ attemptNo[j] > 0 /\ reservation[j] = "RESERVED"
  BY DispatchingIsClaimed
<1>2. lane[i] >= lane[j]
  BY <1>1 DEF IInv, LaneOrder
<1> QED BY <1>1, <1>2, FirstOfTheLane

\* A settlement that applies is the one of the slot in dispatch.
LEMMA SettleRowsInLane ==
  ASSUME IInv, NEW i \in Intents, NEW n \in Numbers, n <= attemptNo[i],
         NEW settlement \in Settlement, SettleRows(i, n, settlement),
         UNCHANGED slots
  PROVE  [Mailbox!Settle(i)]_(Mailbox!vars)
<1> USE DEF IInv, TypeOK, RowsTypeOK
<1>1. CASE attempt[i][n] # "DISPATCHING"
  BY <1>1 DEF SettleRows, rows, slots, Mailbox!vars, Dispatching, Latest
<1>2. CASE attempt[i][n] = "DISPATCHING"
  <2>1. /\ n = attemptNo[i] /\ Latest(i) = "DISPATCHING"
        /\ reservation[i] = "RESERVED"
    BY <1>2, DispatchingRows DEF RowsAgree, OnlyRetryableIsRetried
  <2>2. Dispatching = {i}
    BY <2>1, OneDispatching DEF Dispatching
  <2>3. /\ attempt' = [attempt EXCEPT ![i][n] = settlement]
        /\ reservation' = [reservation EXCEPT ![i] = QuotaAfter(i, settlement)]
        /\ UNCHANGED <<lane, lastLane, attemptNo>>
    BY <1>2 DEF SettleRows, slots
  <2>4. QuotaAfter(i, settlement) \in {"RESERVED", "CONSUMED", "RELEASED"}
    BY <2>1 DEF QuotaAfter
  <2>5. Dispatching' = {}
    <3> SUFFICES ASSUME NEW j \in Intents PROVE Latest(j)' # "DISPATCHING"
      BY DEF Dispatching
    <3>1. CASE j = i
      BY <2>1, <2>3, <3>1 DEF Latest, Settlement, Numbers
    <3>2. CASE j # i
      BY <2>2, <2>3, <3>2 DEF Latest, Dispatching
    <3> QED BY <3>1, <3>2
  <2> QED BY <2>2, <2>3, <2>4, <2>5 DEF Mailbox!Settle
<1> QED BY <1>1, <1>2

\* A step of one intent is a step of its slot, or leaves the lane alone.
LEMMA IntentStepInLane ==
  ASSUME IInv, NEW i \in Intents, IntentStep(i)
  PROVE  [Mailbox!Next]_(Mailbox!vars)
<1> USE DEF IInv, TypeOK, RowsTypeOK
<1>0. RowsOf(i) /\ AttemptsOf(i) /\ RunOf(i)
  BY DEF RowsAgree, OnlyRetryableIsRetried, RunsAgree
<1>1. CASE CreateIntent(i)
  <2>1. reservation[i] = "NONE"
    BY <1>0, <1>1 DEF CreateIntent, RowsOf
  <2>2. Dispatching' = Dispatching
    BY <1>1 DEF CreateIntent, Dispatching, Latest
  <2>3. Mailbox!Reserve(i)
    BY <1>1, <2>1, <2>2 DEF CreateIntent, Mailbox!Reserve
  <2> QED BY <2>3 DEF Mailbox!Next
<1>2. CASE ClaimGivesUp(i)
  <2>1. reservation[i] = "RESERVED" /\ i \notin Dispatching
    BY <1>2 DEF ClaimGivesUp, Claimable, Dispatching, Retryable
  <2>2. Dispatching' = Dispatching
    BY <1>2 DEF ClaimGivesUp, Dispatching, Latest
  <2>3. Mailbox!GiveUp(i)
    BY <1>2, <2>1, <2>2 DEF ClaimGivesUp, slots, Mailbox!GiveUp
  <2> QED BY <2>3 DEF Mailbox!Next
<1>3. CASE ClaimSlot(i)
  <2> DEFINE n == attemptNo[i] + 1
  <2>1. /\ reservation[i] = "RESERVED" /\ i \notin Dispatching
        /\ \A j \in Intents : reservation[j] = "RESERVED" => lane[j] >= lane[i]
        /\ n \in Numbers
    BY <1>3 DEF ClaimSlot, Claimable, NoEarlierReserved, Dispatching, Retryable,
                Numbers
  <2>2. Dispatching = {}
    <3> SUFFICES ASSUME NEW j \in Dispatching PROVE FALSE
      OBVIOUS
    <3>1. j \in Intents /\ reservation[j] = "RESERVED"
      BY DispatchingIsClaimed
    <3>2. lane[j] >= lane[i]
      BY <2>1, <3>1
    <3>3. j = i
      BY <2>1, <3>2, FirstOfTheLane
    <3> QED BY <2>1, <3>3
  <2>3. /\ attemptNo' = [attemptNo EXCEPT ![i] = n]
        /\ attempt' = [attempt EXCEPT ![i][n] = "DISPATCHING"]
        /\ UNCHANGED <<reservation, lane, lastLane>>
    BY <1>3 DEF ClaimSlot, slots
  <2>4. Dispatching' = {i}
    <3>1. Latest(i)' = "DISPATCHING"
      BY <2>1, <2>3 DEF Latest, Numbers
    <3>2. \A j \in Intents \ {i} : Latest(j)' = Latest(j)
      BY <2>3 DEF Latest
    <3> QED BY <2>2, <3>1, <3>2 DEF Dispatching
  <2>5. attemptNo[i] < MaxAttempts
    BY <1>3 DEF ClaimSlot
  <2>6. Mailbox!Claim(i)
    BY <2>1, <2>2, <2>3, <2>4, <2>5 DEF Mailbox!Claim
  <2> QED BY <2>6 DEF Mailbox!Next
<1>4. CASE Settle(i) \/ Recover(i)
  <2>1. attemptNo[i] \in Numbers /\ seen[i] \in Settlement
    BY <1>0, <1>4, NoneBeforeFirst DEF Settle, Recover, RunOf, Settlement, Numbers
  <2>2. SettleRows(i, attemptNo[i], seen[i]) /\ UNCHANGED slots
    BY <1>4 DEF Settle, Recover
  <2>3. attemptNo[i] <= attemptNo[i]
    BY <2>1 DEF Numbers
  <2>4. [Mailbox!Settle(i)]_(Mailbox!vars)
    BY <2>1, <2>2, <2>3, SettleRowsInLane
  <2> QED BY <2>4 DEF Mailbox!Next
<1>5. CASE Reconcile(i) \/ ManualDecision(i)
  <2>1. UNCHANGED <<reservation, attemptNo, attempt, slots>>
    BY <1>5 DEF Reconcile, ManualDecision, RecordReconciliation, rows
  <2> QED BY <2>1 DEF slots, Mailbox!vars, Dispatching, Latest
<1>6. ASSUME UNCHANGED <<rows, slots>> PROVE UNCHANGED Mailbox!vars
  BY <1>6 DEF rows, slots, Mailbox!vars, Dispatching, Latest
<1>7. CASE \/ RelayDeliver(i) \/ RelayPublishes(i) \/ RecoverStaleSend(i)
           \/ Expire(i) \/ ActivityTimesOut(i)
  BY <1>6, <1>7 DEF RelayDeliver, RelayPublishes, RecoverStaleSend, Expire,
                    ActivityTimesOut
<1>8. CASE \/ ClaimAnswered(i) \/ ReturnAccepted(i) \/ ReturnUnknown(i)
           \/ Load(i) \/ QueryFound(i) \/ QueryNotFound(i)
           \/ QueryInconclusive(i)
  BY <1>6, <1>8 DEF ClaimAnswered, ReturnAccepted, ReturnUnknown, Load,
                    QueryFound, QueryNotFound, QueryInconclusive
<1>9. ASSUME NEW n \in Numbers, CallStep(i, n) PROVE UNCHANGED Mailbox!vars
  BY <1>6, <1>9 DEF CallStep, PassGate, CallGmail, NotSent, GmailAccepts, CallLost
<1> QED BY <1>1, <1>2, <1>3, <1>4, <1>5, <1>7, <1>8, <1>9
        DEF IntentStep, RunStep

LEMMA MailboxNext == IInv /\ [Next]_vars => [Mailbox!Next]_(Mailbox!vars)
<1> SUFFICES ASSUME IInv, [Next]_vars PROVE [Mailbox!Next]_(Mailbox!vars)
  OBVIOUS
<1>1. ASSUME NEW i \in Intents, IntentStep(i)
      PROVE  [Mailbox!Next]_(Mailbox!vars)
  BY <1>1, IntentStepInLane
<1>2. ASSUME NEW m \in lateSettles, LateSettle(m)
      PROVE  [Mailbox!Next]_(Mailbox!vars)
  <2>1. /\ m.intent \in Intents /\ m.no \in Numbers
        /\ m.settlement \in Settlement /\ m.no <= attemptNo[m.intent]
    BY DEF IInv, TypeOK, RunsAgree, LateSettlesAgree
  <2>2. CASE UNCHANGED rows
    BY <1>2, <2>2 DEF LateSettle, rows, slots, Mailbox!vars, Dispatching, Latest
  <2>3. CASE SettleRows(m.intent, m.no, m.settlement)
    <3>1. [Mailbox!Settle(m.intent)]_(Mailbox!vars)
      BY <1>2, <2>1, <2>3, SettleRowsInLane DEF LateSettle
    <3> QED BY <2>1, <3>1 DEF Mailbox!Next
  <2> QED BY <1>2, <2>2, <2>3 DEF LateSettle
<1>3. CASE UNCHANGED vars
  BY <1>3 DEF vars, Mailbox!vars, Dispatching, Latest
<1> QED BY <1>1, <1>2, <1>3 DEF Next

\* Whatever activities outlive their limit and whatever settles late, the
\* mailbox serves its slots one at a time and in the order of the lane.
THEOREM KeepsLane == Spec => LaneKept
  BY InitMailbox, MailboxNext, Inductive, PTL DEF Spec, LaneKept, Mailbox!Spec
=============================================================================
