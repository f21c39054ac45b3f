------------------------- MODULE ProviderFetchProofs -------------------------
(***************************************************************************)
(* For any intents, attempts, batches, lease, grace, limits and costs,     *)
(* whether the sessions of the locks last or not: an intent that keeps its *)
(* lease and has one attempt at a time is asked for once, what is released *)
(* was not accepted before the age of Grace, the budget agrees with the    *)
(* ledger and stays within its limit, and no attempt disturbs the holder   *)
(* of a lease.                                                             *)
(***************************************************************************)
EXTENDS ProviderFetch, FiniteSetTheorems, TLAPS

\* The steps that only move an attempt.
Quiet(a) ==
  \/ FindRecoverable(a) \/ ReconcileDispatchedTask(a)
  \/ RecoverAcceptedTask(a) \/ Throws(a) \/ NotSent(a) \/ TimesOut(a)
  \/ Polled(a) \/ Crash(a)

-----------------------------------------------------------------------------
(* The types *)

LEMMA InitIInv == Init => IInv
  BY FetchAssumption
     DEF Init, IInv, TypeOK, Steps, TimesOK, Bookkeeping, Workers, Charges,
         Alone, Lonely, Working, Asking, Holding, Paying, BatchesOf, LeaseIs, Batches,
         HasRow, BatchOK, RowOf, Worker, Verdict, Charge, Gone

\* A quiet step moves one attempt: it ends, goes on, or takes up the unknown
\* batch of an earlier one.
LEMMA QuietMoves ==
  ASSUME TypeOK, NEW a \in Attempts, Quiet(a)
  PROVE  /\ UNCHANGED <<clock, endpoint, limit, lease, row, budget, provider, exposed>>
         /\ \/ Leave(a)
            \/ \E b \in Recoverable(of[a]), s \in {"recover", "reconcile"} :
                 pc[a] = "look" /\ WorkOn(a, b, s)
            \/ \E s \in Steps :
                 /\ Goto(a, s)
                 /\ \/ pc[a] = "look" /\ s = "acquire" /\ Recoverable(of[a]) = {}
                    \/ pc[a] = "reconcile" /\ s = "store"
                    \/ /\ pc[a] = "reconcile" /\ s = "release"
                       /\ Absent(cur[a], at[a])
                    \/ pc[a] = "recover" /\ s = "persist_recovered"
                    \/ pc[a] = "call" /\ s \in {"failed", "unknown_charge"}
                    \/ pc[a] \in {"await", "poll"} /\ s = "unknown_charge"
                    \/ pc[a] = "poll" /\ s = "persist"
                    \/ pc[a] = "poll" /\ s = "failed"
<1> USE DEF Steps
<1>1. CASE FindRecoverable(a)
  BY <1>1 DEF FindRecoverable, Resume, Newest
<1>2. CASE ReconcileDispatchedTask(a) \/ RecoverAcceptedTask(a) \/ Throws(a)
  BY <1>2 DEF ReconcileDispatchedTask, RecoverAcceptedTask, Throws
<1>3. CASE NotSent(a) \/ TimesOut(a) \/ Polled(a) \/ Crash(a)
  BY <1>3 DEF NotSent, TimesOut, Polled, Crash
<1> QED BY <1>1, <1>2, <1>3 DEF Quiet

LEMMA Constants ==
  /\ Lease \in Nat /\ Grace \in Nat /\ "none" \notin Intents
  /\ Batches \subseteq Nat /\ 0 \notin Batches
  /\ Costs \subseteq Nat
  BY FetchAssumption DEF Batches

\* The type invariant, part by part.
RestOK ==
  /\ clock \in Nat
  /\ endpoint \in {"queue", "live"}
  /\ sent \subseteq Batches
  /\ posted \subseteq Batches
  /\ late \subseteq posted
  /\ exposed \subseteq Intents
LeaseOK ==
  lease \in [status : {"none", "acquired", "completed", "failed", "unknown_charge"},
             owner : Intents \cup {"none"}, expires : Nat]
StatusOK ==
  status \in [Batches -> {"none", "running", "succeeded", "failed", "unknown_charge"}]
RowOK ==
  /\ StatusOK
  /\ intent \in [Batches -> Intents \cup {"none"}]
  /\ started \in [Batches -> Nat]
  /\ task \subseteq Batches
LedgerOK ==
  ledger \in [Intents -> [status : {"none", "reserved", "settled", "released"},
                          batch : Batches \cup {0}]]
BudgetOK == LedgerOK /\ limit \in Limits /\ reserved \in Int /\ spent \in Nat
AttemptOK ==
  /\ pc \in [Attempts -> Steps]
  /\ of \in [Attempts -> Intents \cup {"none"}]
  /\ at \in [Attempts -> Nat]
  /\ cur \in [Attempts -> Batches \cup {0}]

LEMMA TypeParts ==
  TypeOK <=> RestOK /\ LeaseOK /\ RowOK /\ BudgetOK /\ AttemptOK
  BY DEF TypeOK, RestOK, LeaseOK, RowOK, StatusOK, BudgetOK, LedgerOK, AttemptOK

LEMMA TypePartsNext ==
  TypeOK' <=> RestOK' /\ LeaseOK' /\ RowOK' /\ BudgetOK' /\ AttemptOK'
  BY DEF TypeOK, RestOK, LeaseOK, RowOK, StatusOK, BudgetOK, LedgerOK, AttemptOK

\* An attempt goes from step to step.
LEMMA AttemptType ==
  ASSUME AttemptOK, NEW a \in Attempts,
         \/ Leave(a)
         \/ \E s \in Steps : Goto(a, s)
         \/ \E s \in Steps, b \in Batches : WorkOn(a, b, s)
         \/ \E b \in Batches : OwnBatch(a, b)
  PROVE  AttemptOK'
<1>1. {"idle", "authorize"} \subseteq Steps
  BY DEF Steps
<1>2. CASE Leave(a)
  BY <1>1, <1>2 DEF AttemptOK, Leave
<1>3. ASSUME NEW s \in Steps, Goto(a, s) PROVE AttemptOK'
  BY <1>3 DEF AttemptOK, Goto
<1>4. ASSUME NEW s \in Steps, NEW b \in Batches, WorkOn(a, b, s) PROVE AttemptOK'
  BY <1>4 DEF AttemptOK, WorkOn
<1>5. ASSUME NEW b \in Batches, OwnBatch(a, b) PROVE AttemptOK'
  BY <1>1, <1>5 DEF AttemptOK, OwnBatch
<1> QED BY <1>2, <1>3, <1>4, <1>5

LEMMA LeaseType ==
  ASSUME LeaseOK,
         \/ lease' = lease
         \/ EndLease("completed") \/ EndLease("failed") \/ EndLease("unknown_charge")
  PROVE  LeaseOK'
<1>1. ASSUME NEW s \in {"completed", "failed", "unknown_charge"}, EndLease(s)
      PROVE  lease' = [status |-> s, owner |-> lease.owner, expires |-> 0]
  BY <1>1 DEF LeaseOK, EndLease
<1>2. lease.owner \in Intents \cup {"none"}
  BY DEF LeaseOK
<1>3. CASE lease' = lease
  BY <1>3 DEF LeaseOK
<1> QED BY <1>1, <1>2, <1>3 DEF LeaseOK

LEMMA MarkType ==
  ASSUME StatusOK, NEW b,
         \/ status' = status
         \/ Mark(b, "running") \/ Mark(b, "succeeded") \/ Mark(b, "failed")
         \/ Mark(b, "unknown_charge")
  PROVE  StatusOK'
  BY DEF StatusOK, Mark

LEMMA LedgerType ==
  ASSUME LedgerOK, NEW i \in Intents, NEW s \in {"settled", "released"},
         ledger' = [ledger EXCEPT ![i].status = s]
  PROVE  LedgerOK'
  BY DEF LedgerOK

\* An attempt that is under way is the attempt of an intent, and has a batch
\* when it needs one.
LEMMA Busy ==
  ASSUME TypeOK, Workers, NEW a \in Attempts
  PROVE  /\ pc[a] # "idle" => of[a] \in Intents
         /\ pc[a] \in Working \cup Asking => cur[a] \in Batches /\ intent[cur[a]] = of[a]
  BY DEF TypeOK, Workers, Worker

LEMMA QuietType == ASSUME TypeOK, NEW a \in Attempts, Quiet(a) PROVE TypeOK'
<1>1. Recoverable(of[a]) \subseteq Batches /\ {"recover", "reconcile"} \subseteq Steps
  BY DEF Recoverable, BatchesOf, Steps
<1>2. UNCHANGED <<clock, endpoint, limit, lease, row, budget, provider, exposed>>
  BY QuietMoves
<1>3. AttemptOK'
  <2>1. \/ Leave(a)
        \/ \E s \in Steps : Goto(a, s)
        \/ \E s \in Steps, b \in Batches : WorkOn(a, b, s)
    <3>1. CASE \E b \in Recoverable(of[a]), s \in {"recover", "reconcile"} :
                 pc[a] = "look" /\ WorkOn(a, b, s)
      BY <1>1, <3>1
    <3>2. CASE \E s \in Steps : Goto(a, s)
      BY <3>2
    <3> QED BY <3>1, <3>2, QuietMoves
  <2> QED BY <2>1, AttemptType, TypeParts
<1>4. RestOK' /\ LeaseOK' /\ RowOK' /\ BudgetOK'
  BY <1>2, TypeParts DEF RestOK, LeaseOK, RowOK, StatusOK, BudgetOK, LedgerOK, row,
     budget, provider
<1> QED BY <1>3, <1>4, TypePartsNext

LEMMA TypeStep ==
  ASSUME TypeOK, Workers, Bookkeeping, NEW a \in Attempts, Attempt(a)
  PROVE  TypeOK'
<1>w. /\ pc[a] \in Working \cup Asking => cur[a] \in Batches
      /\ pc[a] # "idle" => of[a] \in Intents
  BY Busy
<1>p. RestOK /\ LeaseOK /\ RowOK /\ BudgetOK /\ AttemptOK
  BY TypeParts
<1> DEFINE Ready ==
      \/ Leave(a)
      \/ \E s \in Steps : Goto(a, s)
      \/ \E s \in Steps, b \in Batches : WorkOn(a, b, s)
      \/ \E b \in Batches : OwnBatch(a, b)
<1>r. ASSUME Ready, RestOK', LeaseOK', RowOK', BudgetOK' PROVE TypeOK'
  BY <1>p, <1>r, AttemptType, TypePartsNext
<1> HIDE DEF Ready
<1>0. ASSUME NEW i \in Intents, Begin(a, i) PROVE TypeOK'
  <2>1. "interrupt" \in Steps
    BY DEF Steps
  <2>2. AttemptOK'
    BY <1>0, <1>p, <2>1 DEF Begin, AttemptOK, RestOK
  <2> QED BY <1>0, <1>p, <2>2, TypePartsNext
          DEF Begin, RestOK, LeaseOK, RowOK, StatusOK, BudgetOK, LedgerOK, row, budget,
              provider
<1>1. CASE Quiet(a)
  BY <1>1, QuietType
<1>2. CASE TransitionInterruptedRequest(a)
  <2>1. Ready
    BY <1>2
       DEF TransitionInterruptedRequest, Resume, Newest, Interrupted, BatchesOf,
           Steps, Ready
  <2>2. LeaseOK' /\ StatusOK'
    BY <1>2, <1>p, LeaseType, MarkType DEF TransitionInterruptedRequest, row, RowOK
  <2>3. UNCHANGED <<clock, endpoint, limit, budget, provider, exposed, intent,
                    started, task>>
    BY <1>2 DEF TransitionInterruptedRequest, row
  <2> QED BY <1>p, <1>r, <2>1, <2>2, <2>3
          DEF RestOK, RowOK, BudgetOK, LedgerOK, budget, provider
<1>3. CASE StoreTask(a)
  <2>1. Ready /\ cur[a] \in Batches
    BY <1>3, <1>w DEF StoreTask, Steps, Asking, Ready
  <2> QED BY <1>3, <1>p, <1>r, <2>1
          DEF StoreTask, RestOK, LeaseOK, RowOK, StatusOK, BudgetOK, LedgerOK,
              budget, provider
<1>4. CASE ReconcileNotDispatched(a)
  <2>1. Ready
    BY <1>4 DEF ReconcileNotDispatched, Steps, Ready
  <2>2. LeaseOK' /\ StatusOK' /\ LedgerOK'
    BY <1>4, <1>p, <1>w, LeaseType, MarkType, LedgerType
       DEF ReconcileNotDispatched, RowOK, BudgetOK, Release
  <2> QED BY <1>4, <1>p, <1>r, <2>1, <2>2
          DEF ReconcileNotDispatched, Release, RestOK, RowOK, BudgetOK, provider
<1>5. CASE PersistRecovered(a) \/ PersistSuccessfulRequest(a)
  <2>1. Ready /\ of[a] \in Intents
    BY <1>5, <1>w DEF PersistRecovered, PersistSuccessfulRequest, Ready
  <2>2. UNCHANGED <<clock, endpoint, limit, intent, started, task, provider, exposed>>
    BY <1>5 DEF PersistRecovered, PersistSuccessfulRequest
  <2>3. \/ UNCHANGED <<lease, status, budget>>
        \/ /\ Mark(cur[a], "succeeded")
           /\ ledger' = [ledger EXCEPT ![of[a]].status = "settled"]
           /\ reserved' = reserved - 1
           /\ \E cost \in Costs : spent' = spent + cost
           /\ EndLease("completed")
    BY <1>5 DEF PersistRecovered, PersistSuccessfulRequest, Persist
  <2>4. LeaseOK' /\ StatusOK'
    BY <1>p, <2>3, LeaseType, MarkType DEF RowOK
  <2>5. BudgetOK'
    BY <1>p, <2>1, <2>2, <2>3, LedgerType, Constants DEF BudgetOK, LedgerOK, budget
  <2> QED BY <1>p, <1>r, <2>1, <2>2, <2>4, <2>5 DEF RestOK, RowOK, provider
<1>6. CASE AcquireLease(a)
  <2>1. Ready
    BY <1>6 DEF AcquireLease, Steps, Ready
  <2>2. LeaseOK'
    BY <1>6, <1>p, <1>w, Constants DEF AcquireLease, LeaseOK, AttemptOK
  <2>3. lease.status # "none" => lease.owner \in Intents
    BY <1>p DEF LeaseOK, Bookkeeping
  <2>4. RestOK'
    BY <1>6, <1>p, <2>3 DEF AcquireLease, RestOK, provider
  <2> QED BY <1>6, <1>p, <1>r, <2>1, <2>2, <2>4
          DEF AcquireLease, RowOK, StatusOK, BudgetOK, LedgerOK, row, budget
<1>7. CASE StartRequest(a)
  <2>1. PICK b \in Batches :
          /\ Mark(b, "running")
          /\ intent' = [intent EXCEPT ![b] = of[a]]
          /\ started' = [started EXCEPT ![b] = at[a]]
          /\ OwnBatch(a, b)
    BY <1>7 DEF StartRequest
  <2>2. Ready
    BY <2>1 DEF Ready
  <2>3. StatusOK'
    BY <1>p, <2>1, MarkType DEF RowOK
  <2>4. RowOK'
    BY <1>p, <1>7, <2>1, <2>3 DEF RowOK, AttemptOK, StartRequest
  <2> QED BY <1>7, <1>p, <1>r, <2>2, <2>4
          DEF StartRequest, RestOK, LeaseOK, BudgetOK, LedgerOK, budget, provider
<1>8. CASE StartFails(a)
  <2>1. Ready
    BY <1>8 DEF StartFails, Ready
  <2>2. LeaseOK'
    BY <1>8, <1>p, LeaseType DEF StartFails
  <2> QED BY <1>8, <1>p, <1>r, <2>1, <2>2
          DEF StartFails, RestOK, RowOK, StatusOK, BudgetOK, LedgerOK, row, budget,
              provider
<1>9. CASE Authorize(a)
  <2>1. Ready
    BY <1>9 DEF Authorize, Steps, Ready
  <2>2. of[a] \in Intents
    BY <1>9, <1>w DEF Authorize
  <2>3. \A b \in Newest(BatchesOf(of[a], "running")) : b \in Batches
    BY DEF Newest, BatchesOf
  <2>4. BudgetOK'
    <3>1. CASE UNCHANGED <<limit, budget>>
      BY <1>p, <3>1 DEF BudgetOK, LedgerOK, budget
    <3>2. ASSUME NEW b \in Newest(BatchesOf(of[a], "running")),
                 ledger' = [ledger EXCEPT ![of[a]] = [status |-> "reserved", batch |-> b]],
                 limit' \in Limits, reserved' = reserved + 1, spent' = spent
          PROVE  BudgetOK'
      BY <1>p, <2>2, <2>3, <3>2 DEF BudgetOK, LedgerOK
    <3> QED BY <1>9, <3>1, <3>2 DEF Authorize, Reserve
  <2> QED BY <1>9, <1>p, <1>r, <2>1, <2>4
          DEF Authorize, RestOK, LeaseOK, RowOK, StatusOK, row, provider
<1>10. CASE Post(a) \/ Refuse(a) \/ Answered(a)
  <2>1. Ready /\ cur[a] \in Batches
    BY <1>10, <1>w DEF Post, Refuse, Answered, Steps, Working, Ready
  <2>2. UNCHANGED <<clock, endpoint, limit, lease, status, intent, started, budget,
                    posted, late, exposed>>
    BY <1>10 DEF Post, Refuse, Answered, row, provider
  <2>3. sent' \subseteq Batches /\ task' \subseteq Batches
    BY <1>10, <1>p, <2>1 DEF Post, Refuse, Answered, row, provider, RestOK, RowOK
  <2> QED BY <1>p, <1>r, <2>1, <2>2, <2>3
          DEF RestOK, LeaseOK, RowOK, StatusOK, BudgetOK, LedgerOK, budget
<1>11. CASE Fail(a)
  <2>1. Ready /\ of[a] \in Intents
    BY <1>11, <1>w DEF Fail, Ready
  <2>2. LeaseOK' /\ StatusOK'
    BY <1>11, <1>p, LeaseType, MarkType DEF Fail, RowOK
  <2>3. BudgetOK'
    BY <1>11, <1>p, <2>1, LedgerType DEF Fail, BudgetOK, LedgerOK, Release, budget
  <2> QED BY <1>11, <1>p, <1>r, <2>1, <2>2, <2>3 DEF Fail, RestOK, RowOK, provider
<1> QED BY <1>0, <1>1, <1>2, <1>3, <1>4, <1>5, <1>6, <1>7, <1>8, <1>9, <1>10, <1>11
        DEF Attempt, Quiet

-----------------------------------------------------------------------------
(* What each step changes, point by point *)

Still(a) ==
  \A c \in Attempts \ {a} :
    pc'[c] = pc[c] /\ of'[c] = of[c] /\ at'[c] = at[c] /\ cur'[c] = cur[c]
Moved(a, s) ==
  Still(a) /\ pc'[a] = s /\ of'[a] = of[a] /\ at'[a] = at[a] /\ cur'[a] = cur[a]
Left(a) == Still(a) /\ pc'[a] = "idle" /\ of'[a] = "none" /\ at'[a] = 0
TookUp(a, b, s) ==
  Still(a) /\ pc'[a] = s /\ of'[a] = of[a] /\ at'[a] = at[a] /\ cur'[a] = b
Owned(a, b) ==
  Still(a) /\ pc'[a] = "authorize" /\ of'[a] = of[a] /\ at'[a] = 0 /\ cur'[a] = b
Marked(b, s) == status'[b] = s /\ \A c \in Batches \ {b} : status'[c] = status[c]
Ended(s) == lease' = [status |-> s, owner |-> lease.owner, expires |-> 0]
Booked(i, s, b) ==
  /\ ledger'[i] = [status |-> s, batch |-> b]
  /\ \A j \in Intents \ {i} : ledger'[j] = ledger[j]

LEMMA Points ==
  ASSUME TypeOK
  PROVE  /\ \A a \in Attempts, s \in Steps : Goto(a, s) => Moved(a, s)
         /\ \A a \in Attempts : Leave(a) => Left(a)
         /\ \A a \in Attempts, b \in Batches, s \in Steps :
              WorkOn(a, b, s) => TookUp(a, b, s)
         /\ \A a \in Attempts, b \in Batches : OwnBatch(a, b) => Owned(a, b)
         /\ \A b \in Batches :
              \A s \in {"running", "succeeded", "failed", "unknown_charge"} :
                Mark(b, s) => Marked(b, s)
         /\ \A s \in {"completed", "failed", "unknown_charge"} :
              EndLease(s) => Ended(s)
         /\ \A i \in Intents, s \in {"settled", "released"} :
              ledger' = [ledger EXCEPT ![i].status = s]
                => Booked(i, s, ledger[i].batch)
<1>1. AttemptOK /\ LeaseOK /\ StatusOK /\ LedgerOK
  BY TypeParts DEF RowOK, BudgetOK
<1>2. ASSUME NEW a \in Attempts, NEW s \in Steps, Goto(a, s) PROVE Moved(a, s)
  BY <1>1, <1>2 DEF AttemptOK, Goto, Moved, Still
<1>3. ASSUME NEW a \in Attempts, Leave(a) PROVE Left(a)
  BY <1>1, <1>3 DEF AttemptOK, Leave, Left, Still
<1>4. ASSUME NEW a \in Attempts, NEW b \in Batches, NEW s \in Steps, WorkOn(a, b, s)
      PROVE  TookUp(a, b, s)
  BY <1>1, <1>4 DEF AttemptOK, WorkOn, TookUp, Still
<1>5. ASSUME NEW a \in Attempts, NEW b \in Batches, OwnBatch(a, b) PROVE Owned(a, b)
  BY <1>1, <1>5 DEF AttemptOK, OwnBatch, Owned, Still
<1>6. ASSUME NEW b \in Batches,
             NEW s \in {"running", "succeeded", "failed", "unknown_charge"},
             Mark(b, s)
      PROVE  Marked(b, s)
  BY <1>1, <1>6 DEF StatusOK, Mark, Marked
<1>7. ASSUME NEW s \in {"completed", "failed", "unknown_charge"}, EndLease(s)
      PROVE  Ended(s)
  BY <1>1, <1>7 DEF LeaseOK, EndLease, Ended
<1>8. ASSUME NEW i \in Intents, NEW s \in {"settled", "released"},
             ledger' = [ledger EXCEPT ![i].status = s]
      PROVE  Booked(i, s, ledger[i].batch)
  BY <1>1, <1>8 DEF LedgerOK, Booked
<1> QED BY <1>2, <1>3, <1>4, <1>5, <1>6, <1>7, <1>8

\* The kinds of steps.  One that begins an attempt,
Begins(a, i) ==
  /\ pc[a] = "idle"
  /\ ~Replays(i)
  /\ Still(a) /\ pc'[a] = "interrupt" /\ of'[a] = i /\ at'[a] = clock
  /\ exposed' = IF Locked(i) THEN exposed \cup {i} ELSE exposed
  /\ UNCHANGED <<clock, lease, status, intent, started, ledger, provider>>
\* a step that moves an attempt and nothing the invariant reads besides,
Moves(a) ==
  /\ UNCHANGED <<clock, lease, status, intent, started, ledger, provider, exposed>>
  /\ pc[a] # "idle"
  /\ \/ Left(a)
     \/ \E b \in Recoverable(of[a]), s \in {"recover", "reconcile"} :
          pc[a] = "look" /\ TookUp(a, b, s)
     \/ pc[a] = "interrupt" /\ Moved(a, "look") /\ Interrupted(a) = {}
     \/ pc[a] = "look" /\ Moved(a, "acquire") /\ Recoverable(of[a]) = {}
     \/ pc[a] = "reconcile" /\ Moved(a, "store")
     \/ pc[a] = "reconcile" /\ Moved(a, "release") /\ Absent(cur[a], at[a])
     \/ pc[a] = "store" /\ Moved(a, "recover")
     \/ pc[a] = "recover" /\ Moved(a, "persist_recovered")
     \/ pc[a] = "authorize" /\ Moved(a, "failed")
     \/ /\ pc[a] = "authorize" /\ Moved(a, "call")
        /\ ledger[of[a]].status \in {"reserved", "settled"}
        /\ status[ledger[of[a]].batch] # "unknown_charge"
     \/ pc[a] = "call" /\ \E s \in {"failed", "unknown_charge"} : Moved(a, s)
     \/ pc[a] \in {"await", "poll"} /\ Moved(a, "unknown_charge")
     \/ pc[a] = "await" /\ Moved(a, "poll") /\ cur[a] \in task'
     \/ pc[a] = "await" /\ Moved(a, "persist")
     \/ pc[a] = "poll" /\ Moved(a, "persist")
     \/ pc[a] = "poll" /\ Moved(a, "failed")
\* one that finds an interrupted batch,
Interrupts(a, b) ==
  /\ pc[a] = "interrupt"
  /\ b \in Interrupted(a)
  /\ Marked(b, "unknown_charge")
  /\ Ended("unknown_charge")
  /\ \/ /\ HasRow(of[a], b, "reserved")
        /\ \E s \in {"recover", "reconcile"} : TookUp(a, b, s)
     \/ Left(a)
  /\ UNCHANGED <<clock, intent, started, ledger, provider, exposed>>
\* one that gives up a batch or settles it,
Resolves(a) ==
  /\ UNCHANGED <<clock, intent, started, provider, exposed>>
  /\ HasRow(of[a], cur[a], "reserved")
  /\ \/ /\ pc[a] = "release"
        /\ status[cur[a]] = "unknown_charge"
        /\ LeaseIs(of[a], "unknown_charge")
        /\ Booked(of[a], "released", cur[a])
        /\ Marked(cur[a], "failed")
        /\ Ended("failed")
        /\ Moved(a, "acquire")
     \/ /\ \/ /\ pc[a] = "persist_recovered" /\ status[cur[a]] = "unknown_charge"
              /\ LeaseIs(of[a], "unknown_charge")
           \/ /\ pc[a] = "persist" /\ status[cur[a]] = "running"
              /\ LeaseIs(of[a], "acquired")
        /\ Booked(of[a], "settled", cur[a])
        /\ Marked(cur[a], "succeeded")
        /\ Ended("completed")
        /\ Left(a)
\* one that takes or returns the lease,
Acquires(a) ==
  /\ pc[a] = "acquire"
  /\ Takeable(at[a])
  /\ lease' = [status |-> "acquired", owner |-> of[a], expires |-> at[a] + Lease]
  /\ exposed' = exposed \cup
       IF lease.status \in {"acquired", "completed"} THEN {lease.owner} \ {of[a]}
       ELSE {}
  /\ Moved(a, "start")
  /\ UNCHANGED <<clock, status, intent, started, ledger, provider>>
Returns(a) ==
  /\ pc[a] = "start"
  /\ LeaseIs(of[a], "acquired")
  /\ Ended("failed")
  /\ Left(a)
  /\ UNCHANGED <<clock, status, intent, started, ledger, provider, exposed>>
\* one that starts a batch or reserves its cost,
Starts(a, b) ==
  /\ pc[a] = "start"
  /\ status[b] = "none"
  /\ Marked(b, "running")
  /\ intent'[b] = of[a] /\ started'[b] = at[a]
  /\ \A c \in Batches \ {b} : intent'[c] = intent[c] /\ started'[c] = started[c]
  /\ Owned(a, b)
  /\ UNCHANGED <<clock, lease, ledger, provider, exposed>>
Reserves(a) ==
  /\ pc[a] = "authorize"
  /\ ledger[of[a]].status = "none"
  /\ \E b \in Newest(BatchesOf(of[a], "running")) : Booked(of[a], "reserved", b)
  /\ Moved(a, "call")
  /\ UNCHANGED <<clock, lease, status, intent, started, provider, exposed>>
\* and one that sends a request, is refused, or fails.
Posts(a) ==
  /\ \/ pc[a] = "call" /\ Moved(a, "await") /\ sent' = sent \cup {cur[a]}
     \/ /\ pc[a] = "await" /\ Moved(a, "failed")
        /\ cur[a] \in sent /\ sent' = sent \ {cur[a]}
  /\ UNCHANGED <<clock, lease, status, intent, started, ledger, posted, late, exposed>>
Fails(a) ==
  /\ pc[a] \in {"failed", "unknown_charge"}
  /\ \/ status[cur[a]] = "running" /\ Marked(cur[a], pc[a])
     \/ status[cur[a]] # "running" /\ status' = status
  /\ \/ /\ pc[a] = "failed" /\ HasRow(of[a], cur[a], "reserved")
        /\ Booked(of[a], "released", cur[a])
     \/ ~(pc[a] = "failed" /\ HasRow(of[a], cur[a], "reserved")) /\ ledger' = ledger
  /\ \/ LeaseIs(of[a], "acquired") /\ Ended(pc[a])
     \/ ~LeaseIs(of[a], "acquired") /\ lease' = lease
  /\ Left(a)
  /\ UNCHANGED <<clock, intent, started, provider, exposed>>

LEMMA Kinds ==
  ASSUME TypeOK, Workers, NEW a \in Attempts, Attempt(a)
  PROVE  \/ \E i \in Intents : Begins(a, i)
         \/ Moves(a) \/ Resolves(a) \/ Acquires(a) \/ Returns(a)
         \/ \E b \in Batches : Interrupts(a, b) \/ Starts(a, b)
         \/ Reserves(a) \/ Posts(a) \/ Fails(a)
<1>t. RestOK /\ LeaseOK /\ RowOK /\ BudgetOK /\ AttemptOK
  BY TypeParts
<1>w. /\ pc[a] \in Working \cup Asking => cur[a] \in Batches
      /\ pc[a] # "idle" => of[a] \in Intents
  BY Busy
<1>g. \A s \in Steps : Goto(a, s) => Moved(a, s)
  BY Points
<1>l. Leave(a) => Left(a)
  BY Points
<1>k. \A b \in Batches, s \in Steps : WorkOn(a, b, s) => TookUp(a, b, s)
  BY Points
<1>m. \A b \in Batches :
        \A s \in {"running", "succeeded", "failed", "unknown_charge"} :
          Mark(b, s) => Marked(b, s)
  BY Points
<1>e. \A s \in {"completed", "failed", "unknown_charge"} : EndLease(s) => Ended(s)
  BY Points
<1>b. \A s \in {"settled", "released"} :
        of[a] \in Intents /\ ledger' = [ledger EXCEPT ![of[a]].status = s]
          => Booked(of[a], s, ledger[of[a]].batch)
  BY Points
<1>0. ASSUME NEW i \in Intents, Begin(a, i) PROVE Begins(a, i)
  BY <1>0, <1>t DEF Begin, Begins, Still, AttemptOK, row, budget
<1>1. CASE Quiet(a)
  <2>1. /\ UNCHANGED <<clock, lease, status, intent, started, ledger, provider, exposed>>
        /\ pc[a] # "idle"
    BY <1>1, QuietMoves
       DEF row, budget, Quiet, FindRecoverable, ReconcileDispatchedTask,
           RecoverAcceptedTask, Throws, NotSent, TimesOut, Polled, Crash
  <2>3. CASE Leave(a)
    BY <2>1, <2>3, <1>l DEF Moves
  <2>4. ASSUME NEW b \in Recoverable(of[a]), NEW s \in {"recover", "reconcile"},
               pc[a] = "look", WorkOn(a, b, s)
        PROVE  Moves(a)
    <3>1. b \in Batches /\ s \in Steps
      BY DEF Recoverable, BatchesOf, Steps
    <3> QED BY <2>1, <2>4, <3>1, <1>k DEF Moves
  <2>5. ASSUME NEW s \in Steps, Goto(a, s),
               \/ pc[a] = "look" /\ s = "acquire" /\ Recoverable(of[a]) = {}
               \/ pc[a] = "reconcile" /\ s = "store"
               \/ pc[a] = "reconcile" /\ s = "release" /\ Absent(cur[a], at[a])
               \/ pc[a] = "recover" /\ s = "persist_recovered"
               \/ pc[a] = "call" /\ s \in {"failed", "unknown_charge"}
               \/ pc[a] \in {"await", "poll"} /\ s = "unknown_charge"
               \/ pc[a] = "poll" /\ s = "persist"
               \/ pc[a] = "poll" /\ s = "failed"
        PROVE  Moves(a)
    <3>1. Moved(a, s)
      BY <2>5, <1>g
    <3> QED BY <2>1, <2>5, <3>1 DEF Moves
  <2> QED BY <1>1, <2>3, <2>4, <2>5, QuietMoves
<1>2. CASE TransitionInterruptedRequest(a)
  <2>1. CASE Interrupted(a) = {} /\ Goto(a, "look") /\ UNCHANGED <<lease, row>>
    <3>1. Moved(a, "look")
      BY <2>1, <1>g DEF Steps
    <3> QED BY <1>2, <2>1, <3>1
            DEF TransitionInterruptedRequest, Moves, row, budget
  <2>2. ASSUME NEW b \in Newest(Interrupted(a)),
               Mark(b, "unknown_charge"), EndLease("unknown_charge"),
               IF HasRow(of[a], b, "reserved") THEN Resume(a, b) ELSE Leave(a),
               UNCHANGED <<intent, started, task>>
        PROVE  b \in Batches /\ Interrupts(a, b)
    <3>1. b \in Interrupted(a) /\ b \in Batches
      BY DEF Newest, Interrupted, BatchesOf
    <3>2. Marked(b, "unknown_charge") /\ Ended("unknown_charge")
      BY <2>2, <3>1, <1>m, <1>e
    <3>3. Resume(a, b) => \E s \in {"recover", "reconcile"} : TookUp(a, b, s)
      BY <3>1, <1>k DEF Resume, Steps
    <3> QED BY <1>2, <1>l, <2>2, <3>1, <3>2, <3>3
            DEF TransitionInterruptedRequest, Interrupts, budget
  <2> QED BY <1>2, <2>1, <2>2 DEF TransitionInterruptedRequest
<1>3. CASE StoreTask(a)
  <2>1. Moved(a, "recover")
    BY <1>3, <1>g DEF StoreTask, Steps
  <2> QED BY <1>3, <2>1 DEF StoreTask, Moves, budget
<1>4. CASE ReconcileNotDispatched(a)
  <2>1. Moved(a, "acquire")
    BY <1>4, <1>g DEF ReconcileNotDispatched, Steps
  <2>2. Marked(cur[a], "failed") /\ Ended("failed")
    BY <1>4, <1>w, <1>m, <1>e DEF ReconcileNotDispatched, Asking
  <2>3. Booked(of[a], "released", cur[a])
    BY <1>4, <1>b, <1>w DEF ReconcileNotDispatched, Release, HasRow
  <2> QED BY <1>4, <2>1, <2>2, <2>3 DEF ReconcileNotDispatched, Resolves
<1>5. CASE PersistRecovered(a) \/ PersistSuccessfulRequest(a)
  <2>1. Left(a) /\ cur[a] \in Batches /\ pc[a] # "idle"
    BY <1>5, <1>l, <1>w DEF PersistRecovered, PersistSuccessfulRequest, Asking, Working
  <2>2. UNCHANGED <<clock, intent, started, provider, exposed>>
    BY <1>5 DEF PersistRecovered, PersistSuccessfulRequest
  <2>3. CASE UNCHANGED <<lease, status, budget>>
    BY <2>1, <2>2, <2>3 DEF Moves, budget
  <2>4. CASE ~UNCHANGED <<lease, status, budget>>
    <3>1. /\ Mark(cur[a], "succeeded") /\ EndLease("completed")
          /\ ledger' = [ledger EXCEPT ![of[a]].status = "settled"]
          /\ HasRow(of[a], cur[a], "reserved")
          /\ \/ /\ pc[a] = "persist_recovered" /\ status[cur[a]] = "unknown_charge"
                /\ LeaseIs(of[a], "unknown_charge")
             \/ /\ pc[a] = "persist" /\ status[cur[a]] = "running"
                /\ LeaseIs(of[a], "acquired")
      BY <1>5, <2>4 DEF PersistRecovered, PersistSuccessfulRequest, Persist, Settles
    <3>2. Marked(cur[a], "succeeded") /\ Ended("completed")
      BY <2>1, <3>1, <1>m, <1>e
    <3>3. Booked(of[a], "settled", cur[a])
      BY <2>1, <3>1, <1>b, <1>w DEF HasRow
    <3> QED BY <2>1, <2>2, <3>1, <3>2, <3>3 DEF Resolves
  <2> QED BY <2>3, <2>4
<1>6. CASE AcquireLease(a)
  <2>1. Moved(a, "start")
    BY <1>6, <1>g DEF AcquireLease, Steps
  <2> QED BY <1>6, <2>1 DEF AcquireLease, Acquires, row, budget
<1>7. CASE StartRequest(a)
  <2>1. PICK b \in Batches :
          /\ NextBatch(b)
          /\ Mark(b, "running")
          /\ intent' = [intent EXCEPT ![b] = of[a]]
          /\ started' = [started EXCEPT ![b] = at[a]]
          /\ OwnBatch(a, b)
    BY <1>7 DEF StartRequest
  <2>2. Owned(a, b) /\ Marked(b, "running")
    BY <2>1, <1>m, Points
  <2>3. /\ intent'[b] = of[a] /\ started'[b] = at[a]
        /\ \A c \in Batches \ {b} : intent'[c] = intent[c] /\ started'[c] = started[c]
    BY <2>1, <1>t DEF RowOK
  <2>4. Starts(a, b)
    BY <1>7, <2>1, <2>2, <2>3 DEF StartRequest, NextBatch, Starts, budget
  <2> QED BY <2>4
<1>8. CASE StartFails(a)
  <2>1. Left(a)
    BY <1>8, <1>l DEF StartFails
  <2>2. UNCHANGED <<clock, status, intent, started, ledger, provider, exposed>>
    BY <1>8 DEF StartFails, row, budget
  <2>3. \/ LeaseIs(of[a], "acquired") /\ Ended("failed")
        \/ lease' = lease
    BY <1>8, <1>e DEF StartFails
  <2> QED BY <1>8, <2>1, <2>2, <2>3 DEF StartFails, Returns, Moves
<1>9. CASE Authorize(a)
  <2>1. /\ UNCHANGED <<clock, lease, status, intent, started, provider, exposed>>
        /\ of[a] \in Intents
    BY <1>9, <1>w DEF Authorize, row
  <2>2. CASE Goto(a, "failed") /\ UNCHANGED <<limit, budget>>
    <3>1. Moved(a, "failed")
      BY <2>2, <1>g DEF Steps
    <3> QED BY <1>9, <2>1, <2>2, <3>1 DEF Authorize, Moves, budget
  <2>3. CASE Reserve(of[a]) /\ Goto(a, "call")
    <3>1. Moved(a, "call")
      BY <2>3, <1>g DEF Steps
    <3>2. CASE /\ ledger[of[a]].status \in {"reserved", "settled"}
               /\ status[ledger[of[a]].batch] # "unknown_charge"
               /\ UNCHANGED <<limit, budget>>
      BY <1>9, <2>1, <3>1, <3>2 DEF Authorize, Moves, budget
    <3>3. ASSUME ledger[of[a]].status = "none",
                 NEW b \in Newest(BatchesOf(of[a], "running")),
                 ledger' = [ledger EXCEPT ![of[a]] = [status |-> "reserved", batch |-> b]]
          PROVE  Reserves(a)
      <4>1. Booked(of[a], "reserved", b)
        BY <2>1, <3>3, <1>t DEF Booked, BudgetOK, LedgerOK
      <4> QED BY <1>9, <2>1, <3>1, <3>3, <4>1 DEF Authorize, Reserves
    <3> QED BY <2>3, <3>2, <3>3 DEF Reserve
  <2> QED BY <1>9, <2>2, <2>3 DEF Authorize
<1>10. CASE Post(a) \/ Refuse(a)
  <2>1. /\ Goto(a, "await") => Moved(a, "await")
        /\ Goto(a, "failed") => Moved(a, "failed")
    BY <1>g DEF Steps
  <2> QED BY <1>10, <2>1 DEF Post, Refuse, Posts, row, budget
<1>11. CASE Answered(a)
  <2>1. /\ Goto(a, "poll") => Moved(a, "poll")
        /\ Goto(a, "persist") => Moved(a, "persist")
    BY <1>g DEF Steps
  <2> QED BY <1>11, <2>1 DEF Answered, Moves, budget
<1>12. CASE Fail(a)
  <2>1. Left(a) /\ cur[a] \in Batches /\ of[a] \in Intents
    BY <1>12, <1>l, <1>w DEF Fail, Working
  <2>2. \/ status[cur[a]] = "running" /\ Marked(cur[a], pc[a])
        \/ status[cur[a]] # "running" /\ status' = status
    BY <1>12, <2>1, <1>m DEF Fail
  <2>3. \/ LeaseIs(of[a], "acquired") /\ Ended(pc[a])
        \/ ~LeaseIs(of[a], "acquired") /\ lease' = lease
    BY <1>12, <1>e DEF Fail
  <2>4. \/ /\ pc[a] = "failed" /\ HasRow(of[a], cur[a], "reserved")
           /\ Booked(of[a], "released", cur[a])
        \/ /\ ~(pc[a] = "failed" /\ HasRow(of[a], cur[a], "reserved"))
           /\ ledger' = ledger
    BY <1>12, <2>1, <1>b DEF Fail, Release, HasRow, budget
  <2> QED BY <1>12, <2>1, <2>2, <2>3, <2>4 DEF Fail, Fails
<1> QED BY <1>0, <1>1, <1>2, <1>3, <1>4, <1>5, <1>6, <1>7, <1>8, <1>9, <1>10, <1>11,
           <1>12 DEF Attempt, Quiet

-----------------------------------------------------------------------------
(* The invariant, part by part *)

\* A task that was stored stays.
LEMMA TasksGrow == ASSUME NEW a \in Attempts, Attempt(a) PROVE task \subseteq task'
  BY DEF Attempt, Begin, TransitionInterruptedRequest, FindRecoverable,
         ReconcileDispatchedTask, StoreTask, ReconcileNotDispatched,
         RecoverAcceptedTask, PersistRecovered, AcquireLease, Throws, StartRequest,
         StartFails, Authorize, NotSent, Post, Refuse, Answered, TimesOut, Polled,
         PersistSuccessfulRequest, Fail, Crash, row

LEMMA TimesStep ==
  ASSUME TypeOK, TimesOK, Workers, NEW a \in Attempts, Attempt(a)
  PROVE  TimesOK'
<1>t. RestOK /\ LeaseOK /\ RowOK /\ BudgetOK /\ AttemptOK
  BY TypeParts
<1>0. ASSUME NEW i \in Intents, Begins(a, i) PROVE TimesOK'
  BY <1>t, <1>0
     DEF Begins, TimesOK, Still, Moved, Left, TookUp, Owned, provider, Marked,
         AttemptOK, RestOK
<1>1. CASE Moves(a)
  BY <1>t, <1>1
     DEF Moves, TimesOK, Still, Moved, Left, TookUp, Owned, provider, Marked,
         AttemptOK, RestOK
<1>2. CASE Resolves(a)
  BY <1>t, <1>2
     DEF Resolves, TimesOK, Still, Moved, Left, TookUp, Owned, provider,
         Marked, AttemptOK, RestOK
<1>3. CASE Acquires(a)
  BY <1>t, <1>3
     DEF Acquires, TimesOK, Still, Moved, Left, TookUp, Owned, provider,
         Marked, AttemptOK, RestOK
<1>4. CASE Returns(a)
  BY <1>t, <1>4
     DEF Returns, TimesOK, Still, Moved, Left, TookUp, Owned, provider, Marked,
         AttemptOK, RestOK
<1>5. ASSUME NEW b \in Batches, Interrupts(a, b) PROVE TimesOK'
  BY <1>t, <1>5
     DEF Interrupts, TimesOK, Still, Moved, Left, TookUp, Owned, provider,
         Marked, AttemptOK, RestOK
<1>6. ASSUME NEW b \in Batches, Starts(a, b) PROVE TimesOK'
  BY <1>t, <1>6
     DEF Starts, TimesOK, Still, Moved, Left, TookUp, Owned, provider, Marked,
         AttemptOK, RestOK
<1>7. CASE Reserves(a)
  BY <1>t, <1>7
     DEF Reserves, TimesOK, Still, Moved, Left, TookUp, Owned, provider,
         Marked, AttemptOK, RestOK
<1>8. CASE Posts(a)
  BY <1>t, <1>8
     DEF Posts, TimesOK, Still, Moved, Left, TookUp, Owned, provider, Marked,
         AttemptOK, RestOK
<1>9. CASE Fails(a)
  BY <1>t, <1>9
     DEF Fails, TimesOK, Still, Moved, Left, TookUp, Owned, provider, Marked,
         AttemptOK, RestOK
<1> QED BY Kinds, <1>0, <1>1, <1>2, <1>3, <1>4, <1>5, <1>6, <1>7, <1>8, <1>9

LEMMA WorkersStep ==
  ASSUME TypeOK, Bookkeeping, Workers, NEW a \in Attempts, Attempt(a)
  PROVE  Workers'
<1> SUFFICES ASSUME NEW c \in Attempts PROVE Worker(c)'
  BY DEF Workers
<1>w. Worker(a) /\ Worker(c) /\ (\A d \in Attempts : Worker(d)) /\ task \subseteq task'
  BY TasksGrow DEF Workers
<1>r. \A b \in Batches : BatchOK(b)
  BY DEF Bookkeeping
<1>c. 0 \notin Batches /\ "none" \notin Intents
  BY Constants
\* A step within the working or the asking steps, or out of them, keeps the
\* batch of the attempt.
<1>k. ASSUME Still(a),
             \/ pc'[a] = "idle" /\ of'[a] = "none"
             \/ /\ pc'[a] \in {"interrupt", "look", "acquire", "start"}
                /\ of'[a] # "none"
             \/ /\ cur'[a] = cur[a] /\ of'[a] = of[a]
                /\ \/ pc[a] \in Asking /\ pc'[a] \in Asking
                   \/ /\ pc[a] \in Working /\ pc'[a] \in Working \ {"authorize"}
                      /\ pc'[a] = "call" => pc[a] = "authorize"
                      /\ pc'[a] = "poll" => cur[a] \in task',
             intent' = intent, posted' = posted,
             \/ sent' \subseteq sent
             \/ pc[a] = "call" /\ pc'[a] = "await" /\ sent' = sent \cup {cur[a]}
      PROVE  Worker(c)'
  <2>1. pc[c] \in Working \cup Asking => cur[c] \in Batches /\ intent[cur[c]] = of[c]
    BY <1>w DEF Worker
  <2>2. CASE c = a
    BY <1>w, <1>k, <2>2 DEF Worker, Still, Working, Asking
  <2>3. CASE c # a
    BY <1>w, <1>k, <2>3 DEF Worker, Still, Working, Asking
  <2> QED BY <2>2, <2>3
<1>0. ASSUME NEW i \in Intents, Begins(a, i) PROVE Worker(c)'
  <2>1. i # "none"
    BY <1>c
  <2> QED BY <1>k, <1>0, <2>1 DEF Begins, provider
<1>1. CASE Moves(a)
  <2>1. CASE \E b \in Recoverable(of[a]), s \in {"recover", "reconcile"} :
               pc[a] = "look" /\ TookUp(a, b, s)
    BY <1>w, <1>1, <2>1
       DEF Moves, Recoverable, BatchesOf, TookUp, Worker, Still, Working, Asking,
           provider
  <2>2. CASE ~ \E b \in Recoverable(of[a]), s \in {"recover", "reconcile"} :
                 pc[a] = "look" /\ TookUp(a, b, s)
    <3>1. pc[a] # "idle" => of[a] # "none"
      BY <1>w DEF Worker
    <3> QED BY <1>k, <1>1, <2>2, <3>1
            DEF Moves, Moved, Left, Working, Asking, provider
  <2> QED BY <2>1, <2>2
<1>2. CASE Resolves(a)
  <2>1. pc[a] # "idle" => of[a] # "none"
    BY <1>w DEF Worker
  <2> QED BY <1>k, <1>2, <2>1 DEF Resolves, Moved, Left, provider
<1>3. CASE Acquires(a)
  <2>1. pc[a] # "idle" => of[a] # "none"
    BY <1>w DEF Worker
  <2> QED BY <1>k, <1>3, <2>1 DEF Acquires, Moved, provider
<1>4. CASE Returns(a)
  BY <1>k, <1>4 DEF Returns, Left, provider
<1>5. ASSUME NEW b \in Batches, Interrupts(a, b) PROVE Worker(c)'
  <2>1. intent[b] = of[a] /\ of[a] # "none"
    BY <1>w, <1>5 DEF Interrupts, Interrupted, BatchesOf, Worker
  <2>2. CASE Left(a)
    BY <1>k, <1>5, <2>2 DEF Interrupts, Left, provider
  <2>3. CASE \E s \in {"recover", "reconcile"} : TookUp(a, b, s)
    BY <1>w, <1>5, <2>1, <2>3
       DEF Interrupts, TookUp, Worker, Still, Working, Asking, provider
  <2> QED BY <1>5, <2>2, <2>3 DEF Interrupts
<1>6. ASSUME NEW b \in Batches, Starts(a, b) PROVE Worker(c)'
  <2>1. b \notin sent \cup posted /\ intent[b] = "none" /\ of[a] # "none"
    BY <1>w, <1>r, <1>6 DEF BatchOK, Starts, Worker
  <2>2. \A d \in Attempts :
          pc[d] \in Working \cup Asking =>
            cur[d] \in Batches \ {b} /\ intent[cur[d]] = of[d]
    BY <1>w, <2>1 DEF Worker, Working, Asking
  <2>3. CASE c = a
    BY <1>w, <1>6, <2>1, <2>2, <2>3
       DEF Starts, Worker, Owned, Still, Working, Asking, provider
  <2>4. CASE c # a
    BY <1>w, <1>6, <2>1, <2>2, <2>4
       DEF Starts, Worker, Owned, Still, Working, Asking, provider
  <2> QED BY <2>3, <2>4
<1>7. CASE Reserves(a)
  BY <1>k, <1>7 DEF Reserves, Moved, Working, provider
<1>8. CASE Posts(a)
  BY <1>k, <1>8 DEF Posts, Moved, Working, provider
<1>9. CASE Fails(a)
  BY <1>k, <1>9 DEF Fails, Left, provider
<1> QED BY Kinds, <1>0, <1>1, <1>2, <1>3, <1>4, <1>5, <1>6, <1>7, <1>8, <1>9

LEMMA RowStep ==
  ASSUME TypeOK, Bookkeeping, Workers, NEW a \in Attempts, Attempt(a),
         NEW j \in Intents
  PROVE  RowOf(j)'
<1>w. Worker(a)
  BY DEF Workers
<1>o. /\ pc[a] # "idle" => of[a] \in Intents
      /\ pc[a] \in Working \cup Asking => cur[a] \in Batches /\ intent[cur[a]] = of[a]
  BY Busy
<1>r. RowOf(j) /\ (\A i \in Intents : RowOf(i)) /\ \A b \in Batches : BatchOK(b)
  BY DEF Bookkeeping
<1>c. 0 \notin Batches /\ "none" \notin Intents
  BY Constants
<1>n. \A b \in Batches : status[b] = "none" => b # ledger[j].batch
  BY <1>r, <1>c DEF BatchOK, RowOf
<1>t. ledger[j].batch \in Batches \cup {0}
  BY DEF TypeOK
<1>h. ASSUME pc[a] # "idle"
      PROVE  \A b, s : HasRow(of[a], b, s) <=>
                         ledger[of[a]].status = s /\ ledger[of[a]].batch = b
  BY <1>o, <1>h DEF TypeOK, HasRow
<1>0. ASSUME NEW i \in Intents, Begins(a, i) PROVE RowOf(j)'
  BY <1>o, <1>r, <1>c, <1>t, <1>0
     DEF Begins, RowOf, HasRow, Marked, Booked, Working, Asking
<1>1. CASE Moves(a)
  BY <1>o, <1>r, <1>c, <1>t, <1>1
     DEF Moves, RowOf, HasRow, Marked, Booked, Working, Asking
<1>2. CASE Resolves(a)
  BY <1>o, <1>r, <1>c, <1>t, <1>2
     DEF Resolves, RowOf, HasRow, Marked, Booked, Working, Asking
<1>3. CASE Acquires(a)
  BY <1>o, <1>r, <1>c, <1>t, <1>3
     DEF Acquires, RowOf, HasRow, Marked, Booked, Working, Asking
<1>4. CASE Returns(a)
  BY <1>o, <1>r, <1>c, <1>t, <1>4
     DEF Returns, RowOf, HasRow, Marked, Booked, Working, Asking
<1>5. ASSUME NEW b \in Batches, Interrupts(a, b) PROVE RowOf(j)'
  BY <1>o, <1>r, <1>c, <1>t, <1>5
     DEF Interrupts, RowOf, HasRow, Marked, Booked, Working, Asking,
         Interrupted, BatchesOf
<1>6. ASSUME NEW b \in Batches, Starts(a, b) PROVE RowOf(j)'
  BY <1>o, <1>r, <1>c, <1>t, <1>n, <1>6
     DEF Starts, RowOf, HasRow, Marked, Booked, Working, Asking, BatchOK
<1>7. CASE Reserves(a)
  BY <1>o, <1>r, <1>c, <1>t, <1>7
     DEF Reserves, RowOf, HasRow, Marked, Booked, Working, Asking, Newest,
         BatchesOf
<1>8. CASE Posts(a)
  BY <1>o, <1>r, <1>c, <1>t, <1>8
     DEF Posts, RowOf, HasRow, Marked, Booked, Working, Asking
<1>9. CASE Fails(a)
  BY <1>o, <1>r, <1>c, <1>t, <1>h, <1>9
     DEF Fails, RowOf, HasRow, Marked, Booked, Working, Asking
<1> QED BY Kinds, <1>0, <1>1, <1>2, <1>3, <1>4, <1>5, <1>6, <1>7, <1>8, <1>9

LEMMA BatchStep ==
  ASSUME TypeOK, Bookkeeping, Workers, NEW a \in Attempts, Attempt(a),
         NEW c \in Batches
  PROVE  BatchOK(c)'
<1>w. Worker(a)
  BY DEF Workers
<1>o. /\ pc[a] # "idle" => of[a] \in Intents
      /\ pc[a] \in Working \cup Asking => cur[a] \in Batches /\ intent[cur[a]] = of[a]
  BY Busy
<1>r. (\A i \in Intents : RowOf(i)) /\ BatchOK(c) /\ \A b \in Batches : BatchOK(b)
  BY DEF Bookkeeping
<1>c. 0 \notin Batches /\ "none" \notin Intents
  BY Constants
<1>t. intent[c] \in Intents \cup {"none"}
  BY DEF TypeOK
<1>0. ASSUME NEW i \in Intents, Begins(a, i) PROVE BatchOK(c)'
  BY <1>w, <1>o, <1>r, <1>c, <1>t, <1>0
     DEF Begins, Worker, BatchOK, RowOf, HasRow, Marked, Booked, Working,
         Asking, provider
<1>1. CASE Moves(a)
  BY <1>w, <1>o, <1>r, <1>c, <1>t, <1>1
     DEF Moves, Worker, BatchOK, RowOf, HasRow, Marked, Booked, Working,
         Asking, provider
<1>2. CASE Resolves(a)
  BY <1>w, <1>o, <1>r, <1>c, <1>t, <1>2
     DEF Resolves, Worker, BatchOK, RowOf, HasRow, Marked, Booked, Working,
         Asking, provider
<1>3. CASE Acquires(a)
  BY <1>w, <1>o, <1>r, <1>c, <1>t, <1>3
     DEF Acquires, Worker, BatchOK, RowOf, HasRow, Marked, Booked, Working,
         Asking, provider
<1>4. CASE Returns(a)
  BY <1>w, <1>o, <1>r, <1>c, <1>t, <1>4
     DEF Returns, Worker, BatchOK, RowOf, HasRow, Marked, Booked, Working,
         Asking, provider
<1>5. ASSUME NEW b \in Batches, Interrupts(a, b) PROVE BatchOK(c)'
  BY <1>w, <1>o, <1>r, <1>c, <1>t, <1>5
     DEF Interrupts, Worker, BatchOK, RowOf, HasRow, Marked, Booked, Working,
         Asking, provider, Interrupted, BatchesOf
<1>6. ASSUME NEW b \in Batches, Starts(a, b) PROVE BatchOK(c)'
  BY <1>w, <1>o, <1>r, <1>c, <1>t, <1>6
     DEF Starts, Worker, BatchOK, RowOf, HasRow, Marked, Booked, Working,
         Asking, provider
<1>7. CASE Reserves(a)
  BY <1>w, <1>o, <1>r, <1>c, <1>t, <1>7
     DEF Reserves, Worker, BatchOK, RowOf, HasRow, Marked, Booked, Working,
         Asking, provider, Newest, BatchesOf
<1>8. CASE Posts(a)
  BY <1>w, <1>o, <1>r, <1>c, <1>t, <1>8
     DEF Posts, Worker, BatchOK, RowOf, HasRow, Marked, Booked, Working,
         Asking, provider
<1>9. CASE Fails(a)
  BY <1>w, <1>o, <1>r, <1>c, <1>t, <1>9
     DEF Fails, Worker, BatchOK, RowOf, HasRow, Marked, Booked, Working,
         Asking, provider
<1> QED BY Kinds, <1>0, <1>1, <1>2, <1>3, <1>4, <1>5, <1>6, <1>7, <1>8, <1>9

LEMMA BookkeepingStep ==
  ASSUME TypeOK, Bookkeeping, Workers, NEW a \in Attempts, Attempt(a)
  PROVE  Bookkeeping'
<1>w. Worker(a)
  BY DEF Workers
<1>o. /\ pc[a] # "idle" => of[a] \in Intents
      /\ pc[a] \in Working \cup Asking => cur[a] \in Batches /\ intent[cur[a]] = of[a]
  BY Busy
<1>c. "none" \notin Intents
  BY Constants
<1> DEFINE Part == /\ lease.status = "none" <=> lease.owner = "none"
                   /\ sent \cap posted = {}
<1>p. Part
  BY DEF Bookkeeping
<1>q. Part'
  <2>0. ASSUME NEW i \in Intents, Begins(a, i) PROVE Part'
    BY <1>w, <1>o, <1>p, <1>c, <2>0
       DEF Begins, Worker, LeaseIs, Ended, provider, Working, Asking
  <2>1. CASE Moves(a)
    BY <1>w, <1>o, <1>p, <1>c, <2>1
       DEF Moves, Worker, LeaseIs, Ended, provider, Working, Asking
  <2>2. CASE Resolves(a)
    BY <1>w, <1>o, <1>p, <1>c, <2>2
       DEF Resolves, Worker, LeaseIs, Ended, provider, Working, Asking
  <2>3. CASE Acquires(a)
    BY <1>w, <1>o, <1>p, <1>c, <2>3
       DEF Acquires, Worker, LeaseIs, Ended, provider, Working, Asking
  <2>4. CASE Returns(a)
    BY <1>w, <1>o, <1>p, <1>c, <2>4
       DEF Returns, Worker, LeaseIs, Ended, provider, Working, Asking
  <2>5. ASSUME NEW b \in Batches, Interrupts(a, b) PROVE Part'
    BY <1>w, <1>o, <1>p, <1>c, <2>5
       DEF Interrupts, Worker, LeaseIs, Ended, provider, Working, Asking,
           Interrupted, BatchesOf
  <2>6. ASSUME NEW b \in Batches, Starts(a, b) PROVE Part'
    BY <1>w, <1>o, <1>p, <1>c, <2>6
       DEF Starts, Worker, LeaseIs, Ended, provider, Working, Asking
  <2>7. CASE Reserves(a)
    BY <1>w, <1>o, <1>p, <1>c, <2>7
       DEF Reserves, Worker, LeaseIs, Ended, provider, Working, Asking
  <2>8. CASE Posts(a)
    BY <1>w, <1>o, <1>p, <1>c, <2>8
       DEF Posts, Worker, LeaseIs, Ended, provider, Working, Asking
  <2>9. CASE Fails(a)
    BY <1>w, <1>o, <1>p, <1>c, <2>9
       DEF Fails, Worker, LeaseIs, Ended, provider, Working, Asking
  <2> QED BY Kinds, <2>0, <2>1, <2>2, <2>3, <2>4, <2>5, <2>6, <2>7, <2>8, <2>9
<1> QED BY <1>q, RowStep, BatchStep DEF Bookkeeping

\* What is gone stays gone: a batch that nobody is about to send is not sent.
LEMMA GoneStep ==
  ASSUME TypeOK, Workers, NEW a \in Attempts, Attempt(a),
         NEW b \in Batches, status[b] # "none", Gone(b)
  PROVE  Gone(b)'
<1>k. \/ \E i \in Intents : Begins(a, i)
      \/ Moves(a) \/ Resolves(a) \/ Acquires(a) \/ Returns(a)
      \/ \E c \in Batches : Interrupts(a, c) \/ Starts(a, c)
      \/ Reserves(a) \/ Posts(a) \/ Fails(a)
  BY Kinds
<1>1. UNCHANGED <<clock, posted, late>> /\ started'[b] = started[b]
  BY <1>k
     DEF Begins, Moves, Resolves, Acquires, Returns, Interrupts, Starts, Reserves,
         Posts, Fails, provider
<1>2. \A c \in Attempts \ {a} : pc'[c] = pc[c] /\ cur'[c] = cur[c]
  BY <1>k
     DEF Begins, Moves, Resolves, Acquires, Returns, Interrupts, Starts, Reserves,
         Posts, Fails, Moved, Left, TookUp, Owned, Still
<1>3. pc'[a] \in {"authorize", "call"} /\ cur'[a] = b
        => pc[a] = "authorize" /\ cur[a] = b
  BY <1>k
     DEF Begins, Moves, Resolves, Acquires, Returns, Interrupts, Starts, Reserves,
         Posts, Fails, Moved, Left, TookUp, Owned
<1>4. b \in sent' => b \in sent \/ (pc[a] = "call" /\ cur[a] = b)
  BY <1>k
     DEF Begins, Moves, Resolves, Acquires, Returns, Interrupts, Starts, Reserves,
         Posts, Fails, provider
<1>5. Unsendable(b) => Unsendable(b)'
  BY <1>2, <1>3, <1>4 DEF Unsendable
<1> QED BY <1>1, <1>5 DEF Gone

\* An attempt ends as failed, or gives a batch up, with good reason.
LEMMA VerdictStep ==
  ASSUME TypeOK, TimesOK, Bookkeeping, Workers, Charges,
         NEW a \in Attempts, Attempt(a), NEW c \in Attempts
  PROVE  Verdict(c)'
<1>w. (\A d \in Attempts : Worker(d)) /\ Verdict(a) /\ Verdict(c)
  BY DEF Workers, Charges
<1>k. \/ \E i \in Intents : Begins(a, i)
      \/ Moves(a) \/ Resolves(a) \/ Acquires(a) \/ Returns(a)
      \/ \E b \in Batches : Interrupts(a, b) \/ Starts(a, b)
      \/ Reserves(a) \/ Posts(a) \/ Fails(a)
  BY Kinds
<1>g. task \subseteq task' /\ \A b \in Batches : status[b] # "none" /\ Gone(b) => Gone(b)'
  BY TasksGrow, GoneStep
<1>b. /\ \A b \in Batches : status[b] = "none" <=> intent[b] = "none"
      /\ sent \cap posted = {}
  BY DEF Bookkeeping, BatchOK
<1>r. \A d \in Attempts :
        pc[d] \in {"reconcile", "release"} => cur[d] \in Batches /\ status[cur[d]] # "none"
  BY <1>w, <1>b DEF Worker, Asking, Working
<1>p. posted' = posted /\ sent' \subseteq sent \cup {cur[a]}
  BY <1>k
     DEF Begins, Moves, Resolves, Acquires, Returns, Interrupts, Starts, Reserves,
         Posts, Fails, provider
<1>1. CASE c # a
  <2>1. pc'[c] = pc[c] /\ cur'[c] = cur[c]
    BY <1>k, <1>1
       DEF Begins, Moves, Resolves, Acquires, Returns, Interrupts, Starts, Reserves,
           Posts, Fails, Moved, Left, TookUp, Owned, Still
  <2>2. pc[c] = "failed" => sent' \subseteq sent \/ cur[a] # cur[c]
    BY <1>k, <1>w, <1>1
       DEF Begins, Moves, Resolves, Acquires, Returns, Interrupts, Starts, Reserves,
           Posts, Fails, provider, Worker, Working
  <2> QED BY <1>w, <1>g, <1>r, <1>p, <2>1, <2>2 DEF Verdict
<1>2. CASE c = a
  <2>1. pc'[a] = "failed" => (cur'[a] \in task' \/ cur'[a] \notin sent' \cup posted')
    <3>1. pc'[a] = "failed" => cur'[a] = cur[a]
      BY <1>k
         DEF Begins, Moves, Resolves, Acquires, Returns, Interrupts, Starts, Reserves,
             Posts, Fails, Moved, Left, TookUp, Owned
    <3>2. CASE pc[a] \in {"authorize", "call"}
      <4>1. pc'[a] = "failed" => sent' = sent
        BY <1>k, <3>2
           DEF Begins, Moves, Resolves, Acquires, Returns, Interrupts, Starts,
               Reserves, Posts, Fails, Moved, provider
      <4> QED BY <1>w, <1>p, <3>1, <3>2, <4>1 DEF Worker
    <3>3. CASE pc[a] = "poll"
      BY <1>w, <1>g, <3>1, <3>3 DEF Worker
    <3>4. CASE pc[a] \notin {"authorize", "call", "poll"}
      <4>1. pc'[a] = "failed" => cur[a] \in sent /\ cur[a] \notin sent'
        BY <1>k, <3>4
           DEF Begins, Moves, Resolves, Acquires, Returns, Interrupts, Starts,
               Reserves, Posts, Fails, Moved, Left, TookUp, Owned
      <4> QED BY <1>b, <1>p, <3>1, <4>1
    <3> QED BY <3>2, <3>3, <3>4
  <2>2. (pc[a] = "release" => Gone(cur[a]))'
    <3>1. pc'[a] = "release" =>
            pc[a] = "reconcile" /\ cur'[a] = cur[a] /\ Absent(cur[a], at[a])
      BY <1>k
         DEF Begins, Moves, Resolves, Acquires, Returns, Interrupts, Starts, Reserves,
             Posts, Fails, Moved, Left, TookUp, Owned
    <3>2. pc[a] = "reconcile" /\ Absent(cur[a], at[a]) => Gone(cur[a])
      <4>1. /\ at[a] \in Nat /\ clock \in Nat /\ Grace \in Nat /\ at[a] <= clock
            /\ started \in [Batches -> Nat]
        BY Constants DEF TypeOK, TimesOK
      <4> QED BY <1>r, <4>1 DEF Absent, Gone
    <3> QED BY <1>g, <1>r, <3>1, <3>2 DEF Gone, Unsendable
  <2> QED BY <1>2, <2>1, <2>2 DEF Verdict
<1> QED BY <1>1, <1>2

LEMMA ChargesStep ==
  ASSUME TypeOK, TimesOK, Bookkeeping, Workers, Charges, NEW a \in Attempts, Attempt(a)
  PROVE  Charges'
<1> SUFFICES ASSUME NEW j \in Intents, NEW x, x = ledger'[j].batch,
                    ledger'[j].status = "released"
             PROVE  x \in task' \/ Gone(x)'
  <2>1. ASSUME NEW j \in Intents PROVE Charge(j)'
    BY <2>1 DEF Charge, Gone, Unsendable
  <2> QED BY <2>1, VerdictStep DEF Charges
<1>w. (\A d \in Attempts : Worker(d)) /\ Verdict(a) /\ Charge(j)
  BY DEF Workers, Charges
<1>o. pc[a] # "idle" => of[a] \in Intents
  BY Busy
<1>g. task \subseteq task' /\ \A b \in Batches : status[b] # "none" /\ Gone(b) => Gone(b)'
  BY TasksGrow, GoneStep
<1>b. \A b \in Batches : status[b] = "none" <=> intent[b] = "none"
  BY DEF Bookkeeping, BatchOK
<1>c. 0 \notin Batches /\ "none" \notin Intents
  BY Constants
<1>s. /\ ledger[j].status # "none" =>
           ledger[j].batch \in Batches /\ status[ledger[j].batch] # "none"
      /\ pc[a] \in Working \cup Asking => cur[a] \in Batches /\ status[cur[a]] # "none"
  BY <1>b, <1>c, Busy DEF Bookkeeping, RowOf, TypeOK, Working, Asking
<1>k. \/ \E i \in Intents : Begins(a, i)
      \/ Moves(a) \/ Resolves(a) \/ Acquires(a) \/ Returns(a)
      \/ \E b \in Batches : Interrupts(a, b) \/ Starts(a, b)
      \/ Reserves(a) \/ Posts(a) \/ Fails(a)
  BY Kinds
<1>1. CASE ledger'[j] = ledger[j]
  BY <1>w, <1>g, <1>s, <1>1 DEF Charge
<1>2. CASE ledger'[j] # ledger[j]
  <2>1. /\ j = of[a] /\ ledger'[j].batch = cur[a]
        /\ (Resolves(a) /\ pc[a] = "release") \/ (Fails(a) /\ pc[a] = "failed")
    <3>1. ledger' # ledger
      BY <1>2
    <3>2. CASE Resolves(a)
      BY <1>o, <1>2, <3>2 DEF Resolves, Booked
    <3>3. CASE Reserves(a)
      BY <1>o, <1>2, <3>3 DEF Reserves, Booked
    <3>4. CASE Fails(a)
      BY <1>o, <1>2, <3>4 DEF Fails, Booked
    <3> QED BY <1>k, <3>1, <3>2, <3>3, <3>4
            DEF Begins, Moves, Acquires, Returns, Interrupts, Starts, Posts
  <2>2. CASE pc[a] = "release"
    BY <1>w, <1>g, <1>s, <2>1, <2>2 DEF Verdict, Asking
  <2>3. CASE Fails(a) /\ pc[a] = "failed"
    <3>1. cur[a] \in Batches /\ status[cur[a]] # "none"
      BY <1>s, <2>3 DEF Working
    <3>2. CASE cur[a] \in task
      BY <1>g, <2>1, <3>2
    <3>3. CASE cur[a] \notin sent \cup posted
      <4>1. \A d \in Attempts \ {a} :
              /\ pc'[d] = pc[d] /\ cur'[d] = cur[d]
              /\ cur[d] = cur[a] => pc[d] \notin {"authorize", "call"}
        BY <1>w, <2>3 DEF Fails, Left, Still, Worker, Working
      <4>2. pc'[a] = "idle" /\ UNCHANGED <<sent, posted, late>>
        BY <2>3 DEF Fails, Left, provider
      <4> QED BY <2>1, <3>3, <4>1, <4>2 DEF Gone, Unsendable
    <3> QED BY <1>w, <2>3, <3>2, <3>3 DEF Verdict
  <2> QED BY <2>1, <2>2, <2>3
<1> QED BY <1>1, <1>2

-----------------------------------------------------------------------------
(* An intent that has one attempt at a time and keeps its lease *)

\* Its rows.
Rows(i) ==
  /\ \A b \in Batches :
       intent[b] = i /\ status[b] # "failed" =>
         lease.owner = i /\ <<status[b], lease.status>> \in Relation
  /\ \A b, c \in Batches :
       {intent[b], intent[c]} = {i} /\ "failed" \notin {status[b], status[c]}
         => b = c
  /\ \A b \in sent \cup posted : intent[b] = i => ledger[i].batch = b

LEMMA AloneParts ==
  ASSUME NEW i
  PROVE  /\ Alone(i) <=> Rows(i) /\ \A a \in Attempts : of[a] = i => Lonely(i, a)
         /\ Alone(i)' <=> Rows(i)' /\ \A a \in Attempts : (of[a] = i => Lonely(i, a))'
  BY DEF Alone, Rows

\* Nothing changes for an intent when its rows and attempts stay, and the lease
\* stays or was not its own: then it has no batch that depends on it.
LEMMA AloneElsewhere ==
  ASSUME TypeOK, NEW j \in Intents, Alone(j),
         \A b \in Batches : /\ intent'[b] = j <=> intent[b] = j
                            /\ intent[b] = j => status'[b] = status[b],
         ledger'[j] = ledger[j],
         sent' \subseteq Batches /\ posted' \subseteq Batches,
         \A b \in sent' \cup posted' : intent[b] = j => b \in sent \cup posted,
         \A c \in Attempts :
           of'[c] = j => /\ of[c] = j
                         /\ pc'[c] = pc[c] /\ at'[c] = at[c] /\ cur'[c] = cur[c],
         \A c \in Attempts :
           of[c] = j /\ pc[c] \in Working \cup Asking =>
             cur[c] \in Batches /\ intent[cur[c]] = j,
         \/ lease' = lease
         \/ /\ lease'.owner # j
            /\ \A b \in Batches : intent[b] = j => status[b] = "failed"
            /\ \A c \in Attempts : of[c] = j => pc[c] \notin Holding \cup Asking
  PROVE  Alone(j)'
<1>h. \A b, s : HasRow(j, b, s)' <=> HasRow(j, b, s)
  BY DEF HasRow
<1>1. Rows(j)'
  BY DEF Alone, Rows
<1>2. ASSUME NEW c \in Attempts, of'[c] = j PROVE Lonely(j, c)'
  <2>1. /\ Lonely(j, c)
        /\ pc'[c] = pc[c] /\ at'[c] = at[c] /\ cur'[c] = cur[c]
    BY <1>2 DEF Alone
  <2>2. \A d \in Attempts : of'[d] = j => d = c
    BY <1>2, <2>1 DEF Lonely
  <2>3. \A s : BatchesOf(j, s)' = BatchesOf(j, s)
    BY DEF BatchesOf
  <2>4. pc[c] \in Working \cup Asking => status'[cur[c]] = status[cur[c]]
    BY <1>2
  <2>5. CASE lease' = lease
    BY <1>h, <2>1, <2>2, <2>3, <2>4, <2>5 DEF Lonely, LeaseIs, Working, Asking
  <2>6. CASE lease' # lease
    BY <1>2, <1>h, <2>1, <2>2, <2>3, <2>4, <2>6
       DEF Lonely, LeaseIs, Working, Asking, Holding, Paying
  <2> QED BY <2>5, <2>6
<1> QED BY <1>1, <1>2, AloneParts

\* The step of an attempt of another intent.
LEMMA AloneOther ==
  ASSUME TypeOK, TypeOK', Bookkeeping, Workers, NEW a \in Attempts, Attempt(a),
         NEW j \in Intents, of[a] # j, of'[a] # j, j \notin exposed', Alone(j)
  PROVE  Alone(j)'
<1>k. \/ \E i \in Intents : Begins(a, i)
      \/ Moves(a) \/ Resolves(a) \/ Acquires(a) \/ Returns(a)
      \/ \E b \in Batches : Interrupts(a, b) \/ Starts(a, b)
      \/ Reserves(a) \/ Posts(a) \/ Fails(a)
  BY Kinds
<1>o. /\ pc[a] # "idle" => of[a] \in Intents
      /\ pc[a] \in Working \cup Asking => cur[a] \in Batches /\ intent[cur[a]] = of[a]
  BY Busy
<1>b. \A b \in Batches : status[b] = "none" <=> intent[b] = "none"
  BY DEF Bookkeeping, BatchOK
<1>c. "none" \notin Intents
  BY Constants
<1>1. sent' \subseteq Batches /\ posted' \subseteq Batches
  BY DEF TypeOK
<1>2. \A c \in Attempts :
        of'[c] = j => /\ of[c] = j
                      /\ pc'[c] = pc[c] /\ at'[c] = at[c] /\ cur'[c] = cur[c]
  BY <1>k
     DEF Begins, Moves, Resolves, Acquires, Returns, Interrupts, Starts, Reserves,
         Posts, Fails, Moved, Left, TookUp, Owned, Still
<1>3. \A c \in Attempts :
        of[c] = j /\ pc[c] \in Working \cup Asking =>
          cur[c] \in Batches /\ intent[cur[c]] = j
  BY Busy
<1>4. \A b \in sent' \cup posted' : intent[b] = j => b \in sent \cup posted
  BY <1>k, <1>o
     DEF Begins, Moves, Resolves, Acquires, Returns, Interrupts, Starts, Reserves,
         Posts, Fails, provider, Working
<1>5. ledger'[j] = ledger[j]
  <2>1. ASSUME NEW s, NEW b, Booked(of[a], s, b) PROVE ledger'[j] = ledger[j]
    BY <2>1 DEF Booked
  <2> QED BY <1>k, <2>1
          DEF Begins, Moves, Resolves, Acquires, Returns, Interrupts, Starts, Reserves,
              Posts, Fails
<1>6. \A b \in Batches : intent'[b] = j <=> intent[b] = j
  <2>1. ASSUME NEW b \in Batches, Starts(a, b)
        PROVE  \A d \in Batches : intent'[d] = j <=> intent[d] = j
    BY <1>b, <1>c, <2>1 DEF Starts
  <2>2. CASE ~ \E b \in Batches : Starts(a, b)
    <3>1. intent' = intent
      BY <1>k, <2>2
         DEF Begins, Moves, Resolves, Acquires, Returns, Interrupts, Reserves, Posts,
             Fails
    <3> QED BY <3>1
  <2> QED BY <2>1, <2>2
<1>7. \A b \in Batches : intent[b] = j => status'[b] = status[b]
  <2>1. ASSUME NEW b \in Batches, NEW s, Marked(b, s), intent[b] # j
        PROVE  \A d \in Batches : intent[d] = j => status'[d] = status[d]
    BY <2>1 DEF Marked
  <2>2. CASE Resolves(a) \/ Fails(a)
    BY <1>o, <2>1, <2>2 DEF Resolves, Fails, Working, Asking
  <2>3. ASSUME NEW b \in Batches, Interrupts(a, b)
        PROVE  \A d \in Batches : intent[d] = j => status'[d] = status[d]
    BY <2>1, <2>3 DEF Interrupts, Interrupted, BatchesOf
  <2>4. ASSUME NEW b \in Batches, Starts(a, b)
        PROVE  \A d \in Batches : intent[d] = j => status'[d] = status[d]
    BY <1>b, <1>c, <2>1, <2>4 DEF Starts
  <2>5. CASE Acquires(a) \/ Moves(a) \/ Returns(a) \/ Reserves(a) \/ Posts(a)
             \/ \E i \in Intents : Begins(a, i)
    BY <2>5 DEF Acquires, Moves, Returns, Reserves, Posts, Begins
  <2> QED BY <1>k, <2>2, <2>3, <2>4, <2>5
<1>8. \/ lease' = lease
      \/ /\ lease'.owner # j
         /\ \A b \in Batches : intent[b] = j => status[b] = "failed"
         /\ \A c \in Attempts : of[c] = j => pc[c] \notin Holding \cup Asking
  <2>1. ASSUME ~LeaseIs(j, "acquired"), ~LeaseIs(j, "unknown_charge"),
               ~LeaseIs(j, "completed")
        PROVE  /\ \A b \in Batches : intent[b] = j => status[b] = "failed"
               /\ \A c \in Attempts : of[c] = j => pc[c] \notin Holding \cup Asking
    BY <2>1 DEF Alone, Lonely, LeaseIs, Relation
  <2>2. CASE Acquires(a)
    <3>1. lease'.owner = of[a]
      BY <2>2 DEF Acquires
    <3>2. ~LeaseIs(j, "acquired") /\ ~LeaseIs(j, "unknown_charge")
          /\ ~LeaseIs(j, "completed")
      BY <2>2 DEF Acquires, Takeable, LeaseIs
    <3> QED BY <2>1, <3>1, <3>2
  <2>3. CASE lease' # lease /\ ~Acquires(a)
    <3>1. lease.owner = of[a] /\ lease'.owner = of[a]
      BY <1>k, <2>3
         DEF Begins, Moves, Resolves, Returns, Interrupts, Starts, Reserves, Posts,
             Fails, LeaseIs, Ended, Interrupted
    <3> QED BY <2>1, <3>1 DEF LeaseIs
  <2> QED BY <2>2, <2>3
<1> QED BY <1>1, <1>2, <1>3, <1>4, <1>5, <1>6, <1>7, <1>8, AloneElsewhere

\* An attempt that begins is the only one of its intent, and no result of its
\* own is there.
LEMMA AloneBegins ==
  ASSUME TypeOK, Bookkeeping, Workers, NEW a \in Attempts, NEW j \in Intents,
         Begins(a, j), j \notin exposed', Alone(j)
  PROVE  Alone(j)'
<1>1. \A c \in Attempts : of[c] # j
  BY DEF Begins, Locked
<1>2. UNCHANGED <<lease, status, intent, ledger, sent, posted>>
  BY DEF Begins, provider
<1>3. Rows(j)'
  BY <1>2 DEF Alone, Rows
<1>4. ASSUME NEW c \in Attempts, of'[c] = j PROVE c = a
  BY <1>1, <1>4 DEF Begins, Still
<1>5. BatchesOf(j, "succeeded") = {}
  BY DEF Begins, Replays, Alone, Relation, BatchesOf, LeaseIs, Bookkeeping, BatchOK
<1>6. BatchesOf(j, "succeeded")' = {}
  BY <1>2, <1>5 DEF BatchesOf
<1>7. pc'[a] = "interrupt"
  BY DEF Begins
<1>8. Lonely(j, a)'
  BY <1>4, <1>6, <1>7 DEF Lonely, Holding, Working, Paying, Asking
<1> QED BY <1>3, <1>4, <1>8, AloneParts

\* The step of its own attempt.
LEMMA AloneOwn ==
  ASSUME TypeOK, Bookkeeping, Workers, NEW a \in Attempts, Attempt(a),
         NEW j \in Intents, of[a] = j, Alone(j)
  PROVE  Alone(j)'
<1>k. \/ Moves(a) \/ Resolves(a) \/ Acquires(a) \/ Returns(a)
      \/ \E b \in Batches : Interrupts(a, b) \/ Starts(a, b)
      \/ Reserves(a) \/ Posts(a) \/ Fails(a)
  BY Kinds, Constants DEF Begins, Workers, Worker
<1>w. Worker(a) /\ Lonely(j, a) /\ Rows(j)
  BY AloneParts DEF Workers
<1>o. pc[a] \in Working \cup Asking => cur[a] \in Batches /\ intent[cur[a]] = j
  BY Busy
<1>r. /\ RowOf(j) /\ sent \cap posted = {}
      /\ \A b \in Batches : BatchOK(b)
  BY DEF Bookkeeping
<1>c. 0 \notin Batches /\ "none" \notin Intents
  BY Constants
<1>n. \A b \in Batches : status[b] = "none" => b # ledger[j].batch
  BY <1>r, <1>c DEF BatchOK, RowOf
<1>p. sent \cup posted \subseteq Batches /\ ledger[j].batch \in Batches \cup {0}
  BY DEF TypeOK
<1>s. \A c \in Attempts \ {a} : of'[c] # j
  <2>1. \A c \in Attempts \ {a} : of[c] # j
    BY <1>w DEF Lonely
  <2> QED BY <1>k, <2>1
          DEF Moves, Resolves, Acquires, Returns, Interrupts, Starts, Reserves,
              Posts, Fails, Moved, Left, TookUp, Owned, Still
<1>a. ASSUME Rows(j)', of'[a] = j => Lonely(j, a)' PROVE Alone(j)'
  BY <1>a, <1>s, AloneParts
<1>l. ASSUME Left(a), Rows(j)' PROVE Alone(j)'
  BY <1>a, <1>l, <1>c DEF Left
<1>1. CASE Moves(a)
  <2>1. UNCHANGED <<lease, status, intent, ledger, sent, posted>>
    BY <1>1 DEF Moves, provider
  <2>2. Rows(j)'
    BY <1>w, <2>1 DEF Rows
  <2>3. CASE ~Left(a)
    <3>1. of'[a] = j
      BY <1>1, <2>3 DEF Moves, Moved, TookUp
    <3>2. pc'[a] \in Holding => pc[a] \in Holding
      BY <1>1, <2>3 DEF Moves, Moved, TookUp, Holding, Working
    <3>3. /\ pc'[a] \in Working => pc[a] \in Working /\ cur'[a] = cur[a]
          /\ pc'[a] \notin {"start", "interrupt", "authorize"}
      BY <1>1, <2>3 DEF Moves, Moved, TookUp, Working
    <3>4. pc'[a] \in Paying => cur'[a] = cur[a] /\ HasRow(j, cur[a], "reserved")
      <4>1. pc[a] = "authorize" /\ ledger[j].status \in {"reserved", "settled"}
              => status[ledger[j].batch] = "unknown_charge"
        <5> SUFFICES ASSUME pc[a] = "authorize",
                            ledger[j].status \in {"reserved", "settled"},
                            status[ledger[j].batch] # "unknown_charge"
                     PROVE  FALSE
          OBVIOUS
        <5>1. /\ ledger[j].batch \in Batches /\ intent[ledger[j].batch] = j
              /\ status[ledger[j].batch] # "failed"
          BY <1>r, <1>c, <1>p DEF RowOf
        <5>2. /\ cur[a] \in Batches /\ intent[cur[a]] = j /\ status[cur[a]] = "running"
              /\ ledger[j].batch # cur[a]
          BY <1>w, <1>o DEF Lonely, Working
        <5> QED BY <1>w, <5>1, <5>2 DEF Rows
      <4> QED BY <1>1, <1>w, <2>3, <4>1 DEF Moves, Moved, TookUp, Paying, Lonely
    <3>5. pc'[a] \in Asking => /\ status[cur'[a]] = "unknown_charge"
                               /\ HasRow(j, cur'[a], "reserved")
                               /\ LeaseIs(j, "unknown_charge")
      BY <1>1, <1>w, <2>3
         DEF Moves, Moved, TookUp, Asking, Lonely, Recoverable, BatchesOf
    <3>6. pc'[a] \in {"look", "acquire"} => BatchesOf(j, "succeeded") = {}
      BY <1>1, <1>w, <2>3 DEF Moves, Moved, TookUp, Lonely
    <3>7. pc'[a] \in {"look", "acquire"} /\ LeaseIs(j, "acquired")
            /\ lease.expires <= at'[a] => BatchesOf(j, "running") = {}
      BY <1>1, <1>w, <2>3 DEF Moves, Moved, TookUp, Lonely, Interrupted
    <3>8. Lonely(j, a)'
      BY <1>s, <1>w, <2>1, <3>2, <3>3, <3>4, <3>5, <3>6, <3>7
         DEF Lonely, HasRow, LeaseIs, BatchesOf
    <3> QED BY <1>a, <2>2, <3>8
  <2> QED BY <1>l, <2>2, <2>3
<1>2. CASE Resolves(a)
  <2>1. cur[a] \in Batches /\ intent[cur[a]] = j
    BY <1>o, <1>2 DEF Resolves, Working, Asking
  <2>2. \A b \in Batches : intent[b] = j /\ b # cur[a] =>
          status[b] = "failed" /\ status'[b] = "failed"
    BY <1>2, <1>w, <2>1 DEF Resolves, Rows, Marked
  <2>3. /\ lease'.owner = j /\ intent' = intent
        /\ \/ status'[cur[a]] = "failed" /\ lease'.status = "failed"
           \/ status'[cur[a]] = "succeeded" /\ lease'.status = "completed"
    BY <1>2 DEF Resolves, Marked, Ended, LeaseIs
  <2>4. UNCHANGED <<sent, posted>> /\ ledger'[j].batch = ledger[j].batch
    BY <1>2 DEF Resolves, Booked, HasRow, provider
  <2>5. Rows(j)'
    BY <1>w, <2>1, <2>2, <2>3, <2>4 DEF Rows, Relation
  <2>6. CASE Left(a)
    BY <1>l, <2>5, <2>6
  <2>7. CASE ~Left(a)
    <3>1. pc'[a] = "acquire" /\ status'[cur[a]] = "failed" /\ lease'.status = "failed"
      BY <1>2, <2>7 DEF Resolves, Moved, Marked, Ended
    <3>2. \A b \in Batches : intent'[b] = j => status'[b] = "failed"
      BY <2>2, <2>3, <3>1
    <3>3. Lonely(j, a)'
      BY <1>s, <3>1, <3>2
         DEF Lonely, BatchesOf, Holding, Working, Paying, Asking, LeaseIs
    <3> QED BY <1>a, <2>5, <3>3
  <2> QED BY <2>6, <2>7
<1>3. CASE Acquires(a)
  <2>1. /\ UNCHANGED <<status, intent, ledger, sent, posted>>
        /\ pc[a] = "acquire" /\ pc'[a] = "start" /\ Takeable(at[a])
        /\ lease'.owner = j /\ lease'.status = "acquired"
    BY <1>3 DEF Acquires, Moved, provider
  <2>2. \A b \in Batches : intent[b] = j => status[b] = "failed"
    BY <1>r, <1>c, <1>w, <2>1
       DEF Rows, Relation, Lonely, Takeable, BatchesOf, LeaseIs, BatchOK
  <2>3. Rows(j)'
    BY <1>w, <2>1, <2>2 DEF Rows
  <2>4. Lonely(j, a)'
    BY <1>s, <2>1, <2>2 DEF Lonely, Holding, Working, Paying, Asking, LeaseIs
  <2> QED BY <1>a, <2>3, <2>4
<1>4. CASE Returns(a)
  <2>1. /\ UNCHANGED <<status, intent, ledger, sent, posted>>
        /\ pc[a] = "start" /\ Left(a)
    BY <1>4 DEF Returns, provider
  <2>2. Rows(j)'
    BY <1>w, <2>1 DEF Rows, Lonely
  <2> QED BY <1>l, <2>1, <2>2
<1>5. ASSUME NEW b \in Batches, Interrupts(a, b) PROVE Alone(j)'
  <2>1. /\ intent[b] = j /\ status[b] = "running"
        /\ lease.owner = j
        /\ lease'.owner = j /\ lease'.status = "unknown_charge"
        /\ status'[b] = "unknown_charge"
    BY <1>5 DEF Interrupts, Interrupted, BatchesOf, LeaseIs, Ended, Marked
  <2>2. UNCHANGED <<intent, ledger, sent, posted>>
    BY <1>5 DEF Interrupts, provider
  <2>3. \A d \in Batches : intent[d] = j /\ d # b =>
          status[d] = "failed" /\ status'[d] = "failed"
    BY <1>5, <1>w, <2>1 DEF Rows, Interrupts, Marked
  <2>4. Rows(j)'
    BY <1>w, <2>1, <2>2, <2>3 DEF Rows, Relation
  <2>5. CASE Left(a)
    BY <1>l, <2>4, <2>5
  <2>6. ASSUME HasRow(j, b, "reserved"),
               NEW s \in {"recover", "reconcile"}, TookUp(a, b, s)
        PROVE  Alone(j)'
    <3>1. Lonely(j, a)'
      BY <1>s, <2>1, <2>2, <2>6
         DEF Lonely, TookUp, Holding, Working, Paying, Asking, LeaseIs, HasRow
    <3> QED BY <1>a, <2>4, <3>1
  <2> QED BY <1>5, <2>5, <2>6 DEF Interrupts
<1>6. ASSUME NEW b \in Batches, Starts(a, b) PROVE Alone(j)'
  <2>1. UNCHANGED <<lease, ledger, sent, posted>> /\ LeaseIs(j, "acquired")
    BY <1>6, <1>w DEF Starts, provider, Lonely, Holding
  <2>2. /\ \A d \in Batches \ {b} : status'[d] = status[d] /\ intent'[d] = intent[d]
        /\ intent'[b] = j /\ status'[b] = "running"
        /\ b \notin sent \cup posted /\ b # ledger[j].batch
    BY <1>6, <1>r, <1>n DEF Starts, Marked, BatchOK
  <2>3. \A d \in Batches \ {b} : intent[d] = j => status[d] = "failed"
    BY <1>6, <1>w DEF Starts, Lonely
  <2>4. Rows(j)'
    BY <1>w, <1>p, <2>1, <2>2, <2>3 DEF Rows, Relation, LeaseIs
  <2>5. Lonely(j, a)'
    BY <1>6, <1>s, <2>1, <2>2
       DEF Starts, Owned, Lonely, Holding, Working, Paying, Asking, LeaseIs
  <2> QED BY <1>a, <2>4, <2>5
<1>7. CASE Reserves(a)
  <2>1. /\ UNCHANGED <<lease, status, intent, sent, posted>>
        /\ pc[a] = "authorize" /\ pc'[a] = "call" /\ cur'[a] = cur[a]
    BY <1>7 DEF Reserves, Moved, provider
  <2>2. cur[a] \in Batches /\ intent[cur[a]] = j /\ status[cur[a]] = "running"
    BY <1>o, <1>w, <2>1 DEF Working, Lonely
  <2>3. PICK b \in Newest(BatchesOf(j, "running")) : Booked(j, "reserved", b)
    BY <1>7 DEF Reserves
  <2>4. b = cur[a]
    BY <1>w, <2>2 DEF Rows, Newest, BatchesOf
  <2>5. HasRow(j, cur[a], "reserved")' /\ ledger'[j].batch = cur[a]
    BY <2>1, <2>3, <2>4 DEF Booked, HasRow
  <2>6. ledger[j].batch = 0
    BY <1>7, <1>r DEF Reserves, RowOf
  <2>7. Rows(j)'
    BY <1>w, <1>c, <1>p, <2>1, <2>6 DEF Rows
  <2>8. Lonely(j, a)'
    BY <1>s, <1>w, <2>1, <2>5 DEF Lonely, Holding, Working, Paying, Asking, LeaseIs
  <2> QED BY <1>a, <2>7, <2>8
<1>8. CASE Posts(a)
  <2>1. /\ UNCHANGED <<lease, status, intent, ledger, posted>>
        /\ pc[a] \in {"call", "await"} /\ pc'[a] \in {"await", "failed"}
        /\ cur'[a] = cur[a] /\ sent' \subseteq sent \cup {cur[a]}
    BY <1>8 DEF Posts, Moved
  <2>2. HasRow(j, cur[a], "reserved")
    BY <1>w, <2>1 DEF Lonely, Paying
  <2>3. ledger[j].batch = cur[a]
    BY <2>2 DEF HasRow
  <2>4. Rows(j)'
    BY <1>w, <2>1, <2>3 DEF Rows
  <2>5. Lonely(j, a)'
    BY <1>s, <1>w, <2>1, <2>2
       DEF Lonely, Holding, Working, Paying, Asking, LeaseIs, HasRow
  <2> QED BY <1>a, <2>4, <2>5
<1>9. CASE Fails(a)
  <2>1. /\ cur[a] \in Batches /\ intent[cur[a]] = j /\ status[cur[a]] = "running"
        /\ LeaseIs(j, "acquired")
    BY <1>o, <1>w, <1>9 DEF Fails, Lonely, Working, Holding
  <2>2. /\ UNCHANGED <<intent, sent, posted>> /\ Left(a)
        /\ status'[cur[a]] = pc[a] /\ pc[a] \in {"failed", "unknown_charge"}
        /\ \A b \in Batches \ {cur[a]} : status'[b] = status[b]
        /\ lease'.owner = j /\ lease'.status = pc[a]
        /\ ledger'[j].batch = ledger[j].batch
    BY <1>9, <2>1 DEF Fails, Marked, provider, Ended, LeaseIs, Booked, HasRow
  <2>3. \A b \in Batches : intent[b] = j /\ b # cur[a] => status[b] = "failed"
    BY <1>w, <2>1 DEF Rows
  <2>4. Rows(j)'
    BY <1>w, <2>1, <2>2, <2>3 DEF Rows, Relation
  <2> QED BY <1>l, <2>2, <2>4
<1> QED BY <1>k, <1>1, <1>2, <1>3, <1>4, <1>5, <1>6, <1>7, <1>8, <1>9

LEMMA AloneStep ==
  ASSUME TypeOK, TypeOK', Bookkeeping, Workers, NEW a \in Attempts, Attempt(a),
         NEW j \in Intents, j \notin exposed', Alone(j)
  PROVE  Alone(j)'
<1>1. CASE of[a] = j
  BY <1>1, AloneOwn
<1>2. CASE of[a] # j /\ of'[a] # j
  BY <1>2, AloneOther
<1>3. CASE of[a] # j /\ of'[a] = j
  <2>1. Begins(a, j)
    BY <1>3, Kinds, Constants
       DEF Begins, Moves, Resolves, Acquires, Returns, Interrupts, Starts, Reserves,
           Posts, Fails, Moved, Left, TookUp, Owned
  <2> QED BY <2>1, AloneBegins
<1> QED BY <1>1, <1>2, <1>3

-----------------------------------------------------------------------------
(* A step of the provider and the passing of time *)

LEMMA AcceptStep ==
  ASSUME IInv, NEW b \in Batches, Accept(b) PROVE IInv'
<1>1. /\ UNCHANGED <<clock, endpoint, limit, lease, row, budget, attempt, exposed>>
      /\ b \in sent /\ sent' = sent \ {b} /\ posted' = posted \cup {b}
      /\ late' = IF started[b] + Grace <= clock THEN late \cup {b} ELSE late
  BY DEF Accept
<1>2. sent' \cup posted' = sent \cup posted
  BY <1>1
<1>3. TypeOK' /\ TimesOK'
  BY <1>1 DEF IInv, TypeOK, TimesOK, row, budget, attempt
<1>4. Bookkeeping'
  BY <1>1, <1>2
     DEF IInv, Bookkeeping, BatchOK, RowOf, HasRow, row, budget
<1>5. Workers'
  BY <1>1, <1>2
     DEF IInv, Workers, Worker, row, budget, attempt
\* What has reached the age of Grace is accepted late, and what nobody sends is
\* not accepted.
<1>6. ASSUME NEW c, Gone(c) PROVE Gone(c)'
  <2>1. Unsendable(c) => Unsendable(c)' /\ c # b
    BY <1>1 DEF Unsendable, attempt
  <2>2. c \notin posted' \ late'
    BY <1>1, <1>6, <2>1 DEF Gone
  <2>3. started'[c] = started[c] /\ clock' = clock
    BY <1>1 DEF row
  <2> QED BY <1>6, <2>1, <2>2, <2>3 DEF Gone
<1>7. Charges'
  <2>1. ASSUME NEW a \in Attempts PROVE Verdict(a)'
    <3>1. Verdict(a) /\ UNCHANGED <<pc, cur, task>>
      BY <1>1 DEF IInv, Charges, attempt, row
    <3>2. (pc[a] = "release" => Gone(cur[a]))'
      BY <1>6, <3>1 DEF Verdict, Gone, Unsendable
    <3> QED BY <1>2, <3>1, <3>2 DEF Verdict
  <2>2. ASSUME NEW j \in Intents PROVE Charge(j)'
    <3>1. Charge(j) /\ UNCHANGED <<ledger, task>>
      BY <1>1 DEF IInv, Charges, budget, row
    <3> QED BY <1>6, <3>1 DEF Charge, Gone, Unsendable
  <2> QED BY <2>1, <2>2 DEF Charges
<1>8. \A i \in Intents \ exposed' : Alone(i)'
  BY <1>1, <1>2
     DEF IInv, Alone, Lonely, HasRow, LeaseIs, BatchesOf, row, budget, attempt
<1> QED BY <1>3, <1>4, <1>5, <1>7, <1>8 DEF IInv

LEMMA TickStep == ASSUME IInv, Tick PROVE IInv'
<1>1. /\ UNCHANGED <<endpoint, limit, lease, row, budget, attempt, provider, exposed>>
      /\ clock' = clock + 1 /\ clock \in Nat
  BY DEF Tick, IInv, TypeOK
<1>2. TypeOK' /\ TimesOK'
  BY <1>1 DEF IInv, TypeOK, TimesOK, row, budget, attempt, provider
<1>3. Bookkeeping' /\ Workers'
  BY <1>1
     DEF IInv, Bookkeeping, BatchOK, RowOf, Workers, Worker, HasRow, LeaseIs, row,
         budget, attempt, provider
<1>4. Charges'
  <2>1. ASSUME NEW b \in Batches, Gone(b) PROVE Gone(b)'
    BY <1>1, <2>1, Constants DEF Gone, Unsendable, IInv, TypeOK, row, provider, attempt
  <2>2. UNCHANGED <<pc, cur, ledger, sent, posted, task>>
    BY <1>1 DEF attempt, budget, provider, row
  <2>3. ASSUME NEW a \in Attempts PROVE Verdict(a)'
    <3>1. Verdict(a) /\ (pc[a] = "release" => cur[a] \in Batches)
      BY Busy DEF IInv, Charges, Asking
    <3>2. (pc[a] = "release" => Gone(cur[a]))'
      BY <2>1, <2>2, <3>1 DEF Verdict, Gone, Unsendable
    <3> QED BY <2>2, <3>1, <3>2 DEF Verdict
  <2>4. ASSUME NEW j \in Intents PROVE Charge(j)'
    <3>1. Charge(j) /\ (ledger[j].status = "released" => ledger[j].batch \in Batches)
      BY DEF IInv, Charges, Bookkeeping, RowOf, TypeOK
    <3> QED BY <2>1, <2>2, <3>1 DEF Charge, Gone, Unsendable
  <2> QED BY <2>3, <2>4 DEF Charges
<1>5. \A i \in Intents \ exposed' : Alone(i)'
  BY <1>1
     DEF IInv, Alone, Lonely, HasRow, LeaseIs, BatchesOf, row, budget, attempt, provider
<1> QED BY <1>2, <1>3, <1>4, <1>5 DEF IInv

LEMMA Stutter == ASSUME IInv, UNCHANGED vars PROVE IInv'
<1>1. UNCHANGED <<clock, endpoint, limit, lease, row, budget, attempt, provider, exposed>>
  BY DEF vars
<1>2. TypeOK' /\ TimesOK'
  BY <1>1 DEF IInv, TypeOK, TimesOK, row, budget, attempt, provider
<1>3. Bookkeeping' /\ Workers' /\ Charges'
  BY <1>1
     DEF IInv, Bookkeeping, BatchOK, RowOf, Workers, Worker, Charges, Verdict, Charge,
         Gone, Unsendable, HasRow, LeaseIs, row, budget, attempt, provider
<1>4. \A i \in Intents \ exposed' : Alone(i)'
  BY <1>1
     DEF IInv, Alone, Lonely, HasRow, LeaseIs, BatchesOf, row, budget, attempt, provider
<1> QED BY <1>2, <1>3, <1>4 DEF IInv

LEMMA IInvStep == ASSUME IInv, [Next]_vars PROVE IInv'
<1>1. ASSUME NEW a \in Attempts, Attempt(a) PROVE IInv'
  <2>1. TypeOK' /\ TimesOK' /\ Bookkeeping' /\ Workers' /\ Charges'
    BY <1>1, TypeStep, TimesStep, BookkeepingStep, WorkersStep, ChargesStep DEF IInv
  <2>2. exposed \subseteq exposed'
    BY <1>1, Kinds
       DEF IInv, Begins, Moves, Resolves, Acquires, Returns, Interrupts, Starts,
           Reserves, Posts, Fails
  <2>3. ASSUME NEW j \in Intents \ exposed' PROVE Alone(j)'
    BY <1>1, <2>1, <2>2, <2>3, AloneStep DEF IInv
  <2> QED BY <2>1, <2>3 DEF IInv
<1>2. ASSUME NEW b \in Batches, Accept(b) PROVE IInv'
  BY <1>2, AcceptStep
<1> QED BY <1>1, <1>2, TickStep, Stutter DEF Next

\* The invariant of the fetches (IInv): lease, batches, ledger and attempts
\* agree with each other in every reachable state.
THEOREM FetchInvariant == Spec => []IInv
<1>1. Init => IInv
  BY InitIInv
<1>2. IInv /\ [Next]_vars => IInv'
  BY IInvStep
<1> QED BY <1>1, <1>2, PTL DEF Spec

\* CommercialDiscoveryRequestService.execute: however often an intent is
\* attempted, killed and reconciled, the provider is asked once, unless another
\* intent took the lease over after this one had paid, or two attempts of this
\* one were under way at once.
THEOREM AskedOnce == Spec => []OneCall
<1>1. IInv => OneCall
  <2> SUFFICES ASSUME IInv, NEW i \in Intents \ exposed
               PROVE  Cardinality(Calls(i)) <= 1
    BY DEF OneCall
  <2>1. Calls(i) \subseteq {ledger[i].batch}
    BY DEF IInv, Alone, Calls, TypeOK
  <2>2. CASE Calls(i) = {}
    BY <2>2, FS_EmptySet
  <2>3. CASE Calls(i) = {ledger[i].batch}
    <3>1. Cardinality({ledger[i].batch}) = 1
      BY FS_Singleton
    <3> QED BY <2>3, <3>1
  <2> QED BY <2>1, <2>2, <2>3
<1> QED BY <1>1, FetchInvariant, PTL

\* An amount is only given back, by a failure or a reconciliation, for a request
\* the provider had not accepted when it reached the age of Grace (one that is
\* refused or unsent earlier is never accepted), or for one with a task whose
\* poll was refused: whenever the provider accepts what is under way, and however
\* many attempts of the intent there are.
THEOREM ReleasedUncharged == Spec => []ReleasedMeansUncharged
<1>1. IInv => ReleasedMeansUncharged
  BY DEF IInv, Charges, Charge, Gone, ReleasedMeansUncharged
<1> QED BY <1>1, FetchInvariant, PTL

-----------------------------------------------------------------------------
(* The budget *)

Open == {i \in Intents : ledger[i].status = "reserved"}

LEMMA OpenFinite == IsFiniteSet(Open) /\ Cardinality(Open) \in Nat
  BY FS_Subset, FS_CardinalityType, FetchAssumption DEF Open

\* How a step changes the budget: not at all, it opens a row within the limit,
\* or closes one that was open, and spends nothing or what the limit bears.
LEMMA BudgetMoves ==
  ASSUME IInv, NEW a \in Attempts, Attempt(a)
  PROVE  \/ UNCHANGED <<limit, budget>>
         \/ /\ ledger[of[a]].status = "none" /\ ledger'[of[a]].status = "reserved"
            /\ \A j \in Intents \ {of[a]} : ledger'[j] = ledger[j]
            /\ of[a] \in Intents
            /\ reserved' = reserved + 1 /\ spent' = spent
            /\ spent + reserved + 1 <= limit'
         \/ /\ ledger[of[a]].status = "reserved" /\ limit' = limit
            /\ ledger'[of[a]].status \in {"settled", "released"}
            /\ \A j \in Intents \ {of[a]} : ledger'[j] = ledger[j]
            /\ of[a] \in Intents
            /\ reserved' = reserved - 1
            /\ spent' = spent \/ spent' + reserved' <= limit
<1>t. TypeOK /\ LedgerOK /\ reserved \in Int /\ spent \in Nat
  BY DEF IInv, TypeOK, LedgerOK
<1>o. pc[a] # "idle" => of[a] \in Intents
  BY Busy DEF IInv
<1>b. \A s \in {"settled", "released"} :
        of[a] \in Intents /\ ledger' = [ledger EXCEPT ![of[a]].status = s]
          => Booked(of[a], s, ledger[of[a]].batch)
  BY <1>t, Points
<1>1. CASE /\ of[a] \in Intents /\ Release(of[a]) /\ limit' = limit
           /\ HasRow(of[a], cur[a], "reserved")
  BY <1>t, <1>b, <1>1 DEF Release, Booked, HasRow
<1>2. CASE \/ Quiet(a) \/ TransitionInterruptedRequest(a) \/ StoreTask(a)
           \/ AcquireLease(a) \/ StartRequest(a) \/ StartFails(a) \/ Post(a)
           \/ Refuse(a) \/ Answered(a) \/ \E i \in Intents : Begin(a, i)
  <2>1. CASE Quiet(a)
    BY <1>t, <2>1, QuietMoves
  <2> QED BY <1>2, <2>1
          DEF TransitionInterruptedRequest, StoreTask, AcquireLease, StartRequest,
              StartFails, Post, Refuse, Answered, Begin
<1>3. CASE ReconcileNotDispatched(a)
  BY <1>1, <1>3, <1>o DEF ReconcileNotDispatched
<1>4. CASE PersistRecovered(a) \/ PersistSuccessfulRequest(a)
  <2>1. limit' = limit /\ of[a] \in Intents
    BY <1>4, <1>o DEF PersistRecovered, PersistSuccessfulRequest
  <2>2. \/ UNCHANGED budget
        \/ \E cost \in Costs :
             /\ HasRow(of[a], cur[a], "reserved")
             /\ ledger' = [ledger EXCEPT ![of[a]].status = "settled"]
             /\ reserved' = reserved - 1
             /\ spent' = spent + cost
             /\ spent + cost + (reserved - 1) <= limit
    BY <1>4 DEF PersistRecovered, PersistSuccessfulRequest, Persist, Settles
  <2> QED BY <1>b, <2>1, <2>2 DEF Booked, HasRow
<1>5. CASE Authorize(a)
  <2>1. of[a] \in Intents
    BY <1>5, <1>o DEF Authorize
  <2>2. ASSUME NEW b,
               ledger' = [ledger EXCEPT ![of[a]] = [status |-> "reserved", batch |-> b]]
        PROVE  Booked(of[a], "reserved", b)
    BY <1>t, <2>1, <2>2 DEF LedgerOK, Booked
  <2>3. CASE UNCHANGED <<limit, budget>>
    BY <2>3
  <2>4. ASSUME ledger[of[a]].status = "none",
               NEW b, Booked(of[a], "reserved", b),
               reserved' = reserved + 1, spent' = spent,
               spent + reserved + 1 <= limit'
        PROVE  /\ ledger[of[a]].status = "none" /\ ledger'[of[a]].status = "reserved"
               /\ \A j \in Intents \ {of[a]} : ledger'[j] = ledger[j]
               /\ reserved' = reserved + 1 /\ spent' = spent
               /\ spent + reserved + 1 <= limit'
    BY <2>4 DEF Booked
  <2> QED BY <1>5, <2>1, <2>2, <2>3, <2>4 DEF Authorize, Reserve, budget
<1>6. CASE Fail(a)
  BY <1>1, <1>6, <1>o DEF Fail
<1> QED BY <1>2, <1>3, <1>4, <1>5, <1>6 DEF Attempt, Quiet

LEMMA BudgetStep ==
  ASSUME IInv, BudgetExact, [Next]_vars PROVE BudgetExact'
<1>t. /\ LedgerOK /\ LedgerOK' /\ reserved \in Int /\ spent \in Nat
      /\ limit \in Nat /\ limit' \in Nat
  <2>1. IInv'
    BY IInvStep
  <2> QED BY <2>1, FetchAssumption DEF IInv, TypeOK, LedgerOK
<1>e. reserved = Cardinality(Open) /\ spent + reserved <= limit
  BY DEF BudgetExact, Open
<1>1. CASE UNCHANGED <<limit, budget>>
  BY <1>1 DEF BudgetExact, budget
<1>2. ASSUME NEW a \in Attempts, Attempt(a) PROVE BudgetExact'
  <2>1. ASSUME NEW i \in Intents,
               ledger[i].status = "none", ledger'[i].status = "reserved",
               \A j \in Intents \ {i} : ledger'[j] = ledger[j],
               reserved' = reserved + 1, spent' = spent,
               spent + reserved + 1 <= limit'
        PROVE  BudgetExact'
    <3>1. Open' = Open \cup {i} /\ i \notin Open
      BY <2>1 DEF Open
    <3>2. Cardinality(Open') = Cardinality(Open) + 1
      BY <3>1, OpenFinite, FS_AddElement
    <3> QED BY <1>t, <1>e, <2>1, <3>2, OpenFinite DEF BudgetExact, Open
  <2>2. ASSUME NEW i \in Intents,
               ledger[i].status = "reserved",
               ledger'[i].status \in {"settled", "released"},
               \A j \in Intents \ {i} : ledger'[j] = ledger[j],
               reserved' = reserved - 1, limit' = limit,
               spent' = spent \/ spent' + reserved' <= limit
        PROVE  BudgetExact'
    <3>1. Open' = Open \ {i} /\ i \in Open
      BY <2>2 DEF Open
    <3>2. Cardinality(Open') = Cardinality(Open) - 1
      BY <3>1, OpenFinite, FS_RemoveElement
    <3> QED BY <1>t, <1>e, <2>2, <3>2, OpenFinite DEF BudgetExact, Open
  <2> QED BY <1>1, <1>2, <2>1, <2>2, BudgetMoves
<1>3. CASE (\E b \in Batches : Accept(b)) \/ Tick \/ UNCHANGED vars
  BY <1>1, <1>3 DEF Accept, Tick, vars
<1> QED BY <1>2, <1>3 DEF Next

\* provider-budget.repository.ts: the reserved amount is that of the open rows
\* of the ledger, and with what is spent it never exceeds the limit, however much
\* the provider charges: a settlement over the limit is rolled back.
THEOREM Budget == Spec => []BudgetExact
<1>1. Init => BudgetExact
  <2> SUFFICES ASSUME Init PROVE BudgetExact
    OBVIOUS
  <2>1. {i \in Intents : ledger[i].status = "reserved"} = {}
    BY DEF Init
  <2>2. limit \in Nat
    BY FetchAssumption DEF Init
  <2> QED BY <2>1, <2>2, FS_EmptySet DEF Init, BudgetExact
<1>2. IInv /\ BudgetExact /\ [Next]_vars => BudgetExact'
  BY BudgetStep
<1> QED BY <1>1, <1>2, FetchInvariant, PTL DEF Spec

-----------------------------------------------------------------------------
(* What a step may not do *)

\* provider-fetch-lease.repository.ts: only its own attempts change a lease
\* that has not run out.
THEOREM Undisturbed == Spec => HolderUndisturbed
<1> DEFINE Alike ==
      \A i \in Intents :
        /\ LeaseIs(i, "acquired")
        /\ clock < lease.expires
        /\ \A a \in Attempts : (of[a] = i => pc'[a] = pc[a])
        => lease' = lease
<1>1. ASSUME IInv, [Next]_vars PROVE Alike
  <2> SUFFICES ASSUME NEW j \in Intents, LeaseIs(j, "acquired"),
                      clock < lease.expires,
                      \A a \in Attempts : (of[a] = j => pc'[a] = pc[a])
               PROVE  lease' = lease
    OBVIOUS
  <2>1. ASSUME NEW a \in Attempts, Attempt(a) PROVE lease' = lease
    <3>k. \/ \E i \in Intents : Begins(a, i)
          \/ Moves(a) \/ Resolves(a) \/ Acquires(a) \/ Returns(a)
          \/ \E b \in Batches : Interrupts(a, b) \/ Starts(a, b)
          \/ Reserves(a) \/ Posts(a) \/ Fails(a)
      BY <1>1, <2>1, Kinds DEF IInv
    <3>1. pc'[a] # pc[a] \/ lease' = lease
      BY <3>k
         DEF Begins, Moves, Resolves, Acquires, Returns, Interrupts, Starts, Reserves,
             Posts, Fails, Moved, Left, TookUp
    <3>2. at[a] <= clock /\ at[a] \in Nat /\ clock \in Nat /\ lease.expires \in Nat
      BY <1>1 DEF IInv, TimesOK, TypeOK
    <3>3. CASE of[a] # j
      BY <3>k, <3>2, <3>3
         DEF Begins, Moves, Resolves, Acquires, Returns, Interrupts, Starts, Reserves,
             Posts, Fails, LeaseIs, Takeable, Interrupted
    <3> QED BY <3>1, <3>3
  <2>2. CASE (\E b \in Batches : Accept(b)) \/ Tick \/ UNCHANGED vars
    BY <2>2 DEF Accept, Tick, vars
  <2> QED BY <1>1, <2>1, <2>2 DEF Next
<1>2. IInv /\ [Next]_vars => [Alike]_vars
  BY <1>1
<1> HIDE DEF Alike
<1>3. Spec => [][Alike]_vars
  BY <1>2, FetchInvariant, PTL DEF Spec
<1> QED BY <1>3, PTL DEF HolderUndisturbed, Alike

\* A batch that succeeded or failed, and a row of the ledger that was settled or
\* released, is never reopened.
THEOREM Final == Spec => FinalFetches
<1> DEFINE Keeps ==
      /\ \A b \in Batches :
           status[b] \in {"succeeded", "failed"} => status'[b] = status[b]
      /\ \A i \in Intents :
           ledger[i].status \in {"settled", "released"} => ledger'[i] = ledger[i]
<1>1. ASSUME IInv, [Next]_vars PROVE Keeps
  <2>1. ASSUME NEW a \in Attempts, Attempt(a) PROVE Keeps
    <3>w. pc[a] \in Working \cup Asking => cur[a] \in Batches
      BY <1>1, Busy DEF IInv
    <3>k. \/ \E i \in Intents : Begins(a, i)
          \/ Moves(a) \/ Resolves(a) \/ Acquires(a) \/ Returns(a)
          \/ \E b \in Batches : Interrupts(a, b) \/ Starts(a, b)
          \/ Reserves(a) \/ Posts(a) \/ Fails(a)
      BY <1>1, <2>1, Kinds DEF IInv
    <3>1. ASSUME NEW b \in Batches, status[b] \in {"succeeded", "failed"}
          PROVE  status'[b] = status[b]
      BY <3>k, <3>w, <3>1
         DEF Begins, Moves, Resolves, Acquires, Returns, Interrupts, Starts, Reserves,
             Posts, Fails, Marked, Working, Asking, Interrupted, BatchesOf
    <3>2. ASSUME NEW j \in Intents, ledger[j].status \in {"settled", "released"}
          PROVE  ledger'[j] = ledger[j]
      <4>1. CASE Resolves(a) \/ Reserves(a) \/ Fails(a)
        <5>1. ledger[of[a]].status \in {"none", "reserved"} \/ ledger' = ledger
          BY <4>1 DEF Resolves, Reserves, Fails, HasRow
        <5>2. j # of[a] => ledger'[j] = ledger[j]
          <6>1. ASSUME NEW t, NEW b, Booked(of[a], t, b), j # of[a]
                PROVE  ledger'[j] = ledger[j]
            BY <3>2, <6>1 DEF Booked
          <6> QED BY <4>1, <6>1 DEF Resolves, Reserves, Fails
        <5> QED BY <3>2, <5>1, <5>2
      <4>2. CASE ~(Resolves(a) \/ Reserves(a) \/ Fails(a))
        <5>1. ledger' = ledger
          BY <3>k, <4>2 DEF Begins, Moves, Acquires, Returns, Interrupts, Starts, Posts
        <5> QED BY <5>1
      <4> QED BY <4>1, <4>2
    <3> QED BY <3>1, <3>2
  <2>2. CASE (\E b \in Batches : Accept(b)) \/ Tick \/ UNCHANGED vars
    BY <2>2 DEF Accept, Tick, vars, row, budget
  <2> QED BY <1>1, <2>1, <2>2 DEF Next
<1>2. IInv /\ [Next]_vars => [Keeps]_vars
  BY <1>1
<1> HIDE DEF Keeps
<1>3. Spec => [][Keeps]_vars
  BY <1>2, FetchInvariant, PTL DEF Spec
<1> QED BY <1>3 DEF FinalFetches, Keeps
=============================================================================
