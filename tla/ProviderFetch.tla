---------------------------- MODULE ProviderFetch ----------------------------
(***************************************************************************)
(* Paid requests to the data provider: the executions of                   *)
(* CommercialDiscoveryRequestService for the request intents of the        *)
(* recommendation pool, the fetch lease and the budget they share, and the *)
(* provider.                                                               *)
(*                                                                         *)
(* All the intents here ask for the same thing: they share a fingerprint,  *)
(* and so one row of provider_fetch_leases.  Each intent has its own       *)
(* reservation key, and so one row of the usage ledger.  An attempt of an  *)
(* intent takes the lease, starts a batch, reserves its cost, posts the    *)
(* request and settles.  An attempt that finds the interrupted or unknown  *)
(* batch of an earlier one asks the provider what became of it and never   *)
(* posts until it knows.                                                   *)
(*                                                                         *)
(* An attempt holds the advisory lock of its intent's generation, which    *)
(* keeps a second attempt of the intent out, unless the session of the     *)
(* lock is lost and the attempt goes on (SessionsLast).  A lease is never  *)
(* renewed, and the client's time limit may be longer than the lease: an   *)
(* attempt can outlive the lease it works under.  Nothing bounds the time  *)
(* a POST is under way, nor what the provider charges for it.              *)
(***************************************************************************)
EXTENDS FiniteSets, Integers

CONSTANTS
  Intents,      \* request intents with one fingerprint; an intent's id is its
                \* request id and its reservation key
  Attempts,     \* attempts that can be under way at a time
  SessionsLast, \* no attempt outlives the session that holds its lock
  MaxBatches,   \* bound: rows of provider_batch_requests
  Lease,        \* the time between now and lease_expires_at
  Grace,        \* the age at which a batch that the provider does not list
                \* was not dispatched
  Limits,       \* what limit_micros may be, in requests: each reserves one
  Costs,        \* what the provider may charge for one, more included
  Horizon       \* bound: the clock

ASSUME FetchAssumption ==
  /\ IsFiniteSet(Intents)
  /\ "none" \notin Intents
  /\ {MaxBatches, Lease, Grace, Horizon} \cup Limits \subseteq Nat
  /\ Lease > 0
  /\ Costs \subseteq Nat
  /\ SessionsLast \in BOOLEAN

Batches == 1 .. MaxBatches

VARIABLES
  clock,
  endpoint,  \* a call of the "queue" becomes a task, which the provider lists;
             \* a "live" endpoint answers the request itself
  lease,     \* the row of provider_fetch_leases
  status,    \* of each batch and of its row of backlink_provider_requests
  intent,    \* its request_id
  started,   \* its started_at
  task,      \* the batches with a provider_task_id
  ledger,    \* the row of backlink_provider_usage_ledger of each intent
  limit,     \* limit_micros of the budget
  reserved,  \* reserved_micros
  spent,     \* spent_micros
  pc,        \* where an attempt is
  of,        \* the intent it is an attempt of
  at,        \* the time it began: `now` in execute
  cur,       \* the batch it works for
  sent,      \* batches whose POST is under way, or lost
  posted,    \* batches whose POST the provider has accepted, and charges
  late,      \* history: those of them that had reached the age of Grace
  exposed    \* history: intents that lost a lease they had paid under, or two
             \* attempts of which were under way at once

row == <<status, intent, started, task>>
budget == <<ledger, reserved, spent>>
attempt == <<pc, of, at, cur>>
provider == <<sent, posted, late>>
vars == <<clock, endpoint, limit, lease, row, budget, attempt, provider, exposed>>

Steps == {"idle", "interrupt", "look", "reconcile", "store", "release",
          "recover", "persist_recovered", "acquire", "start", "authorize",
          "call", "await", "poll", "persist", "failed", "unknown_charge"}

TypeOK ==
  /\ clock \in Nat
  /\ endpoint \in {"queue", "live"}
  /\ lease \in [status : {"none", "acquired", "completed", "failed",
                          "unknown_charge"},
                owner : Intents \cup {"none"}, expires : Nat]
  /\ status \in [Batches -> {"none", "running", "succeeded", "failed",
                             "unknown_charge"}]
  /\ intent \in [Batches -> Intents \cup {"none"}]
  /\ started \in [Batches -> Nat]
  /\ task \subseteq Batches
  /\ ledger \in [Intents -> [status : {"none", "reserved", "settled", "released"},
                             batch : Batches \cup {0}]]
  /\ limit \in Limits
  /\ reserved \in Int
  /\ spent \in Nat
  /\ pc \in [Attempts -> Steps]
  /\ of \in [Attempts -> Intents \cup {"none"}]
  /\ at \in [Attempts -> Nat]
  /\ cur \in [Attempts -> Batches \cup {0}]
  /\ sent \subseteq Batches
  /\ posted \subseteq Batches
  /\ late \subseteq posted
  /\ exposed \subseteq Intents

Init ==
  /\ clock = 0
  /\ endpoint \in {"queue", "live"}
  /\ lease = [status |-> "none", owner |-> "none", expires |-> 0]
  /\ status = [b \in Batches |-> "none"]
  /\ intent = [b \in Batches |-> "none"]
  /\ started = [b \in Batches |-> 0]
  /\ task = {}
  /\ ledger = [i \in Intents |-> [status |-> "none", batch |-> 0]]
  /\ limit \in Limits
  /\ reserved = 0
  /\ spent = 0
  /\ pc = [a \in Attempts |-> "idle"]
  /\ of = [a \in Attempts |-> "none"]
  /\ at = [a \in Attempts |-> 0]
  /\ cur = [a \in Attempts |-> 0]
  /\ sent = {}
  /\ posted = {}
  /\ late = {}
  /\ exposed = {}

Goto(a, step) == pc' = [pc EXCEPT ![a] = step] /\ UNCHANGED <<of, at, cur>>
Leave(a) ==
  /\ pc' = [pc EXCEPT ![a] = "idle"]
  /\ of' = [of EXCEPT ![a] = "none"]
  /\ at' = [at EXCEPT ![a] = 0]
  /\ cur' = [cur EXCEPT ![a] = 0]
WorkOn(a, b, step) ==
  /\ pc' = [pc EXCEPT ![a] = step]
  /\ cur' = [cur EXCEPT ![a] = b]
  /\ UNCHANGED <<of, at>>
\* An attempt that has a batch of its own reads its `now` no more.
OwnBatch(a, b) ==
  /\ pc' = [pc EXCEPT ![a] = "authorize"]
  /\ cur' = [cur EXCEPT ![a] = b]
  /\ at' = [at EXCEPT ![a] = 0]
  /\ of' = of
\* Faulty: whoever has the lease.
LeaseIsFaulty(i, s) == lease.status = s
LeaseIs(i, s) == lease.owner = i /\ lease.status = s
\* The lease ends: lease_expires_at, now or then, is of no more interest.
EndLease(s) == lease' = [lease EXCEPT !.status = s, !.expires = 0]
Mark(b, s) == status' = [status EXCEPT ![b] = s]
BatchesOf(i, s) == {b \in Batches : intent[b] = i /\ status[b] = s}
\* started_at DESC, LIMIT 1.
Newest(S) == {b \in S : \A c \in S : started[c] <= started[b]}
HasRow(i, b, s) == ledger[i] = [status |-> s, batch |-> b]

-----------------------------------------------------------------------------
(* What became of an earlier attempt *)

\* A result that was paid for is read back instead of asked for again.
Replays(i) ==
  /\ LeaseIs(i, "completed")
  /\ \E b \in BatchesOf(i, "succeeded") : HasRow(i, b, "settled")

\* The advisory lock of the intent's generation is held, by the session of an
\* attempt, while its requests are executed.
Locked(i) == \E a \in Attempts : of[a] = i

\* The next attempt begins when it gets the lock: the activity may have run out
\* of its thirty minutes and be retried long before the attempt it started ends.
Begin(a, i) ==
  /\ pc[a] = "idle"
  /\ SessionsLast => ~Locked(i)
  /\ ~Replays(i)
  /\ pc' = [pc EXCEPT ![a] = "interrupt"]
  /\ of' = [of EXCEPT ![a] = i]
  /\ at' = [at EXCEPT ![a] = clock]
  /\ cur' = cur
  /\ exposed' = IF Locked(i) THEN exposed \cup {i} ELSE exposed
  /\ UNCHANGED <<clock, endpoint, limit, lease, row, budget, provider>>

\* Where an attempt goes that has found the unknown batch b.
Resume(a, b) ==
  WorkOn(a, b, IF b \in task THEN "recover" ELSE "reconcile")

\* Faulty: a lease that runs out at this moment is not noticed.
InterruptedFaulty(a) ==
  IF LeaseIs(of[a], "acquired") /\ lease.expires < at[a]
  THEN BatchesOf(of[a], "running") ELSE {}

\* Faulty: any batch of the intent, whatever became of it.
InterruptedAny(a) ==
  IF LeaseIs(of[a], "acquired") /\ lease.expires <= at[a]
  THEN {b \in Batches : intent[b] = of[a]} ELSE {}

\* An attempt whose lease ran out is taken for dead: its charge is unknown.
Interrupted(a) ==
  IF LeaseIs(of[a], "acquired") /\ lease.expires <= at[a]
  THEN BatchesOf(of[a], "running") ELSE {}

TransitionInterruptedRequest(a) ==
  /\ pc[a] = "interrupt"
  /\ \/ /\ Interrupted(a) = {}
        /\ Goto(a, "look")
        /\ UNCHANGED <<lease, row>>
     \/ \E b \in Newest(Interrupted(a)) :
          /\ Mark(b, "unknown_charge")
          /\ EndLease("unknown_charge")
          /\ IF HasRow(of[a], b, "reserved") THEN Resume(a, b) ELSE Leave(a)
          /\ UNCHANGED <<intent, started, task>>
  /\ UNCHANGED <<clock, endpoint, limit, budget, provider, exposed>>

Recoverable(i) ==
  {b \in BatchesOf(i, "unknown_charge") :
     HasRow(i, b, "reserved") /\ LeaseIs(i, "unknown_charge")}

FindRecoverable(a) ==
  /\ pc[a] = "look"
  /\ \/ \E b \in Newest(Recoverable(of[a])) : Resume(a, b)
     \/ Recoverable(of[a]) = {} /\ Goto(a, "acquire")
  /\ UNCHANGED <<clock, endpoint, limit, lease, row, budget, provider, exposed>>

\* Faulty: without waiting for a request that is under way.
AbsentFaulty(b, now) == b \notin posted
Absent(b, now) == b \notin posted /\ now - started[b] >= Grace

\* The provider lists the tasks with the fingerprint as their tag, those of
\* other intents included.  A task of the batch itself is listed; a batch
\* without one is given up once it has reached the age of Grace, although its
\* POST may still be under way.  An error, two tasks, or none of a younger
\* batch: see Throws.
ReconcileDispatchedTask(a) ==
  /\ pc[a] = "reconcile"
  /\ endpoint = "queue"
  /\ \/ posted # {} /\ Goto(a, "store")
     \/ Absent(cur[a], at[a]) /\ Goto(a, "release")
  /\ UNCHANGED <<clock, endpoint, limit, lease, row, budget, provider, exposed>>

StoreTask(a) ==
  /\ pc[a] = "store"
  /\ status[cur[a]] = "unknown_charge"
  /\ cur[a] \notin task
  /\ task' = task \cup {cur[a]}
  /\ Goto(a, "recover")
  /\ UNCHANGED <<clock, endpoint, limit, lease, status, intent, started, budget,
                 provider, exposed>>

\* Faulty: the amount stays reserved.
ReleaseFaulty(i) ==
  /\ ledger' = [ledger EXCEPT ![i].status = "released"]
  /\ UNCHANGED <<reserved, spent>>

\* The row of the ledger and the reservation it stands for end together.
Release(i) ==
  /\ ledger' = [ledger EXCEPT ![i].status = "released"]
  /\ reserved' = reserved - 1
  /\ spent' = spent

ReconcileNotDispatched(a) ==
  /\ pc[a] = "release"
  /\ status[cur[a]] = "unknown_charge"
  /\ cur[a] \notin task
  /\ HasRow(of[a], cur[a], "reserved")
  /\ LeaseIs(of[a], "unknown_charge")
  /\ Release(of[a])
  /\ Mark(cur[a], "failed")
  /\ EndLease("failed")
  /\ Goto(a, "acquire")
  /\ UNCHANGED <<clock, endpoint, limit, intent, started, task, provider, exposed>>

\* The result of an accepted task; no answer: see Throws.
RecoverAcceptedTask(a) ==
  /\ pc[a] = "recover"
  /\ endpoint = "queue"
  /\ Goto(a, "persist_recovered")
  /\ UNCHANGED <<clock, endpoint, limit, lease, row, budget, provider, exposed>>

\* What the settlement puts in the place of a reservation is the provider's own
\* amount; the CHECK of the budgets table refuses one that leads over the limit.
Settles(a, cost, batchStatus, leaseStatus) ==
  /\ status[cur[a]] = batchStatus
  /\ HasRow(of[a], cur[a], "reserved")
  /\ LeaseIs(of[a], leaseStatus)
  /\ spent + cost + (reserved - 1) <= limit

\* persistSuccessfulRequest: one transaction, rolled back unless the batch,
\* its reservation and the lease are all as the attempt expects them and the
\* budget bears the cost.
Persist(a, batchStatus, leaseStatus) ==
  \E cost \in Costs :
    \/ /\ Settles(a, cost, batchStatus, leaseStatus)
       /\ Mark(cur[a], "succeeded")
       /\ ledger' = [ledger EXCEPT ![of[a]].status = "settled"]
       /\ reserved' = reserved - 1
       /\ spent' = spent + cost
       /\ EndLease("completed")
    \/ /\ ~Settles(a, cost, batchStatus, leaseStatus)
       /\ UNCHANGED <<lease, status, budget>>

PersistRecovered(a) ==
  /\ pc[a] = "persist_recovered"
  /\ Persist(a, "unknown_charge", "unknown_charge")
  /\ Leave(a)
  /\ UNCHANGED <<clock, endpoint, limit, intent, started, task, provider, exposed>>

-----------------------------------------------------------------------------
(* A request of one's own *)

Takeable(now) ==
  \/ lease.status \in {"none", "completed", "failed"}
  \/ lease.status = "acquired" /\ lease.expires <= now

\* A lease is taken until `now` and Lease, with the `now` of the beginning.
AcquireLease(a) ==
  /\ pc[a] = "acquire"
  /\ Takeable(at[a])
  /\ lease' = [status |-> "acquired", owner |-> of[a], expires |-> at[a] + Lease]
  /\ exposed' = exposed \cup
       IF lease.status \in {"acquired", "completed"} THEN {lease.owner} \ {of[a]}
       ELSE {}
  /\ Goto(a, "start")
  /\ UNCHANGED <<clock, endpoint, limit, row, budget, provider>>

\* No lease, no answer of the provider, a denied preflight, a batch that is no
\* longer as it was found: an error leaves everything as it is.  A follower of
\* another attempt ends this way too.
Throws(a) ==
  /\ pc[a] \in {"reconcile", "store", "release", "recover", "acquire"}
  /\ Leave(a)
  /\ UNCHANGED <<clock, endpoint, limit, lease, row, budget, provider, exposed>>

\* The id of the next batch.
NextBatch(b) ==
  /\ status[b] = "none"
  /\ \A c \in Batches : c < b => status[c] # "none"

StartRequest(a) ==
  /\ pc[a] = "start"
  /\ \E b \in Batches :
       /\ NextBatch(b)
       /\ Mark(b, "running")
       /\ intent' = [intent EXCEPT ![b] = of[a]]
       /\ started' = [started EXCEPT ![b] = at[a]]
       /\ OwnBatch(a, b)
  /\ UNCHANGED <<clock, endpoint, limit, lease, task, budget, provider, exposed>>

StartFails(a) ==
  /\ pc[a] = "start"
  /\ IF LeaseIs(of[a], "acquired") THEN EndLease("failed") ELSE lease' = lease
  /\ Leave(a)
  /\ UNCHANGED <<clock, endpoint, limit, row, budget, provider, exposed>>

\* reserveBudgetWithinOperationCeiling.  A row of the ledger that is open or
\* settled is an exact replay and is allowed as it stands, unless its charge
\* is unknown.  A released row is a conflict.  A persistent discovery raises
\* the limit when it needs to.
Reserve(i) ==
  \/ /\ ledger[i].status \in {"reserved", "settled"}
     /\ status[ledger[i].batch] # "unknown_charge"
     /\ UNCHANGED <<limit, budget>>
  \/ /\ ledger[i].status = "none"
     /\ limit' \in {l \in Limits : limit <= l}
     /\ spent + reserved + 1 <= limit'
     /\ \E b \in Newest(BatchesOf(i, "running")) :
          ledger' = [ledger EXCEPT ![i] = [status |-> "reserved", batch |-> b]]
     /\ reserved' = reserved + 1
     /\ spent' = spent

Authorize(a) ==
  /\ pc[a] = "authorize"
  /\ \/ Reserve(of[a]) /\ Goto(a, "call")
     \/ Goto(a, "failed") /\ UNCHANGED <<limit, budget>>
  /\ UNCHANGED <<clock, endpoint, lease, row, provider, exposed>>

\* The client finds the call, its credential or its address unusable.
NotSent(a) ==
  /\ pc[a] = "call"
  /\ \E verdict \in {"failed", "unknown_charge"} : Goto(a, verdict)
  /\ UNCHANGED <<clock, endpoint, limit, lease, row, budget, provider, exposed>>

Post(a) ==
  /\ pc[a] = "call"
  /\ sent' = sent \cup {cur[a]}
  /\ Goto(a, "await")
  /\ UNCHANGED <<clock, endpoint, limit, lease, row, budget, posted, late, exposed>>

\* The provider accepts a POST, while its client waits or when it is gone, at
\* any time.
Accept(b) ==
  /\ b \in sent
  /\ sent' = sent \ {b}
  /\ posted' = posted \cup {b}
  /\ late' = IF started[b] + Grace <= clock THEN late \cup {b} ELSE late
  /\ UNCHANGED <<clock, endpoint, limit, lease, row, budget, attempt, exposed>>

Refuse(a) ==
  /\ pc[a] = "await"
  /\ cur[a] \in sent
  /\ sent' = sent \ {cur[a]}
  /\ Goto(a, "failed")
  /\ UNCHANGED <<clock, endpoint, limit, lease, row, budget, posted, late, exposed>>

\* A live endpoint answers with the result, the queue with the task, for a batch
\* that is still running; for another one see TimesOut.
Answered(a) ==
  /\ pc[a] = "await"
  /\ cur[a] \in posted
  /\ \/ /\ endpoint = "queue"
        /\ status[cur[a]] = "running"
        /\ task' = task \cup {cur[a]}
        /\ Goto(a, "poll")
     \/ endpoint = "live" /\ Goto(a, "persist") /\ UNCHANGED task
  /\ UNCHANGED <<clock, endpoint, limit, lease, status, intent, started, budget,
                 provider, exposed>>

TimesOut(a) ==
  /\ pc[a] \in {"await", "poll"}
  /\ Goto(a, "unknown_charge")
  /\ UNCHANGED <<clock, endpoint, limit, lease, row, budget, provider, exposed>>

\* A poll that the provider refuses (401, 402, 403, 429) counts as a failure.
Polled(a) ==
  /\ pc[a] = "poll"
  /\ \E step \in {"persist", "failed"} : Goto(a, step)
  /\ UNCHANGED <<clock, endpoint, limit, lease, row, budget, provider, exposed>>

\* An error of this transaction is not caught: the call is not awaited inside
\* the try, and the batch stays as it is.
PersistSuccessfulRequest(a) ==
  /\ pc[a] = "persist"
  /\ Persist(a, "running", "acquired")
  /\ Leave(a)
  /\ UNCHANGED <<clock, endpoint, limit, intent, started, task, provider, exposed>>

\* The catch block: one transaction, with what the error says of the charge.
Fail(a) ==
  /\ pc[a] \in {"failed", "unknown_charge"}
  /\ IF status[cur[a]] = "running" THEN Mark(cur[a], pc[a]) ELSE status' = status
  /\ IF pc[a] = "failed" /\ HasRow(of[a], cur[a], "reserved")
     THEN Release(of[a])
     ELSE UNCHANGED budget
  /\ IF LeaseIs(of[a], "acquired") THEN EndLease(pc[a]) ELSE lease' = lease
  /\ Leave(a)
  /\ UNCHANGED <<clock, endpoint, limit, intent, started, task, provider, exposed>>

-----------------------------------------------------------------------------
Crash(a) ==
  /\ pc[a] # "idle"
  /\ Leave(a)
  /\ UNCHANGED <<clock, endpoint, limit, lease, row, budget, provider, exposed>>

Tick ==
  /\ clock < Horizon
  /\ clock' = clock + 1
  /\ UNCHANGED <<endpoint, limit, lease, row, budget, attempt, provider, exposed>>

Attempt(a) ==
  \/ \E i \in Intents : Begin(a, i)
  \/ TransitionInterruptedRequest(a) \/ FindRecoverable(a)
  \/ ReconcileDispatchedTask(a) \/ StoreTask(a) \/ ReconcileNotDispatched(a)
  \/ RecoverAcceptedTask(a) \/ PersistRecovered(a)
  \/ AcquireLease(a) \/ Throws(a) \/ StartRequest(a) \/ StartFails(a)
  \/ Authorize(a) \/ NotSent(a) \/ Post(a) \/ Refuse(a) \/ Answered(a)
  \/ TimesOut(a) \/ Polled(a) \/ PersistSuccessfulRequest(a) \/ Fail(a)
  \/ Crash(a)

Next == (\E a \in Attempts : Attempt(a)) \/ (\E b \in Batches : Accept(b)) \/ Tick

Spec == Init /\ [][Next]_vars

-----------------------------------------------------------------------------
(* Properties *)

\* What the attempts, rows and times know of each other.
Working == {"authorize", "call", "await", "poll", "persist", "failed",
            "unknown_charge"}
Holding == {"start"} \cup Working
Asking == {"reconcile", "store", "release", "recover", "persist_recovered"}
Paying == {"call", "await", "poll", "persist"}

TimesOK ==
  /\ \A a \in Attempts : at[a] <= clock
  /\ \A b \in Batches : started[b] <= clock

BatchOK(b) ==
  /\ status[b] = "none" <=> intent[b] = "none"
  /\ status[b] = "none" => b \notin sent \cup posted
  /\ status[b] = "succeeded" => HasRow(intent[b], b, "settled")
RowOf(i) ==
  LET b == ledger[i].batch IN
  /\ ledger[i].status = "none" <=> b = 0
  /\ b # 0 => intent[b] = i
  /\ ledger[i].status = "reserved" => status[b] \in {"running", "unknown_charge"}
  /\ ledger[i].status = "settled" => status[b] = "succeeded"
  /\ ledger[i].status = "released" => status[b] \in {"failed", "unknown_charge"}

Bookkeeping ==
  /\ lease.status = "none" <=> lease.owner = "none"
  /\ sent \cap posted = {}
  /\ \A b \in Batches : BatchOK(b)
  /\ \A i \in Intents : RowOf(i)

\* Whatever other attempts of its intent do, the batch that an attempt started
\* is its own, and it is posted once.
Worker(a) ==
  /\ pc[a] = "idle" <=> of[a] = "none"
  /\ pc[a] \in Working \cup Asking => cur[a] \in Batches /\ intent[cur[a]] = of[a]
  /\ pc[a] \in {"authorize", "call"} => cur[a] \notin sent \cup posted
  /\ pc[a] = "poll" => cur[a] \in task
  /\ \A c \in Attempts :
       {pc[a], pc[c]} \subseteq Working /\ cur[a] = cur[c] => a = c

Workers == \A a \in Attempts : Worker(a)

\* A request is only released when the provider has not had it until the age of
\* Grace, or cannot get it; or when its poll was refused.
Unsendable(b) ==
  b \notin sent /\ \A a \in Attempts : cur[a] = b => pc[a] \notin {"authorize", "call"}
Gone(b) ==
  b \notin posted \ late /\ (started[b] + Grace <= clock \/ Unsendable(b))

Verdict(a) ==
  /\ pc[a] = "failed" => cur[a] \in task \/ cur[a] \notin sent \cup posted
  /\ pc[a] = "release" => Gone(cur[a])
Charge(i) ==
  ledger[i].status = "released" => ledger[i].batch \in task \/ Gone(ledger[i].batch)

Charges == (\A a \in Attempts : Verdict(a)) /\ (\A i \in Intents : Charge(i))

\* An intent that has one attempt at a time, and that no other one has relieved
\* of its lease, has one batch that has not failed, the state of the lease is
\* the state of this batch, and it is the one that was asked for.
Relation == {<<"running", "acquired">>, <<"unknown_charge", "unknown_charge">>,
             <<"succeeded", "completed">>}
Lonely(i, a) ==
  /\ \A c \in Attempts : of[c] = i => c = a
  /\ pc[a] \in Holding => LeaseIs(i, "acquired")
  /\ pc[a] \in Working => status[cur[a]] = "running"
  /\ pc[a] = "authorize" => ledger[i].batch # cur[a]
  /\ pc[a] \in Paying => HasRow(i, cur[a], "reserved")
  /\ pc[a] \in Asking => /\ status[cur[a]] = "unknown_charge"
                         /\ HasRow(i, cur[a], "reserved")
                         /\ LeaseIs(i, "unknown_charge")
  /\ pc[a] = "start" => \A b \in Batches : intent[b] = i => status[b] = "failed"
  /\ pc[a] \in {"interrupt", "look", "acquire"} => BatchesOf(i, "succeeded") = {}
  /\ pc[a] \in {"look", "acquire"} /\ LeaseIs(i, "acquired") /\ lease.expires <= at[a]
       => BatchesOf(i, "running") = {}
Alone(i) ==
  /\ \A b \in Batches :
       intent[b] = i /\ status[b] # "failed" =>
         lease.owner = i /\ <<status[b], lease.status>> \in Relation
  /\ \A b, c \in Batches :
       {intent[b], intent[c]} = {i} /\ "failed" \notin {status[b], status[c]}
         => b = c
  /\ \A b \in sent \cup posted : intent[b] = i => ledger[i].batch = b
  /\ \A a \in Attempts : of[a] = i => Lonely(i, a)

\* The state of the lease, the batches, the ledger and the attempts agree.
IInv ==
  /\ TypeOK /\ TimesOK /\ Bookkeeping /\ Workers /\ Charges
  /\ \A i \in Intents \ exposed : Alone(i)

\* However often an intent is attempted, interrupted and reconciled, the
\* provider is asked once, unless another intent took the lease over after
\* this one had paid, or two attempts of this one were under way at once.
Calls(i) == {b \in posted : intent[b] = i}
OneCall == \A i \in Intents \ exposed : Cardinality(Calls(i)) <= 1

\* Replays of an operation make no new paid request (the remediation plan of
\* the value chain, 581-584).
OneCallPerIntent == \A i \in Intents : Cardinality(Calls(i)) <= 1

\* A reservation is only given back for a request that the provider had not
\* accepted when it reached the age of Grace: not before a younger one is known
\* to be refused or unsent, whoever reconciles it meanwhile.  The exception is
\* in the code: a request with a task, the poll of which was refused.
ReleasedMeansUncharged ==
  \A i \in Intents :
    ledger[i].status = "released" /\ ledger[i].batch \notin task =>
      ledger[i].batch \notin posted \ late

\* The reserved amount is that of the open rows of the ledger, whichever of the
\* failures, settlements and reconciliations of an intent came first; and with
\* what is spent it stays within the limit, whatever the provider charges.
BudgetExact ==
  /\ reserved = Cardinality({i \in Intents : ledger[i].status = "reserved"})
  /\ spent + reserved <= limit

\* Nobody disturbs the holder of a lease that has not run out: not the attempt
\* of another intent that had it before, whatever it learns about its own
\* request.
HolderUndisturbed ==
  [][\A i \in Intents :
       /\ LeaseIs(i, "acquired")
       /\ clock < lease.expires
       /\ \A a \in Attempts : (of[a] = i => pc'[a] = pc[a])
       => lease' = lease]_vars

\* A batch that succeeded or failed, and a row that was settled or released,
\* stays so.
FinalFetches ==
  [][/\ \A b \in Batches :
          status[b] \in {"succeeded", "failed"} => status'[b] = status[b]
     /\ \A i \in Intents :
          ledger[i].status \in {"settled", "released"} => ledger'[i] = ledger[i]]_vars
=============================================================================
