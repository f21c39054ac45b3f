----------------------------- MODULE OutboxRelay -----------------------------
(***************************************************************************)
(* The transactional outbox and the relays that empty it: rows of          *)
(* backlink_outbox_events, the SQL functions that claim and mark them, and *)
(* the `runOnce` loop that every relay of the worker process shares.       *)
(*                                                                         *)
(* Several worker processes run the loop.  A claim fences the row with the *)
(* worker's id (`backlinks-worker:<pid>`), which two processes on two      *)
(* hosts may share, and is taken over when it is older than 30 seconds.    *)
(* Time is abstract: a claim may grow stale, and a retry may fall due, at  *)
(* any moment.                                                             *)
(***************************************************************************)
EXTENDS FiniteSets, Naturals

CONSTANTS
  Events,      \* outbox rows, one per idempotency key
  Workers,     \* the processes that run the relay loop
  Ids,         \* worker ids
  IdOf,        \* the id each process writes into claimed_by
  NoId,        \* claimed_by IS NULL
  Limit        \* rows of one claim

ASSUME IdAssumption == IdOf \in [Workers -> Ids] /\ NoId \notin Ids
ASSUME LimitAssumption == Limit \in Nat \ {0}

VARIABLES
  status,      \* backlink_outbox_events.status, "absent" before the row exists
  claimedBy,   \* claimed_by
  due,         \* rows with available_at <= now()
  stale,       \* rows with claimed_at <= staleClaimBefore
  batch,       \* rows each worker has claimed and not yet taken up
  step,        \* where each worker stands in its loop, and on which row
  consumed     \* rows whose consumer took effect at least once

row == <<status, claimedBy, due, stale>>
vars == <<status, claimedBy, due, stale, batch, step, consumed>>

Status == {"absent", "pending", "processing", "failed", "published"}
NextRow == [at : {"next"}]
Marking == [at : {"publish", "fail"}, event : Events]

TypeOK ==
  /\ status \in [Events -> Status]
  /\ claimedBy \in [Events -> Ids \cup {NoId}]
  /\ due \subseteq Events
  /\ stale \subseteq Events
  /\ batch \in [Workers -> SUBSET Events]
  /\ step \in [Workers -> NextRow \cup Marking]
  /\ consumed \subseteq Events

Init ==
  /\ status = [e \in Events |-> "absent"]
  /\ claimedBy = [e \in Events |-> NoId]
  /\ due = {}
  /\ stale = {}
  /\ batch = [w \in Workers |-> {}]
  /\ step = [w \in Workers |-> [at |-> "next"]]
  /\ consumed = {}

Goto(w, s) == step' = [step EXCEPT ![w] = s]

\* The loop is left, by its end or by an exception; `runRelay` catches it and
\* a later tick starts a new one.
Leave(w) ==
  /\ batch' = [batch EXCEPT ![w] = {}]
  /\ Goto(w, [at |-> "next"])

\* `append` runs in the transaction of the command that raises the event.
Append(e) ==
  /\ status[e] = "absent"
  /\ status' = [status EXCEPT ![e] = "pending"]
  /\ due' = due \cup {e}
  /\ UNCHANGED <<claimedBy, stale, batch, step, consumed>>

FallDue(e) ==
  /\ status[e] = "failed"
  /\ due' = due \cup {e}
  /\ UNCHANGED <<status, claimedBy, stale, batch, step, consumed>>

GrowStale(e) ==
  /\ status[e] = "processing"
  /\ stale' = stale \cup {e}
  /\ UNCHANGED <<status, claimedBy, due, batch, step, consumed>>

-----------------------------------------------------------------------------
(* One pass of the loop *)

\* Faulty: an abandoned claim is never taken over.
ClaimableFaulty(e) == status[e] \in {"pending", "failed"} /\ e \in due

Claimable(e) ==
  \/ status[e] \in {"pending", "failed"} /\ e \in due
  \/ status[e] = "processing" /\ e \in stale

\* The rows that another claim has locked are skipped, so any of the
\* claimable rows may be missing from the batch.
Claim(w, rows) ==
  /\ step[w] = [at |-> "next"]
  /\ batch[w] = {}
  /\ rows # {}
  /\ Cardinality(rows) <= Limit
  /\ \A e \in rows : Claimable(e)
  /\ status' = [e \in Events |-> IF e \in rows THEN "processing" ELSE status[e]]
  /\ claimedBy' = [e \in Events |-> IF e \in rows THEN IdOf[w] ELSE claimedBy[e]]
  /\ stale' = stale \ rows
  /\ batch' = [batch EXCEPT ![w] = rows]
  /\ UNCHANGED <<due, step, consumed>>

TakeUp(w, e, marking) ==
  /\ step[w] = [at |-> "next"]
  /\ e \in batch[w]
  /\ batch' = [batch EXCEPT ![w] = @ \ {e}]
  /\ Goto(w, [at |-> marking, event |-> e])
  /\ UNCHANGED row

\* The consumer may take any time, and the claim may be lost meanwhile.
Consume(w, e) ==
  /\ TakeUp(w, e, "publish")
  /\ consumed' = consumed \cup {e}

\* Faulty: an exception of the consumer is swallowed.
ConsumeThrowsFaulty(w, e) ==
  /\ TakeUp(w, e, "publish")
  /\ consumed' \in {consumed, consumed \cup {e}}

\* The payload is rejected, or the consumer fails, before its effect or after.
ConsumeThrows(w, e) ==
  /\ TakeUp(w, e, "fail")
  /\ consumed' \in {consumed, consumed \cup {e}}

\* Faulty: the fence compares the worker but not the status of the row.
FencedFaulty(w, e) == claimedBy[e] = IdOf[w]

Fenced(w, e) == status[e] = "processing" /\ claimedBy[e] = IdOf[w]

\* The row is marked, though the worker need not learn it, in which case it
\* goes on to mark the row failed.
MarkPublished(w, e) ==
  /\ step[w] = [at |-> "publish", event |-> e]
  /\ Fenced(w, e)
  /\ status' = [status EXCEPT ![e] = "published"]
  /\ Goto(w, [at |-> "next"]) \/ Goto(w, [at |-> "fail", event |-> e])
  /\ UNCHANGED <<claimedBy, due, stale, batch, consumed>>

\* The claim was lost, or the database cannot be reached.
MarkPublishedThrows(w, e) ==
  /\ step[w] = [at |-> "publish", event |-> e]
  /\ Goto(w, [at |-> "fail", event |-> e])
  /\ UNCHANGED <<row, batch, consumed>>

MarkFailed(w, e) ==
  /\ step[w] = [at |-> "fail", event |-> e]
  /\ Fenced(w, e)
  /\ status' = [status EXCEPT ![e] = "failed"]
  /\ claimedBy' = [claimedBy EXCEPT ![e] = NoId]
  /\ due' = due \ {e}
  /\ stale' = stale \ {e}
  /\ \/ Goto(w, [at |-> "next"]) /\ UNCHANGED batch
     \/ Leave(w)
  /\ UNCHANGED consumed

\* The row is somebody else's: the first exception leaves the loop, and the
\* rest of the batch waits for its claim to grow stale.
MarkFailedThrows(w, e) ==
  /\ step[w] = [at |-> "fail", event |-> e]
  /\ Leave(w)
  /\ UNCHANGED <<row, consumed>>

\* The process dies and is started again.
Crash(w) ==
  /\ Leave(w)
  /\ UNCHANGED <<row, consumed>>

-----------------------------------------------------------------------------

Handle(w, e) ==
  \/ Consume(w, e) \/ ConsumeThrows(w, e)
  \/ MarkPublished(w, e) \/ MarkPublishedThrows(w, e)
  \/ MarkFailed(w, e) \/ MarkFailedThrows(w, e)

Next ==
  \/ \E e \in Events : Append(e) \/ FallDue(e) \/ GrowStale(e)
  \/ \E w \in Workers, rows \in SUBSET Events : Claim(w, rows)
  \/ \E w \in Workers, e \in Events : Handle(w, e)
  \/ \E w \in Workers : Crash(w)

Spec == Init /\ [][Next]_vars

\* Fairness.  Time passes and every worker goes on with its loop.  The claim
\* takes the oldest rows first, so no row is passed over for ever; and not
\* every call of a consumer fails or outlives its claim, and not every mark
\* after one is lost.
Fairness ==
  /\ \A e \in Events :
       /\ WF_vars(FallDue(e))
       /\ WF_vars(GrowStale(e))
       /\ SF_vars(\E w \in Workers, rows \in SUBSET Events :
                    e \in rows /\ Claim(w, rows))
       /\ SF_vars(\E w \in Workers : Fenced(w, e) /\ Consume(w, e))
       /\ SF_vars(\E w \in Workers : MarkPublished(w, e))
  /\ \A w \in Workers : WF_vars(\E e \in Events : Handle(w, e))

FairSpec == Spec /\ Fairness

-----------------------------------------------------------------------------
(* Properties *)

\* A row says published only of an event whose consumer took effect, and a
\* worker is about to say so only then -- whoever holds the claim, however
\* many workers share an id.
PublishedWasConsumed ==
  /\ \A e \in Events : status[e] = "published" => e \in consumed
  /\ \A w \in Workers, e \in Events :
       step[w] = [at |-> "publish", event |-> e] => e \in consumed

\* Only what was appended is ever claimed or handed to a consumer.
NothingFromNothing ==
  /\ \A e \in consumed : status[e] # "absent"
  /\ \A w \in Workers : \A e \in batch[w] : status[e] # "absent"

IInv == TypeOK /\ PublishedWasConsumed /\ NothingFromNothing

DeliveryOf(e) ==
  CASE status[e] \in {"absent", "published"} -> status[e]
    [] OTHER -> IF e \in consumed THEN "delivered" ELSE "pending"

Delivery ==
  INSTANCE EventDelivery WITH delivery <- [e \in Events |-> DeliveryOf(e)]

\* The relays implement EventDelivery: no event is published without having
\* been delivered, and no late mark of an old claim ever takes a publication
\* back.
DeliveryKept == Delivery!Spec

\* Every appended event is published in the end, over lost claims, failing
\* consumers, unanswered marks and crashes in the middle of a batch.
EventuallyPublished == Delivery!Live
=============================================================================
