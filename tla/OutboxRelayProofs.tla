-------------------------- MODULE OutboxRelayProofs --------------------------
(***************************************************************************)
(* For any rows, any number of worker processes and any assignment of      *)
(* worker ids, shared ones included: the relays publish only what was      *)
(* consumed, and they implement EventDelivery.                             *)
(***************************************************************************)
EXTENDS OutboxRelay, TLAPS

\* Leaving the loop gives the batch up.
LEMMA LeaveEffect ==
  ASSUME TypeOK, NEW w \in Workers, Leave(w)
  PROVE  /\ batch' \in [Workers -> SUBSET Events]
         /\ step' \in [Workers -> NextRow \cup Marking]
         /\ \A v \in Workers : batch'[v] \subseteq batch[v]
         /\ \A v \in Workers : step'[v] \in {step[v], [at |-> "next"]}
  BY DEF TypeOK, Leave, Goto, NextRow

\* Taking a row up moves it from the batch to the worker's hands.
LEMMA TakeUpEffect ==
  ASSUME TypeOK, NEW w \in Workers, NEW e \in Events,
         NEW marking \in {"publish", "fail"}, TakeUp(w, e, marking)
  PROVE  /\ batch' \in [Workers -> SUBSET Events]
         /\ step' \in [Workers -> NextRow \cup Marking]
         /\ \A v \in Workers : batch'[v] \subseteq batch[v]
         /\ \A v \in Workers :
              step'[v] \in {step[v], [at |-> marking, event |-> e]}
  BY DEF TypeOK, TakeUp, Goto, Marking

\* Nothing is consumed, claimed or published at first.
LEMMA InitIInv == Init => IInv
  BY DEF Init, IInv, TypeOK, PublishedWasConsumed, NothingFromNothing, Status,
         NextRow

\* Time and new rows.
LEMMA RowStepIInv ==
  ASSUME IInv, NEW e \in Events, Append(e) \/ FallDue(e) \/ GrowStale(e)
  PROVE  IInv'
<1> USE DEF IInv, TypeOK
<1>1. TypeOK'
  BY DEF Append, FallDue, GrowStale, Status
<1>2. \A d \in Events : status'[d] \in {status[d], "pending"}
  BY DEF Append, FallDue, GrowStale
<1>3. UNCHANGED <<batch, step, consumed>>
  BY DEF Append, FallDue, GrowStale
<1>4. PublishedWasConsumed'
  BY <1>2, <1>3 DEF PublishedWasConsumed
<1>5. NothingFromNothing'
  BY <1>1, <1>2, <1>3 DEF NothingFromNothing
<1> QED BY <1>1, <1>4, <1>5

\* A claim only takes rows that exist.
LEMMA ClaimIInv ==
  ASSUME IInv, NEW w \in Workers, NEW rows \in SUBSET Events, Claim(w, rows)
  PROVE  IInv'
<1> USE DEF IInv, TypeOK
<1>1. IdOf[w] \in Ids
  BY IdAssumption
<1>2. TypeOK'
  BY <1>1 DEF Claim, Status
<1>3. \A e \in Events : status'[e] \in {status[e], "processing"}
  BY DEF Claim
<1>4. \A e \in rows : status[e] # "absent"
  BY DEF Claim, Claimable
<1>5. \A v \in Workers : batch'[v] \subseteq batch[v] \cup rows
  BY DEF Claim
<1>6. UNCHANGED <<step, consumed>>
  BY DEF Claim
<1>7. PublishedWasConsumed'
  BY <1>3, <1>6 DEF PublishedWasConsumed
<1>8. NothingFromNothing'
  BY <1>2, <1>3, <1>4, <1>5, <1>6 DEF NothingFromNothing
<1> QED BY <1>2, <1>7, <1>8

\* A worker comes to mark a row published only by consuming it.
LEMMA HandleIInv ==
  ASSUME IInv, NEW w \in Workers, NEW e \in Events, Handle(w, e)
  PROVE  IInv'
<1> USE DEF IInv, TypeOK
<1>1. CASE Consume(w, e)
  <2>1. e \in batch[w] /\ consumed' = consumed \cup {e} /\ UNCHANGED row
        /\ TakeUp(w, e, "publish")
    BY <1>1 DEF Consume, TakeUp
  <2>2. TypeOK'
    BY <2>1, TakeUpEffect DEF row
  <2>3. PublishedWasConsumed'
    BY <2>1, TakeUpEffect DEF row, PublishedWasConsumed
  <2>4. NothingFromNothing'
    BY <2>1, <2>2, TakeUpEffect DEF row, NothingFromNothing
  <2> QED BY <2>2, <2>3, <2>4
<1>2. CASE ConsumeThrows(w, e)
  <2>1. /\ e \in batch[w] /\ UNCHANGED row /\ TakeUp(w, e, "fail")
        /\ consumed' \subseteq consumed \cup {e}
        /\ consumed \subseteq consumed'
    BY <1>2 DEF ConsumeThrows, TakeUp
  <2>2. TypeOK'
    BY <2>1, TakeUpEffect DEF row
  <2>3. \A d \in Events :
          [at |-> "fail", event |-> e] # [at |-> "publish", event |-> d]
    OBVIOUS
  <2>4. PublishedWasConsumed'
    BY <2>1, <2>3, TakeUpEffect DEF row, PublishedWasConsumed
  <2>5. NothingFromNothing'
    BY <2>1, <2>2, TakeUpEffect DEF row, NothingFromNothing
  <2> QED BY <2>2, <2>4, <2>5
<1>3. CASE MarkPublished(w, e) \/ MarkPublishedThrows(w, e)
  <2>1. /\ step[w] = [at |-> "publish", event |-> e]
        /\ UNCHANGED <<claimedBy, due, stale, batch, consumed>>
        /\ status' \in {status, [status EXCEPT ![e] = "published"]}
        /\ \/ Goto(w, [at |-> "next"])
           \/ Goto(w, [at |-> "fail", event |-> e])
    BY <1>3 DEF MarkPublished, MarkPublishedThrows, row
  <2>2. step' \in [Workers -> NextRow \cup Marking]
    BY <2>1 DEF Goto, NextRow, Marking
  <2>3. \A v \in Workers :
          step'[v] \in {step[v], [at |-> "next"], [at |-> "fail", event |-> e]}
    BY <2>1 DEF Goto
  <2>4. TypeOK'
    BY <2>1, <2>2 DEF Status
  <2>5. e \in consumed
    BY <2>1 DEF PublishedWasConsumed
  <2>6. \A d \in Events : \/ status'[d] = status[d]
                          \/ d = e /\ status'[d] = "published"
    BY <2>1
  <2>7. \A d \in Events :
          /\ [at |-> "fail", event |-> e] # [at |-> "publish", event |-> d]
          /\ [at |-> "next"] # [at |-> "publish", event |-> d]
    OBVIOUS
  <2>8. PublishedWasConsumed'
    BY <2>1, <2>3, <2>5, <2>6, <2>7 DEF PublishedWasConsumed
  <2>9. NothingFromNothing'
    BY <2>1, <2>4, <2>6 DEF NothingFromNothing
  <2> QED BY <2>4, <2>8, <2>9
<1>4. CASE MarkFailed(w, e) \/ MarkFailedThrows(w, e)
  <2>1. /\ step' \in [Workers -> NextRow \cup Marking]
        /\ batch' \in [Workers -> SUBSET Events]
        /\ \A v \in Workers : batch'[v] \subseteq batch[v]
        /\ \A v \in Workers : step'[v] \in {step[v], [at |-> "next"]}
    BY <1>4, LeaveEffect DEF MarkFailed, MarkFailedThrows, Goto, NextRow
  <2>2. /\ consumed' = consumed
        /\ \A d \in Events : status'[d] \in {status[d], "failed"}
    BY <1>4 DEF MarkFailed, MarkFailedThrows, row
  <2>3. TypeOK'
    BY <1>4, <2>1, <2>2 DEF MarkFailed, MarkFailedThrows, row, Status
  <2>4. \A d \in Events : [at |-> "next"] # [at |-> "publish", event |-> d]
    OBVIOUS
  <2>5. PublishedWasConsumed'
    BY <2>1, <2>2, <2>4 DEF PublishedWasConsumed
  <2>6. NothingFromNothing'
    BY <2>1, <2>2, <2>3 DEF NothingFromNothing
  <2> QED BY <2>3, <2>5, <2>6
<1> QED BY <1>1, <1>2, <1>3, <1>4 DEF Handle

\* A crash forgets what the worker held.
LEMMA CrashIInv ==
  ASSUME IInv, NEW w \in Workers, Crash(w)
  PROVE  IInv'
<1> USE DEF IInv, TypeOK
<1>1. UNCHANGED <<row, consumed>>
  BY DEF Crash
<1>2. TypeOK'
  BY <1>1, LeaveEffect DEF Crash, row
<1>3. \A d \in Events : [at |-> "next"] # [at |-> "publish", event |-> d]
  OBVIOUS
<1>4. PublishedWasConsumed'
  BY <1>1, <1>3, LeaveEffect DEF Crash, row, PublishedWasConsumed
<1>5. NothingFromNothing'
  BY <1>1, <1>2, LeaveEffect DEF Crash, row, NothingFromNothing
<1> QED BY <1>2, <1>4, <1>5

\* The invariant survives every step.
LEMMA NextIInv == IInv /\ [Next]_vars => IInv'
<1> SUFFICES ASSUME IInv, [Next]_vars PROVE IInv'
  OBVIOUS
<1>1. CASE UNCHANGED vars
  BY <1>1 DEF vars, IInv, TypeOK, PublishedWasConsumed, NothingFromNothing
<1> QED BY <1>1, RowStepIInv, ClaimIInv, HandleIInv, CrashIInv DEF Next

\* Whatever the workers are called and whenever they crash, a row is marked
\* published only after its consumer took effect, and no row is claimed or
\* consumed that was never appended.
THEOREM RelayInvariant == Spec => []IInv
<1>1. Init => IInv
  BY InitIInv
<1>2. IInv /\ [Next]_vars => IInv'
  BY NextIInv
<1> QED BY <1>1, <1>2, PTL DEF Spec

-----------------------------------------------------------------------------
(* Refinement: a step moves at most one event, and moves it as EventDelivery *)
(* says.                                                                     *)

\* One event moved on as the abstract specification allows.
Moves(e) ==
  \/ DeliveryOf(e) = "absent" /\ DeliveryOf(e)' = "pending"
  \/ DeliveryOf(e) = "pending" /\ DeliveryOf(e)' = "delivered"
  \/ DeliveryOf(e) = "delivered" /\ DeliveryOf(e)' = "published"

Stays(e) == DeliveryOf(e)' = DeliveryOf(e)

\* Such a move is a step of EventDelivery.
LEMMA MoveIsStep ==
  ASSUME NEW e \in Events, Moves(e), \A d \in Events \ {e} : Stays(d)
  PROVE  Delivery!Next
<1> DEFINE before == [d \in Events |-> DeliveryOf(d)]
           after == [d \in Events |-> DeliveryOf(d)']
<1>1. before[e] = DeliveryOf(e) /\ after = [before EXCEPT ![e] = DeliveryOf(e)']
  BY DEF Stays
<1> QED BY <1>1 DEF Moves, Delivery!Next, Delivery!Append, Delivery!Deliver,
                    Delivery!Publish, Delivery!Become

\* An event whose row and consumption are as before stays.
LEMMA SameRowStays ==
  ASSUME NEW e \in Events, status'[e] = status[e],
         e \in consumed' <=> e \in consumed
  PROVE  Stays(e)
  BY DEF Stays, DeliveryOf

\* A row that is claimed or marked failed is still on its way.
LEMMA UnpublishedStays ==
  ASSUME NEW e \in Events, e \in consumed' <=> e \in consumed,
         status[e] \in {"pending", "processing", "failed"},
         status'[e] \in {"pending", "processing", "failed"}
  PROVE  Stays(e)
  BY DEF Stays, DeliveryOf

\* Calling the consumer delivers a row the first time, and is not seen later.
LEMMA ConsumeMoves ==
  ASSUME IInv, NEW e \in Events, UNCHANGED status, status[e] # "absent",
         consumed' = consumed \cup {e}
  PROVE  Moves(e) \/ Stays(e)
  BY DEF Moves, Stays, DeliveryOf, IInv, TypeOK, Status, PublishedWasConsumed

\* Every step of the relays is a step of EventDelivery or leaves it alone.
LEMMA StepDelivers ==
  ASSUME IInv, Next
  PROVE  \/ \A d \in Events : Stays(d)
         \/ \E e \in Events : Moves(e) /\ \A d \in Events \ {e} : Stays(d)
<1> USE DEF IInv, TypeOK
<1>1. ASSUME NEW e \in Events, Append(e)
      PROVE  Moves(e) /\ \A d \in Events \ {e} : Stays(d)
  <2>1. status[e] = "absent" /\ status'[e] = "pending" /\ consumed' = consumed
    BY <1>1 DEF Append
  <2>2. e \notin consumed
    BY <2>1 DEF NothingFromNothing
  <2>3. Moves(e)
    BY <2>1, <2>2 DEF Moves, DeliveryOf
  <2> QED BY <1>1, <2>3, SameRowStays DEF Append
<1>2. ASSUME NEW e \in Events, FallDue(e) \/ GrowStale(e)
      PROVE  \A d \in Events : Stays(d)
  BY <1>2, SameRowStays DEF FallDue, GrowStale
<1>3. ASSUME NEW w \in Workers, NEW rows \in SUBSET Events, Claim(w, rows)
      PROVE  \A d \in Events : Stays(d)
  <2>1. consumed' = consumed
        /\ \A d \in rows : status[d] \in {"pending", "processing", "failed"}
    BY <1>3 DEF Claim, Claimable
  <2>2. \A d \in Events :
          status'[d] = IF d \in rows THEN "processing" ELSE status[d]
    BY <1>3 DEF Claim
  <2>3. ASSUME NEW d \in Events, d \in rows PROVE Stays(d)
    BY <2>1, <2>2, <2>3, UnpublishedStays
  <2>4. ASSUME NEW d \in Events, d \notin rows PROVE Stays(d)
    BY <2>1, <2>2, <2>4, SameRowStays
  <2> QED BY <2>3, <2>4
<1>4. ASSUME NEW w \in Workers, NEW e \in Events,
             Consume(w, e) \/ ConsumeThrows(w, e)
      PROVE  Moves(e) \/ Stays(e)
  <2>1. e \in batch[w] /\ UNCHANGED status
        /\ consumed' \in {consumed, consumed \cup {e}}
    BY <1>4 DEF Consume, ConsumeThrows, TakeUp, row
  <2>2. status[e] # "absent"
    BY <2>1 DEF NothingFromNothing
  <2> QED BY <2>1, <2>2, ConsumeMoves, SameRowStays
<1>5. ASSUME NEW w \in Workers, NEW e \in Events,
             Consume(w, e) \/ ConsumeThrows(w, e), NEW d \in Events \ {e}
      PROVE  Stays(d)
  BY <1>5, SameRowStays DEF Consume, ConsumeThrows, TakeUp, row
<1>6. ASSUME NEW w \in Workers, NEW e \in Events, MarkPublished(w, e)
      PROVE  Moves(e) /\ \A d \in Events \ {e} : Stays(d)
  <2>1. /\ status[e] = "processing" /\ status'[e] = "published"
        /\ consumed' = consumed
        /\ step[w] = [at |-> "publish", event |-> e]
    BY <1>6 DEF MarkPublished, Fenced
  <2>2. Moves(e)
    BY <2>1 DEF Moves, DeliveryOf, PublishedWasConsumed
  <2> QED BY <1>6, <2>2, SameRowStays DEF MarkPublished
<1>7. ASSUME NEW w \in Workers, NEW e \in Events, MarkFailed(w, e)
      PROVE  \A d \in Events : Stays(d)
  <2>1. /\ status[e] = "processing" /\ status'[e] = "failed"
        /\ consumed' = consumed
        /\ \A d \in Events \ {e} : status'[d] = status[d]
    BY <1>7 DEF MarkFailed, Fenced
  <2> QED BY <2>1, UnpublishedStays, SameRowStays
<1>8. ASSUME NEW w \in Workers, NEW e \in Events,
             MarkPublishedThrows(w, e) \/ MarkFailedThrows(w, e)
      PROVE  \A d \in Events : Stays(d)
  BY <1>8, SameRowStays DEF MarkPublishedThrows, MarkFailedThrows, row
<1>9. ASSUME NEW w \in Workers, Crash(w) PROVE \A d \in Events : Stays(d)
  BY <1>9, SameRowStays DEF Crash, row
<1>10. ASSUME NEW w \in Workers, NEW e \in Events, Handle(w, e)
       PROVE  \/ \A d \in Events : Stays(d)
              \/ Moves(e) /\ \A d \in Events \ {e} : Stays(d)
  BY <1>4, <1>5, <1>6, <1>7, <1>8, <1>10 DEF Handle
<1> QED BY <1>1, <1>2, <1>3, <1>9, <1>10 DEF Next

\* What stays everywhere is a stutter of EventDelivery.
LEMMA StayIsStutter ==
  ASSUME \A d \in Events : Stays(d)
  PROVE  UNCHANGED [e \in Events |-> DeliveryOf(e)]
  BY DEF Stays

\* At first no event exists for EventDelivery either.
LEMMA InitDelivers == Init => Delivery!Init
  BY DEF Init, Delivery!Init, DeliveryOf

\* The relays implement EventDelivery, for any number of processes, with or
\* without worker ids of their own: at least one call before the publication,
\* and no publication is ever taken back.
THEOREM RelayKeepsDelivery == Spec => DeliveryKept
<1>1. Init => Delivery!Init
  BY InitDelivers
<1>2. IInv /\ [Next]_vars => [Delivery!Next]_([e \in Events |-> DeliveryOf(e)])
  <2> SUFFICES ASSUME IInv, [Next]_vars
               PROVE  [Delivery!Next]_([e \in Events |-> DeliveryOf(e)])
    OBVIOUS
  <2>1. CASE UNCHANGED vars
    <3>1. \A d \in Events : Stays(d)
      BY <2>1, SameRowStays DEF vars
    <3> QED BY <3>1, StayIsStutter
  <2>2. CASE Next
    BY <2>2, StepDelivers, MoveIsStep, StayIsStutter
  <2> QED BY <2>1, <2>2
<1> QED BY <1>1, <1>2, RelayInvariant, PTL DEF Spec, DeliveryKept, Delivery!Spec
=============================================================================
