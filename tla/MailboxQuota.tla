----------------------------- MODULE MailboxQuota -----------------------------
(***************************************************************************)
(* The send quota of one Gmail connection against the clock: what `create` *)
(* counts before it reserves a slot, when a slot may be claimed, and what  *)
(* its settlement does to the rolling window.                              *)
(*                                                                         *)
(* GmailSend lets a slot expire at any moment; here the times are real.    *)
(* All processes read one clock, and a transaction commits at the time it  *)
(* has read.  How a dispatch ends is left to GmailSend: it may take any    *)
(* time and have any result.                                               *)
(***************************************************************************)
EXTENDS FiniteSets, Naturals

CONSTANTS
  Intents,     \* the Send Intents of the connection
  Limit,       \* rolling24HourSendLimit
  Window,      \* the 24 hours of the rolling window
  Interval,    \* minimumIntervalSeconds
  Ttl,         \* reservationTtlSeconds
  MaxAttempts, \* maxAttempts of the send workflow
  MaxDelay,    \* the longest retryAfterSeconds of a settlement
  Horizon      \* the clock stops here

ASSUME IntentsAssumption == IsFiniteSet(Intents)
ASSUME ProfileAssumption ==
  /\ Limit \in Nat \ {0}
  /\ Window \in Nat \ {0}
  /\ Interval \in Nat \ {0}
  /\ Ttl \in Nat \ {0}
  /\ MaxAttempts \in Nat \ {0}
  /\ MaxDelay \in Nat
  /\ Horizon \in Nat

VARIABLES
  now,         \* the clock
  slot,        \* backlink_rate_limit_reservations.status
  lane,        \* lane_sequence
  lastLane,    \* max(lane_sequence) of the connection
  eligibleAt,  \* eligible_at
  expiresAt,   \* expires_at
  consumedAt,  \* consumed_at
  dispatching, \* intents whose latest Send Attempt is DISPATCHING
  attemptNo,   \* its number, 0 before the first
  claimedAt,   \* started_at of the latest Send Attempt
  nextAt       \* retry_eligible_at of the latest attempt, or else eligible_at

numbers == <<lane, lastLane, eligibleAt, expiresAt>>
attempts == <<attemptNo, claimedAt>>
vars == <<now, slot, lane, lastLane, eligibleAt, expiresAt, consumedAt,
          dispatching, attemptNo, claimedAt, nextAt>>

Slot == {"NONE", "RESERVED", "CONSUMED", "RELEASED"}

TypeOK ==
  /\ now \in Nat
  /\ slot \in [Intents -> Slot]
  /\ lane \in [Intents -> Nat]
  /\ lastLane \in Nat
  /\ eligibleAt \in [Intents -> Nat]
  /\ expiresAt \in [Intents -> Nat]
  /\ consumedAt \in [Intents -> Nat]
  /\ dispatching \subseteq Intents
  /\ attemptNo \in [Intents -> 0..MaxAttempts]
  /\ claimedAt \in [Intents -> Nat]
  /\ nextAt \in [Intents -> Nat]

Init ==
  LET nought == [i \in Intents |-> 0]
  IN /\ now = 0
     /\ slot = [i \in Intents |-> "NONE"]
     /\ lane = nought
     /\ lastLane = 0
     /\ eligibleAt = nought
     /\ expiresAt = nought
     /\ consumedAt = nought
     /\ dispatching = {}
     /\ attemptNo = nought
     /\ claimedAt = nought
     /\ nextAt = nought

Tick ==
  /\ now < Horizon
  /\ now' = now + 1
  /\ UNCHANGED <<slot, numbers, consumedAt, dispatching, attempts, nextAt>>

-----------------------------------------------------------------------------
(* create, under the lock of the connection's quota *)

InWindow(i) == slot[i] = "CONSUMED" /\ consumedAt[i] + Window > now

\* What the usage query counts: sends inside the window, and reservations
\* that are not past their expiry -- even if one that is past it is just
\* being dispatched.
Used ==
  {i \in Intents :
     InWindow(i) \/ (slot[i] = "RESERVED" /\ now < expiresAt[i])}

\* Faulty: off by one.
QuotaLeftFaulty == Cardinality(Used) <= Limit

QuotaLeft == Cardinality(Used) < Limit

\* lastEligibleAt + minimumIntervalSeconds.
NextEligible ==
  {Interval + IF slot[j] = "CONSUMED" THEN consumedAt[j] ELSE eligibleAt[j] :
     j \in Used}

Reserve(i) ==
  /\ slot[i] = "NONE"
  /\ QuotaLeft
  /\ slot' = [slot EXCEPT ![i] = "RESERVED"]
  /\ lastLane' = lastLane + 1
  /\ lane' = [lane EXCEPT ![i] = lastLane + 1]
  /\ \E at \in NextEligible \cup {now} :
       /\ \A t \in NextEligible \cup {now} : t <= at
       /\ eligibleAt' = [eligibleAt EXCEPT ![i] = at]
       /\ expiresAt' = [expiresAt EXCEPT ![i] = at + Ttl]
       /\ nextAt' = [nextAt EXCEPT ![i] = at]
  /\ UNCHANGED <<now, consumedAt, dispatching, attempts>>

-----------------------------------------------------------------------------
(* claim and settle, under the lock of the connection's sends *)

\* Faulty: a claim does not look at the attempt before it.
WaitingFaulty(i) == slot[i] = "RESERVED"

Waiting(i) == slot[i] = "RESERVED" /\ i \notin dispatching

\* Past its expiry, or out of attempts.
GiveUp(i) ==
  /\ Waiting(i)
  /\ nextAt[i] <= now
  /\ expiresAt[i] <= now \/ attemptNo[i] = MaxAttempts
  /\ slot' = [slot EXCEPT ![i] = "RELEASED"]
  /\ UNCHANGED <<now, numbers, consumedAt, dispatching, attempts, nextAt>>

\* Faulty: the expiry is only looked at when the slot is reserved.
LiveFaulty(i) == nextAt[i] <= now

Live(i) == nextAt[i] <= now /\ now < expiresAt[i]

\* Faulty: the interval counts from the reservation, not from the last send.
LaneFreeFaulty(i) ==
  \A j \in Intents : slot[j] = "RESERVED" => lane[j] >= lane[i]

LaneFree(i) ==
  \A j \in Intents :
    /\ slot[j] = "RESERVED" => lane[j] >= lane[i]
    /\ slot[j] = "CONSUMED" => consumedAt[j] + Interval <= now

Claim(i) ==
  /\ Waiting(i)
  /\ Live(i)
  /\ attemptNo[i] < MaxAttempts
  /\ LaneFree(i)
  /\ dispatching' = dispatching \cup {i}
  /\ attemptNo' = [attemptNo EXCEPT ![i] = @ + 1]
  /\ claimedAt' = [claimedAt EXCEPT ![i] = now]
  /\ UNCHANGED <<now, slot, numbers, consumedAt, nextAt>>

\* PROVIDER_ACCEPTED or DELIVERY_UNKNOWN, however long after the claim.
Consume(i) ==
  /\ i \in dispatching
  /\ dispatching' = dispatching \ {i}
  /\ slot' = [slot EXCEPT ![i] = "CONSUMED"]
  /\ consumedAt' = [consumedAt EXCEPT ![i] = now]
  /\ UNCHANGED <<now, numbers, attempts, nextAt>>

\* FAILED_RETRYABLE: the slot stays reserved.
Postpone(i) ==
  /\ i \in dispatching
  /\ dispatching' = dispatching \ {i}
  /\ \E delay \in 0..MaxDelay : nextAt' = [nextAt EXCEPT ![i] = now + delay]
  /\ UNCHANGED <<now, slot, numbers, consumedAt, attempts>>

\* FAILED_FINAL.
Release(i) ==
  /\ i \in dispatching
  /\ dispatching' = dispatching \ {i}
  /\ slot' = [slot EXCEPT ![i] = "RELEASED"]
  /\ UNCHANGED <<now, numbers, consumedAt, attempts, nextAt>>

-----------------------------------------------------------------------------

Next ==
  \/ Tick
  \/ \E i \in Intents :
       \/ Reserve(i) \/ GiveUp(i) \/ Claim(i)
       \/ Consume(i) \/ Postpone(i) \/ Release(i)

Spec == Init /\ [][Next]_vars

-----------------------------------------------------------------------------
(* Properties *)

Sent == {i \in Intents : InWindow(i)}

\* "50 sends per rolling 24 hours": no more than the limit are consumed in
\* any window.
RollingLimit == Cardinality(Sent) <= Limit

\* The window never holds more than one send above the limit.  The one is a
\* dispatch that outlives its reservation: `create` no longer counts it and
\* gives its place away, and then it is consumed all the same.
LimitPlusOne == Cardinality(Sent) <= Limit + 1

\* Two sends of the mailbox are never closer than the minimum interval: the
\* later one in the lane is claimed only when the interval has passed since
\* the earlier one was settled, whatever was retried in between.
SendsAreSpaced ==
  \A i, j \in Intents :
    slot[i] = "CONSUMED" /\ slot[j] = "CONSUMED" /\ lane[i] < lane[j]
      => consumedAt[i] + Interval <= claimedAt[j]

\* The inductive invariant.  Beyond the counted slots there is at most one
\* stray, and it is being dispatched.
Stray == {i \in dispatching : expiresAt[i] <= now}
Held == Used \cup Stray

HeldWithinLimit == Cardinality(Held) <= Limit + 1

DispatchesAreReserved == \A i \in dispatching : slot[i] = "RESERVED"

LanesAreDistinct ==
  /\ \A i \in Intents : lane[i] <= lastLane
  /\ \A i, j \in Intents :
       slot[i] # "NONE" /\ slot[j] # "NONE" /\ lane[i] = lane[j] => i = j

Claimed(i) == i \in dispatching \/ slot[i] = "CONSUMED"

\* Nothing claimed has overtaken a slot that is still reserved.
LaneOrder ==
  \A i, j \in Intents :
    Claimed(i) /\ slot[j] = "RESERVED" => lane[j] >= lane[i]

ClaimsAreSpaced ==
  \A i, j \in Intents :
    slot[i] = "CONSUMED" /\ Claimed(j) /\ lane[i] < lane[j]
      => consumedAt[i] + Interval <= claimedAt[j]

IInv ==
  /\ TypeOK
  /\ DispatchesAreReserved
  /\ LanesAreDistinct
  /\ LaneOrder
  /\ ClaimsAreSpaced
  /\ HeldWithinLimit

-----------------------------------------------------------------------------
(* Without its times this is the lane whose slots GmailSend sends from *)

Mailbox == INSTANCE SlotLane

\* The clock, the limit and the settlements of any length keep the order of
\* the lane and its one dispatch at a time.
LaneKept == Mailbox!Spec
=============================================================================
