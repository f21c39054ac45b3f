-------------------------- MODULE MailboxQuotaProofs --------------------------
(***************************************************************************)
(* The limit, the lane and the spacing of MailboxQuota, for every set of   *)
(* intents and every quota profile.                                        *)
(***************************************************************************)
EXTENDS MailboxQuota, FiniteSetTheorems, TLAPS

USE ProfileAssumption

LEMMA TypeStep == TypeOK /\ [Next]_vars => TypeOK'
<1> SUFFICES ASSUME TypeOK, [Next]_vars PROVE TypeOK'
  OBVIOUS
<1> USE DEF TypeOK, Slot, numbers, attempts
<1>1. CASE Tick BY <1>1 DEF Tick
<1>2. ASSUME NEW i \in Intents, Reserve(i) PROVE TypeOK'
  <2>1. NextEligible \cup {now} \subseteq Nat
    BY DEF NextEligible, Used
  <2>2. PICK at \in Nat :
          /\ eligibleAt' = [eligibleAt EXCEPT ![i] = at]
          /\ expiresAt' = [expiresAt EXCEPT ![i] = at + Ttl]
          /\ nextAt' = [nextAt EXCEPT ![i] = at]
    BY <1>2, <2>1 DEF Reserve
  <2> QED BY <1>2, <2>2 DEF Reserve
<1>3. ASSUME NEW i \in Intents, GiveUp(i) PROVE TypeOK'
  BY <1>3 DEF GiveUp
<1>4. ASSUME NEW i \in Intents, Claim(i) PROVE TypeOK'
  BY <1>4 DEF Claim
<1>5. ASSUME NEW i \in Intents, Consume(i) PROVE TypeOK'
  BY <1>5 DEF Consume
<1>6. ASSUME NEW i \in Intents, Postpone(i) PROVE TypeOK'
  <2>1. PICK delay \in 0..MaxDelay : nextAt' = [nextAt EXCEPT ![i] = now + delay]
    BY <1>6 DEF Postpone
  <2> QED BY <1>6, <2>1 DEF Postpone
<1>7. ASSUME NEW i \in Intents, Release(i) PROVE TypeOK'
  BY <1>7 DEF Release
<1>8. CASE UNCHANGED vars BY <1>8 DEF vars
<1> QED BY <1>1, <1>2, <1>3, <1>4, <1>5, <1>6, <1>7, <1>8 DEF Next

-----------------------------------------------------------------------------
(* The lane *)

Lane == DispatchesAreReserved /\ LanesAreDistinct /\ LaneOrder /\ ClaimsAreSpaced

LEMMA LaneStep == TypeOK /\ Lane /\ [Next]_vars => Lane'
<1> SUFFICES ASSUME TypeOK, Lane, [Next]_vars PROVE Lane'
  OBVIOUS
<1> USE DEF Lane, TypeOK, Slot, numbers, attempts, DispatchesAreReserved,
            LanesAreDistinct, LaneOrder, ClaimsAreSpaced, Claimed
<1>1. CASE Tick BY <1>1 DEF Tick
<1>2. ASSUME NEW i \in Intents, Reserve(i) PROVE Lane'
  <2>1. /\ slot[i] = "NONE" /\ slot' = [slot EXCEPT ![i] = "RESERVED"]
        /\ lastLane' = lastLane + 1 /\ lane' = [lane EXCEPT ![i] = lastLane + 1]
        /\ UNCHANGED <<consumedAt, dispatching, claimedAt>>
    BY <1>2 DEF Reserve
  <2>2. i \notin dispatching
    BY <2>1
  <2>3. DispatchesAreReserved' BY <2>1, <2>2
  <2>4. LanesAreDistinct' BY <2>1
  <2>5. LaneOrder' BY <2>1, <2>2
  <2>6. ClaimsAreSpaced' BY <2>1, <2>2
  <2> QED BY <2>3, <2>4, <2>5, <2>6
<1>3. ASSUME NEW i \in Intents, GiveUp(i) PROVE Lane'
  BY <1>3 DEF GiveUp, Waiting
<1>4. ASSUME NEW i \in Intents, Claim(i) PROVE Lane'
  <2>1. /\ slot[i] = "RESERVED"
        /\ \A j \in Intents :
             /\ slot[j] = "RESERVED" => lane[j] >= lane[i]
             /\ slot[j] = "CONSUMED" => consumedAt[j] + Interval <= now
        /\ dispatching' = dispatching \cup {i}
        /\ claimedAt' = [claimedAt EXCEPT ![i] = now]
        /\ UNCHANGED <<slot, lane, lastLane, consumedAt>>
    BY <1>4 DEF Claim, Waiting, LaneFree
  <2>2. DispatchesAreReserved' /\ LanesAreDistinct' BY <2>1
  <2>3. LaneOrder' BY <2>1
  <2>4. ClaimsAreSpaced' BY <2>1
  <2> QED BY <2>2, <2>3, <2>4
<1>5. ASSUME NEW i \in Intents, Consume(i) PROVE Lane'
  <2>1. /\ i \in dispatching /\ slot[i] = "RESERVED"
        /\ dispatching' = dispatching \ {i}
        /\ slot' = [slot EXCEPT ![i] = "CONSUMED"]
        /\ consumedAt' = [consumedAt EXCEPT ![i] = now]
        /\ UNCHANGED <<lane, lastLane, claimedAt>>
    BY <1>5 DEF Consume
  <2>2. DispatchesAreReserved' /\ LanesAreDistinct' BY <2>1
  <2>3. LaneOrder' BY <2>1
  <2>4. \A j \in Intents : Claimed(j)' => Claimed(j)
    BY <2>1
  \* Nobody behind a slot in dispatch has been claimed.
  <2>5. \A j \in Intents : Claimed(j) => lane[j] <= lane[i]
    BY <2>1
  <2>6. ClaimsAreSpaced' BY <2>1, <2>4, <2>5
  <2> QED BY <2>2, <2>3, <2>6
<1>6. ASSUME NEW i \in Intents, Postpone(i) PROVE Lane'
  BY <1>6 DEF Postpone
<1>7. ASSUME NEW i \in Intents, Release(i) PROVE Lane'
  BY <1>7 DEF Release
<1>8. CASE UNCHANGED vars BY <1>8 DEF vars
<1> QED BY <1>1, <1>2, <1>3, <1>4, <1>5, <1>6, <1>7, <1>8 DEF Next

-----------------------------------------------------------------------------
(* The limit *)

\* One dispatch at a time: each would be in front of the other in the lane.
LEMMA AtMostOneDispatch ==
  ASSUME TypeOK, Lane, NEW i \in dispatching, NEW j \in dispatching
  PROVE  i = j
<1>1. lane[j] >= lane[i] /\ lane[i] >= lane[j]
  BY DEF TypeOK, Lane, DispatchesAreReserved, LaneOrder, Claimed
<1>2. lane[i] \in Nat /\ lane[j] \in Nat
  BY DEF TypeOK
<1>3. lane[i] = lane[j]
  BY <1>1, <1>2
<1> QED BY <1>3 DEF TypeOK, Lane, DispatchesAreReserved, LanesAreDistinct

LEMMA HeldFinite == TypeOK => Held \subseteq Intents /\ IsFiniteSet(Held)
<1> SUFFICES ASSUME TypeOK PROVE Held \subseteq Intents /\ IsFiniteSet(Held)
  OBVIOUS
<1>1. Held \subseteq Intents
  BY DEF TypeOK, Held, Used, Stray
<1> QED BY <1>1, IntentsAssumption, FS_Subset

\* Only a reservation adds to the slots that are held; time only turns a
\* counted slot into a stray.
LEMMA HeldShrinks ==
  ASSUME TypeOK, Lane, [Next]_vars, ~\E i \in Intents : Reserve(i)
  PROVE  Held' \subseteq Held
<1> USE DEF TypeOK, Slot, Lane, DispatchesAreReserved, Held, Used, Stray, InWindow,
            numbers, attempts
<1>1. CASE Tick BY <1>1 DEF Tick
<1>2. ASSUME NEW i \in Intents, GiveUp(i) PROVE Held' \subseteq Held
  BY <1>2 DEF GiveUp, Waiting
<1>3. ASSUME NEW i \in Intents, Claim(i) PROVE Held' \subseteq Held
  BY <1>3 DEF Claim, Waiting, Live
<1>4. ASSUME NEW i \in Intents, Consume(i) PROVE Held' \subseteq Held
  BY <1>4 DEF Consume
<1>5. ASSUME NEW i \in Intents, Postpone(i) PROVE Held' \subseteq Held
  BY <1>5 DEF Postpone
<1>6. ASSUME NEW i \in Intents, Release(i) PROVE Held' \subseteq Held
  BY <1>6 DEF Release
<1>7. CASE UNCHANGED vars BY <1>7 DEF vars
<1> QED BY <1>1, <1>2, <1>3, <1>4, <1>5, <1>6, <1>7 DEF Next

LEMMA ReserveKeepsLimit ==
  ASSUME TypeOK, Lane, NEW i \in Intents, Reserve(i), TypeOK'
  PROVE  HeldWithinLimit'
<1>1. IsFiniteSet(Used) /\ Cardinality(Used) \in Nat /\ Cardinality(Used) < Limit
  <2>1. Used \in SUBSET Intents
    BY DEF Used
  <2>2. IsFiniteSet(Used)
    BY <2>1, IntentsAssumption, FS_Subset
  <2> QED BY <2>2, FS_CardinalityType DEF Reserve, QuotaLeft
<1>2. Stray' \subseteq Stray
  BY DEF Reserve, Stray, TypeOK, Lane, DispatchesAreReserved, Slot
<1>3. Used' \subseteq Used \cup {i}
  BY DEF Reserve, Used, InWindow, TypeOK, Slot
<1>4. PICK x : Stray \subseteq {x}
  BY AtMostOneDispatch DEF Stray
<1>5. Held' \in SUBSET ((Used \cup {i}) \cup {x})
  BY <1>2, <1>3, <1>4 DEF Held
<1>6. IsFiniteSet(Used \cup {i}) /\ Cardinality(Used \cup {i}) <= Limit
  <2>1. Cardinality(Used \cup {i}) \in {Cardinality(Used), Cardinality(Used) + 1}
    BY <1>1, FS_AddElement
  <2> QED BY <1>1, <2>1, FS_AddElement
<1>7. Cardinality(Used \cup {i}) \in Nat
  BY <1>6, FS_CardinalityType
<1>8. /\ IsFiniteSet((Used \cup {i}) \cup {x})
      /\ Cardinality((Used \cup {i}) \cup {x}) <= Limit + 1
  BY <1>6, <1>7, FS_AddElement
<1>9. /\ IsFiniteSet(Held')
      /\ Cardinality(Held') <= Cardinality((Used \cup {i}) \cup {x})
  BY <1>5, <1>8, FS_Subset
<1>10. Cardinality(Held') \in Nat /\ Cardinality((Used \cup {i}) \cup {x}) \in Nat
  BY <1>8, <1>9, FS_CardinalityType
<1> QED BY <1>8, <1>9, <1>10 DEF HeldWithinLimit

LEMMA LimitStep ==
  TypeOK /\ TypeOK' /\ Lane /\ HeldWithinLimit /\ [Next]_vars => HeldWithinLimit'
<1> SUFFICES ASSUME TypeOK, TypeOK', Lane, HeldWithinLimit, [Next]_vars
             PROVE  HeldWithinLimit'
  OBVIOUS
<1>1. CASE \E i \in Intents : Reserve(i)
  BY <1>1, ReserveKeepsLimit
<1>2. CASE ~\E i \in Intents : Reserve(i)
  <2>1. IsFiniteSet(Held) /\ Cardinality(Held) \in Nat
    BY HeldFinite, FS_CardinalityType
  <2>2. Held' \in SUBSET Held
    BY <1>2, HeldShrinks
  <2>3. IsFiniteSet(Held') /\ Cardinality(Held') <= Cardinality(Held)
    BY <2>1, <2>2, FS_Subset
  <2>4. Cardinality(Held') \in Nat
    BY <2>3, FS_CardinalityType
  <2> QED BY <2>1, <2>3, <2>4 DEF HeldWithinLimit
<1> QED BY <1>1, <1>2

-----------------------------------------------------------------------------

LEMMA InitEstablishes == Init => IInv
<1> SUFFICES ASSUME Init PROVE IInv
  OBVIOUS
<1>1. TypeOK /\ Lane
  BY DEF Init, TypeOK, Slot, Lane, DispatchesAreReserved, LanesAreDistinct,
         LaneOrder, ClaimsAreSpaced, Claimed
<1>2. Held = {}
  BY DEF Init, Held, Used, Stray, InWindow
<1>3. HeldWithinLimit
  BY <1>2, FS_EmptySet DEF HeldWithinLimit
<1> QED BY <1>1, <1>3 DEF IInv, Lane

\* For any number of intents and any quota profile: one dispatch at a time,
\* in the order of the lane, and of the slots that count or will count in
\* the window at most one above the limit.
THEOREM QuotaInvariant == Spec => []IInv
<1>1. IInv /\ [Next]_vars => IInv'
  BY TypeStep, LaneStep, LimitStep DEF IInv, Lane
<1> QED BY <1>1, InitEstablishes, PTL DEF Spec

\* The rolling window never exceeds the limit by more than one send.
THEOREM WindowBound == Spec => []LimitPlusOne
<1>1. IInv => LimitPlusOne
  <2> SUFFICES ASSUME IInv PROVE LimitPlusOne
    OBVIOUS
  <2>1. IsFiniteSet(Held) /\ Cardinality(Held) \in Nat
    BY HeldFinite, FS_CardinalityType DEF IInv
  <2>2. Sent \in SUBSET Held
    BY DEF Sent, Held, Used
  <2>3. IsFiniteSet(Sent) /\ Cardinality(Sent) <= Cardinality(Held)
    BY <2>1, <2>2, FS_Subset
  <2>4. Cardinality(Sent) \in Nat
    BY <2>3, FS_CardinalityType
  <2> QED BY <2>1, <2>3, <2>4 DEF IInv, HeldWithinLimit, LimitPlusOne
<1> QED BY <1>1, QuotaInvariant, PTL

\* Sends of one mailbox are apart by the minimum interval.
THEOREM Spacing == Spec => []SendsAreSpaced
<1>1. IInv => SendsAreSpaced
  BY DEF IInv, ClaimsAreSpaced, Claimed, SendsAreSpaced
<1> QED BY <1>1, QuotaInvariant, PTL

-----------------------------------------------------------------------------
(* The lane of SlotLane: times and quota only restrict its steps *)

LEMMA InitLane == Init => Mailbox!Init
  BY DEF Init, Mailbox!Init

\* A slot in dispatch is still reserved, so whoever is in front of it in the
\* lane is that slot itself.
LEMMA ClaimsOneByOne ==
  ASSUME TypeOK, Lane, NEW i \in Intents, Waiting(i), LaneFree(i)
  PROVE  dispatching = {}
<1> SUFFICES ASSUME NEW j \in dispatching PROVE FALSE
  OBVIOUS
<1>1. j \in Intents /\ slot[j] = "RESERVED" /\ slot[i] = "RESERVED"
  BY DEF TypeOK, Lane, DispatchesAreReserved, Waiting
<1>2. lane[j] >= lane[i] /\ lane[i] >= lane[j]
  BY <1>1 DEF Lane, LaneOrder, LaneFree, Claimed
<1>3. lane[i] \in Nat /\ lane[j] \in Nat
  BY <1>1 DEF TypeOK
<1>4. lane[i] = lane[j]
  BY <1>2, <1>3
<1>5. i = j
  BY <1>1, <1>4 DEF Lane, LanesAreDistinct
<1> QED BY <1>5 DEF Waiting

LEMMA LaneNext ==
  TypeOK /\ Lane /\ [Next]_vars => [Mailbox!Next]_(Mailbox!vars)
<1> SUFFICES ASSUME TypeOK, Lane, [Next]_vars
             PROVE  [Mailbox!Next]_(Mailbox!vars)
  OBVIOUS
<1>1. CASE Tick \/ UNCHANGED vars
  BY <1>1 DEF Tick, vars, numbers, attempts, Mailbox!vars
<1>2. ASSUME NEW i \in Intents, Reserve(i) PROVE Mailbox!Reserve(i)
  BY <1>2 DEF Reserve, attempts, Mailbox!Reserve
<1>3. ASSUME NEW i \in Intents, GiveUp(i) PROVE Mailbox!GiveUp(i)
  BY <1>3 DEF GiveUp, Waiting, numbers, attempts, Mailbox!GiveUp
<1>4. ASSUME NEW i \in Intents, Claim(i) PROVE Mailbox!Claim(i)
  <2>1. dispatching = {}
    BY <1>4, ClaimsOneByOne DEF Claim
  <2> QED BY <1>4, <2>1 DEF Claim, Waiting, LaneFree, numbers, Mailbox!Claim
<1>5. ASSUME NEW i \in Intents, Consume(i) \/ Postpone(i) \/ Release(i)
      PROVE  Mailbox!Settle(i)
  <2>1. i \in dispatching /\ dispatching' = dispatching \ {i}
    BY <1>5 DEF Consume, Postpone, Release
  <2>2. dispatching = {i} /\ dispatching' = {}
    BY <2>1, AtMostOneDispatch
  <2>3. slot[i] = "RESERVED" /\ slot \in [Intents -> Slot]
    BY <2>1 DEF Lane, DispatchesAreReserved, TypeOK
  <2>4. slot = [slot EXCEPT ![i] = "RESERVED"]
    BY <2>3
  <2>5. \E s \in {"RESERVED", "CONSUMED", "RELEASED"} :
          slot' = [slot EXCEPT ![i] = s]
    BY <1>5, <2>4 DEF Consume, Postpone, Release
  <2> QED BY <1>5, <2>2, <2>5
          DEF Consume, Postpone, Release, numbers, attempts, Mailbox!Settle
<1> QED BY <1>1, <1>2, <1>3, <1>4, <1>5 DEF Next, Mailbox!Next

\* Every step of the timed quota is a step of the lane or none of its
\* business, for every profile.
THEOREM KeepsLane == Spec => LaneKept
<1>1. IInv /\ [Next]_vars => [Mailbox!Next]_(Mailbox!vars)
  BY LaneNext DEF IInv, Lane
<1> QED BY <1>1, InitLane, QuotaInvariant, PTL
        DEF Spec, LaneKept, Mailbox!Spec
=============================================================================
