------------------------------- MODULE SlotLane -------------------------------
(***************************************************************************)
(* What the quota promises the sender of a mailbox: every e-mail takes a   *)
(* slot at the end of one lane; one slot is dispatched at a time, and only *)
(* when no slot before it is still reserved; an attempt that may be        *)
(* repeated leaves the slot its place, and what is consumed or released    *)
(* stays so.  Times, workflow runs and Gmail are not visible here.         *)
(***************************************************************************)
EXTENDS Naturals

CONSTANTS Intents, MaxAttempts

VARIABLES
  slot,         \* the state of an intent's slot
  lane,         \* its number in the lane
  lastLane,     \* the number given last
  attemptNo,    \* how often the intent was dispatched
  dispatching   \* the intent that is being dispatched, as a set

vars == <<slot, lane, lastLane, attemptNo, dispatching>>

Init ==
  /\ slot = [i \in Intents |-> "NONE"]
  /\ lane = [i \in Intents |-> 0]
  /\ lastLane = 0
  /\ attemptNo = [i \in Intents |-> 0]
  /\ dispatching = {}

Reserve(i) ==
  /\ slot[i] = "NONE"
  /\ slot' = [slot EXCEPT ![i] = "RESERVED"]
  /\ lane' = [lane EXCEPT ![i] = lastLane + 1]
  /\ lastLane' = lastLane + 1
  /\ UNCHANGED <<attemptNo, dispatching>>

Claim(i) ==
  /\ dispatching = {}
  /\ slot[i] = "RESERVED"
  /\ \A j \in Intents : slot[j] = "RESERVED" => lane[j] >= lane[i]
  /\ attemptNo[i] < MaxAttempts
  /\ attemptNo' = [attemptNo EXCEPT ![i] = @ + 1]
  /\ dispatching' = {i}
  /\ UNCHANGED <<slot, lane, lastLane>>

Settle(i) ==
  /\ dispatching = {i}
  /\ dispatching' = {}
  /\ \E s \in {"RESERVED", "CONSUMED", "RELEASED"} :
       slot' = [slot EXCEPT ![i] = s]
  /\ UNCHANGED <<lane, lastLane, attemptNo>>

GiveUp(i) ==
  /\ slot[i] = "RESERVED" /\ i \notin dispatching
  /\ slot' = [slot EXCEPT ![i] = "RELEASED"]
  /\ UNCHANGED <<lane, lastLane, attemptNo, dispatching>>

Next == \E i \in Intents : Reserve(i) \/ Claim(i) \/ Settle(i) \/ GiveUp(i)

Spec == Init /\ [][Next]_vars
=============================================================================
