---------------------------- MODULE EventDelivery ----------------------------
(***************************************************************************)
(* What the transactional outbox promises the two sides of an event: once  *)
(* its row is committed the consumer is called at least once and may be    *)
(* called again at any later time, and the row is only marked published    *)
(* after a call.  Claims, workers, batches and retries are not visible.    *)
(***************************************************************************)

CONSTANT Events

VARIABLE delivery     \* how far each event has got

State == {"absent", "pending", "delivered", "published"}

Become(e, state) == delivery' = [delivery EXCEPT ![e] = state]

Init == delivery = [e \in Events |-> "absent"]

Append(e) == delivery[e] = "absent" /\ Become(e, "pending")

\* A first call; the calls that follow leave the event as it is.
Deliver(e) == delivery[e] = "pending" /\ Become(e, "delivered")

Publish(e) == delivery[e] = "delivered" /\ Become(e, "published")

Next == \E e \in Events : Append(e) \/ Deliver(e) \/ Publish(e)

Spec == Init /\ [][Next]_delivery

\* Everything that was appended is published.
Live == \A e \in Events : (delivery[e] = "pending") ~> (delivery[e] = "published")
=============================================================================
