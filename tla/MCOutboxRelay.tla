---------------------------- MODULE MCOutboxRelay ----------------------------
(* OutboxRelay on a small instance. *)
EXTENDS OutboxRelay, TLC

CONSTANTS e1, e2, w1, w2, id

TwoEvents == {e1, e2}
TwoWorkers == {w1, w2}

\* The processes run on two hosts under the same process id.
SharedId == w1 :> id @@ w2 :> id
=============================================================================
