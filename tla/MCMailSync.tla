------------------------------ MODULE MCMailSync ------------------------------
(* MailSync on two threads of one project and three messages. *)
EXTENDS MailSync, TLC

CONSTANTS t1, t2, p, w1, w2

TwoThreads == {t1, t2}
TwoWorkers == {w1, w2}
OneProject == {p}
Sender == (t1 :> p) @@ (t2 :> p)
Replies == <<t1, t2, t1>>
===============================================================================
