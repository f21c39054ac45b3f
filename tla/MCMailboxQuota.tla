---------------------------- MODULE MCMailboxQuota ----------------------------
(* MailboxQuota on small instances. *)
EXTENDS MailboxQuota, TLC

CONSTANTS i1, i2, i3, i4

FourIntents == {i1, i2, i3, i4}

IntentSymmetry == Permutations(Intents)
=============================================================================
