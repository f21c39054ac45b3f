----------------------------- MODULE MCGmailSend -----------------------------
(* GmailSend on small instances. *)
EXTENDS GmailSend, TLC

CONSTANTS i1, i2

TwoIntents == {i1, i2}
OneIntent == {i1}

AllActivities == Activity
DispatchOnly == {"dispatch"}

\* Intents are interchangeable before they are created.
IntentSymmetry == Permutations(Intents)
=============================================================================
