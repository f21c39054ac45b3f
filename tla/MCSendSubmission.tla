--------------------------- MODULE MCSendSubmission ---------------------------
(* SendSubmission on three requests. *)
EXTENDS SendSubmission, TLC

CONSTANTS r1, r2, r3, contact, d1, d2, mailA, mailB, k1, k2

ThreeRequests == {r1, r2, r3}

Pairs(a, b, c) == (r1 :> a) @@ (r2 :> b) @@ (r3 :> c)

\* r1 and r2 ask for one message from two mailboxes; r3 reuses the key of r2
\* for another draft to the same contact.
RaceKeys == Pairs(k1, k2, k2)
RaceDrafts == Pairs(d1, d1, d2)
RaceMailboxes == Pairs(mailA, mailB, mailB)
OneContact == Pairs(contact, contact, contact)
AllInitial == Pairs("INITIAL_OUTREACH", "INITIAL_OUTREACH", "INITIAL_OUTREACH")
=============================================================================
