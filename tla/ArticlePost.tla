----------------------------- MODULE ArticlePost -----------------------------
(***************************************************************************)
(* What publishing promises the team that writes the articles: an article  *)
(* has one post, which keeps its place through updates; a publication is   *)
(* recorded when the post shows the version that was asked for, and given  *)
(* up only when the post still shows the version recorded before.  Rows,   *)
(* workers, leases, retries and requests are not visible here.             *)
(***************************************************************************)
EXTENDS Naturals

CONSTANTS
  Articles,
  Posts         \* names for the posts of the site

VARIABLES
  approved,     \* the version an article is approved at
  wanted,       \* the version whose publication is under way, or 0
  recorded,     \* the version that was published last, or 0
  post,         \* the post of an article
  shown         \* the version it shows, or 0

vars == <<approved, wanted, recorded, post, shown>>

Init ==
  /\ approved = [a \in Articles |-> 1]
  /\ wanted = [a \in Articles |-> 0]
  /\ recorded = [a \in Articles |-> 0]
  /\ post = [a \in Articles |-> "none"]
  /\ shown = [a \in Articles |-> 0]

Approve(a) ==
  /\ approved' = [approved EXCEPT ![a] = @ + 1]
  /\ UNCHANGED <<wanted, recorded, post, shown>>

Ask(a) ==
  /\ wanted[a] = 0
  /\ wanted' = [wanted EXCEPT ![a] = approved[a]]
  /\ UNCHANGED <<approved, recorded, post, shown>>

\* The first publication creates the post, the others update it.
Appear(a) ==
  /\ wanted[a] # 0
  /\ shown' = [shown EXCEPT ![a] = wanted[a]]
  /\ \E q \in Posts :
       /\ post[a] \in {"none", q}
       /\ post' = [post EXCEPT ![a] = q]
  /\ UNCHANGED <<approved, wanted, recorded>>

Record(a) ==
  /\ wanted[a] # 0 /\ shown[a] = wanted[a]
  /\ recorded' = [recorded EXCEPT ![a] = wanted[a]]
  /\ wanted' = [wanted EXCEPT ![a] = 0]
  /\ UNCHANGED <<approved, post, shown>>

GiveUp(a) ==
  /\ wanted[a] # 0 /\ shown[a] = recorded[a]
  /\ wanted' = [wanted EXCEPT ![a] = 0]
  /\ UNCHANGED <<approved, recorded, post, shown>>

Next ==
  \E a \in Articles :
    Approve(a) \/ Ask(a) \/ Appear(a) \/ Record(a) \/ GiveUp(a)

Spec == Init /\ [][Next]_vars
=============================================================================
