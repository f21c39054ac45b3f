------------------------- MODULE MCArticlePublication -------------------------
(* ArticlePublication on a small instance: three publications of an article. *)
EXTENDS ArticlePublication, TLC

CONSTANTS p1, p2, p3, w1, w2, a

ThreeRows == {p1, p2, p3}
TwoWorkers == {w1, w2}

OneArticle == p1 :> a @@ p2 :> a @@ p3 :> a

\* Rows are alike until they are requested, and nothing has to be requested:
\* it is enough to look at the behaviours that request them in this order.
InOrder ==
  /\ status[p2] # "absent" => status[p1] # "absent"
  /\ status[p3] # "absent" => status[p2] # "absent"
=============================================================================
