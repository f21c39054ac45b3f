-------------------------- MODULE ArticlePublication --------------------------
(***************************************************************************)
(* Publishing articles to a WordPress site: the rows of                    *)
(* article_publications, the orchestrators that claim and execute them     *)
(* under a lease, the operator's commands, and the site.                   *)
(*                                                                         *)
(* A row is claimed by one worker at a time, and taken over when its lease *)
(* has expired.  Before the request to the site the row is staged; a       *)
(* worker that takes over a staged row looks for the post and never sends. *)
(* A request whose result is unknown leaves the row `uncertain`, for an    *)
(* operator to reconcile with the site.                                    *)
(***************************************************************************)
EXTENDS FiniteSets, Naturals

CONSTANTS
  Publications, \* rows of article_publications
  Articles,
  ArticleOf,    \* article_id
  Workers,      \* the processes that run the orchestrator
  Limit,        \* rows of one claim
  Decisive,     \* the site acts on a request before the client's time limit
                \* or never, and an error or unreadable answer means never
  Prompt,       \* a request is over before the lease renewed for it expires,
                \* and before an operator reconciles its row
  Disconnects,  \* the connection may be removed while a request is pending
  MaxVersion,   \* bound: approved versions
  MaxTroubles   \* bound: crashes, deferrals and leases outlived by their work

ASSUME PublicationAssumption ==
  /\ ArticleOf \in [Publications -> Articles]
  /\ "none" \notin Publications \cup Workers
  /\ {Decisive, Prompt, Disconnects} \subseteq BOOLEAN
ASSUME BoundAssumption == {Limit, MaxVersion, MaxTroubles} \subseteq Nat

VARIABLES
  status,    \* the row's status; "queued" covers scheduled, which is due at
             \* some later moment
  version,   \* version_number
  owner,     \* lease_owner
  expired,   \* rows with lease_expires_at < now
  staged,    \* rows whose remote_submission_stage is "pending"
  remote,    \* remote_post_id: a post has the name of the row that created it
  approved,  \* approved_version_number of each article
  latest,    \* the row of each article with the latest published_at
  batch,     \* rows a worker has claimed and not yet taken up
  run,       \* what a worker is executing
  sent,      \* requests to the site made for a row
  call,      \* the last of them
  shows,     \* the version a post shows
  troubles

row == <<status, version, owner, expired, staged, remote, latest>>
site == <<sent, call, shows>>
vars == <<row, approved, batch, run, site, troubles>>

Status == {"absent", "queued", "submitting", "published", "failed",
           "uncertain", "cancelled"}
Active == {"queued", "submitting", "uncertain"}

Idle == [at |-> "idle"]
Step == [at : {"recover", "gate", "media", "stage", "publish", "await"},
         pub : Publications]
Probing == [at : {"probe"}, pub : Publications, pending : BOOLEAN]
Failing == [at : {"fail"}, pub : Publications, uncertain : BOOLEAN]
Finishing == [at : {"finish"}, pub : Publications, post : Publications]

TypeOK ==
  /\ status \in [Publications -> Status]
  /\ version \in [Publications -> Nat]
  /\ owner \in [Publications -> Workers \cup {"none"}]
  /\ expired \subseteq Publications
  /\ staged \subseteq Publications
  /\ remote \in [Publications -> Publications \cup {"none"}]
  /\ approved \in [Articles -> Nat]
  /\ latest \in [Articles -> Publications \cup {"none"}]
  /\ batch \in [Workers -> SUBSET Publications]
  /\ run \in [Workers -> {Idle} \cup Step \cup Probing \cup Failing \cup Finishing]
  /\ sent \in [Publications -> Nat]
  /\ call \in [Publications -> {"none", "open", "done", "void"}]
  /\ shows \in [Publications -> Nat]
  /\ troubles \in Nat

Init ==
  /\ status = [p \in Publications |-> "absent"]
  /\ version = [p \in Publications |-> 0]
  /\ owner = [p \in Publications |-> "none"]
  /\ expired = {}
  /\ staged = {}
  /\ remote = [p \in Publications |-> "none"]
  /\ approved = [a \in Articles |-> 1]
  /\ latest = [a \in Articles |-> "none"]
  /\ batch = [w \in Workers |-> {}]
  /\ run = [w \in Workers |-> Idle]
  /\ sent = [p \in Publications |-> 0]
  /\ call = [p \in Publications |-> "none"]
  /\ shows = [p \in Publications |-> 0]
  /\ troubles = 0

-----------------------------------------------------------------------------
(* The operator's commands *)

Siblings(p) == {q \in Publications : ArticleOf[q] = ArticleOf[p]}

\* Faulty: an uncertain publication does not block the next one.
UnblockedFaulty(p) ==
  \A q \in Siblings(p) : status[q] \notin {"queued", "submitting"}

Unblocked(p) == \A q \in Siblings(p) : status[q] \notin Active

\* create_publication, and retry_publication, which asks for the version of
\* a failed row.  The row of an article that was published before updates
\* its post.
Request(p) ==
  LET previous == latest[ArticleOf[p]] IN
  /\ status[p] = "absent"
  /\ Unblocked(p)
  /\ status' = [status EXCEPT ![p] = "queued"]
  /\ version' = [version EXCEPT ![p] = approved[ArticleOf[p]]]
  /\ remote' = [remote EXCEPT ![p] = IF previous = "none" THEN "none"
                                     ELSE remote[previous]]
  /\ UNCHANGED <<owner, expired, staged, latest, approved, batch, run, site,
                 troubles>>

Cancel(p) ==
  /\ status[p] = "queued"
  /\ status' = [status EXCEPT ![p] = "cancelled"]
  /\ UNCHANGED <<version, owner, expired, staged, remote, latest, approved,
                 batch, run, site, troubles>>

\* The review approves another version.  An approval that is withdrawn only
\* fails the gate, which may fail anyway.
Approve(a) ==
  /\ approved[a] < MaxVersion
  /\ approved' = [approved EXCEPT ![a] = @ + 1]
  /\ UNCHANGED <<row, batch, run, site, troubles>>

\* The post of an update, or any post of the article, found by its slug.
Found(p) ==
  IF remote[p] # "none" THEN {remote[p]}
  ELSE {q \in Siblings(p) : shows[q] # 0}

\* Faulty: a post that is found need not show what was asked for.
ShowsFaulty(p, q) == shows[q] # 0

Shows(p, q) == shows[q] = version[p]

Publish(p, q) ==
  /\ status' = [status EXCEPT ![p] = "published"]
  /\ remote' = [remote EXCEPT ![p] = q]
  /\ latest' = [latest EXCEPT ![ArticleOf[p]] = p]

\* From the renewal of the lease that precedes a request to the request's end.
Asking(p) ==
  \/ call[p] = "open"
  \/ \E w \in Workers, at \in {"stage", "publish"} :
       run[w] = [at |-> at, pub |-> p]

\* The lookup and the mark are one step: a post that appears in between is
\* one that appears later.
Reconcile(p) ==
  /\ status[p] = "uncertain"
  /\ Prompt => ~Asking(p)
  /\ \/ \E q \in Found(p) : Shows(p, q) /\ Publish(p, q)
     \/ /\ Found(p) = {}
        /\ status' = [status EXCEPT ![p] = "failed"]
        /\ UNCHANGED <<remote, latest>>
  /\ UNCHANGED <<version, owner, expired, staged, approved, batch, run, site,
                 troubles>>

-----------------------------------------------------------------------------
(* Claims and leases *)

\* Faulty: a row whose lease has expired is not taken over.
ClaimableFaulty(p) == status[p] = "queued"

Claimable(p) ==
  \/ status[p] = "queued"
  \/ status[p] = "submitting" /\ p \in expired

\* Rows that another claim has locked are skipped.
ClaimDue(w, ps) ==
  /\ run[w] = Idle /\ batch[w] = {}
  /\ ps # {} /\ Cardinality(ps) <= Limit
  /\ \A p \in ps : Claimable(p)
  /\ status' = [p \in Publications |-> IF p \in ps THEN "submitting" ELSE status[p]]
  /\ owner' = [p \in Publications |-> IF p \in ps THEN w ELSE owner[p]]
  /\ expired' = expired \ ps
  /\ batch' = [batch EXCEPT ![w] = ps]
  /\ UNCHANGED <<version, staged, remote, latest, approved, run, site, troubles>>

HasLease(w, p) == status[p] = "submitting" /\ owner[p] = w

Executing(w) == IF run[w] = Idle THEN {} ELSE {run[w].pub}

Abandoned(p) ==
  \A w \in Workers : owner[p] = w => p \notin batch[w] \cup Executing(w)

Expire(p) ==
  /\ status[p] = "submitting" /\ p \notin expired
  /\ Prompt => ~Asking(p)
  /\ expired' = expired \cup {p}
  /\ UNCHANGED <<status, version, owner, staged, remote, latest, approved,
                 batch, run, site>>

ExpireAbandoned(p) == Expire(p) /\ Abandoned(p) /\ UNCHANGED troubles

Trouble == troubles < MaxTroubles /\ troubles' = troubles + 1

Overrun(p) == Expire(p) /\ ~Abandoned(p) /\ Trouble

\* The process stops, or an exception leaves the loop.  A restarted process
\* has a new id, but nothing is executed under the old one either.
Crash(w) ==
  /\ run[w] # Idle \/ batch[w] # {}
  /\ run' = [run EXCEPT ![w] = Idle]
  /\ batch' = [batch EXCEPT ![w] = {}]
  /\ Trouble
  /\ UNCHANGED <<row, approved, site>>

-----------------------------------------------------------------------------
(* execute, one transaction or request at a time *)

Goto(w, r) == run' = [run EXCEPT ![w] = r] /\ UNCHANGED batch

Pub(w) == run[w].pub
ToFail(w, uncertain) ==
  Goto(w, [at |-> "fail", pub |-> Pub(w), uncertain |-> uncertain])
ToStep(w, step) == Goto(w, [at |-> step, pub |-> Pub(w)])

Begin(w, p) ==
  /\ run[w] = Idle /\ p \in batch[w]
  /\ batch' = [batch EXCEPT ![w] = @ \ {p}]
  /\ run' = [run EXCEPT ![w] =
       IF HasLease(w, p)
       THEN [at |-> "probe", pub |-> p, pending |-> p \in staged]
       ELSE [at |-> "fail", pub |-> p, uncertain |-> FALSE]]
  /\ UNCHANGED <<row, approved, site, troubles>>

\* Faulty: the staged submission is not looked at.
AfterProbeFaulty(pending) == "gate"

AfterProbe(pending) == IF pending THEN "recover" ELSE "gate"

\* A connection that is gone is a plain failure, even of a pending request.
Probe(w) ==
  /\ run[w].at = "probe"
  /\ \/ ToStep(w, AfterProbe(run[w].pending))
     \/ ToFail(w, run[w].pending)
     \/ run[w].pending /\ Disconnects /\ ToFail(w, FALSE)
  /\ UNCHANGED <<row, approved, site, troubles>>

Recover(w) ==
  /\ run[w].at = "recover"
  /\ \/ \E q \in Found(Pub(w)) :
          /\ Shows(Pub(w), q)
          /\ Goto(w, [at |-> "finish", pub |-> Pub(w), post |-> q])
     \/ ToFail(w, TRUE)
  /\ UNCHANGED <<row, approved, site, troubles>>

RecheckGate(w) ==
  /\ run[w].at = "gate"
  /\ \/ /\ HasLease(w, Pub(w))
        /\ version[Pub(w)] = approved[ArticleOf[Pub(w)]]
        /\ ToStep(w, "media")
     \/ ToFail(w, FALSE)
  /\ UNCHANGED <<row, approved, site, troubles>>

Renew(w) == HasLease(w, Pub(w)) /\ expired' = expired \ {Pub(w)}

\* The assets are uploaded one by one, the lease is renewed before each and
\* after the last; an upload fails, or its result is unknown.
SyncAssets(w) ==
  /\ run[w].at = "media"
  /\ \/ Renew(w) /\ ToStep(w, "stage")
     \/ /\ Renew(w) \/ UNCHANGED expired
        /\ \E uncertain \in BOOLEAN : ToFail(w, uncertain)
  /\ UNCHANGED <<status, version, owner, staged, remote, latest, approved,
                 site, troubles>>

\* An asset is being uploaded by another worker: the lease is left behind.
Defer(w) ==
  /\ run[w].at = "media"
  /\ Renew(w) \/ UNCHANGED expired
  /\ Goto(w, Idle)
  /\ Trouble
  /\ UNCHANGED <<status, version, owner, staged, remote, latest, approved,
                 site>>

\* The commit may go unanswered.
StageSubmission(w) ==
  /\ run[w].at = "stage"
  /\ \/ /\ HasLease(w, Pub(w))
        /\ staged' = staged \cup {Pub(w)}
        /\ ToStep(w, "publish") \/ ToFail(w, TRUE)
     \/ ~HasLease(w, Pub(w)) /\ ToFail(w, FALSE) /\ UNCHANGED staged
  /\ UNCHANGED <<status, version, owner, expired, remote, latest, approved,
                 site, troubles>>

\* The site's address may be rejected before anything is sent.
SendRequest(w) ==
  /\ run[w].at = "publish"
  /\ \/ /\ ToStep(w, "await")
        /\ sent' = [sent EXCEPT ![Pub(w)] = @ + 1]
        /\ call' = [call EXCEPT ![Pub(w)] = "open"]
     \/ ToFail(w, FALSE) /\ UNCHANGED <<sent, call>>
  /\ UNCHANGED <<row, approved, shows, troubles>>

PostOf(p) == IF remote[p] = "none" THEN p ELSE remote[p]

Accepted(w) ==
  /\ call[Pub(w)] = "done"
  /\ Goto(w, [at |-> "finish", pub |-> Pub(w), post |-> PostOf(Pub(w))])

\* An HTTP error, or an answer that is too large or cannot be read.
Rejected(w) ==
  /\ Decisive => call[Pub(w)] = "void"
  /\ ToFail(w, FALSE)

\* Faulty: a timeout is a failure like any other.
TimedOutFaulty(w) == (Decisive => call[Pub(w)] # "open") /\ ToFail(w, FALSE)

TimedOut(w) ==
  /\ Decisive => call[Pub(w)] # "open"
  /\ ToFail(w, TRUE)

Await(w) ==
  /\ run[w].at = "await"
  /\ Accepted(w) \/ Rejected(w) \/ TimedOut(w)
  /\ UNCHANGED <<row, approved, site, troubles>>

\* finish_publication; the commit may go unanswered.
Finish(w) ==
  LET p == Pub(w) IN
  /\ run[w].at = "finish"
  /\ \/ status[p] = "published" /\ Goto(w, Idle) /\ UNCHANGED row
     \/ /\ status[p] # "published" /\ ~HasLease(w, p)
        /\ ToFail(w, FALSE) /\ UNCHANGED row
     \/ /\ HasLease(w, p)
        /\ Publish(p, run[w].post)
        /\ owner' = [owner EXCEPT ![p] = "none"]
        /\ expired' = expired \ {p}
        /\ Goto(w, Idle) \/ ToFail(w, TRUE)
        /\ UNCHANGED <<version, staged>>
  /\ UNCHANGED <<approved, site, troubles>>

\* A database error in any transaction of execute.
Breaks(w) ==
  /\ run[w] # Idle /\ run[w].at \notin {"fail", "await"}
  /\ ToFail(w, TRUE)
  /\ UNCHANGED <<row, approved, site, troubles>>

\* Faulty: neither the status of the row nor its owner is looked at.
FailFaulty(w) ==
  LET p == Pub(w) IN
  /\ run[w].at = "fail"
  /\ run' = [run EXCEPT ![w] = Idle]
  /\ status' = [status EXCEPT ![p] =
       IF run[w].uncertain THEN "uncertain" ELSE "failed"]
  /\ owner' = [owner EXCEPT ![p] = "none"]
  /\ expired' = expired \ {p}
  /\ UNCHANGED <<version, staged, remote, latest, approved, batch, site, troubles>>

\* fail_publication: a row that is no longer submitting is left alone, one
\* that another worker leases raises an exception that leaves the loop.
Fail(w) ==
  LET p == Pub(w) IN
  /\ run[w].at = "fail"
  /\ run' = [run EXCEPT ![w] = Idle]
  /\ \/ status[p] # "submitting" /\ UNCHANGED <<batch, row>>
     \/ /\ status[p] = "submitting" /\ owner[p] # w
        /\ batch' = [batch EXCEPT ![w] = {}]
        /\ UNCHANGED row
     \/ /\ HasLease(w, p)
        /\ status' = [status EXCEPT ![p] =
             IF run[w].uncertain THEN "uncertain" ELSE "failed"]
        /\ owner' = [owner EXCEPT ![p] = "none"]
        /\ expired' = expired \ {p}
        /\ UNCHANGED <<batch, version, staged, remote, latest>>
  /\ UNCHANGED <<approved, site, troubles>>

-----------------------------------------------------------------------------
(* The site *)

TakeEffect(p) ==
  /\ call[p] = "open"
  /\ call' = [call EXCEPT ![p] = "done"]
  /\ shows' = [shows EXCEPT ![PostOf(p)] = version[p]]
  /\ UNCHANGED <<row, approved, batch, run, sent, troubles>>

Vanish(p) ==
  /\ call[p] = "open"
  /\ call' = [call EXCEPT ![p] = "void"]
  /\ UNCHANGED <<row, approved, batch, run, sent, shows, troubles>>

-----------------------------------------------------------------------------

Execute(w) ==
  \/ \E p \in Publications : Begin(w, p)
  \/ Probe(w) \/ Recover(w) \/ RecheckGate(w) \/ SyncAssets(w)
  \/ StageSubmission(w) \/ SendRequest(w) \/ Await(w) \/ Finish(w)
  \/ Breaks(w) \/ Fail(w)

Work(w) == Execute(w) \/ \E ps \in SUBSET Publications : ClaimDue(w, ps)

Next ==
  \/ \E p \in Publications :
       \/ Request(p) \/ Cancel(p) \/ Reconcile(p)
       \/ ExpireAbandoned(p) \/ Overrun(p) \/ TakeEffect(p) \/ Vanish(p)
  \/ \E a \in Articles : Approve(a)
  \/ \E w \in Workers : Work(w) \/ Crash(w) \/ Defer(w)

Spec == Init /\ [][Next]_vars

\* Every orchestrator polls, an abandoned lease expires, the site answers or
\* the client's time limit ends the wait, and operators reconcile.
Fairness ==
  /\ \A w \in Workers : WF_vars(Work(w))
  /\ \A p \in Publications :
       /\ WF_vars(ExpireAbandoned(p))
       /\ WF_vars(TakeEffect(p) \/ Vanish(p))
       /\ WF_vars(Reconcile(p))

FairSpec == Spec /\ Fairness

-----------------------------------------------------------------------------
(* Properties *)

\* However often the row is taken over, the site is asked once to publish it:
\* stage_remote_submission is fenced by the lease, and a staged row is only
\* looked for.
OneRequest == \A p \in Publications : sent[p] <= 1

BeforeStaging(w) ==
  \/ run[w].at \in {"gate", "media", "stage"}
  \/ run[w].at = "probe" /\ ~run[w].pending

\* A row has been staged once a request was sent for it, a worker about to
\* send one is alone, and none that may still stage a row has its lease when
\* the row is staged.
Staging ==
  /\ \A p \in Publications : sent[p] # 0 => p \in staged
  /\ \A w \in Workers : run[w].at = "publish" =>
       Pub(w) \in staged /\ sent[Pub(w)] = 0
  /\ \A v, w \in Workers :
       run[v].at = "publish" /\ run[v] = run[w] => v = w
  /\ \A w \in Workers :
       ~(BeforeStaging(w) /\ HasLease(w, Pub(w)) /\ Pub(w) \in staged)

\* The inductive invariant of the rows and their requests, for any site.
RowInv == TypeOK /\ OneRequest /\ Staging

\* The rest of the inductive invariant is about the posts, and about a site
\* that can be relied on.
Reliable == Decisive /\ Prompt /\ ~Disconnects

\* A row has a version, no request before it is claimed nor one that the site
\* has still to answer after it, and no other active row beside it; the row
\* published last names a post of its article.
RowsAreSound ==
  /\ \A a \in Articles : approved[a] # 0
  /\ \A p \in Publications :
       /\ status[p] # "absent" => version[p] # 0
       /\ status[p] \in {"absent", "queued"} => call[p] = "none"
       /\ call[p] = "open" => status[p] = "submitting"
       /\ call[p] = "none" <=> sent[p] = 0
  /\ \A p, q \in Publications :
       ArticleOf[p] = ArticleOf[q] /\ {status[p], status[q]} \subseteq Active
         => p = q
  /\ \A a \in Articles : latest[a] # "none" =>
       /\ ArticleOf[latest[a]] = a /\ status[latest[a]] = "published"
       /\ remote[latest[a]] \in Publications
       /\ ArticleOf[remote[latest[a]]] = a

Executes(w, p) == run[w].at # "idle" /\ Pub(w) = p

\* Whoever is about to send has a lease that lasts, and while the site has
\* the request the lease lasts too and its owner waits for the site.
CallLeased(w, p) ==
  /\ Executes(w, p) /\ run[w].at \in {"stage", "publish"} =>
       HasLease(w, p) /\ p \notin expired
  /\ p \in batch[w] => ~Executes(w, p)
  /\ call[p] = "open" =>
       /\ p \notin expired
       /\ owner[p] = w =>
            p \notin batch[w] /\ (Executes(w, p) => run[w].at = "await")

\* A worker that fails its row for good knows that the request had no effect,
\* one that finishes it has seen the post.
VerdictHolds(w, p) ==
  Executes(w, p) /\ HasLease(w, p) =>
    /\ run[w].at = "fail" /\ ~run[w].uncertain => call[p] \in {"none", "void"}
    /\ run[w].at = "finish" => run[w].post = PostOf(p) /\ Shows(p, PostOf(p))

RunsAreSound ==
  \A w \in Workers, p \in Publications : CallLeased(w, p) /\ VerdictHolds(w, p)

\* The post and the version recorded for an article.
RecordedPost(a) == IF latest[a] = "none" THEN "none" ELSE remote[latest[a]]
Recorded(a) == IF latest[a] = "none" THEN 0 ELSE version[latest[a]]

\* Of the posts of the article only q shows anything: the version v.
OnlyPost(a, q, v) ==
  \A p \in Publications :
    ArticleOf[p] = a => shows[p] = IF p = q THEN v ELSE 0

\* The site shows what is recorded, until the request of an active row has
\* taken effect, and then the version of this row on the same post.
PostsAreSound ==
  \A a \in Articles :
    /\ (\A p \in Publications :
          ArticleOf[p] = a => ~(status[p] \in Active /\ call[p] = "done"))
         => OnlyPost(a, RecordedPost(a), Recorded(a))
    /\ \A p \in Publications : ArticleOf[p] = a /\ status[p] \in Active =>
         /\ remote[p] = RecordedPost(a)
         /\ call[p] = "done" => OnlyPost(a, PostOf(p), version[p])

SiteInv == RowsAreSound /\ RunsAreSound /\ PostsAreSound

IInv == RowInv /\ (Reliable => SiteInv)

\* An article has one post, whatever was cancelled, retried, reconciled or
\* updated.
OnePost ==
  \A p, q \in Publications :
    ArticleOf[p] = ArticleOf[q] /\ shows[p] # 0 /\ shows[q] # 0 => p = q

\* While no publication of an article is under way or uncertain, its post
\* shows the version published last, and there is none when none was.
SiteAsRecorded ==
  \A a \in Articles :
    (\A p \in Publications : ArticleOf[p] = a => status[p] \notin Active)
      => IF latest[a] = "none"
         THEN \A p \in Publications : ArticleOf[p] = a => shows[p] = 0
         ELSE shows[remote[latest[a]]] = version[latest[a]]

\* The article as its writers see it.
RowsUnderWay(a) == {p \in Publications : ArticleOf[p] = a /\ status[p] \in Active}
PostsOf(a) == {p \in Publications : ArticleOf[p] = a /\ shows[p] # 0}
Wanted(a) == IF RowsUnderWay(a) = {} THEN 0
             ELSE version[CHOOSE p \in RowsUnderWay(a) : TRUE]
Post(a) == IF PostsOf(a) = {} THEN "none" ELSE CHOOSE q \in PostsOf(a) : TRUE
Shown(a) == IF PostsOf(a) = {} THEN 0 ELSE shows[Post(a)]

Writers ==
  INSTANCE ArticlePost WITH
    Posts <- Publications,
    wanted <- [a \in Articles |-> Wanted(a)],
    recorded <- [a \in Articles |-> Recorded(a)],
    post <- [a \in Articles |-> Post(a)],
    shown <- [a \in Articles |-> Shown(a)]

\* Claims, takeovers, crashes, lost answers and reconciliations implement
\* ArticlePost: a post keeps its place, is recorded only when it shows what was
\* asked for, and a publication is given up only when the site is as it was.
PostKept == Writers!Spec

\* What was published, has failed or was cancelled stays so, with its post:
\* a worker whose lease was taken over cannot overrule its successor.
ResultsAreFinal ==
  [][\A p \in Publications :
       status[p] \in {"published", "failed", "cancelled"} =>
         status'[p] = status[p] /\ remote'[p] = remote[p]]_vars

\* Every requested publication is decided in the end, except that the update
\* of a post may stay uncertain: reconcile finds the post with its old
\* content and refuses to judge.
EventuallyDecided ==
  \A p \in Publications :
    status[p] \in Active ~>
      \/ status[p] \in {"published", "failed", "cancelled"}
      \/ status[p] = "uncertain" /\ remote[p] # "none"
=============================================================================
