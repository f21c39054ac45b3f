----------------------- MODULE ArticlePublicationProofs -----------------------
(***************************************************************************)
(* For any publications, workers, versions and site, prompt or not: the    *)
(* site is asked at most once per row, and results are final.  At a site   *)
(* that can be relied on (Reliable), an article has one post, the site     *)
(* shows what is recorded, and the component implements ArticlePost.       *)
(*                                                                         *)
(* First RowInv (..KeepsRows), for any site; then SiteInv (..Sound); last  *)
(* what every step shows the writers (..View).                             *)
(***************************************************************************)
EXTENDS ArticlePublication, TLAPS

RunType == {Idle} \cup Step \cup Probing \cup Failing \cup Finishing

\* Nothing is staged, sent or executed at first.
LEMMA InitRows == Init => RowInv
  BY PublicationAssumption
     DEF Init, RowInv, TypeOK, OneRequest, Staging, BeforeStaging, Status, Idle

\* What leaves the workers, the marks and the requests alone, and gives nobody
\* a lease, keeps the invariant.
LEMMA AsideKeepsStaging ==
  ASSUME OneRequest, Staging, UNCHANGED <<run, staged, sent>>,
         \A w \in Workers : HasLease(w, Pub(w))' => HasLease(w, Pub(w))
  PROVE  OneRequest' /\ Staging'
  BY DEF OneRequest, Staging, BeforeStaging, Pub

\* A worker's step that stages and sends nothing keeps the invariant when the
\* worker is not about to send after it, nor before the staging of a staged
\* row it has a lease of.
LEMMA StepKeepsStaging ==
  ASSUME OneRequest, Staging, UNCHANGED <<staged, sent>>, NEW w \in Workers,
         \A v \in Workers \ {w} :
           /\ run'[v] = run[v]
           /\ run[v].at # "idle" => (HasLease(v, Pub(v))' => HasLease(v, Pub(v))),
         run'[w].at # "publish",
         ~(BeforeStaging(w)' /\ HasLease(w, Pub(w))' /\ Pub(w)' \in staged)
  PROVE  OneRequest' /\ Staging'
  BY DEF OneRequest, Staging, BeforeStaging, Pub

\* What a busy worker has in its hands.
LEMMA BusyType ==
  ASSUME TypeOK, NEW w \in Workers, run[w].at # "idle"
  PROVE  /\ Pub(w) \in Publications
         /\ run[w].at \in {"probe", "fail"} => run[w] \in Probing \cup Failing
         /\ run[w].at = "finish" => run[w].post \in Publications
         /\ run[w].at = "fail" => run[w].uncertain \in BOOLEAN
         /\ run[w].at = "probe" => run[w].pending \in BOOLEAN
  BY DEF TypeOK, Pub, Idle, Step, Probing, Failing, Finishing

\* Commands, the passing of leases and the site.
LEMMA AsideKeepsRows ==
  ASSUME RowInv, NEW p \in Publications,
         \/ Request(p) \/ Cancel(p) \/ Reconcile(p)
         \/ ExpireAbandoned(p) \/ Overrun(p) \/ TakeEffect(p) \/ Vanish(p)
  PROVE  RowInv'
<1>1. TypeOK'
  <2> USE PublicationAssumption, BoundAssumption DEF RowInv, TypeOK
  <2>1. CASE Request(p)
    BY <2>1 DEF Request, Status, site
  <2>2. CASE Cancel(p)
    BY <2>2 DEF Cancel, Status, site
  <2>3. CASE Reconcile(p)
    <3>1. Found(p) \subseteq Publications
      BY DEF Found, Siblings
    <3> QED BY <2>3, <3>1 DEF Reconcile, Publish, Status, site
  <2>4. CASE ExpireAbandoned(p) \/ Overrun(p)
    BY <2>4 DEF ExpireAbandoned, Overrun, Expire, Trouble, site
  <2>5. CASE TakeEffect(p) \/ Vanish(p)
    <3>1. PostOf(p) \in Publications
      BY DEF PostOf
    <3> QED BY <2>5, <3>1 DEF TakeEffect, Vanish, row
  <2> QED BY <2>1, <2>2, <2>3, <2>4, <2>5
<1>2. UNCHANGED <<run, staged, sent, owner>>
  BY DEF Request, Cancel, Reconcile, ExpireAbandoned, Overrun, Expire,
         TakeEffect, Vanish, row, site
<1>3. \A q \in Publications :
        status'[q] = "submitting" => status[q] = "submitting"
  BY DEF RowInv, TypeOK, Request, Cancel, Reconcile, Publish, ExpireAbandoned,
         Overrun, Expire, TakeEffect, Vanish, row
<1>4. ASSUME NEW w \in Workers, HasLease(w, Pub(w))', run[w].at # "idle"
      PROVE  HasLease(w, Pub(w))
  BY <1>2, <1>3, <1>4, BusyType DEF HasLease, Pub, RowInv
<1>5. OneRequest' /\ Staging'
  BY <1>2, <1>4 DEF RowInv, OneRequest, Staging, BeforeStaging, Pub
<1> QED BY <1>1, <1>5 DEF RowInv

\* A review touches no row.
LEMMA ApproveKeepsRows == ASSUME RowInv, NEW a \in Articles, Approve(a) PROVE RowInv'
<1>1. TypeOK'
  BY DEF RowInv, TypeOK, Approve, row, site
<1>2. OneRequest' /\ Staging'
  BY AsideKeepsStaging DEF RowInv, Approve, row, site, HasLease, Pub
<1> QED BY <1>1, <1>2 DEF RowInv

\* A claim gives its worker leases, and that worker executes nothing yet.
LEMMA ClaimKeepsRows ==
  ASSUME RowInv, NEW w \in Workers, NEW ps \in SUBSET Publications, ClaimDue(w, ps)
  PROVE  RowInv'
<1>1. TypeOK'
  BY DEF RowInv, TypeOK, ClaimDue, Status, site
<1>2. ASSUME NEW v \in Workers, HasLease(v, Pub(v))', run[v].at # "idle"
      PROVE  HasLease(v, Pub(v))
  <2>1. Pub(v) \in Publications
    BY <1>2, BusyType DEF RowInv
  <2>2. v # w
    BY <1>2 DEF ClaimDue, Idle
  <2> QED BY <1>2, <2>1, <2>2 DEF HasLease, ClaimDue, Pub, RowInv, TypeOK
<1>3. OneRequest' /\ Staging'
  BY <1>2 DEF RowInv, OneRequest, Staging, BeforeStaging, Pub, ClaimDue, site
<1> QED BY <1>1, <1>3 DEF RowInv

\* A stopped worker sends nothing.
LEMMA CrashKeepsRows == ASSUME RowInv, NEW w \in Workers, Crash(w) PROVE RowInv'
<1>1. TypeOK'
  BY BoundAssumption DEF RowInv, TypeOK, Crash, Trouble, row, site
<1>2. OneRequest' /\ Staging'
  BY StepKeepsStaging
     DEF RowInv, TypeOK, Crash, row, site, HasLease, Pub, Idle, BeforeStaging
<1> QED BY <1>1, <1>2 DEF RowInv

\* A step of execute leaves every other worker where it is, and gives it no
\* lease.
LEMMA OthersStay ==
  ASSUME TypeOK, NEW w \in Workers, NEW r, NEW v \in Workers \ {w},
         run' = [run EXCEPT ![w] = r],
         \A p \in Publications :
           /\ status'[p] = "submitting" => status[p] = "submitting"
           /\ owner'[p] \in {owner[p], "none"}
  PROVE  /\ run'[v] = run[v]
         /\ run[v].at # "idle" => (HasLease(v, Pub(v))' => HasLease(v, Pub(v)))
  BY PublicationAssumption, BusyType DEF TypeOK, HasLease, Pub

\* The worker goes on to r, which is neither sending nor, unless it was there
\* before, the staging of a row.
GoesTo(w, r) ==
  /\ run' = [run EXCEPT ![w] = r]
  /\ r.at # "publish"
  /\ r.at = "probe" /\ ~r.pending => r.pub \notin staged
  /\ r.at \in {"gate", "media", "stage"} =>
       run[w].at # "idle" /\ r.pub = Pub(w) /\ BeforeStaging(w)

LEMMA ToFailGoes ==
  ASSUME TypeOK, NEW w \in Workers, run[w].at # "idle",
         NEW uncertain \in BOOLEAN, ToFail(w, uncertain)
  PROVE  \E r \in RunType : GoesTo(w, r)
<1> DEFINE r == [at |-> "fail", pub |-> Pub(w), uncertain |-> uncertain]
<1>1. r \in RunType
  BY BusyType DEF RunType, Failing
<1>2. GoesTo(w, r)
  BY DEF GoesTo, ToFail, Goto
<1> QED BY <1>1, <1>2

LEMMA ToStepGoes ==
  ASSUME TypeOK, NEW w \in Workers, run[w].at # "idle",
         NEW step \in {"recover", "gate", "media", "stage", "await"},
         step \in {"gate", "media", "stage"} => BeforeStaging(w),
         ToStep(w, step)
  PROVE  \E r \in RunType : GoesTo(w, r)
<1> DEFINE r == [at |-> step, pub |-> Pub(w)]
<1>1. r \in RunType
  BY BusyType DEF RunType, Step
<1>2. GoesTo(w, r)
  BY DEF GoesTo, ToStep, Goto
<1> QED BY <1>1, <1>2

LEMMA ToFinishGoes ==
  ASSUME TypeOK, NEW w \in Workers, run[w].at # "idle", NEW q \in Publications,
         Goto(w, [at |-> "finish", pub |-> Pub(w), post |-> q])
  PROVE  \E r \in RunType : GoesTo(w, r)
<1> DEFINE r == [at |-> "finish", pub |-> Pub(w), post |-> q]
<1>1. r \in RunType
  BY BusyType DEF RunType, Finishing
<1>2. GoesTo(w, r)
  BY DEF GoesTo, Goto
<1> QED BY <1>1, <1>2

LEMMA ToIdleGoes ==
  ASSUME NEW w \in Workers, run' = [run EXCEPT ![w] = Idle]
  PROVE  \E r \in RunType : GoesTo(w, r)
<1>1. Idle \in RunType
  BY DEF RunType
<1>2. GoesTo(w, Idle)
  BY DEF GoesTo, Idle
<1> QED BY <1>1, <1>2

LEMMA BeginGoes ==
  ASSUME TypeOK, NEW w \in Workers, NEW p \in Publications, Begin(w, p)
  PROVE  \E r \in RunType : GoesTo(w, r)
<1>1. CASE HasLease(w, p)
  <2> DEFINE r == [at |-> "probe", pub |-> p, pending |-> p \in staged]
  <2>1. r \in RunType
    BY DEF RunType, Probing
  <2>2. GoesTo(w, r)
    BY <1>1 DEF GoesTo, Begin
  <2> QED BY <2>1, <2>2
<1>2. CASE ~HasLease(w, p)
  <2> DEFINE r == [at |-> "fail", pub |-> p, uncertain |-> FALSE]
  <2>1. r \in RunType
    BY DEF RunType, Failing
  <2>2. GoesTo(w, r)
    BY <1>2 DEF GoesTo, Begin
  <2> QED BY <2>1, <2>2
<1> QED BY <1>1, <1>2

\* Where the steps that neither stage a row nor send a request nor settle a
\* row lead.
LEMMA QuietGoes ==
  ASSUME TypeOK, NEW w \in Workers,
         \/ \E p \in Publications : Begin(w, p)
         \/ Probe(w) \/ Recover(w) \/ RecheckGate(w) \/ SyncAssets(w)
         \/ Defer(w) \/ Await(w) \/ Breaks(w)
  PROVE  \E r \in RunType : GoesTo(w, r)
<1>1. CASE \E p \in Publications : Begin(w, p)
  BY <1>1, BeginGoes
<1>2. CASE Probe(w)
  BY <1>2, BusyType, ToFailGoes, ToStepGoes DEF Probe, AfterProbe, BeforeStaging
<1>3. CASE Recover(w)
  <2>1. Found(Pub(w)) \subseteq Publications
    BY <1>3, BusyType DEF TypeOK, Recover, Found, Siblings
  <2> QED BY <1>3, <2>1, ToFailGoes, ToFinishGoes DEF Recover
<1>4. CASE RecheckGate(w)
  BY <1>4, ToFailGoes, ToStepGoes DEF RecheckGate, BeforeStaging
<1>5. CASE SyncAssets(w)
  BY <1>5, ToFailGoes, ToStepGoes DEF SyncAssets, BeforeStaging
<1>6. CASE Defer(w)
  BY <1>6, ToIdleGoes DEF Defer, Goto
<1>7. CASE Await(w)
  <2>1. PostOf(Pub(w)) \in Publications
    BY <1>7, BusyType DEF TypeOK, Await, PostOf
  <2> QED BY <1>7, <2>1, ToFailGoes, ToFinishGoes
          DEF Await, Accepted, Rejected, TimedOut
<1>8. CASE Breaks(w)
  <2>1. run[w].at # "idle"
    BY <1>8 DEF Breaks, TypeOK, Idle, Step, Probing, Failing, Finishing
  <2> QED BY <1>8, <2>1, ToFailGoes DEF Breaks
<1> QED BY <1>1, <1>2, <1>3, <1>4, <1>5, <1>6, <1>7, <1>8

LEMMA QuietKeepsRows ==
  ASSUME RowInv, NEW w \in Workers,
         \/ \E p \in Publications : Begin(w, p)
         \/ Probe(w) \/ Recover(w) \/ RecheckGate(w) \/ SyncAssets(w)
         \/ Defer(w) \/ Await(w) \/ Breaks(w)
  PROVE  RowInv'
<1> USE DEF RowInv
<1>1. UNCHANGED <<status, owner, version, staged, remote, latest, approved, site>>
  BY DEF Begin, Probe, Recover, RecheckGate, SyncAssets, Defer, Await, Breaks,
         row, site
<1>2. PICK r \in RunType : GoesTo(w, r)
  BY QuietGoes
<1>3. TypeOK'
  <2>1. /\ batch' \in [Workers -> SUBSET Publications]
        /\ expired' \subseteq Publications
        /\ troubles' \in Nat
    BY BoundAssumption DEF TypeOK, Begin, Probe, Recover, RecheckGate,
       SyncAssets, Defer, Await, Breaks, Goto, ToStep, ToFail, Accepted,
       Rejected, TimedOut, Renew, Trouble, row
  <2>2. run' \in [Workers -> RunType]
    BY <1>2 DEF TypeOK, RunType, GoesTo
  <2> QED BY <1>1, <2>1, <2>2 DEF TypeOK, RunType, site
<1>4. \A v \in Workers \ {w} :
        /\ run'[v] = run[v]
        /\ run[v].at # "idle" => (HasLease(v, Pub(v))' => HasLease(v, Pub(v)))
  BY <1>1, <1>2, OthersStay DEF GoesTo
<1>5. run'[w] = r
  BY <1>2 DEF TypeOK, GoesTo
<1>6. ~(BeforeStaging(w)' /\ HasLease(w, Pub(w))' /\ Pub(w)' \in staged)
  BY <1>1, <1>2, <1>5 DEF BeforeStaging, HasLease, Pub, Staging, GoesTo
<1>7. OneRequest' /\ Staging'
  BY <1>1, <1>2, <1>4, <1>5, <1>6, StepKeepsStaging DEF site, GoesTo
<1> QED BY <1>3, <1>7

\* Staging: the row was not staged, so no other worker is about to send.
LEMMA StageKeepsRows ==
  ASSUME RowInv, NEW w \in Workers, StageSubmission(w) PROVE RowInv'
<1> USE DEF RowInv
<1>1. Pub(w) \in Publications /\ run[w].at = "stage"
  BY BusyType DEF StageSubmission
<1>2. CASE ~HasLease(w, Pub(w))
  <2>1. PICK r \in RunType : GoesTo(w, r) /\ r.at = "fail"
    <3> DEFINE r == [at |-> "fail", pub |-> Pub(w), uncertain |-> FALSE]
    <3>1. r \in RunType
      BY <1>1 DEF RunType, Failing
    <3>2. GoesTo(w, r) /\ r.at = "fail"
      BY <1>2 DEF GoesTo, ToFail, Goto, StageSubmission
    <3> QED BY <3>1, <3>2
  <2>2. TypeOK'
    BY <1>2, <2>1 DEF TypeOK, GoesTo, StageSubmission, RunType, ToFail, Goto, site
  <2>3. \A v \in Workers \ {w} :
          /\ run'[v] = run[v]
          /\ run[v].at # "idle" => (HasLease(v, Pub(v))' => HasLease(v, Pub(v)))
    BY <2>1, OthersStay DEF GoesTo, StageSubmission
  <2>4. OneRequest' /\ Staging'
    BY <1>2, <2>1, <2>3, StepKeepsStaging
       DEF GoesTo, StageSubmission, site, BeforeStaging, TypeOK
  <2> QED BY <2>2, <2>4
<1>3. CASE HasLease(w, Pub(w))
  <2>1. Pub(w) \notin staged
    BY <1>1, <1>3 DEF Staging, BeforeStaging
  <2>2. PICK r \in RunType :
          /\ run' = [run EXCEPT ![w] = r]
          /\ r.pub = Pub(w) /\ r.at \in {"publish", "fail"}
    <3>1. CASE ToStep(w, "publish")
      <4> DEFINE r == [at |-> "publish", pub |-> Pub(w)]
      <4>1. r \in RunType
        BY <1>1 DEF RunType, Step
      <4> QED BY <3>1, <4>1 DEF ToStep, Goto
    <3>2. CASE ToFail(w, TRUE)
      <4> DEFINE r == [at |-> "fail", pub |-> Pub(w), uncertain |-> TRUE]
      <4>1. r \in RunType
        BY <1>1 DEF RunType, Failing
      <4> QED BY <3>2, <4>1 DEF ToFail, Goto
    <3> QED BY <1>3, <3>1, <3>2 DEF StageSubmission
  <2>3. /\ staged' = staged \cup {Pub(w)}
        /\ UNCHANGED <<status, version, owner, expired, remote, latest,
                       approved, batch, site, troubles>>
    BY <1>3 DEF StageSubmission, ToStep, ToFail, Goto
  <2>4. TypeOK'
    BY <1>1, <2>2, <2>3 DEF TypeOK, RunType, site
  <2>5. \A v \in Workers : v # w => run'[v] = run[v]
    BY <2>2 DEF TypeOK
  <2>6. run'[w] = r
    BY <2>2 DEF TypeOK
  <2>7. sent[Pub(w)] = 0
    BY <1>1, <2>1 DEF Staging, TypeOK
  <2>8. \A v \in Workers : v # w /\ run[v].at = "publish" => Pub(v) # Pub(w)
    BY <2>1 DEF Staging
  <2>9. \A v \in Workers :
          v # w => ~(BeforeStaging(v) /\ HasLease(v, Pub(w)) /\ Pub(v) = Pub(w))
    BY <1>3 DEF HasLease
  <2>10. OneRequest' /\ Staging'
    BY <2>2, <2>3, <2>5, <2>6, <2>7, <2>8, <2>9
       DEF OneRequest, Staging, BeforeStaging, HasLease, Pub, site
  <2> QED BY <2>4, <2>10
<1> QED BY <1>2, <1>3

\* Sending: nothing was sent for the row before.
LEMMA SendKeepsRows == ASSUME RowInv, NEW w \in Workers, SendRequest(w) PROVE RowInv'
<1> USE DEF RowInv
<1>1. Pub(w) \in Publications /\ run[w].at = "publish"
  BY BusyType DEF SendRequest
<1>2. Pub(w) \in staged /\ sent[Pub(w)] = 0
  BY <1>1 DEF Staging
<1>3. PICK r \in RunType :
        run' = [run EXCEPT ![w] = r] /\ r.pub = Pub(w) /\ r.at \in {"await", "fail"}
  <2>1. CASE ToStep(w, "await")
    <3> DEFINE r == [at |-> "await", pub |-> Pub(w)]
    <3>1. r \in RunType
      BY <1>1 DEF RunType, Step
    <3> QED BY <2>1, <3>1 DEF ToStep, Goto
  <2>2. CASE ToFail(w, FALSE)
    <3> DEFINE r == [at |-> "fail", pub |-> Pub(w), uncertain |-> FALSE]
    <3>1. r \in RunType
      BY <1>1 DEF RunType, Failing
    <3> QED BY <2>2, <3>1 DEF ToFail, Goto
  <2> QED BY <2>1, <2>2 DEF SendRequest
<1>4. UNCHANGED <<row, approved, batch, shows, troubles>>
  BY DEF SendRequest, ToStep, ToFail, Goto
<1>5. \/ UNCHANGED <<sent, call>>
      \/ /\ sent' = [sent EXCEPT ![Pub(w)] = @ + 1]
         /\ call' = [call EXCEPT ![Pub(w)] = "open"]
  BY DEF SendRequest
<1>6. TypeOK'
  <2>1. /\ sent' \in [Publications -> Nat]
        /\ call' \in [Publications -> {"none", "open", "done", "void"}]
    BY <1>1, <1>5 DEF TypeOK
  <2>2. run' \in [Workers -> RunType]
    BY <1>3 DEF TypeOK, RunType
  <2> QED BY <1>4, <2>1, <2>2 DEF TypeOK, RunType, row
<1>7. run'[w] = r /\ \A v \in Workers : v # w => run'[v] = run[v]
  BY <1>3 DEF TypeOK
<1>8. \A v \in Workers : v # w /\ run[v].at = "publish" => Pub(v) # Pub(w)
  <2> SUFFICES ASSUME NEW v \in Workers, v # w, run[v].at = "publish",
                      Pub(v) = Pub(w)
               PROVE  FALSE
    OBVIOUS
  <2>1. run[v] \in Step /\ run[w] \in Step
    BY <1>1 DEF TypeOK, Idle, Step, Probing, Failing, Finishing
  <2>2. run[v] = run[w]
    BY <1>1, <2>1 DEF Step, Pub
  <2> QED BY <1>1, <2>2 DEF Staging
<1>9. \A p \in Publications :
        sent'[p] = sent[p] \/ (p = Pub(w) /\ sent'[p] = 1)
  <2>1. CASE UNCHANGED sent
    BY <2>1
  <2>2. CASE sent' = [sent EXCEPT ![Pub(w)] = @ + 1]
    <3>1. sent[Pub(w)] + 1 = 1
      BY <1>2
    <3>2. sent' = [sent EXCEPT ![Pub(w)] = 1]
      BY <2>2, <3>1
    <3> QED BY <1>1, <3>2 DEF TypeOK
  <2> QED BY <1>5, <2>1, <2>2
<1>10. OneRequest'
  BY <1>9 DEF OneRequest
<1>11. Staging'
  <2>1. \A p \in Publications : sent'[p] # 0 => p \in staged'
    BY <1>2, <1>4, <1>9 DEF Staging, row
  <2>2. ASSUME NEW v \in Workers, run'[v].at = "publish"
        PROVE  Pub(v)' \in staged' /\ sent'[Pub(v)'] = 0
    BY <1>3, <1>4, <1>7, <1>8, <1>9, <2>2, BusyType DEF Staging, row, Pub
  <2>3. ASSUME NEW u \in Workers, NEW v \in Workers,
               run'[v].at = "publish", run'[u] = run'[v]
        PROVE  u = v
    BY <1>3, <1>7, <2>3 DEF Staging
  <2>4. ASSUME NEW v \in Workers
        PROVE  ~(BeforeStaging(v) /\ HasLease(v, Pub(v)) /\ Pub(v) \in staged)'
    BY <1>3, <1>4, <1>7, <2>4 DEF Staging, row, Pub, HasLease, BeforeStaging
  <2> QED BY <2>1, <2>2, <2>3, <2>4 DEF Staging
<1> QED BY <1>6, <1>10, <1>11

\* Settling a row takes leases away and leaves the worker idle or failing.
LEMMA SettleKeepsRows ==
  ASSUME RowInv, NEW w \in Workers, Finish(w) \/ Fail(w) PROVE RowInv'
<1> USE DEF RowInv
<1>1. Pub(w) \in Publications
  BY BusyType DEF Finish, Fail
<1>2. PICK r \in RunType :
        run' = [run EXCEPT ![w] = r] /\ r.at \in {"idle", "fail"}
  <2>1. CASE run' = [run EXCEPT ![w] = Idle]
    <3>1. Idle \in RunType /\ Idle.at = "idle"
      BY DEF RunType, Idle
    <3> QED BY <2>1, <3>1
  <2>2. CASE \E uncertain \in BOOLEAN : ToFail(w, uncertain)
    <3>1. PICK uncertain \in BOOLEAN : ToFail(w, uncertain)
      BY <2>2
    <3> DEFINE r == [at |-> "fail", pub |-> Pub(w), uncertain |-> uncertain]
    <3>2. r \in RunType
      BY <1>1 DEF RunType, Failing
    <3> QED BY <3>1, <3>2 DEF ToFail, Goto
  <2> QED BY <2>1, <2>2 DEF Finish, Fail, Goto
<1>3. UNCHANGED <<staged, version, approved, site, troubles>>
  BY DEF Finish, Fail, row
<1>4. /\ status' \in [Publications -> Status]
      /\ owner' \in [Publications -> Workers \cup {"none"}]
      /\ \A p \in Publications :
           /\ status'[p] = "submitting" => status[p] = "submitting"
           /\ owner'[p] \in {owner[p], "none"}
  <2>1. CASE UNCHANGED <<status, owner>>
    BY <2>1 DEF TypeOK
  <2>2. CASE /\ \E s \in {"published", "uncertain", "failed"} :
                  status' = [status EXCEPT ![Pub(w)] = s]
             /\ owner' = [owner EXCEPT ![Pub(w)] = "none"]
    <3>1. PICK s \in {"published", "uncertain", "failed"} :
            status' = [status EXCEPT ![Pub(w)] = s]
      BY <2>2
    <3>2. \A p \in Publications : status'[p] \in {status[p], s}
      BY <3>1 DEF TypeOK
    <3>3. \A p \in Publications : owner'[p] \in {owner[p], "none"}
      BY <2>2 DEF TypeOK
    <3>4. /\ status' \in [Publications -> Status]
          /\ owner' \in [Publications -> Workers \cup {"none"}]
      BY <2>2, <3>1 DEF TypeOK, Status
    <3> QED BY <3>2, <3>3, <3>4
  <2> QED BY <2>1, <2>2 DEF Finish, Fail, Publish, row
<1>5. TypeOK'
  <2>1. run' \in [Workers -> RunType]
    BY <1>2 DEF TypeOK, RunType
  <2>2. batch' \in [Workers -> SUBSET Publications] /\ expired' \subseteq Publications
    BY DEF TypeOK, Finish, Fail, Goto, ToFail, row
  <2>3. /\ remote' \in [Publications -> Publications \cup {"none"}]
        /\ latest' \in [Articles -> Publications \cup {"none"}]
    <3>1. CASE Finish(w)
      <4>1. run[w].post \in Publications
        BY <3>1, BusyType DEF Finish
      <4>2. CASE UNCHANGED row
        BY <4>2 DEF TypeOK, row
      <4>3. CASE Publish(Pub(w), run[w].post)
        BY <1>1, <4>1, <4>3, PublicationAssumption DEF TypeOK, Publish
      <4> QED BY <3>1, <4>2, <4>3 DEF Finish
    <3>2. CASE Fail(w)
      BY <3>2 DEF TypeOK, Fail, row
    <3> QED BY <3>1, <3>2
  <2> QED BY <1>3, <1>4, <2>1, <2>2, <2>3 DEF TypeOK, RunType, site
<1>6. \A v \in Workers \ {w} :
        /\ run'[v] = run[v]
        /\ run[v].at # "idle" => (HasLease(v, Pub(v))' => HasLease(v, Pub(v)))
  BY <1>2, <1>4, OthersStay
<1>7. OneRequest' /\ Staging'
  BY <1>2, <1>3, <1>6, StepKeepsStaging DEF BeforeStaging, TypeOK, site
<1> QED BY <1>5, <1>7

LEMMA NextKeepsRows == ASSUME RowInv, [Next]_vars PROVE RowInv'
<1>1. CASE UNCHANGED vars
  BY <1>1 DEF vars, row, site, RowInv, TypeOK, OneRequest, Staging,
              BeforeStaging, HasLease, Pub
<1>2. CASE Next
  BY <1>2, AsideKeepsRows, ApproveKeepsRows, ClaimKeepsRows, CrashKeepsRows,
     QuietKeepsRows, StageKeepsRows, SendKeepsRows, SettleKeepsRows
     DEF Next, Work, Execute
<1> QED BY <1>1, <1>2

-----------------------------------------------------------------------------
(* The posts, at a site that can be relied on. *)

LEMMA InitSite == Init => SiteInv
  BY PublicationAssumption
     DEF Init, SiteInv, RowsAreSound, RunsAreSound, CallLeased, VerdictHolds,
         Executes, HasLease, PostsAreSound, OnlyPost, RecordedPost, Recorded,
         Active, Idle

\* The post of an active row is one of its article's.
LEMMA PostOfArticle ==
  ASSUME TypeOK, RowsAreSound, PostsAreSound,
         NEW p \in Publications, status[p] \in Active
  PROVE  /\ PostOf(p) \in Publications
         /\ ArticleOf[PostOf(p)] = ArticleOf[p]
         /\ remote[p] = RecordedPost(ArticleOf[p])
  BY PublicationAssumption
     DEF TypeOK, RowsAreSound, PostsAreSound, RecordedPost, PostOf

\* What the site shows of an article while p is its active row.
LEMMA WhatShows ==
  ASSUME TypeOK, RowsAreSound, PostsAreSound,
         NEW p \in Publications, status[p] \in Active
  PROVE  /\ call[p] = "done" => OnlyPost(ArticleOf[p], PostOf(p), version[p])
         /\ call[p] # "done" =>
              OnlyPost(ArticleOf[p], remote[p], Recorded(ArticleOf[p]))
<1>1. ArticleOf[p] \in Articles
  BY PublicationAssumption
<1>2. \A q \in Publications :
        ArticleOf[q] = ArticleOf[p] /\ status[q] \in Active => q = p
  BY DEF RowsAreSound
<1> QED BY <1>1, <1>2 DEF PostsAreSound

\* A post that shows the version of an active row is the row's own.
LEMMA FoundIsPost ==
  ASSUME TypeOK, RowsAreSound, PostsAreSound,
         NEW p \in Publications, status[p] \in Active, NEW q \in Found(p)
  PROVE  q = PostOf(p)
<1>1. CASE remote[p] # "none"
  BY <1>1 DEF Found, PostOf
<1>2. CASE remote[p] = "none"
  <2>1. q \in Publications /\ ArticleOf[q] = ArticleOf[p] /\ shows[q] # 0
    BY <1>2 DEF Found, Siblings
  <2>2. call[p] = "done"
    BY <1>2, <2>1, WhatShows, PublicationAssumption DEF OnlyPost
  <2> QED BY <1>2, <2>1, <2>2, WhatShows DEF OnlyPost
<1> QED BY <1>1, <1>2

\* Rows and posts that nobody touches stay sound.
LEMMA UntouchedSound ==
  ASSUME RowsAreSound, PostsAreSound,
         UNCHANGED <<status, version, remote, latest, approved, site>>
  PROVE  RowsAreSound' /\ PostsAreSound'
  BY DEF site, RowsAreSound, PostsAreSound, OnlyPost, RecordedPost, Recorded, PostOf

\* A row that may still be staged was not asked for.
LEMMA NothingSent ==
  ASSUME RowInv, RowsAreSound, NEW w \in Workers, HasLease(w, Pub(w)),
         BeforeStaging(w) \/ run[w].at = "publish"
  PROVE  call[Pub(w)] = "none"
<1>1. Pub(w) \in Publications
  BY BusyType DEF RowInv, BeforeStaging
<1>2. sent[Pub(w)] = 0
  BY <1>1 DEF RowInv, Staging
<1> QED BY <1>1, <1>2 DEF RowsAreSound

\* When the rows keep status and owner and no lease expires, the other workers'
\* runs stay sound.
LEMMA OthersSound ==
  ASSUME RunsAreSound, NEW w \in Workers, NEW v \in Workers \ {w},
         NEW p \in Publications,
         UNCHANGED <<status, owner, version, remote, call, shows>>,
         expired' \subseteq expired,
         run'[v] = run[v], batch'[v] = batch[v]
  PROVE  CallLeased(v, p)' /\ VerdictHolds(v, p)'
  BY DEF RunsAreSound, CallLeased, VerdictHolds, Executes, HasLease, Pub,
         Shows, PostOf


\* The rows and the site as the executing workers see them.
Scene == <<status, owner, version, remote, call, shows>>

\* A worker goes on to r: with its row, unless the site still has the request, or
\* with one it takes up.
LEMMA StepSound ==
  ASSUME TypeOK, RunsAreSound, UNCHANGED Scene, expired' \subseteq expired,
         NEW w \in Workers, NEW r, run' = [run EXCEPT ![w] = r],
         \A v \in Workers \ {w} : batch'[v] = batch[v],
         batch'[w] \subseteq batch[w],
         r.at # "idle" =>
           \/ /\ run[w].at # "idle" /\ r.pub = Pub(w)
              /\ run[w].at = "await" => call[Pub(w)] # "open"
           \/ r.pub \in batch[w] \ batch'[w],
         r.at \in {"stage", "publish"} => HasLease(w, r.pub) /\ r.pub \notin expired',
         r.at = "fail" /\ ~r.uncertain /\ HasLease(w, r.pub) =>
           call[r.pub] \in {"none", "void"},
         r.at = "finish" /\ HasLease(w, r.pub) =>
           r.post = PostOf(r.pub) /\ Shows(r.pub, r.post)
  PROVE  RunsAreSound'
<1>1. run'[w] = r /\ \A v \in Workers \ {w} : run'[v] = run[v]
  BY DEF TypeOK
<1>2. ASSUME NEW v \in Workers \ {w}, NEW p \in Publications
      PROVE  CallLeased(v, p)' /\ VerdictHolds(v, p)'
  BY <1>1, OthersSound DEF Scene
<1>3. ASSUME NEW p \in Publications PROVE CallLeased(w, p)'
  <2>1. CallLeased(w, p)
    BY DEF RunsAreSound
  <2> QED BY <1>1, <2>1 DEF CallLeased, Executes, HasLease, Pub, Scene
<1>4. ASSUME NEW p \in Publications PROVE VerdictHolds(w, p)'
  BY <1>1 DEF VerdictHolds, Executes, HasLease, Pub, Scene, Shows, PostOf
<1> QED BY <1>2, <1>3, <1>4 DEF RunsAreSound

LEMMA ToFailSound ==
  ASSUME TypeOK, RunsAreSound, UNCHANGED Scene, expired' \subseteq expired,
         NEW w \in Workers, run[w].at # "idle",
         run[w].at = "await" => call[Pub(w)] # "open",
         NEW uncertain \in BOOLEAN, ToFail(w, uncertain),
         ~uncertain /\ HasLease(w, Pub(w)) => call[Pub(w)] \in {"none", "void"}
  PROVE  RunsAreSound'
<1> DEFINE r == [at |-> "fail", pub |-> Pub(w), uncertain |-> uncertain]
<1>1. run' = [run EXCEPT ![w] = r] /\ UNCHANGED batch
  BY DEF ToFail, Goto
<1> HIDE DEF r
<1>2. r.at = "fail" /\ r.pub = Pub(w) /\ r.uncertain = uncertain
  BY DEF r
<1> QED BY <1>1, <1>2, StepSound

LEMMA ToStepSound ==
  ASSUME TypeOK, RunsAreSound, UNCHANGED Scene, expired' \subseteq expired,
         NEW w \in Workers, run[w].at \notin {"idle", "await"},
         NEW step \in {"recover", "gate", "media", "stage", "publish"},
         ToStep(w, step),
         step \in {"stage", "publish"} =>
           HasLease(w, Pub(w)) /\ Pub(w) \notin expired'
  PROVE  RunsAreSound'
<1> DEFINE r == [at |-> step, pub |-> Pub(w)]
<1>1. run' = [run EXCEPT ![w] = r] /\ UNCHANGED batch
  BY DEF ToStep, Goto
<1> HIDE DEF r
<1>2. r.at = step /\ r.pub = Pub(w)
  BY DEF r
<1> QED BY <1>1, <1>2, StepSound

LEMMA ToFinishSound ==
  ASSUME TypeOK, RunsAreSound, UNCHANGED Scene, expired' \subseteq expired,
         NEW w \in Workers, run[w].at # "idle",
         run[w].at = "await" => call[Pub(w)] # "open",
         NEW q, Goto(w, [at |-> "finish", pub |-> Pub(w), post |-> q]),
         HasLease(w, Pub(w)) => q = PostOf(Pub(w)) /\ Shows(Pub(w), q)
  PROVE  RunsAreSound'
<1> DEFINE r == [at |-> "finish", pub |-> Pub(w), post |-> q]
<1>1. run' = [run EXCEPT ![w] = r] /\ UNCHANGED batch
  BY DEF Goto
<1> HIDE DEF r
<1>2. r.at = "finish" /\ r.pub = Pub(w) /\ r.post = q
  BY DEF r
<1> QED BY <1>1, <1>2, StepSound

\* Taking a row up: nobody has its request open.
LEMMA BeginSound ==
  ASSUME TypeOK, RunsAreSound, NEW w \in Workers, NEW p \in Publications,
         Begin(w, p)
  PROVE  RunsAreSound'
<1>1. /\ UNCHANGED Scene /\ expired' = expired
      /\ p \in batch[w] /\ batch' = [batch EXCEPT ![w] = @ \ {p}]
  BY DEF Begin, Scene, row, site
<1>2. /\ \A v \in Workers \ {w} : batch'[v] = batch[v]
      /\ batch'[w] \subseteq batch[w] /\ p \in batch[w] \ batch'[w]
  BY <1>1 DEF TypeOK
<1>3. CASE HasLease(w, p)
  <2> DEFINE r == [at |-> "probe", pub |-> p, pending |-> p \in staged]
  <2>1. run' = [run EXCEPT ![w] = r]
    BY <1>3 DEF Begin
  <2> HIDE DEF r
  <2>2. r.at = "probe" /\ r.pub = p
    BY DEF r
  <2> QED BY <1>1, <1>2, <2>1, <2>2, StepSound
<1>4. CASE ~HasLease(w, p)
  <2> DEFINE r == [at |-> "fail", pub |-> p, uncertain |-> FALSE]
  <2>1. run' = [run EXCEPT ![w] = r]
    BY <1>4 DEF Begin
  <2> HIDE DEF r
  <2>2. r.at = "fail" /\ r.pub = p
    BY DEF r
  <2> QED BY <1>1, <1>2, <1>4, <2>1, <2>2, StepSound
<1> QED BY <1>3, <1>4

\* A worker that stops or lets go executes nothing.
LEMMA IdleSound ==
  ASSUME TypeOK, RunsAreSound, NEW w \in Workers, Crash(w) \/ Defer(w)
  PROVE  RunsAreSound'
<1>1. /\ UNCHANGED Scene /\ expired' \subseteq expired
      /\ run' = [run EXCEPT ![w] = Idle]
  BY DEF Crash, Defer, Goto, Renew, Scene, row, site
<1>2. /\ \A v \in Workers \ {w} : batch'[v] = batch[v]
      /\ batch'[w] \subseteq batch[w]
  BY DEF Crash, Defer, Goto, TypeOK
<1> DEFINE r == Idle
<1>3. r.at = "idle" /\ run' = [run EXCEPT ![w] = r]
  BY <1>1 DEF Idle
<1> HIDE DEF r
<1> QED BY <1>1, <1>2, <1>3, StepSound

\* The steps before the staging, the recovery and the answer of the site.
LEMMA QuietSound ==
  ASSUME Reliable, RowInv, SiteInv, NEW w \in Workers,
         \/ Probe(w) \/ Recover(w) \/ RecheckGate(w) \/ SyncAssets(w)
         \/ StageSubmission(w) \/ Await(w) \/ Breaks(w)
  PROVE  RunsAreSound'
<1> USE DEF RowInv, SiteInv
<1>1. UNCHANGED Scene /\ expired' \subseteq expired
  BY DEF Probe, Recover, RecheckGate, SyncAssets, StageSubmission, Await,
         Breaks, Renew, Scene, row, site
<1>2. CASE Probe(w)
  <2>1. run[w].at = "probe" /\ run[w].pending \in BOOLEAN
    BY <1>2, BusyType DEF Probe
  <2>2. ~run[w].pending /\ HasLease(w, Pub(w)) => call[Pub(w)] = "none"
    BY <2>1, NothingSent DEF BeforeStaging
  <2>3. \/ \E step \in {"recover", "gate"} : ToStep(w, step)
        \/ ToFail(w, run[w].pending)
    BY <1>2 DEF Probe, Reliable, AfterProbe
  <2> QED BY <1>1, <2>1, <2>2, <2>3, ToStepSound, ToFailSound
<1>3. CASE Recover(w)
  <2>1. run[w].at = "recover" /\ Pub(w) \in Publications
    BY <1>3, BusyType DEF Recover
  <2>2. CASE ToFail(w, TRUE)
    BY <1>1, <2>1, <2>2, ToFailSound
  <2>3. CASE \E q \in Found(Pub(w)) :
               /\ Shows(Pub(w), q)
               /\ Goto(w, [at |-> "finish", pub |-> Pub(w), post |-> q])
    <3>1. PICK q \in Found(Pub(w)) :
            /\ Shows(Pub(w), q)
            /\ Goto(w, [at |-> "finish", pub |-> Pub(w), post |-> q])
      BY <2>3
    <3>2. HasLease(w, Pub(w)) => q = PostOf(Pub(w))
      BY <2>1, FoundIsPost DEF HasLease, Active
    <3> QED BY <1>1, <2>1, <3>1, <3>2, ToFinishSound
  <2> QED BY <1>3, <2>2, <2>3 DEF Recover
<1>4. CASE RecheckGate(w) \/ SyncAssets(w)
  <2>1. run[w].at \in {"gate", "media"} /\ Pub(w) \in Publications
    BY <1>4, BusyType DEF RecheckGate, SyncAssets
  <2>2. HasLease(w, Pub(w)) => call[Pub(w)] = "none"
    BY <2>1, NothingSent DEF BeforeStaging
  <2>3. \/ ToStep(w, "media")
        \/ /\ ToStep(w, "stage")
           /\ HasLease(w, Pub(w)) /\ Pub(w) \notin expired'
        \/ \E uncertain \in BOOLEAN : ToFail(w, uncertain)
    BY <1>4 DEF RecheckGate, SyncAssets, Renew
  <2> QED BY <1>1, <2>1, <2>2, <2>3, ToStepSound, ToFailSound
<1>5. CASE StageSubmission(w)
  <2>1. run[w].at = "stage" /\ Pub(w) \in Publications
    BY <1>5, BusyType DEF StageSubmission
  <2>2. HasLease(w, Pub(w)) /\ Pub(w) \notin expired
    BY <2>1 DEF RunsAreSound, CallLeased, Executes
  <2>3. ToStep(w, "publish") \/ ToFail(w, TRUE)
    BY <1>5, <2>2 DEF StageSubmission
  <2> QED BY <1>1, <2>1, <2>2, <2>3, ToStepSound, ToFailSound
<1>6. CASE Await(w)
  <2>1. run[w].at = "await" /\ Pub(w) \in Publications
    BY <1>6, BusyType DEF Await
  <2>2. CASE Accepted(w)
    <3>1. /\ call[Pub(w)] = "done"
          /\ Goto(w, [at |-> "finish", pub |-> Pub(w), post |-> PostOf(Pub(w))])
      BY <2>2 DEF Accepted
    <3>2. HasLease(w, Pub(w)) => Shows(Pub(w), PostOf(Pub(w)))
      BY <2>1, <3>1, WhatShows, PostOfArticle
         DEF HasLease, Active, OnlyPost, Shows
    <3> QED BY <1>1, <2>1, <3>1, <3>2, ToFinishSound
  <2>3. CASE Rejected(w)
    <3>1. call[Pub(w)] = "void" /\ ToFail(w, FALSE)
      BY <2>3 DEF Rejected, Reliable
    <3> QED BY <1>1, <2>1, <3>1, ToFailSound
  <2>4. CASE TimedOut(w)
    <3>1. call[Pub(w)] # "open" /\ ToFail(w, TRUE)
      BY <2>4 DEF TimedOut, Reliable
    <3> QED BY <1>1, <2>1, <3>1, ToFailSound
  <2> QED BY <1>6, <2>2, <2>3, <2>4 DEF Await
<1>7. CASE Breaks(w)
  <2>1. run[w].at \notin {"idle", "await"} /\ ToFail(w, TRUE)
    BY <1>7 DEF Breaks, TypeOK, Idle, Step, Probing, Failing, Finishing
  <2> QED BY <1>1, <2>1, ToFailSound
<1> QED BY <1>2, <1>3, <1>4, <1>5, <1>6, <1>7

\* Claiming gives no one a row that somebody is about to send, or whose request
\* the site still has.
LEMMA ClaimSound ==
  ASSUME RowInv, SiteInv, NEW w \in Workers, NEW ps \in SUBSET Publications,
         ClaimDue(w, ps)
  PROVE  SiteInv'
<1> USE DEF RowInv, TypeOK, SiteInv
<1>1. /\ \A p \in ps : Claimable(p)
      /\ \A p \in Publications :
           /\ status'[p] = IF p \in ps THEN "submitting" ELSE status[p]
           /\ owner'[p] = IF p \in ps THEN w ELSE owner[p]
      /\ run[w].at = "idle"
      /\ UNCHANGED <<version, remote, latest, approved, run, site>>
      /\ expired' \subseteq expired
      /\ batch' = [batch EXCEPT ![w] = ps]
  BY DEF ClaimDue, Idle
<1>2. RowsAreSound'
  <2>1. \A p \in Publications : status'[p] \in Active => status[p] \in Active
    BY <1>1 DEF Active, Claimable
  <2>2. \A p \in Publications :
          /\ status'[p] = "absent" => status[p] = "absent"
          /\ status'[p] = "queued" => status[p] = "queued"
          /\ status[p] = "absent" => status'[p] = "absent"
          /\ status[p] = "published" => status'[p] = "published"
          /\ status[p] = "submitting" => status'[p] = "submitting"
    BY <1>1 DEF Claimable
  <2> QED BY <1>1, <2>1, <2>2 DEF RowsAreSound, site
<1>3. PostsAreSound'
  <2>1. \A p \in Publications : status'[p] \in Active <=> status[p] \in Active
    BY <1>1 DEF Active, Claimable
  <2> QED BY <1>1, <2>1 DEF PostsAreSound, OnlyPost, RecordedPost, Recorded,
                            PostOf, site
<1>4. ASSUME NEW v \in Workers, NEW p \in Publications
      PROVE  CallLeased(v, p)' /\ VerdictHolds(v, p)'
  <2>1. CallLeased(v, p) /\ VerdictHolds(v, p)
    BY DEF RunsAreSound
  <2>2. (Executes(v, p) /\ HasLease(v, p) /\ p \notin expired) \/ call[p] = "open"
          => p \notin ps
    BY <1>1, <2>1 DEF CallLeased, Claimable, HasLease, RowsAreSound
  <2>3. Executes(v, p)' <=> Executes(v, p)
    BY <1>1 DEF Executes, Pub
  <2>4. Executes(v, p) => v # w
    BY <1>1 DEF Executes
  <2>5. CallLeased(v, p)'
    BY <1>1, <2>1, <2>2, <2>3, <2>4 DEF CallLeased, HasLease, site
  <2>6. VerdictHolds(v, p)'
    BY <1>1, <2>1, <2>3, <2>4 DEF VerdictHolds, HasLease, Shows, PostOf, site
  <2> QED BY <2>5, <2>6
<1> QED BY <1>2, <1>3, <1>4 DEF RunsAreSound

\* A lease outlasts the request, and the way to it.
LEMMA ExpireSound ==
  ASSUME Reliable, RowInv, SiteInv, NEW p \in Publications,
         ExpireAbandoned(p) \/ Overrun(p)
  PROVE  SiteInv'
<1> USE DEF RowInv, TypeOK, SiteInv
<1>1. /\ ~Asking(p) /\ expired' = expired \cup {p}
      /\ UNCHANGED <<status, version, owner, remote, latest, approved, batch,
                     run, site>>
  BY DEF ExpireAbandoned, Overrun, Expire, Reliable
<1>2. RowsAreSound' /\ PostsAreSound'
  BY <1>1, UntouchedSound
<1>3. ASSUME NEW w \in Workers, NEW q \in Publications
      PROVE  CallLeased(w, q)' /\ VerdictHolds(w, q)'
  <2>1. CallLeased(w, q) /\ VerdictHolds(w, q)
    BY DEF RunsAreSound
  <2>2. Executes(w, p) => run[w].at \notin {"stage", "publish"}
    <3> SUFFICES ASSUME Executes(w, p), run[w].at \in {"stage", "publish"}
                 PROVE  FALSE
      OBVIOUS
    <3>1. run[w] = [at |-> run[w].at, pub |-> p]
      BY DEF Executes, Pub, Idle, Step, Probing, Failing, Finishing
    <3> QED BY <1>1, <3>1 DEF Asking
  <2>3. call[p] # "open"
    BY <1>1 DEF Asking
  <2>4. CallLeased(w, q)'
    BY <1>1, <2>1, <2>2, <2>3 DEF CallLeased, Executes, HasLease, Pub, site
  <2>5. VerdictHolds(w, q)'
    BY <1>1, <2>1 DEF VerdictHolds, Executes, HasLease, Pub, Shows, PostOf, site
  <2> QED BY <2>4, <2>5
<1> QED BY <1>2, <1>3 DEF RunsAreSound

\* The worker that sends has the lease, and nobody else has it with the row.
LEMMA SendSound ==
  ASSUME RowInv, SiteInv, NEW w \in Workers, SendRequest(w)
  PROVE  SiteInv'
<1> USE DEF RowInv, SiteInv
<1>1. run[w].at = "publish" /\ Pub(w) \in Publications
  BY BusyType DEF SendRequest
<1>2. HasLease(w, Pub(w)) /\ Pub(w) \notin expired
  BY <1>1 DEF RunsAreSound, CallLeased, Executes
<1>3. call[Pub(w)] = "none"
  BY <1>1, <1>2, NothingSent
<1>4. CASE ToFail(w, FALSE) /\ UNCHANGED <<sent, call>>
  <2>1. UNCHANGED <<row, approved, site>>
    BY <1>4 DEF SendRequest, site
  <2>2. RunsAreSound'
    BY <1>1, <1>3, <1>4, <2>1, ToFailSound DEF Scene, row, site
  <2> QED BY <2>1, <2>2, UntouchedSound DEF row
<1>5. CASE /\ ToStep(w, "await")
           /\ sent' = [sent EXCEPT ![Pub(w)] = @ + 1]
           /\ call' = [call EXCEPT ![Pub(w)] = "open"]
  <2>1. /\ UNCHANGED <<row, approved, shows, batch>>
        /\ run'[w] = [at |-> "await", pub |-> Pub(w)]
        /\ \A v \in Workers \ {w} : run'[v] = run[v]
        /\ \A p \in Publications \ {Pub(w)} :
             call'[p] = call[p] /\ sent'[p] = sent[p]
        /\ call'[Pub(w)] = "open" /\ sent'[Pub(w)] = sent[Pub(w)] + 1
        /\ sent[Pub(w)] \in Nat
    BY <1>1, <1>5 DEF SendRequest, ToStep, Goto, TypeOK
  <2>2. RowsAreSound'
    <3>1. \A p \in Publications : call'[p] = "none" <=> sent'[p] = 0
      BY <2>1 DEF RowsAreSound
    <3>2. \A p \in Publications :
            /\ status[p] \in {"absent", "queued"} => call'[p] = "none"
            /\ call'[p] = "open" => status[p] = "submitting"
      BY <1>2, <2>1 DEF RowsAreSound, HasLease
    <3> QED BY <2>1, <3>1, <3>2 DEF RowsAreSound, row
  <2>3. PostsAreSound'
    <3>1. \A p \in Publications : call'[p] = "done" <=> call[p] = "done"
      BY <1>3, <2>1
    <3> QED BY <2>1, <3>1 DEF PostsAreSound, OnlyPost, RecordedPost, Recorded,
                              PostOf, row
  <2>4. ASSUME NEW v \in Workers, NEW p \in Publications
        PROVE  CallLeased(v, p)' /\ VerdictHolds(v, p)'
    <3>1. CallLeased(v, p) /\ VerdictHolds(v, p) /\ CallLeased(w, p)
      BY DEF RunsAreSound
    <3>2. CASE v = w
      BY <1>1, <1>2, <2>1, <3>1, <3>2
         DEF CallLeased, VerdictHolds, Executes, HasLease, Pub, row
    <3>3. CASE v # w
      <4>1. HasLease(v, Pub(w)) => FALSE
        BY <1>2, <3>3 DEF HasLease
      <4>2. CASE p = Pub(w)
        BY <1>2, <2>1, <3>1, <3>3, <4>1, <4>2
           DEF CallLeased, VerdictHolds, Executes, HasLease, Pub, row
      <4>3. CASE p # Pub(w)
        BY <2>1, <3>1, <3>3, <4>3
           DEF CallLeased, VerdictHolds, Executes, HasLease, Pub, Shows, PostOf, row
      <4> QED BY <4>2, <4>3
    <3> QED BY <3>2, <3>3
  <2> QED BY <2>2, <2>3, <2>4 DEF RunsAreSound
<1> QED BY <1>4, <1>5 DEF SendRequest

\* The request of the only active row takes effect on the post of its article.
LEMMA EffectSound ==
  ASSUME RowInv, SiteInv, NEW p \in Publications, TakeEffect(p)
  PROVE  SiteInv'
<1> USE DEF RowInv, SiteInv
<1>1. /\ call[p] = "open" /\ call'[p] = "done"
      /\ \A q \in Publications \ {p} : call'[q] = call[q]
      /\ UNCHANGED <<row, approved, batch, run, sent>>
      /\ shows' = [shows EXCEPT ![PostOf(p)] = version[p]]
  BY DEF TakeEffect, TypeOK
<1>2. status[p] = "submitting" /\ status[p] \in Active
  BY <1>1 DEF RowsAreSound, Active
<1>3. PostOf(p) \in Publications /\ ArticleOf[PostOf(p)] = ArticleOf[p]
  BY <1>2, PostOfArticle
<1>4. \A q \in Publications :
        shows'[q] = IF q = PostOf(p) THEN version[p] ELSE shows[q]
  BY <1>1, <1>3 DEF TypeOK
<1>5. \A q \in Publications :
        ArticleOf[q] = ArticleOf[p] /\ status[q] \in Active => q = p
  BY <1>2 DEF RowsAreSound
<1>6. RowsAreSound'
  BY <1>1, <1>2 DEF RowsAreSound, row
<1>7. OnlyPost(ArticleOf[p], PostOf(p), version[p])'
  <2>1. OnlyPost(ArticleOf[p], remote[p], Recorded(ArticleOf[p]))
    BY <1>1, <1>2, WhatShows
  <2>2. remote[p] \in {"none", PostOf(p)}
    BY DEF PostOf
  <2> QED BY <1>1, <1>4, <2>1, <2>2, PublicationAssumption
          DEF OnlyPost, PostOf, row
<1>8. PostsAreSound'
  <2> SUFFICES ASSUME NEW a \in Articles
               PROVE  /\ (\A q \in Publications : ArticleOf[q] = a =>
                             ~(status[q] \in Active /\ call'[q] = "done"))
                          => OnlyPost(a, RecordedPost(a), Recorded(a))'
                      /\ \A q \in Publications :
                           ArticleOf[q] = a /\ status[q] \in Active =>
                             /\ remote[q] = RecordedPost(a)
                             /\ call'[q] = "done" =>
                                  OnlyPost(a, PostOf(q), version[q])'
    BY <1>1 DEF PostsAreSound, RecordedPost, row
  <2>1. CASE a = ArticleOf[p]
    BY <1>1, <1>2, <1>5, <1>7, <2>1 DEF PostsAreSound
  <2>2. CASE a # ArticleOf[p]
    <3>1. \A q \in Publications :
            ArticleOf[q] = a => q # PostOf(p) /\ shows'[q] = shows[q]
      BY <1>3, <1>4, <2>2
    <3>2. /\ OnlyPost(a, RecordedPost(a), Recorded(a))
               => OnlyPost(a, RecordedPost(a), Recorded(a))'
          /\ \A q \in Publications :
               OnlyPost(a, PostOf(q), version[q]) => OnlyPost(a, PostOf(q), version[q])'
      BY <1>1, <3>1 DEF OnlyPost, RecordedPost, Recorded, PostOf, row
    <3>3. \A q \in Publications : ArticleOf[q] = a => call'[q] = call[q]
      BY <1>1, <2>2
    <3> QED BY <3>2, <3>3 DEF PostsAreSound
  <2> QED BY <2>1, <2>2
<1>9. ASSUME NEW w \in Workers, NEW q \in Publications
       PROVE  CallLeased(w, q)' /\ VerdictHolds(w, q)'
  <2>1. CallLeased(w, q) /\ VerdictHolds(w, q)
    BY DEF RunsAreSound
  <2>2. CallLeased(w, q)'
    BY <1>1, <2>1 DEF CallLeased, Executes, HasLease, Pub, row
  <2>3. CASE q = p
    BY <1>1, <2>1, <2>3 DEF CallLeased, VerdictHolds, Executes, HasLease, Pub, row
  <2>4. CASE q # p
    <3>1. HasLease(w, q) => PostOf(q) # PostOf(p) /\ PostOf(q) \in Publications
      BY <1>3, <1>5, <2>4, PostOfArticle DEF HasLease, Active
    <3> QED BY <1>1, <1>4, <2>1, <2>2, <2>4, <3>1
            DEF VerdictHolds, Executes, HasLease, Pub, Shows, PostOf, row
  <2> QED BY <2>2, <2>3, <2>4
<1> QED BY <1>6, <1>8, <1>9 DEF RunsAreSound

\* A request that is lost leaves everything as it was.
LEMMA VanishSound ==
  ASSUME RowInv, SiteInv, NEW p \in Publications, Vanish(p) PROVE SiteInv'
<1> USE DEF RowInv, SiteInv
<1>1. /\ call[p] = "open" /\ call'[p] = "void"
      /\ \A q \in Publications \ {p} : call'[q] = call[q]
      /\ UNCHANGED <<row, approved, batch, run, sent, shows>>
  BY DEF Vanish, TypeOK
<1>2. RowsAreSound'
  BY <1>1 DEF RowsAreSound, row
<1>3. PostsAreSound'
  <2>1. \A q \in Publications : call'[q] = "done" <=> call[q] = "done"
    BY <1>1
  <2> QED BY <1>1, <2>1 DEF PostsAreSound, OnlyPost, RecordedPost, Recorded,
                            PostOf, row
<1>4. ASSUME NEW w \in Workers, NEW q \in Publications
      PROVE  CallLeased(w, q)' /\ VerdictHolds(w, q)'
  <2>1. CallLeased(w, q) /\ VerdictHolds(w, q)
    BY DEF RunsAreSound
  <2> QED BY <1>1, <2>1
          DEF CallLeased, VerdictHolds, Executes, HasLease, Pub, Shows, PostOf, row
<1> QED BY <1>2, <1>3, <1>4 DEF RunsAreSound

\* The worker that has the lease decides its row: no other worker executes the
\* row to send it.
LEMMA DecidedSound ==
  ASSUME TypeOK, RunsAreSound, NEW w \in Workers, NEW p \in Publications,
         HasLease(w, p), call[p] # "open",
         status'[p] # "submitting",
         \A q \in Publications \ {p} :
           /\ status'[q] = status[q] /\ owner'[q] = owner[q]
           /\ version'[q] = version[q] /\ remote'[q] = remote[q],
         expired' \subseteq expired, UNCHANGED <<batch, site>>,
         NEW r, run' = [run EXCEPT ![w] = r],
         r.at = "idle" \/ (r.at = "fail" /\ r.pub = p /\ Executes(w, p))
  PROVE  RunsAreSound'
<1>1. run'[w] = r /\ \A v \in Workers \ {w} : run'[v] = run[v]
  BY DEF TypeOK
<1> SUFFICES ASSUME NEW v \in Workers, NEW q \in Publications
             PROVE  CallLeased(v, q)' /\ VerdictHolds(v, q)'
  BY DEF RunsAreSound
<1>2. CallLeased(v, q) /\ VerdictHolds(v, q)
  BY DEF RunsAreSound
<1>3. CASE v = w
  <2>1. CASE q = p
    BY <1>1, <1>2, <1>3, <2>1
       DEF CallLeased, VerdictHolds, Executes, HasLease, Pub, site
  <2>2. CASE q # p
    BY <1>1, <1>2, <1>3, <2>2
       DEF CallLeased, VerdictHolds, Executes, HasLease, Pub, site
  <2> QED BY <2>1, <2>2
<1>4. CASE v # w
  <2>1. Executes(v, q)' <=> Executes(v, q)
    BY <1>1, <1>4 DEF Executes, Pub
  <2>2. CASE q = p
    BY <1>1, <1>2, <1>4, <2>1, <2>2 DEF CallLeased, VerdictHolds, HasLease, site
  <2>3. CASE q # p
    BY <1>1, <1>2, <1>4, <2>1, <2>3
       DEF CallLeased, VerdictHolds, HasLease, Shows, PostOf, site
  <2> QED BY <2>2, <2>3
<1> QED BY <1>3, <1>4

\* Nor that an operator asks for a row, cancels it or reconciles it.
LEMMA CommandSound ==
  ASSUME RunsAreSound, NEW p \in Publications,
         status[p] # "submitting", status'[p] # "submitting", call[p] # "open",
         \A q \in Publications \ {p} :
           /\ status'[q] = status[q]
           /\ version'[q] = version[q] /\ remote'[q] = remote[q],
         UNCHANGED <<owner, expired, batch, run, site>>
  PROVE  RunsAreSound'
<1> SUFFICES ASSUME NEW w \in Workers, NEW q \in Publications
             PROVE  CallLeased(w, q)' /\ VerdictHolds(w, q)'
  BY DEF RunsAreSound
<1>1. CallLeased(w, q) /\ VerdictHolds(w, q)
  BY DEF RunsAreSound
<1>2. Executes(w, q)' <=> Executes(w, q)
  BY DEF Executes, Pub
<1>3. CASE q = p
  BY <1>1, <1>2, <1>3 DEF CallLeased, VerdictHolds, HasLease, site
<1>4. CASE q # p
  BY <1>1, <1>2, <1>4 DEF CallLeased, VerdictHolds, HasLease, Shows, PostOf, site
<1> QED BY <1>3, <1>4

\* The row is published with the post that shows its version.
LEMMA PublishSound ==
  ASSUME TypeOK, RowsAreSound, PostsAreSound,
         NEW p \in Publications, status[p] \in Active, call[p] # "open",
         Publish(p, PostOf(p)), Shows(p, PostOf(p)),
         UNCHANGED <<version, approved, site>>
  PROVE  RowsAreSound' /\ PostsAreSound'
<1> DEFINE a == ArticleOf[p]
<1>1. a \in Articles /\ PostOf(p) \in Publications /\ ArticleOf[PostOf(p)] = a
  BY PostOfArticle, PublicationAssumption
<1>2. /\ status'[p] = "published" /\ remote'[p] = PostOf(p) /\ latest'[a] = p
      /\ \A q \in Publications \ {p} : status'[q] = status[q] /\ remote'[q] = remote[q]
      /\ \A b \in Articles \ {a} : latest'[b] = latest[b]
  BY <1>1 DEF Publish, TypeOK
<1>3. \A b \in Articles : latest[b] # p
  BY PublicationAssumption DEF RowsAreSound, Active
<1>4. \A q \in Publications : ArticleOf[q] = a /\ status[q] \in Active => q = p
  BY DEF RowsAreSound
<1>5. version[p] # 0
  BY DEF RowsAreSound, Active
<1>6. OnlyPost(a, PostOf(p), version[p])
  <2>1. CASE call[p] = "done"
    BY <2>1, WhatShows
  <2>2. CASE call[p] # "done"
    <3>1. OnlyPost(a, remote[p], Recorded(a))
      BY <2>2, WhatShows
    <3>2. shows[PostOf(p)] = version[p]
      BY DEF Shows
    <3>3. PostOf(p) = remote[p] /\ Recorded(a) = version[p]
      BY <1>1, <1>5, <3>1, <3>2 DEF OnlyPost
    <3> QED BY <3>1, <3>3
  <2> QED BY <2>1, <2>2
<1>7. \A q \in Publications : status'[q] \in Active => q # p /\ status[q] \in Active
  BY <1>2 DEF Active
<1> HIDE DEF a
<1>8. RowsAreSound'
  <2>1. \A q \in Publications :
          /\ status'[q] # "absent" => version'[q] # 0
          /\ status'[q] \in {"absent", "queued"} => call'[q] = "none"
          /\ call'[q] = "open" => status'[q] = "submitting"
          /\ call'[q] = "none" <=> sent'[q] = 0
    BY <1>2, <1>5 DEF RowsAreSound, site
  <2>2. \A q, r \in Publications :
          ArticleOf[q] = ArticleOf[r] /\ {status'[q], status'[r]} \subseteq Active
            => q = r
    BY <1>7 DEF RowsAreSound
  <2>3. \A b \in Articles : latest'[b] # "none" =>
          /\ ArticleOf[latest'[b]] = b /\ status'[latest'[b]] = "published"
          /\ remote'[latest'[b]] \in Publications
          /\ ArticleOf[remote'[latest'[b]]] = b
    <3> SUFFICES ASSUME NEW b \in Articles, latest'[b] # "none"
                 PROVE  /\ ArticleOf[latest'[b]] = b
                        /\ status'[latest'[b]] = "published"
                        /\ remote'[latest'[b]] \in Publications
                        /\ ArticleOf[remote'[latest'[b]]] = b
      OBVIOUS
    <3>1. CASE b = a
      BY <1>1, <1>2, <3>1 DEF a
    <3>2. CASE b # a
      <4>1. latest'[b] = latest[b] /\ latest[b] \in Publications \ {p}
        BY <1>2, <1>3, <3>2 DEF TypeOK
      <4> QED BY <1>2, <4>1 DEF RowsAreSound
    <3> QED BY <3>1, <3>2
  <2>4. \A b \in Articles : approved'[b] # 0
    BY DEF RowsAreSound
  <2> QED BY <2>1, <2>2, <2>3, <2>4 DEF RowsAreSound
<1>9. PostsAreSound'
  <2> SUFFICES ASSUME NEW b \in Articles
               PROVE  /\ (\A q \in Publications : ArticleOf[q] = b =>
                             ~(status'[q] \in Active /\ call'[q] = "done"))
                          => OnlyPost(b, RecordedPost(b), Recorded(b))'
                      /\ \A q \in Publications :
                           ArticleOf[q] = b /\ status'[q] \in Active =>
                             /\ remote'[q] = RecordedPost(b)'
                             /\ call'[q] = "done" =>
                                  OnlyPost(b, PostOf(q), version[q])'
    BY DEF PostsAreSound
  <2>1. CASE b = a
    <3>1. RecordedPost(b)' = PostOf(p) /\ Recorded(b)' = version[p]
      BY <1>2, <2>1, PublicationAssumption DEF RecordedPost, Recorded
    <3>2. OnlyPost(b, RecordedPost(b), Recorded(b))'
      BY <1>6, <2>1, <3>1 DEF OnlyPost, site
    <3>3. \A q \in Publications : ArticleOf[q] = b => status'[q] \notin Active
      BY <1>4, <1>7, <2>1
    <3> QED BY <3>2, <3>3
  <2>2. CASE b # a
    <3>1. \A q \in Publications : ArticleOf[q] = b =>
            status'[q] = status[q] /\ remote'[q] = remote[q]
      BY <1>2, <2>2 DEF a
    <3>2. RecordedPost(b)' = RecordedPost(b) /\ Recorded(b)' = Recorded(b)
      <4>1. CASE latest[b] = "none"
        BY <1>2, <2>2, <4>1 DEF RecordedPost, Recorded
      <4>2. CASE latest[b] # "none"
        <5>1. latest[b] \in Publications \ {p}
          BY <1>3, <4>2 DEF TypeOK
        <5> QED BY <1>2, <2>2, <5>1 DEF RecordedPost, Recorded
      <4> QED BY <4>1, <4>2
    <3> QED BY <3>1, <3>2 DEF PostsAreSound, OnlyPost, PostOf, site
  <2> QED BY <2>1, <2>2
<1> QED BY <1>8, <1>9

\* The row is failed or cancelled when its request had no effect, or left
\* uncertain.
LEMMA SettledSound ==
  ASSUME TypeOK, RowsAreSound, PostsAreSound,
         NEW p \in Publications, status[p] \in Active, call[p] # "open",
         status'[p] \in {"failed", "cancelled", "uncertain"},
         status'[p] # "uncertain" => call[p] # "done",
         \A q \in Publications \ {p} : status'[q] = status[q],
         UNCHANGED <<version, remote, latest, approved, site>>
  PROVE  RowsAreSound' /\ PostsAreSound'
<1>1. \A q \in Publications :
        /\ status'[q] \in Active => status[q] \in Active
        /\ status[q] \in Active /\ call[q] = "done" => status'[q] \in Active
  BY DEF Active
<1>2. RowsAreSound'
  <2>1. \A q \in Publications :
          /\ status'[q] # "absent" => version[q] # 0
          /\ status'[q] \in {"absent", "queued"} => call[q] = "none"
          /\ call[q] = "open" => status'[q] = "submitting"
          /\ status[q] = "published" => status'[q] = "published"
    BY DEF RowsAreSound, Active
  <2>2. \A q, r \in Publications :
          ArticleOf[q] = ArticleOf[r] /\ {status'[q], status'[r]} \subseteq Active
            => q = r
    BY <1>1 DEF RowsAreSound
  <2>3. \A b \in Articles : latest[b] # "none" => status'[latest[b]] = "published"
    BY <2>1 DEF RowsAreSound, TypeOK
  <2> QED BY <2>1, <2>2, <2>3 DEF RowsAreSound, site
<1>3. PostsAreSound'
  BY <1>1 DEF PostsAreSound, OnlyPost, RecordedPost, Recorded, PostOf, site
<1> QED BY <1>2, <1>3

LEMMA CancelSound ==
  ASSUME RowInv, SiteInv, NEW p \in Publications, Cancel(p) PROVE SiteInv'
<1> USE DEF RowInv, SiteInv
<1>1. /\ status[p] = "queued" /\ status'[p] = "cancelled"
      /\ \A q \in Publications \ {p} : status'[q] = status[q]
      /\ UNCHANGED <<version, remote, latest, approved, owner, expired, batch,
                     run, site>>
  BY DEF Cancel, TypeOK
<1>2. status[p] \in Active /\ call[p] = "none"
  BY <1>1 DEF RowsAreSound, Active
<1>3. RowsAreSound' /\ PostsAreSound'
  BY <1>1, <1>2, SettledSound
<1>4. RunsAreSound'
  BY <1>1, <1>2, CommandSound
<1> QED BY <1>3, <1>4

\* The site is asked for what it shows, when no request of the row is left.
LEMMA ReconcileSound ==
  ASSUME RowInv, SiteInv, NEW p \in Publications, Reconcile(p) PROVE SiteInv'
<1> USE DEF RowInv, SiteInv
<1>1. /\ status[p] = "uncertain"
      /\ UNCHANGED <<version, approved, owner, expired, batch, run, site>>
  BY DEF Reconcile
<1>2. status[p] \in Active /\ call[p] # "open"
  BY <1>1 DEF RowsAreSound, Active
<1>3. CASE \E q \in Found(p) : Shows(p, q) /\ Publish(p, q)
  <2>1. Shows(p, PostOf(p)) /\ Publish(p, PostOf(p))
    BY <1>2, <1>3, FoundIsPost
  <2>2. RowsAreSound' /\ PostsAreSound'
    BY <1>1, <1>2, <2>1, PublishSound
  <2>3. /\ status'[p] # "submitting"
        /\ \A q \in Publications \ {p} :
             status'[q] = status[q] /\ remote'[q] = remote[q]
    BY <2>1 DEF Publish, TypeOK
  <2>4. RunsAreSound'
    BY <1>1, <1>2, <2>3, CommandSound
  <2> QED BY <2>2, <2>4
<1>4. CASE /\ Found(p) = {}
           /\ status' = [status EXCEPT ![p] = "failed"]
           /\ UNCHANGED <<remote, latest>>
  <2>1. call[p] # "done"
    <3> SUFFICES ASSUME call[p] = "done" PROVE FALSE
      OBVIOUS
    <3>1. remote[p] = "none"
      BY <1>4 DEF Found
    <3>2. shows[p] = version[p] /\ version[p] # 0
      BY <1>2, <3>1, WhatShows DEF OnlyPost, PostOf, RowsAreSound, Active
    <3> QED BY <1>4, <3>1, <3>2 DEF Found, Siblings
  <2>2. /\ status'[p] = "failed"
        /\ \A q \in Publications \ {p} : status'[q] = status[q]
    BY <1>4 DEF TypeOK
  <2>3. RowsAreSound' /\ PostsAreSound'
    BY <1>1, <1>2, <1>4, <2>1, <2>2, SettledSound
  <2>4. RunsAreSound'
    BY <1>1, <1>2, <1>4, <2>2, CommandSound
  <2> QED BY <2>3, <2>4
<1> QED BY <1>3, <1>4 DEF Reconcile

\* No other row of the article is active, so the site is as recorded.
LEMMA RequestSound ==
  ASSUME RowInv, SiteInv, NEW p \in Publications, Request(p) PROVE SiteInv'
<1> USE DEF RowInv, SiteInv
<1> DEFINE a == ArticleOf[p]
<1>1. a \in Articles
  BY PublicationAssumption
<1>2. /\ status[p] = "absent" /\ status'[p] = "queued"
      /\ version'[p] = approved[a]
      /\ \A q \in Publications \ {p} :
           /\ status'[q] = status[q]
           /\ version'[q] = version[q]
           /\ remote'[q] = remote[q]
      /\ UNCHANGED <<owner, expired, latest, approved, batch, run, site>>
  BY DEF Request, TypeOK
<1>3. remote'[p] = RecordedPost(a)
  BY DEF Request, RecordedPost, TypeOK
<1>4. \A q \in Publications : ArticleOf[q] = a => status[q] \notin Active
  BY DEF Request, Unblocked, Siblings
<1>5. \A b \in Articles : latest[b] # p
  BY <1>2, PublicationAssumption DEF RowsAreSound
<1>6. call[p] = "none"
  BY <1>2 DEF RowsAreSound
<1>7. \A b \in Articles :
        RecordedPost(b)' = RecordedPost(b) /\ Recorded(b)' = Recorded(b)
  <2> SUFFICES ASSUME NEW b \in Articles
               PROVE  RecordedPost(b)' = RecordedPost(b) /\ Recorded(b)' = Recorded(b)
    OBVIOUS
  <2>1. latest[b] # "none" => latest[b] \in Publications \ {p}
    BY <1>5 DEF TypeOK
  <2> QED BY <1>2, <2>1 DEF RecordedPost, Recorded
<1> HIDE DEF a
<1>8. RowsAreSound'
  <2>1. \A q \in Publications :
          /\ status'[q] # "absent" => version'[q] # 0
          /\ status'[q] \in {"absent", "queued"} => call'[q] = "none"
          /\ call'[q] = "open" => status'[q] = "submitting"
          /\ call'[q] = "none" <=> sent'[q] = 0
    BY <1>1, <1>2, <1>6 DEF RowsAreSound, site
  <2>2. \A q, r \in Publications :
          ArticleOf[q] = ArticleOf[r] /\ {status'[q], status'[r]} \subseteq Active
            => q = r
    BY <1>2, <1>4 DEF RowsAreSound, a
  <2>3. \A b \in Articles : latest'[b] # "none" =>
          /\ ArticleOf[latest'[b]] = b /\ status'[latest'[b]] = "published"
          /\ remote'[latest'[b]] \in Publications
          /\ ArticleOf[remote'[latest'[b]]] = b
    BY <1>2, <1>5 DEF RowsAreSound, TypeOK
  <2> QED BY <1>2, <2>1, <2>2, <2>3 DEF RowsAreSound
<1>9. PostsAreSound'
  <2> SUFFICES ASSUME NEW b \in Articles
               PROVE  /\ (\A q \in Publications : ArticleOf[q] = b =>
                             ~(status'[q] \in Active /\ call'[q] = "done"))
                          => OnlyPost(b, RecordedPost(b), Recorded(b))'
                      /\ \A q \in Publications :
                           ArticleOf[q] = b /\ status'[q] \in Active =>
                             /\ remote'[q] = RecordedPost(b)'
                             /\ call'[q] = "done" =>
                                  OnlyPost(b, PostOf(q), version[q])'
    BY DEF PostsAreSound
  <2>1. CASE b = a
    <3>1. OnlyPost(b, RecordedPost(b), Recorded(b))
      BY <1>4, <2>1 DEF PostsAreSound
    <3>2. OnlyPost(b, RecordedPost(b), Recorded(b))'
      BY <1>2, <1>7, <3>1 DEF OnlyPost, site
    <3>3. \A q \in Publications :
            ArticleOf[q] = b /\ status'[q] \in Active => q = p
      BY <1>2, <1>4, <2>1
    <3> QED BY <1>2, <1>3, <1>6, <1>7, <2>1, <3>2, <3>3 DEF site
  <2>2. CASE b # a
    <3>1. \A q \in Publications : ArticleOf[q] = b =>
            /\ status'[q] = status[q] /\ remote'[q] = remote[q]
            /\ version'[q] = version[q]
      BY <1>2, <2>2 DEF a
    <3> QED BY <1>2, <1>7, <3>1 DEF PostsAreSound, OnlyPost, PostOf, site
  <2> QED BY <2>1, <2>2
<1>10. RunsAreSound'
  BY <1>2, <1>6, CommandSound
<1> QED BY <1>8, <1>9, <1>10

\* The owner of a row that finishes or fails it is not waiting for the site.
LEMMA NotOpen ==
  ASSUME RunsAreSound, NEW w \in Workers, Pub(w) \in Publications,
         HasLease(w, Pub(w)), run[w].at \in {"fail", "finish"}
  PROVE  call[Pub(w)] # "open"
  BY DEF RunsAreSound, CallLeased, HasLease, Executes

LEMMA FinishSound ==
  ASSUME RowInv, SiteInv, NEW w \in Workers, Finish(w) PROVE SiteInv'
<1> USE DEF RowInv, SiteInv
<1> DEFINE p == Pub(w)
<1>1. run[w].at = "finish" /\ p \in Publications
  BY BusyType DEF Finish
<1>2. CASE UNCHANGED row
  <2>1. UNCHANGED <<status, version, owner, expired, remote, latest, approved,
                    site, batch>>
    BY <1>2 DEF Finish, Goto, ToFail, row
  <2>2. RowsAreSound' /\ PostsAreSound'
    BY <2>1, UntouchedSound
  <2>3. UNCHANGED Scene /\ expired' \subseteq expired
    BY <2>1 DEF Scene, site
  <2>4. CASE Goto(w, Idle)
    <3> DEFINE r == Idle
    <3>1. r.at = "idle" /\ run' = [run EXCEPT ![w] = r]
      BY <2>4 DEF Goto, Idle
    <3> HIDE DEF r
    <3>2. RunsAreSound'
      BY <2>1, <2>3, <3>1, StepSound
    <3> QED BY <2>2, <3>2
  <2>5. CASE ToFail(w, FALSE) /\ ~HasLease(w, p)
    <3>1. RunsAreSound'
      BY <1>1, <2>3, <2>5, ToFailSound
    <3> QED BY <2>2, <3>1
  <2>6. CASE HasLease(w, p) /\ Publish(p, run[w].post)
    BY <1>1, <1>2, <2>6 DEF Publish, HasLease, TypeOK, row
  <2> QED BY <2>4, <2>5, <2>6 DEF Finish
<1>3. CASE ~(UNCHANGED row)
  <2>1. /\ HasLease(w, p)
        /\ Publish(p, run[w].post)
        /\ owner' = [owner EXCEPT ![p] = "none"]
        /\ expired' = expired \ {p}
        /\ Goto(w, Idle) \/ ToFail(w, TRUE)
        /\ UNCHANGED <<version, staged, approved, site>>
    BY <1>3 DEF Finish
  <2>2. run[w].post = PostOf(p) /\ Shows(p, PostOf(p))
    BY <1>1, <2>1 DEF RunsAreSound, VerdictHolds, Executes
  <2>3. call[p] # "open" /\ status[p] \in Active
    BY <1>1, <2>1, NotOpen DEF HasLease, Active
  <2>4. RowsAreSound' /\ PostsAreSound'
    BY <1>1, <2>1, <2>2, <2>3, PublishSound
  <2>5. /\ status'[p] # "submitting"
        /\ \A q \in Publications \ {p} :
             /\ status'[q] = status[q] /\ owner'[q] = owner[q]
             /\ version'[q] = version[q] /\ remote'[q] = remote[q]
        /\ expired' \subseteq expired
        /\ UNCHANGED <<batch, site>>
    BY <1>1, <2>1 DEF Publish, Goto, ToFail, TypeOK
  <2>6. PICK r : /\ run' = [run EXCEPT ![w] = r]
                 /\ r.at = "idle" \/ (r.at = "fail" /\ r.pub = p)
    <3>1. CASE Goto(w, Idle)
      <4> DEFINE r == Idle
      <4>1. run' = [run EXCEPT ![w] = r] /\ r.at = "idle"
        BY <3>1 DEF Goto, Idle
      <4> QED BY <4>1
    <3>2. CASE ToFail(w, TRUE)
      <4> DEFINE r == [at |-> "fail", pub |-> p, uncertain |-> TRUE]
      <4>1. run' = [run EXCEPT ![w] = r] /\ r.at = "fail" /\ r.pub = p
        BY <3>2 DEF ToFail, Goto
      <4> QED BY <4>1
    <3> QED BY <2>1, <3>1, <3>2
  <2>7. Executes(w, p)
    BY <1>1 DEF Executes
  <2>8. RunsAreSound'
    BY <1>1, <2>1, <2>3, <2>5, <2>6, <2>7, DecidedSound
  <2> QED BY <2>4, <2>8
<1> QED BY <1>2, <1>3

LEMMA FailSound ==
  ASSUME RowInv, SiteInv, NEW w \in Workers, Fail(w) PROVE SiteInv'
<1> USE DEF RowInv, SiteInv
<1> DEFINE p == Pub(w)
           r == Idle
<1>1. /\ run[w].at = "fail" /\ p \in Publications
      /\ run[w].uncertain \in BOOLEAN
  BY BusyType DEF Fail
<1>2. r.at = "idle" /\ run' = [run EXCEPT ![w] = r]
  BY DEF Fail, Idle
<1> HIDE DEF r
<1>3. CASE UNCHANGED row
  <2>1. /\ UNCHANGED <<status, version, remote, latest, approved, site>>
        /\ UNCHANGED Scene /\ expired' \subseteq expired
    BY <1>3 DEF Fail, Scene, row, site
  <2>2. RowsAreSound' /\ PostsAreSound'
    BY <2>1, UntouchedSound
  <2>3. /\ batch'[w] \subseteq batch[w]
        /\ \A v \in Workers \ {w} : batch'[v] = batch[v]
    BY DEF Fail, TypeOK
  <2>4. RunsAreSound'
    BY <1>2, <2>1, <2>3, StepSound
  <2> QED BY <2>2, <2>4
<1>4. CASE /\ HasLease(w, p)
           /\ status' = [status EXCEPT ![p] =
                IF run[w].uncertain THEN "uncertain" ELSE "failed"]
           /\ owner' = [owner EXCEPT ![p] = "none"]
           /\ expired' = expired \ {p}
           /\ UNCHANGED <<batch, version, staged, remote, latest, approved, site>>
  <2>1. call[p] # "open" /\ status[p] \in Active
    BY <1>1, <1>4, NotOpen DEF HasLease, Active
  <2>2. ~run[w].uncertain => call[p] # "done"
    BY <1>1, <1>4 DEF RunsAreSound, VerdictHolds, Executes
  <2>3. /\ status'[p] = IF run[w].uncertain THEN "uncertain" ELSE "failed"
        /\ \A q \in Publications \ {p} :
             status'[q] = status[q] /\ owner'[q] = owner[q]
    BY <1>1, <1>4 DEF TypeOK
  <2>4. RowsAreSound' /\ PostsAreSound'
    BY <1>1, <1>4, <2>1, <2>2, <2>3, SettledSound
  <2>5. /\ status'[p] # "submitting" /\ expired' \subseteq expired
        /\ \A q \in Publications \ {p} :
             version'[q] = version[q] /\ remote'[q] = remote[q]
        /\ UNCHANGED <<batch, site>>
    BY <1>4, <2>3
  <2>6. RunsAreSound'
    BY <1>1, <1>2, <1>4, <2>1, <2>3, <2>5, DecidedSound
  <2> QED BY <2>4, <2>6
<1> QED BY <1>3, <1>4 DEF Fail

LEMMA ApproveSound ==
  ASSUME RowInv, SiteInv, NEW a \in Articles, Approve(a) PROVE SiteInv'
<1> USE DEF RowInv, SiteInv
<1>1. UNCHANGED <<row, batch, run, site>> /\ \A b \in Articles : approved'[b] # 0
  BY DEF Approve, RowsAreSound, TypeOK
<1>2. RowsAreSound'
  BY <1>1 DEF RowsAreSound, row, site
<1>3. PostsAreSound'
  BY <1>1 DEF PostsAreSound, OnlyPost, RecordedPost, Recorded, PostOf, row, site
<1>4. RunsAreSound'
  BY <1>1 DEF RunsAreSound, CallLeased, VerdictHolds, Executes, HasLease, Pub,
              Shows, PostOf, row, site
<1> QED BY <1>2, <1>3, <1>4

LEMMA NextKeepsSite ==
  ASSUME Reliable, RowInv, SiteInv, [Next]_vars PROVE SiteInv'
<1> USE DEF SiteInv
<1>1. CASE UNCHANGED vars
  BY <1>1 DEF vars, row, site, RowsAreSound, PostsAreSound, OnlyPost, RecordedPost,
              Recorded, PostOf, RunsAreSound, CallLeased, VerdictHolds, Executes,
              HasLease, Pub, Shows
<1>2. ASSUME NEW w \in Workers, Execute(w) \/ Crash(w) \/ Defer(w) PROVE SiteInv'
  <2>1. CASE SendRequest(w) \/ Finish(w) \/ Fail(w)
    BY <2>1, SendSound, FinishSound, FailSound
  <2>2. CASE \/ \E p \in Publications : Begin(w, p)
             \/ Probe(w) \/ Recover(w) \/ RecheckGate(w) \/ SyncAssets(w)
             \/ StageSubmission(w) \/ Await(w) \/ Breaks(w)
             \/ Crash(w) \/ Defer(w)
    <3>1. UNCHANGED <<status, version, remote, latest, approved, site>>
      BY <2>2 DEF Begin, Probe, Recover, RecheckGate, SyncAssets,
                  StageSubmission, Await, Breaks, Crash, Defer, row, site
    <3>2. RowsAreSound' /\ PostsAreSound'
      BY <3>1, UntouchedSound
    <3>3. RunsAreSound'
      BY <2>2, BeginSound, QuietSound, IdleSound DEF RowInv
    <3> QED BY <3>2, <3>3
  <2> QED BY <1>2, <2>1, <2>2 DEF Execute
<1>3. CASE Next
  BY <1>2, <1>3, RequestSound, CancelSound, ReconcileSound, ExpireSound,
     EffectSound, VanishSound, ApproveSound, ClaimSound DEF Next, Work
<1> QED BY <1>1, <1>3

-----------------------------------------------------------------------------
(* The invariant, and what follows from it for any site. *)

\* The site is asked at most once to publish a row, and only when the row was
\* staged before, whichever workers had its lease; and at a site that can be
\* relied on the posts are those of the rows: for any number of rows, workers,
\* crashes and overrun leases.
THEOREM PublicationInvariant == Spec => []IInv
<1>1. Init => IInv
  BY InitRows, InitSite DEF IInv
<1>2. IInv /\ [Next]_vars => IInv'
  BY NextKeepsRows, NextKeepsSite DEF IInv, Reliable
<1> QED BY <1>1, <1>2, PTL DEF Spec

\* However often a row is taken over, the site is asked once.
THEOREM AskedOnce == Spec => []OneRequest
<1>1. IInv => OneRequest
  BY DEF IInv, RowInv
<1> QED BY <1>1, PublicationInvariant, PTL

\* A published, failed or cancelled row stays so, with its post.
LEMMA FinalStep ==
  ASSUME RowInv, Next, NEW p \in Publications,
         status[p] \in {"published", "failed", "cancelled"}
  PROVE  status'[p] = status[p] /\ remote'[p] = remote[p]
<1> USE DEF RowInv, TypeOK
<1>1. ASSUME NEW q \in Publications,
             \/ Request(q) \/ Cancel(q) \/ Reconcile(q) \/ ExpireAbandoned(q)
             \/ Overrun(q) \/ TakeEffect(q) \/ Vanish(q)
      PROVE  status'[p] = status[p] /\ remote'[p] = remote[p]
  BY <1>1 DEF Request, Cancel, Reconcile, Publish, ExpireAbandoned, Overrun,
              Expire, TakeEffect, Vanish, row
<1>2. ASSUME NEW w \in Workers, NEW ps \in SUBSET Publications, ClaimDue(w, ps)
      PROVE  status'[p] = status[p] /\ remote'[p] = remote[p]
  BY <1>2 DEF ClaimDue, Claimable
<1>3. ASSUME NEW w \in Workers, Finish(w)
      PROVE  status'[p] = status[p] /\ remote'[p] = remote[p]
  BY <1>3 DEF Finish, Publish, HasLease, row
<1>4. ASSUME NEW w \in Workers, Fail(w)
      PROVE  status'[p] = status[p] /\ remote'[p] = remote[p]
  BY <1>4 DEF Fail, HasLease, row
<1>5. ASSUME NEW w \in Workers,
             \/ \E q \in Publications : Begin(w, q)
             \/ Probe(w) \/ Recover(w) \/ RecheckGate(w) \/ SyncAssets(w)
             \/ Defer(w) \/ Await(w) \/ Breaks(w) \/ StageSubmission(w)
             \/ SendRequest(w) \/ Crash(w)
      PROVE  UNCHANGED <<status, remote>>
  BY <1>5 DEF Begin, Probe, Recover, RecheckGate, SyncAssets, Defer, Await,
              Breaks, StageSubmission, SendRequest, Crash, row
<1>6. ASSUME NEW a \in Articles, Approve(a) PROVE UNCHANGED <<status, remote>>
  BY <1>6 DEF Approve, row
<1> QED BY <1>1, <1>2, <1>3, <1>4, <1>5, <1>6 DEF Next, Work, Execute

\* A worker whose lease was taken over never overrules its successor.
THEOREM FinalResults == Spec => ResultsAreFinal
<1>1. IInv /\ [Next]_vars =>
        [\A p \in Publications :
           status[p] \in {"published", "failed", "cancelled"} =>
             status'[p] = status[p] /\ remote'[p] = remote[p]]_vars
  BY FinalStep DEF vars, IInv
<1> QED BY <1>1, PublicationInvariant, PTL DEF Spec, ResultsAreFinal

-----------------------------------------------------------------------------
(* What the writers see. *)

\* Whoever looks at the site finds one post, or none, of the article.
LEMMA PostSeen ==
  ASSUME TypeOK, NEW a \in Articles, NEW q, NEW v, OnlyPost(a, q, v),
         \/ q = "none" /\ v = 0
         \/ q \in Publications /\ ArticleOf[q] = a /\ v # 0
  PROVE  Post(a) = q /\ Shown(a) = v
<1>1. CASE q = "none" /\ v = 0
  <2>1. PostsOf(a) = {}
    BY <1>1 DEF PostsOf, OnlyPost
  <2> QED BY <1>1, <2>1 DEF Post, Shown
<1>2. CASE q \in Publications /\ ArticleOf[q] = a /\ v # 0
  <2>1. PostsOf(a) = {q} /\ shows[q] = v
    BY <1>2 DEF PostsOf, OnlyPost
  <2>2. Post(a) = q
    BY <2>1 DEF Post
  <2> QED BY <2>1, <2>2 DEF Shown
<1> QED BY <1>1, <1>2

\* What the writers see: what is recorded, until the request of the row that is
\* under way has taken effect.
Views ==
  \A a \in Articles :
    /\ RowsUnderWay(a) = {} =>
         Wanted(a) = 0 /\ Post(a) = RecordedPost(a) /\ Shown(a) = Recorded(a)
    /\ \A p \in RowsUnderWay(a) :
         /\ Wanted(a) = version[p] /\ version[p] # 0
         /\ IF call[p] = "done"
            THEN Post(a) = PostOf(p) /\ Shown(a) = version[p]
            ELSE Post(a) = remote[p] /\ Shown(a) = Recorded(a)

LEMMA ViewsHold == TypeOK /\ SiteInv => Views
<1> SUFFICES ASSUME TypeOK, SiteInv, NEW a \in Articles
             PROVE  /\ RowsUnderWay(a) = {} =>
                         /\ Wanted(a) = 0
                         /\ Post(a) = RecordedPost(a) /\ Shown(a) = Recorded(a)
                    /\ \A p \in RowsUnderWay(a) :
                         /\ Wanted(a) = version[p] /\ version[p] # 0
                         /\ IF call[p] = "done"
                            THEN Post(a) = PostOf(p) /\ Shown(a) = version[p]
                            ELSE Post(a) = remote[p] /\ Shown(a) = Recorded(a)
  BY DEF Views
<1> USE DEF SiteInv
<1>1. \/ RecordedPost(a) = "none" /\ Recorded(a) = 0
      \/ /\ RecordedPost(a) \in Publications /\ ArticleOf[RecordedPost(a)] = a
         /\ Recorded(a) # 0
  BY DEF RecordedPost, Recorded, RowsAreSound, TypeOK
<1>2. ASSUME RowsUnderWay(a) = {}
      PROVE  Wanted(a) = 0 /\ Post(a) = RecordedPost(a) /\ Shown(a) = Recorded(a)
  <2>1. OnlyPost(a, RecordedPost(a), Recorded(a))
    BY <1>2 DEF RowsUnderWay, PostsAreSound
  <2> QED BY <1>1, <1>2, <2>1, PostSeen DEF Wanted
<1>3. ASSUME NEW p \in RowsUnderWay(a)
      PROVE  /\ Wanted(a) = version[p] /\ version[p] # 0
             /\ IF call[p] = "done"
                THEN Post(a) = PostOf(p) /\ Shown(a) = version[p]
                ELSE Post(a) = remote[p] /\ Shown(a) = Recorded(a)
  <2>1. p \in Publications /\ ArticleOf[p] = a /\ status[p] \in Active
    BY <1>3 DEF RowsUnderWay
  <2>2. RowsUnderWay(a) = {p}
    BY <1>3, <2>1 DEF RowsUnderWay, RowsAreSound
  <2>3. Wanted(a) = version[p] /\ version[p] # 0
    BY <2>1, <2>2 DEF Wanted, RowsAreSound, Active
  <2>4. PostOf(p) \in Publications /\ ArticleOf[PostOf(p)] = a
        /\ remote[p] = RecordedPost(a)
    BY <2>1, PostOfArticle
  <2>5. CASE call[p] = "done"
    BY <2>1, <2>3, <2>4, <2>5, WhatShows, PostSeen
  <2>6. CASE call[p] # "done"
    BY <1>1, <2>1, <2>3, <2>4, <2>6, WhatShows, PostSeen
  <2> QED BY <2>3, <2>5, <2>6
<1> QED BY <1>2, <1>3

\* Everybody else's article looks as before.
SeesSame(a) ==
  /\ Wanted(a)' = Wanted(a) /\ Recorded(a)' = Recorded(a)
  /\ Post(a)' = Post(a) /\ Shown(a)' = Shown(a)

\* A step of the writers' article.
WritersStep(a) ==
  \/ SeesSame(a)
  \/ /\ Wanted(a) = 0 /\ Wanted(a)' = approved[a]
     /\ Recorded(a)' = Recorded(a) /\ Post(a)' = Post(a) /\ Shown(a)' = Shown(a)
  \/ /\ Wanted(a) # 0 /\ Shown(a)' = Wanted(a)
     /\ Post(a)' \in Publications /\ Post(a) \in {"none", Post(a)'}
     /\ Wanted(a)' = Wanted(a) /\ Recorded(a)' = Recorded(a)
  \/ /\ Wanted(a) # 0 /\ Shown(a) = Wanted(a)
     /\ Recorded(a)' = Wanted(a) /\ Wanted(a)' = 0
     /\ Post(a)' = Post(a) /\ Shown(a)' = Shown(a)
  \/ /\ Wanted(a) # 0 /\ Shown(a) = Recorded(a) /\ Wanted(a)' = 0
     /\ Recorded(a)' = Recorded(a) /\ Post(a)' = Post(a) /\ Shown(a)' = Shown(a)

LEMMA WritersOfOne ==
  ASSUME NEW a \in Articles, WritersStep(a), UNCHANGED approved,
         \A b \in Articles \ {a} : SeesSame(b)
  PROVE  [Writers!Next]_(Writers!vars)
<1> DEFINE F == [b \in Articles |-> Wanted(b)]
           G == [b \in Articles |-> Recorded(b)]
           H == [b \in Articles |-> Post(b)]
           I == [b \in Articles |-> Shown(b)]
<1>1. CASE SeesSame(a)
  BY <1>1 DEF SeesSame, Writers!vars
<1>2. CASE /\ Wanted(a) = 0 /\ Wanted(a)' = approved[a]
           /\ Recorded(a)' = Recorded(a) /\ Post(a)' = Post(a)
           /\ Shown(a)' = Shown(a)
  <2>1. F' = [F EXCEPT ![a] = approved[a]] /\ G' = G /\ H' = H /\ I' = I
    BY <1>2 DEF SeesSame
  <2> QED BY <1>2, <2>1 DEF Writers!Next, Writers!Ask
<1>3. CASE /\ Wanted(a) # 0 /\ Shown(a)' = Wanted(a)
           /\ Post(a)' \in Publications /\ Post(a) \in {"none", Post(a)'}
           /\ Wanted(a)' = Wanted(a) /\ Recorded(a)' = Recorded(a)
  <2>1. /\ F' = F /\ G' = G /\ H' = [H EXCEPT ![a] = Post(a)']
        /\ I' = [I EXCEPT ![a] = Wanted(a)]
    BY <1>3 DEF SeesSame
  <2>2. PICK q \in Publications : q = Post(a)'
    BY <1>3
  <2> QED BY <1>3, <2>1, <2>2 DEF Writers!Next, Writers!Appear
<1>4. CASE /\ Wanted(a) # 0 /\ Shown(a) = Wanted(a)
           /\ Recorded(a)' = Wanted(a) /\ Wanted(a)' = 0
           /\ Post(a)' = Post(a) /\ Shown(a)' = Shown(a)
  <2>1. /\ F' = [F EXCEPT ![a] = 0] /\ G' = [G EXCEPT ![a] = Wanted(a)]
        /\ H' = H /\ I' = I
    BY <1>4 DEF SeesSame
  <2> QED BY <1>4, <2>1 DEF Writers!Next, Writers!Record
<1>5. CASE /\ Wanted(a) # 0 /\ Shown(a) = Recorded(a) /\ Wanted(a)' = 0
           /\ Recorded(a)' = Recorded(a) /\ Post(a)' = Post(a)
           /\ Shown(a)' = Shown(a)
  <2>1. F' = [F EXCEPT ![a] = 0] /\ G' = G /\ H' = H /\ I' = I
    BY <1>5 DEF SeesSame
  <2> QED BY <1>5, <2>1 DEF Writers!Next, Writers!GiveUp
<1> QED BY <1>1, <1>2, <1>3, <1>4, <1>5 DEF WritersStep

\* The posts are where they were when the site shows what it showed.
LEMMA PostsSame ==
  ASSUME NEW a \in Articles,
         \A p \in Publications : ArticleOf[p] = a => shows'[p] = shows[p]
  PROVE  Post(a)' = Post(a) /\ Shown(a)' = Shown(a)
<1>1. PostsOf(a)' = PostsOf(a)
  BY DEF PostsOf
<1>2. CASE PostsOf(a) = {}
  BY <1>1, <1>2 DEF Post, Shown
<1>3. CASE PostsOf(a) # {}
  <2>1. Post(a)' = Post(a) /\ Post(a) \in PostsOf(a)
    BY <1>1, <1>3 DEF Post
  <2>2. shows'[Post(a)] = shows[Post(a)]
    BY <2>1 DEF PostsOf
  <2> QED BY <1>1, <1>3, <2>1, <2>2 DEF Shown
<1> QED BY <1>2, <1>3

\* An article whose rows keep their versions, their activity and what they show
\* looks as before.
LEMMA LooksSame ==
  ASSUME TypeOK, RowsAreSound, NEW a \in Articles,
         \A p \in Publications : ArticleOf[p] = a =>
           /\ status'[p] \in Active <=> status[p] \in Active
           /\ version'[p] = version[p] /\ shows'[p] = shows[p],
         latest'[a] = latest[a]
  PROVE  SeesSame(a)
<1>1. RowsUnderWay(a)' = RowsUnderWay(a)
  BY DEF RowsUnderWay
<1>2. \A p \in RowsUnderWay(a) : version'[p] = version[p]
  BY DEF RowsUnderWay
<1>3. Wanted(a)' = Wanted(a)
  <2>1. CASE RowsUnderWay(a) = {}
    BY <1>1, <2>1 DEF Wanted
  <2>2. CASE RowsUnderWay(a) # {}
    BY <1>1, <1>2, <2>2 DEF Wanted
  <2> QED BY <2>1, <2>2
<1>4. Recorded(a)' = Recorded(a)
  BY DEF Recorded, RowsAreSound, TypeOK
<1>5. Post(a)' = Post(a) /\ Shown(a)' = Shown(a)
  BY PostsSame
<1> QED BY <1>3, <1>4, <1>5 DEF SeesSame

\* The row under way is decided: it is recorded with what the site shows, or
\* given up while the site shows what was recorded.
LEMMA DecidedView ==
  ASSUME TypeOK, RowsAreSound, Views, Views',
         NEW p \in Publications, status[p] \in Active, status'[p] \notin Active,
         \A q \in Publications \ {p} : status'[q] = status[q],
         UNCHANGED <<version, shows, approved>>,
         \A b \in Articles \ {ArticleOf[p]} : latest'[b] = latest[b],
         latest'[ArticleOf[p]] \in {latest[ArticleOf[p]], p}
  PROVE  [Writers!Next]_(Writers!vars)
<1> DEFINE a == ArticleOf[p]
<1>1. a \in Articles
  BY PublicationAssumption
<1>2. p \in RowsUnderWay(a) /\ RowsUnderWay(a)' = {}
  BY DEF RowsUnderWay, RowsAreSound
<1>3. Wanted(a) = version[p] /\ version[p] # 0
  BY <1>1, <1>2 DEF Views
<1>4. Wanted(a)' = 0 /\ Shown(a)' = Recorded(a)'
  BY <1>1, <1>2 DEF Views
<1>5. Post(a)' = Post(a) /\ Shown(a)' = Shown(a)
  BY <1>1, PostsSame
<1>6. Recorded(a)' \in {Recorded(a), version[p]}
  BY PublicationAssumption DEF Recorded
<1>7. WritersStep(a)
  BY <1>3, <1>4, <1>5, <1>6 DEF WritersStep
<1>8. ASSUME NEW b \in Articles \ {a} PROVE SeesSame(b)
  BY LooksSame
<1> QED BY <1>1, <1>7, <1>8, WritersOfOne

\* Claims and takeovers, and whatever leaves the rows and the posts alone, show
\* the writers nothing.
LEMMA HiddenView ==
  ASSUME TypeOK, RowsAreSound,
         \A p \in Publications : status'[p] \in Active <=> status[p] \in Active,
         UNCHANGED <<version, shows, latest, approved>>
  PROVE  [Writers!Next]_(Writers!vars)
<1>1. \A a \in Articles : SeesSame(a)
  BY LooksSame
<1> QED BY <1>1 DEF SeesSame, Writers!vars

LEMMA RequestView ==
  ASSUME TypeOK, RowsAreSound, Views, Views', NEW p \in Publications, Request(p)
  PROVE  [Writers!Next]_(Writers!vars)
<1> DEFINE a == ArticleOf[p]
<1>1. a \in Articles
  BY PublicationAssumption
<1>2. /\ status[p] = "absent" /\ status'[p] \in Active
      /\ version'[p] = approved[a]
      /\ \A q \in Publications \ {p} :
           status'[q] = status[q] /\ version'[q] = version[q]
      /\ UNCHANGED <<latest, approved, shows>>
  BY DEF Request, TypeOK, Active, site
<1>3. RowsUnderWay(a) = {} /\ p \in RowsUnderWay(a)'
  BY <1>2 DEF Request, Unblocked, Siblings, RowsUnderWay
<1>4. Wanted(a) = 0 /\ Wanted(a)' = approved[a]
  BY <1>1, <1>2, <1>3 DEF Views
<1>5. Post(a)' = Post(a) /\ Shown(a)' = Shown(a)
  BY <1>1, <1>2, PostsSame
<1>6. Recorded(a)' = Recorded(a)
  <2>1. latest[a] # "none" => latest[a] \in Publications \ {p}
    BY <1>1, <1>2 DEF RowsAreSound, TypeOK
  <2> QED BY <1>2, <2>1 DEF Recorded
<1>7. WritersStep(a)
  BY <1>4, <1>5, <1>6 DEF WritersStep
<1>8. ASSUME NEW b \in Articles \ {a} PROVE SeesSame(b)
  BY <1>2, LooksSame
<1> QED BY <1>1, <1>2, <1>7, <1>8, WritersOfOne

LEMMA EffectView ==
  ASSUME TypeOK, RowsAreSound, PostsAreSound, Views, Views',
         NEW p \in Publications, TakeEffect(p)
  PROVE  [Writers!Next]_(Writers!vars)
<1> DEFINE a == ArticleOf[p]
<1>1. a \in Articles
  BY PublicationAssumption
<1>2. /\ call[p] = "open" /\ call'[p] = "done" /\ status[p] \in Active
      /\ shows' = [shows EXCEPT ![PostOf(p)] = version[p]]
      /\ UNCHANGED <<status, version, remote, latest, approved>>
  BY DEF TakeEffect, TypeOK, RowsAreSound, Active, row
<1>3. PostOf(p) \in Publications /\ ArticleOf[PostOf(p)] = a
  BY <1>2, PostOfArticle
<1>4. p \in RowsUnderWay(a) /\ p \in RowsUnderWay(a)'
  BY <1>2 DEF RowsUnderWay
<1>5. /\ Wanted(a) = version[p] /\ version[p] # 0
      /\ Post(a) = remote[p]
  BY <1>1, <1>2, <1>4 DEF Views
<1>6. /\ Wanted(a)' = version[p]
      /\ Post(a)' = PostOf(p)' /\ Shown(a)' = version[p]
  BY <1>1, <1>2, <1>4 DEF Views
<1>7. PostOf(p)' = PostOf(p) /\ Post(a) \in {"none", PostOf(p)}
  BY <1>2, <1>5 DEF PostOf
<1>8. Recorded(a)' = Recorded(a)
  BY <1>2 DEF Recorded
<1>9. WritersStep(a)
  BY <1>3, <1>5, <1>6, <1>7, <1>8 DEF WritersStep
<1>10. ASSUME NEW b \in Articles \ {a} PROVE SeesSame(b)
  <2>1. \A q \in Publications : ArticleOf[q] = b => shows'[q] = shows[q]
    BY <1>2, <1>3 DEF TypeOK
  <2> QED BY <1>2, <2>1, LooksSame
<1> QED BY <1>1, <1>2, <1>9, <1>10, WritersOfOne

LEMMA ReconcileView ==
  ASSUME TypeOK, RowsAreSound, Views, Views', NEW p \in Publications, Reconcile(p)
  PROVE  [Writers!Next]_(Writers!vars)
<1>1. /\ status[p] \in Active /\ status'[p] \in {"published", "failed"}
      /\ \A q \in Publications \ {p} : status'[q] = status[q]
      /\ UNCHANGED <<version, shows, approved>>
  BY DEF Reconcile, Publish, TypeOK, Active, site
<1>2. /\ \A b \in Articles \ {ArticleOf[p]} : latest'[b] = latest[b]
      /\ latest'[ArticleOf[p]] \in {latest[ArticleOf[p]], p}
  BY PublicationAssumption DEF Reconcile, Publish, TypeOK
<1>3. status'[p] \notin Active
  BY <1>1 DEF Active
<1> QED BY <1>1, <1>2, <1>3, DecidedView

LEMMA SettleView ==
  ASSUME TypeOK, RowsAreSound, Views, Views', NEW w \in Workers, Finish(w) \/ Fail(w)
  PROVE  [Writers!Next]_(Writers!vars)
<1> DEFINE p == Pub(w)
<1>1. p \in Publications /\ UNCHANGED <<version, shows, approved>>
  BY BusyType DEF Finish, Fail, row, site
<1>2. CASE UNCHANGED row
  BY <1>1, <1>2, HiddenView DEF row
<1>3. CASE HasLease(w, p) /\ Publish(p, run[w].post)
  <2>1. /\ status[p] \in Active /\ status'[p] \notin Active
        /\ \A q \in Publications \ {p} : status'[q] = status[q]
        /\ \A b \in Articles \ {ArticleOf[p]} : latest'[b] = latest[b]
        /\ latest'[ArticleOf[p]] = p
    BY <1>1, <1>3, PublicationAssumption DEF Publish, HasLease, TypeOK, Active
  <2> QED BY <1>1, <2>1, DecidedView
<1>4. CASE /\ HasLease(w, p) /\ UNCHANGED latest
           /\ status' = [status EXCEPT ![p] =
                IF run[w].uncertain THEN "uncertain" ELSE "failed"]
  <2>1. /\ status[p] \in Active
        /\ \A q \in Publications \ {p} : status'[q] = status[q]
        /\ status'[p] \in {"uncertain", "failed"}
    BY <1>1, <1>4 DEF HasLease, TypeOK, Active
  <2>2. CASE status'[p] = "uncertain"
    <3>1. \A q \in Publications : status'[q] \in Active <=> status[q] \in Active
      BY <2>1, <2>2 DEF Active
    <3> QED BY <1>1, <1>4, <3>1, HiddenView
  <2>3. CASE status'[p] = "failed"
    <3>1. status'[p] \notin Active
      BY <2>3 DEF Active
    <3> QED BY <1>1, <1>4, <2>1, <3>1, DecidedView
  <2> QED BY <2>1, <2>2, <2>3
<1> QED BY <1>2, <1>3, <1>4 DEF Finish, Fail

LEMMA NextView ==
  ASSUME TypeOK, SiteInv, Views, Views', [Next]_vars
  PROVE  [Writers!Next]_(Writers!vars)
<1> USE DEF SiteInv
<1>1. CASE UNCHANGED vars
  BY <1>1, HiddenView DEF vars, row, site
<1>2. ASSUME NEW p \in Publications,
             \/ Request(p) \/ Cancel(p) \/ Reconcile(p)
             \/ ExpireAbandoned(p) \/ Overrun(p) \/ TakeEffect(p) \/ Vanish(p)
      PROVE  [Writers!Next]_(Writers!vars)
  <2>1. CASE Cancel(p)
    <3>1. /\ status[p] \in Active /\ status'[p] \notin Active
          /\ \A q \in Publications \ {p} : status'[q] = status[q]
          /\ UNCHANGED <<version, shows, approved, latest>>
      BY <2>1 DEF Cancel, TypeOK, Active, site
    <3> QED BY <3>1, DecidedView
  <2>2. CASE ExpireAbandoned(p) \/ Overrun(p) \/ Vanish(p)
    BY <2>2, HiddenView DEF ExpireAbandoned, Overrun, Expire, Vanish, row, site
  <2> QED BY <1>2, <2>1, <2>2, RequestView, ReconcileView, EffectView
<1>3. ASSUME NEW a \in Articles, Approve(a) PROVE [Writers!Next]_(Writers!vars)
  <2>1. \A b \in Articles : SeesSame(b)
    BY <1>3, LooksSame DEF Approve, row, site
  <2> QED BY <1>3, <2>1 DEF SeesSame, Approve, Writers!Next, Writers!Approve
<1>4. ASSUME NEW w \in Workers, NEW ps \in SUBSET Publications, ClaimDue(w, ps)
      PROVE  [Writers!Next]_(Writers!vars)
  <2>1. \A p \in Publications : status'[p] \in Active <=> status[p] \in Active
    BY <1>4 DEF ClaimDue, Claimable, Active
  <2> QED BY <1>4, <2>1, HiddenView DEF ClaimDue, site
<1>5. ASSUME NEW w \in Workers,
             \/ \E p \in Publications : Begin(w, p)
             \/ Probe(w) \/ Recover(w) \/ RecheckGate(w) \/ SyncAssets(w)
             \/ StageSubmission(w) \/ SendRequest(w) \/ Await(w) \/ Breaks(w)
             \/ Crash(w) \/ Defer(w)
      PROVE  [Writers!Next]_(Writers!vars)
  <2>1. UNCHANGED <<status, version, shows, latest, approved>>
    BY <1>5 DEF Begin, Probe, Recover, RecheckGate, SyncAssets,
                StageSubmission, SendRequest, Await, Breaks, Crash, Defer, row, site
  <2> QED BY <2>1, HiddenView
<1> QED BY <1>1, <1>2, <1>3, <1>4, <1>5, SettleView DEF Next, Work, Execute

LEMMA InitView == Init => Writers!Init
<1> SUFFICES ASSUME Init PROVE Writers!Init
  OBVIOUS
<1>1. ASSUME NEW a \in Articles
      PROVE  Wanted(a) = 0 /\ Recorded(a) = 0 /\ Post(a) = "none" /\ Shown(a) = 0
  <2>1. RowsUnderWay(a) = {} /\ PostsOf(a) = {} /\ latest[a] = "none"
    BY DEF Init, RowsUnderWay, PostsOf, Active
  <2> QED BY <2>1 DEF Wanted, Recorded, Post, Shown
<1> QED BY <1>1 DEF Init, Writers!Init

-----------------------------------------------------------------------------
(* What holds at a site that decides requests in time, when a request is over  *)
(* before its lease and connections stay.                                      *)

\* Whatever was cancelled, retried, taken over, reconciled or updated, an
\* article has one post.
THEOREM OnePostPerArticle ==
  ASSUME Decisive, Prompt, ~Disconnects
  PROVE  Spec => []OnePost
<1>1. IInv => OnePost
  <2> SUFFICES ASSUME TypeOK, SiteInv,
                      NEW p \in Publications, NEW q \in Publications,
                      ArticleOf[p] = ArticleOf[q], shows[p] # 0, shows[q] # 0
               PROVE  p = q
    BY DEF IInv, RowInv, OnePost, Reliable
  <2> DEFINE a == ArticleOf[p]
  <2>1. a \in Articles
    BY PublicationAssumption
  <2>2. CASE \E r \in Publications :
               ArticleOf[r] = a /\ status[r] \in Active /\ call[r] = "done"
    <3>1. PICK r \in Publications : OnlyPost(a, PostOf(r), version[r])
      BY <2>1, <2>2 DEF SiteInv, PostsAreSound
    <3> QED BY <3>1 DEF OnlyPost
  <2>3. CASE ~ \E r \in Publications :
                 ArticleOf[r] = a /\ status[r] \in Active /\ call[r] = "done"
    <3>1. OnlyPost(a, RecordedPost(a), Recorded(a))
      BY <2>1, <2>3 DEF SiteInv, PostsAreSound
    <3> QED BY <3>1 DEF OnlyPost
  <2> QED BY <2>2, <2>3
<1> QED BY <1>1, PublicationInvariant, PTL

\* While nothing is under way the site shows what was published last, and
\* nothing of an article that never was: a row recorded as failed or cancelled
\* is not on the site.
THEOREM SiteRecorded ==
  ASSUME Decisive, Prompt, ~Disconnects
  PROVE  Spec => []SiteAsRecorded
<1>1. IInv => SiteAsRecorded
  <2> SUFFICES ASSUME TypeOK, SiteInv, NEW a \in Articles,
                      \A p \in Publications :
                        ArticleOf[p] = a => status[p] \notin Active
               PROVE  IF latest[a] = "none"
                      THEN \A p \in Publications : ArticleOf[p] = a => shows[p] = 0
                      ELSE shows[remote[latest[a]]] = version[latest[a]]
    BY DEF IInv, RowInv, SiteAsRecorded, Reliable
  <2>1. OnlyPost(a, RecordedPost(a), Recorded(a))
    BY DEF SiteInv, PostsAreSound
  <2>2. CASE latest[a] = "none"
    BY <2>1, <2>2 DEF OnlyPost, RecordedPost, Recorded
  <2>3. CASE latest[a] # "none"
    <3>1. /\ RecordedPost(a) = remote[latest[a]] /\ RecordedPost(a) \in Publications
          /\ ArticleOf[RecordedPost(a)] = a
      BY <2>3 DEF RecordedPost, SiteInv, RowsAreSound
    <3> QED BY <2>1, <2>3, <3>1 DEF OnlyPost, Recorded
  <2> QED BY <2>2, <2>3
<1> QED BY <1>1, PublicationInvariant, PTL

\* Claims, takeovers, crashes, lost answers and reconciliations implement
\* ArticlePost, for any rows, articles, workers and versions.
THEOREM KeepsPost ==
  ASSUME Decisive, Prompt, ~Disconnects
  PROVE  Spec => PostKept
<1>1. IInv => TypeOK /\ SiteInv /\ Views
  BY ViewsHold DEF IInv, RowInv, Reliable
<1>2. TypeOK /\ SiteInv /\ Views /\ Views' /\ [Next]_vars
        => [Writers!Next]_(Writers!vars)
  BY NextView
<1> QED BY <1>1, <1>2, InitView, PublicationInvariant, PTL
        DEF Spec, PostKept, Writers!Spec
===============================================================================
