# Verification of GrowthOS SEO

TLA+ models of the parts of GrowthOS where a mistake is expensive and hard to test:
the pipeline that sends outreach e-mail through Gmail, the transactional outbox
that drives it, the send quota of a mailbox, the creation of send intents, the
polling of that mailbox for replies, the paid requests to the data provider, and
the publication of articles to WordPress. TLC checks the models on small
instances; TLAPS proves their central invariants for every value of the
constants.

Paths below are relative to the repository root (`src/` here);
`backlinks/` stands for `backend/core/src/modules/backlinks/`, and `content/`
for `backend/api/app/modules/content/`.

## 1. The system

GrowthOS is a monorepo over one PostgreSQL cluster, one Temporal namespace, Redis
and an S3 store:

- `backend/core` (TypeScript): the backlinks and outreach product. Commands are
  transactions that write their rows and an outbox event together; relays
  consume the events and start Temporal workflows, whose activities do the work
  and call providers (Gmail, DataForSEO, language models).
- `backend/api` (Python, FastAPI): projects, crawling, keywords, audit, content,
  content plan, performance, onboarding, settings, agent; some modules run their
  own background loops with leases in the database.
- `backend/workers` (Python) and `backend/crawler` (Go): Temporal workers.
- `frontend` (React), `deploy`, `scripts`, `docs`.

### 1.1 Inventory

| Component | State | Operations | Interacts with | Hard behaviours | What makes it correct |
|---|---|---|---|---|---|
| **Gmail send pipeline** `backlinks/workflows/gmail-send-workflow.ts`, `application/activities/{send,unknown-send-result}-activity.ts`, `application/services/send-{attempt,reconciliation}.repository.ts`, `runtime/local-product-gmail-runtime.ts` | intent, attempts, reservation, reconciliation rows; the workflow run | claim, dispatch, settle, load, query, recover, reconcile, recovery scan, manual decision | outbox relay, Gmail, quota | activities that outlive their limit, lost answers, redelivery, recovery racing a late call | one delivery per intent, rows that agree, truthful verdicts, lane order, no slot held for ever |
| **Outbox and relays** `backlinks/workflows/outbox-relay.ts`, `db/repositories/outbox.repository.ts` | event rows with status, claim and due time | append, claim, consume, mark published, mark failed | every event consumer | stale claims, shared worker ids, lost marks, crashes in a batch | at-least-once delivery, no publication without one, no event lost |
| **Send quota** in `send-intent.repository.ts` and `send-attempt.repository.ts` | reservations with lane, eligibility, expiry, consumption | reserve, claim, give up, consume, release, postpone | intent creation, pipeline | late settlement of an expired slot, retries | limit of a rolling window, spacing, order |
| **Send intent creation** `send-intent.repository.ts`, `send-resubmission-policy.ts` | intents, idempotency keys, locks | preflight, create | drafts, contacts, bindings, quota, suppression | concurrent transactions under READ COMMITTED, repeated requests, changed inputs | a message goes out once, cooldown, truthful replay, commit as confirmed |
| **WordPress publication** `content/publication*.py` | `article_publications` rows with lease and staging | request, cancel, claim, recover, stage, publish, finish, fail, reconcile | articles, the site | crash between staging and answer, overrun leases, uncertain results | one request per row, one post per article, final results |
| **Provider requests** `application/services/commercial-discovery-request.service.ts`, `db/repositories/provider-{fetch-lease,budget}.repository.ts`, `adapters/dataforseo/commercial-official-runtime.ts` | fetch lease, batches, usage ledger, budget | replay, interrupt, reconcile, recover, acquire, start, reserve, post, poll, settle, fail | recommendation pool, DataForSEO | takeover of an expired lease, lost answers, death between two commits | one paid call per intent, a budget that agrees with its ledger |
| Recommendation pool | generations, refill reservations, admissions | refill, admit, release, cutover | outbox, provider requests | reservation leaks, cutover during refill | a pool at its target, no candidate twice |
| **Mail synchronisation** `runtime/local-product-gmail-sync-runtime.ts`, `application/workflows/mail-{initial,incremental}-sync-workflow.ts`, `workflows/definitions/gmail-polling-sync.workflow.ts` | cursor of a connection, raw references, messages | initial, incremental, projection, polling | Gmail, acceptances of the send pipeline, replies | two runs with one cursor, a break between pages, lanes that change under a run | the cursor never passes an unseen message, every reply is projected |
| Replies, delivery feedback, suppression | replies, bounces, suppression entries | classify, suppress | sync, send | an entry that arrives during a send | nothing is sent to a suppressed contact |
| Gmail connections | OAuth attempts, bindings, secrets | connect, refresh, revoke | Gmail, sends | attempt replay, rotation under use | one active binding, no token of another tenant |
| Drafts, opportunities, placements, reports | versioned rows | one transaction per command | each other | stale version | compare and set |
| Articles, content plan | articles, versions, reviews, preparations | generate, review, dispatch, recover | language models | recovery of a preparation | a preparation runs once |
| Agent | runs, tool executions, campaigns | lease, execute, continue | language models | retake of a tool call | an effect happens once |
| Crawler | frontier, checkpoints | crawl, resume | sites | restart of the activity | no page lost or fetched beyond its budget |
| Projects, keywords, audit, performance, settings, onboarding, workers, provider archive, frontend, deploy | — | request handlers, projections, uploads | — | little | — |

`PROJECT.json` lists the same components with their source files and the reason
for what is left out, and the hazards of the code line by line.

### 1.2 How the modelled parts fit together

```
create transaction ──writes──> intent + reservation + send-intent.created
  (SendSubmission)                    │            (one commit)
        │  quota (MailboxQuota)       ▼
        │                     outbox relay (OutboxRelay ⟹ EventDelivery)
        │                             │ starts, perhaps again
        │                             ▼
        │              workflow run: claim → dispatch → settle   (GmailSend)
        │                             │        └─> Gmail
        └── resubmission, cooldown <──┘ status (GmailSend ⟹ SendPromise)
                                      │ PROVIDER_ACCEPTED: the thread has a lane
polling workflow ─────────> run: lanes → pages → projection   (MailSync)
recovery scan (5 min) ──> run: load → query Gmail → recover / reconcile

recommendation pool ──request intents──> lease → batch → ledger → POST → settle
                                                               (ProviderFetch)
```

## 2. The modules

| Module | Models | Relation |
|---|---|---|
| `EventDelivery` | abstract: what the outbox promises: absent, pending, delivered, published | implemented by `OutboxRelay` |
| `OutboxRelay` | the outbox rows and the loop of every relay | implements `EventDelivery` |
| `SendPromise` | abstract: what the product may rely on: at most one copy, "sent" and "failed" are true, doubt ends by evidence or an operator | implemented by `GmailSend`, used by `SendSubmission` |
| `SlotLane` | abstract: the slots of a mailbox in the order they are served: reserved at the end of a lane, dispatched one at a time, settled or given up | implemented by `GmailSend` and by `MailboxQuota` |
| `GmailSend` | the life of the intents of one mailbox after their commit | instantiates `EventDelivery` for its events, implements `SendPromise` and `SlotLane` |
| `MailboxQuota` | the same slots against a clock | implements `SlotLane`, adds the times that `GmailSend` abstracts |
| `SendSubmission` | concurrent preflights and create transactions | instantiates `SendPromise` as the pipeline behind it |
| `ArticlePost` | abstract: what publishing promises the writers of an article: one post that keeps its place, recorded when it shows what was asked for, given up only when it is as it was | implemented by `ArticlePublication` |
| `ArticlePublication` | publication rows, orchestrators, operators and site | implements `ArticlePost` |
| `ProviderFetch` | the attempts of request intents, their lease, batches and budget, the provider | stands alone |
| `MailSync` | the runs of the polling workflow, the cursor, the mailbox | sees the pipeline's acceptances as `Accept` |
| `*Proofs` | the theorems | one per detailed module above; `GmailSend` has two (`SendPromiseProofs`) |
| `MC*` | instances for TLC | |

Operators whose name ends in `Faulty` are plausible mistakes in the definition that
follows them. No specification uses one; they are what each property is
tested against: put in place of the right definition, the property must fail.

### 2.1 GmailSend

State: `intent`, `attempt`, `attemptNo`, `reservation`, `reconciliation`, `lane`
are columns of the four tables; `outbox` is the `send-intent.created` event;
`pc` and `seen` are the open workflow run of an intent (at most one, by workflow
id) and what the activity before has returned; `call` is the dispatch activity of
each attempt as far as Gmail; `lateSettles` are settle activities whose run no
longer waits for them.

| Action | Code |
|---|---|
| `CreateIntent` | the inserts of `create`: intent, reservation, event |
| `RelayDeliver`, `RelayPublishes` | the relay starts a run (rejected as a duplicate when one is open) and marks the event |
| `RecoverStaleSend` | `recoverStaleDispatches` starts a run for an attempt that is DISPATCHING for 5 minutes |
| `ClaimAnswered`, `ClaimGivesUp`, `ClaimSlot` | the three ends of `claim` |
| `PassGate`, `CallGmail`, `NotSent`, `GmailAccepts`, `CallLost` | the dispatch activity: policy gate, request, refusals, delivery, lost calls |
| `ReturnAccepted`, `ReturnUnknown` | what dispatch returns to the run |
| `Settle`, `LateSettle` | `settle`, by the run or after its run was closed |
| `Load`, `QueryFound`, `QueryNotFound`, `QueryInconclusive`, `Recover` | the recovery branch |
| `Reconcile`, `ManualDecision` | `SendReconciliationRepository.record` by the run and by an operator |
| `ActivityTimesOut` | an activity exceeds `startToCloseTimeout`; its effect may still come |
| `Expire` | the reservation passes `expires_at` |

Activities have `maximumAttempts: 1`, so Temporal never repeats one, but a timeout
of 30 s closes the run while the activity's transaction or HTTP call goes on.
The model keeps exactly that: a timed-out dispatch leaves `call` where it is,
and a timed-out settle moves to `lateSettles`. Time itself is abstract.

`CallsOutlive` is the one timing assumption. Recovery looks at an attempt after
five minutes; the Gmail client sets no timeout, so nothing in the code bounds
the call. With `CallsOutlive = FALSE` no call is unresolved at the start of a
new run; with `TRUE` it may be.

### 2.2 OutboxRelay

State: the row of each event (`status`, claim owner, due, stale), and of each worker
its batch and the step of its loop. The actions are `append`, `claim` (pending
and due rows, or processing rows whose claim is stale), the consumer's effect
(`Consume`) or exception (`ConsumeThrows`), the fenced marks, each of which may
commit and then throw (`MarkPublishedThrows` is the lost answer), `MarkFailedThrows`
which leaves the loop in mid-batch, and `Crash`. The fence is
`claimed_by = workerId AND status = 'processing'`; ids are
`backlinks-worker:<pid>`, which two hosts may share, so `IdOf` need not be
injective.

### 2.3 MailboxQuota

One connection, one clock, and the times of the rows. `Reserve` counts what is
consumed in the window and what is reserved and not expired (`Used`), refuses at
the limit and computes `eligible_at`; `Claim` requires eligibility, a free lane
and a slot that is alive, or else `GiveUp` releases it; `Consume`, `Release` and
`Postpone` are the three things a settlement does to a slot. `Consume` does not
look at `expires_at`, as the code does not.

`GmailSend` and `MailboxQuota` model the same rows, one with the runs and without
time, the other with time and without the runs. `SlotLane` is what they have in
common: `slot` (the reservation), `lane`, `lastLane`, `attemptNo` and the intent that is
`dispatching`. Both have a property `LaneKept`, and that both implement `SlotLane` is
why an order or an exclusion found in one may be relied on in the other: `Consume` in
the one is a `Settle` or `LateSettle` in the other, both are `SlotLane`'s `Settle`.

### 2.4 SendSubmission

The preflight is one step (it commits nothing a later step relies on without
checking again). `create` is a sequence of statements, each a step, with the
commits of other transactions between them: lock the mailbox, look up the client
key, lock the draft, read the contact `FOR SHARE`, look up the logical message,
read the binding, take the outreach lock and apply the cooldown, and insert with
the commit. To wait for a lock and to read under it is one step. `Refuse` stands for
every check that is not about these rows (suppression, kill switch, identity,
quota, age of the snapshot) and may happen at any statement. `Revise` is any
command that changes a draft, a contact or a binding; locks keep it out.
`Progress`, `Fail` and `Tick` are the rest of the world: the pipeline as
`SendPromise` allows it, the evidence that makes a failed message replaceable, and
the clock. The row lock of the opportunity is left out, which only adds
interleavings. A message is its draft version with its purpose. Stored
intents of the key format now in use never match the legacy key, so the first
lookup is by the client's key only.

### 2.5 ArticlePublication

State: the columns of `article_publications` (`status`, `version`, `owner`, the
expired leases, `staged`, `remote`), of each article the approved version and the
latest publication, of each worker its claimed batch and its step, and of the
site the requests made for a row, the last of them, and what the posts show.
Operators `Request` (new, retry or update), `Cancel` and `Reconcile`; workers
`ClaimDue`, then for each row `Begin`, `Probe`, `Recover`, `RecheckGate`,
`Renew`, `SyncAssets`, `StageSubmission`, `SendRequest`, one of `Accepted`,
`Rejected`, `TimedOut`, and `Finish` or `Fail`; `Breaks` is an exception on the way.
The site lets a request `TakeEffect` or `Vanish`. `Overrun`, `Crash` and `Defer`
are the troubles, counted by `MaxTroubles`.

Three constants name what the code relies on and cannot enforce:
- `Decisive`: the site acts on a request within the client's limit or never, and
  an HTTP error means that it did not act;
- `Prompt`: a request (30 s at most, `content/publication.py:20`) is over before the
  lease renewed for it (180 s, `backend/api/app/config.py:49`) expires, and
  before an operator reconciles the row;
- `Disconnects`: the WordPress connection may be removed while a request is
  pending.

`PostKept` maps all this to what a writer sees of an article (`ArticlePost`): `wanted` is
the version of its active row, `recorded` the version of the row published last,
`post` and `shown` the post of the site that shows something. A request that takes
effect is `Appear`; `Finish` and a reconciliation that finds the post are `Record`;
`Cancel`, `Fail` and a reconciliation that finds nothing are `GiveUp`; claims,
takeovers, stagings, crashes and uncertain results are not visible.

### 2.6 ProviderFetch

`CommercialDiscoveryRequestService.execute` for request intents that ask for the
same thing. They share a fingerprint and with it the row of
`provider_fetch_leases` (`lease`); each has its own row of the usage ledger, for its
reservation key is its id. `status`, `intent`, `started` and `task` are columns of
the batches, `limit`, `reserved` and `spent` of the budget; `pc`, `of`, `at` and `cur`
are an attempt, with its intent, the `now` it began at and its batch; `sent` and
`posted` are what the provider has of the requests. Two histories serve the
properties: `late` are the batches that the provider accepted when they had reached
the age of `Grace`, `exposed` the intents that lost a lease they had paid under or two
attempts of which were under way at once.

The activity may be retried after thirty minutes while the attempt it started goes on
(`recommendation-pool-v2.workflow.ts:41-44`). What keeps the retry out is the advisory lock of
the generation (`commercial-recommendation-discovery.service.ts:2069-2079`), which
a session of its own holds while the requests are executed on others. PostgreSQL
frees it when that session is lost, and the attempt does not notice:
`SessionsLast` says that this does not happen.

| Action | Code |
|---|---|
| `Begin` (`Locked`, `Replays`) | the lock of the generation is taken; a completed result is read back, else the attempt begins |
| `TransitionInterruptedRequest`, `FindRecoverable` | an expired lease of one's own with a running batch; an unknown charge that was reserved |
| `ReconcileDispatchedTask`, `StoreTask`, `ReconcileNotDispatched` | the provider lists the tasks with the fingerprint: keep the one, or give back what is older than `Grace` |
| `RecoverAcceptedTask`, `PersistRecovered` | the result of an accepted task |
| `AcquireLease`, `StartRequest`, `StartFails`, `Authorize` | lease, batch, `reserveBudgetWithinOperationCeiling` |
| `NotSent`, `Post`, `Accept`, `Refuse`, `Answered`, `TimesOut`, `Polled` | the call and what becomes of it |
| `PersistSuccessfulRequest` (`Settles`), `Fail` | the settlement; the catch block |
| `Throws`, `Crash` | an error that leaves everything as it is; the worker dies |

The lease has no heartbeat: it ends two minutes after the `now` the attempt began
with, whatever the attempt is doing. The provider may accept a POST at any time after it was
sent, its client waiting or gone. Amounts are counted in requests: each reserves
one, and the settlement replaces this by what the provider charged (`Costs`), which
nothing but the CHECK of the budgets bounds
(`provider-budget.repository.ts:641-642`, migration `0002_backlink_provider_seo.sql:203-209`):
a settlement that leads over the limit is rolled back. An `endpoint` is a "queue" whose tasks the provider lists, or "live".

### 2.7 MailSync

One connection. Message *k* is the *k*-th the mailbox receives, and *k* is the
history id it leaves behind. `cursor` is the row of
`backlink_gmail_connection_sync_cursors`; the page token it holds is modelled by
what it stands for, the position down or up to which pages have been read (`pos`).
`stored` are messages with a raw reference, `projected` those with a row in
`backlink_mail_messages`. A worker `w` is one attempt of the activity: `routes` are
the threads it keeps, `todo` the projects it has yet to read or project, `check` the
checkpoint it goes by, `page`, `upTo` and `snapshot` its page. `current` is the attempt
the workflow waits for; after a timeout the attempt goes on and the workflow starts
another.

| Action | Code |
|---|---|
| `StartCycle` | the polling workflow's next activity |
| `ReadLane`, `NoLanes` | the lanes of every project, the kill switch before the threads |
| `LoadOrCreateCheckpoint`, `InvalidCursor`, `LoadCheckpoint` | the readers of the cursor, one for each of the two syncs |
| `ListInitial`, `ReadProfile`, `SnapshotChanged` | a page of `messages.list`, then the profile, whose history id must stay |
| `ListHistory`, `HistoryExpired`, `LaneUnavailable` | a page of `history.list`; 404; no lane to take an access token from |
| `Verify`, `Insert`, `Advance`, `Stale` | `persistPage`: a transaction that compares, one per message, one that advances, or the answer `stale` |
| `Project`, `Finish` | the projection of each lane |
| `Breaks`, `TimesOut` | a call fails or the worker dies; five minutes are over |
| `Accept`, `Pause`, `Resume`, `Arrive`, `Forget` | the send pipeline, the kill switches, the mailbox |

`messages.get` is part of the listing that names the message; the messages of a page may be
inserted in any order. The query of the initial sync with its lookback window is
left out: every message is young enough.

## 3. What TLC checks

| Run | Instance | Shows |
|---|---|---|
| `send_one` | one intent, three attempts (the code's maximum), every activity may time out; 145 k states | the inductive invariant `IInv`, and in it `RowsAgree`: intent, latest attempt, reservation and reconciliation form one of 13 combinations. `AtMostOneDelivery`, `FailedMeansNotSent`, `AcceptancesAreTrue`, `FactsAreFinal` (settled rows never change), and `PromiseKept` (implements `SendPromise`) |
| `send_two` | two intents of a mailbox, one attempt, dispatch may time out; 97 k states | `LaneKept` (implements `SlotLane`) with two intents in the lane; `VerdictsAreTrue`, which the proof of at-most-once rests on; `SlotEventuallyFreed`: no slot blocks its lane for ever |
| `send_outlive` | as `send_one` with two attempts and `CallsOutlive` | **violated**: `AtMostOneDelivery` |
| `outbox` | two events, two workers with one id, batches up to 2; 7 k states | `IInv`, `DeliveryKept` (implements `EventDelivery`), `EventuallyPublished` |
| `quota_safe` | four intents, limit 2, window 4, TTL 2, two attempts, clock to 5; 2.6 M states | `IInv`, `LimitPlusOne` (the window holds at most one send above the limit), `SendsAreSpaced`, `LaneKept` (implements `SlotLane`) |
| `quota_limit` | the same | **violated**: `RollingLimit` |
| `submit_race` | three requests: two for one message from two mailboxes, one that reuses a key for another draft to the contact; one command that changes a draft, the contact or a binding; 694 k states | `IInv`, `NoMessageTwice`, `CooldownKept`, `AnswersNameTheMessage`, `ConfirmedAtCommit` (what the operator confirmed is what is committed), `EventuallyAnswered` (no deadlock of the locks) |
| `publication` | three rows of one article, two workers, one trouble, two versions; 195 k states | `IInv`, `OneRequest`, `OnePost`, `SiteAsRecorded`, `ResultsAreFinal`, `PostKept` (implements `ArticlePost`), `EventuallyDecided` |
| `fetch` | two intents, two attempts (one each or both of one: not `SessionsLast`), two batches, lease and grace of one tick, clock to 1, charges of 0, 1 or 2 requests under a limit of 1 or 3, both kinds of endpoint; 3.7 M states | `IInv`; `OneCall` (asked once, unless another intent took over the lease of an intent that had paid, or two attempts of the intent overlapped), `ReleasedMeansUncharged` (a reservation is given back only for a request that the provider had not accepted by the age of `Grace`), `BudgetExact` (reserved is the sum of the open rows; the limit is kept whatever is charged), `HolderUndisturbed` (nobody changes a lease that has not run out), `FinalFetches` |
| `fetch_twice` | three batches, clock to 2, a charge of 1, one attempt of an intent at a time (`SessionsLast`) | **violated**: `OneCallPerIntent` |
| `mail` | two threads of a project, three messages, one of them before the first cycle, pages of one, two runs, one trouble; 1.0 M states | `IInv`, `DueAreStored` (the cursor passes a message that is due only when it is stored), `CursorNeverBack`, `EventuallyProjected` |
| `mail_stuck` | the same | **violated**: `InterruptedResumes` |

### 3.1 Findings

1. **A call that outlives recovery sends twice** (`send_outlive`). The Gmail client
   has no timeout (`google-gmail-provider-client.ts:155`). After five minutes the
   recovery searches the mailbox; what the search does not list is settled as
   retryable (`unknown-send-result-activity.ts:85`) and sent again, although PB-C2
   (`backend/core/docs/execution/parallel-blocks/PB-C2-GMAIL-SEND-result.md:242-243`)
   says that missing evidence never triggers another send. When the first call takes
   effect after the search, the e-mail arrives twice.
2. **The rolling limit can be exceeded by one** (`quota_limit`). A slot is not
   counted after `expires_at`, although its attempt may still be dispatching;
   its place is given away and its settlement consumes all the same. `LimitPlusOne`
   shows, and `WindowBound` proves, that it is never more than one: the lane
   allows a single dispatch at a time.
3. **A request can be paid for twice** (`fetch_twice`). The lease ends after two minutes
   while the client may wait for five (`deploy/compose/.env.example:45`). Another intent takes it
   over; the retry of the first one then no longer sees its own interrupted batch, its open
   reservation counts as an exact replay, and it posts again.
   `docs/architecture/backlinks-core-value-chain-remediation-v1.md:581-584` rules out a
   new paid request for the replay of an operation. `OneCall` shows, and
   `AskedOnce` proves, that this takeover is the only way for an intent with one
   attempt at a time, as the lock of the generation has it; the other way is that the
   session of this lock is lost (3.2).
4. **An interrupted incremental sync stops a mailbox for good** (`mail_stuck`). Between two
   pages the row of a completed initial sync holds a page token
   (`local-product-gmail-sync-runtime.ts:1006`). Every later run begins with the reader
   that throws for exactly such a row (line 516), and nothing else writes the row. PB-D
   (`PB-D-MAIL-REPLY-result.md:947-948`) says that the sync resumes from the page token.

### 3.2 Seen on the way

Modelled as the code has it, without a run of their own:

- *Publication.* Any HTTP error of the creating request is final
  (`content/publication.py:326`), a gateway timeout before a site that is still working
  included: with `Decisive = FALSE` TLC finds a retry that creates a second post
  (`OnePost`). `stage_remote_submission` checks the owner of a lease and not its
  expiry: without `Prompt` TLC finds a late update that overwrites a newer one, and
  with `Disconnects` a row that failed although its post exists (`SiteAsRecorded`
  fails in both).
- *Sending.* `create` and `settle` take different advisory locks (`gmail-daily-quota`,
  `gmail-send`) where PB-C2:73-74 speaks of one. A slot whose claim or settle
  activity was lost outside DISPATCHING is never freed (section 3.4).
- *Outbox.* An event whose consumer always throws is retried every five seconds for ever:
  `attempt_count` is counted and never capped (`outbox-relay.ts:584`).
- *Provider requests.* Reconciliation takes a request that the provider does not list 120
  seconds after its start for not dispatched (`commercial-official-runtime.ts:722-729`), but
  the client may wait for 300 (`deploy/compose/.env.example:45`): a POST accepted in between is
  given back and then charged (`late`). The provider's own charge is added without a
  cap; when it leads over the limit, the CHECK rolls the settlement back, the
  batch stays running, the next attempt of its intent finds it unknown, and its recovery is rolled back
  again for as long as the limit stands. When the session of the generation's lock is
  lost, two attempts of an intent overlap: the second may start a batch under the
  first one's open or settled row, as an exact replay, and post again. A refused poll of an accepted task gives its reservation back
  (`commercial-official-runtime.ts:488`), which is the exception in
  `ReleasedMeansUncharged`. After `ReconcileNotDispatched` the repost is always
  refused by the released row of the ledger (`RESERVATION_CONFLICT`), although a test
  calls it "safely reposting"
  (`test/unit/commercial-recommendation-discovery.service.test.ts:1308`). An error
  of `persistSuccessfulRequest` is not caught, for its promise is not awaited in the `try`
  (`commercial-discovery-request.service.ts:1049`): the batch stays running until its
  lease expires. An attempt that dies between its batch and its reservation ends with
  an unknown lease that no later attempt resolves, and the unknown charge of a live
  endpoint cannot be reconciled.
- *Mail.* A reply is lost when nothing keeps it: when it comes between the creation of
  the cursor and its snapshot, while its project is paused, or before a run under
  way has learned of its thread; the cursor of the connection passes it all the same, although
  PB-D:952-953 lets the cursor advance only after all references of a page are stored. `Due` leaves these out, which makes `DueAreStored` a statement about
  all the others. A message that arrives between two pages of the initial sync
  changes the history id, and every later run fails on it; expired history is reported
  and never repaired (the repair has no caller outside tests). `EventuallyProjected`
  excepts these connections (`Stuck`). A message that was deleted for good makes
  `messages.get` fail in every run that lists it.

### 3.3 Bounds

- *Intents.* The properties of `send_one` are about one intent, and intents meet only in
  the lane, which `send_two` checks with two: a lane violation is about a pair.
- *Attempts.* Three is what the code allows; `send_two` takes one, so that the product
  of two intents stays small. Retries are in `send_one`, and the theorems hold for
  any number.
- *Timeouts.* `send_one` lets every activity time out. `send_two` restricts this to
  dispatch: the other activities touch no state of the other intent before
  they commit, the fairness needs it (3.4), and the proofs do without it.
- *Quota.* Four intents are the least with which two sends are in the window, one is
  late and one is new; TTL below window, the interval at least one, a retry delay
  that can reach the expiry exactly. The clock stops at `Horizon`, past the first
  end of the window; so `quota_*` has no deadlock check.
- *Submission.* Two requests meet in every lock; the third reuses a key of the first for
  another draft to the same contact. One change of a draft, the contact or a
  binding can fall between any two statements. The clock can reach the end of
  the cooldown (1).
- *Publication.* Three rows are what a second post or an overwritten update needs: a first
  publication, its retry or update, and one more. Rows are requested in the
  order of their names (`InOrder`): they are interchangeable before they are
  requested, so every behaviour is a renaming of one that is checked. One
  article makes a batch one row long; longer batches are covered by the theorems.
- *Provider requests.* Two intents are enough for a takeover; two attempts for
  each to have one or for one to have both. Two batches let an intent ask again
  after a failure, and the violation needs a third (one of the intruder, two of
  the victim). Lease and grace of one tick, clock to 1: an attempt can begin
  before and at the end of a lease, and a request is accepted before and at the age of
  `Grace`. An instance with the clock to 2, charges of 1 or 2 and the limit 2 (12.1 M
  states, five minutes) satisfies the properties too. The
  limit of 1 bears one request at its price, and no two; the limit of 3, to which it may be raised,
  bears two, but not if both cost twice as much. A charge may be less than was reserved, as much or
  more. Intents and attempts are interchangeable, so they are permuted (`SYMMETRY`,
  safety only).
- *Mail.* Pages of one message, so that every message is a page and a run can break off or be
  overtaken between any two; one message before the first cycle and two later
  make an initial and an incremental sync of several pages. Two runs: one the
  workflow has given up and its successor. One trouble is a break-off, a timeout or
  forgotten history; `MaxTroubles` bounds them together. An instance with two
  projects and two messages (10.4 M states) satisfies the safety properties too.
- Deadlock is checked in `outbox` and `mail`. The other systems do stop: every intent is
  settled, every request is answered, the clock is at its end, the bound of the
  batches is reached.

### 3.4 Fairness

- `OutboxRelay`: time passes and every worker goes on with its loop (weak). Strong for
  the claim of each event (the claim takes the oldest due rows first), for a consumer that
  succeeds while its claim is valid, and for the mark after it: not every call
  fails or outlives its claim, and not every mark is lost. Without them a poison
  event is retried for ever, as in the code.
- `GmailSend`: the relay, the recovery scan (a timer in the runtime) and Temporal
  go on; a call ends at some time, and the search of Gmail is not down for ever
  (strong). `SlotEventuallyFreed` is checked with dispatch as the only
  activity that times out, because the recovery scan looks for DISPATCHING
  attempts only: when claim or settle is lost in another state no action of the code
  frees the slot. `PROJECT.json` lists this as a hazard without a property.
- `SendSubmission`: PostgreSQL grants a free lock and executes statements. Preflights
  need not happen.
- `ArticlePublication`: every orchestrator polls (one runs in each API process), the
  lease of a worker that has gone expires, the site acts or the request is lost,
  and operators reconcile what is uncertain. `EventuallyDecided` excepts an update
  that stays uncertain: reconciliation finds the post with its old content and
  refuses (`publication_remote_payload_mismatch`), and nothing ends it.
- `MailSync`: the polling workflow starts the next cycle, and the run it waits for goes on
  or fails (the activity has one attempt, and a timer starts the next). Nothing is promised of a run it no
  longer waits for, nor that messages arrive or switches are opened.
- `ProviderFetch` states no fairness: what its attempts cannot finish is
  left to operators (the unknown charges above). It assumes nothing of the time a POST takes
  nor of what it costs. `SessionsLast` (no attempt outlives the session
  that holds its generation's lock) is assumed in `fetch_twice` only, where it makes the
  violation the stronger; `fetch` and the theorems do without.

## 4. What is proved

All theorems are checked by TLAPS to the last leaf. They hold for every value of
the constants that satisfies the `ASSUME`s of the module (naturals, Booleans,
finite intents, functions of the right type).

| Module | Theorem | Statement |
|---|---|---|
| `GmailSendProofs` | `Inductive`, `TypeCorrect`, `RowsAlwaysAgree`, `OnlyRetryableRetried`, `MailboxInLaneOrder`, `Finality`, `KeepsLane` | `[]IInv`, its parts, `FactsAreFinal`, and that `GmailSend` implements `SlotLane`; also with `CallsOutlive` |
| | `AtMostOnce`, `FailuresWereNotSent`, `VerdictsTrue` | `AtMostOneDelivery`, `FailedMeansNotSent` and `VerdictsAreTrue`, if not `CallsOutlive` |
| `SendPromiseProofs` | `AcceptancesHold`, `KeepsPromise` | a recorded acceptance is true; `GmailSend` implements `SendPromise` if not `CallsOutlive` |
| `OutboxRelayProofs` | `RelayInvariant`, `RelayKeepsDelivery` | `[]IInv`; `OutboxRelay` implements `EventDelivery` |
| `MailboxQuotaProofs` | `QuotaInvariant`, `WindowBound`, `Spacing`, `KeepsLane` | `[]IInv`, at most one send above the limit, spacing; `MailboxQuota` implements `SlotLane` |
| `SendSubmissionProofs` | `SubmissionInvariant`, `MessagesOnce`, `Cooldowns`, `AnswersAreTrue`, `CommitsAsConfirmed` | `[]IInv` and the four properties |
| `ArticlePublicationProofs` | `PublicationInvariant`, `AskedOnce`, `FinalResults` | `[]IInv`, one request per row, final results; for any `Decisive`, `Prompt` and `Disconnects` |
| | `OnePostPerArticle`, `SiteRecorded`, `KeepsPost` | `OnePost`, `SiteAsRecorded`, and `ArticlePublication` implements `ArticlePost`, if `Decisive`, `Prompt` and not `Disconnects` |
| `ProviderFetchProofs` | `FetchInvariant`, `AskedOnce`, `ReleasedUncharged`, `Budget`, `Undisturbed`, `Final` | `[]IInv` and the five properties of `fetch`; for any `Costs`, with and without `SessionsLast` |
| `MailSyncProofs` | `MailInvariant`, `DueStored`, `NeverBack` | `[]IInv`, nothing due is passed unless stored, the cursor never goes back |

The arguments:

- **GmailSend.** `RowsAgree` is not inductive alone: a settlement changes rows on the word of
  the run that holds it. `RunsAgree` adds that a run about to dispatch or settle
  works on the latest attempt and that this is DISPATCHING, and that a late
  settlement names no attempt beyond the latest and never that of a run that is still
  at it. `LaneOrder` needs that lanes are numbered by arrival. `SlotLane` asks in
  addition that nothing is dispatching at a claim, which no guard of the code
  reads: whoever is dispatching has been claimed, so by `LaneOrder` nobody still
  reserved is before it, and since the claim finds nobody reserved before its own
  slot, and lanes are distinct, the two are one; but an attempt that dispatches is not
  claimable (`FirstOfTheLane`). For at-most-once
  the invariant says nothing of Gmail; `VerdictsAreTrue` does: whoever says "not
  sent" — a row, a run, a late settlement — is right. It is inductive only when no
  call is unresolved at the start of a run, which is what `send_outlive` shows.
  One delivered call then bars every later claim.
- **SendPromise.** The refinement maps FAILED_FINAL to *failed*, or *disowned* when an
  operator decided it, and a copy to each accepted call. *Accept* needs
  `AcceptancesAreTrue`, *Fail* needs `VerdictsAreTrue`.
- **OutboxRelay.** Marks are fenced by an id that may be shared, so the fence cannot be the
  argument. A worker reaches the mark only after its own consumption, which no one
  takes back; and the marks require `processing`, so a published row is never
  changed.
- **MailboxQuota.** Used slots and the one that strays (dispatching past its expiry) are at
  most the limit plus one. That only one may stray follows from the lane: a claim needs
  every earlier slot settled. `ClaimsAreSpaced` carries the interval from a settlement
  over the wait to the next claim. The step to `SlotLane` is the same argument
  without the runs (`ClaimsOneByOne`).
- **SendSubmission.** What a statement found is kept by what the transaction has locked: draft
  versions by the draft lock (also against other mailboxes, where the mailbox lock is
  no help), outreaches by the outreach lock. `OneOpen` (of the intents of a message at
  most one cannot be replaced) together with `NotDelivered` (a failed one never
  arrives, from `SendPromise`) gives `NoMessageTwice`.
- **ArticlePublication.** A request follows a staging by the same worker, and staging is fenced
  by the lease. `Staging` says that no worker that may still stage a row holds its
  lease when the row is staged; whoever takes it over finds it staged and only
  looks. This needs nothing of the site (`RowInv`).
  What the posts show needs `SiteInv`, which holds of a reliable site:
  - `RowsAreSound`: an article has one active row, and no request is open for a row
    that is not being submitted;
  - `CallLeased`: a worker about to send has a lease that lasts, and while a request is
    open its owner waits for it. `Prompt` is used here: without it a stalled worker
    sends after its row was given up, and the next row is overwritten;
  - `VerdictHolds`: a worker that fails its row for good knows that the request had no
    effect, one that finishes it has seen the post with the right version. `Decisive` is
    used for an HTTP error and for the end of a wait, no `Disconnects` for a pending row;
  - `PostsAreSound`: only the recorded post shows anything, in the recorded version, until
    the request of the active row is done, and then that row's version on the same post.

  `OnePost` and `SiteAsRecorded` are two readings of `PostsAreSound`. For the refinement,
  `SiteInv` determines what the mapping shows (which row is active, which
  post shows something), so that each action changes it as one step of `ArticlePost` or
  not at all.
- **ProviderFetch.** `Alone(i)` is about an intent with one attempt at a time, whose lease
  was never taken over after it had paid: lease and batch of the intent are in the same state, and all its batches
  but one have failed. Only an `AcquireLease` of another intent can part them, and
  that exposes the owner of an acquired or completed lease; unknown leases are
  never taken. Its own expired lease is no danger: the interruption and the acquisition
  compare with the same `now`, so a running batch is always found first, and the
  exact replay of a reservation is unreachable.
  `ReleasedMeansUncharged` cannot rest on this, for it is about exposed intents too.
  `Workers` gives what remains with overlapping attempts: the batch an attempt started is
  its own, and it is posted once. So a batch that was released is `Gone`: old enough
  that a later acceptance is `late`, or neither under way nor about to be sent, and
  both stay so. `BudgetExact` counts the open rows of the
  ledger; each row is closed together with the amount it stands for, and what a
  settlement puts in its place stays within the limit, because it is rolled back otherwise.
- **MailSync.** `DueAreStored` needs to know of every run whether it would keep the message.
  `DueAreKept` says that what is due stays routed and that every run keeps it or has
  still to read its lane; `PageComplete`, that a page holds what is due on it and not
  stored; so at the end of a page with nothing left to insert, what is due on it is
  stored. `CheckKnown` says that checkpoints are cursors of the past, so that `Matches`
  lets only the page behind the cursor advance it; `CursorIsSound`, that nothing due falls between
  the creation of the cursor and its snapshot.

### 4.1 What is only model-checked

Liveness (`EventuallyPublished`, `SlotEventuallyFreed`, `EventuallyAnswered`,
`EventuallyDecided`, `EventuallyProjected`): the prover has no rules for fairness
with `ENABLED`. The four violations, which are counterexamples. Every invariant and
every action property of a passing run, and all five refinements, are theorems.

## 5. Plan

1. *Done*: outbox, send pipeline, quota, submission, publication, with their abstract
   specifications `EventDelivery`, `SlotLane`, `SendPromise` and `ArticlePost`; provider
   requests; mail polling; the theorems above.
2. Recommendation pool: refill reservations and the preclaim of their events on top of
   `EventDelivery`, generations and their cutover, with `ProviderFetch` behind
   them. To prove: no candidate is admitted twice.
3. Delivery feedback and suppression, as a source of the refusals of `SendSubmission`
   and of the policy gate of `GmailSend`, fed by what `MailSync` projects.
4. Media mappings of a publication (leases per asset); longer batches.
5. Agent tool leases, dispatch and recovery of the content plan, crawler
   checkpoints, Gmail OAuth attempts, the schedule of placement checks.
6. More proofs: an abstract ledger that `ProviderFetch` implements (a request is paid for
   once and its amount is reserved, spent or given back), and one of the mailbox
   that `MailSync` implements.

## 6. What is not modelled, and why

- The components without a module in section 1.1: planned (section 5), or request
  handlers of one transaction each, guarded by a version column, which a unit test
  reaches.
- Contents: e-mails, articles, prompts, HTML. Messages are named by draft version and
  purpose, posts by the row that made them. Message-IDs are unique by construction.
- The special claim of recommendation refills in the outbox (database function of migration
  0081), and the order of `available_at` (so starvation by poison events is a hazard
  without a property).
- Suppression, kill switch and Gmail identity: refusals that may come at any
  statement.
- `manualDecision` has no caller in the runtime; it is an action of `GmailSend`
  because its repository accepts it.
- The media mappings of a publication: one step that may defer or fail.
- Provider requests: the caches and followers that read the artifact of a completed lease, bulk
  requests, the manual settlement of unknown charges, and the first design
  (`dataforseo-request.service.ts`).
- Mail: the push webhook with its relay and the repair of expired history, which no runtime
  calls; the repositories per project of the first design; whether the connection is
  available; the object store; parsing and the matching of replies.
- Language models, parsing and scoring: no state to check.

## 7. Running the checks

    tlc -workers 2 -config MCGmailSend_one.cfg MCGmailSend
    tlapm GmailSendProofs.tla

A configuration is named after its `MC` module and the run; `PROJECT.json` lists
every run with its module and configuration, the code each definition stands
for, and for every property a `Faulty` definition that breaks it.
