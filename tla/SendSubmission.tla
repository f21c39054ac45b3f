---------------------------- MODULE SendSubmission ----------------------------
(***************************************************************************)
(* How an approved draft becomes a Send Intent: a preflight whose          *)
(* conditions the operator confirms, and a `create` transaction that       *)
(* answers a repeated request, checks the conditions again and inserts.    *)
(* The transactions run READ COMMITTED, one statement at a time, and other *)
(* transactions commit in between; what holds them apart is the locks.     *)
(*                                                                         *)
(* A request that creates an intent gives it its name.  What becomes of    *)
(* the intent is SendPromise's, which the send pipeline keeps.             *)
(***************************************************************************)
EXTENDS Naturals, FiniteSetsExt

CONSTANTS
  Requests,    \* the calls of the create command
  KeyOf,       \* their client idempotency keys
  DraftOf,
  ContactOf,
  MailboxOf,
  PurposeOf,   \* message purpose, INITIAL_OUTREACH or a follow-up
  Copies,      \* the copies the recipient could get
  Cooldown,    \* the 30 days between two initial outreaches to a contact
  MaxRevision, \* bound: changes of drafts, contacts and bindings
  Horizon      \* bound: the clock stops here

Objects == UNION {{DraftOf[r], ContactOf[r], MailboxOf[r]} : r \in Requests}

ASSUME SubmissionAssumption ==
  /\ Cooldown \in Nat
  /\ MaxRevision \in Nat
  /\ Horizon \in Nat
  /\ Requests \cap {"none", "refused", "conflict"} = {}

VARIABLES
  now,         \* the clock
  revision,    \* versions of the drafts, contacts and mailbox bindings
  confirmed,   \* the revisions in a request's readiness snapshot
  requestedAt, \* requestedSendAt
  stage,       \* the statement a request executes next
  answer,      \* what its caller is told: an intent, or why there is none
  replaceable, \* failed intents whose evidence allows another submission
  status,      \* SendPromise
  copies       \* SendPromise

Pipeline == INSTANCE SendPromise WITH Intents <- Requests

request == <<confirmed, requestedAt, stage, answer>>
pipeline == <<replaceable, status, copies>>
vars == <<now, revision, confirmed, requestedAt, stage, answer, replaceable,
          status, copies>>

Stage == {"idle", "confirmed", "mailbox", "key", "draft", "contact",
          "message", "binding", "cooldown", "insert", "done"}

TypeOK ==
  /\ now \in Nat
  /\ revision \in [Objects -> Nat]
  /\ confirmed \in [Requests -> [Objects -> Nat]]
  /\ requestedAt \in [Requests -> Nat]
  /\ stage \in [Requests -> Stage]
  /\ answer \in [Requests -> Requests \cup {"none", "refused", "conflict"}]
  /\ replaceable \subseteq Requests
  /\ Pipeline!TypeOK

Init ==
  /\ now = 0
  /\ revision = [o \in Objects |-> 0]
  /\ confirmed = [r \in Requests |-> revision]
  /\ requestedAt = [r \in Requests |-> 0]
  /\ stage = [r \in Requests |-> "idle"]
  /\ answer = [r \in Requests |-> "none"]
  /\ replaceable = {}
  /\ Pipeline!Init

Proceed(r, s) ==
  /\ stage' = [stage EXCEPT ![r] = s]
  /\ UNCHANGED <<now, revision, confirmed, requestedAt, answer, pipeline>>

\* The transaction ends without a change, and its locks are released.
Answer(r, a) ==
  /\ stage' = [stage EXCEPT ![r] = "done"]
  /\ answer' = [answer EXCEPT ![r] = a]
  /\ UNCHANGED <<now, revision, confirmed, requestedAt, pipeline>>

-----------------------------------------------------------------------------
(* Locks: each is held from its statement to the end of the transaction *)

HasDraft == {"contact", "message", "binding", "cooldown", "insert"}
HasContact == {"message", "binding", "cooldown", "insert"}
HasBinding == {"cooldown", "insert"}

\* Faulty: a session lock, which a pooled connection keeps.
HasMailboxFaulty == HasDraft \cup {"key", "draft", "done"}

HasMailbox == HasDraft \cup {"key", "draft"}

\* Faulty: no lock on the contact's initial outreach.
HasOutreachFaulty == {}

HasOutreach == {"insert"}

\* Faulty: the draft is read without FOR UPDATE.
LockedFaulty(o) ==
  \E q \in Requests :
    \/ stage[q] \in HasContact /\ o = ContactOf[q]
    \/ stage[q] \in HasBinding /\ o = MailboxOf[q]

\* The rows no other command can change now.
Locked(o) ==
  \E q \in Requests :
    \/ stage[q] \in HasDraft /\ o = DraftOf[q]
    \/ stage[q] \in HasContact /\ o = ContactOf[q]
    \/ stage[q] \in HasBinding /\ o = MailboxOf[q]

Unchanged(r, o) == revision[o] = confirmed[r][o]

-----------------------------------------------------------------------------
(* What a stored intent says of a new request *)

\* Faulty: each mailbox has its own key for the message.
MessageFaulty(r) ==
  <<DraftOf[r], confirmed[r][DraftOf[r]], PurposeOf[r], MailboxOf[r]>>

\* The logical message key: the approved version stands for its approval
\* and, as a version is written for one contact, for the recipient.
Message(r) == <<DraftOf[r], confirmed[r][DraftOf[r]], PurposeOf[r]>>

Stored == {i \in Requests : status[i] # "none"}

\* Faulty: every final failure may be submitted again.
MayReplaceFaulty(i) == status[i] \in {"failed", "disowned"}

MayReplace(i) == status[i] = "failed" /\ i \in replaceable

\* Faulty: the key alone identifies the request.
MatchesFaulty(r, i) == MailboxOf[r] = MailboxOf[i]

Matches(r, i) ==
  /\ Message(r) = Message(i)
  /\ ContactOf[r] = ContactOf[i]
  /\ MailboxOf[r] = MailboxOf[i]

Replay(r, i) ==
  \/ Matches(r, i) /\ Answer(r, i)
  \/ ~Matches(r, i) /\ Answer(r, "conflict")

-----------------------------------------------------------------------------
(* preflight and create, statement by statement *)

Preflight(r) ==
  /\ stage[r] = "idle"
  /\ stage' = [stage EXCEPT ![r] = "confirmed"]
  /\ confirmed' = [confirmed EXCEPT ![r] = revision]
  /\ UNCHANGED <<now, revision, requestedAt, answer, pipeline>>

\* requestedSendAt is read before the transaction begins.
Submit(r) ==
  /\ stage[r] = "confirmed"
  /\ stage' = [stage EXCEPT ![r] = "mailbox"]
  /\ requestedAt' = [requestedAt EXCEPT ![r] = now]
  /\ UNCHANGED <<now, revision, confirmed, answer, pipeline>>

LockMailbox(r) ==
  /\ stage[r] = "mailbox"
  /\ \A q \in Requests : MailboxOf[q] = MailboxOf[r] => stage[q] \notin HasMailbox
  /\ Proceed(r, "key")

Initial(r) == PurposeOf[r] = "INITIAL_OUTREACH"

SameKey(r) == {i \in Stored : KeyOf[i] = KeyOf[r]}

LookUpKey(r) ==
  /\ stage[r] = "key"
  /\ \/ \E i \in SameKey(r) : Replay(r, i)
     \/ SameKey(r) = {} /\ Proceed(r, "draft")

LockDraft(r) ==
  /\ stage[r] = "draft"
  /\ \A q \in Requests : DraftOf[q] = DraftOf[r] => stage[q] \notin HasDraft
  /\ \/ Unchanged(r, DraftOf[r]) /\ Proceed(r, "contact")
     \/ ~Unchanged(r, DraftOf[r]) /\ Answer(r, "refused")

ReadContact(r) ==
  /\ stage[r] = "contact"
  /\ \/ Unchanged(r, ContactOf[r]) /\ Proceed(r, "message")
     \/ ~Unchanged(r, ContactOf[r]) /\ Answer(r, "refused")

Blocking(r) == {i \in Stored : Message(i) = Message(r) /\ ~MayReplace(i)}

LookUpMessage(r) ==
  /\ stage[r] = "message"
  /\ \/ \E i, j \in Blocking(r) : i # j /\ Answer(r, "conflict")
     \/ \E i \in Blocking(r) : Blocking(r) = {i} /\ Replay(r, i)
     \/ Blocking(r) = {} /\ Proceed(r, "binding")

ReadBinding(r) ==
  /\ stage[r] = "binding"
  /\ \/ /\ Unchanged(r, MailboxOf[r])
        /\ Proceed(r, IF Initial(r) THEN "cooldown" ELSE "insert")
     \/ ~Unchanged(r, MailboxOf[r]) /\ Answer(r, "refused")

Outreach(r) ==
  {i \in Stored : /\ Initial(i)
                  /\ ContactOf[i] = ContactOf[r]
                  /\ status[i] \notin {"failed", "disowned"}}

CoolDown(r) ==
  /\ stage[r] = "cooldown"
  /\ \A q \in Requests :
       ContactOf[q] = ContactOf[r] /\ Initial(q) => stage[q] \notin HasOutreach
  /\ LET over == \A i \in Outreach(r) : requestedAt[i] + Cooldown <= requestedAt[r]
     IN \/ over /\ Proceed(r, "insert")
        \/ ~over /\ Answer(r, "refused")

\* The unique indexes on the client key and on the messages that have not
\* failed; a violation is answered as a conflict.
Taken(r) ==
  \E i \in Stored :
    \/ KeyOf[i] = KeyOf[r]
    \/ Message(i) = Message(r) /\ status[i] \notin {"failed", "disowned"}

Create(r) ==
  /\ ~Taken(r)
  /\ Pipeline!Submit(r)
  /\ stage' = [stage EXCEPT ![r] = "done"]
  /\ answer' = [answer EXCEPT ![r] = r]
  /\ UNCHANGED <<now, revision, confirmed, requestedAt, replaceable>>

Insert(r) ==
  /\ stage[r] = "insert"
  /\ Create(r) \/ (Taken(r) /\ Answer(r, "conflict"))

\* A condition that is not followed here has changed (suppression, kill
\* switch, quota, the age of the snapshot), or the transaction breaks off.
Refuse(r) == stage[r] \in HasMailbox /\ Answer(r, "refused")

-----------------------------------------------------------------------------
(* The rest of the system *)

\* A command edits or approves a draft, a contact or a mailbox binding.
Revise(o) ==
  /\ ~Locked(o)
  /\ MapThenSumSet(LAMBDA p : revision[p], Objects) < MaxRevision
  /\ revision' = [revision EXCEPT ![o] = @ + 1]
  /\ UNCHANGED <<now, request, pipeline>>

\* Only some failures leave evidence that nothing was handed over.
Progress(i) ==
  /\ \/ Pipeline!Deliver(i) \/ Pipeline!Accept(i)
     \/ Pipeline!Doubt(i) \/ Pipeline!Decide(i)
  /\ UNCHANGED <<now, revision, request, replaceable>>

Fail(i) ==
  /\ Pipeline!Fail(i)
  /\ replaceable' \in {replaceable, replaceable \cup {i}}
  /\ UNCHANGED <<now, revision, request>>

Tick ==
  /\ now < Horizon
  /\ now' = now + 1
  /\ UNCHANGED <<revision, request, pipeline>>

-----------------------------------------------------------------------------

Statement(r) ==
  \/ LockMailbox(r) \/ LookUpKey(r) \/ LockDraft(r) \/ ReadContact(r)
  \/ LookUpMessage(r) \/ ReadBinding(r) \/ CoolDown(r) \/ Insert(r)

Next ==
  \/ \E r \in Requests :
       \/ Preflight(r) \/ Submit(r) \/ Statement(r) \/ Refuse(r)
       \/ Progress(r) \/ Fail(r)
  \/ \E o \in Objects : Revise(o)
  \/ Tick

Spec == Init /\ [][Next]_vars

\* A statement whose lock is free is executed.
FairSpec == Spec /\ \A r \in Requests : WF_vars(Statement(r))

-----------------------------------------------------------------------------
(* Properties *)

SameMessage(i, j) ==
  /\ <<DraftOf[i], ContactOf[i], PurposeOf[i]>> =
     <<DraftOf[j], ContactOf[j], PurposeOf[j]>>
  /\ confirmed[i][DraftOf[i]] = confirmed[j][DraftOf[j]]

\* A logical message reaches its recipient at most once, whatever keys,
\* mailboxes, retries and resubmissions it was requested with.
NoMessageTwice ==
  \A i, j \in Requests :
    SameMessage(i, j) /\ copies[i] # {} /\ copies[j] # {} => i = j

\* Two initial outreaches to a contact that stand, or were sent, were
\* requested at least the cooldown apart, even from two mailboxes at a time.
CooldownKept ==
  \A i, j \in Requests :
    (/\ i # j
     /\ ContactOf[i] = ContactOf[j]
     /\ Initial(i) /\ Initial(j)
     /\ {status[i], status[j]} \subseteq {"pending", "unknown", "sent"})
      => \/ requestedAt[i] + Cooldown <= requestedAt[j]
         \/ requestedAt[j] + Cooldown <= requestedAt[i]

\* A caller who is told of an intent is told of one that sends what the
\* caller confirmed, from the mailbox and to the contact it asked for.
AnswersNameTheMessage ==
  \A r, i \in Requests :
    answer[r] = i =>
      status[i] # "none" /\ SameMessage(i, r) /\ MailboxOf[i] = MailboxOf[r]

\* An intent is committed only while the draft, the contact and the binding
\* are what the operator confirmed.
ConfirmedAtCommit ==
  [][\A r \in Requests : status[r] = "none" /\ status'[r] # "none" =>
       \A o \in {DraftOf[r], ContactOf[r], MailboxOf[r]} : Unchanged(r, o)]_vars

\* Every submitted request is answered: the locks are taken in one order and
\* none outlives its transaction.
EventuallyAnswered ==
  \A r \in Requests : stage[r] = "mailbox" ~> stage[r] = "done"

\* The inductive invariant.
NotDelivered ==
  \A i \in Requests : status[i] \in {"none", "failed"} => copies[i] = {}

StoredAreDone ==
  /\ \A r \in Requests :
       status[r] # "none" \/ answer[r] # "none" => stage[r] = "done"
  /\ \A i \in replaceable : status[i] = "failed"

DraftLock ==
  \A q, r \in Requests :
    {stage[q], stage[r]} \subseteq HasDraft /\ DraftOf[q] = DraftOf[r] => q = r

OutreachLock ==
  \A q, r \in Requests :
    (/\ {stage[q], stage[r]} \subseteq HasOutreach
     /\ Initial(q) /\ Initial(r)
     /\ ContactOf[q] = ContactOf[r]) => q = r

LockedAsConfirmed ==
  \A r \in Requests :
    /\ stage[r] \in HasDraft => Unchanged(r, DraftOf[r])
    /\ stage[r] \in HasContact => Unchanged(r, ContactOf[r])
    /\ stage[r] \in HasBinding => Unchanged(r, MailboxOf[r])

\* What the lookups found stays so while the locks are held.
NothingBlocks ==
  \A r \in Requests :
    stage[r] \in {"binding", "cooldown", "insert"} => Blocking(r) = {}

HasCooledDown ==
  \A r \in Requests :
    stage[r] = "insert" /\ Initial(r) =>
      \A i \in Outreach(r) : requestedAt[i] + Cooldown <= requestedAt[r]

OneOpen ==
  \A i, j \in Stored :
    Message(i) = Message(j) /\ ~MayReplace(i) /\ ~MayReplace(j) => i = j

IInv ==
  /\ TypeOK
  /\ NotDelivered
  /\ StoredAreDone
  /\ DraftLock
  /\ OutreachLock
  /\ LockedAsConfirmed
  /\ NothingBlocks
  /\ HasCooledDown
  /\ OneOpen
=============================================================================
