------------------------- MODULE SendSubmissionProofs -------------------------
(* Type correctness and the inductive invariant of SendSubmission. *)
EXTENDS SendSubmission, TLAPS

LEMMA TypeStep == TypeOK /\ [Next]_vars => TypeOK'
<1> SUFFICES ASSUME TypeOK, [Next]_vars PROVE TypeOK'
  OBVIOUS
<1> USE DEF TypeOK, Stage, Pipeline!TypeOK, Pipeline!Status
<1>p. ASSUME NEW r \in Requests, NEW s \in Stage, Proceed(r, s) PROVE TypeOK'
  BY <1>p DEF Proceed, pipeline
<1>a. ASSUME NEW r \in Requests,
             NEW a \in Requests \cup {"none", "refused", "conflict"}, Answer(r, a)
      PROVE  TypeOK'
  BY <1>a DEF Answer, pipeline
<1>r. ASSUME NEW r \in Requests, NEW i \in Requests, Replay(r, i) PROVE TypeOK'
  BY <1>r, <1>a DEF Replay
<1>1. ASSUME NEW r \in Requests, Preflight(r) PROVE TypeOK'
  BY <1>1 DEF Preflight, pipeline
<1>2. ASSUME NEW r \in Requests, Submit(r) PROVE TypeOK'
  BY <1>2 DEF Submit, pipeline
<1>3. ASSUME NEW r \in Requests, Statement(r) PROVE TypeOK'
  <2>1. CASE LockMailbox(r) BY <2>1, <1>p DEF LockMailbox
  <2>2. CASE LookUpKey(r) BY <2>2, <1>p, <1>r DEF LookUpKey, SameKey, Stored
  <2>3. CASE LockDraft(r) BY <2>3, <1>p, <1>a DEF LockDraft
  <2>4. CASE ReadContact(r) BY <2>4, <1>p, <1>a DEF ReadContact
  <2>5. CASE LookUpMessage(r)
    BY <2>5, <1>p, <1>a, <1>r DEF LookUpMessage, Blocking, Stored
  <2>6. CASE ReadBinding(r) BY <2>6, <1>p, <1>a DEF ReadBinding
  <2>7. CASE CoolDown(r) BY <2>7, <1>p, <1>a DEF CoolDown
  <2>8. CASE Insert(r)
    <3>1. CASE Answer(r, "conflict") BY <3>1, <1>a
    <3>2. CASE ~Answer(r, "conflict")
      <4>1. /\ status' = [status EXCEPT ![r] = "pending"]
            /\ stage' = [stage EXCEPT ![r] = "done"]
            /\ answer' = [answer EXCEPT ![r] = r]
            /\ UNCHANGED <<now, revision, confirmed, requestedAt, replaceable, copies>>
        BY <2>8, <3>2 DEF Insert, Create, Pipeline!Submit, Pipeline!Become
      <4> QED BY <4>1
    <3> QED BY <3>1, <3>2
  <2> QED BY <1>3, <2>1, <2>2, <2>3, <2>4, <2>5, <2>6, <2>7, <2>8 DEF Statement
<1>4. ASSUME NEW r \in Requests, Refuse(r) PROVE TypeOK'
  BY <1>4, <1>a DEF Refuse
<1>5. ASSUME NEW i \in Requests, Progress(i) PROVE TypeOK'
  <2>1. CASE Pipeline!Deliver(i)
    BY <1>5, <2>1 DEF Progress, request, Pipeline!Deliver
  <2>2. CASE Pipeline!Accept(i) \/ Pipeline!Doubt(i) \/ Pipeline!Decide(i)
    BY <1>5, <2>2 DEF Progress, request, Pipeline!Accept, Pipeline!Doubt,
                      Pipeline!Decide, Pipeline!Become
  <2> QED BY <1>5, <2>1, <2>2 DEF Progress
<1>6. ASSUME NEW i \in Requests, Fail(i) PROVE TypeOK'
  BY <1>6 DEF Fail, request, Pipeline!Fail, Pipeline!Become
<1>7. ASSUME NEW o \in Objects, Revise(o) PROVE TypeOK'
  BY <1>7 DEF Revise, request, pipeline
<1>8. CASE Tick BY <1>8 DEF Tick, request, pipeline
<1>9. CASE UNCHANGED vars BY <1>9 DEF vars
<1> QED BY <1>1, <1>2, <1>3, <1>4, <1>5, <1>6, <1>7, <1>8, <1>9 DEF Next
-----------------------------------------------------------------------------
(* What a statement of a transaction does *)

InTransaction == HasMailbox \cup {"mailbox"}

LEMMA StatementEffect ==
  ASSUME TypeOK, NEW r \in Requests, Statement(r) \/ Refuse(r)
  PROVE  /\ stage[r] \in InTransaction
         /\ UNCHANGED <<now, revision, confirmed, requestedAt, copies, replaceable>>
         /\ \E s \in (HasMailbox \cup {"done"}) : stage' = [stage EXCEPT ![r] = s]
         /\ UNCHANGED status \/ (stage[r] = "insert" /\ Create(r))
         /\ \A q \in Requests : answer'[q] = answer[q] \/ stage'[q] = "done"
<1> USE DEF InTransaction, HasMailbox, HasDraft
<1> DEFINE Quiet ==
      /\ UNCHANGED <<now, revision, confirmed, requestedAt, copies, replaceable, status>>
      /\ \E s \in (HasMailbox \cup {"done"}) : stage' = [stage EXCEPT ![r] = s]
      /\ \A q \in Requests : answer'[q] = answer[q] \/ stage'[q] = "done"
<1>p. ASSUME NEW s \in HasMailbox \cup {"done"}, Proceed(r, s) PROVE Quiet
  BY <1>p DEF Proceed, pipeline
<1>a. ASSUME NEW a, Answer(r, a) PROVE Quiet
  BY <1>a DEF Answer, pipeline, TypeOK
<1>r. ASSUME NEW i, Replay(r, i) PROVE Quiet
  BY <1>r, <1>a DEF Replay
<1> HIDE DEF Quiet
<1>1. CASE LockMailbox(r) BY <1>1, <1>p DEF LockMailbox, Quiet
<1>2. CASE LookUpKey(r) BY <1>2, <1>p, <1>r DEF LookUpKey, Quiet
<1>3. CASE LockDraft(r) BY <1>3, <1>p, <1>a DEF LockDraft, Quiet
<1>4. CASE ReadContact(r) BY <1>4, <1>p, <1>a DEF ReadContact, Quiet
<1>5. CASE LookUpMessage(r) BY <1>5, <1>p, <1>a, <1>r DEF LookUpMessage, Quiet
<1>6. CASE ReadBinding(r) BY <1>6, <1>p, <1>a DEF ReadBinding, Quiet
<1>7. CASE CoolDown(r) BY <1>7, <1>p, <1>a DEF CoolDown, Quiet
<1>8. CASE Insert(r)
  <2>1. CASE Answer(r, "conflict") BY <1>8, <2>1, <1>a DEF Insert, Quiet
  <2>2. CASE Create(r)
    BY <1>8, <2>2 DEF Insert, Create, Pipeline!Submit, Pipeline!Become, TypeOK
  <2> QED BY <1>8, <2>1, <2>2 DEF Insert
<1>9. CASE Refuse(r) BY <1>9, <1>a DEF Refuse, Quiet
<1> QED BY <1>1, <1>2, <1>3, <1>4, <1>5, <1>6, <1>7, <1>8, <1>9 DEF Statement

Checked == {"binding", "cooldown", "insert"}

\* What a transaction has found out when it is past a statement.
Gains(r) ==
  /\ stage'[r] \in HasDraft /\ stage[r] \notin HasDraft =>
       /\ Unchanged(r, DraftOf[r])
       /\ \A q \in Requests : DraftOf[q] = DraftOf[r] => stage[q] \notin HasDraft
  /\ stage'[r] \in HasContact /\ stage[r] \notin HasContact =>
       Unchanged(r, ContactOf[r])
  /\ stage'[r] \in HasBinding /\ stage[r] \notin HasBinding =>
       Unchanged(r, MailboxOf[r])
  /\ stage'[r] \in Checked /\ stage[r] \notin Checked =>
       stage[r] \in HasDraft /\ Blocking(r) = {}
  /\ stage'[r] = "insert" /\ Initial(r) =>
       /\ \A q \in Requests :
            ContactOf[q] = ContactOf[r] /\ Initial(q) => stage[q] \notin HasOutreach
       /\ \A i \in Outreach(r) : requestedAt[i] + Cooldown <= requestedAt[r]

LEMMA StatementGains ==
  ASSUME TypeOK, NEW r \in Requests, Statement(r) \/ Refuse(r)
  PROVE  Gains(r)
<1> USE DEF HasMailbox, HasDraft, HasContact, HasBinding, Checked
<1>p. ASSUME NEW s \in Stage, Proceed(r, s) PROVE stage'[r] = s
  BY <1>p DEF Proceed, TypeOK
<1>a. ASSUME NEW a, Answer(r, a) PROVE Gains(r)
  BY <1>a DEF Answer, TypeOK, Gains
<1>r. ASSUME NEW i, Replay(r, i) PROVE Gains(r)
  BY <1>r, <1>a DEF Replay
<1>1. CASE LockMailbox(r) BY <1>1, <1>p DEF LockMailbox, Gains, Stage
<1>2. CASE LookUpKey(r) BY <1>2, <1>p, <1>r DEF LookUpKey, Gains, Stage
<1>3. CASE LockDraft(r) BY <1>3, <1>p, <1>a DEF LockDraft, Gains, Stage
<1>4. CASE ReadContact(r) BY <1>4, <1>p, <1>a DEF ReadContact, Gains, Stage
<1>5. CASE LookUpMessage(r)
  BY <1>5, <1>p, <1>a, <1>r DEF LookUpMessage, Gains, Stage
<1>6. CASE ReadBinding(r) BY <1>6, <1>p, <1>a DEF ReadBinding, Gains, Stage
<1>7. CASE CoolDown(r) BY <1>7, <1>p, <1>a DEF CoolDown, Gains, Stage
<1>8. CASE Insert(r) BY <1>8, <1>a DEF Insert, Create, Gains, TypeOK
<1>9. CASE Refuse(r) BY <1>9, <1>a DEF Refuse
<1> QED BY <1>1, <1>2, <1>3, <1>4, <1>5, <1>6, <1>7, <1>8, <1>9 DEF Statement

-----------------------------------------------------------------------------
(* The inductive invariant, part by part *)

LEMMA StoredAreDoneStep == IInv /\ [Next]_vars => StoredAreDone'
<1> SUFFICES ASSUME IInv, [Next]_vars PROVE StoredAreDone'
  OBVIOUS
<1> USE DEF IInv, StoredAreDone
<1>1. ASSUME NEW r \in Requests, Statement(r) \/ Refuse(r) PROVE StoredAreDone'
  <2>1. CASE UNCHANGED status
    BY <1>1, <2>1, StatementEffect
       DEF InTransaction, HasMailbox, HasDraft, TypeOK
  <2>2. CASE stage[r] = "insert" /\ Create(r)
    BY <2>2 DEF Create, Pipeline!Submit, Pipeline!Become, TypeOK, Pipeline!TypeOK
  <2> QED BY <1>1, <2>1, <2>2, StatementEffect
<1>2. ASSUME NEW r \in Requests, Preflight(r) \/ Submit(r) PROVE StoredAreDone'
  BY <1>2 DEF Preflight, Submit, pipeline, TypeOK
<1>3. ASSUME NEW i \in Requests, Progress(i) PROVE StoredAreDone'
  BY <1>3 DEF Progress, request, TypeOK, Pipeline!TypeOK, Pipeline!Deliver, Pipeline!Accept,
              Pipeline!Doubt, Pipeline!Decide, Pipeline!Become
<1>4. ASSUME NEW i \in Requests, Fail(i) PROVE StoredAreDone'
  BY <1>4 DEF Fail, request, TypeOK, Pipeline!TypeOK, Pipeline!Fail, Pipeline!Become
<1>5. ASSUME NEW o \in Objects, Revise(o) PROVE StoredAreDone'
  BY <1>5 DEF Revise, request, pipeline
<1>6. CASE Tick BY <1>6 DEF Tick, request, pipeline
<1>7. CASE UNCHANGED vars BY <1>7 DEF vars
<1> QED BY <1>1, <1>2, <1>3, <1>4, <1>5, <1>6, <1>7 DEF Next

LEMMA NotDeliveredStep == IInv /\ [Next]_vars => NotDelivered'
<1> SUFFICES ASSUME IInv, [Next]_vars PROVE NotDelivered'
  OBVIOUS
<1> USE DEF IInv, NotDelivered
<1>1. ASSUME NEW r \in Requests, Statement(r) \/ Refuse(r) PROVE NotDelivered'
  <2>1. CASE UNCHANGED status
    BY <1>1, <2>1, StatementEffect
  <2>2. CASE Create(r)
    BY <2>2 DEF Create, Pipeline!Submit, Pipeline!Become, TypeOK, Pipeline!TypeOK
  <2> QED BY <1>1, <2>1, <2>2, StatementEffect
<1>2. ASSUME NEW r \in Requests, Preflight(r) \/ Submit(r) PROVE NotDelivered'
  BY <1>2 DEF Preflight, Submit, pipeline
<1>3. ASSUME NEW i \in Requests, Progress(i) PROVE NotDelivered'
  <2>1. CASE Pipeline!Deliver(i)
    BY <2>1 DEF Pipeline!Deliver, TypeOK, Pipeline!TypeOK
  <2>2. CASE Pipeline!Accept(i) \/ Pipeline!Doubt(i) \/ Pipeline!Decide(i)
    BY <2>2 DEF Pipeline!Accept, Pipeline!Doubt, Pipeline!Decide,
                Pipeline!Become, TypeOK, Pipeline!TypeOK
  <2> QED BY <1>3, <2>1, <2>2 DEF Progress
<1>4. ASSUME NEW i \in Requests, Fail(i) PROVE NotDelivered'
  BY <1>4 DEF Fail, TypeOK, Pipeline!TypeOK, Pipeline!Fail, Pipeline!Become
<1>5. ASSUME NEW o \in Objects, Revise(o) PROVE NotDelivered'
  BY <1>5 DEF Revise, pipeline
<1>6. CASE Tick BY <1>6 DEF Tick, pipeline
<1>7. CASE UNCHANGED vars BY <1>7 DEF vars
<1> QED BY <1>1, <1>2, <1>3, <1>4, <1>5, <1>6, <1>7 DEF Next

-----------------------------------------------------------------------------
(* What the steps that are not statements leave alone *)

Early == {"idle", "confirmed", "mailbox"}

Surroundings ==
  /\ \A q \in Requests :
       /\ \/ /\ stage'[q] = stage[q]
             /\ confirmed'[q] = confirmed[q]
             /\ requestedAt'[q] = requestedAt[q]
          \/ stage[q] \in Early /\ stage'[q] \in Early
       /\ status'[q] = "none" <=> status[q] = "none"
       /\ MayReplace(q) => MayReplace(q)'
       /\ status[q] \in {"failed", "disowned"} => status'[q] \in {"failed", "disowned"}
  /\ \A o \in Objects : Locked(o) => revision'[o] = revision[o]
  /\ UNCHANGED answer

LEMMA OtherSteps ==
  ASSUME IInv, [Next]_vars
  PROVE  Surroundings \/ \E r \in Requests : Statement(r) \/ Refuse(r)
<1> USE DEF IInv, TypeOK, Surroundings, MayReplace
<1>1. ASSUME NEW r \in Requests, Preflight(r) \/ Submit(r) PROVE Surroundings
  BY <1>1 DEF Preflight, Submit, pipeline, Early
<1>2. ASSUME NEW i \in Requests, Progress(i) PROVE Surroundings
  BY <1>2 DEF Progress, request, Pipeline!TypeOK, Pipeline!Deliver, Pipeline!Accept,
              Pipeline!Doubt, Pipeline!Decide, Pipeline!Become
<1>3. ASSUME NEW i \in Requests, Fail(i) PROVE Surroundings
  BY <1>3 DEF Fail, request, Pipeline!TypeOK, Pipeline!Fail, Pipeline!Become
<1>4. ASSUME NEW o \in Objects, Revise(o) PROVE Surroundings
  BY <1>4 DEF Revise, request, pipeline
<1>5. CASE Tick BY <1>5 DEF Tick, request, pipeline
<1>6. CASE UNCHANGED vars BY <1>6 DEF vars
<1> QED BY <1>1, <1>2, <1>3, <1>4, <1>5, <1>6 DEF Next

LEMMA DraftLockStep == IInv /\ [Next]_vars => DraftLock'
<1> SUFFICES ASSUME IInv, [Next]_vars PROVE DraftLock'
  OBVIOUS
<1> USE DEF IInv, DraftLock, HasDraft
<1>1. ASSUME NEW r \in Requests, Statement(r) \/ Refuse(r) PROVE DraftLock'
  BY <1>1, StatementEffect, StatementGains DEF Gains, TypeOK
<1>2. CASE Surroundings BY <1>2 DEF Surroundings, Early
<1> QED BY <1>1, <1>2, OtherSteps

LEMMA OutreachLockStep == IInv /\ [Next]_vars => OutreachLock'
<1> SUFFICES ASSUME IInv, [Next]_vars PROVE OutreachLock'
  OBVIOUS
<1> USE DEF IInv, OutreachLock, HasOutreach, Initial
<1>1. ASSUME NEW r \in Requests, Statement(r) \/ Refuse(r) PROVE OutreachLock'
  BY <1>1, StatementEffect, StatementGains DEF Gains, TypeOK
<1>2. CASE Surroundings BY <1>2 DEF Surroundings, Early
<1> QED BY <1>1, <1>2, OtherSteps

LEMMA LockedAsConfirmedStep == IInv /\ [Next]_vars => LockedAsConfirmed'
<1> SUFFICES ASSUME IInv, [Next]_vars, NEW q \in Requests
             PROVE  (/\ stage[q] \in HasDraft => Unchanged(q, DraftOf[q])
                     /\ stage[q] \in HasContact => Unchanged(q, ContactOf[q])
                     /\ stage[q] \in HasBinding => Unchanged(q, MailboxOf[q]))'
  BY DEF LockedAsConfirmed
<1> USE DEF IInv, LockedAsConfirmed, Unchanged
<1>1. ASSUME NEW r \in Requests, Statement(r) \/ Refuse(r)
      PROVE  (/\ stage[q] \in HasDraft => Unchanged(q, DraftOf[q])
              /\ stage[q] \in HasContact => Unchanged(q, ContactOf[q])
              /\ stage[q] \in HasBinding => Unchanged(q, MailboxOf[q]))'
  BY <1>1, StatementEffect, StatementGains DEF Gains, TypeOK
<1>2. CASE Surroundings
  <2>1. {DraftOf[q], ContactOf[q], MailboxOf[q]} \subseteq Objects
    BY DEF Objects
  <2>2. CASE stage[q] \in Early /\ stage'[q] \in Early
    BY <2>2 DEF Early, HasDraft, HasContact, HasBinding
  <2>3. CASE stage'[q] = stage[q] /\ confirmed'[q] = confirmed[q]
    BY <1>2, <2>1, <2>3 DEF Surroundings, Locked
  <2> QED BY <1>2, <2>2, <2>3 DEF Surroundings
<1> QED BY <1>1, <1>2, OtherSteps

LEMMA NothingBlocksStep == IInv /\ [Next]_vars => NothingBlocks'
<1> SUFFICES ASSUME IInv, [Next]_vars,
                    NEW q \in Requests, stage'[q] \in {"binding", "cooldown", "insert"},
                    NEW i \in Requests, i \in Blocking(q)'
             PROVE  FALSE
  BY DEF NothingBlocks, Blocking, Stored
<1> USE DEF IInv, NothingBlocks, Blocking, Stored, Message, MayReplace
<1>1. ASSUME NEW r \in Requests, Statement(r) \/ Refuse(r) PROVE FALSE
  <2>1. CASE UNCHANGED status
    BY <1>1, <2>1, StatementEffect, StatementGains DEF Gains, Checked, TypeOK
  <2>2. CASE stage[r] = "insert" /\ Create(r)
    <3>1. stage' = [stage EXCEPT ![r] = "done"]
          /\ status' = [status EXCEPT ![r] = "pending"]
          /\ UNCHANGED <<confirmed, replaceable>>
      BY <2>2 DEF Create, Pipeline!Submit, Pipeline!Become
    <3>2. q # r /\ stage[q] \in {"binding", "cooldown", "insert"}
      BY <3>1 DEF TypeOK
    <3>3. i = r
      BY <3>1, <3>2 DEF TypeOK, Pipeline!TypeOK
    <3>4. DraftOf[q] = DraftOf[r]
      BY <3>1, <3>3
    <3> QED BY <2>2, <3>2, <3>4 DEF DraftLock, HasDraft
  <2> QED BY <1>1, <2>1, <2>2, StatementEffect
<1>2. CASE Surroundings
  BY <1>2 DEF Surroundings, Early, StoredAreDone
<1> QED BY <1>1, <1>2, OtherSteps

LEMMA HasCooledDownStep == IInv /\ [Next]_vars => HasCooledDown'
<1> SUFFICES ASSUME IInv, [Next]_vars,
                    NEW q \in Requests, stage'[q] = "insert", Initial(q),
                    NEW i \in Requests, i \in Outreach(q)'
             PROVE  requestedAt'[i] + Cooldown <= requestedAt'[q]
  BY DEF HasCooledDown, Outreach, Stored, Initial
<1> USE DEF IInv, HasCooledDown, Outreach, Stored, Initial
<1>1. ASSUME NEW r \in Requests, Statement(r) \/ Refuse(r)
      PROVE  requestedAt'[i] + Cooldown <= requestedAt'[q]
  <2>1. CASE UNCHANGED status
    BY <1>1, <2>1, StatementEffect, StatementGains DEF Gains, TypeOK
  <2>2. CASE stage[r] = "insert" /\ Create(r)
    <3>1. stage' = [stage EXCEPT ![r] = "done"]
          /\ status' = [status EXCEPT ![r] = "pending"]
          /\ UNCHANGED requestedAt
      BY <2>2 DEF Create, Pipeline!Submit, Pipeline!Become
    <3>2. q # r /\ stage[q] = "insert"
      BY <3>1 DEF TypeOK
    <3>3. i # r
      BY <2>2, <3>2 DEF OutreachLock, HasOutreach
    <3> QED BY <3>1, <3>2, <3>3 DEF TypeOK, Pipeline!TypeOK
  <2> QED BY <1>1, <2>1, <2>2, StatementEffect
<1>2. CASE Surroundings
  BY <1>2 DEF Surroundings, Early, StoredAreDone
<1> QED BY <1>1, <1>2, OtherSteps

LEMMA OneOpenStep == IInv /\ [Next]_vars => OneOpen'
<1> SUFFICES ASSUME IInv, [Next]_vars,
                    NEW i \in Requests, NEW j \in Requests,
                    status'[i] # "none", status'[j] # "none",
                    Message(i)' = Message(j)', ~MayReplace(i)', ~MayReplace(j)'
             PROVE  i = j
  BY DEF OneOpen, Stored
<1> USE DEF IInv, OneOpen, Stored, Message, MayReplace
<1>1. ASSUME NEW r \in Requests, Statement(r) \/ Refuse(r) PROVE i = j
  <2>1. CASE UNCHANGED status
    BY <1>1, <2>1, StatementEffect
  <2>2. CASE stage[r] = "insert" /\ Create(r)
    <3>1. status' = [status EXCEPT ![r] = "pending"]
          /\ UNCHANGED <<confirmed, replaceable>>
      BY <2>2 DEF Create, Pipeline!Submit, Pipeline!Become
    <3>2. Blocking(r) = {}
      BY <2>2 DEF NothingBlocks
    <3> QED BY <3>1, <3>2 DEF Blocking, TypeOK, Pipeline!TypeOK
  <2> QED BY <1>1, <2>1, <2>2, StatementEffect
<1>2. CASE Surroundings
  BY <1>2 DEF Surroundings, Early, StoredAreDone
<1> QED BY <1>1, <1>2, OtherSteps

-----------------------------------------------------------------------------

LEMMA InitEstablishes == Init => IInv
<1> SUFFICES ASSUME Init PROVE IInv
  OBVIOUS
<1>1. TypeOK
  BY SubmissionAssumption DEF Init, TypeOK, Stage, Pipeline!Init, Pipeline!TypeOK,
                             Pipeline!Status
<1> QED
  BY <1>1 DEF Init, Pipeline!Init, IInv, NotDelivered, StoredAreDone, DraftLock,
              OutreachLock, LockedAsConfirmed, NothingBlocks, HasCooledDown,
              OneOpen, HasDraft, HasOutreach, HasContact, HasBinding, Stored

LEMMA NextKeeps == IInv /\ [Next]_vars => IInv'
  BY TypeStep, NotDeliveredStep, StoredAreDoneStep, DraftLockStep,
     OutreachLockStep, LockedAsConfirmedStep, NothingBlocksStep,
     HasCooledDownStep, OneOpenStep
     DEF IInv

\* For any requests, keys, drafts, contacts and mailboxes, whatever commits
\* between two statements: what a transaction has looked up or locked holds
\* until it ends, and of the intents of a message at most one is open.
THEOREM SubmissionInvariant == Spec => []IInv
  BY InitEstablishes, NextKeeps, PTL DEF Spec

\* No logical message reaches its recipient twice.
THEOREM MessagesOnce == Spec => []NoMessageTwice
<1>1. IInv => NoMessageTwice
  BY DEF IInv, NoMessageTwice, SameMessage, OneOpen, Stored, Message, MayReplace,
         NotDelivered
<1> QED BY <1>1, SubmissionInvariant, PTL

\* Nothing is committed but what the operator has confirmed.
THEOREM CommitsAsConfirmed == Spec => ConfirmedAtCommit
<1>1. IInv /\ [Next]_vars =>
        [\A r \in Requests : status[r] = "none" /\ status'[r] # "none" =>
           \A o \in {DraftOf[r], ContactOf[r], MailboxOf[r]} : Unchanged(r, o)]_vars
  <2> SUFFICES ASSUME IInv, [Next]_vars,
                      NEW q \in Requests, status[q] = "none", status'[q] # "none"
               PROVE  \A o \in {DraftOf[q], ContactOf[q], MailboxOf[q]} : Unchanged(q, o)
    OBVIOUS
  <2>1. PICK r \in Requests : Statement(r) \/ Refuse(r)
    BY OtherSteps DEF Surroundings
  <2>2. stage[r] = "insert" /\ Create(r)
    BY <2>1, StatementEffect DEF IInv
  <2>3. q = r
    BY <2>2 DEF Create, Pipeline!Submit, Pipeline!Become, IInv, TypeOK, Pipeline!TypeOK
  <2> QED BY <2>2, <2>3 DEF IInv, LockedAsConfirmed, HasDraft, HasContact, HasBinding
<1> QED BY <1>1, SubmissionInvariant, PTL DEF Spec, ConfirmedAtCommit

LEMMA CooldownStep == IInv /\ CooldownKept /\ [Next]_vars => CooldownKept'
<1> SUFFICES ASSUME IInv, CooldownKept, [Next]_vars,
                    NEW i \in Requests, NEW j \in Requests, i # j,
                    ContactOf[i] = ContactOf[j], Initial(i), Initial(j),
                    {status'[i], status'[j]} \subseteq {"pending", "unknown", "sent"}
             PROVE  \/ requestedAt'[i] + Cooldown <= requestedAt'[j]
                    \/ requestedAt'[j] + Cooldown <= requestedAt'[i]
  BY DEF CooldownKept, Initial
<1> USE DEF IInv, CooldownKept, TypeOK, Pipeline!TypeOK, Pipeline!Status
<1>1. ASSUME NEW r \in Requests, Statement(r) \/ Refuse(r)
      PROVE  \/ requestedAt'[i] + Cooldown <= requestedAt'[j]
             \/ requestedAt'[j] + Cooldown <= requestedAt'[i]
  <2>1. CASE UNCHANGED status
    BY <1>1, <2>1, StatementEffect
  <2>2. CASE stage[r] = "insert" /\ Create(r)
    <3>1. status' = [status EXCEPT ![r] = "pending"] /\ UNCHANGED requestedAt
      BY <2>2 DEF Create, Pipeline!Submit, Pipeline!Become
    <3>2. CASE i # r /\ j # r
      BY <3>1, <3>2
    <3>3. CASE i = r
      BY <2>2, <3>1, <3>3 DEF HasCooledDown, Outreach, Stored
    <3>4. CASE j = r
      BY <2>2, <3>1, <3>4 DEF HasCooledDown, Outreach, Stored
    <3> QED BY <3>2, <3>3, <3>4
  <2> QED BY <1>1, <2>1, <2>2, StatementEffect
<1>2. CASE Surroundings
  <2>1. \A q \in {i, j} : /\ status[q] \in {"pending", "unknown", "sent"}
                          /\ requestedAt'[q] = requestedAt[q]
    BY <1>2 DEF Surroundings, Early, StoredAreDone
  <2> QED BY <2>1
<1> QED BY <1>1, <1>2, OtherSteps

\* No two initial outreaches that stand come closer than the cooldown.
THEOREM Cooldowns == Spec => []CooldownKept
<1>1. Init => CooldownKept
  BY DEF Init, Pipeline!Init, CooldownKept
<1> QED BY <1>1, SubmissionInvariant, CooldownStep, PTL DEF Spec

LEMMA StatementAnswers ==
  ASSUME TypeOK, NEW r \in Requests, Statement(r) \/ Refuse(r)
  PROVE  /\ \A q \in Requests : answer'[q] = answer[q] \/ q = r
         /\ \/ answer'[r] \in {answer[r], "refused", "conflict"}
            \/ answer'[r] = r /\ Create(r)
            \/ answer'[r] \in Stored /\ Matches(r, answer'[r])
<1> DEFINE Goal ==
      /\ \A q \in Requests : answer'[q] = answer[q] \/ q = r
      /\ \/ answer'[r] \in {answer[r], "refused", "conflict"}
         \/ answer'[r] = r /\ Create(r)
         \/ answer'[r] \in Stored /\ Matches(r, answer'[r])
<1>p. ASSUME NEW s, Proceed(r, s) PROVE Goal
  BY <1>p DEF Proceed
<1>a. ASSUME NEW a \in {"refused", "conflict"}, Answer(r, a) PROVE Goal
  BY <1>a DEF Answer, TypeOK
<1>r. ASSUME NEW i \in Stored, Replay(r, i) PROVE Goal
  <2>1. CASE Matches(r, i) /\ Answer(r, i)
    BY <2>1 DEF Answer, TypeOK
  <2> QED BY <1>r, <1>a, <2>1 DEF Replay
<1> HIDE DEF Goal
<1>1. CASE LockMailbox(r) BY <1>1, <1>p DEF LockMailbox, Goal
<1>2. CASE LookUpKey(r) BY <1>2, <1>p, <1>r DEF LookUpKey, SameKey, Goal
<1>3. CASE LockDraft(r) BY <1>3, <1>p, <1>a DEF LockDraft, Goal
<1>4. CASE ReadContact(r) BY <1>4, <1>p, <1>a DEF ReadContact, Goal
<1>5. CASE LookUpMessage(r) BY <1>5, <1>p, <1>a, <1>r DEF LookUpMessage, Blocking, Goal
<1>6. CASE ReadBinding(r) BY <1>6, <1>p, <1>a DEF ReadBinding, Goal
<1>7. CASE CoolDown(r) BY <1>7, <1>p, <1>a DEF CoolDown, Goal
<1>8. CASE Insert(r)
  <2>1. CASE Answer(r, "conflict") BY <2>1, <1>a DEF Goal
  <2>2. CASE Create(r) BY <2>2 DEF Create, TypeOK, Goal
  <2> QED BY <1>8, <2>1, <2>2 DEF Insert
<1>9. CASE Refuse(r) BY <1>9, <1>a DEF Refuse, Goal
<1> QED BY <1>1, <1>2, <1>3, <1>4, <1>5, <1>6, <1>7, <1>8, <1>9 DEF Statement

LEMMA AnswersStep ==
  IInv /\ AnswersNameTheMessage /\ [Next]_vars => AnswersNameTheMessage'
<1> SUFFICES ASSUME IInv, AnswersNameTheMessage, [Next]_vars,
                    NEW q \in Requests, NEW i \in Requests, answer'[q] = i
             PROVE  /\ status'[i] # "none"
                    /\ SameMessage(i, q)'
                    /\ MailboxOf[i] = MailboxOf[q]
  BY DEF AnswersNameTheMessage
<1> USE DEF IInv, AnswersNameTheMessage, SameMessage
<1>1. ASSUME NEW r \in Requests, Statement(r) \/ Refuse(r)
      PROVE  /\ status'[i] # "none"
             /\ SameMessage(i, q)'
             /\ MailboxOf[i] = MailboxOf[q]
  <2>1. UNCHANGED confirmed /\ (status[i] # "none" => status'[i] # "none")
    BY <1>1, StatementEffect
       DEF Create, Pipeline!Submit, Pipeline!Become, TypeOK, Pipeline!TypeOK
  <2>2. CASE answer[q] = i
    BY <2>1, <2>2
  <2>3. CASE q = r /\ i = r /\ Create(r)
    BY <2>1, <2>3 DEF Create, Pipeline!Submit, Pipeline!Become, TypeOK, Pipeline!TypeOK
  <2>4. CASE q = r /\ i \in Stored /\ Matches(r, i)
    BY <2>1, <2>4 DEF Stored, Matches, Message
  <2> QED BY <1>1, <2>2, <2>3, <2>4, StatementAnswers, SubmissionAssumption
<1>2. CASE Surroundings
  <2>1. answer[q] = i
    BY <1>2 DEF Surroundings
  <2>2. stage[q] = "done" /\ stage[i] = "done"
    BY <2>1, SubmissionAssumption DEF StoredAreDone
  <2> QED BY <1>2, <2>1, <2>2 DEF Surroundings, Early
<1> QED BY <1>1, <1>2, OtherSteps

\* Whoever is told of an intent is told of the message it asked for.
THEOREM AnswersAreTrue == Spec => []AnswersNameTheMessage
<1>1. Init => AnswersNameTheMessage
  BY SubmissionAssumption DEF Init, AnswersNameTheMessage
<1> QED BY <1>1, SubmissionInvariant, AnswersStep, PTL DEF Spec
=============================================================================
