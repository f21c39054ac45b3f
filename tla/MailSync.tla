------------------------------- MODULE MailSync -------------------------------
(***************************************************************************)
(* How replies get from a mailbox into the projects.  A polling workflow   *)
(* runs one synchronisation of the Gmail connection after another.  A run  *)
(* reads which threads belong to which project, brings the cursor of the   *)
(* connection forward page by page, stores the messages of those threads   *)
(* and projects what is stored.  The cursor is shared by the projects; a   *)
(* run that outlives its five minutes goes on beside its successors.       *)
(*                                                                         *)
(* Message k is the k-th the mailbox receives and k is the history id it   *)
(* gives the mailbox.  Nothing else moves the history here.                *)
(***************************************************************************)
EXTENDS Naturals, FiniteSets

CONSTANTS
  Threads,     \* Gmail threads of e-mails that have been sent
  Projects,
  ProjectOf,   \* the project that sent the e-mail of a thread
  ThreadOf,    \* the thread of the k-th message
  PageSize,    \* messages on a page of Gmail, 100
  Workers,     \* attempts of the activity that can be under way at a time
  Nobody,
  Earlier,     \* messages in the mailbox before the first cycle
  MaxMail,     \* bound: messages the mailbox receives
  MaxTroubles  \* bound: runs that break off or time out, and forgotten history

Mail == 1 .. MaxMail

ASSUME MailAssumption ==
  /\ ProjectOf \in [Threads -> Projects]
  /\ MaxMail \in Nat
  /\ Earlier \in 0 .. MaxMail
  /\ ThreadOf \in [Mail -> Threads]
  /\ PageSize \in Nat \ {0}
  /\ MaxTroubles \in Nat
  /\ Nobody \notin Workers

VARIABLES
  arrived,   \* the history id of the mailbox
  oldest,    \* a history id before this one is answered with 404
  accepted,  \* threads whose e-mail is recorded as PROVIDER_ACCEPTED
  open,      \* projects whose kill switch lets mail in
  cursor,    \* the row of backlink_gmail_connection_sync_cursors
  stored,    \* messages with a raw reference
  projected, \* messages with a row in backlink_mail_messages
  pc,        \* what a run does next
  routes,    \* threads whose messages it keeps
  todo,      \* projects whose lane it has not read, or projected, yet
  check,     \* the checkpoint it goes by
  page,      \* messages of its page that it has still to store
  upTo,      \* where its page ends
  snapshot,  \* the history id its page came with
  current,   \* the run the polling workflow waits for
  due,       \* history: messages that came when nothing kept them out
  troubles   \* counts towards MaxTroubles

gmail == <<arrived, oldest>>
tables == <<accepted, open>>
results == <<stored, projected>>
pages == <<page, upTo, snapshot>>
run == <<pc, routes, todo, check, pages>>
vars == <<gmail, tables, cursor, results, run, current, due, troubles>>

\* A cursor is `started` when it has been created, `listing` between two
\* pages of the initial sync, `completed` after its last.  What pos says in
\* the code, the page token does: an initial sync has listed everything from
\* the snapshot down to pos, an incremental one everything from the history
\* id up to pos.
Cursors == [state : {"none", "started", "listing", "completed"},
            since : Nat, hist : Nat, pos : Nat]

NoCursor == [state |-> "none", since |-> 0, hist |-> 0, pos |-> 0]

TypeOK ==
  /\ arrived \in Nat
  /\ oldest \in Nat
  /\ accepted \in SUBSET Threads
  /\ open \in SUBSET Projects
  /\ cursor \in Cursors
  /\ stored \in SUBSET Mail
  /\ projected \in SUBSET Mail
  /\ pc \in [Workers -> {"idle", "lanes", "list", "profile", "verify",
                         "insert", "project"}]
  /\ routes \in [Workers -> SUBSET Threads]
  /\ todo \in [Workers -> SUBSET Projects]
  /\ check \in [Workers -> Cursors]
  /\ page \in [Workers -> SUBSET Mail]
  /\ upTo \in [Workers -> Nat]
  /\ snapshot \in [Workers -> Nat]
  /\ current \in Workers \cup {Nobody}
  /\ due \in SUBSET Mail
  /\ troubles \in Nat

Init ==
  /\ arrived = Earlier /\ oldest = 0
  /\ accepted = {} /\ open = Projects
  /\ cursor = NoCursor
  /\ stored = {} /\ projected = {}
  /\ pc = [w \in Workers |-> "idle"]
  /\ routes = [w \in Workers |-> {}]
  /\ todo = [w \in Workers |-> {}]
  /\ check = [w \in Workers |-> NoCursor]
  /\ page = [w \in Workers |-> {}]
  /\ upTo = [w \in Workers |-> 0]
  /\ snapshot = [w \in Workers |-> 0]
  /\ current = Nobody
  /\ due = {}
  /\ troubles = 0

\* The thread is in the lane of its project.
Routed(t) == t \in accepted /\ ProjectOf[t] \in open

\* The page token of a completed cursor is not null.
Interrupted(c) == c.state = "completed" /\ c.pos # c.hist

-----------------------------------------------------------------------------
(* Steps a run is made of *)

NoPage(w) ==
  /\ page' = [page EXCEPT ![w] = {}]
  /\ upTo' = [upTo EXCEPT ![w] = 0]
  /\ snapshot' = [snapshot EXCEPT ![w] = 0]

Initial(w) == check[w].state # "completed"

\* The initial sync, then the incremental one, load the lanes anew.
LoadLanes(w, c) ==
  /\ pc' = [pc EXCEPT ![w] = "lanes"]
  /\ routes' = [routes EXCEPT ![w] = {}]
  /\ todo' = [todo EXCEPT ![w] = Projects]
  /\ check' = [check EXCEPT ![w] = c]
  /\ NoPage(w)

\* The next page is listed from checkpoint c.
GoOn(w, c) ==
  /\ pc' = [pc EXCEPT ![w] = "list"]
  /\ check' = [check EXCEPT ![w] = c]
  /\ NoPage(w)
  /\ UNCHANGED <<routes, todo>>

\* Every lane of the second load is projected.
ProjectLanes(w) ==
  /\ pc' = [pc EXCEPT ![w] = "project"]
  /\ routes' = [routes EXCEPT ![w] = {}]
  /\ todo' = [todo EXCEPT ![w] = {ProjectOf[t] : t \in routes[w]}]
  /\ check' = [check EXCEPT ![w] = NoCursor]
  /\ NoPage(w)

\* The run ends, or throws; the workflow waits for the next cycle.
End(w) ==
  /\ pc' = [pc EXCEPT ![w] = "idle"]
  /\ routes' = [routes EXCEPT ![w] = {}]
  /\ todo' = [todo EXCEPT ![w] = {}]
  /\ check' = [check EXCEPT ![w] = NoCursor]
  /\ NoPage(w)
  /\ current' = IF current = w THEN Nobody ELSE current

-----------------------------------------------------------------------------
(* run, in its order *)

StartCycle(w) ==
  /\ pc[w] = "idle" /\ current = Nobody
  /\ LoadLanes(w, NoCursor)
  /\ current' = w
  /\ UNCHANGED <<gmail, tables, cursor, results, due, troubles>>

\* Every project is read in transactions of its own, the switch before the
\* threads; a thread that is recorded in between is only one more route.
ReadLane(w, p) ==
  /\ pc[w] = "lanes" /\ p \in todo[w]
  /\ todo' = [todo EXCEPT ![w] = @ \ {p}]
  /\ routes' = [routes EXCEPT ![w] =
                  @ \cup {t \in Threads : ProjectOf[t] = p /\ Routed(t)}]
  /\ UNCHANGED <<gmail, tables, cursor, results, pc, check, pages, current,
                 due, troubles>>

\* WAITING_FOR_ACCEPTED_SEND the first time, an exception the second.
NoLanes(w) ==
  /\ pc[w] = "lanes" /\ todo[w] = {} /\ routes[w] = {}
  /\ End(w)
  /\ UNCHANGED <<gmail, tables, cursor, results, due, troubles>>

HasLanes(w) == pc[w] = "lanes" /\ todo[w] = {} /\ routes[w] # {}

\* The row that was loaded, or created now.
Loaded ==
  IF cursor.state = "none"
  THEN [NoCursor EXCEPT !.state = "started", !.since = arrived]
  ELSE cursor

LoadOrCreateCheckpoint(w) ==
  /\ HasLanes(w) /\ Initial(w)
  /\ ~Interrupted(cursor)
  /\ cursor' = Loaded
  /\ \/ Loaded.state = "completed" /\ LoadLanes(w, Loaded)
     \/ Loaded.state # "completed" /\ GoOn(w, Loaded)
  /\ UNCHANGED <<gmail, tables, results, current, due, troubles>>

\* The reader of the initial cursor throws on a page token of the
\* incremental sync: `Completed connection sync cursor is invalid`.
InvalidCursor(w) ==
  /\ HasLanes(w) /\ Initial(w)
  /\ Interrupted(cursor)
  /\ End(w)
  /\ UNCHANGED <<gmail, tables, cursor, results, due, troubles>>

LoadCheckpoint(w) ==
  /\ HasLanes(w) /\ ~Initial(w)
  /\ GoOn(w, cursor)
  /\ UNCHANGED <<gmail, tables, cursor, results, current, due, troubles>>

\* Each call gets its access token through a lane that is read for it.
HasToken == \E t \in Threads : Routed(t)

LaneUnavailable(w) ==
  /\ pc[w] = "list" /\ ~HasToken
  /\ End(w)
  /\ UNCHANGED <<gmail, tables, cursor, results, due, troubles>>

Minus(a, b) == IF a < b THEN 0 ELSE a - b

\* messages.list, newest first.  Only messages of the routes are fetched, and
\* those that came after the cursor was created are dropped.
ListInitial(w) ==
  /\ pc[w] = "list" /\ HasToken /\ Initial(w)
  /\ LET top == IF check[w].state = "listing" THEN check[w].pos ELSE arrived
         end == Minus(top, PageSize)
     IN /\ page' = [page EXCEPT ![w] =
                      {k \in Mail : /\ end < k /\ k <= top
                                    /\ ThreadOf[k] \in routes[w]
                                    /\ k <= check[w].since}]
        /\ upTo' = [upTo EXCEPT ![w] = end]
  /\ pc' = [pc EXCEPT ![w] = "profile"]
  /\ UNCHANGED <<gmail, tables, cursor, results, routes, todo, check, snapshot,
                 current, due, troubles>>

\* getProfile, after the list.  On a later page the history id must be that
\* of the first one.
SameSnapshot(w) == check[w].state = "listing" => arrived = check[w].hist

ReadProfile(w) ==
  /\ pc[w] = "profile" /\ SameSnapshot(w)
  /\ snapshot' = [snapshot EXCEPT ![w] = arrived]
  /\ pc' = [pc EXCEPT ![w] = "verify"]
  /\ UNCHANGED <<gmail, tables, cursor, results, routes, todo, check, page,
                 upTo, current, due, troubles>>

SnapshotChanged(w) ==
  /\ pc[w] = "profile" /\ ~SameSnapshot(w)
  /\ End(w)
  /\ UNCHANGED <<gmail, tables, cursor, results, due, troubles>>

\* history.list, oldest first.
ListHistory(w) ==
  /\ pc[w] = "list" /\ HasToken /\ ~Initial(w) /\ check[w].hist >= oldest
  /\ LET far == check[w].pos + PageSize
         end == IF far < arrived THEN far ELSE arrived
     IN /\ page' = [page EXCEPT ![w] =
                      {k \in Mail : /\ check[w].pos < k /\ k <= end
                                    /\ ThreadOf[k] \in routes[w]}]
        /\ upTo' = [upTo EXCEPT ![w] = end]
  /\ snapshot' = [snapshot EXCEPT ![w] = arrived]
  /\ pc' = [pc EXCEPT ![w] = "verify"]
  /\ UNCHANGED <<gmail, tables, cursor, results, routes, todo, check, current,
                 due, troubles>>

\* Nobody repairs it, but what is stored is projected.
HistoryExpired(w) ==
  /\ pc[w] = "list" /\ HasToken /\ ~Initial(w) /\ check[w].hist < oldest
  /\ ProjectLanes(w)
  /\ UNCHANGED <<gmail, tables, cursor, results, current, due, troubles>>

\* Faulty: the second transaction does not look at the cursor again.
MatchesFaulty(w) == pc[w] = "insert" \/ cursor = check[w]

\* persistPage compares the page token, and the history id of an incremental
\* sync, with what the page was listed for.
Matches(w) ==
  /\ cursor.state = check[w].state
  /\ cursor.pos = check[w].pos
  /\ Initial(w) \/ cursor.hist = check[w].hist

\* The first transaction of persistPage.
Verify(w) ==
  /\ pc[w] = "verify" /\ Matches(w)
  /\ pc' = [pc EXCEPT ![w] = "insert"]
  /\ UNCHANGED <<gmail, tables, cursor, results, routes, todo, check, pages,
                 current, due, troubles>>

\* Every message is inserted in a transaction of its own, if the e-mail is
\* still recorded as accepted and the kill switch still lets it in.
Insert(w, k) ==
  /\ pc[w] = "insert" /\ k \in page[w]
  /\ page' = [page EXCEPT ![w] = @ \ {k}]
  /\ stored' = IF Routed(ThreadOf[k]) THEN stored \cup {k} ELSE stored
  /\ UNCHANGED <<gmail, tables, cursor, projected, pc, routes, todo, check,
                 upTo, snapshot, current, due, troubles>>

\* Faulty: every page brings the history id forward.
AdvancedFaulty(w) ==
  [check[w] EXCEPT !.state = IF ~Initial(w) \/ upTo[w] = 0 THEN "completed"
                                                           ELSE "listing",
                   !.hist = snapshot[w],
                   !.pos = IF Initial(w) /\ upTo[w] # 0 THEN upTo[w]
                                                        ELSE snapshot[w]]

LastPage(w) == upTo[w] = IF Initial(w) THEN 0 ELSE snapshot[w]

\* Only the last page of an incremental sync brings the history id forward.
Advanced(w) ==
  IF LastPage(w)
  THEN [cursor EXCEPT !.state = "completed",
                      !.hist = snapshot[w], !.pos = snapshot[w]]
  ELSE IF Initial(w)
       THEN [cursor EXCEPT !.state = "listing",
                           !.hist = snapshot[w], !.pos = upTo[w]]
       ELSE [cursor EXCEPT !.pos = upTo[w]]

\* The second transaction of persistPage, and what the workflow does next.
Advance(w) ==
  /\ pc[w] = "insert" /\ page[w] = {} /\ Matches(w)
  /\ cursor' = Advanced(w)
  /\ \/ ~LastPage(w) /\ GoOn(w, Advanced(w))
     \/ LastPage(w) /\ Initial(w) /\ LoadLanes(w, Advanced(w))
     \/ LastPage(w) /\ ~Initial(w) /\ ProjectLanes(w)
  /\ UNCHANGED <<gmail, tables, results, current, due, troubles>>

\* Faulty: the run goes on from the checkpoint it has.
FreshFaulty(w) == check[w]

\* The checkpoint that comes with the answer `stale`.
Fresh(w) == cursor

\* Either transaction finds that another run has moved the cursor.
Stale(w) ==
  /\ pc[w] = "verify" \/ (pc[w] = "insert" /\ page[w] = {})
  /\ ~Matches(w)
  /\ \/ /\ ~Initial(w) \/ cursor.state # "completed"
        /\ GoOn(w, Fresh(w))
        /\ UNCHANGED current
     \/ /\ Initial(w) /\ cursor.state = "completed" /\ ~Interrupted(cursor)
        /\ LoadLanes(w, Fresh(w))
        /\ UNCHANGED current
     \/ Initial(w) /\ Interrupted(cursor) /\ End(w)
  /\ UNCHANGED <<gmail, tables, cursor, results, due, troubles>>

\* The lane's raw references are read, parsed and projected.
Project(w, p) ==
  /\ pc[w] = "project" /\ p \in todo[w]
  /\ todo' = [todo EXCEPT ![w] = @ \ {p}]
  /\ projected' = projected \cup
       {k \in stored : /\ ProjectOf[ThreadOf[k]] = p
                       /\ ThreadOf[k] \in accepted}
  /\ UNCHANGED <<gmail, tables, cursor, stored, pc, routes, check, pages,
                 current, due, troubles>>

Finish(w) ==
  /\ pc[w] = "project" /\ todo[w] = {}
  /\ End(w)
  /\ UNCHANGED <<gmail, tables, cursor, results, due, troubles>>

Trouble ==
  /\ troubles < MaxTroubles
  /\ troubles' = troubles + 1

\* A call fails or the worker dies.
Breaks(w) ==
  /\ pc[w] # "idle"
  /\ Trouble
  /\ End(w)
  /\ UNCHANGED <<gmail, tables, cursor, results, due>>

\* After five minutes the workflow no longer waits, but the run goes on.
TimesOut(w) ==
  /\ current = w
  /\ Trouble
  /\ current' = Nobody
  /\ UNCHANGED <<gmail, tables, cursor, results, run, due>>

-----------------------------------------------------------------------------
(* The mailbox, the send pipeline and the operators *)

\* The acceptance is recorded after Gmail has taken the e-mail, perhaps by
\* the recovery much later.
Accept(t) ==
  /\ t \notin accepted
  /\ accepted' = accepted \cup {t}
  /\ UNCHANGED <<gmail, open, cursor, results, run, current, due, troubles>>

\* A run that is under way keeps the messages of the thread.
Covers(w, t) ==
  \/ pc[w] \in {"idle", "project"}
  \/ t \in routes[w]
  \/ pc[w] = "lanes" /\ ProjectOf[t] \in todo[w]

\* Nothing keeps a reply out that comes now: not between the creation of the
\* cursor and its snapshot, and not past a run with older routes.
Due(t) ==
  /\ Routed(t)
  /\ cursor.state # "started"
  /\ \A w \in Workers : Covers(w, t)

Arrive ==
  /\ arrived < MaxMail
  /\ LET k == arrived + 1
     IN /\ arrived' = k
        /\ due' = IF Due(ThreadOf[k]) THEN due \cup {k} ELSE due
  /\ UNCHANGED <<oldest, tables, cursor, results, run, current, troubles>>

\* A paused project has no claim to its messages.
Pause(p) ==
  /\ p \in open
  /\ open' = open \ {p}
  /\ due' = {k \in due : ProjectOf[ThreadOf[k]] # p}
  /\ UNCHANGED <<gmail, accepted, cursor, results, run, current, troubles>>

Resume(p) ==
  /\ p \notin open
  /\ open' = open \cup {p}
  /\ UNCHANGED <<gmail, accepted, cursor, results, run, current, due, troubles>>

\* Gmail keeps about a week of history.
Forget ==
  /\ Trouble
  /\ oldest' \in oldest + 1 .. arrived
  /\ UNCHANGED <<arrived, tables, cursor, results, run, current, due>>

-----------------------------------------------------------------------------

Step(w) ==
  \/ \E p \in Projects : ReadLane(w, p) \/ Project(w, p)
  \/ \E k \in Mail : Insert(w, k)
  \/ NoLanes(w) \/ LoadOrCreateCheckpoint(w) \/ InvalidCursor(w)
  \/ LoadCheckpoint(w) \/ LaneUnavailable(w)
  \/ ListInitial(w) \/ ReadProfile(w) \/ SnapshotChanged(w)
  \/ ListHistory(w) \/ HistoryExpired(w)
  \/ Verify(w) \/ Advance(w) \/ Stale(w) \/ Finish(w)

Next ==
  \/ \E w \in Workers : StartCycle(w) \/ Step(w) \/ Breaks(w) \/ TimesOut(w)
  \/ \E t \in Threads : Accept(t)
  \/ \E p \in Projects : Pause(p) \/ Resume(p)
  \/ Arrive \/ Forget

Spec == Init /\ [][Next]_vars

\* The workflow starts the next cycle and the run it waits for goes on.
\* Nothing is promised of a run it no longer waits for.
FairSpec ==
  /\ Spec
  /\ WF_vars(\E w \in Workers : StartCycle(w))
  /\ WF_vars(\E w \in Workers : current = w /\ Step(w))

-----------------------------------------------------------------------------
(* Properties *)

\* The cursor has left the message behind.
Passed(k) ==
  \/ cursor.state = "listing" /\ k \in cursor.pos + 1 .. cursor.hist
  \/ cursor.state = "completed" /\ k <= cursor.pos

\* However runs overlap, break off, find the cursor moved or read the lanes
\* of the projects, the cursor passes a message that is due only when it is
\* stored.
DueAreStored == \A k \in due : Passed(k) => k \in stored

\* A run that was overtaken never takes the cursor back.
CursorNeverBack ==
  [][LET old == cursor
         new == cursor'
     IN /\ old.state # "none" => new.state # "none" /\ new.since = old.since
        /\ old.state = "listing" =>
             \/ /\ new.state = "listing"
                /\ new.hist = old.hist /\ new.pos <= old.pos
             \/ new.state = "completed" /\ new.hist >= old.hist
        /\ old.state = "completed" =>
             /\ new.state = "completed"
             /\ new.hist >= old.hist /\ new.pos >= old.pos]_vars

\* Every run fails, or finds the history expired, until something else moves.
Stuck ==
  \/ cursor.state = "listing" /\ cursor.hist # arrived
  \/ cursor.state = "completed" /\ cursor.hist < oldest
  \/ Interrupted(cursor)

\* Every message that is due is projected, unless its project is paused or
\* the connection is stuck for good.
EventuallyProjected ==
  \/ <>[]Stuck
  \/ \A k \in Mail : k \in due ~> (k \in projected \/ k \notin due)

\* An incremental sync that was interrupted between two pages is resumed,
\* while its history is kept and there are lanes.
InterruptedResumes ==
  Interrupted(cursor) ~>
    \/ ~Interrupted(cursor)
    \/ cursor.hist < oldest
    \/ \A t \in Threads : ~Routed(t)

\* The inductive invariant.  What is due stays routed, and every run under
\* way keeps it or has still to read its lane.
DueAreKept ==
  \A k \in due :
    /\ k <= arrived
    /\ Routed(ThreadOf[k])
    /\ \A w \in Workers : Covers(w, ThreadOf[k])

\* What a cursor says, and that what is due is not lost between the creation
\* of the cursor and its snapshot.
CursorIsSound ==
  /\ cursor.since <= arrived
  /\ cursor.state \in {"none", "started"} => cursor.hist = 0 /\ cursor.pos = 0
  /\ cursor.state = "started" => \A k \in due : k <= cursor.since
  /\ cursor.state = "listing" =>
       /\ 0 < cursor.pos /\ cursor.pos <= cursor.hist /\ cursor.hist <= arrived
       /\ \A k \in due : k <= cursor.since \/ k > cursor.hist
  /\ cursor.state = "completed" =>
       cursor.hist <= cursor.pos /\ cursor.pos <= arrived

Listing(w) == pc[w] \in {"list", "profile", "verify", "insert"}

\* The checkpoint of a run is one the cursor has been at.
CheckKnown(w) ==
  /\ Listing(w) => check[w].state # "none" /\ todo[w] = {}
  /\ check[w].state # "none" =>
       cursor.state # "none" /\ check[w].since = cursor.since
  /\ check[w].state = "started" => check[w].pos = 0
  /\ check[w].state = "listing" =>
       \/ cursor.state = "listing" /\ check[w].hist = cursor.hist
       \/ cursor.state = "completed"
  /\ check[w].pos <= arrived

\* What the page of a run was listed for.
OnPage(w, k) ==
  IF Initial(w)
  THEN /\ upTo[w] < k /\ k <= check[w].since
       /\ check[w].state = "listing" => k <= check[w].pos
  ELSE check[w].pos < k /\ k <= upTo[w]

\* A page holds what is due and has still to be stored.
PageComplete(w) ==
  /\ pc[w] \in {"profile", "verify", "insert"} =>
       /\ \A k \in due : OnPage(w, k) => k \in page[w] \cup stored
       /\ upTo[w] <= arrived
       /\ check[w].state = "listing" => upTo[w] <= check[w].pos
       /\ ~Initial(w) => check[w].pos <= upTo[w]
  /\ pc[w] \in {"verify", "insert"} =>
       /\ upTo[w] <= snapshot[w] /\ snapshot[w] <= arrived
       /\ check[w].state = "started" => check[w].since <= snapshot[w]
       /\ check[w].state = "listing" => snapshot[w] = check[w].hist

RunsAreSound == \A w \in Workers : CheckKnown(w) /\ PageComplete(w)

IInv ==
  /\ TypeOK
  /\ DueAreStored
  /\ DueAreKept
  /\ CursorIsSound
  /\ RunsAreSound
===============================================================================
