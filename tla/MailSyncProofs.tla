---------------------------- MODULE MailSyncProofs ----------------------------
(***************************************************************************)
(* For any threads, projects, pages, runs and messages: the cursor of a    *)
(* connection never goes back and never passes a message that is due and   *)
(* not stored.                                                             *)
(***************************************************************************)
EXTENDS MailSync, TLAPS

-----------------------------------------------------------------------------
(* The steps of a run *)

Acts(w) == StartCycle(w) \/ Step(w) \/ Breaks(w) \/ TimesOut(w)

\* Steps of the mailbox, the send pipeline and the operators.
Outside ==
  \/ \E t \in Threads : Accept(t)
  \/ \E p \in Projects : Pause(p) \/ Resume(p)
  \/ Arrive \/ Forget \/ UNCHANGED vars

Same(v) ==
  /\ pc'[v] = pc[v] /\ routes'[v] = routes[v] /\ todo'[v] = todo[v]
  /\ check'[v] = check[v]
  /\ page'[v] = page[v] /\ upTo'[v] = upTo[v] /\ snapshot'[v] = snapshot[v]

Leaves(w) ==
  /\ pc'[w] \in {"idle", "project"}
  /\ check'[w] = NoCursor
  /\ page'[w] = {} /\ upTo'[w] = 0 /\ snapshot'[w] = 0

Loads(w, c) ==
  /\ pc'[w] = "lanes" /\ todo'[w] = Projects /\ routes'[w] = {}
  /\ check'[w] = c
  /\ page'[w] = {} /\ upTo'[w] = 0 /\ snapshot'[w] = 0

GoesOn(w) ==
  /\ pc[w] # "lanes" => Listing(w)
  /\ todo[w] = {}
  /\ pc'[w] = "list" /\ todo'[w] = todo[w] /\ routes'[w] = routes[w]
  /\ check'[w] = cursor' /\ cursor'.state # "none"
  /\ page'[w] = {} /\ upTo'[w] = 0 /\ snapshot'[w] = 0

RunTypes ==
  /\ pc \in [Workers -> {"idle", "lanes", "list", "profile", "verify",
                         "insert", "project"}]
  /\ routes \in [Workers -> SUBSET Threads]
  /\ todo \in [Workers -> SUBSET Projects]
  /\ check \in [Workers -> Cursors]
  /\ page \in [Workers -> SUBSET Mail]
  /\ upTo \in [Workers -> Nat]
  /\ snapshot \in [Workers -> Nat]

LEMMA NoCursorType == NoCursor \in Cursors
  BY DEF NoCursor, Cursors

LEMMA RunSteps ==
  ASSUME TypeOK, NEW w \in Workers, NEW c \in Cursors,
         LoadLanes(w, c) \/ GoOn(w, c) \/ ProjectLanes(w) \/ End(w)
  PROVE  RunTypes'
<1>1. /\ page' \in [Workers -> SUBSET Mail]
      /\ upTo' \in [Workers -> Nat]
      /\ snapshot' \in [Workers -> Nat]
  BY DEF TypeOK, LoadLanes, GoOn, ProjectLanes, End, NoPage
<1>2. check' \in [Workers -> Cursors]
  BY NoCursorType DEF TypeOK, LoadLanes, GoOn, ProjectLanes, End
<1>3. pc' \in [Workers -> {"idle", "lanes", "list", "profile", "verify",
                           "insert", "project"}]
  BY DEF TypeOK, LoadLanes, GoOn, ProjectLanes, End
<1>4. routes' \in [Workers -> SUBSET Threads]
  BY DEF TypeOK, LoadLanes, GoOn, ProjectLanes, End
<1>5. {ProjectOf[t] : t \in routes[w]} \subseteq Projects
  BY MailAssumption DEF TypeOK
<1>6. todo' \in [Workers -> SUBSET Projects]
  BY <1>5 DEF TypeOK, LoadLanes, GoOn, ProjectLanes, End
<1> QED BY <1>1, <1>2, <1>3, <1>4, <1>6 DEF RunTypes

LEMMA TypeStep == ASSUME TypeOK, [Next]_vars PROVE TypeOK'
<1> USE DEF gmail, tables, results
<1>1. ASSUME NEW w \in Workers, End(w), UNCHANGED <<gmail, tables, cursor, results, due>>,
             troubles' \in Nat
      PROVE  TypeOK'
  BY <1>1, RunSteps, NoCursorType DEF TypeOK, RunTypes, End
<1>2. ASSUME NEW w \in Workers, NoLanes(w) \/ InvalidCursor(w)
             \/ LaneUnavailable(w) \/ SnapshotChanged(w)
             \/ Finish(w) \/ Breaks(w)
      PROVE  TypeOK'
  BY <1>1, <1>2 DEF NoLanes, InvalidCursor, LaneUnavailable, SnapshotChanged,
                     Finish, Breaks, Trouble, TypeOK
<1>3. ASSUME NEW w \in Workers, StartCycle(w) PROVE TypeOK'
  BY <1>3, RunSteps, NoCursorType DEF StartCycle, TypeOK, RunTypes
<1>4. ASSUME NEW w \in Workers, TimesOut(w) PROVE TypeOK'
  BY <1>4 DEF TimesOut, Trouble, TypeOK, run, pages
<1>5. ASSUME NEW w \in Workers, LoadOrCreateCheckpoint(w) PROVE TypeOK'
  <2>1. Loaded \in Cursors
    BY DEF Loaded, TypeOK, Cursors, NoCursor
  <2> QED BY <1>5, <2>1, RunSteps DEF LoadOrCreateCheckpoint, TypeOK, RunTypes
<1>6. ASSUME NEW w \in Workers, LoadCheckpoint(w) \/ HistoryExpired(w) PROVE TypeOK'
  BY <1>6, RunSteps, NoCursorType DEF LoadCheckpoint, HistoryExpired, TypeOK, RunTypes
<1>7. ASSUME NEW w \in Workers, Advance(w) PROVE TypeOK'
  <2>1. Advanced(w) \in Cursors
    BY DEF Advanced, TypeOK, Cursors
  <2> QED BY <1>7, <2>1, RunSteps DEF Advance, TypeOK, RunTypes
<1>8. ASSUME NEW w \in Workers, Stale(w) PROVE TypeOK'
  <2>1. CASE End(w)
    BY <1>1, <1>8, <2>1 DEF Stale, TypeOK
  <2>2. CASE UNCHANGED current
    BY <1>8, <2>2, RunSteps DEF Stale, Fresh, TypeOK, RunTypes
  <2> QED BY <1>8, <2>1, <2>2 DEF Stale
<1>9. ASSUME NEW w \in Workers, ListInitial(w) PROVE TypeOK'
  <2> DEFINE top == IF check[w].state = "listing" THEN check[w].pos ELSE arrived
  <2>1. top \in Nat
    BY DEF TypeOK, Cursors
  <2> HIDE DEF top
  <2>2. Minus(top, PageSize) \in Nat
    BY <2>1, MailAssumption DEF Minus
  <2> QED BY <1>9, <2>2 DEF ListInitial, top, TypeOK
<1>10. ASSUME NEW w \in Workers, ListHistory(w) PROVE TypeOK'
  <2> DEFINE far == check[w].pos + PageSize
  <2>1. far \in Nat
    BY MailAssumption DEF TypeOK, Cursors
  <2> HIDE DEF far
  <2>2. (IF far < arrived THEN far ELSE arrived) \in Nat
    BY <2>1 DEF TypeOK
  <2> QED BY <1>10, <2>2 DEF ListHistory, far, TypeOK
<1>11. ASSUME NEW w \in Workers, ReadProfile(w) PROVE TypeOK'
  BY <1>11 DEF ReadProfile, TypeOK
<1>12. ASSUME NEW w \in Workers, Verify(w) PROVE TypeOK'
  BY <1>12 DEF Verify, TypeOK, pages
<1>13. ASSUME NEW w \in Workers, NEW p \in Projects, ReadLane(w, p) PROVE TypeOK'
  BY <1>13 DEF ReadLane, TypeOK, pages
<1>14. ASSUME NEW w \in Workers, NEW p \in Projects, Project(w, p) PROVE TypeOK'
  BY <1>14 DEF Project, TypeOK, pages
<1>15. ASSUME NEW w \in Workers, NEW k \in Mail, Insert(w, k) PROVE TypeOK'
  BY <1>15 DEF Insert, TypeOK
<1>16. ASSUME NEW t \in Threads, Accept(t) PROVE TypeOK'
  BY <1>16 DEF Accept, TypeOK, run, pages
<1>17. ASSUME NEW p \in Projects, Pause(p) \/ Resume(p) PROVE TypeOK'
  BY <1>17 DEF Pause, Resume, TypeOK, run, pages
<1>18. CASE Arrive
  BY <1>18, MailAssumption DEF Arrive, TypeOK, Mail, run, pages
<1>19. CASE Forget
  BY <1>19 DEF Forget, Trouble, TypeOK, run, pages
<1>20. CASE UNCHANGED vars
  BY <1>20 DEF vars, TypeOK, run, pages
<1> QED
  BY <1>2, <1>3, <1>4, <1>5, <1>6, <1>7, <1>8, <1>9, <1>10, <1>11, <1>12,
     <1>13, <1>14, <1>15, <1>16, <1>17, <1>18, <1>19, <1>20 DEF Next, Step

-----------------------------------------------------------------------------
(* What a step does to the runs *)

Listed == {"profile", "verify", "insert"}

\* A step of a run leaves the others alone.
LEMMA OthersStay ==
  ASSUME TypeOK, NEW w \in Workers, Acts(w), NEW v \in Workers, v # w
  PROVE  Same(v)
<1> USE DEF TypeOK, Same, run, pages, NoPage
<1>1. CASE StartCycle(w) \/ NoLanes(w) \/ InvalidCursor(w)
             \/ LaneUnavailable(w) \/ SnapshotChanged(w)
             \/ Finish(w) \/ Breaks(w) \/ TimesOut(w)
  BY <1>1 DEF StartCycle, NoLanes, InvalidCursor, LaneUnavailable,
              SnapshotChanged, Finish,
              Breaks, TimesOut, LoadLanes, End
<1>2. CASE LoadOrCreateCheckpoint(w) \/ LoadCheckpoint(w) \/ HistoryExpired(w)
             \/ Advance(w) \/ Stale(w)
  BY <1>2 DEF LoadOrCreateCheckpoint, LoadCheckpoint, HistoryExpired, Advance,
              Stale, LoadLanes, GoOn, ProjectLanes, End
<1>3. CASE ListInitial(w) \/ ListHistory(w) \/ ReadProfile(w) \/ Verify(w)
  BY <1>3 DEF ListInitial, ListHistory, ReadProfile, Verify
<1>4. CASE \E p \in Projects : ReadLane(w, p) \/ Project(w, p)
  BY <1>4 DEF ReadLane, Project
<1>5. CASE \E k \in Mail : Insert(w, k)
  BY <1>5 DEF Insert
<1> QED BY <1>1, <1>2, <1>3, <1>4, <1>5 DEF Acts, Step

\* Only its own page, or its own lanes, can be what a step of a run changes;
\* all other steps end it, load its lanes or go on from the cursor.
LEMMA Kinds ==
  ASSUME IInv, NEW w \in Workers, Acts(w)
  PROVE  \/ Leaves(w)
         \/ Loads(w, NoCursor)
         \/ Loads(w, cursor') /\ cursor'.state = "completed"
         \/ GoesOn(w) /\ (pc[w] = "lanes" => routes[w] # {})
         \/ TimesOut(w) \/ ListInitial(w) \/ ListHistory(w)
         \/ ReadProfile(w) \/ Verify(w)
         \/ \E p \in Projects : ReadLane(w, p) \/ Project(w, p)
         \/ \E k \in Mail : Insert(w, k)
<1> USE DEF TypeOK, NoPage
<1>t. TypeOK /\ CheckKnown(w)
  BY DEF IInv, RunsAreSound
<1> HIDE DEF IInv
<1>1. CASE NoLanes(w) \/ InvalidCursor(w)
             \/ LaneUnavailable(w) \/ SnapshotChanged(w)
             \/ Finish(w) \/ Breaks(w) \/ HistoryExpired(w)
  BY <1>t, <1>1 DEF NoLanes, InvalidCursor, LaneUnavailable,
              SnapshotChanged, Finish, Breaks,
              HistoryExpired, End, ProjectLanes, Leaves
<1>2. CASE StartCycle(w)
  BY <1>t, <1>2 DEF StartCycle, LoadLanes, Loads
<1>3. CASE LoadOrCreateCheckpoint(w)
  <2>1. Loaded.state # "none"
    BY <1>t DEF Loaded, NoCursor, Cursors
  <2> QED BY <1>t, <1>3, <2>1
             DEF LoadOrCreateCheckpoint, HasLanes, LoadLanes, GoOn, Loads, GoesOn
<1>4. CASE LoadCheckpoint(w)
  BY <1>t, <1>4 DEF LoadCheckpoint, HasLanes, GoOn, GoesOn, CheckKnown, Initial,
                    results, run
<1>5. CASE Advance(w)
  <2>1. ~LastPage(w) \/ Initial(w) => Advanced(w).state # "none"
    BY <1>t DEF Advanced, CheckKnown, Initial, Cursors, Listing
  <2>2. LastPage(w) => Advanced(w).state = "completed"
    BY <1>t DEF Advanced, Cursors
  <2> QED
    BY <1>t, <1>5, <2>1, <2>2
       DEF Advance, LoadLanes, GoOn, ProjectLanes, Loads, GoesOn, Leaves,
           Listing, CheckKnown
<1>6. CASE Stale(w)
  <2>1. Listing(w) /\ todo[w] = {} /\ cursor.state # "none" /\ cursor' = cursor
    BY <1>t, <1>6 DEF Stale, Listing, CheckKnown
  <2> QED
    BY <1>t, <1>6, <2>1
       DEF Stale, Fresh, LoadLanes, GoOn, End, Loads, GoesOn, Leaves, Listing
<1> QED
  BY <1>1, <1>2, <1>3, <1>4, <1>5, <1>6 DEF Acts, Step

-----------------------------------------------------------------------------
(* The cursor *)

\* CursorNeverBack, of one step.
Forward ==
  /\ cursor.state # "none" => cursor'.state # "none" /\ cursor'.since = cursor.since
  /\ cursor.state = "listing" =>
       \/ /\ cursor'.state = "listing"
          /\ cursor'.hist = cursor.hist /\ cursor'.pos <= cursor.pos
       \/ cursor'.state = "completed" /\ cursor'.hist >= cursor.hist
  /\ cursor.state = "completed" =>
       /\ cursor'.state = "completed"
       /\ cursor'.hist >= cursor.hist /\ cursor'.pos >= cursor.pos

\* Only a creation and the end of a page change the cursor.
LEMMA CursorSteps ==
  ASSUME [Next]_vars
  PROVE  \/ cursor' = cursor
         \/ \E w \in Workers : LoadOrCreateCheckpoint(w) \/ Advance(w)
<1>1. ASSUME NEW w \in Workers, Acts(w)
      PROVE  cursor' = cursor \/ LoadOrCreateCheckpoint(w) \/ Advance(w)
  BY <1>1 DEF Acts, Step, StartCycle, ReadLane, Project, Insert, NoLanes,
              InvalidCursor, LaneUnavailable, LoadCheckpoint, ListInitial, ReadProfile,
              SnapshotChanged, ListHistory, HistoryExpired, Verify, Stale,
              Finish, Breaks, TimesOut
<1>2. CASE Outside
  BY <1>2 DEF Outside, Accept, Pause, Resume, Arrive, Forget, vars
<1> QED BY <1>1, <1>2 DEF Next, Acts, Outside

LEMMA Creation ==
  ASSUME IInv, NEW w \in Workers, LoadOrCreateCheckpoint(w)
  PROVE  /\ arrived' = arrived /\ due' = due /\ stored' = stored
         /\ \/ cursor' = cursor /\ cursor.state # "none"
            \/ /\ cursor.state = "none" /\ cursor'.state = "started"
               /\ cursor'.since = arrived /\ cursor'.hist = 0 /\ cursor'.pos = 0
  BY DEF LoadOrCreateCheckpoint, Loaded, NoCursor, gmail, results

\* What the end of a page makes of the cursor.
LEMMA PageEnds ==
  ASSUME IInv, NEW w \in Workers, Advance(w)
  PROVE  /\ arrived' = arrived /\ due' = due /\ stored' = stored
         /\ cursor.state = check[w].state /\ cursor.pos = check[w].pos
         /\ cursor.since = check[w].since /\ cursor'.since = cursor.since
         /\ cursor.state # "none"
         /\ cursor.state # "started" => cursor.hist = check[w].hist
         /\ page[w] = {} /\ pc[w] = "insert"
         /\ \/ /\ LastPage(w) /\ cursor'.state = "completed"
               /\ cursor'.hist = snapshot[w] /\ cursor'.pos = snapshot[w]
            \/ /\ ~LastPage(w) /\ Initial(w) /\ cursor'.state = "listing"
               /\ cursor'.hist = snapshot[w] /\ cursor'.pos = upTo[w]
            \/ /\ ~LastPage(w) /\ ~Initial(w) /\ cursor'.state = "completed"
               /\ cursor'.hist = cursor.hist /\ cursor'.pos = upTo[w]
<1>1. CheckKnown(w) /\ cursor \in Cursors /\ check[w] \in Cursors
  BY DEF IInv, RunsAreSound, TypeOK
<1>2. /\ pc[w] = "insert" /\ page[w] = {} /\ Matches(w)
      /\ cursor' = Advanced(w)
      /\ arrived' = arrived /\ due' = due /\ stored' = stored
  BY DEF Advance, gmail, results
<1>3. /\ cursor.state = check[w].state /\ cursor.pos = check[w].pos
      /\ cursor.since = check[w].since /\ cursor.state # "none"
      /\ cursor.state # "started" => cursor.hist = check[w].hist
  BY <1>1, <1>2 DEF Matches, CheckKnown, Listing, Initial, Cursors
<1> QED BY <1>1, <1>2, <1>3 DEF Advanced, Initial, Cursors

LEMMA CursorMoves ==
  ASSUME IInv, [Next]_vars
  PROVE  Forward
<1> USE DEF Cursors
<1>1. cursor \in Cursors /\ CursorIsSound
  BY DEF IInv, TypeOK
<1>2. ASSUME NEW w \in Workers, Advance(w) PROVE Forward
  <2>1. PageComplete(w) /\ CheckKnown(w)
    BY DEF IInv, RunsAreSound
  <2>2. upTo[w] \in Nat /\ snapshot[w] \in Nat
    BY DEF IInv, TypeOK
  <2> QED
    BY <1>1, <1>2, <2>1, <2>2, PageEnds
       DEF Forward, PageComplete, CursorIsSound, Initial, LastPage
<1>3. ASSUME NEW w \in Workers, LoadOrCreateCheckpoint(w) PROVE Forward
  BY <1>1, <1>3, Creation DEF Forward
<1> QED BY <1>1, <1>2, <1>3, CursorSteps DEF Forward

-----------------------------------------------------------------------------
(* What is due *)

\* A run touches neither the mailbox nor what it goes by.
LEMMA RunsAreQuiet ==
  ASSUME TypeOK, NEW w \in Workers, Acts(w)
  PROVE  /\ arrived' = arrived /\ due' = due /\ stored \subseteq stored'
         /\ accepted' = accepted /\ open' = open
  BY DEF Acts, Step, StartCycle, ReadLane, Project, Insert, NoLanes,
         LoadOrCreateCheckpoint, InvalidCursor, LaneUnavailable, LoadCheckpoint, ListInitial,
         ReadProfile, SnapshotChanged, ListHistory, HistoryExpired, Verify,
         Advance, Stale, Finish, Breaks, TimesOut, gmail, tables, results

\* Nobody else touches a run or the cursor.
LEMMA RunsAreLeftAlone ==
  ASSUME Outside
  PROVE  /\ cursor' = cursor /\ stored' = stored
         /\ \A v \in Workers : Same(v)
  BY DEF Outside, Accept, Pause, Resume, Arrive, Forget, vars, run, pages,
         results, Same

\* A message becomes due when it comes, and never later.
LEMMA DueSteps ==
  ASSUME TypeOK, Outside
  PROVE  \/ arrived' = arrived /\ due' \subseteq due
         \/ /\ arrived' = arrived + 1 /\ open' = open /\ accepted' = accepted
            /\ \A k \in due' :
                 k \in due \/ (k = arrived' /\ Due(ThreadOf[k]))
<1>1. CASE Arrive
  BY <1>1 DEF Arrive, tables
<1>2. CASE \E p \in Projects : Pause(p)
  BY <1>2 DEF Pause, gmail
<1>3. CASE \/ \E t \in Threads : Accept(t)
           \/ \E p \in Projects : Resume(p)
           \/ Forget \/ UNCHANGED vars
  BY <1>3 DEF Accept, Resume, Forget, vars, gmail
<1> QED BY <1>1, <1>2, <1>3 DEF Outside

\* Time moves one way.
LEMMA Surroundings ==
  ASSUME IInv, [Next]_vars
  PROVE  /\ arrived <= arrived' /\ stored \subseteq stored'
         /\ \A k \in due' : k \in due \/ k > arrived
<1>t. TypeOK /\ arrived \in Nat
  BY DEF IInv, TypeOK
<1>1. ASSUME NEW w \in Workers, Acts(w)
      PROVE  arrived' = arrived /\ due' = due /\ stored \subseteq stored'
  BY <1>t, <1>1, RunsAreQuiet
<1>2. CASE Outside
  BY <1>t, <1>2, RunsAreLeftAlone, DueSteps
<1> QED BY <1>t, <1>1, <1>2 DEF Next, Acts, Outside

LEMMA KeptByRun ==
  ASSUME IInv, NEW w \in Workers, Acts(w), NEW t \in Threads,
         Routed(t), Covers(w, t)
  PROVE  Covers(w, t)'
<1>t. TypeOK /\ ProjectOf[t] \in Projects
  BY MailAssumption DEF IInv
<1>1. CASE Leaves(w)
  BY <1>1 DEF Leaves, Covers
<1>2. CASE Loads(w, NoCursor) \/ Loads(w, cursor')
  BY <1>t, <1>2 DEF Loads, Covers
<1>3. CASE GoesOn(w)
  BY <1>3 DEF GoesOn, Covers, Listing
<1>4. CASE TimesOut(w)
  BY <1>4 DEF TimesOut, run, Covers
<1>5. CASE ListInitial(w) \/ ListHistory(w) \/ ReadProfile(w) \/ Verify(w)
             \/ \E k \in Mail : Insert(w, k)
  BY <1>5 DEF ListInitial, ListHistory, ReadProfile, Verify, Insert, Covers
<1>6. ASSUME NEW p \in Projects, ReadLane(w, p) PROVE Covers(w, t)'
  <2>1. pc' = pc /\ pc[w] = "lanes" /\ todo'[w] = todo[w] \ {p}
    BY <1>t, <1>6 DEF ReadLane, TypeOK
  <2>2. routes'[w] = routes[w] \cup {x \in Threads : ProjectOf[x] = p /\ Routed(x)}
    BY <1>t, <1>6 DEF ReadLane, TypeOK
  <2> QED BY <2>1, <2>2 DEF Covers
<1>7. ASSUME NEW p \in Projects, Project(w, p) PROVE Covers(w, t)'
  BY <1>7 DEF Project, Covers
<1> QED BY <1>1, <1>2, <1>3, <1>4, <1>5, <1>6, <1>7, Kinds

LEMMA KeepsDue == ASSUME IInv, [Next]_vars PROVE DueAreKept'
<1>t. /\ TypeOK /\ DueAreKept /\ arrived \in Nat
      /\ due \subseteq Mail
      /\ \A k \in Mail : ThreadOf[k] \in Threads
  BY MailAssumption DEF IInv, TypeOK
<1>u. due' \subseteq Mail
  BY <1>t, TypeStep DEF TypeOK
<1>1. ASSUME NEW w \in Workers, Acts(w) PROVE DueAreKept'
  <2> SUFFICES ASSUME NEW k \in due', NEW v \in Workers
               PROVE  k <= arrived' /\ Routed(ThreadOf[k])' /\ Covers(v, ThreadOf[k])'
    BY DEF DueAreKept
  <2>1. k \in due /\ arrived' = arrived /\ accepted' = accepted /\ open' = open
    BY <1>t, <1>1, RunsAreQuiet
  <2>2. k <= arrived /\ Routed(ThreadOf[k]) /\ Covers(v, ThreadOf[k])
    BY <1>t, <2>1 DEF DueAreKept
  <2>3. CASE v = w
    BY <1>t, <1>1, <2>1, <2>2, <2>3, KeptByRun DEF Routed
  <2>4. CASE v # w
    <3>1. Same(v)
      BY <1>t, <1>1, <2>4, OthersStay
    <3> QED BY <2>1, <2>2, <3>1 DEF Same, Covers, Routed
  <2> QED BY <2>3, <2>4
<1>2. ASSUME Outside PROVE DueAreKept'
  <2> SUFFICES ASSUME NEW k \in due'
               PROVE  /\ k <= arrived' /\ Routed(ThreadOf[k])'
                      /\ \A v \in Workers : Covers(v, ThreadOf[k])'
    BY DEF DueAreKept
  <2>2. ASSUME NEW v \in Workers, Covers(v, ThreadOf[k])
        PROVE  Covers(v, ThreadOf[k])'
    BY <1>2, <2>2, RunsAreLeftAlone DEF Same, Covers
  <2>3. CASE k \in due
    <3>1. k <= arrived /\ Routed(ThreadOf[k])
          /\ \A v \in Workers : Covers(v, ThreadOf[k])
      BY <1>t, <2>3 DEF DueAreKept
    <3>2. k \in Nat /\ arrived' \in Nat /\ arrived <= arrived'
      BY <1>t, <1>2, <2>3, DueSteps DEF Mail
    <3>3. Routed(ThreadOf[k])'
      BY <1>2, <3>1 DEF Outside, Accept, Pause, Resume, Arrive, Forget, vars,
                        tables, Routed
    <3> QED BY <1>t, <2>2, <3>1, <3>2, <3>3
  <2>4. CASE k \notin due
    BY <1>t, <1>2, <2>2, <2>4, DueSteps DEF Due, Routed
  <2> QED BY <2>3, <2>4
<1> QED BY <1>1, <1>2 DEF Next, Acts, Outside

-----------------------------------------------------------------------------
(* What is due is not lost *)

LEMMA CursorStaysSound == ASSUME IInv, [Next]_vars PROVE CursorIsSound'
<1> USE DEF Cursors
<1>t. /\ TypeOK /\ DueAreKept /\ CursorIsSound /\ RunsAreSound
      /\ arrived \in Nat /\ cursor \in Cursors /\ due \subseteq Mail
      /\ upTo \in [Workers -> Nat] /\ snapshot \in [Workers -> Nat]
  BY DEF IInv, TypeOK
<1>1. ASSUME NEW w \in Workers, Acts(w), cursor' = cursor PROVE CursorIsSound'
  BY <1>t, <1>1, RunsAreQuiet DEF CursorIsSound
<1>2. ASSUME NEW w \in Workers, LoadOrCreateCheckpoint(w) PROVE CursorIsSound'
  BY <1>t, <1>2, Creation DEF CursorIsSound, DueAreKept
<1>3. ASSUME NEW w \in Workers, Advance(w) PROVE CursorIsSound'
  <2>1. PageComplete(w)
    BY <1>t DEF RunsAreSound
  <2> QED BY <1>t, <1>3, <2>1, PageEnds
             DEF CursorIsSound, PageComplete, Initial, LastPage
<1>4. ASSUME Outside PROVE CursorIsSound'
  <2>1. cursor' = cursor
    BY <1>4, RunsAreLeftAlone
  <2>2. arrived' \in Nat /\ arrived <= arrived'
    BY <1>t, <1>4, DueSteps
  <2>3. \A k \in due' : k \in due \/ (k > arrived /\ cursor.state # "started")
    BY <1>t, <1>4, DueSteps DEF Due
  <2>4. due' \subseteq Mail
    BY <1>t, <1>4, TypeStep DEF TypeOK, Next, Outside
  <2> QED BY <1>t, <2>1, <2>2, <2>3, <2>4 DEF CursorIsSound, Mail
<1> QED
  BY <1>1, <1>2, <1>3, <1>4, CursorSteps DEF Next, Acts, Outside

\* A run whose step it is not.
LEMMA OthersStaySound ==
  ASSUME IInv, [Next]_vars, NEW v \in Workers, Same(v)
  PROVE  CheckKnown(v)' /\ PageComplete(v)'
<1> USE DEF Cursors
<1>t. /\ TypeOK /\ CursorIsSound /\ CheckKnown(v) /\ PageComplete(v)
      /\ arrived \in Nat /\ cursor \in Cursors /\ check[v] \in Cursors
      /\ upTo[v] \in Nat /\ snapshot[v] \in Nat
  BY DEF IInv, TypeOK, RunsAreSound
<1>u. arrived' \in Nat /\ cursor' \in Cursors /\ due' \subseteq Mail
  BY <1>t, TypeStep DEF TypeOK
<1>1. arrived <= arrived' /\ stored \subseteq stored'
      /\ \A k \in due' : k \in due \/ k > arrived
  BY Surroundings
<1>2. CheckKnown(v)'
  BY <1>t, <1>u, <1>1, CursorMoves DEF Forward, Same, CheckKnown, Listing
<1>3. pc[v] \in Listed => cursor.since = check[v].since
  BY <1>t DEF CheckKnown, Listing, Listed
<1>4. ASSUME NEW k \in due', pc[v] \in Listed, OnPage(v, k)
      PROVE  k \in page[v] \cup stored
  BY <1>t, <1>u, <1>1, <1>3, <1>4
     DEF PageComplete, OnPage, CursorIsSound, Initial, Listed, Mail
<1>5. PageComplete(v)'
  BY <1>t, <1>u, <1>1, <1>4 DEF Same, PageComplete, OnPage, Initial, Listed
<1> QED BY <1>2, <1>5

\* The steps that fill and empty a page.
LEMMA PagesAreComplete ==
  ASSUME IInv, NEW w \in Workers,
         \/ ListInitial(w) \/ ListHistory(w) \/ ReadProfile(w) \/ Verify(w)
         \/ \E k \in Mail : Insert(w, k)
  PROVE  CheckKnown(w)' /\ PageComplete(w)'
<1> USE DEF Cursors
<1>t. /\ TypeOK /\ CursorIsSound /\ CheckKnown(w) /\ PageComplete(w)
      /\ arrived \in Nat /\ cursor \in Cursors /\ check[w] \in Cursors
      /\ upTo[w] \in Nat /\ snapshot[w] \in Nat /\ due \subseteq Mail
      /\ PageSize \in Nat /\ DueAreKept
  BY MailAssumption DEF IInv, TypeOK, RunsAreSound
<1>1. /\ arrived' = arrived /\ cursor' = cursor /\ due' = due
      /\ check' = check /\ todo' = todo /\ pc[w] \in {"list"} \cup Listed
  BY DEF ListInitial, ListHistory, ReadProfile, Verify, Insert, gmail, results,
         pages, Listed
<1>2. pc'[w] \in Listed
  BY <1>t, <1>1 DEF TypeOK, ListInitial, ListHistory, ReadProfile, Verify,
                    Insert, Listed
<1>3. CheckKnown(w)'
  BY <1>t, <1>1, <1>2 DEF CheckKnown, Listing, Listed
<1>4. ASSUME ListInitial(w) PROVE PageComplete(w)'
  <2> DEFINE top == IF check[w].state = "listing" THEN check[w].pos ELSE arrived
             end == Minus(top, PageSize)
  <2>1. top \in Nat /\ top <= arrived
    BY <1>t DEF CheckKnown
  <2>2. end \in Nat /\ end <= top
    BY <1>t, <2>1 DEF Minus
  <2>3. /\ pc'[w] = "profile" /\ Initial(w) /\ upTo'[w] = end /\ stored' = stored
        /\ page'[w] = {k \in Mail : /\ end < k /\ k <= top
                                    /\ ThreadOf[k] \in routes[w]
                                    /\ k <= check[w].since}
    BY <1>t, <1>4 DEF ListInitial, TypeOK, results
  <2>4. check[w].since <= arrived
    BY <1>t, <1>4 DEF CheckKnown, CursorIsSound, ListInitial, Listing
  <2>5. \A k \in due : ThreadOf[k] \in routes[w]
    BY <1>t, <1>4 DEF DueAreKept, Covers, ListInitial
  <2>6. check[w].state = "listing" => top = check[w].pos
    OBVIOUS
  <2>7. check[w].state # "listing" => top = arrived
    OBVIOUS
  <2> HIDE DEF top, end
  <2> QED BY <1>t, <1>1, <2>1, <2>2, <2>3, <2>4, <2>5, <2>6, <2>7
             DEF PageComplete, OnPage, Initial, Mail
<1>5. ASSUME ListHistory(w) PROVE PageComplete(w)'
  <2> DEFINE far == check[w].pos + PageSize
             end == IF far < arrived THEN far ELSE arrived
  <2>1. end \in Nat /\ end <= arrived /\ check[w].pos <= end
    BY <1>t DEF CheckKnown
  <2>2. /\ pc'[w] = "verify" /\ ~Initial(w) /\ upTo'[w] = end /\ stored' = stored
        /\ snapshot'[w] = arrived
        /\ page'[w] = {k \in Mail : /\ check[w].pos < k /\ k <= end
                                    /\ ThreadOf[k] \in routes[w]}
    BY <1>t, <1>5 DEF ListHistory, TypeOK, results
  <2>3. \A k \in due : ThreadOf[k] \in routes[w]
    BY <1>t, <1>5 DEF DueAreKept, Covers, ListHistory
  <2> HIDE DEF end
  <2> QED BY <1>t, <1>1, <2>1, <2>2, <2>3 DEF PageComplete, OnPage, Initial
<1>6. ASSUME ReadProfile(w) PROVE PageComplete(w)'
  <2>1. /\ pc[w] = "profile" /\ upTo' = upTo /\ page' = page
        /\ snapshot'[w] = arrived /\ stored' = stored /\ SameSnapshot(w)
    BY <1>t, <1>6 DEF ReadProfile, TypeOK, results
  <2>2. check[w].since <= arrived
    BY <1>t, <2>1 DEF CheckKnown, CursorIsSound, Listing
  <2> QED BY <1>t, <1>1, <2>1, <2>2 DEF PageComplete, OnPage, Initial, SameSnapshot
<1>7. ASSUME Verify(w) PROVE PageComplete(w)'
  <2>1. /\ pc[w] = "verify" /\ upTo' = upTo /\ page' = page
        /\ snapshot' = snapshot /\ stored' = stored
    BY <1>7 DEF Verify, results, pages
  <2> QED BY <1>t, <1>1, <2>1 DEF PageComplete, OnPage, Initial
<1>8. ASSUME NEW k \in Mail, Insert(w, k) PROVE PageComplete(w)'
  <2>1. /\ pc[w] = "insert" /\ pc' = pc /\ upTo' = upTo /\ snapshot' = snapshot
        /\ page'[w] = page[w] \ {k}
        /\ stored' = IF Routed(ThreadOf[k]) THEN stored \cup {k} ELSE stored
    BY <1>t, <1>8 DEF Insert, TypeOK
  <2>2. k \in due => Routed(ThreadOf[k])
    BY <1>t DEF DueAreKept
  <2> QED BY <1>t, <1>1, <2>1, <2>2 DEF PageComplete, OnPage, Initial
<1> QED BY <1>3, <1>4, <1>5, <1>6, <1>7, <1>8

LEMMA RunStaysSound ==
  ASSUME IInv, [Next]_vars, NEW w \in Workers, Acts(w)
  PROVE  CheckKnown(w)' /\ PageComplete(w)'
<1>t. /\ TypeOK /\ TypeOK' /\ CheckKnown(w) /\ PageComplete(w)
      /\ cursor' \in Cursors /\ CursorIsSound'
  BY TypeStep, CursorStaysSound DEF IInv, TypeOK, RunsAreSound
<1>0. 0 <= arrived'
  BY <1>t DEF TypeOK
<1>1. CASE Leaves(w) \/ Loads(w, NoCursor)
  BY <1>0, <1>1 DEF Leaves, Loads, CheckKnown, PageComplete, Listing, NoCursor
<1>2. CASE Loads(w, cursor') /\ cursor'.state = "completed"
  BY <1>t, <1>2 DEF Loads, CheckKnown, PageComplete, Listing, CursorIsSound
<1>3. CASE GoesOn(w)
  <2>1. cursor'.pos <= arrived'
    BY <1>t, <1>3 DEF CursorIsSound, GoesOn, Cursors, TypeOK
  <2> QED BY <1>t, <1>3, <2>1
          DEF GoesOn, CheckKnown, PageComplete, Listing, CursorIsSound, Cursors
<1>4. CASE TimesOut(w)
  <2>1. Same(w)
    BY <1>4 DEF TimesOut, Same, run, pages
  <2> QED BY <2>1, OthersStaySound
<1>5. CASE \E p \in Projects : ReadLane(w, p) \/ Project(w, p)
  <2>1. /\ cursor' = cursor /\ check' = check /\ arrived' = arrived
        /\ pc' = pc /\ pc[w] \in {"lanes", "project"}
    BY <1>5 DEF ReadLane, Project, gmail
  <2> QED BY <1>t, <2>1 DEF CheckKnown, PageComplete, Listing
<1> QED BY <1>1, <1>2, <1>3, <1>4, <1>5, Kinds, PagesAreComplete

LEMMA StoresDue == ASSUME IInv, [Next]_vars PROVE DueAreStored'
<1> USE DEF Cursors
<1>t. /\ TypeOK /\ DueAreStored /\ DueAreKept /\ CursorIsSound /\ RunsAreSound
      /\ arrived \in Nat /\ cursor \in Cursors /\ due \subseteq Mail
      /\ upTo \in [Workers -> Nat] /\ snapshot \in [Workers -> Nat]
      /\ check \in [Workers -> Cursors]
  BY DEF IInv, TypeOK
<1>1. CASE cursor' = cursor
  <2>1. due' \subseteq Mail
    BY <1>t, TypeStep DEF TypeOK
  <2> QED BY <1>t, <1>1, <2>1, Surroundings
             DEF DueAreStored, Passed, CursorIsSound, Mail
<1>2. ASSUME NEW w \in Workers, LoadOrCreateCheckpoint(w) PROVE DueAreStored'
  BY <1>t, <1>2, Creation DEF DueAreStored, Passed
<1>3. ASSUME NEW w \in Workers, Advance(w) PROVE DueAreStored'
  <2>t. PageComplete(w) /\ CheckKnown(w) /\ upTo[w] \in Nat
        /\ snapshot[w] \in Nat /\ check[w] \in Cursors
    BY <1>t DEF RunsAreSound
  <2>1. /\ page[w] = {} /\ pc[w] = "insert" /\ due' = due /\ stored' = stored
        /\ cursor.state = check[w].state /\ cursor.pos = check[w].pos
        /\ cursor.since = check[w].since /\ cursor.state # "none"
        /\ cursor.state # "started" => cursor.hist = check[w].hist
    BY <1>3, PageEnds
  <2> SUFFICES ASSUME NEW k \in due, Passed(k)' PROVE k \in stored
    BY <2>1 DEF DueAreStored
  <2>2. k \in Nat /\ k > 0
    BY <1>t DEF Mail
  <2>3. OnPage(w, k) => k \in stored
    BY <2>t, <2>1 DEF PageComplete
  <2>4. Passed(k) => k \in stored
    BY <1>t DEF DueAreStored
  <2>5. CASE Initial(w)
    <3>1. upTo[w] < k /\ k <= snapshot[w]
      BY <1>t, <1>3, <2>t, <2>1, <2>2, <2>5, PageEnds DEF Passed, LastPage
    <3>2. cursor.state \in {"started", "listing"}
      BY <1>t, <2>1, <2>5 DEF Initial
    <3>3. k <= check[w].since
      <4>1. cursor.state = "listing" => snapshot[w] = cursor.hist
        BY <2>t, <2>1 DEF PageComplete
      <4>2. cursor.state = "started" => k <= cursor.since
        BY <1>t DEF CursorIsSound
      <4>3. cursor.state = "listing" => k <= cursor.since \/ k > cursor.hist
        BY <1>t DEF CursorIsSound
      <4> QED BY <1>t, <2>t, <2>1, <2>2, <3>1, <3>2, <4>1, <4>2, <4>3
    <3>4. CASE cursor.state = "listing" /\ k > cursor.pos
      <4>1. k <= cursor.hist
        BY <1>t, <2>t, <2>1, <3>1, <3>4 DEF PageComplete
      <4> QED BY <1>t, <2>2, <2>4, <3>4, <4>1 DEF Passed
    <3>5. CASE ~(cursor.state = "listing" /\ k > cursor.pos)
      BY <1>t, <2>t, <2>1, <2>2, <2>3, <2>5, <3>1, <3>3, <3>5 DEF OnPage
    <3> QED BY <3>4, <3>5
  <2>6. CASE ~Initial(w)
    <3>1. k <= upTo[w]
      BY <1>t, <1>3, <2>t, <2>1, <2>2, <2>6, PageEnds DEF Passed, LastPage
    <3>2. CASE k <= check[w].pos
      BY <1>t, <2>1, <2>4, <2>6, <3>2 DEF Passed, Initial
    <3>3. CASE k > check[w].pos
      BY <2>3, <2>6, <3>1, <3>3 DEF OnPage
    <3> QED BY <2>t, <2>2, <3>2, <3>3
  <2> QED BY <2>5, <2>6
<1> QED BY <1>1, <1>2, <1>3, CursorSteps

-----------------------------------------------------------------------------
(* The theorems *)

LEMMA InitIInv == Init => IInv
<1> SUFFICES ASSUME Init PROVE IInv
  OBVIOUS
<1>1. TypeOK
  BY MailAssumption, NoCursorType DEF Init, TypeOK
<1>2. DueAreStored /\ DueAreKept
  BY DEF Init, DueAreStored, DueAreKept
<1>3. CursorIsSound
  BY MailAssumption DEF Init, CursorIsSound, NoCursor
<1>4. RunsAreSound
  BY MailAssumption
     DEF Init, RunsAreSound, CheckKnown, PageComplete, Listing, NoCursor
<1> QED BY <1>1, <1>2, <1>3, <1>4 DEF IInv

LEMMA KeepsIInv == ASSUME IInv, [Next]_vars PROVE IInv'
<1>1. TypeOK'
  BY TypeStep DEF IInv
<1>2. RunsAreSound'
  <2> SUFFICES ASSUME NEW v \in Workers
               PROVE  CheckKnown(v)' /\ PageComplete(v)'
    BY DEF RunsAreSound
  <2>1. ASSUME NEW w \in Workers, Acts(w)
        PROVE  CheckKnown(v)' /\ PageComplete(v)'
    <3>1. CASE v = w
      BY <2>1, <3>1, RunStaysSound
    <3>2. CASE v # w
      BY <2>1, <3>2, OthersStay, OthersStaySound DEF IInv
    <3> QED BY <3>1, <3>2
  <2>2. CASE Outside
    BY <2>2, RunsAreLeftAlone, OthersStaySound
  <2> QED BY <2>1, <2>2 DEF Next, Acts, Outside
<1> QED BY <1>1, <1>2, KeepsDue, CursorStaysSound, StoresDue DEF IInv

\* The invariant that links the cursor, the runs and what is due holds for
\* any threads, projects, pages, runs and messages.
THEOREM MailInvariant == Spec => []IInv
<1>1. IInv /\ [Next]_vars => IInv'
  BY KeepsIInv
<1> QED BY <1>1, InitIInv, PTL DEF Spec

\* The cursor of a connection passes a message only when it is stored, if
\* nothing kept the message out when it came.
THEOREM DueStored == Spec => []DueAreStored
<1>1. IInv => DueAreStored
  BY DEF IInv
<1> QED BY <1>1, MailInvariant, PTL

\* No run takes the cursor of a connection back, however late it is.
THEOREM NeverBack == Spec => CursorNeverBack
<1>1. IInv /\ [Next]_vars => [Forward]_vars
  BY CursorMoves
<1>2. [Forward]_vars =>
        [LET old == cursor
             new == cursor'
         IN /\ old.state # "none" => new.state # "none" /\ new.since = old.since
            /\ old.state = "listing" =>
                 \/ /\ new.state = "listing"
                    /\ new.hist = old.hist /\ new.pos <= old.pos
                 \/ new.state = "completed" /\ new.hist >= old.hist
            /\ old.state = "completed" =>
                 /\ new.state = "completed"
                 /\ new.hist >= old.hist /\ new.pos >= old.pos]_vars
  BY DEF Forward
<1> QED BY <1>1, <1>2, MailInvariant, PTL DEF Spec, CursorNeverBack
===============================================================================
