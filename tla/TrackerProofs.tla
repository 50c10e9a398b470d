--------------------------- MODULE TrackerProofs ---------------------------
(***************************************************************************)
(* Proofs about DeploymentTracker, for any number of writes, queries and   *)
(* publish mutations, any intervals and any bounds.                        *)
(*                                                                         *)
(* Two arguments, each inductive on top of the types.  CalmInv: a catalog  *)
(* write that overlaps nothing saves the row as it is, mutations and       *)
(* queries never change the change time, so the row is as new as the       *)
(* listener's memory.  DeployInv, which needs nothing: every row that is   *)
(* held anywhere and waits for nothing has had its publish deployed, and   *)
(* every time a query was told is that of a success, which stays one.      *)
(***************************************************************************)
EXTENDS DeploymentTracker, Sums, TLAPS

\* The sets of TypeOK.

WorkflowRuns == [status : {"running", "success", "failure"}, updatedAt : Times]
Asked == [pc : {"ask"}, entity : Rows]
Answered == [pc : {"fill", "answer"}, entity : Rows, deployedAt : Times]
Reads == {Idle, [pc |-> "load"]} \cup Asked \cup Answered
Caches == {None} \cup [kind : {"cache"}, value : Times, expiresAt : Nat]

\* An entity that exists has its three columns.
LEMMA Columns ==
    ASSUME NEW e \in Rows, e # None
    PROVE  /\ e.lastChangedAt \in Times
           /\ e.deployStatus \in {"idle", "triggered"}
           /\ e.lastPublishTriggeredAt \in Times
BY DEF Rows, None

\* A save in flight knows the entity and whether to insert it.
LEMMA SaveKnows ==
    ASSUME NEW s \in Saves, s.pc = "save"
    PROVE  s.isNew \in BOOLEAN /\ s.entity \in Rows
BY DEF Saves, Idle

\* A query that has loaded the row holds an entity, and later a time.
LEMMA ReadKnows ==
    ASSUME NEW s \in Reads
    PROVE  /\ s.pc \in {"ask", "fill", "answer"} => s.entity \in Rows
           /\ s.pc \in {"fill", "answer"} => s.deployedAt \in Times
BY DEF Reads, Asked, Answered, Idle

\* The entities the three handlers make.
LEMMA Entities ==
    /\ \A t, u \in Times : \A s \in {"idle", "triggered"} : Entity(t, s, u) \in Rows
    /\ \A e \in Rows, t \in Times : e # None => [e EXCEPT !.lastChangedAt = t] \in Rows
    /\ \A e \in Rows : e # None => [e EXCEPT !.deployStatus = "idle"] \in Rows
BY DEF Rows, Entity, None

\* The newest of the successful runs.
LEMMA NewestSuccess ==
    ASSUME runs \in Seq(WorkflowRuns), Succeeded # {}
    PROVE  /\ Max(Succeeded) \in Succeeded
           /\ \A i \in Succeeded : Max(Succeeded) >= i
<1>1. Succeeded \subseteq 1..Len(runs)
    BY DEF Succeeded
<1>2. IsFiniteSet(1..Len(runs))
    BY FS_Interval
<1>3. IsFiniteSet(Succeeded)
    BY <1>1, <1>2, FS_Subset
<1>4. Positions(Succeeded)
    BY <1>1, <1>3 DEF Positions
<1> QED BY <1>4, MaxIsGreatest

\* What GitHub says is a time.
LEMMA DeployTime ==
    ASSUME runs \in Seq(WorkflowRuns), now \in Times
    PROVE  LastDeployedAt \in Times
<1>1. CASE Succeeded = {}
    BY <1>1, BoundsAssumption DEF LastDeployedAt, Times
<1>2. CASE Succeeded # {}
    <2>1. PICK i : i = Max(Succeeded)
        OBVIOUS
    <2>2. i \in DOMAIN runs
        BY <1>2, <2>1, NewestSuccess DEF Succeeded
    <2>3. runs[i] \in WorkflowRuns
        BY <2>2
    <2>4. runs[i].updatedAt \in Times
        BY <2>3 DEF WorkflowRuns
    <2> QED BY <1>2, <2>1, <2>4 DEF LastDeployedAt
<1> QED BY <1>1, <1>2

\* The type invariant, with names for its sets.
Typed ==
    /\ now \in Times /\ lastRecordedAt \in Times
    /\ changes \subseteq Times /\ events \in Nat
    /\ row \in Rows /\ cache \in Caches
    /\ runs \in Seq(WorkflowRuns)
    /\ upsert \in [Upserts -> Saves] /\ publish \in [Publishers -> Saves]
    /\ query \in [Readers -> Reads]
    /\ failures \in Nat

\* It says what TypeOK says.
LEMMA TypedIsTypeOK == Typed <=> TypeOK
BY DEF Typed, TypeOK, Caches, WorkflowRuns, Reads, Asked, Answered

\* The states that the three handlers go through.
LEMMA Phases ==
    /\ Idle \in Saves /\ [pc |-> "sent"] \in Saves /\ [pc |-> "load"] \in Saves
    /\ \A b \in BOOLEAN, e \in Rows : [pc |-> "save", isNew |-> b, entity |-> e] \in Saves
    /\ Idle \in Reads /\ [pc |-> "load"] \in Reads
    /\ \A e \in Rows : [pc |-> "ask", entity |-> e] \in Reads
    /\ \A e \in Rows, t \in Times : \A s \in {"fill", "answer"} :
          [pc |-> s, entity |-> e, deployedAt |-> t] \in Reads
BY DEF Saves, Reads, Asked, Answered

\* The process starts at a time and with nothing recorded.
LEMMA InitTyped == Init => Typed
<1> SUFFICES ASSUME Init PROVE Typed
    OBVIOUS
<1>1. 0 \in Times /\ now \in Times
    BY TicksAssumption, BoundsAssumption DEF Init, Times
<1>2. row \in Rows /\ cache \in Caches /\ runs \in Seq(WorkflowRuns)
    BY DEF Init, Rows, Caches
<1> QED BY <1>1, <1>2, Phases DEF Init, Typed

\* Each step keeps the types.
LEMMA NextTyped == Typed /\ [Next]_vars => Typed'
<1> SUFFICES ASSUME Typed, [Next]_vars PROVE Typed'
    OBVIOUS
<1> USE DEF Typed
<1>t. now \in Times /\ now \in Nat /\ 0 \in Times
    BY BoundsAssumption DEF Times
<1>1. CASE Tick
    BY <1>1, BoundsAssumption DEF Tick, Times, catalog
<1>2. ASSUME Start PROVE runs' \in Seq(WorkflowRuns)
    <2>1. [status |-> "running", updatedAt |-> 0] \in WorkflowRuns
        BY <1>t DEF WorkflowRuns
    <2> QED BY <1>2, <2>1 DEF Start
<1>3. CASE Push
    BY <1>3, <1>2 DEF Push, catalog
<1>4. ASSUME NEW i \in DOMAIN runs, NEW s \in {"success", "failure"}, FinishRun(i, s)
      PROVE  runs' \in Seq(WorkflowRuns)
    <2>1. runs[i] \in WorkflowRuns
        OBVIOUS
    <2>2. [runs[i] EXCEPT !.status = s, !.updatedAt = now] \in WorkflowRuns
        BY <1>t, <2>1 DEF WorkflowRuns
    <2>3. runs' = [runs EXCEPT ![i] = [runs[i] EXCEPT !.status = s, !.updatedAt = now]]
        BY <1>4 DEF FinishRun
    <2> QED BY <2>2, <2>3
<1>5. CASE SomeRunEnds
    <2>0. PICK i \in DOMAIN runs : RunSucceeds(i) \/ RunFails(i)
        BY <1>5 DEF SomeRunEnds
    <2>1. runs' \in Seq(WorkflowRuns) /\ UNCHANGED <<now, catalog, row, cache, upsert, query, publish>>
        BY <1>4, <2>0 DEF RunSucceeds, RunFails, FinishRun
    <2>2. failures' \in Nat
        BY <2>0 DEF RunSucceeds, RunFails
    <2> QED BY <2>1, <2>2 DEF catalog
<1>6. CASE CatalogChange
    BY <1>6, <1>t DEF CatalogChange
<1>7. CASE DropEvent
    BY <1>7 DEF DropEvent
<1>8. ASSUME NEW u \in Upserts, RecordEvent(u) PROVE Typed'
    BY <1>8, <1>t, Phases DEF RecordEvent
<1>9. ASSUME NEW u \in Upserts, LoadRow(u) PROVE Typed'
    <2>1. Entity(now, "idle", 0) \in Rows
        BY <1>t, Entities
    <2>2. row # None => [row EXCEPT !.lastChangedAt = now] \in Rows
        BY <1>t, Entities
    <2>3. PICK b \in BOOLEAN, e \in Rows :
              upsert' = [upsert EXCEPT ![u] = [pc |-> "save", isNew |-> b, entity |-> e]]
        BY <1>9, <2>1, <2>2 DEF LoadRow
    <2>4. upsert' \in [Upserts -> Saves]
        BY <2>3, Phases
    <2> QED BY <1>9, <2>4 DEF LoadRow, catalog
<1>10. ASSUME NEW u \in Upserts, SaveRow(u) PROVE Typed'
    <2>1. upsert[u].entity \in Rows
        BY <1>10, SaveKnows DEF SaveRow
    <2>2. row' \in Rows
        BY <1>10, <2>1 DEF SaveRow, Save
    <2> QED BY <1>10, <2>2, Phases DEF SaveRow, catalog
<1>11. CASE Restart
    BY <1>11, <1>t, Phases DEF Restart, Caches
<1>12. ASSUME NEW p \in Publishers, Dispatch(p) \/ DispatchAccepted(p) \/ DispatchLost(p) PROVE Typed'
    <2>1. CASE Dispatch(p)
        BY <2>1, <1>2, Phases DEF Dispatch, catalog
    <2>2. CASE DispatchAccepted(p)
        BY <2>2, Phases DEF DispatchAccepted, Caches, catalog
    <2>3. CASE DispatchLost(p)
        BY <2>3, Phases DEF DispatchLost, catalog
    <2> QED BY <1>12, <2>1, <2>2, <2>3
<1>13. ASSUME NEW p \in Publishers, LoadTriggered(p) PROVE Typed'
    <2>1. row # None => row.lastChangedAt \in Times
        BY Columns
    <2>2. PICK b \in BOOLEAN, t \in Times :
              publish' = [publish EXCEPT ![p] = [pc |-> "save", isNew |-> b,
                             entity |-> Entity(t, "triggered", now)]]
        BY <1>13, <1>t, <2>1 DEF LoadTriggered
    <2>3. Entity(t, "triggered", now) \in Rows
        BY <1>t, Entities
    <2>4. publish' \in [Publishers -> Saves]
        BY <2>2, <2>3, Phases
    <2> QED BY <1>13, <2>4 DEF LoadTriggered, catalog
<1>14. ASSUME NEW p \in Publishers, SaveTriggered(p) PROVE Typed'
    <2>1. publish[p].entity \in Rows
        BY <1>14, SaveKnows DEF SaveTriggered
    <2>2. row' \in Rows
        BY <1>14, <2>1 DEF SaveTriggered, Save
    <2> QED BY <1>14, <2>2, Phases DEF SaveTriggered, catalog
<1>15. ASSUME NEW q \in Readers, LoadStatus(q) PROVE Typed'
    <2>1. None \in Rows
        BY DEF Rows
    <2> QED BY <1>15, <2>1, Phases DEF LoadStatus, catalog
<1>16. ASSUME NEW q \in Readers, NEW t \in Times, query[q].pc \in {"ask", "fill"}, Knows(q, t)
       PROVE  query' \in [Readers -> Reads]
    <2>1. query[q].entity \in Rows
        BY <1>16, ReadKnows
    <2> QED BY <1>16, <2>1, Phases DEF Knows
<1>17. ASSUME NEW q \in Readers, UseCache(q) PROVE Typed'
    <2>1. cache.value \in Times
        BY <1>17 DEF UseCache, Caches, None
    <2> QED BY <1>16, <1>17, <2>1 DEF UseCache, catalog
<1>18. ASSUME NEW q \in Readers, AskGitHub(q) \/ FillCache(q) \/ GitHubError(q) PROVE Typed'
    <2>1. CASE AskGitHub(q)
        <3>1. LastDeployedAt \in Times /\ query[q].entity \in Rows
            BY <2>1, DeployTime, ReadKnows DEF AskGitHub
        <3>2. query' \in [Readers -> Reads]
            BY <2>1, <3>1, Phases DEF AskGitHub
        <3> QED BY <2>1, <3>2 DEF AskGitHub, catalog
    <2>2. CASE FillCache(q)
        <3>1. query[q].deployedAt \in Times
            BY <2>2, ReadKnows DEF FillCache
        <3>2. cache' \in Caches
            BY <1>t, <2>2, <3>1, TicksAssumption DEF FillCache, Caches
        <3> QED BY <1>16, <2>2, <3>1, <3>2 DEF FillCache, catalog
    <2>3. CASE GitHubError(q)
        BY <1>t, <1>16, <2>3 DEF GitHubError, catalog
    <2> QED BY <1>18, <2>1, <2>2, <2>3
<1>19. ASSUME NEW q \in Readers, Answer(q) PROVE Typed'
    <2>1. query[q].entity \in Rows
        BY <1>19, ReadKnows DEF Answer
    <2>2. row' \in Rows
        BY <1>19, <2>1, Entities DEF Answer, Heals, AwaitingCompletion
    <2> QED BY <1>19, <2>2, Phases DEF Answer, catalog
<1>20. CASE UNCHANGED vars
    BY <1>20 DEF vars
<1> QED BY <1>1, <1>3, <1>5, <1>6, <1>7, <1>8, <1>9, <1>10, <1>11, <1>12, <1>13, <1>14,
           <1>15, <1>17, <1>18, <1>19, <1>20 DEF Next, WriteStep, PublishStep, QueryStep

\* Every variable keeps its type, however many writes, queries and mutations
\* run at once: the rows that are saved are rows, and the times are times.
THEOREM TrackerTypes == Spec => []TypeOK
<1> QED BY InitTyped, NextTyped, TypedIsTypeOK, PTL DEF Spec

-----------------------------------------------------------------------------
\* A catalog write is alone: nobody reads and nobody else writes.
WriterAlone ==
    \A u \in Upserts : upsert[u].pc # "idle" =>
        /\ ~Reading
        /\ \A v \in Upserts : upsert[v].pc # "idle" => v = u

\* So what it saves is the row as it is, with a change time that is not before
\* the time the listener remembers.
HeldByWriter(s) ==
    /\ s.entity # None
    /\ s.isNew <=> row = None
    /\ s.entity.lastChangedAt >= lastRecordedAt
WriterHolds == \A u \in Upserts : upsert[u].pc = "save" => HeldByWriter(upsert[u])

\* A mutation and a query save the change time that the row has.
PublisherHolds ==
    \A p \in Publishers : publish[p].pc = "save" =>
        /\ publish[p].entity # None
        /\ ~publish[p].isNew => /\ row # None
                                /\ publish[p].entity.lastChangedAt = row.lastChangedAt
ReaderHolds ==
    \A q \in Readers :
        query[q].pc \in {"ask", "fill", "answer"} /\ query[q].entity # None =>
            row # None /\ query[q].entity.lastChangedAt = row.lastChangedAt

Clock == now >= Debounce /\ lastRecordedAt <= now /\ \A c \in changes : c <= now

\* No change lies a debounce interval after t.
Within(t) == \A c \in changes : c - t < Debounce

\* While a write is made, the changes whose events are handled are those that
\* it records and those that were dropped since it began; afterwards the row
\* is at least as new as the listener's memory, and covers them.
Recording == Writing => lastRecordedAt # 0 /\ (events = 0 => Within(lastRecordedAt))
Remembered == lastRecordedAt # 0 /\ ~Writing => row # None /\ row.lastChangedAt >= lastRecordedAt
Covered == changes # {} /\ events = 0 /\ ~Writing => row # None /\ Within(row.lastChangedAt)

CalmInv == /\ WriterAlone /\ WriterHolds /\ PublisherHolds /\ ReaderHolds
           /\ Clock /\ Recording /\ Remembered /\ Covered

\* At first nothing is recorded and nothing changed.
LEMMA InitCalm == Init => CalmInv
BY TicksAssumption DEF Init, CalmInv, WriterAlone, WriterHolds, PublisherHolds, ReaderHolds,
    Clock, Recording, Remembered, Covered, Writing, Idle

\* Each step keeps it, when catalog writes overlap nothing.
LEMMA NextCalm == Typed /\ Calm /\ CalmInv /\ [Next]_vars => CalmInv'
<1> SUFFICES ASSUME Typed, Calm, CalmInv, [Next]_vars PROVE CalmInv'
    OBVIOUS
<1>t. /\ now \in Nat /\ lastRecordedAt \in Nat /\ changes \subseteq Nat /\ events \in Nat
      /\ row \in Rows
      /\ upsert \in [Upserts -> Saves] /\ publish \in [Publishers -> Saves]
      /\ query \in [Readers -> Reads]
      /\ Debounce \in Nat \ {0}
    BY TicksAssumption, BoundsAssumption DEF Typed, Times
<1>r. row # None => row.lastChangedAt \in Nat
    BY <1>t, Columns, BoundsAssumption DEF Times
<1> USE DEF CalmInv
<1>1. CASE Tick
    <2>1. Clock'
        BY <1>1, <1>t, TicksAssumption DEF Tick, Clock, catalog
    <2> QED
        BY <1>1, <2>1 DEF Tick, catalog, WriterAlone, WriterHolds, HeldByWriter, PublisherHolds, ReaderHolds,
            Recording, Remembered, Covered, Within, Writing, Reading
<1>2. CASE UNCHANGED <<now, changes, events, lastRecordedAt, row, upsert, query, publish>>
    BY <1>2 DEF WriterAlone, WriterHolds, HeldByWriter, PublisherHolds, ReaderHolds,
        Clock, Recording, Remembered, Covered, Within, Writing, Reading
<1>3. CASE CatalogChange
    BY <1>3, <1>t DEF CatalogChange, WriterAlone, WriterHolds, HeldByWriter, PublisherHolds, ReaderHolds,
        Clock, Recording, Remembered, Covered, Within, Writing, Reading
<1>4. CASE DropEvent
    <2>1. lastRecordedAt # 0 /\ Within(lastRecordedAt)
        BY <1>4, <1>t DEF DropEvent, RecentlyRecorded, Clock, Within
    <2>2. ~Writing => row # None /\ Within(row.lastChangedAt)
        BY <1>t, <1>r, <2>1 DEF Remembered, Within
    <2> QED
        BY <1>4, <1>t, <2>1, <2>2 DEF DropEvent, WriterAlone, WriterHolds, HeldByWriter, PublisherHolds, ReaderHolds,
            Clock, Recording, Remembered, Covered, Within, Writing, Reading
<1>5. ASSUME NEW u \in Upserts, RecordEvent(u) PROVE CalmInv'
    <2>1. ~Reading /\ ~Writing /\ ~Reading'
        BY <1>5 DEF RecordEvent, Reading
    <2>2. \A v \in Upserts : upsert'[v].pc = IF v = u THEN "load" ELSE "idle"
        BY <1>5, <1>t, <2>1 DEF RecordEvent, Writing
    <2>3. now # 0 /\ Within(now)
        BY <1>t DEF Clock, Within
    <2>4. WriterAlone' /\ WriterHolds'
        BY <2>1, <2>2 DEF WriterAlone, WriterHolds
    <2>5. Writing'
        BY <2>2 DEF Writing
    <2>6. Recording' /\ Remembered' /\ Covered'
        BY <1>5, <2>3, <2>5 DEF Recording, Remembered, Covered, Within, RecordEvent
    <2>7. Clock' /\ PublisherHolds' /\ ReaderHolds'
        BY <1>5, <1>t DEF Clock, PublisherHolds, ReaderHolds, RecordEvent
    <2> QED BY <2>4, <2>6, <2>7
<1>6. ASSUME NEW u \in Upserts, LoadRow(u) PROVE CalmInv'
    <2>1. upsert'[u].pc = "save" /\ (\A v \in Upserts \ {u} : upsert'[v] = upsert[v])
        BY <1>6, <1>t DEF LoadRow
    <2>2. HeldByWriter(upsert'[u])
        <3>1. CASE row = None
            BY <3>1, <1>6, <1>t DEF LoadRow, HeldByWriter, Entity, None, Clock
        <3>2. CASE row # None
            <4>1. PICK e : e = [row EXCEPT !.lastChangedAt = now]
                OBVIOUS
            <4>2. upsert'[u] = [pc |-> "save", isNew |-> FALSE, entity |-> e]
                BY <3>2, <4>1, <1>6, <1>t DEF LoadRow
            <4>3. e # None /\ e.lastChangedAt = now
                BY <3>2, <4>1, <1>t DEF Rows, None
            <4> QED BY <3>2, <4>2, <4>3, <1>t DEF HeldByWriter, Clock
        <3> QED BY <3>1, <3>2
    <2>3. WriterHolds'
        BY <1>6, <2>1, <2>2 DEF WriterHolds, HeldByWriter, LoadRow, catalog
    <2>4. WriterAlone' /\ (Writing' <=> Writing)
        BY <1>6, <2>1 DEF WriterAlone, Writing, Reading, LoadRow
    <2>5. Recording' /\ Remembered' /\ Covered' /\ Clock'
        BY <1>6, <2>4 DEF Recording, Remembered, Covered, Clock, Within, LoadRow, catalog
    <2>6. PublisherHolds' /\ ReaderHolds'
        BY <1>6 DEF PublisherHolds, ReaderHolds, LoadRow
    <2> QED BY <2>3, <2>4, <2>5, <2>6
<1>7. ASSUME NEW u \in Upserts, SaveRow(u) PROVE CalmInv'
    <2>1. HeldByWriter(upsert[u]) /\ upsert[u].entity \in Rows
        BY <1>7, <1>t, SaveKnows DEF SaveRow, WriterHolds
    <2>2. row' = upsert[u].entity /\ row' # None
        BY <1>7, <2>1 DEF SaveRow, Save, InsertedTwice, HeldByWriter
    <2>3. row'.lastChangedAt >= lastRecordedAt /\ row'.lastChangedAt \in Nat
        BY <2>1, <2>2, Columns, BoundsAssumption DEF HeldByWriter, Times
    <2>4. ~Reading /\ \A v \in Upserts : upsert'[v].pc = "idle"
        BY <1>7, <1>t DEF SaveRow, WriterAlone, Idle
    <2>5. Writing /\ ~Writing'
        BY <1>7, <2>4 DEF SaveRow, Writing
    <2>6. WriterAlone' /\ WriterHolds'
        BY <2>4 DEF WriterAlone, WriterHolds
    <2>7. PublisherHolds' /\ ReaderHolds'
        BY <1>7, <2>4, CallersAssumption DEF PublisherHolds, ReaderHolds, Reading, SaveRow
    <2>8. Recording' /\ Remembered' /\ Clock'
        BY <1>7, <2>2, <2>3, <2>5 DEF Recording, Remembered, Clock, SaveRow, catalog
    <2>9. events = 0 => \A c \in changes : c - row'.lastChangedAt < Debounce
        BY <1>t, <2>3, <2>5 DEF Recording, Within
    <2>10. Covered'
        BY <1>7, <2>2, <2>9 DEF Covered, Within, SaveRow, catalog
    <2> QED BY <2>6, <2>7, <2>8, <2>10
<1>8. CASE Restart
    <2>1. events = 0 /\ ~Writing
        BY <1>8 DEF Restart
    <2>2. ~Writing' /\ ~Reading'
        BY <1>8 DEF Restart, Writing, Reading, Idle
    <2>3. Covered'
        BY <1>8, <2>1 DEF Restart, Covered, Within
    <2>4. \A u \in Upserts : upsert'[u].pc = "idle"
        BY <2>2 DEF Writing
    <2>5. WriterAlone' /\ WriterHolds'
        BY <2>4 DEF WriterAlone, WriterHolds
    <2>6. PublisherHolds' /\ ReaderHolds'
        BY <1>8 DEF PublisherHolds, ReaderHolds, Restart, Idle
    <2>7. Recording' /\ Remembered' /\ Clock'
        BY <1>8, <1>t, <2>2 DEF Recording, Remembered, Clock, Restart
    <2> QED BY <2>3, <2>5, <2>6, <2>7
<1>9. ASSUME ~Writing \/ Reading, UNCHANGED <<row, upsert, catalog, now>> ,
             PublisherHolds', ReaderHolds'
      PROVE  CalmInv'
    <2>1. \A u \in Upserts : upsert'[u].pc = "idle"
        BY <1>9 DEF Writing, WriterAlone
    <2>2. WriterAlone' /\ WriterHolds'
        BY <2>1 DEF WriterAlone, WriterHolds
    <2>3. Recording' /\ Remembered' /\ Clock' /\ Covered'
        BY <1>9 DEF Recording, Remembered, Clock, Covered, Within, Writing, catalog
    <2> QED BY <1>9, <2>2, <2>3
<1>10. ASSUME NEW p \in Publishers, Dispatch(p) \/ DispatchAccepted(p) \/ DispatchLost(p)
       PROVE  CalmInv'
    <2>1. UNCHANGED <<row, upsert, catalog, now, query>> /\ (~Writing \/ Reading)
        BY <1>10 DEF Dispatch, DispatchAccepted, DispatchLost, Reading
    <2>2. PublisherHolds'
        BY <1>10, <1>t DEF PublisherHolds, Dispatch, DispatchAccepted, DispatchLost, Idle
    <2>3. ReaderHolds'
        BY <2>1 DEF ReaderHolds
    <2> QED BY <1>9, <2>1, <2>2, <2>3
<1>11. ASSUME NEW p \in Publishers, LoadTriggered(p) PROVE CalmInv'
    <2>1. Reading
        BY <1>11 DEF LoadTriggered, Reading
    <2>2. PICK e : e = publish'[p].entity
        OBVIOUS
    <2>3. publish'[p].isNew <=> row = None
        BY <1>11, <1>t DEF LoadTriggered
    <2>4. /\ e # None
          /\ row # None => e.lastChangedAt = row.lastChangedAt
        BY <1>11, <1>t, <2>2 DEF LoadTriggered, Entity, None
    <2>5. PublisherHolds'
        BY <1>11, <1>t, <2>2, <2>3, <2>4 DEF PublisherHolds, LoadTriggered
    <2>6. ReaderHolds'
        BY <1>11 DEF ReaderHolds, LoadTriggered
    <2> QED BY <1>9, <1>11, <2>1, <2>5, <2>6 DEF LoadTriggered
<1>12. ASSUME NEW p \in Publishers, SaveTriggered(p) PROVE CalmInv'
    <2>1. \A u \in Upserts : upsert[u].pc = "idle" /\ upsert'[u].pc = "idle"
        BY <1>12 DEF SaveTriggered, Reading, WriterAlone
    <2>2. /\ row # None => row' # None /\ row'.lastChangedAt = row.lastChangedAt
          /\ row' = row \/ row' # None
        BY <1>12 DEF SaveTriggered, Save, InsertedTwice, PublisherHolds
    <2>3. WriterAlone' /\ WriterHolds'
        BY <2>1 DEF WriterAlone, WriterHolds
    <2>4. PublisherHolds'
        BY <1>12, <1>t, <2>2 DEF PublisherHolds, SaveTriggered, Idle
    <2>5. ReaderHolds'
        BY <1>12, <1>t, <2>2 DEF ReaderHolds, SaveTriggered
    <2>6. ~Writing /\ ~Writing'
        BY <2>1 DEF Writing
    <2>7. Recording' /\ Remembered' /\ Clock'
        BY <1>12, <2>2, <2>6 DEF Recording, Remembered, Clock, SaveTriggered, catalog
    <2>8. Covered'
        BY <1>12, <2>2, <2>6 DEF Covered, Within, SaveTriggered, catalog
    <2> QED BY <2>3, <2>4, <2>5, <2>7, <2>8
<1>13. ASSUME NEW q \in Readers, LoadStatus(q) PROVE CalmInv'
    <2>1. PublisherHolds' /\ ReaderHolds'
        BY <1>13, <1>t DEF PublisherHolds, ReaderHolds, LoadStatus
    <2> QED BY <1>9, <1>13, <2>1 DEF LoadStatus
<1>14. ASSUME NEW q \in Readers, UseCache(q) \/ AskGitHub(q) \/ FillCache(q) \/ GitHubError(q)
       PROVE  CalmInv'
    <2>1. /\ UNCHANGED <<row, upsert, catalog, now, publish>> /\ query[q].pc \in {"ask", "fill"}
          /\ query'[q] = Idle \/ query'[q].entity = query[q].entity
          /\ \A r \in Readers \ {q} : query'[r] = query[r]
        BY <1>14, <1>t DEF UseCache, AskGitHub, FillCache, GitHubError, Knows
    <2>2. PublisherHolds' /\ ReaderHolds'
        BY <2>1 DEF PublisherHolds, ReaderHolds, Idle
    <2>3. Reading
        BY <2>1 DEF Reading
    <2> QED BY <1>9, <2>1, <2>2, <2>3
<1>15. ASSUME NEW q \in Readers, Answer(q) PROVE CalmInv'
    <2>1. \A u \in Upserts : upsert[u].pc = "idle" /\ upsert'[u].pc = "idle"
        BY <1>15 DEF Answer, Reading, WriterAlone
    <2>2. PICK e : e = query[q].entity
        OBVIOUS
    <2>3. e \in Rows
        BY <1>15, <1>t, <2>2, ReadKnows DEF Answer
    <2>4. \/ row' = row
          \/ e # None /\ row' = [e EXCEPT !.deployStatus = "idle"]
        BY <1>15, <2>2 DEF Answer, Heals, AwaitingCompletion
    <2>5. e # None => row # None /\ e.lastChangedAt = row.lastChangedAt
        BY <1>15, <2>2 DEF Answer, ReaderHolds
    <2>6. row = row' \/ (row # None /\ row' # None /\ row'.lastChangedAt = row.lastChangedAt)
        BY <2>3, <2>4, <2>5 DEF Rows, None
    <2>7. WriterAlone' /\ WriterHolds'
        BY <2>1 DEF WriterAlone, WriterHolds
    <2>8. PublisherHolds'
        BY <1>15, <2>6 DEF PublisherHolds, Answer
    <2>9. ReaderHolds'
        BY <1>15, <1>t, <2>6 DEF ReaderHolds, Answer, Idle
    <2>10. ~Writing /\ ~Writing'
        BY <2>1 DEF Writing
    <2>11. Recording' /\ Remembered' /\ Clock'
        BY <1>15, <2>6, <2>10 DEF Recording, Remembered, Clock, Answer, catalog
    <2>12. Covered'
        BY <1>15, <2>6, <2>10 DEF Covered, Within, Answer, catalog
    <2> QED BY <2>7, <2>8, <2>9, <2>11, <2>12
<1>16. CASE Push \/ SomeRunEnds
    BY <1>2, <1>16 DEF Push, SomeRunEnds, RunSucceeds, RunFails, FinishRun, catalog
<1> QED BY <1>1, <1>2, <1>3, <1>4, <1>5, <1>6, <1>7, <1>8, <1>10, <1>11, <1>12, <1>13,
           <1>14, <1>15, <1>16 DEF Next, WriteStep, PublishStep, QueryStep, vars

\* The greatest of the changes is one of them.
LEMMA LatestChange ==
    ASSUME Typed, changes # {} PROVE Max(changes) \in changes
<1>1. changes \subseteq 0..MaxTime /\ MaxTime \in Int
    BY BoundsAssumption DEF Typed, Times
<1>2. IsFiniteSet(0..MaxTime)
    BY <1>1, FS_Interval
<1>3. IsFiniteSet(changes)
    BY <1>1, <1>2, FS_Subset
<1>4. Positions(changes)
    BY <1>1, <1>3 DEF Positions
<1> QED BY <1>4, MaxIsGreatest

\* It says more than the property does.
LEMMA CoveredIsRecorded == Typed /\ CalmInv => RecordedWithinDebounce
<1> SUFFICES ASSUME Typed, CalmInv, changes # {}, events = 0, ~Writing
             PROVE  row # None /\ Max(changes) - row.lastChangedAt < Debounce
    BY DEF RecordedWithinDebounce
<1> QED BY LatestChange DEF CalmInv, Covered, Within

\* When a catalog write overlaps no query, mutation, other write or restart,
\* whatever is debounced, the row is less than one interval behind the catalog
\* as soon as the events are handled.
THEOREM ChangesAreRecorded ==
    ASSUME Calm PROVE Spec => []RecordedWithinDebounce
<1>1. Typed /\ CalmInv /\ [Next]_vars => CalmInv'
    BY NextCalm
<1> QED BY <1>1, InitTyped, NextTyped, InitCalm, CoveredIsRecorded, PTL DEF Spec

-----------------------------------------------------------------------------
\* An entity that waits for nothing has had its publish deployed.
Deployed(e) ==
    e # None /\ ~AwaitingCompletion(e) /\ e.lastPublishTriggeredAt # 0
        => DeployedSince(e.lastPublishTriggeredAt)

\* This holds for the row and for what is about to be saved as the row, and a
\* query was told the time of a success.
WritersDeployed == \A u \in Upserts : upsert[u].pc = "save" => Deployed(upsert[u].entity)
PublishersDeployed == \A p \in Publishers : publish[p].pc = "save" => Deployed(publish[p].entity)
ReadersTold == \A q \in Readers : query[q].pc \in {"fill", "answer"} /\ query[q].deployedAt # 0
                                     => DeployedSince(query[q].deployedAt)
DeployInv == Deployed(row) /\ WritersDeployed /\ PublishersDeployed /\ ReadersTold

\* At first there is no row and nothing is held.
LEMMA InitDeploy == Init => DeployInv
BY DEF Init, DeployInv, Deployed, WritersDeployed, PublishersDeployed, ReadersTold, Idle

\* A run that has succeeded stays so, and keeps its time.
LEMMA SuccessStays ==
    ASSUME Typed, [Next]_vars
    PROVE  \A i \in Succeeded : i \in Succeeded' /\ runs'[i] = runs[i]
<1>t. runs \in Seq(WorkflowRuns)
    BY DEF Typed
<1>1. CASE Start
    BY <1>1, <1>t DEF Start, Succeeded
<1>2. ASSUME NEW i \in DOMAIN runs, RunSucceeds(i) \/ RunFails(i)
      PROVE  \A j \in Succeeded : j \in Succeeded' /\ runs'[j] = runs[j]
    BY <1>2, <1>t DEF RunSucceeds, RunFails, FinishRun, Succeeded
<1>3. CASE UNCHANGED runs
    BY <1>3 DEF Succeeded
<1>4. Start \/ UNCHANGED runs \/ SomeRunEnds
    BY ZenonT(60) DEF Next, vars, Tick, Push, CatalogChange, DropEvent, Restart, RecordEvent,
        WriteStep, LoadRow, SaveRow, Dispatch, PublishStep, DispatchAccepted, DispatchLost,
        LoadTriggered, SaveTriggered, QueryStep, LoadStatus, UseCache, AskGitHub, FillCache,
        GitHubError, Answer
<1> QED BY <1>1, <1>2, <1>3, <1>4 DEF SomeRunEnds

\* What GitHub says is the time of a success.
LEMMA ToldOfSuccess ==
    ASSUME Typed, LastDeployedAt # 0 PROVE DeployedSince(LastDeployedAt)
<1>1. Succeeded # {}
    BY DEF LastDeployedAt
<1>2. PICK i : i = Max(Succeeded)
    OBVIOUS
<1>3. i \in Succeeded /\ LastDeployedAt = runs[i].updatedAt
    BY <1>1, <1>2, NewestSuccess DEF LastDeployedAt, Typed
<1>4. LastDeployedAt \in Nat
    BY DeployTime, BoundsAssumption DEF Typed, Times
<1> QED BY <1>3, <1>4 DEF DeployedSince

\* Each step keeps it, whatever overlaps.
LEMMA NextDeploy == Typed /\ DeployInv /\ [Next]_vars => DeployInv'
<1> SUFFICES ASSUME Typed, DeployInv, [Next]_vars PROVE DeployInv'
    OBVIOUS
<1>t. /\ row \in Rows /\ now \in Times
      /\ upsert \in [Upserts -> Saves] /\ publish \in [Publishers -> Saves]
      /\ query \in [Readers -> Reads]
    BY DEF Typed
<1>s. \A t : DeployedSince(t) => (\E i \in Succeeded' : runs'[i].updatedAt >= t)
    BY SuccessStays DEF DeployedSince
<1>e. ASSUME NEW e, Deployed(e) PROVE Deployed(e)'
    BY <1>s, <1>e DEF Deployed, DeployedSince, AwaitingCompletion
<1>a. (row' = row \/ Deployed(row)') => Deployed(row)'
    <2>1. PICK e : e = row
        OBVIOUS
    <2>2. Deployed(e)'
        BY <1>e, <2>1 DEF DeployInv
    <2> QED BY <2>1, <2>2 DEF Deployed, DeployedSince, AwaitingCompletion
<1>w. ASSUME NEW u \in Upserts, upsert'[u] = upsert[u], upsert[u].pc = "save"
      PROVE  Deployed(upsert[u].entity)'
    <2>1. PICK e : e = upsert[u].entity
        OBVIOUS
    <2>2. Deployed(e)'
        BY <1>e, <1>w, <2>1 DEF DeployInv, WritersDeployed
    <2> QED BY <1>w, <2>1, <2>2 DEF Deployed, DeployedSince, AwaitingCompletion
<1>p. ASSUME NEW p \in Publishers, publish'[p] = publish[p], publish[p].pc = "save"
      PROVE  Deployed(publish[p].entity)'
    <2>1. PICK e : e = publish[p].entity
        OBVIOUS
    <2>2. Deployed(e)'
        BY <1>e, <1>p, <2>1 DEF DeployInv, PublishersDeployed
    <2> QED BY <1>p, <2>1, <2>2 DEF Deployed, DeployedSince, AwaitingCompletion
<1>q. ASSUME NEW q \in Readers, query'[q] = query[q],
             query[q].pc \in {"fill", "answer"}, query[q].deployedAt # 0
      PROVE  DeployedSince(query[q].deployedAt)'
    BY <1>q, <1>s DEF DeployInv, ReadersTold, DeployedSince
<1>1. UNCHANGED upsert => WritersDeployed'
    BY <1>w DEF WritersDeployed
<1>2. UNCHANGED publish => PublishersDeployed'
    BY <1>p DEF PublishersDeployed
<1>3. UNCHANGED query => ReadersTold'
    BY <1>q DEF ReadersTold
<1>4. CASE UNCHANGED <<row, upsert, publish, query>>
    BY <1>4, <1>a, <1>1, <1>2, <1>3 DEF DeployInv
<1>5. ASSUME NEW u \in Upserts, RecordEvent(u) PROVE DeployInv'
    <2>1. upsert'[u].pc = "load" /\ \A v \in Upserts \ {u} : upsert'[v] = upsert[v]
        BY <1>5, <1>t DEF RecordEvent
    <2>2. WritersDeployed'
        BY <1>w, <2>1 DEF WritersDeployed
    <2> QED BY <1>5, <2>2, <1>a, <1>2, <1>3 DEF DeployInv, RecordEvent
<1>6. ASSUME NEW u \in Upserts, LoadRow(u) PROVE DeployInv'
    <2>1. PICK e : e = upsert'[u].entity
        OBVIOUS
    <2>2. /\ e = IF row = None THEN Entity(now, "idle", 0) ELSE [row EXCEPT !.lastChangedAt = now]
          /\ \A v \in Upserts \ {u} : upsert'[v] = upsert[v]
        BY <1>6, <1>t, <2>1 DEF LoadRow
    <2>3. Deployed(e)
        <3>1. CASE row = None
            BY <2>2, <3>1 DEF Deployed, Entity
        <3>2. CASE row # None
            <4>1. /\ e.deployStatus = row.deployStatus
                  /\ e.lastPublishTriggeredAt = row.lastPublishTriggeredAt
                BY <2>2, <3>2, <1>t DEF Rows, None
            <4> QED BY <3>2, <4>1 DEF Deployed, DeployInv, AwaitingCompletion
        <3> QED BY <3>1, <3>2
    <2>4. Deployed(e)'
        BY <1>e, <2>3
    <2>5. Deployed(upsert[u].entity)'
        BY <2>1, <2>4 DEF Deployed, DeployedSince, AwaitingCompletion
    <2>6. WritersDeployed'
        BY <1>w, <2>2, <2>5 DEF WritersDeployed
    <2> QED BY <1>6, <2>6, <1>a, <1>2, <1>3 DEF DeployInv, LoadRow
<1>7. ASSUME NEW u \in Upserts, SaveRow(u) PROVE DeployInv'
    <2>1. PICK e : e = upsert[u].entity
        OBVIOUS
    <2>2. Deployed(e)'
        BY <1>e, <1>7, <2>1 DEF DeployInv, WritersDeployed, SaveRow
    <2>3. row' = row \/ row' = e
        BY <1>7, <2>1 DEF SaveRow, Save
    <2>4. Deployed(row)'
        BY <1>a, <2>2, <2>3 DEF Deployed, DeployedSince, AwaitingCompletion
    <2>5. upsert'[u].pc = "idle" /\ \A v \in Upserts \ {u} : upsert'[v] = upsert[v]
        BY <1>7, <1>t DEF SaveRow, Idle
    <2>6. WritersDeployed'
        BY <1>w, <2>5 DEF WritersDeployed
    <2> QED BY <1>7, <2>4, <2>6, <1>2, <1>3 DEF DeployInv, SaveRow
<1>8. CASE Restart
    <2>1. \A u \in Upserts : upsert'[u].pc = "idle"
        BY <1>8 DEF Restart, Idle
    <2>2. \A p \in Publishers : publish'[p].pc = "idle"
        BY <1>8 DEF Restart, Idle
    <2>3. \A q \in Readers : query'[q].pc = "idle"
        BY <1>8 DEF Restart, Idle
    <2>4. WritersDeployed' /\ PublishersDeployed' /\ ReadersTold'
        BY <2>1, <2>2, <2>3 DEF WritersDeployed, PublishersDeployed, ReadersTold
    <2> QED BY <1>8, <2>4, <1>a DEF DeployInv, Restart
<1>9. ASSUME NEW p \in Publishers, Dispatch(p) \/ DispatchAccepted(p) \/ DispatchLost(p)
      PROVE  DeployInv'
    <2>1. /\ UNCHANGED <<row, upsert, query>>
          /\ publish'[p].pc # "save" /\ \A v \in Publishers \ {p} : publish'[v] = publish[v]
        BY <1>9, <1>t DEF Dispatch, DispatchAccepted, DispatchLost, Idle
    <2>2. PublishersDeployed'
        BY <1>p, <2>1 DEF PublishersDeployed
    <2> QED BY <2>1, <2>2, <1>a, <1>1, <1>3 DEF DeployInv
<1>10. ASSUME NEW p \in Publishers, LoadTriggered(p) PROVE DeployInv'
    <2>1. PICK e : e = publish'[p].entity
        OBVIOUS
    <2>2. AwaitingCompletion(e) /\ \A v \in Publishers \ {p} : publish'[v] = publish[v]
        BY <1>10, <1>t, <2>1 DEF LoadTriggered, Entity, AwaitingCompletion, None
    <2>3. Deployed(publish[p].entity)'
        BY <2>1, <2>2 DEF Deployed, AwaitingCompletion
    <2>4. PublishersDeployed'
        BY <1>p, <2>2, <2>3 DEF PublishersDeployed
    <2> QED BY <1>10, <2>4, <1>a, <1>1, <1>3 DEF DeployInv, LoadTriggered
<1>11. ASSUME NEW p \in Publishers, SaveTriggered(p) PROVE DeployInv'
    <2>1. PICK e : e = publish[p].entity
        OBVIOUS
    <2>2. Deployed(e)'
        BY <1>e, <1>11, <2>1 DEF DeployInv, PublishersDeployed, SaveTriggered
    <2>3. row' = row \/ row' = e
        BY <1>11, <2>1 DEF SaveTriggered, Save
    <2>4. Deployed(row)'
        BY <1>a, <2>2, <2>3 DEF Deployed, DeployedSince, AwaitingCompletion
    <2>5. publish'[p].pc = "idle" /\ \A v \in Publishers \ {p} : publish'[v] = publish[v]
        BY <1>11, <1>t DEF SaveTriggered, Idle
    <2>6. PublishersDeployed'
        BY <1>p, <2>5 DEF PublishersDeployed
    <2>7. \A q \in Readers : query'[q] = query[q] \/ query'[q].pc = "load"
        BY <1>11, <1>t DEF SaveTriggered
    <2>8. ReadersTold'
        BY <1>q, <2>7 DEF ReadersTold
    <2> QED BY <1>11, <2>4, <2>6, <2>8, <1>1 DEF DeployInv, SaveTriggered
<1>12. ASSUME NEW q \in Readers, UNCHANGED <<upsert, publish>>, Deployed(row)',
              \A r \in Readers \ {q} : query'[r] = query[r],
              query'[q].pc \in {"fill", "answer"} /\ query'[q].deployedAt # 0
                  => DeployedSince(query'[q].deployedAt)
       PROVE  DeployInv'
    <2>1. query'[q].pc \in {"fill", "answer"} /\ query'[q].deployedAt # 0
              => DeployedSince(query[q].deployedAt)'
        BY <1>12, <1>s DEF DeployedSince
    <2>2. ReadersTold'
        BY <1>12, <1>q, <2>1 DEF ReadersTold
    <2> QED BY <1>12, <2>2, <1>1, <1>2 DEF DeployInv
<1>13. ASSUME NEW q \in Readers, LoadStatus(q) \/ UseCache(q) \/ GitHubError(q) PROVE DeployInv'
    <2>1. /\ UNCHANGED <<row, upsert, publish>>
          /\ \A r \in Readers \ {q} : query'[r] = query[r]
          /\ query'[q].pc \in {"ask", "idle"} \/ query'[q].deployedAt = 0
        BY <1>13, <1>t DEF LoadStatus, UseCache, GitHubError, Knows, Idle
    <2> QED BY <1>12, <1>a, <2>1
<1>14. ASSUME NEW q \in Readers, AskGitHub(q) PROVE DeployInv'
    <2>1. /\ UNCHANGED <<row, upsert, publish>>
          /\ \A r \in Readers \ {q} : query'[r] = query[r]
          /\ query'[q].deployedAt = LastDeployedAt
        BY <1>14, <1>t DEF AskGitHub
    <2> QED BY <1>12, <1>a, <2>1, ToldOfSuccess
<1>15. ASSUME NEW q \in Readers, FillCache(q) PROVE DeployInv'
    <2>1. /\ UNCHANGED <<row, upsert, publish>> /\ query[q].pc = "fill"
          /\ \A r \in Readers \ {q} : query'[r] = query[r]
          /\ query'[q].pc = "idle" \/ query'[q].deployedAt = query[q].deployedAt
        BY <1>15, <1>t DEF FillCache, Knows, Idle
    <2> QED BY <1>12, <1>a, <2>1 DEF DeployInv, ReadersTold
<1>16. ASSUME NEW q \in Readers, Answer(q) PROVE DeployInv'
    <2>1. PICK e, t : e = query[q].entity /\ t = query[q].deployedAt
        OBVIOUS
    <2>2. /\ UNCHANGED <<upsert, publish>> /\ query'[q].pc = "idle" /\ query[q].pc = "answer"
          /\ \A r \in Readers \ {q} : query'[r] = query[r]
          /\ row' = IF Heals(e, t) THEN [e EXCEPT !.deployStatus = "idle"] ELSE row
        BY <1>16, <1>t, <2>1 DEF Answer, Idle
    <2>3. CASE ~Heals(e, t)
        BY <1>12, <1>a, <2>2, <2>3
    <2>4. CASE Heals(e, t)
        <3>1. e \in Rows /\ t \in Times
            BY <1>t, <2>1, <2>2, ReadKnows
        <3>2. /\ e # None /\ row' = [e EXCEPT !.deployStatus = "idle"]
              /\ t # 0 /\ t >= e.lastPublishTriggeredAt
            BY <2>2, <2>4 DEF Heals, AwaitingCompletion
        <3>3. row'.lastPublishTriggeredAt = e.lastPublishTriggeredAt
            BY <3>1, <3>2 DEF Rows, None
        <3>4. PICK i \in Succeeded : runs[i].updatedAt >= t
            BY <2>1, <2>2, <3>2 DEF DeployInv, ReadersTold, DeployedSince
        <3>5. runs[i].updatedAt \in Nat /\ t \in Nat /\ e.lastPublishTriggeredAt \in Nat
            <4>1. runs[i] \in WorkflowRuns
                BY <3>4 DEF Typed, Succeeded
            <4>2. runs[i].updatedAt \in Times
                BY <4>1 DEF WorkflowRuns
            <4>3. e.lastPublishTriggeredAt \in Times
                BY <3>1, <3>2, Columns
            <4> QED BY <3>1, <4>2, <4>3, BoundsAssumption DEF Times
        <3>6. runs[i].updatedAt >= e.lastPublishTriggeredAt
            BY <3>2, <3>4, <3>5
        <3>7. i \in Succeeded' /\ runs'[i].updatedAt >= row'.lastPublishTriggeredAt
            BY <3>3, <3>4, <3>6, SuccessStays
        <3>8. Deployed(row)'
            BY <3>7 DEF Deployed, DeployedSince
        <3> QED BY <1>12, <2>2, <3>8
    <2> QED BY <2>3, <2>4
<1>17. CASE Tick \/ Push \/ CatalogChange \/ DropEvent \/ SomeRunEnds \/ UNCHANGED vars
    BY <1>4, <1>17 DEF Tick, Push, CatalogChange, DropEvent, SomeRunEnds, RunSucceeds, RunFails,
        FinishRun, vars
<1> QED BY <1>5, <1>6, <1>7, <1>8, <1>9, <1>10, <1>11, <1>13, <1>14, <1>15, <1>16, <1>17
        DEF Next, WriteStep, PublishStep, QueryStep

\* The row is one of the entities that DeployInv speaks of.
LEMMA DeployedIsIdle == DeployInv => IdleWhenDeployed
BY DEF DeployInv, Deployed, IdleWhenDeployed

\* However queries, writes, mutations, pushes and restarts interleave and
\* whatever is lost, a channel that shows "idle" for a publish has had a run
\* succeed at or after it: a row that was loaded before may take the record of
\* a publish away, but never passes it off as deployed.
THEOREM IdleMeansDeployed == Spec => []IdleWhenDeployed
<1> QED BY InitTyped, NextTyped, InitDeploy, NextDeploy, DeployedIsIdle, PTL DEF Spec
=============================================================================
