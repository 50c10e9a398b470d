------------------------- MODULE DeploymentTracker -------------------------
(***************************************************************************)
(* The deployment tracker of one channel: the listener that records        *)
(* catalog changes in the channel's ChannelCatalogState row, the publish   *)
(* mutation that dispatches a GitHub Actions run, and the status query     *)
(* that compares the two and takes the row out of 'triggered' again.       *)
(*                                                                         *)
(* All three load the row, wait, and save the entity they hold. TypeORM's  *)
(* save makes every column of the row what the entity says, so a save      *)
(* brings back the columns as they were when the entity was loaded.        *)
(***************************************************************************)
EXTENDS Integers, Sequences, FiniteSetsExt

CONSTANTS
    Upserts,      \* catalog writes running at the same time
    Queries,      \* status queries running at the same time
    Publishers,   \* publish mutations running at the same time
    Debounce,     \* CATALOG_CHANGE_DEBOUNCE_MS, in ticks
    CacheTtl,     \* GITHUB_DEPLOY_STATUS_CACHE_TTL_MS, in ticks
    Calm,         \* does a catalog write overlap no query, no mutation, no other
                  \* write and no restart?
    SlowRuns,     \* does no run end while a publish mutation is served?
    MaxTime,      \* bound: ticks
    MaxChanges,   \* bound: catalog changes
    MaxRuns,      \* bound: workflow runs
    MaxFailures   \* bound: failing runs and GitHub requests, restarts

ASSUME CallersAssumption == Queries \cap Publishers = {}
ASSUME TicksAssumption == Debounce \in Nat \ {0} /\ CacheTtl \in Nat
ASSUME SwitchesAssumption == Calm \in BOOLEAN /\ SlowRuns \in BOOLEAN
ASSUME BoundsAssumption ==
    /\ MaxTime \in Nat /\ MaxTime >= Debounce
    /\ MaxChanges \in Nat /\ MaxRuns \in Nat /\ MaxFailures \in Nat

VARIABLES
    now,            \* Date.now()
    changes,        \* times of the catalog changes so far
    events,         \* how many change events still hydrate their channels
    lastRecordedAt, \* the listener's debounce memory, 0 when empty
    row,            \* the ChannelCatalogState row, or NoRow
    cache,          \* lastDeployCache of the channel, or NoCache
    runs,           \* workflow runs on the branch, oldest first
    upsert,         \* the catalog writes being made
    query,          \* the getStatus calls being served
    publish,        \* the publish mutations being served
    failures        \* bounded counter

vars == <<now, changes, events, lastRecordedAt, row, cache, runs, upsert, query,
          publish, failures>>
catalog == <<changes, events, lastRecordedAt>>

\* publish ends with a call of getStatus.
Readers == Queries \cup Publishers

None == [kind |-> "none"]
Idle == [pc |-> "idle"]

\* Mutant: an entity without the publish time.
EntityWithoutTrigger(changedAt, status, triggeredAt) ==
    [kind |-> "row", lastChangedAt |-> changedAt, deployStatus |-> status]

Entity(changedAt, status, triggeredAt) ==
    [kind |-> "row", lastChangedAt |-> changedAt, deployStatus |-> status,
     lastPublishTriggeredAt |-> triggeredAt]

AwaitingCompletion(entity) == entity # None /\ entity.deployStatus = "triggered"

\* Times start at 1; 0 stands for "never".
Init ==
    /\ now = Debounce
    /\ changes = {}
    /\ events = 0
    /\ lastRecordedAt = 0
    /\ row = None
    /\ cache = None
    /\ runs = <<>>
    /\ upsert = [u \in Upserts |-> Idle]
    /\ query = [q \in Readers |-> Idle]
    /\ publish = [p \in Publishers |-> Idle]
    /\ failures = 0

Tick ==
    /\ now < MaxTime
    /\ now' = now + 1
    /\ UNCHANGED <<catalog, row, cache, runs, upsert, query, publish, failures>>

Reading == \/ \E q \in Readers : query[q].pc # "idle"
           \/ \E p \in Publishers : publish[p].pc # "idle"
Writing == \E u \in Upserts : upsert[u].pc # "idle"

-----------------------------------------------------------------------------
\* GitHub.

\* A run has no time that matters until it ends.
Start == runs' = Append(runs, [status |-> "running", updatedAt |-> 0])

\* A push to the branch deploys it as well.
Push ==
    /\ Len(runs) < MaxRuns
    /\ Start
    /\ UNCHANGED <<now, catalog, row, cache, upsert, query, publish, failures>>

FinishRun(i, status) ==
    /\ runs[i].status = "running"
    /\ SlowRuns => \A p \in Publishers : publish[p].pc = "idle"
    /\ runs' = [runs EXCEPT ![i].status = status, ![i].updatedAt = now]
    /\ UNCHANGED <<now, catalog, row, cache, upsert, query, publish>>

RunSucceeds(i) == FinishRun(i, "success") /\ UNCHANGED failures

RunFails(i) ==
    /\ failures < MaxFailures
    /\ failures' = failures + 1
    /\ FinishRun(i, "failure")

Succeeded == {i \in DOMAIN runs : runs[i].status = "success"}

\* The first of the successful runs of the branch, newest first: 0 for none.
LastDeployedAt == IF Succeeded = {} THEN 0 ELSE runs[Max(Succeeded)].updatedAt

-----------------------------------------------------------------------------
\* CatalogChangeListenerService.

\* A product, variant, collection, facet or facet value of the channel is
\* created or updated; handle begins to hydrate its channels.
CatalogChange ==
    /\ Cardinality(changes) < MaxChanges
    /\ now \notin changes
    /\ changes' = changes \cup {now}
    /\ events' = events + 1
    /\ UNCHANGED <<now, lastRecordedAt, row, cache, runs, upsert, query, publish,
                   failures>>

\* Mutant: changes are dropped for two intervals.
RecentlyRecordedTwice == now - lastRecordedAt < 2 * Debounce

RecentlyRecorded == now - lastRecordedAt < Debounce

\* handle, after hydration: drop the event or load the row in upsert.
DropEvent ==
    /\ events > 0
    /\ RecentlyRecorded
    /\ events' = events - 1
    /\ UNCHANGED <<now, changes, lastRecordedAt, row, cache, runs, upsert, query,
                   publish, failures>>

RecordEvent(u) ==
    /\ events > 0
    /\ upsert[u].pc = "idle"
    /\ ~RecentlyRecorded
    /\ Calm => ~Reading /\ ~Writing
    /\ events' = events - 1
    /\ lastRecordedAt' = now
    /\ upsert' = [upsert EXCEPT ![u] = [pc |-> "load"]]
    /\ UNCHANGED <<now, changes, row, cache, runs, query, publish, failures>>

LoadRow(u) ==
    /\ upsert[u].pc = "load"
    /\ upsert' = [upsert EXCEPT ![u] =
                    [pc |-> "save", isNew |-> row = None,
                     entity |-> IF row = None THEN Entity(now, "idle", 0)
                                ELSE [row EXCEPT !.lastChangedAt = now]]]
    /\ UNCHANGED <<now, catalog, row, cache, runs, query, publish, failures>>

\* A second insert violates the unique index on channelId and throws.
InsertedTwice(isNew) == isNew /\ row # None
Save(isNew, entity) ==
    IF InsertedTwice(isNew) THEN UNCHANGED row ELSE row' = entity

SaveRow(u) ==
    /\ upsert[u].pc = "save"
    /\ Save(upsert[u].isNew, upsert[u].entity)
    /\ upsert' = [upsert EXCEPT ![u] = Idle]
    /\ UNCHANGED <<now, catalog, cache, runs, query, publish, failures>>

\* The process restarts: the memory of the debounce and the cache are gone,
\* with everything in flight.
Restart ==
    /\ failures < MaxFailures
    /\ failures' = failures + 1
    /\ Calm => events = 0 /\ ~Reading /\ ~Writing
    /\ events' = 0
    /\ lastRecordedAt' = 0
    /\ cache' = None
    /\ upsert' = [u \in Upserts |-> Idle]
    /\ query' = [q \in Readers |-> Idle]
    /\ publish' = [p \in Publishers |-> Idle]
    /\ UNCHANGED <<now, changes, row, runs>>

-----------------------------------------------------------------------------
\* DeploymentTrackerService.publish.

\* triggerDeploy: the dispatch reaches GitHub, whatever the row says: the
\* server does not look at it, and the dashboard's button is on again while the
\* row is still triggered, DEPLOYING_TIMEOUT_MS after the publish.
Dispatch(p) ==
    /\ publish[p].pc = "idle" /\ query[p].pc = "idle"
    /\ Len(runs) < MaxRuns
    /\ Calm => ~Writing
    /\ Start
    /\ publish' = [publish EXCEPT ![p] = [pc |-> "sent"]]
    /\ UNCHANGED <<now, catalog, row, cache, upsert, query, failures>>

\* GitHub accepts it, and the cached deploy of the channel is forgotten ...
DispatchAccepted(p) ==
    /\ publish[p].pc = "sent"
    /\ cache' = None
    /\ publish' = [publish EXCEPT ![p] = [pc |-> "load"]]
    /\ UNCHANGED <<now, catalog, row, runs, upsert, query, failures>>

\* ... or the answer is lost: the mutation throws, and the run goes on.
DispatchLost(p) ==
    /\ publish[p].pc = "sent"
    /\ failures < MaxFailures
    /\ failures' = failures + 1
    /\ publish' = [publish EXCEPT ![p] = Idle]
    /\ UNCHANGED <<now, catalog, row, cache, runs, upsert, query>>

LoadTriggered(p) ==
    /\ publish[p].pc = "load"
    /\ publish' = [publish EXCEPT ![p] =
                     [pc |-> "save", isNew |-> row = None,
                      entity |-> Entity(IF row = None THEN now ELSE row.lastChangedAt,
                                        "triggered", now)]]
    /\ UNCHANGED <<now, catalog, row, cache, runs, upsert, query, failures>>

SaveTriggered(p) ==
    /\ publish[p].pc = "save"
    /\ Save(publish[p].isNew, publish[p].entity)
    /\ publish' = [publish EXCEPT ![p] = Idle]
    /\ query' = IF InsertedTwice(publish[p].isNew) THEN query
                ELSE [query EXCEPT ![p] = [pc |-> "load"]]
    /\ UNCHANGED <<now, catalog, cache, runs, upsert, failures>>

-----------------------------------------------------------------------------
\* DeploymentTrackerService.getStatus.

\* Of a row that awaits nothing the query only reports: it is not kept, and
\* the query ends when it knows the last deploy.
LoadStatus(q) ==
    /\ query[q].pc = IF q \in Queries THEN "idle" ELSE "load"
    /\ Calm => ~Writing
    /\ query' = [query EXCEPT ![q] = [pc |-> "ask",
                                        entity |-> IF AwaitingCompletion(row) THEN row ELSE None]]
    /\ UNCHANGED <<now, catalog, row, cache, runs, upsert, publish, failures>>

Knows(q, deployedAt) ==
    query' = [query EXCEPT ![q] =
                IF AwaitingCompletion(query[q].entity)
                THEN [pc |-> "answer", entity |-> query[q].entity, deployedAt |-> deployedAt]
                ELSE Idle]

\* getLastSuccessfulDeploy: from the cache, unless a deploy is awaited ...
UseCache(q) ==
    /\ query[q].pc = "ask"
    /\ cache # None
    /\ cache.expiresAt > now
    /\ ~AwaitingCompletion(query[q].entity)
    /\ Knows(q, cache.value)
    /\ UNCHANGED <<now, catalog, row, cache, runs, upsert, publish, failures>>

\* ... or from GitHub.
AskGitHub(q) ==
    /\ query[q].pc = "ask"
    /\ \/ cache = None
       \/ cache # None /\ cache.expiresAt <= now
       \/ AwaitingCompletion(query[q].entity)
    /\ query' = [query EXCEPT ![q] =
                   [pc |-> "fill", entity |-> query[q].entity, deployedAt |-> LastDeployedAt]]
    /\ UNCHANGED <<now, catalog, row, cache, runs, upsert, publish, failures>>

\* When its answer is there it is cached, in place of a later one as well.
FillCache(q) ==
    /\ query[q].pc = "fill"
    /\ cache' = [kind |-> "cache", value |-> query[q].deployedAt, expiresAt |-> now + CacheTtl]
    /\ Knows(q, query[q].deployedAt)
    /\ UNCHANGED <<now, catalog, row, runs, upsert, publish, failures>>

\* A GitHub error counts as "no successful deploy known".
GitHubError(q) ==
    /\ query[q].pc = "ask"
    /\ failures < MaxFailures
    /\ failures' = failures + 1
    /\ Knows(q, 0)
    /\ UNCHANGED <<now, catalog, row, cache, runs, upsert, publish>>

\* Mutant: any successful deploy clears the status, however old.
HealsAnyDeploy(entity, deployedAt) == AwaitingCompletion(entity) /\ deployedAt # 0

\* Mutant: a deploy in the very tick of the trigger is not the awaited one.
HealsLater(entity, deployedAt) ==
    AwaitingCompletion(entity) /\ deployedAt > entity.lastPublishTriggeredAt

\* The awaited deploy is there: a success at or after the trigger.
Heals(entity, deployedAt) ==
    /\ AwaitingCompletion(entity)
    /\ deployedAt # 0
    /\ entity.lastPublishTriggeredAt # 0
    /\ deployedAt >= entity.lastPublishTriggeredAt

Answer(q) ==
    LET entity == query[q].entity
        deployedAt == query[q].deployedAt IN
    /\ query[q].pc = "answer"
    /\ row' = IF Heals(entity, deployedAt)
              THEN [entity EXCEPT !.deployStatus = "idle"] ELSE row
    /\ query' = [query EXCEPT ![q] = Idle]
    /\ UNCHANGED <<now, catalog, cache, runs, upsert, publish, failures>>

-----------------------------------------------------------------------------
SomeRunEnds == \E i \in DOMAIN runs : RunSucceeds(i) \/ RunFails(i)
WriteStep(u) == LoadRow(u) \/ SaveRow(u)
PublishStep(p) == DispatchAccepted(p) \/ DispatchLost(p) \/ LoadTriggered(p) \/ SaveTriggered(p)
QueryStep(q) == \/ LoadStatus(q) \/ UseCache(q) \/ AskGitHub(q) \/ FillCache(q)
                \/ GitHubError(q) \/ Answer(q)

Next ==
    \/ Tick \/ Push \/ CatalogChange \/ DropEvent \/ Restart \/ SomeRunEnds
    \/ \E u \in Upserts : RecordEvent(u) \/ WriteStep(u)
    \/ \E p \in Publishers : Dispatch(p) \/ PublishStep(p)
    \/ \E q \in Readers : QueryStep(q)

Spec == Init /\ [][Next]_vars

\* The server ends what it serves, dashboards poll for ever, runs end.
Fairness ==
    /\ \A u \in Upserts : WF_vars(WriteStep(u))
    /\ \A q \in Queries : WF_vars(QueryStep(q))
    /\ \A p \in Publishers : WF_vars(PublishStep(p) \/ QueryStep(p))
    /\ WF_vars(SomeRunEnds)

FairSpec == Spec /\ Fairness

-----------------------------------------------------------------------------
Times == 0..MaxTime
Rows == {None} \cup [kind : {"row"}, lastChangedAt : Times,
                     deployStatus : {"idle", "triggered"},
                     lastPublishTriggeredAt : Times]
Saves == {Idle, [pc |-> "sent"], [pc |-> "load"]}
         \cup [pc : {"save"}, isNew : BOOLEAN, entity : Rows]

TypeOK ==
    /\ now \in Times /\ lastRecordedAt \in Times
    /\ changes \subseteq Times /\ events \in Nat
    /\ row \in Rows
    /\ cache \in {None} \cup [kind : {"cache"}, value : Times, expiresAt : Nat]
    /\ runs \in Seq([status : {"running", "success", "failure"}, updatedAt : Times])
    /\ upsert \in [Upserts -> Saves] /\ publish \in [Publishers -> Saves]
    /\ query \in [Readers -> {Idle, [pc |-> "load"]} \cup [pc : {"ask"}, entity : Rows]
                             \cup [pc : {"fill", "answer"}, entity : Rows, deployedAt : Times]]
    /\ failures \in Nat

\* Once every event is handled, the row is less than one debounce interval
\* behind the catalog: coalescing loses no more than it is meant to.
RecordedWithinDebounce ==
    changes # {} /\ events = 0 /\ ~Writing
        => row # None /\ Max(changes) - row.lastChangedAt < Debounce

\* A channel shows "idle" for the publish that its row records only when a run
\* has succeeded at or after it, "not a stale/earlier one"
\* (deployment-tracker.service.ts:41-46), though queries and writes bring back
\* rows loaded before that publish, and cached answers come late.
DeployedSince(time) == \E i \in Succeeded : runs[i].updatedAt >= time
IdleWhenDeployed ==
    row # None /\ ~AwaitingCompletion(row) /\ row.lastPublishTriggeredAt # 0
        => DeployedSince(row.lastPublishTriggeredAt)

\* A triggered channel does not stay so, whatever requests fail, unless a run
\* fails: the status query finds the awaited deploy in the end.
SomeRunFailed == \E i \in DOMAIN runs : runs[i].status = "failure"
StatusClears == AwaitingCompletion(row) ~> ~AwaitingCompletion(row) \/ SomeRunFailed

=============================================================================
