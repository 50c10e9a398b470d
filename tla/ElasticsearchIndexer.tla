------------------------ MODULE ElasticsearchIndexer ------------------------
(***************************************************************************)
(* The search index of the Elasticsearch plugin: admin operations change   *)
(* products and queue indexing jobs, workers carry the jobs out. A job     *)
(* for a product deletes its documents and writes them again from the      *)
(* database; a reindex builds a new index page by page while the old one   *)
(* is served, then points the live alias at it and deletes the old one.    *)
(* The live name may also be that of an index without an alias, or of      *)
(* nothing: the shop starts without an index when it cannot create one.    *)
(*                                                                         *)
(* The documents of a product are one per channel (the code has one per    *)
(* variant, channel and language, always written and deleted together) and *)
(* hold the product's version, which every change moves on.                *)
(***************************************************************************)
EXTENDS Integers, Sequences, FiniteSets, Functions

CONSTANTS
    NProducts,       \* product ids are 1..NProducts, in the order of the pages
    Channels,
    Default,         \* the default channel: every product is in it
    Workers,
    ChunkSize,       \* reindexProductsChunkSize
    Starts,          \* what the live name may be at first: "alias", "index", "nothing"
    QuietDeletes,    \* is no product deleted while a reindex runs?
    OutsideRemovals, \* is a product removed from a channel in another channel?
    MaxChanges,      \* bound: changes of products
    MaxReindexes,    \* bound: reindex requests
    MaxFailures,     \* bound: failing calls of the search backend
    MaxCrashes       \* bound: crashes of a worker process

ASSUME ShopAssumption ==
    /\ NProducts \in Nat \ {0} /\ Default \in Channels /\ ChunkSize \in Nat \ {0}
    /\ Starts \subseteq {"alias", "index", "nothing"}
ASSUME SwitchAssumption == QuietDeletes \in BOOLEAN /\ OutsideRemovals \in BOOLEAN
ASSUME BoundAssumption ==
    /\ MaxChanges \in Nat /\ MaxReindexes \in Nat
    /\ MaxFailures \in Nat /\ MaxCrashes \in Nat

VARIABLES
    db,        \* the products
    queue,     \* waiting jobs of the update-search-index queue
    docs,      \* index -> product -> channel -> version, 0 for no document
    served,    \* the indices behind the live alias, {0} for an index of that name
    fresh,     \* the indices behind a reindex alias
    made,      \* indices created so far
    job,       \* what each worker does
    changes, reindexes, failures, crashes   \* bounded counters

vars == <<db, queue, docs, served, fresh, made, job, changes, reindexes, failures,
          crashes>>
indices == <<docs, served, fresh, made>>
admin == <<db, changes, reindexes>>
faults == <<failures, crashes>>

Products == 1 .. NProducts
NoRow == [live |-> FALSE, version |-> 0, channels |-> {}]
Idle == [pc |-> "idle", kind |-> "none", product |-> 0, ctx |-> Default,
         read |-> NoRow, index |-> 0, original |-> 0, skip |-> 0, todo |-> <<>>,
         full |-> FALSE]
NoDocs == [p \in Products |-> [c \in Channels |-> 0]]

Created(p) == db[p].version > 0
Live(p) == db[p].live

\* The documents the database asks for.
Wanted(p) ==
    [c \in Channels |-> IF Live(p) /\ c \in db[p].channels THEN db[p].version ELSE 0]

\* A shop with the first k products in the default channel, indexed if there is an
\* index: createIndicesIfNotExists makes one with an alias where the live name has
\* none, and when that fails the shop starts without.
Init ==
    \E k \in 0 .. NProducts, start \in Starts :
        /\ db = [p \in Products |->
                    IF p <= k THEN [live |-> TRUE, version |-> 1, channels |-> {Default}]
                    ELSE NoRow]
        /\ served = IF start = "alias" THEN {1} ELSE IF start = "index" THEN {0} ELSE {}
        /\ docs = [i \in served |-> [p \in Products |-> [c \in Channels |->
                    IF p <= k /\ c = Default THEN 1 ELSE 0]]]
        /\ queue = <<>>
        /\ fresh = {}
        /\ made = 1
        /\ job = [w \in Workers |-> Idle]
        /\ changes = 0 /\ reindexes = 0 /\ failures = 0 /\ crashes = 0

Busy == {w \in Workers : job[w].pc # "idle"}
Reindexing == {w \in Busy : job[w].kind = "reindex"}

-----------------------------------------------------------------------------
\* Admin operations: the event of each adds a job with the request's channel.

ProductJob(kind, p, ctx) == [kind |-> kind, product |-> p, ctx |-> ctx]
ReindexJob == [kind |-> "reindex", product |-> 0, ctx |-> Default]

Change(p, row, kind, ctx) ==
    /\ changes < MaxChanges
    /\ changes' = changes + 1
    /\ db' = [db EXCEPT ![p] = [row EXCEPT !.version = @ + 1]]
    /\ queue' = Append(queue, ProductJob(kind, p, ctx))
    /\ UNCHANGED <<indices, job, reindexes, faults>>

CreateProduct(p, ctx) ==
    /\ ~Created(p)
    /\ \A q \in 1 .. p - 1 : Created(q)
    /\ Change(p, [db[p] EXCEPT !.live = TRUE, !.channels = {Default, ctx}], "update", ctx)

\* Edits of the product or a variant, stock movements, collection changes.
UpdateProduct(p, ctx) ==
    /\ Live(p)
    /\ Change(p, db[p], "update", ctx)

AssignProductToChannel(p, c, ctx) ==
    /\ Live(p)
    /\ ctx \in db[p].channels
    /\ c \notin db[p].channels
    /\ Change(p, [db[p] EXCEPT !.channels = @ \cup {c}], "update", ctx)

RemoveProductFromChannel(p, c, ctx) ==
    /\ Live(p)
    /\ ctx \in db[p].channels
    /\ c \in db[p].channels \ {Default}
    /\ OutsideRemovals => ctx # c
    /\ Change(p, [db[p] EXCEPT !.channels = @ \ {c}], "update", ctx)

\* A soft delete: the row keeps its channels.
DeleteProduct(p, ctx) ==
    /\ Live(p)
    /\ ctx \in db[p].channels
    /\ QuietDeletes => Reindexing = {}
    /\ Change(p, [db[p] EXCEPT !.live = FALSE], "delete", ctx)

RequestReindex ==
    /\ reindexes < MaxReindexes
    /\ reindexes' = reindexes + 1
    /\ queue' = Append(queue, ReindexJob)
    /\ UNCHANGED <<db, indices, job, changes, faults>>

Admin ==
    \/ RequestReindex
    \/ \E p \in Products, ctx \in Channels :
           \/ CreateProduct(p, ctx) \/ UpdateProduct(p, ctx) \/ DeleteProduct(p, ctx)
           \/ \E c \in Channels :
                  AssignProductToChannel(p, c, ctx) \/ RemoveProductFromChannel(p, c, ctx)

-----------------------------------------------------------------------------
\* The search backend.

Fail == failures < MaxFailures /\ failures' = failures + 1

\* The live name is written to when it is one index.
WriteTarget(j) ==
    IF j.kind = "reindex" THEN {j.index} \cap DOMAIN docs
    ELSE IF Cardinality(served) = 1 THEN served ELSE {}

\* A bulk request that makes the product's documents content; an error of the
\* request or of the backend is logged and forgotten.
Bulk(j, content) ==
    \/ /\ docs' = [i \in DOMAIN docs |->
                     IF i \in WriteTarget(j) THEN [docs[i] EXCEPT ![j.product] = content[i]]
                     ELSE docs[i]]
       /\ UNCHANGED failures
    \/ Fail /\ UNCHANGED docs

\* A document for a name that nothing has: the backend may make an index of it.
MakesIndex(j) ==
    /\ served = {} /\ j.kind # "reindex"
    /\ served' = {0}
    /\ docs' = [i \in DOMAIN docs \cup {0} |->
                  IF i # 0 THEN docs[i]
                  ELSE [NoDocs EXCEPT ![j.product] =
                           [c \in Channels |-> IF c \in j.read.channels THEN j.read.version
                                              ELSE 0]]]
    /\ UNCHANGED failures

DeleteIndex(i) ==
    /\ docs' = Restrict(docs, DOMAIN docs \ {i})
    /\ served' = served \ {i}
    /\ fresh' = fresh \ {i}

-----------------------------------------------------------------------------
\* ElasticsearchIndexerController. To(w, j) is a worker's next state.

To(w, j) == job' = [job EXCEPT ![w] = j]

\* What follows when a product of the job is done.
AfterProduct(j) ==
    IF j.kind # "reindex" THEN Idle
    ELSE IF j.todo # <<>> THEN
        [j EXCEPT !.pc = "load", !.product = Head(j.todo), !.todo = Tail(@)]
    ELSE [j EXCEPT !.pc = IF j.full THEN "page" ELSE "resolve"]

Take(w) ==
    /\ job[w].pc = "idle"
    /\ queue # <<>>
    /\ queue' = Tail(queue)
    /\ LET next == Head(queue)
       IN  To(w, [Idle EXCEPT !.pc = IF next.kind = "reindex" THEN "create" ELSE "find",
                              !.kind = next.kind, !.product = next.product,
                              !.ctx = next.ctx])
    /\ UNCHANGED <<admin, indices, faults>>

\* deleteProductOperations looks the product up in the channel of the job's
\* context, deleted or not; when it is not there nothing is deleted.
AfterErase(j) == IF j.kind = "delete" THEN Idle ELSE [j EXCEPT !.pc = "load"]

Find(w) ==
    /\ job[w].pc = "find"
    /\ To(w, IF job[w].ctx \in db[job[w].product].channels
             THEN [job[w] EXCEPT !.pc = "erase"] ELSE AfterErase(job[w]))
    /\ UNCHANGED <<admin, queue, indices, faults>>

\* Mutant: only the documents of the job's own channel are deleted.
EraseOwnChannel(w) ==
    /\ job[w].pc = "erase"
    /\ Bulk(job[w], [i \in DOMAIN docs |->
                        [docs[i][job[w].product] EXCEPT ![job[w].ctx] = 0]])
    /\ To(w, AfterErase(job[w]))
    /\ UNCHANGED <<admin, queue, served, fresh, made, crashes>>

\* The documents are deleted in all channels.
Erase(w) ==
    /\ job[w].pc = "erase"
    /\ Bulk(job[w], [i \in DOMAIN docs |-> [c \in Channels |-> 0]])
    /\ To(w, AfterErase(job[w]))
    /\ UNCHANGED <<admin, queue, served, fresh, made, crashes>>

\* Mutant: a product that is gone is written too.
LoadDeleted(w) ==
    /\ job[w].pc = "load"
    /\ To(w, [job[w] EXCEPT !.pc = "write", !.read = db[job[w].product]])
    /\ UNCHANGED <<admin, queue, indices, faults>>

\* updateProductsOperationsOnly reads the product, which may be gone.
Load(w) ==
    /\ job[w].pc = "load"
    /\ LET p == job[w].product
       IN  To(w, IF Live(p) THEN [job[w] EXCEPT !.pc = "write", !.read = db[p]]
                 ELSE AfterProduct(job[w]))
    /\ UNCHANGED <<admin, queue, indices, faults>>

\* It upserts a document in each channel of the product it read and leaves the
\* documents of other channels alone.
Write(w) ==
    /\ job[w].pc = "write"
    /\ \/ /\ Bulk(job[w], [i \in DOMAIN docs |-> [c \in Channels |->
                              IF c \in job[w].read.channels THEN job[w].read.version
                              ELSE docs[i][job[w].product][c]]])
          /\ UNCHANGED served
       \/ MakesIndex(job[w])
    /\ To(w, AfterProduct([job[w] EXCEPT !.read = NoRow]))
    /\ UNCHANGED <<admin, queue, fresh, made, crashes>>

-----------------------------------------------------------------------------
\* reindex.

\* createIndices with a reindex alias. An error ends the job.
CreateIndex(w) ==
    /\ job[w].pc = "create"
    /\ \/ /\ made' = made + 1
          /\ docs' = [i \in DOMAIN docs \cup {made + 1} |->
                        IF i = made + 1 THEN NoDocs ELSE docs[i]]
          /\ fresh' = fresh \cup {made + 1}
          /\ To(w, [job[w] EXCEPT !.pc = "page", !.index = made + 1])
          /\ UNCHANGED failures
       \/ Fail /\ To(w, Idle) /\ UNCHANGED <<made, docs, fresh>>
    /\ UNCHANGED <<admin, queue, served, crashes>>

\* The rows of the query are the products that are not deleted.
RowNumber(p) == Cardinality({q \in 1 .. p : Live(q)})
ProductAt(n) == CHOOSE p \in Products : Live(p) /\ RowNumber(p) = n

\* Rows skip + 1 .. skip + ChunkSize, as far as there are any.
PageLength(skip) ==
    IF skip + ChunkSize < RowNumber(NProducts) THEN ChunkSize ELSE RowNumber(NProducts) - skip
LivePage(skip) == [k \in 1 .. PageLength(skip) |-> ProductAt(skip + k)]

\* Mutant: the row after each page is skipped.
PageSkipsOne(w) ==
    /\ job[w].pc = "page"
    /\ LET page == LivePage(job[w].skip)
       IN  To(w, AfterProduct([job[w] EXCEPT !.todo = page, !.skip = @ + ChunkSize + 1,
                                             !.full = Len(page) >= ChunkSize]))
    /\ UNCHANGED <<admin, queue, indices, faults>>

Page(w) ==
    /\ job[w].pc = "page"
    /\ LET page == LivePage(job[w].skip)
       IN  To(w, AfterProduct([job[w] EXCEPT !.todo = page, !.skip = @ + ChunkSize,
                                             !.full = Len(page) >= ChunkSize]))
    /\ UNCHANGED <<admin, queue, indices, faults>>

\* switchAlias finds out what the live name is: getIndexNameByAlias takes the first
\* index behind the alias, an index of that name is to be replaced, and there may
\* be neither.
Resolve(w) ==
    /\ job[w].pc = "resolve"
    /\ \/ \E original \in served \ {0} :
              To(w, [job[w] EXCEPT !.pc = "swap", !.original = original])
       \/ served = {0} /\ To(w, [job[w] EXCEPT !.pc = "replace"])
       \/ served = {} /\ To(w, [job[w] EXCEPT !.pc = "swap"])
    /\ UNCHANGED <<admin, queue, indices, faults>>

\* The index with the live name is deleted before the name can be an alias. The
\* backend refuses when another reindex has deleted it, or made the name an alias.
Replace(w) ==
    /\ job[w].pc = "replace"
    /\ \/ /\ 0 \in served
          /\ DeleteIndex(0)
          /\ To(w, [job[w] EXCEPT !.pc = "swap"])
          /\ UNCHANGED failures
       \/ /\ IF 0 \in served THEN Fail ELSE UNCHANGED failures
          /\ To(w, [job[w] EXCEPT !.pc = "cleanup"])
          /\ UNCHANGED <<docs, served, fresh>>
    /\ UNCHANGED <<admin, queue, made, crashes>>

\* updateAliases moves the live alias in one request. It fails when the original
\* index is gone or the live name is an index's; when the original has lost the
\* alias the backend may refuse or not. next is what follows a failure, and taken
\* lose their reindex alias.
SwapOr(w, next, taken) ==
    /\ job[w].pc = "swap"
    /\ LET j == job[w]
       IN  \/ /\ 0 \notin served
              /\ j.original \in DOMAIN docs \cup {0}
              /\ served' = (served \ {j.original}) \cup {j.index}
              /\ fresh' = fresh \ taken
              /\ To(w, [j EXCEPT !.pc = IF j.original = 0 THEN "cleanup" ELSE "drop"])
              /\ UNCHANGED failures
           \/ /\ IF 0 \notin served /\ j.original \in served \cup {0}
                 THEN Fail ELSE UNCHANGED failures
              /\ To(w, next)
              /\ UNCHANGED <<served, fresh>>
    /\ UNCHANGED <<admin, queue, docs, made, crashes>>

\* Mutant: a failed swap ends the job.
SwapWithoutCleanup(w) == SwapOr(w, Idle, {job[w].index})

\* Mutant: the new index keeps its reindex alias.
SwapKeepsReindexAlias(w) == SwapOr(w, [job[w] EXCEPT !.pc = "cleanup"], {})

Swap(w) == SwapOr(w, [job[w] EXCEPT !.pc = "cleanup"], {job[w].index})

\* The original index is deleted; an error is logged.
DropOriginal(w) ==
    /\ job[w].pc = "drop"
    /\ To(w, [job[w] EXCEPT !.pc = "cleanup"])
    /\ \/ DeleteIndex(job[w].original) /\ UNCHANGED failures
       \/ Fail /\ UNCHANGED <<docs, served, fresh>>
    /\ UNCHANGED <<admin, queue, made, crashes>>

\* Mutant: the new index is deleted whether or not it went live.
CleanupAlways(w) ==
    /\ job[w].pc = "cleanup"
    /\ To(w, Idle)
    /\ DeleteIndex(job[w].index)
    /\ UNCHANGED <<admin, queue, made, faults>>

\* finally: while it has its reindex alias, the new index is deleted.
Cleanup(w) ==
    /\ job[w].pc = "cleanup"
    /\ To(w, Idle)
    /\ \/ /\ job[w].index \in fresh
          /\ DeleteIndex(job[w].index)
          /\ UNCHANGED failures
       \/ /\ IF job[w].index \in fresh THEN Fail ELSE UNCHANGED failures
          /\ UNCHANGED <<docs, served, fresh>>
    /\ UNCHANGED <<admin, queue, made, crashes>>

Step(w) ==
    \/ Take(w) \/ Find(w) \/ Erase(w) \/ Load(w) \/ Write(w)
    \/ CreateIndex(w) \/ Page(w) \/ Resolve(w) \/ Replace(w) \/ Swap(w)
    \/ DropOriginal(w) \/ Cleanup(w)

\* The process of a worker dies; nobody takes its job up again.
Crash(w) ==
    /\ w \in Busy
    /\ crashes < MaxCrashes
    /\ crashes' = crashes + 1
    /\ To(w, Idle)
    /\ UNCHANGED <<admin, queue, indices, failures>>

Next == Admin \/ \E w \in Workers : Step(w) \/ Crash(w)

Spec == Init /\ [][Next]_vars

\* The workers poll the queue for ever.
FairSpec == Spec /\ \A w \in Workers : WF_vars(Step(w))

-----------------------------------------------------------------------------
Versions == 0 .. MaxChanges + 1

Rows == [live: BOOLEAN, version: Versions, channels: SUBSET Channels]
Jobs == [pc: {"idle", "find", "erase", "load", "write", "create", "page", "resolve",
              "replace", "swap", "drop", "cleanup"},
         kind: {"none", "update", "delete", "reindex"},
         product: Products \cup {0}, ctx: Channels, read: Rows, index: 0 .. made,
         original: 0 .. made, skip: Nat, todo: Seq(Products), full: BOOLEAN]

\* The state is well formed: the aliases are on indices that exist, and a worker
\* only writes what it has read.
TypeOK ==
    /\ db \in [Products -> Rows]
    /\ queue \in Seq([kind: {"update", "delete"}, product: Products, ctx: Channels]
                       \cup {ReindexJob})
    /\ made \in 1 .. MaxReindexes + 1
    /\ DOMAIN docs \subseteq 0 .. made
    /\ \A i \in DOMAIN docs : docs[i] \in [Products -> [Channels -> Versions]]
    /\ served \subseteq DOMAIN docs
    /\ fresh \subseteq DOMAIN docs \ served
    /\ job \in [Workers -> Jobs]
    /\ \A w \in Workers : job[w].pc = "write" => job[w].read.live

Pending(p) ==
    \/ \E i \in 1 .. Len(queue) : queue[i].kind # "reindex" /\ queue[i].product = p
    \/ \E w \in Busy \ Reindexing : job[w].product = p

\* Searches find what the shop sells: whatever the served index says of a product
\* is what the database says, unless a job for the product waits or runs. So a
\* reindex never takes a half-built index or an older version live.
CurrentUnlessPending ==
    \A p \in Products : ~Pending(p) => \A i \in served : docs[i][p] = Wanted(p)

\* An alias stays served: once the live name is an alias there is an index behind
\* it for good, however reindexes overlap, whichever of their calls fail and wherever
\* a worker dies. Nothing is served only before the first reindex, and where an index
\* of that name was deleted and the alias could not be made.
Aliased == served # {} /\ 0 \notin served

AliasStays == [][Aliased => Aliased']_vars

\* Why: an index is in one worker's hands until it goes live, and the index that a
\* worker is about to delete for having lost the alias cannot become live.
Owner(w) == job[w].kind = "reindex" /\ job[w].pc # "create"
Building(w) == Owner(w) /\ job[w].pc \notin {"drop", "cleanup"}

SwitchInv ==
    /\ 0 \notin fresh /\ (0 \in served => served = {0})
    /\ fresh \cap served = {}
    /\ \A i \in fresh \cup served : i <= made
    /\ \A w \in Workers : Owner(w) => job[w].index <= made
    /\ \A w \in Workers : Building(w) => job[w].index \in fresh
    /\ \A v, w \in Workers : Owner(v) /\ Owner(w) /\ v # w => job[v].index # job[w].index
    /\ \A w \in Workers : job[w].pc = "swap" =>
          job[w].original <= made /\ job[w].original \notin fresh
    /\ \A w \in Workers : job[w].pc = "drop" =>
          /\ job[w].original <= made /\ job[w].original # 0
          /\ job[w].original \notin fresh \cup served

\* Every index is the served one, or a running reindex will switch to it or
\* delete it; overlapping reindexes leave nothing behind.
NoStrayIndices ==
    failures = 0 /\ crashes = 0 =>
        \A i \in DOMAIN docs \ served :
            \E w \in Reindexing : job[w].pc # "create" /\
                (job[w].index = i \/ (job[w].pc = "drop" /\ job[w].original = i))

\* When the admins stop, the index becomes what the database says, in one index,
\* and stays so.
EventuallyCurrent ==
    <>[](\E i \in DOMAIN docs : served = {i} /\ docs[i] = [p \in Products |-> Wanted(p)])
=============================================================================
