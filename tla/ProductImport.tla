---------------------------- MODULE ProductImport ----------------------------
(* The import of a CSV file (vendure-product-import): a file is validated    *)
(* and kept under a token, the token is committed, and a job writes the rows. *)
(* Rows stand for one variant each; of a row the model keeps the product's    *)
(* name, given on the first row of a product, and whether it is valid.        *)
EXTENDS Catalog, PubSubJobQueue, SequencesExt

CONSTANTS
    Uploads,      \* validated files, known by their tokens
    FileOf,       \* the rows of an uploaded file
    NoName,       \* the name left blank on the further rows of a product
    Requests      \* commit requests

ASSUME ImportAssumption ==
    /\ DOMAIN FileOf = Uploads
    /\ \A u \in Uploads : DOMAIN FileOf[u] = 1 .. Len(FileOf[u]) /\ Len(FileOf[u]) \in Nat
    /\ Workers \subseteq Processes

VARIABLES
    pending,      \* of each file: whether the server still holds its rows
    request,      \* the commit requests
    order,        \* of each job: the file and whether invalid rows are skipped
    retried       \* history: files of which two commits overlapped, or one failed
                  \* after it had queued its job

importVars == <<pending, request, order, retried>>

NoOrder == [upload |-> "none"]
Idle == [state |-> "idle"]

ImportInit ==
    /\ pending = [u \in Uploads |-> "none"]
    /\ request = [r \in Requests |-> Idle]
    /\ order = [j \in Jobs |-> NoOrder]
    /\ retried = {}

-----------------------------------------------------------------------------
(* The rows of a job. *)

Named(u, i) == FileOf[u][i].name # NoName

Invalid(u) == {i \in DOMAIN FileOf[u] : ~FileOf[u][i].valid}

\* The numbers of the rows to import.
RowsToImport(u, skip) ==
    FoldLeft(LAMBDA rows, i : IF skip /\ i \in Invalid(u) THEN rows ELSE Append(rows, i),
             <<>>, [i \in DOMAIN FileOf[u] |-> i])

\* Mutant: only the first row begins a group.
GroupAll(u, rows) == IF rows = <<>> THEN <<>> ELSE <<rows>>

\* groupByProduct: a named row, or the first, begins a group.
GroupByProduct(u, rows) ==
    FoldLeft(LAMBDA groups, i :
                 IF groups = <<>> \/ Named(u, i)
                 THEN Append(groups, <<i>>)
                 ELSE [groups EXCEPT ![Len(groups)] = Append(@, i)],
             <<>>, rows)

RowsOf == [u \in Uploads |-> [skip \in BOOLEAN |-> RowsToImport(u, skip)]]

GroupsOf == [u \in Uploads |-> [skip \in BOOLEAN |-> GroupByProduct(u, RowsOf[u][skip])]]

Rows(j) == RowsOf[order[j].upload][order[j].skip]

Groups(j) == GroupsOf[order[j].upload][order[j].skip]

-----------------------------------------------------------------------------
(* The server (product-import.controller.ts, import-commit-queue.service.ts). *)

\* validate: the rows are kept; files whose time has come are dropped.
Validate(u) ==
    /\ pending[u] = "none"
    /\ \E expired \in SUBSET {v \in Uploads : pending[v] = "pending"} :
          pending' = [v \in Uploads |-> IF v = u THEN "pending"
                                        ELSE IF v \in expired THEN "gone" ELSE pending[v]]
    /\ UNCHANGED <<request, order, retried, catalogVars, queueVars>>

\* The files that another commit is under way for.
Committing == {request[q].upload : q \in {p \in Requests : request[p] # Idle}}

\* commit, up to the call that queues the job.
Commit(r, u, skip) ==
    /\ request[r] = Idle
    /\ pending[u] = "pending"
    /\ Invalid(u) = {} \/ skip
    /\ retried' = retried \cup ({u} \cap Committing)
    /\ request' = [request EXCEPT ![r] = [state |-> "queueing", upload |-> u, skip |-> skip]]
    /\ UNCHANGED <<pending, order, catalogVars, queueVars>>

\* Mutant: the whole request becomes the data of the job.
QueueRequest(r, j) ==
    /\ request[r].state = "queueing"
    /\ order[j] = NoOrder /\ \A i \in Jobs : i < j => order[i] # NoOrder
    /\ Add(j)
    /\ order' = [order EXCEPT ![j] = request[r]]
    /\ request' = [request EXCEPT ![r].state = "queued"]
    /\ UNCHANGED <<pending, retried, catalogVars>>

\* The job is published under a new identity.
Queue(r, j) ==
    /\ request[r].state = "queueing"
    /\ order[j] = NoOrder /\ \A i \in Jobs : i < j => order[i] # NoOrder
    /\ Add(j)
    /\ order' = [order EXCEPT ![j] = [upload |-> request[r].upload, skip |-> request[r].skip]]
    /\ request' = [request EXCEPT ![r].state = "queued"]
    /\ UNCHANGED <<pending, retried, catalogVars>>

\* The job cannot be published, or the request fails after that.
CommitFails(r) ==
    /\ \/ request[r].state = "queueing" /\ UNCHANGED retried
       \/ request[r].state = "queued" /\ retried' = retried \cup {request[r].upload}
    /\ Fault
    /\ request' = [request EXCEPT ![r] = Idle]
    /\ UNCHANGED <<pending, order, catalogVars, message, client, handling>>

\* Mutant: the token outlives its commit.
AnswerKeepsToken(r) ==
    /\ request[r].state = "queued"
    /\ request' = [request EXCEPT ![r] = Idle]
    /\ UNCHANGED <<pending, order, retried, catalogVars, queueVars>>

\* The token is dropped and the job's id answered.
Answer(r) ==
    /\ request[r].state = "queued"
    /\ pending' = [pending EXCEPT ![request[r].upload] = "gone"]
    /\ request' = [request EXCEPT ![r] = Idle]
    /\ UNCHANGED <<order, retried, catalogVars, queueVars>>

-----------------------------------------------------------------------------
(* The writer (import-writer.service.ts).  No transaction spans a job: each   *)
(* product and each variant is committed by itself.                           *)

ProductKey(run, g) == <<run[1], run[2], g>>

\* Each delivery of a job may write all products of its file.
ASSUME KeysAssumption ==
    \A u \in Uploads, skip \in BOOLEAN :
        Invalid(u) = {} \/ skip =>
            \A run \in Runs : \A g \in DOMAIN GroupsOf[u][skip] : ProductKey(run, g) \in Keys

Variants(run, g) == catalog[ProductKey(run, g)].variants

\* The group that a run has come to; 0 before the first product.
Position(run) == Cardinality({g \in DOMAIN Groups(run[1]) : Exists(ProductKey(run, g))})

GroupDone(run, g) == g > 0 => Variants(run, g) = Groups(run[1])[g]

Finished(run) == Position(run) = Len(Groups(run[1])) /\ GroupDone(run, Position(run))

\* The product of the next group; a row without a name cannot be one.
CreateProduct(w, run) ==
    LET g == Position(run) + 1 IN
    /\ run \in handling[w]
    /\ ~Finished(run) /\ GroupDone(run, Position(run))
    /\ Named(order[run[1]].upload, Groups(run[1])[g][1])
    /\ catalog' = [catalog EXCEPT ![ProductKey(run, g)] = NewProduct]
    /\ Publish(w, "product", ProductKey(run, g))
    /\ UNCHANGED <<rate, edits, importVars, queueVars>>

\* The next variant of the product at hand.
CreateVariant(w, run) ==
    LET g == Position(run) IN
    /\ run \in handling[w]
    /\ g > 0 /\ ~GroupDone(run, g)
    /\ catalog' = [catalog EXCEPT ![ProductKey(run, g)].variants =
                      Append(@, Groups(run[1])[g][Len(@) + 1])]
    /\ Publish(w, "variant", ProductKey(run, g))
    /\ UNCHANGED <<rate, edits, importVars, queueVars>>

JobDone(w, run) ==
    /\ run \in handling[w]
    /\ Finished(run)
    /\ Acknowledge(w, run)
    /\ UNCHANGED <<faults, catalogVars, importVars>>

\* Any call of the writer may throw; what is written stays.
JobFails(w, run) ==
    /\ run \in handling[w]
    /\ ~Finished(run)
    /\ Refuse(w, run)
    /\ UNCHANGED <<catalogVars, importVars>>

-----------------------------------------------------------------------------

Writer(w) ==
    \E run \in handling[w] : CreateProduct(w, run) \/ CreateVariant(w, run) \/ JobDone(w, run)

ImportServer(r) == (\E j \in Jobs : Queue(r, j)) \/ Answer(r)

ImportType ==
    /\ pending \in [Uploads -> {"none", "pending", "gone"}]
    /\ \A r \in Requests : request[r] = Idle \/
          request[r] \in [state : {"queueing", "queued"}, upload : Uploads, skip : BOOLEAN]
    /\ \A j \in Jobs : order[j] = NoOrder \/ order[j] \in [upload : Uploads, skip : BOOLEAN]
    /\ retried \subseteq Uploads

=============================================================================
