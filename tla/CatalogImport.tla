---------------------------- MODULE CatalogImport ----------------------------
(* The import of products on a Pub/Sub queue, in a shop behind the Stellate  *)
(* CDN: the job writes product by product in a worker process, the buffers    *)
(* of that process purge what the CDN shows of them, and administrators and   *)
(* shoppers act meanwhile.  A death of the worker takes the job's progress    *)
(* and the buffers; the queue delivers the job again.                         *)
EXTENDS ProductImport, StellateCache

vars == <<catalogVars, queueVars, importVars, stellateVars>>

Init == CatalogInit /\ QueueInit /\ ImportInit /\ StellateInit

\* The end of a worker's process, with what its memory held.
WorkerExit(w) == Exit(w) /\ BufferLost(w) /\ UNCHANGED importVars

Queueing(A) == A /\ UNCHANGED <<catalogVars, importVars, stellateVars>>

Importing(A) == A /\ UNCHANGED stellateVars

Purging(A) == A /\ UNCHANGED <<queueVars, importVars>>

PurgeLost ==
    /\ Fault
    /\ \E purge \in purging : PurgeFails(purge)
    /\ UNCHANGED <<message, client, handling, importVars>>

Next ==
    \/ \E u \in Uploads : Importing(Validate(u))
    \/ \E r \in Requests, u \in Uploads, skip \in BOOLEAN : Importing(Commit(r, u, skip))
    \/ \E r \in Requests : Importing(ImportServer(r)) \/ Importing(CommitFails(r))
    \/ \E w \in Workers :
          \/ Queueing(Consumer(w))
          \/ Importing(Writer(w))
          \/ \E run \in handling[w] : Importing(JobFails(w, run))
          \/ WorkerExit(w)
    \/ \E j \in Jobs : Queueing(LeaseExpires(j))
    \/ Administrator /\ UNCHANGED <<queueVars, importVars, stellateVars>>
    \/ Purging(Shopper) \/ Purging(Stellate)
    \/ PurgeLost

Spec == Init /\ [][Next]_vars

\* Node and the operator start a worker; Pub/Sub hands over what waits; the writer and
\* the server go on with what they have begun.
Fairness ==
    /\ \A w \in Workers :
          /\ WF_vars(Queueing(Start(w)) \/ Queueing(Initialize(w)))
          /\ WF_vars(client[w] = "stopped" /\ WorkerExit(w))
          /\ \A j \in Jobs : WF_vars(Queueing(Receive(w, j)))
          /\ WF_vars(Importing(Writer(w)))

FairSpec == Spec /\ Fairness

-----------------------------------------------------------------------------

\* Every variable holds what the code can put there.
TypeOK == QueueType /\ ImportType /\ StellateType /\ edits \in 0 .. MaxEdits

\* The row that names the product of a row, in the file or among its valid rows: the last one
\* with a name, up to the row itself.
LastOf(rows) == CHOOSE k \in rows : \A n \in rows : n <= k
ListedUnder(u, i) == LastOf({k \in 1 .. i : Named(u, k)})
NamingRow(u, i) == LastOf({k \in 1 .. i : Named(u, k) /\ k \notin Invalid(u)})

\* The rows of a product share the fate of the row that names it.
ProductsAreWhole(u) == \A i \in DOMAIN FileOf[u] :
                          ListedUnder(u, i) \in Invalid(u) => i \in Invalid(u)

\* An invalid row is never written, and every variant is part of the product that the last
\* valid row with a name began, for every file, whatever rows were skipped, how often the
\* job was delivered and how many runs of it overlap (validate, the filter of commit,
\* groupByProduct).  That is the product that the file lists it under when products are
\* whole; a valid row of a product whose first row was skipped goes to the product before.
VariantsOfTheirProduct ==
    \A k \in Keys : Exists(k) =>
        LET u == order[k[1]].upload
            rows == Range(catalog[k].variants)
        IN  /\ rows \cap Invalid(u) = {}
            /\ \A i, n \in rows : NamingRow(u, i) = NamingRow(u, n)

\* Each row that a job was to import is a variant of a product of one run of it.
Imported(j) ==
    \E d \in Deliveries : \A i \in Range(Rows(j)) :
        \E k \in Keys : k[1] = j /\ k[2] = d /\ Exists(k) /\ i \in Range(catalog[k].variants)

\* Pub/Sub forgets a job only when one of its runs has written every row: failures, deaths
\* of the worker, expired leases and late acknowledgements leave it to be delivered again
\* (the listener's ack and nack).
DoneMeansImported == \A j \in Jobs : message[j].state = "acknowledged" => Imported(j)

\* A file is queued twice only if two of its commits overlapped, both having found the token
\* before either dropped it, or one failed after it had queued: neither an answered commit
\* nor one that could not queue lets another job of the file be made (commit).
CommittedOnce ==
    \A j, k \in Jobs :
        j # k /\ order[j] # NoOrder /\ order[k] # NoOrder /\ order[j].upload = order[k].upload
            => order[j].upload \in retried

\* Whatever the CDN shows that is no longer true is about to be purged, by an event in a
\* buffer or a request under way, except for what a dead process or a failed request
\* dropped: also while a job writes a product variant by variant (the default purge rules).
StaleMeansPending ==
    cached # Nothing /\ cached # Current => Awaited(Processes) \/ purging # {} \/ dropped

\* A queued job comes to be imported completely although runs of it fail and workers are
\* shut down and started again, before or after the strategy is initialised.
QueuedIsImported == \A j \in Jobs : order[j] # NoOrder ~> order[j] # NoOrder /\ Imported(j)

=============================================================================
