--------------------------- MODULE PubSubJobQueue ---------------------------
(* A queue of jobs kept in Google Cloud Pub/Sub                            *)
(* (pub-sub-job-queue-strategy.ts).  A job is a message of a topic; worker   *)
(* processes receive it from a subscription, which delivers at least once:   *)
(* a message is delivered again when its handler failed, when the process    *)
(* died with it, or when its lease ran out while it was still handled.       *)
EXTENDS Naturals, FiniteSets

CONSTANTS
    Jobs,         \* identities of messages
    Workers,      \* processes that start the queue
    Concurrency,  \* PubSubOptions.concurrency: messages handled at a time
    MaxFaults     \* bound: failures, deaths, shutdowns and expired leases

ASSUME QueueAssumption ==
    /\ Concurrency \in Nat \ {0}
    /\ MaxFaults \in Nat

VARIABLES
    message,      \* of each job: where its message is, how often it was delivered
    client,       \* of each worker: how far its queue has come
    handling,     \* of each worker: the deliveries it is handling
    faults        \* faults so far

queueVars == <<message, client, handling, faults>>

\* A delivery of a job is handled once; every further one is owed to a fault.
Deliveries == 1 .. MaxFaults + 1
Runs == Jobs \X Deliveries

Fault == faults < MaxFaults /\ faults' = faults + 1

QueueInit ==
    /\ message = [j \in Jobs |-> [state |-> "unsent", delivered |-> 0]]
    /\ client = [w \in Workers |-> "new"]
    /\ handling = [w \in Workers |-> {}]
    /\ faults = 0

\* add: the data of the job is published; options such as the number of retries
\* are not part of the message.
Add(j) ==
    /\ message[j].state = "unsent"
    /\ message' = [message EXCEPT ![j].state = "waiting"]
    /\ UNCHANGED <<client, handling, faults>>

\* Mutant: a start before the strategy is initialised is forgotten.
StartForgotten(w) ==
    /\ client[w] \in {"new", "ready"}
    /\ client' = [client EXCEPT ![w] = IF @ = "new" THEN "stopped" ELSE "listening"]
    /\ UNCHANGED <<message, handling, faults>>

\* start: before init it is remembered, afterwards the subscription gets its listener.
Start(w) ==
    /\ client[w] \in {"new", "ready"}
    /\ client' = [client EXCEPT ![w] = IF @ = "new" THEN "deferred" ELSE "listening"]
    /\ UNCHANGED <<message, handling, faults>>

\* init: starts the queues that were started before.
Initialize(w) ==
    /\ client[w] \in {"new", "deferred"}
    /\ client' = [client EXCEPT ![w] = IF @ = "new" THEN "ready" ELSE "listening"]
    /\ UNCHANGED <<message, handling, faults>>

\* stop and destroy at the shutdown of the process take the listener away; what it
\* has received already goes on.
Stop(w) ==
    /\ client[w] = "listening"
    /\ Fault
    /\ client' = [client EXCEPT ![w] = "stopped"]
    /\ UNCHANGED <<message, handling>>

\* The deliveries whose lease is still the message's last one.
Leased(runs) == {r \in runs : message[r[1]] = [state |-> "leased", delivered |-> r[2]]}

\* Of a message whose handler is gone the lease runs out.
Returned(runs) ==
    [j \in Jobs |-> IF \E r \in Leased(runs) : r[1] = j
                    THEN [message[j] EXCEPT !.state = "waiting"] ELSE message[j]]

\* The end of the process, after a shutdown or by accident; the operator starts another.
Exit(w) ==
    /\ client[w] # "new"
    /\ \/ client[w] = "stopped" /\ UNCHANGED faults
       \/ client[w] # "stopped" /\ Fault
    /\ client' = [client EXCEPT ![w] = "new"]
    /\ handling' = [handling EXCEPT ![w] = {}]
    /\ message' = Returned(handling[w])

Receive(w, j) ==
    /\ client[w] = "listening"
    /\ Cardinality(handling[w]) < Concurrency
    /\ message[j].state = "waiting"
    /\ message' = [message EXCEPT ![j] = [state |-> "leased", delivered |-> @.delivered + 1]]
    /\ handling' = [handling EXCEPT ![w] = @ \cup {<<j, message[j].delivered + 1>>}]
    /\ UNCHANGED <<client, faults>>

\* The lease of a message runs out while it is handled.
LeaseExpires(j) ==
    /\ message[j].state = "leased"
    /\ Fault
    /\ message' = [message EXCEPT ![j].state = "waiting"]
    /\ UNCHANGED <<client, handling>>

\* The listener acknowledges when the handler has ended.  The acknowledgement of an
\* older delivery may be too late to count.
Acknowledge(w, r) ==
    /\ handling' = [handling EXCEPT ![w] = @ \ {r}]
    /\ \/ message' = [message EXCEPT ![r[1]].state = "acknowledged"]
       \/ Leased({r}) = {} /\ UNCHANGED message
    /\ UNCHANGED client

\* Mutant: the listener acknowledges a message whose handler failed.
RefuseAcknowledges(w, r) == Fault /\ Acknowledge(w, r)

\* The listener gives a message back when the handler has failed.
Refuse(w, r) ==
    /\ Fault
    /\ handling' = [handling EXCEPT ![w] = @ \ {r}]
    /\ message' = Returned({r})
    /\ UNCHANGED client

Consumer(w) ==
    \/ Start(w) \/ Initialize(w) \/ Stop(w)
    \/ \E j \in Jobs : Receive(w, j)

QueueType ==
    /\ message \in [Jobs -> [state : {"unsent", "waiting", "leased", "acknowledged"},
                             delivered : {0} \cup Deliveries]]
    /\ client \in [Workers -> {"new", "ready", "deferred", "listening", "stopped"}]
    /\ handling \in [Workers -> SUBSET Runs]
    /\ faults \in 0 .. MaxFaults

=============================================================================
