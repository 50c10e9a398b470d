----------------------------- MODULE Shiprocket -----------------------------
(* Fulfilment through Shiprocket (shiprocket-plugin).  The server creates a   *)
(* shipment by several calls inside the mutation that fulfils an order; a job *)
(* of the worker asks the carrier for every open fulfillment and moves it one  *)
(* state on.  Each process keeps a client with a login token of its own.      *)
EXTENDS Naturals, FiniteSets

CONSTANTS
    Fulfillments, \* calls of createFulfillment; each one makes its own shipment
    MaxFaults,    \* bound: failing calls and restarts
    MaxPasswords, \* bound: passwords the account comes to have
    MaxByHand,    \* bound: transitions made by the administrator
    MaxVisits     \* bound: shipments that the carrier could not deliver at its first visit

ASSUME ShiprocketAssumption ==
    /\ MaxFaults \in Nat /\ MaxPasswords \in Nat \ {0} /\ MaxByHand \in Nat
    /\ MaxVisits \in Nat

VARIABLES
    fulfillment,  \* rows of the shop
    attempt,      \* how far a createFulfillment has come
    shipment,     \* at Shiprocket: whether it exists and has a courier's number, the label
                  \* of its latest activity and of all so far
    client,       \* of each process: the cached ShiprocketClient
    password,     \* the account's password, also an argument of the shipping method
    sync,         \* the status-sync job: rows it still has to visit, the one at hand
    byHand,       \* the states that the administrator gave, each with its fulfillment
    faults

vars == <<fulfillment, attempt, shipment, client, password, sync, byHand, faults>>

Processes == {"server", "worker"}

NoClient == [password |-> 0, token |-> "none"]
NoShipment == [made |-> FALSE, awb |-> FALSE, latest |-> "none", reported |-> {}]
NoRow == [state |-> "None", label |-> "none"]
NoVisit == [step |-> "none"]
NoSync == [todo |-> {}, visit |-> NoVisit]

Init ==
    /\ fulfillment = [f \in Fulfillments |-> NoRow]
    /\ attempt = [f \in Fulfillments |-> "idle"]
    /\ shipment = [f \in Fulfillments |-> NoShipment]
    /\ client = [p \in Processes |-> NoClient]
    /\ password = 1
    /\ sync = NoSync
    /\ byHand = {}
    /\ faults = 0

Fault == faults < MaxFaults /\ faults' = faults + 1

-----------------------------------------------------------------------------
(* The client (shiprocket-client.ts). *)

\* A client is made once per account and keeps the password it was made with.
GetClient(p) == IF client[p] = NoClient THEN [password |-> password, token |-> "none"]
                ELSE client[p]

\* A call succeeds with a good token, or after a login: at first, and once more when the
\* token was refused.
Authenticated(p) == GetClient(p).token = "good" \/ GetClient(p).password = password

\* What a call leaves in the client.
Request(p) ==
    client' = [client EXCEPT ![p] =
                  [GetClient(p) EXCEPT !.token = IF Authenticated(p) THEN "good" ELSE "none"]]

\* The token of a client ends before its time.
RevokeToken(p) ==
    /\ client[p].token = "good"
    /\ Fault
    /\ client' = [client EXCEPT ![p].token = "revoked"]
    /\ UNCHANGED <<fulfillment, attempt, shipment, password, sync, byHand>>

\* The account gets another password, at Shiprocket and in the shipping method.
ChangePassword ==
    /\ password < MaxPasswords
    /\ password' = password + 1
    /\ UNCHANGED <<fulfillment, attempt, shipment, client, sync, byHand, faults>>

-----------------------------------------------------------------------------
(* createShipment, inside the transaction of the mutation. *)

Attempt(f, from, to) ==
    /\ attempt[f] = from
    /\ attempt' = [attempt EXCEPT ![f] = to]
    /\ Request("server")
    /\ UNCHANGED <<password, sync, byHand>>

CreateOrder(f) ==
    /\ Attempt(f, "idle", "ordered")
    /\ Authenticated("server")
    /\ shipment' = [shipment EXCEPT ![f].made = TRUE]
    /\ UNCHANGED <<fulfillment, faults>>

\* Mutant: the mutation goes on when no courier takes the shipment.
AssignAwbUnchecked(f) ==
    /\ Attempt(f, "ordered", "assigned")
    /\ shipment' \in {shipment, [shipment EXCEPT ![f].awb = TRUE]}
    /\ UNCHANGED <<fulfillment, faults>>

AssignAwb(f) ==
    /\ Attempt(f, "ordered", "assigned")
    /\ Authenticated("server")
    /\ shipment' = [shipment EXCEPT ![f].awb = TRUE]
    /\ UNCHANGED <<fulfillment, faults>>

\* The pickup is asked for, whatever comes of it, and the row is committed.
GeneratePickupAndSave(f) ==
    /\ Attempt(f, "assigned", "done")
    /\ fulfillment' = [fulfillment EXCEPT ![f] = [state |-> "Pending", label |-> "none"]]
    /\ UNCHANGED <<shipment, faults>>

\* A call or the transaction fails: the mutation is rolled back.  What Shiprocket has
\* done stays done, the call whose answer was lost included.
AttemptFails(f) ==
    /\ \E step \in {"idle", "ordered", "assigned"} : Attempt(f, step, "failed")
    /\ \/ Fault
       \/ ~Authenticated("server") /\ attempt[f] # "assigned" /\ UNCHANGED faults
    /\ \/ UNCHANGED shipment
       \/ attempt[f] = "idle" /\ Authenticated("server")
             /\ shipment' = [shipment EXCEPT ![f].made = TRUE]
       \/ attempt[f] = "ordered" /\ Authenticated("server")
             /\ shipment' = [shipment EXCEPT ![f].awb = TRUE]
    /\ UNCHANGED fulfillment

-----------------------------------------------------------------------------
(* The carrier, and the administrator. *)

\* The number of shipments with a failed visit.
Failed == Cardinality({f \in Fulfillments : "Undelivered" \in shipment[f].reported})

Following(latest) ==
    CASE latest = "none"        -> {"In Transit"}
      [] latest = "In Transit"  -> {"Delivered", "RTO Initiated"} \cup
                                   (IF Failed < MaxVisits THEN {"Undelivered"} ELSE {})
      [] latest = "Undelivered" -> {"Delivered", "RTO Initiated"}
      [] OTHER -> {}

\* The courier comes when it was asked to. What becomes of a shipment that was ordered for
\* nothing, the shop never learns.
Carry(f) ==
    /\ attempt[f] = "done" /\ shipment[f].awb
    /\ \E label \in Following(shipment[f].latest) :
          shipment' = [shipment EXCEPT ![f].latest = label, ![f].reported = @ \cup {label}]
    /\ UNCHANGED <<fulfillment, attempt, client, password, sync, byHand, faults>>

\* The transitions of the fulfillment state machine.
CanTransition(from, to) ==
    \/ from = "Pending" /\ to \in {"Shipped", "Delivered", "Cancelled"}
    \/ from = "Shipped" /\ to \in {"Delivered", "Cancelled"}
    \/ from = "Delivered" /\ to = "Cancelled"

TransitionByHand(f) ==
    /\ Cardinality(byHand) < MaxByHand
    /\ \E to \in {"Shipped", "Delivered", "Cancelled"} :
          /\ CanTransition(fulfillment[f].state, to)
          /\ fulfillment' = [fulfillment EXCEPT ![f].state = to]
          /\ byHand' = byHand \cup {<<f, to>>}
    /\ UNCHANGED <<attempt, shipment, client, password, sync, faults>>

-----------------------------------------------------------------------------
(* The job (syncFulfillmentStatuses). *)

SyncUnchanged == UNCHANGED <<attempt, shipment, password, byHand>>

Rest(f) == {row \in sync.todo : row.id # f}

\* Mutant: the job reads the rows of every state.
SyncStartAll ==
    /\ sync = NoSync
    /\ \E f \in Fulfillments : fulfillment[f].state # "None"
    /\ sync' = [sync EXCEPT !.todo =
                   {[id |-> f, state |-> fulfillment[f].state,
                     label |-> fulfillment[f].label] :
                        f \in {g \in Fulfillments : fulfillment[g].state # "None"}}]
    /\ SyncUnchanged /\ UNCHANGED <<fulfillment, client, faults>>

\* The job reads all open rows at once.
SyncStart ==
    /\ sync = NoSync
    /\ LET open == {f \in Fulfillments : fulfillment[f].state \in {"Pending", "Shipped"}} IN
          /\ open # {}
          /\ sync' = [sync EXCEPT !.todo =
                         {[id |-> f, state |-> fulfillment[f].state,
                           label |-> fulfillment[f].label] : f \in open}]
    /\ SyncUnchanged /\ UNCHANGED <<fulfillment, client, faults>>

\* The carrier's answer for one of them: the label of its latest activity.
SyncTrack(row) ==
    /\ sync.visit = NoVisit /\ row \in sync.todo
    /\ Authenticated("worker") /\ shipment[row.id].latest # "none"
    /\ Request("worker")
    /\ sync' = [todo |-> Rest(row.id),
                visit |-> [step |-> "status", row |-> row, label |-> shipment[row.id].latest]]
    /\ SyncUnchanged /\ UNCHANGED <<fulfillment, faults>>

\* Nothing was reported yet, or the call failed: the row is left for the next time.
SyncSkip(row) ==
    /\ sync.visit = NoVisit /\ row \in sync.todo
    /\ \/ Fault
       \/ (~Authenticated("worker") \/ shipment[row.id].latest = "none") /\ UNCHANGED faults
    /\ Request("worker")
    /\ sync' = [sync EXCEPT !.todo = Rest(row.id)]
    /\ SyncUnchanged /\ UNCHANGED fulfillment

\* Mutant: a row whose label is known is not looked at further.
SyncStatusOnlyNew ==
    /\ sync.visit.step = "status"
    /\ fulfillment' = [fulfillment EXCEPT ![sync.visit.row.id].label = sync.visit.label]
    /\ sync' = IF sync.visit.row.label = sync.visit.label
               THEN [sync EXCEPT !.visit = NoVisit]
               ELSE [sync EXCEPT !.visit.step = "transition"]
    /\ SyncUnchanged /\ UNCHANGED <<client, faults>>

\* The label is stored if the row that was read had another.
SyncStatus ==
    /\ sync.visit.step = "status"
    /\ fulfillment' = IF sync.visit.row.label = sync.visit.label THEN fulfillment
                      ELSE [fulfillment EXCEPT ![sync.visit.row.id].label = sync.visit.label]
    /\ sync' = [sync EXCEPT !.visit.step = "transition"]
    /\ SyncUnchanged /\ UNCHANGED <<client, faults>>

\* Mutant: a shipped fulfillment is delivered by any label of a parcel on its way.
NextStateTooFar(label, state) ==
    CASE label = "RTO Initiated" /\ state # "Cancelled" -> {"Cancelled"}
      [] label # "RTO Initiated" /\ state = "Pending"   -> {"Shipped"}
      [] label # "RTO Initiated" /\ state = "Shipped"   -> {"Delivered"}
      [] OTHER -> {}

\* mapShiprocketStatusToFulfillmentState; "undelivered" contains "delivered".
NextState(label, state) ==
    CASE label = "RTO Initiated" /\ state # "Cancelled" -> {"Cancelled"}
      [] label \in {"In Transit", "Delivered", "Undelivered"} /\ state = "Pending" -> {"Shipped"}
      [] label \in {"Delivered", "Undelivered"} /\ state = "Shipped" -> {"Delivered"}
      [] OTHER -> {}

\* The state proposed for the row that was read is entered if the present row allows it.
SyncTransition ==
    LET f == sync.visit.row.id
        next == {to \in NextState(sync.visit.label, sync.visit.row.state) :
                    CanTransition(fulfillment[f].state, to)}
    IN  /\ sync.visit.step = "transition"
        /\ fulfillment' = IF next = {} THEN fulfillment
                          ELSE [fulfillment EXCEPT ![f].state = CHOOSE to \in next : TRUE]
        /\ sync' = [sync EXCEPT !.visit = NoVisit]
        /\ SyncUnchanged /\ UNCHANGED <<client, faults>>

Sync ==
    \/ SyncStart \/ SyncStatus \/ SyncTransition
    \/ \E row \in sync.todo : SyncTrack(row)
    \/ \E row \in sync.todo : SyncSkip(row)

\* A process ends and is started again.
RestartServer ==
    /\ Fault
    /\ client' = [client EXCEPT !["server"] = NoClient]
    /\ attempt' = [f \in Fulfillments |-> IF attempt[f] \in {"ordered", "assigned"}
                                          THEN "failed" ELSE attempt[f]]
    /\ UNCHANGED <<fulfillment, shipment, password, sync, byHand>>

RestartWorker ==
    /\ Fault
    /\ client' = [client EXCEPT !["worker"] = NoClient]
    /\ sync' = NoSync
    /\ UNCHANGED <<fulfillment, attempt, shipment, password, byHand>>

Next ==
    \/ \E f \in Fulfillments :
          \/ CreateOrder(f) \/ AssignAwb(f) \/ GeneratePickupAndSave(f) \/ AttemptFails(f)
          \/ Carry(f) \/ TransitionByHand(f)
    \/ \E p \in Processes : RevokeToken(p)
    \/ ChangePassword
    \/ Sync
    \/ RestartServer \/ RestartWorker

Spec == Init /\ [][Next]_vars

\* The interval timer queues the job again and again, and the worker runs it.
FairSpec == Spec /\ WF_vars(Sync)

-----------------------------------------------------------------------------

States == {"None", "Pending", "Shipped", "Delivered", "Cancelled"}
Labels == {"In Transit", "Undelivered", "Delivered", "RTO Initiated"}
ReadRows == [id : Fulfillments, state : {"Pending", "Shipped"}, label : Labels \cup {"none"}]
Visits == {NoVisit} \cup [step : {"status", "transition"}, row : ReadRows, label : Labels]

\* Every variable holds what the code can put there.
TypeOK ==
    /\ fulfillment \in [Fulfillments -> [state : States, label : Labels \cup {"none"}]]
    /\ attempt \in [Fulfillments -> {"idle", "ordered", "assigned", "done", "failed"}]
    /\ shipment \in [Fulfillments -> [made : BOOLEAN, awb : BOOLEAN,
                                      latest : Labels \cup {"none"}, reported : SUBSET Labels]]
    /\ client \in [Processes -> [password : 0 .. MaxPasswords, token : {"none", "good", "revoked"}]]
    /\ password \in 1 .. MaxPasswords
    /\ sync \in [todo : SUBSET ReadRows, visit : Visits]
    /\ byHand \subseteq Fulfillments \X States
    /\ faults \in 0 .. MaxFaults

\* A fulfillment of the shop names a shipment that a courier has taken, wherever calls
\* fail, answers are lost or the server dies: without a number createShipment throws and
\* nothing is committed.
TrackedHasAwb ==
    \A f \in Fulfillments : fulfillment[f].state # "None" =>
        shipment[f].made /\ shipment[f].awb

\* The reports of the carrier that a state of a fulfillment stands for. A visit that failed
\* is among those of a delivery: "undelivered" contains "delivered".
ReportsOf(state) ==
    CASE state = "Shipped"   -> {"In Transit"}
      [] state = "Delivered" -> {"Delivered", "Undelivered"}
      [] state = "Cancelled" -> {"RTO Initiated"}
      [] OTHER -> Labels

\* The job never moves a fulfillment ahead of its shipment, though it decides by the rows and
\* the label it read before, while the administrator moves the same rows
\* (syncFulfillmentStatuses, mapShiprocketStatusToFulfillmentState): each state that was not
\* given by hand answers a report. A failed visit is taken for a delivery.
NotAheadOfCarrier ==
    \A f \in Fulfillments :
        \/ fulfillment[f].state \in {"None", "Pending"}
        \/ <<f, fulfillment[f].state>> \in byHand
        \/ ReportsOf(fulfillment[f].state) \cap shipment[f].reported # {}

\* The journey of the shipment has ended and its fulfillment has not.
Behind(f) ==
    /\ fulfillment[f].state \in {"Pending", "Shipped"}
    /\ shipment[f].latest \in {"Delivered", "RTO Initiated"}

\* The worker logs in with a password that was changed.
LockedOut == client["worker"].password \notin {0, password}

\* A fulfillment comes to show the end of its shipment although calls fail, tokens are
\* refused and the worker restarts between two writes; a worker whose cached client has
\* an old password never sees it.
StatusFollows == \A f \in Fulfillments : Behind(f) ~> (~Behind(f) \/ LockedOut)

=============================================================================
