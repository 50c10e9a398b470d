-------------------------- MODULE ShiprocketProofs --------------------------
(* The shop never runs ahead of the carrier, for any number of fulfillments,  *)
(* faults, passwords and transitions by hand.                                  *)
EXTENDS Shiprocket, TLAPS

ActualVisits == [step : {"status", "transition"}, row : ReadRows, label : Labels]

\* The first state of the model is well typed (onApplicationBootstrap: no client, no job).
LEMMA InitTypeOK == Init => TypeOK
<1> SUFFICES ASSUME Init PROVE TypeOK
  OBVIOUS
<1>1. fulfillment \in [Fulfillments -> [state : States, label : Labels \cup {"none"}]]
  BY DEF Init, NoRow, States, Labels
<1>2. attempt \in [Fulfillments -> {"idle", "ordered", "assigned", "done", "failed"}]
  BY DEF Init
<1>3. shipment \in [Fulfillments -> [made : BOOLEAN, awb : BOOLEAN,
                                     latest : Labels \cup {"none"}, reported : SUBSET Labels]]
  BY DEF Init, NoShipment, Labels
<1>4. client \in [Processes -> [password : 0 .. MaxPasswords, token : {"none", "good", "revoked"}]]
  BY ShiprocketAssumption DEF ShiprocketAssumption, Init, NoClient
<1>5. /\ password \in 1 .. MaxPasswords
      /\ sync \in [todo : SUBSET ReadRows, visit : Visits]
      /\ byHand \subseteq Fulfillments \X States
      /\ faults \in 0 .. MaxFaults
  BY ShiprocketAssumption DEF ShiprocketAssumption, Init, NoSync, NoVisit, Visits
<1> QED
  BY <1>1, <1>2, <1>3, <1>4, <1>5 DEF TypeOK

\* A call leaves a client of the process behind (request, getToken).
LEMMA RequestType ==
    ASSUME TypeOK, NEW p \in Processes, Request(p)
    PROVE  client' \in [Processes -> [password : 0 .. MaxPasswords,
                                      token : {"none", "good", "revoked"}]]
<1>1. GetClient(p) \in [password : 0 .. MaxPasswords, token : {"none", "good", "revoked"}]
  BY ShiprocketAssumption DEF ShiprocketAssumption, TypeOK, GetClient
<1>2. [GetClient(p) EXCEPT !.token = IF Authenticated(p) THEN "good" ELSE "none"]
         \in [password : 0 .. MaxPasswords, token : {"none", "good", "revoked"}]
  BY <1>1
<1> QED
  BY <1>2 DEF TypeOK, Request

\* A counted fault keeps within its bound.
LEMMA FaultType == TypeOK /\ Fault => faults' \in 0 .. MaxFaults
  BY ShiprocketAssumption DEF ShiprocketAssumption, TypeOK, Fault

\* The job has a row and its label in hand between the writes.
LEMMA VisitAtHand ==
    ASSUME TypeOK, sync.visit.step \in {"status", "transition"}
    PROVE  sync.visit \in ActualVisits
  BY DEF TypeOK, Visits, NoVisit, ActualVisits

\* A step of createShipment keeps the types.
LEMMA AttemptType ==
    ASSUME TypeOK, NEW f \in Fulfillments,
           CreateOrder(f) \/ AssignAwb(f) \/ GeneratePickupAndSave(f) \/ AttemptFails(f)
    PROVE  TypeOK'
<1>1. PICK from, to \in {"idle", "ordered", "assigned", "done", "failed"} : Attempt(f, from, to)
  BY DEF CreateOrder, AssignAwb, GeneratePickupAndSave, AttemptFails
<1>2. client' \in [Processes -> [password : 0 .. MaxPasswords,
                                 token : {"none", "good", "revoked"}]]
  BY <1>1, RequestType DEF Attempt, Processes
<1>3. attempt' \in [Fulfillments -> {"idle", "ordered", "assigned", "done", "failed"}]
  BY <1>1 DEF Attempt, TypeOK
<1>4. shipment' \in [Fulfillments -> [made : BOOLEAN, awb : BOOLEAN,
                                      latest : Labels \cup {"none"}, reported : SUBSET Labels]]
  <2>1. \/ shipment' = shipment
        \/ shipment' = [shipment EXCEPT ![f].made = TRUE]
        \/ shipment' = [shipment EXCEPT ![f].awb = TRUE]
    BY DEF CreateOrder, AssignAwb, GeneratePickupAndSave, AttemptFails
  <2> DEFINE was == shipment[f]
  <2>2. was \in [made : BOOLEAN, awb : BOOLEAN, latest : Labels \cup {"none"},
                 reported : SUBSET Labels]
    BY DEF TypeOK
  <2>3. /\ [was EXCEPT !.made = TRUE] \in [made : BOOLEAN, awb : BOOLEAN,
                                          latest : Labels \cup {"none"}, reported : SUBSET Labels]
        /\ [was EXCEPT !.awb = TRUE] \in [made : BOOLEAN, awb : BOOLEAN,
                                          latest : Labels \cup {"none"}, reported : SUBSET Labels]
    BY <2>2
  <2> QED
    BY <2>1, <2>3 DEF TypeOK
<1>5. fulfillment' \in [Fulfillments -> [state : States, label : Labels \cup {"none"}]]
  <2>1. [state |-> "Pending", label |-> "none"] \in [state : States, label : Labels \cup {"none"}]
    BY DEF States
  <2> QED
    BY <2>1 DEF CreateOrder, AssignAwb, GeneratePickupAndSave, AttemptFails, TypeOK
<1>6. faults' \in 0 .. MaxFaults
  BY FaultType DEF CreateOrder, AssignAwb, GeneratePickupAndSave, AttemptFails, TypeOK
<1>7. UNCHANGED <<password, sync, byHand>>
  BY <1>1 DEF Attempt
<1> QED
  BY <1>2, <1>3, <1>4, <1>5, <1>6, <1>7 DEF TypeOK

\* A step of the job keeps the types.
LEMMA SyncTypeOK ==
    ASSUME TypeOK, Sync
    PROVE  TypeOK'
<1>1. CASE SyncStart
  <2> DEFINE open == {f \in Fulfillments : fulfillment[f].state \in {"Pending", "Shipped"}}
  <2>1. \A f \in open : [id |-> f, state |-> fulfillment[f].state, label |-> fulfillment[f].label]
                           \in ReadRows
    BY DEF TypeOK, ReadRows
  <2>2. sync' = [todo |-> {[id |-> f, state |-> fulfillment[f].state,
                            label |-> fulfillment[f].label] : f \in open}, visit |-> NoVisit]
    BY <1>1 DEF SyncStart, NoSync
  <2>3. sync' \in [todo : SUBSET ReadRows, visit : Visits]
    BY <2>1, <2>2 DEF Visits
  <2> QED
    BY <1>1, <2>3 DEF TypeOK, SyncStart, SyncUnchanged
<1>2. CASE SyncStatus
  <2>1. sync.visit \in ActualVisits
    BY <1>2, VisitAtHand DEF SyncStatus
  <2>2. fulfillment' \in [Fulfillments -> [state : States, label : Labels \cup {"none"}]]
    <3> DEFINE f == sync.visit.row.id
               now == [fulfillment[f] EXCEPT !.label = sync.visit.label]
    <3>1. f \in Fulfillments /\ sync.visit.label \in Labels
      BY <2>1 DEF ActualVisits, ReadRows
    <3>2. now \in [state : States, label : Labels \cup {"none"}]
      BY <3>1 DEF TypeOK
    <3>3. fulfillment' = fulfillment \/ fulfillment' = [fulfillment EXCEPT ![f] = now]
      BY <1>2 DEF SyncStatus
    <3> QED
      BY <3>1, <3>2, <3>3 DEF TypeOK
  <2>3. [sync.visit EXCEPT !.step = "transition"] \in Visits
    BY <2>1 DEF ActualVisits, Visits
  <2>4. sync' \in [todo : SUBSET ReadRows, visit : Visits]
    BY <1>2, <2>3 DEF SyncStatus, TypeOK
  <2> QED
    BY <1>2, <2>2, <2>4 DEF TypeOK, SyncStatus, SyncUnchanged
<1>3. CASE SyncTransition
  <2>1. sync.visit \in ActualVisits
    BY <1>3, VisitAtHand DEF SyncTransition
  <2> DEFINE f == sync.visit.row.id
             next == {to \in NextState(sync.visit.label, sync.visit.row.state) :
                         CanTransition(fulfillment[f].state, to)}
  <2>2. next \subseteq States
    BY DEF NextState, States
  <2>3. next # {} => (CHOOSE to \in next : TRUE) \in States
    BY <2>2
  <2>4. fulfillment' = IF next = {} THEN fulfillment
                       ELSE [fulfillment EXCEPT ![f].state = CHOOSE to \in next : TRUE]
    BY <1>3 DEF SyncTransition
  <2>5. fulfillment' \in [Fulfillments -> [state : States, label : Labels \cup {"none"}]]
    <3> DEFINE chosen == CHOOSE to \in next : TRUE
               now == [fulfillment[f] EXCEPT !.state = chosen]
    <3>1. f \in Fulfillments
      BY <2>1 DEF ActualVisits, ReadRows
    <3>2. fulfillment[f] \in [state : States, label : Labels \cup {"none"}]
      BY <3>1 DEF TypeOK
    <3>3. next # {} => chosen \in States
      BY <2>3
    <3>4. \/ fulfillment' = fulfillment
          \/ next # {} /\ fulfillment' = [fulfillment EXCEPT ![f] = now]
      <4>1. fulfillment' = IF next = {} THEN fulfillment
                           ELSE [fulfillment EXCEPT ![f].state = chosen]
        <5> HIDE DEF next, f
        <5> QED
          BY <2>4, Zenon
      <4> HIDE DEF next, chosen
      <4> QED
        BY <4>1
    <3> HIDE DEF next, chosen
    <3>5. next # {} => now \in [state : States, label : Labels \cup {"none"}]
      BY <3>2, <3>3
    <3> QED
      BY <3>1, <3>4, <3>5 DEF TypeOK
  <2>6. sync' \in [todo : SUBSET ReadRows, visit : Visits]
    BY <1>3 DEF SyncTransition, TypeOK, Visits
  <2> QED
    BY <1>3, <2>5, <2>6 DEF TypeOK, SyncTransition, SyncUnchanged
<1>4. ASSUME NEW row \in sync.todo, SyncTrack(row)
      PROVE  TypeOK'
  <2>1. row \in ReadRows /\ Rest(row.id) \subseteq ReadRows
    BY DEF TypeOK, Rest
  <2>2. shipment[row.id].latest \in Labels
    BY <1>4, <2>1 DEF SyncTrack, TypeOK, ReadRows
  <2>3. [step |-> "status", row |-> row, label |-> shipment[row.id].latest] \in Visits
    BY <2>1, <2>2 DEF Visits
  <2>4. sync' \in [todo : SUBSET ReadRows, visit : Visits]
    BY <1>4, <2>1, <2>3 DEF SyncTrack
  <2>5. Request("worker")
    BY <1>4 DEF SyncTrack
  <2> QED
    BY <1>4, <2>4, <2>5, RequestType DEF TypeOK, SyncTrack, SyncUnchanged, Processes
<1>5. ASSUME NEW row \in sync.todo, SyncSkip(row)
      PROVE  TypeOK'
  <2>1. sync' \in [todo : SUBSET ReadRows, visit : Visits]
    BY <1>5 DEF SyncSkip, TypeOK, Rest
  <2>2. faults' \in 0 .. MaxFaults
    BY <1>5, FaultType DEF SyncSkip, TypeOK
  <2>3. Request("worker")
    BY <1>5 DEF SyncSkip
  <2> QED
    BY <1>5, <2>1, <2>2, <2>3, RequestType DEF TypeOK, SyncSkip, SyncUnchanged, Processes
<1> QED
  BY <1>1, <1>2, <1>3, <1>4, <1>5 DEF Sync

\* Every step keeps the types.
LEMMA NextTypeOK == TypeOK /\ [Next]_vars => TypeOK'
<1> SUFFICES ASSUME TypeOK, [Next]_vars PROVE TypeOK'
  OBVIOUS
<1>1. ASSUME NEW f \in Fulfillments, Carry(f) PROVE TypeOK'
  <2>1. PICK label \in Labels :
           shipment' = [shipment EXCEPT ![f].latest = label, ![f].reported = @ \cup {label}]
    BY <1>1 DEF Carry, Following, Labels
  <2> DEFINE was == shipment[f]
             now == [was EXCEPT !.latest = label, !.reported = @ \cup {label}]
  <2>2. was \in [made : BOOLEAN, awb : BOOLEAN, latest : Labels \cup {"none"},
                 reported : SUBSET Labels]
    BY DEF TypeOK
  <2>3. now \in [made : BOOLEAN, awb : BOOLEAN, latest : Labels \cup {"none"},
                 reported : SUBSET Labels]
    <3> HIDE DEF was
    <3> QED
      BY <2>2
  <2>4. shipment' = [shipment EXCEPT ![f] = now]
    BY <2>1 DEF TypeOK
  <2> HIDE DEF now
  <2> QED
    BY <1>1, <2>3, <2>4 DEF Carry, TypeOK
<1>2. ASSUME NEW f \in Fulfillments, TransitionByHand(f) PROVE TypeOK'
  BY <1>2 DEF TransitionByHand, TypeOK, States
<1>3. ASSUME NEW p \in Processes, RevokeToken(p) PROVE TypeOK'
  <2>1. client' \in [Processes -> [password : 0 .. MaxPasswords,
                                   token : {"none", "good", "revoked"}]]
    BY <1>3 DEF RevokeToken, TypeOK
  <2>2. faults' \in 0 .. MaxFaults
    BY <1>3, FaultType DEF RevokeToken
  <2> QED
    BY <1>3, <2>1, <2>2 DEF RevokeToken, TypeOK
<1>4. CASE ChangePassword
  BY <1>4, ShiprocketAssumption DEF ShiprocketAssumption, ChangePassword, TypeOK
<1>5. CASE RestartServer
  <2>1. NoClient \in [password : 0 .. MaxPasswords, token : {"none", "good", "revoked"}]
    BY ShiprocketAssumption DEF ShiprocketAssumption, NoClient
  <2>2. faults' \in 0 .. MaxFaults
    BY <1>5, FaultType DEF RestartServer
  <2>3. attempt' \in [Fulfillments -> {"idle", "ordered", "assigned", "done", "failed"}]
    BY <1>5 DEF RestartServer, TypeOK
  <2>4. client' \in [Processes -> [password : 0 .. MaxPasswords,
                                   token : {"none", "good", "revoked"}]]
    <3> HIDE DEF NoClient
    <3> QED
      BY <1>5, <2>1 DEF RestartServer, TypeOK
  <2> QED
    BY <1>5, <2>2, <2>3, <2>4 DEF RestartServer, TypeOK
<1>6. CASE RestartWorker
  <2>1. NoClient \in [password : 0 .. MaxPasswords, token : {"none", "good", "revoked"}]
    BY ShiprocketAssumption DEF ShiprocketAssumption, NoClient
  <2>2. faults' \in 0 .. MaxFaults
    BY <1>6, FaultType DEF RestartWorker
  <2> QED
    BY <1>6, <2>1, <2>2 DEF RestartWorker, TypeOK, NoSync, NoVisit, Visits
<1>7. CASE UNCHANGED vars
  BY <1>7 DEF vars, TypeOK
<1> QED
  BY <1>1, <1>2, <1>3, <1>4, <1>5, <1>6, <1>7, AttemptType, SyncTypeOK DEF Next

\* The model is well typed for every set of fulfillments and every bound (the whole of
\* shiprocket.service.ts and shiprocket-client.ts).
THEOREM TypeCorrect == Spec => []TypeOK
  BY InitTypeOK, NextTypeOK, PTL DEF Spec

-----------------------------------------------------------------------------
(* No fulfillment without a courier's number. *)

\* What createShipment has at Shiprocket when it comes to each of its steps.
AttemptInv ==
    \A f \in Fulfillments :
        /\ attempt[f] \in {"ordered", "assigned"} => shipment[f].made
        /\ attempt[f] = "assigned" => shipment[f].awb
        /\ fulfillment[f].state # "None" => shipment[f].made /\ shipment[f].awb

\* Shiprocket takes nothing back, and a row appears only by the last step of
\* createShipment.
LEMMA NothingTakenBack ==
    ASSUME TypeOK, Next, NEW g \in Fulfillments
    PROVE  /\ shipment[g].made => shipment'[g].made
           /\ shipment[g].awb => shipment'[g].awb
           /\ fulfillment[g].state = "None" /\ fulfillment'[g].state # "None"
                 => attempt[g] = "assigned"
<1>1. ASSUME NEW f \in Fulfillments,
             CreateOrder(f) \/ AssignAwb(f) \/ GeneratePickupAndSave(f) \/ AttemptFails(f)
      PROVE  /\ shipment[g].made => shipment'[g].made
             /\ shipment[g].awb => shipment'[g].awb
             /\ fulfillment[g].state = "None" /\ fulfillment'[g].state # "None"
                   => attempt[g] = "assigned"
  <2>1. \/ shipment' = shipment
        \/ shipment' = [shipment EXCEPT ![f].made = TRUE]
        \/ shipment' = [shipment EXCEPT ![f].awb = TRUE]
    BY <1>1 DEF CreateOrder, AssignAwb, GeneratePickupAndSave, AttemptFails
  <2>2. \/ fulfillment' = fulfillment
        \/ /\ attempt[f] = "assigned"
           /\ fulfillment' = [fulfillment EXCEPT ![f] = [state |-> "Pending", label |-> "none"]]
    BY <1>1 DEF CreateOrder, AssignAwb, GeneratePickupAndSave, AttemptFails, Attempt
  <2>3. /\ shipment[g].made => shipment'[g].made
        /\ shipment[g].awb => shipment'[g].awb
    BY <2>1 DEF TypeOK
  <2>4. fulfillment[g].state = "None" /\ fulfillment'[g].state # "None" => attempt[g] = "assigned"
    BY <2>2 DEF TypeOK
  <2> QED
    BY <2>3, <2>4
<1>2. ASSUME NEW f \in Fulfillments, Carry(f)
      PROVE  /\ shipment[g].made => shipment'[g].made
             /\ shipment[g].awb => shipment'[g].awb
             /\ fulfillment' = fulfillment
  BY <1>2 DEF Carry, TypeOK
<1>3. ASSUME NEW f \in Fulfillments, TransitionByHand(f)
      PROVE  /\ shipment' = shipment
             /\ fulfillment[g].state = "None" => fulfillment'[g].state = "None"
  BY <1>3 DEF TransitionByHand, CanTransition, TypeOK
<1>4. CASE Sync
  <2>1. shipment' = shipment
    BY <1>4 DEF Sync, SyncStart, SyncStatus, SyncTransition, SyncTrack, SyncSkip, SyncUnchanged
  <2>2. CASE SyncTransition
    <3> DEFINE f == sync.visit.row.id
               next == {to \in NextState(sync.visit.label, sync.visit.row.state) :
                           CanTransition(fulfillment[f].state, to)}
               chosen == CHOOSE to \in next : TRUE
    <3>1. f \in Fulfillments
      BY <2>2, VisitAtHand DEF SyncTransition, ActualVisits, ReadRows
    <3>2. fulfillment[f].state = "None" => next = {}
      BY DEF CanTransition
    <3>3. fulfillment' = IF next = {} THEN fulfillment
                         ELSE [fulfillment EXCEPT ![f].state = chosen]
      BY <2>2, Zenon DEF SyncTransition
    <3> HIDE DEF next, chosen, f
    <3> QED
      BY <3>1, <3>2, <3>3, <2>1 DEF TypeOK
  <2>3. CASE SyncStatus
    BY <2>1, <2>3, VisitAtHand DEF SyncStatus, TypeOK
  <2>4. CASE ~SyncTransition /\ ~SyncStatus
    BY <2>1, <2>4, <1>4 DEF Sync, SyncStart, SyncTrack, SyncSkip
  <2> QED
    BY <2>2, <2>3, <2>4
<1>5. ASSUME NEW p \in Processes, RevokeToken(p)
      PROVE  UNCHANGED <<shipment, fulfillment>>
  BY <1>5 DEF RevokeToken
<1>6. CASE ChangePassword \/ RestartServer \/ RestartWorker
  BY <1>6 DEF ChangePassword, RestartServer, RestartWorker
<1> QED
  BY <1>1, <1>2, <1>3, <1>4, <1>5, <1>6 DEF Next

\* What createShipment has done is there when it goes on.
LEMMA AttemptStep == TypeOK /\ AttemptInv /\ Next => AttemptInv'
<1> SUFFICES ASSUME TypeOK, AttemptInv, Next, NEW g \in Fulfillments
             PROVE  /\ attempt'[g] \in {"ordered", "assigned"} => shipment'[g].made
                    /\ attempt'[g] = "assigned" => shipment'[g].awb
                    /\ fulfillment'[g].state # "None" => shipment'[g].made /\ shipment'[g].awb
  BY DEF AttemptInv
<1>1. \/ attempt'[g] = attempt[g]
      \/ attempt'[g] \notin {"ordered", "assigned"}
      \/ attempt'[g] = "ordered" /\ shipment'[g].made
      \/ attempt[g] = "ordered" /\ attempt'[g] = "assigned" /\ shipment'[g].awb
  <2>1. ASSUME NEW f \in Fulfillments, CreateOrder(f)
        PROVE  attempt'[g] = attempt[g] \/ (attempt'[g] = "ordered" /\ shipment'[g].made)
    BY <2>1 DEF CreateOrder, Attempt, TypeOK
  <2>2. ASSUME NEW f \in Fulfillments, AssignAwb(f)
        PROVE  \/ attempt'[g] = attempt[g]
               \/ attempt[g] = "ordered" /\ attempt'[g] = "assigned" /\ shipment'[g].awb
    BY <2>2 DEF AssignAwb, Attempt, TypeOK
  <2>3. ASSUME NEW f \in Fulfillments, GeneratePickupAndSave(f) \/ AttemptFails(f)
        PROVE  attempt'[g] = attempt[g] \/ attempt'[g] \notin {"ordered", "assigned"}
    BY <2>3 DEF GeneratePickupAndSave, AttemptFails, Attempt, TypeOK
  <2>4. CASE RestartServer
    BY <2>4 DEF RestartServer, TypeOK
  <2>5. ASSUME NEW f \in Fulfillments, Carry(f) \/ TransitionByHand(f)
        PROVE  attempt' = attempt
    BY <2>5 DEF Carry, TransitionByHand
  <2>6. ASSUME NEW p \in Processes, RevokeToken(p)
        PROVE  attempt' = attempt
    BY <2>6 DEF RevokeToken
  <2>7. CASE Sync
    BY <2>7 DEF Sync, SyncStart, SyncStatus, SyncTransition, SyncTrack, SyncSkip, SyncUnchanged
  <2>8. CASE ChangePassword \/ RestartWorker
    BY <2>8 DEF ChangePassword, RestartWorker
  <2> QED
    BY <2>1, <2>2, <2>3, <2>4, <2>5, <2>6, <2>7, <2>8 DEF Next
<1> QED
  BY <1>1, NothingTakenBack DEF AttemptInv

\* For any number of mutations, failing calls, lost answers and restarts, a fulfillment of
\* the shop has a shipment that a courier has taken (createShipment).
THEOREM HasAwb == Spec => []TrackedHasAwb
<1>1. Init => AttemptInv
  BY DEF Init, AttemptInv, NoRow
<1>2. TypeOK /\ AttemptInv /\ [Next]_vars => AttemptInv'
  BY AttemptStep DEF AttemptInv, vars
<1>3. AttemptInv => TrackedHasAwb
  BY DEF AttemptInv, TrackedHasAwb
<1> QED
  BY <1>1, <1>2, <1>3, TypeCorrect, PTL DEF Spec

-----------------------------------------------------------------------------
(* Not ahead of the carrier. *)

\* How activities follow one another.
JourneyInv ==
    \A f \in Fulfillments :
        /\ shipment[f].latest # "none" => shipment[f].latest \in shipment[f].reported
        /\ shipment[f].reported # {} => "In Transit" \in shipment[f].reported

\* What the job has in hand was reported.
VisitInv ==
    sync.visit # NoVisit => sync.visit.label \in shipment[sync.visit.row.id].reported

CarrierInv == JourneyInv /\ VisitInv /\ NotAheadOfCarrier

\* What the carrier reports is only added to.
LEMMA ReportedGrows ==
    ASSUME TypeOK, Next, NEW g \in Fulfillments
    PROVE  /\ shipment[g].reported \subseteq shipment'[g].reported
           /\ \/ shipment'[g].latest = shipment[g].latest
                    /\ shipment'[g].reported = shipment[g].reported
              \/ Carry(g)
<1>1. ASSUME NEW f \in Fulfillments,
             CreateOrder(f) \/ AssignAwb(f) \/ GeneratePickupAndSave(f) \/ AttemptFails(f)
      PROVE  /\ shipment'[g].latest = shipment[g].latest
             /\ shipment'[g].reported = shipment[g].reported
  <2>1. \/ shipment' = shipment
        \/ shipment' = [shipment EXCEPT ![f].made = TRUE]
        \/ shipment' = [shipment EXCEPT ![f].awb = TRUE]
    BY <1>1 DEF CreateOrder, AssignAwb, GeneratePickupAndSave, AttemptFails
  <2>2. CASE shipment' = [shipment EXCEPT ![f].made = TRUE]
    BY <2>2 DEF TypeOK
  <2>3. CASE shipment' = [shipment EXCEPT ![f].awb = TRUE]
    BY <2>3 DEF TypeOK
  <2> QED
    BY <2>1, <2>2, <2>3
<1>2. ASSUME NEW f \in Fulfillments, Carry(f)
      PROVE  /\ shipment[g].reported \subseteq shipment'[g].reported
             /\ g # f => shipment'[g] = shipment[g]
  <2>1. PICK label \in Following(shipment[f].latest) :
           shipment' = [shipment EXCEPT ![f].latest = label, ![f].reported = @ \cup {label}]
    BY <1>2 DEF Carry
  <2> DEFINE now == [shipment[f] EXCEPT !.latest = label, !.reported = @ \cup {label}]
  <2>2. shipment' = [shipment EXCEPT ![f] = now]
    BY <2>1 DEF TypeOK
  <2>3. now.reported = shipment[f].reported \cup {label}
    BY DEF TypeOK
  <2> HIDE DEF now
  <2> QED
    BY <2>2, <2>3 DEF TypeOK
<1>3. CASE UNCHANGED shipment
  BY <1>3
<1>4. Sync => UNCHANGED shipment
  BY DEF Sync, SyncStart, SyncStatus, SyncTransition, SyncTrack, SyncSkip, SyncUnchanged
<1>5. ASSUME NEW f \in Fulfillments
      PROVE  TransitionByHand(f) => UNCHANGED shipment
  BY DEF TransitionByHand
<1>6. ASSUME NEW p \in Processes
      PROVE  RevokeToken(p) => UNCHANGED shipment
  BY DEF RevokeToken
<1>7. ChangePassword \/ RestartServer \/ RestartWorker => UNCHANGED shipment
  BY DEF ChangePassword, RestartServer, RestartWorker
<1> QED
  BY <1>1, <1>2, <1>3, <1>4, <1>5, <1>6, <1>7 DEF Next

\* Every report begins with the parcel on its way.
LEMMA JourneyStep ==
    ASSUME TypeOK, JourneyInv, Next
    PROVE  JourneyInv'
<1> SUFFICES ASSUME NEW g \in Fulfillments
             PROVE  /\ shipment'[g].latest # "none"
                          => shipment'[g].latest \in shipment'[g].reported
                    /\ shipment'[g].reported # {} => "In Transit" \in shipment'[g].reported
  BY DEF JourneyInv
<1>1. CASE Carry(g)
  <2>1. PICK label \in Following(shipment[g].latest) :
           shipment' = [shipment EXCEPT ![g].latest = label, ![g].reported = @ \cup {label}]
    BY <1>1 DEF Carry
  <2> DEFINE now == [shipment[g] EXCEPT !.latest = label, !.reported = @ \cup {label}]
  <2>2. shipment' = [shipment EXCEPT ![g] = now]
    BY <2>1 DEF TypeOK
  <2>3. now.latest = label /\ now.reported = shipment[g].reported \cup {label}
    BY DEF TypeOK
  <2>4. shipment'[g] = now
    <3> HIDE DEF now
    <3> QED
      BY <2>2 DEF TypeOK
  <2>5. /\ shipment'[g].latest = label
        /\ shipment'[g].reported = shipment[g].reported \cup {label}
    BY <2>3, <2>4
  <2>6. /\ label # "none"
        /\ label # "In Transit" => shipment[g].latest \in {"In Transit", "Undelivered"}
    BY DEF Following
  <2> QED
    BY <2>5, <2>6 DEF JourneyInv
<1> QED
  BY <1>1, ReportedGrows DEF JourneyInv

\* The label in hand is one of the shipment's.
LEMMA VisitStep ==
    ASSUME TypeOK, JourneyInv, VisitInv, Next
    PROVE  VisitInv'
<1> SUFFICES ASSUME sync'.visit # NoVisit
             PROVE  sync'.visit.label \in shipment'[sync'.visit.row.id].reported
  BY DEF VisitInv
<1>1. ASSUME NEW row \in sync.todo, SyncTrack(row)
      PROVE  sync'.visit.label \in shipment'[sync'.visit.row.id].reported
  <2>1. row.id \in Fulfillments
    BY DEF TypeOK, ReadRows
  <2>2. sync'.visit.label = shipment[row.id].latest /\ sync'.visit.row.id = row.id
    BY <1>1 DEF SyncTrack
  <2>3. shipment[row.id].latest # "none" /\ shipment' = shipment
    BY <1>1 DEF SyncTrack, SyncUnchanged
  <2> QED
    BY <2>1, <2>2, <2>3 DEF JourneyInv
<1>2. ASSUME sync.visit # NoVisit,
             sync'.visit.label = sync.visit.label, sync'.visit.row = sync.visit.row
      PROVE  sync'.visit.label \in shipment'[sync'.visit.row.id].reported
  <2>1. sync.visit \in ActualVisits
    BY <1>2 DEF TypeOK, Visits, ActualVisits
  <2>2. sync.visit.row.id \in Fulfillments
    BY <2>1 DEF ActualVisits, ReadRows
  <2> QED
    BY <1>2, <2>2, ReportedGrows DEF VisitInv
<1>3. CASE SyncStatus
  <2>1. sync.visit \in ActualVisits
    BY <1>3, VisitAtHand DEF SyncStatus
  <2>2. sync' = [sync EXCEPT !.visit.step = "transition"]
    BY <1>3 DEF SyncStatus
  <2>3. sync'.visit.label = sync.visit.label /\ sync'.visit.row = sync.visit.row
    BY <2>1, <2>2 DEF TypeOK, ActualVisits
  <2>4. sync.visit # NoVisit
    BY <1>3 DEF SyncStatus, NoVisit
  <2> QED
    BY <1>2, <2>3, <2>4
<1>4. CASE SyncTransition
  BY <1>4 DEF SyncTransition, TypeOK
<1>5. CASE SyncStart
  BY <1>5 DEF SyncStart, NoSync
<1>6. ASSUME NEW row \in sync.todo, SyncSkip(row)
      PROVE  sync'.visit = NoVisit
  BY <1>6 DEF SyncSkip, TypeOK
<1>7. CASE RestartWorker
  BY <1>7 DEF RestartWorker, NoSync
<1>8. CASE UNCHANGED sync
  BY <1>2, <1>8
<1>9. ASSUME NEW f \in Fulfillments,
             \/ CreateOrder(f) \/ AssignAwb(f) \/ GeneratePickupAndSave(f) \/ AttemptFails(f)
             \/ Carry(f) \/ TransitionByHand(f)
      PROVE  UNCHANGED sync
  BY <1>9 DEF CreateOrder, AssignAwb, GeneratePickupAndSave, AttemptFails, Attempt, Carry,
              TransitionByHand
<1>10. (\E p \in Processes : RevokeToken(p)) \/ ChangePassword \/ RestartServer => UNCHANGED sync
  BY DEF RevokeToken, ChangePassword, RestartServer
<1> QED
  BY <1>1, <1>3, <1>4, <1>5, <1>6, <1>7, <1>8, <1>9, <1>10 DEF Next, Sync

\* A fulfillment moves only to where its shipment has been.
LEMMA CarrierStep ==
    ASSUME TypeOK, CarrierInv, Next
    PROVE  NotAheadOfCarrier'
<1> DEFINE Ahead(state, reported) ==
              /\ state \notin {"None", "Pending"}
              /\ ReportsOf(state) \cap reported = {}
<1> SUFFICES ASSUME NEW g \in Fulfillments, <<g, fulfillment'[g].state>> \notin byHand'
             PROVE  ~Ahead(fulfillment'[g].state, shipment'[g].reported)
  BY DEF NotAheadOfCarrier
<1>1. <<g, fulfillment'[g].state>> \notin byHand
  <2>1. byHand \subseteq byHand'
    <3>1. ASSUME NEW f \in Fulfillments
          PROVE  CreateOrder(f) \/ AssignAwb(f) \/ GeneratePickupAndSave(f) \/ AttemptFails(f)
                    \/ Carry(f) \/ TransitionByHand(f) => byHand \subseteq byHand'
      BY DEF CreateOrder, AssignAwb, GeneratePickupAndSave, AttemptFails, Attempt, Carry,
             TransitionByHand
    <3>2. (\E p \in Processes : RevokeToken(p)) \/ ChangePassword
             \/ RestartServer \/ RestartWorker => byHand' = byHand
      BY DEF RevokeToken, ChangePassword, RestartServer, RestartWorker
    <3>3. Sync => byHand' = byHand
      BY DEF Sync, SyncStart, SyncStatus, SyncTransition, SyncTrack, SyncSkip, SyncUnchanged
    <3> QED
      BY <3>1, <3>2, <3>3 DEF Next
  <2> QED
    BY <2>1
<1>2. \/ <<g, fulfillment[g].state>> \in byHand
      \/ ~Ahead(fulfillment[g].state, shipment[g].reported)
  BY DEF CarrierInv, NotAheadOfCarrier
<1>3. ASSUME fulfillment'[g].state = fulfillment[g].state
      PROVE  ~Ahead(fulfillment'[g].state, shipment'[g].reported)
  <2>1. ~Ahead(fulfillment[g].state, shipment[g].reported)
    BY <1>1, <1>2, <1>3
  <2> QED
    BY <1>3, <2>1, ReportedGrows
<1>4. ASSUME fulfillment'[g].state = "Pending"
      PROVE  ~Ahead(fulfillment'[g].state, shipment'[g].reported)
  BY <1>4
<1>5. ASSUME NEW f \in Fulfillments, GeneratePickupAndSave(f)
      PROVE  fulfillment'[g].state \in {fulfillment[g].state, "Pending"}
  BY <1>5 DEF GeneratePickupAndSave, TypeOK
<1>6. ASSUME NEW f \in Fulfillments, TransitionByHand(f)
      PROVE  fulfillment'[g].state = fulfillment[g].state
  <2>1. PICK to \in {"Shipped", "Delivered", "Cancelled"} :
           /\ fulfillment' = [fulfillment EXCEPT ![f].state = to]
           /\ byHand' = byHand \cup {<<f, to>>}
    BY <1>6 DEF TransitionByHand
  <2>2. g = f => fulfillment'[g].state = to
    BY <2>1 DEF TypeOK
  <2>3. g # f => fulfillment'[g] = fulfillment[g]
    BY <2>1 DEF TypeOK
  <2> QED
    BY <2>1, <2>2, <2>3
<1>7. CASE SyncStatus
  <2>1. sync.visit.row.id \in Fulfillments
    BY <1>7, VisitAtHand DEF SyncStatus, ActualVisits, ReadRows
  <2>2. fulfillment'[g].state = fulfillment[g].state
    BY <1>7, <2>1 DEF SyncStatus, TypeOK
  <2> QED
    BY <1>3, <2>2
<1>8. CASE SyncTransition
  <2> DEFINE f == sync.visit.row.id
             next == {to \in NextState(sync.visit.label, sync.visit.row.state) :
                         CanTransition(fulfillment[f].state, to)}
             chosen == CHOOSE to \in next : TRUE
  <2>1. sync.visit \in ActualVisits /\ sync.visit # NoVisit
    BY <1>8, VisitAtHand DEF SyncTransition, NoVisit
  <2>2. f \in Fulfillments
    BY <2>1 DEF ActualVisits, ReadRows
  <2>3. sync.visit.label \in shipment[f].reported
    BY <2>1 DEF CarrierInv, VisitInv
  <2>4. \A to \in NextState(sync.visit.label, sync.visit.row.state) :
           ~Ahead(to, shipment[f].reported)
    <3>1. "In Transit" \in shipment[f].reported
      BY <2>2, <2>3 DEF CarrierInv, JourneyInv
    <3> QED
      BY <2>3, <3>1 DEF NextState, ReportsOf
  <2>5. next # {} => ~Ahead(chosen, shipment[f].reported)
    <3>1. next # {} => chosen \in next
      OBVIOUS
    <3> QED
      BY <3>1, <2>4
  <2>6. fulfillment' = IF next = {} THEN fulfillment
                       ELSE [fulfillment EXCEPT ![f].state = chosen]
    BY <1>8, Zenon DEF SyncTransition
  <2>7. shipment' = shipment
    BY <1>8 DEF SyncTransition, SyncUnchanged
  <2>8. next # {} => (IF g = f THEN fulfillment'[g].state = chosen
                               ELSE fulfillment'[g].state = fulfillment[g].state)
    <3> HIDE DEF next, chosen, f
    <3> QED
      BY <2>2, <2>6 DEF TypeOK
  <2>9. next = {} => fulfillment'[g].state = fulfillment[g].state
    <3> HIDE DEF next
    <3> QED
      BY <2>6
  <2> QED
    <3> HIDE DEF next, chosen, f, Ahead
    <3> QED
      BY <1>3, <2>5, <2>7, <2>8, <2>9
<1>9. UNCHANGED fulfillment => fulfillment'[g].state = fulfillment[g].state
  OBVIOUS
<1>10. ASSUME NEW f \in Fulfillments,
              CreateOrder(f) \/ AssignAwb(f) \/ AttemptFails(f) \/ Carry(f)
       PROVE  UNCHANGED fulfillment
  BY <1>10 DEF CreateOrder, AssignAwb, AttemptFails, Carry
<1>11. (\E p \in Processes : RevokeToken(p)) \/ ChangePassword \/ RestartServer \/ RestartWorker
          => UNCHANGED fulfillment
  BY DEF RevokeToken, ChangePassword, RestartServer, RestartWorker
<1>12. SyncStart \/ (\E row \in sync.todo : SyncTrack(row)) \/ (\E row \in sync.todo : SyncSkip(row))
          => UNCHANGED fulfillment
  BY DEF SyncStart, SyncTrack, SyncSkip
<1> HIDE DEF Ahead
<1> QED
  BY <1>3, <1>4, <1>5, <1>6, <1>7, <1>8, <1>9, <1>10, <1>11, <1>12 DEF Next, Sync

\* The job gives a fulfillment no state that the carrier has not reported, for any number of
\* fulfillments, failed visits, restarts and transitions by hand, also of rows it has in hand
\* (syncFulfillmentStatuses).
THEOREM FollowsCarrier == Spec => []NotAheadOfCarrier
<1>1. Init => CarrierInv
  <2> SUFFICES ASSUME Init PROVE CarrierInv
    OBVIOUS
  <2>1. JourneyInv
    BY DEF Init, JourneyInv, NoShipment
  <2>2. VisitInv
    BY DEF Init, VisitInv, NoSync
  <2>3. NotAheadOfCarrier
    BY DEF Init, NotAheadOfCarrier, NoRow
  <2> QED
    BY <2>1, <2>2, <2>3 DEF CarrierInv
<1>2. TypeOK /\ CarrierInv /\ [Next]_vars => CarrierInv'
  <2> SUFFICES ASSUME TypeOK, CarrierInv, [Next]_vars PROVE CarrierInv'
    OBVIOUS
  <2>1. CASE Next
    BY <2>1, JourneyStep, VisitStep, CarrierStep DEF CarrierInv
  <2>2. CASE UNCHANGED vars
    BY <2>2 DEF vars, CarrierInv, JourneyInv, VisitInv, NotAheadOfCarrier
  <2> QED
    BY <2>1, <2>2
<1>3. CarrierInv => NotAheadOfCarrier
  BY DEF CarrierInv
<1> QED
  BY <1>1, <1>2, <1>3, TypeCorrect, PTL DEF Spec

=============================================================================
