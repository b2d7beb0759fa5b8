------------------------------ MODULE LastMile ------------------------------
(***************************************************************************)
(* From the origin station to the recipient: LinehaulService (lock first)  *)
(* and LastMileService (tasks, proofs and shipments loaded first, in part).*)
(***************************************************************************)
EXTENDS ShipmentCore

\* dispatch_linehaul(): the leg is added whether or not the move is a replay.
DispatchLinehaul ==
  /\ HoldClear
  /\ TransitionFrom(status, "IN_LINEHAUL", <<"dispatch_linehaul", 0>>)
  /\ LegDeparts
  /\ UNCHANGED <<pickupMethod, deliveryMethod, quote, money, tasks, cases, pod,
                 credential>>

\* arrive_destination(): needs a leg under way, on a replay as well, and
\* creates the delivery task of a home delivery.
ArriveDestination ==
  /\ HoldClear
  /\ legs > 0
  /\ TransitionFrom(status, "AT_DESTINATION_STATION", <<"arrive_destination", 0>>)
  /\ legs' = legs - 1
  /\ IF deliveryMethod = "HOME_DELIVERY"
       THEN \E t \in TaskIds : /\ Unused(t)
                               /\ tasks' = [tasks EXCEPT ![t] = NewTask("DELIVERY")]
       ELSE UNCHANGED tasks
  /\ UNCHANGED <<pickupMethod, deliveryMethod, quote, money, cases, pod, credential>>

-----------------------------------------------------------------------------
\* _delivery_task(): the first DELIVERY row the database returns, any of them.
StartDeliveryReads ==
  \E t \in TaskIds : tasks[t].type = "DELIVERY" /\ tasks[t].status = "ACCEPTED"

StartDelivery ==
  /\ HoldClear
  /\ TransitionFrom(status, "OUT_FOR_DELIVERY", <<"start_delivery", 0>>)
  /\ UNCHANGED <<pickupMethod, deliveryMethod, quote, money, tasks, legs, cases, pod,
                 credential>>

\* Only the assignee is checked, not the status of the task.
ConfirmDeliveryReads(t) ==
  /\ ~pod
  /\ tasks[t].type = "DELIVERY"
  /\ tasks[t].assignee # NoCourier

\* A proofs_of_delivery row, unique per shipment: a second one aborts.
ProofForgotten == ~pod /\ UNCHANGED pod
Signed == ~pod /\ pod' = TRUE

ConfirmDelivery(t) ==
  /\ HoldClear
  /\ TransitionFrom(status, "DELIVERED", <<"confirm_delivery", 0>>)
  /\ Signed
  /\ tasks' = [tasks EXCEPT ![t].status = "COMPLETED"]
  /\ UNCHANGED <<pickupMethod, deliveryMethod, quote, money, legs, cases, credential>>

-----------------------------------------------------------------------------
\* _require_station_pickup()
StationPickupReads == deliveryMethod = "STATION_PICKUP"

\* issue_pickup_credential(): expires the newest code and adds a new one; the
\* shipment moves on only from the destination station.
IssuePickupCredential(seen) ==
  /\ HoldClear
  /\ IF seen.status = "AT_DESTINATION_STATION"
       THEN TransitionFrom(seen.status, "WAITING_FOR_RECIPIENT_PICKUP",
                           <<"issue_pickup_credential", 0>>)
       ELSE UNCHANGED <<status, tracked>>
  /\ credential' = TRUE
  /\ UNCHANGED <<pickupMethod, deliveryMethod, quote, money, tasks, legs, cases, pod>>

\* Thirty minutes pass.
CredentialExpires ==
  /\ credential
  /\ credential' = FALSE
  /\ UNCHANGED <<row, money, tasks, legs, cases, tracked, pod>>

VerifyStationPickupReads == ~pod /\ StationPickupReads

\* verify_station_pickup() with the right code; a wrong one is rolled back
\* with its count of failures.
VerifyStationPickup(seen) ==
  /\ HoldClear
  /\ credential
  /\ credential' = FALSE
  /\ TransitionFrom(seen.status, "DELIVERED", <<"verify_station_pickup", 0>>)
  /\ Signed
  /\ UNCHANGED <<pickupMethod, deliveryMethod, quote, money, tasks, legs, cases>>
=============================================================================
