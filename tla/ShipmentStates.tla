--------------------------- MODULE ShipmentStates ---------------------------
(***************************************************************************)
(* The two pure state machines of the system: the life of a shipment       *)
(* (shipments/state_machine.py) and of an exception case                   *)
(* (exceptions/state_machine.py), with the enumerations they range over.   *)
(* Nothing here has state: handlers elsewhere consult the tables.          *)
(***************************************************************************)
EXTENDS FiniteSets, Integers

Status ==
  {"PENDING_PAYMENT", "AWAITING_SUPPLEMENT", "PENDING_PICKUP",
   "PICKUP_ASSIGNED", "WAITING_FOR_DROPOFF", "PICKED_UP",
   "AT_ORIGIN_STATION", "IN_LINEHAUL", "AT_DESTINATION_STATION",
   "DELIVERY_ASSIGNED", "OUT_FOR_DELIVERY", "WAITING_FOR_RECIPIENT_PICKUP",
   "DELIVERED", "CANCELLED", "RETURN_APPROVED", "IN_RETURN", "RETURNED"}

\* The moves the table allows, as pairs; DELIVERED, CANCELLED and RETURNED
\* have no way out.
Moves ==
  {<<"PENDING_PAYMENT", s>> :
      s \in {"PENDING_PICKUP", "WAITING_FOR_DROPOFF", "CANCELLED"}}
  \cup {<<"AWAITING_SUPPLEMENT", s>> :
      s \in {"PICKUP_ASSIGNED", "PICKED_UP", "CANCELLED"}}
  \cup {<<"PENDING_PICKUP", s>> : s \in {"PICKUP_ASSIGNED", "CANCELLED"}}
  \cup {<<"WAITING_FOR_DROPOFF", s>> : s \in {"AT_ORIGIN_STATION", "CANCELLED"}}
  \cup {<<"AT_DESTINATION_STATION", s>> :
      s \in {"DELIVERY_ASSIGNED", "WAITING_FOR_RECIPIENT_PICKUP", "RETURN_APPROVED"}}
  \cup {<<"DELIVERY_ASSIGNED", s>> :
      s \in {"OUT_FOR_DELIVERY", "WAITING_FOR_RECIPIENT_PICKUP", "RETURN_APPROVED"}}
  \cup {<<"OUT_FOR_DELIVERY", s>> :
      s \in {"DELIVERED", "DELIVERY_ASSIGNED", "WAITING_FOR_RECIPIENT_PICKUP",
             "RETURN_APPROVED"}}
  \cup {<<"PICKUP_ASSIGNED", "PICKED_UP">>,
        <<"PICKED_UP", "AT_ORIGIN_STATION">>,
        <<"AT_ORIGIN_STATION", "IN_LINEHAUL">>,
        <<"IN_LINEHAUL", "AT_DESTINATION_STATION">>,
        <<"WAITING_FOR_RECIPIENT_PICKUP", "DELIVERED">>,
        <<"RETURN_APPROVED", "IN_RETURN">>,
        <<"IN_RETURN", "RETURNED">>}

\* Mutant: the table is not consulted.
AnyMove(current, target) == current # target

\* transition(): a target outside the row of the current status is a 409.
Legal(current, target) == <<current, target>> \in Moves

PickupMethod   == {"DOOR_PICKUP", "STATION_DROPOFF"}
DeliveryMethod == {"HOME_DELIVERY", "STATION_PICKUP"}

TaskType   == {"PICKUP", "DELIVERY"}
TaskStatus == {"AVAILABLE", "ACCEPTED", "COMPLETED", "CANCELLED"}

CaseStatus == {"OPEN", "ASSIGNED", "PROCESSING", "WAITING_FOR_CUSTOMER",
               "RESOLVED", "CLOSED"}

\* <<status, action, next status>> of an exception case.
CaseMoves ==
  {<<"OPEN", "assign", "ASSIGNED">>,
   <<"ASSIGNED", "start_processing", "PROCESSING">>,
   <<"PROCESSING", "wait_for_customer", "WAITING_FOR_CUSTOMER">>,
   <<"PROCESSING", "resolve", "RESOLVED">>,
   <<"WAITING_FOR_CUSTOMER", "resume_processing", "PROCESSING">>,
   <<"WAITING_FOR_CUSTOMER", "resolve", "RESOLVED">>,
   <<"RESOLVED", "close", "CLOSED">>}
=============================================================================
