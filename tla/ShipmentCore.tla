---------------------------- MODULE ShipmentCore ----------------------------
(***************************************************************************)
(* The database rows of one shipment, shared by every handler of the       *)
(* fulfilment services, and the helpers those handlers call.               *)
(*                                                                         *)
(* A handler is one PostgreSQL transaction at READ COMMITTED.  A handler   *)
(* that takes the shipment row lock before it reads anything is a single   *)
(* action.  A handler that loads the shipment first and locks (or writes)  *)
(* it later works on what it loaded: SQLAlchemy's identity map does not    *)
(* refresh an object that is already loaded, not even from a SELECT ...    *)
(* FOR UPDATE.  Such a handler takes the snapshot "seen" as a parameter:   *)
(* Seen is the snapshot of a request nobody overlaps, an older snapshot is *)
(* that of a request that was overtaken (module Fulfillment).              *)
(***************************************************************************)
EXTENDS ShipmentStates

CONSTANTS
  TaskIds,          \* courier_tasks rows that may exist for the shipment
  CaseIds,          \* exception_cases rows that may exist for the shipment
  Couriers,         \* couriers of the stations involved
  Totals,           \* total_cents a quote can come to, in abstract units
  MaxQuotes,        \* bound: quotes bound to the shipment, reweighs included
  MaxPayments,      \* bound: PAYMENT transactions
  MaxLegs,          \* bound: transport legs IN_TRANSIT at once
  NoCourier         \* assignee_id IS NULL

ASSUME CoreAssumption ==
  /\ Totals \subseteq Nat \ {0}
  /\ MaxQuotes \in Nat \ {0} /\ MaxPayments \in Nat /\ MaxLegs \in Nat
  /\ NoCourier \notin Couriers

VARIABLES
  status,           \* shipments.status
  pickupMethod,     \* shipments.pickup_method
  deliveryMethod,   \* shipments.delivery_method
  quote,            \* the bound quote: its ordinal and its total
  paid,             \* sum of PAYMENT and SUPPLEMENT amounts
  refunded,         \* sum of REFUND amounts
  payments,         \* number of PAYMENT transactions
  tasks,            \* courier_tasks
  legs,             \* number of transport_legs IN_TRANSIT
  cases,            \* exception_cases, each with its shipment_hold
  tracked,          \* idempotency keys of tracking_events
  pod,              \* a proofs_of_delivery row exists
  credential        \* the newest unconsumed pickup code is still valid

money == <<paid, refunded, payments>>
row   == <<status, pickupMethod, deliveryMethod, quote>>
core  == <<status, pickupMethod, deliveryMethod, quote, paid, refunded, payments,
           tasks, legs, cases, tracked, pod, credential>>

-----------------------------------------------------------------------------
(* Types *)

Quote == [no : 1..MaxQuotes, total : Totals]
NoTask == [type |-> "NONE", status |-> "NONE", assignee |-> NoCourier]
Task  == [type : TaskType, status : TaskStatus, assignee : Couriers \cup {NoCourier}]
NoCase == [status |-> "NONE", blocks |-> FALSE, held |-> FALSE, frozen |-> "NONE"]
Case  == [status : CaseStatus, blocks : BOOLEAN, held : BOOLEAN,
          frozen : Status \cup {"NONE"}]
\* A key of ShipmentTransitionService: the action and the row it is about.
Keys  == {"confirm_payment", "accept_dropoff", "confirm_origin_arrival",
          "dispatch_linehaul", "arrive_destination", "start_delivery",
          "confirm_delivery", "issue_pickup_credential", "verify_station_pickup"}
           \X {0}
         \cup {"pay_supplement", "cancel"} \X (1..MaxQuotes \cup 1..MaxPayments)
         \cup {"assign", "confirm_pickup"} \X TaskIds

-----------------------------------------------------------------------------
(* What a handler that loads before it locks has in memory. *)

SeenRows == [status : Status \cup {"NONE"},
             quote : [no : 0..MaxQuotes, total : Nat],
             paid : Nat, refunded : Nat]

Seen == [status |-> status, quote |-> quote, paid |-> paid, refunded |-> refunded]

\* An UPDATE is sent only for an attribute that changed in memory.
Written(seen, new) == IF new = seen.status THEN status ELSE new

-----------------------------------------------------------------------------
(* shipments/control.py *)

HoldsActive == {c \in CaseIds : cases[c].held}

\* Mutant: only cases nobody works on yet count.
HoldClearOfOpenCases == \A c \in HoldsActive : cases[c].status # "OPEN"

\* lock_and_assert_fulfillment_allowed(): the hold query runs after the lock.
HoldClear == HoldsActive = {}

Active(task) == task.status \in {"AVAILABLE", "ACCEPTED"}

ActiveTask(type) == \E t \in TaskIds : Active(tasks[t]) /\ tasks[t].type = type

-----------------------------------------------------------------------------
(* shipments/service.py, ShipmentTransitionService.transition(): a known   *)
(* event key returns the old event and leaves the status alone; otherwise  *)
(* the move from the status in memory must be in the table.                *)

TransitionFrom(from, target, key) ==
  \/ /\ key \in tracked
     /\ UNCHANGED <<status, tracked>>
  \/ /\ key \notin tracked
     /\ Legal(from, target)
     /\ status' = target
     /\ tracked' = tracked \cup {key}

-----------------------------------------------------------------------------
(* Courier task rows *)

Unused(t) == tasks[t] = NoTask

NewTask(type) == [type |-> type, status |-> "AVAILABLE", assignee |-> NoCourier]

\* Mutant: a task a courier has accepted is left alone.
CancelledOffers(types) ==
  [t \in TaskIds |-> IF tasks[t].status = "AVAILABLE" /\ tasks[t].type \in types
                     THEN [tasks[t] EXCEPT !.status = "CANCELLED"]
                     ELSE tasks[t]]

\* Every active task whose type is in types, closed as CANCELLED.
Cancelled(types) ==
  [t \in TaskIds |-> IF Active(tasks[t]) /\ tasks[t].type \in types
                     THEN [tasks[t] EXCEPT !.status = "CANCELLED"]
                     ELSE tasks[t]]

\* DispatchService.create_pickup_task()
CreatePickupTask ==
  \E t \in TaskIds : Unused(t) /\ tasks' = [tasks EXCEPT ![t] = NewTask("PICKUP")]

-----------------------------------------------------------------------------
(* Transport legs *)

\* Mutant: the leg is not added to the session.
LegForgotten == UNCHANGED legs

\* A TransportLeg is added IN_TRANSIT.
LegDeparts == legs < MaxLegs /\ legs' = legs + 1

-----------------------------------------------------------------------------
\* ShipmentApplicationService.create(), for the methods the caller allows.
Created(pickupMethods, deliveryMethods) ==
  /\ status = "PENDING_PAYMENT"
  /\ pickupMethod \in pickupMethods
  /\ deliveryMethod \in deliveryMethods
  /\ quote \in [no : {1}, total : Totals]
  /\ paid = 0 /\ refunded = 0 /\ payments = 0
  /\ tasks = [t \in TaskIds |-> NoTask]
  /\ legs = 0
  /\ cases = [c \in CaseIds |-> NoCase]
  /\ tracked = {}
  /\ pod = FALSE
  /\ credential = FALSE

\* The rows are well formed.
CoreTypeOK ==
  /\ status \in Status
  /\ pickupMethod \in PickupMethod
  /\ deliveryMethod \in DeliveryMethod
  /\ quote \in Quote
  /\ paid \in Nat /\ refunded \in Nat /\ payments \in 0..MaxPayments
  /\ tasks \in [TaskIds -> Task \cup {NoTask}]
  /\ legs \in 0..MaxLegs
  /\ cases \in [CaseIds -> Case \cup {NoCase}]
  /\ tracked \subseteq Keys
  /\ pod \in BOOLEAN /\ credential \in BOOLEAN
=============================================================================
