------------------------------ MODULE Returns -------------------------------
(***************************************************************************)
(* Recovery actions on a shipment (ReturnService).  _execute() locks the   *)
(* shipment and asserts that nothing holds it before any of them; they set *)
(* the status themselves and never consult the transition table.           *)
(***************************************************************************)
EXTENDS ShipmentCore

Cancellable == {"PENDING_PAYMENT", "PENDING_PICKUP", "WAITING_FOR_DROPOFF"}

\* Mutants of RefundedInFull: earlier refunds not counted; the refund not made.
RefundedTwice == refunded' = refunded + paid
RefundDropped == UNCHANGED refunded
\* _refund_paid_amount(): what is paid and not yet refunded, if anything.
RefundedInFull == refunded' = IF paid > refunded THEN paid ELSE refunded

\* _cancel_operation()
CancelShipment ==
  /\ HoldClear
  /\ status \in Cancellable
  /\ RefundedInFull
  /\ status' = "CANCELLED"
  /\ tasks' = Cancelled(TaskType)
  /\ UNCHANGED <<pickupMethod, deliveryMethod, quote, paid, payments, legs, cases,
                 tracked, pod, credential>>

\* request_interception() adds a recovery_cases row that no code reads and
\* leaves the shipment alone; it is left out.

\* _redelivery_operation(): old delivery tasks closed, a new one on offer.
Redeliver ==
  /\ HoldClear
  /\ status \in {"DELIVERY_ASSIGNED", "OUT_FOR_DELIVERY"}
  /\ \E t \in TaskIds :
       /\ Unused(t)
       /\ tasks' = [Cancelled({"DELIVERY"}) EXCEPT ![t] = NewTask("DELIVERY")]
  /\ status' = "DELIVERY_ASSIGNED"
  /\ UNCHANGED <<pickupMethod, deliveryMethod, quote, money, legs, cases, tracked, pod,
                 credential>>

\* _convert_to_pickup_operation()
ConvertToPickup ==
  /\ HoldClear
  /\ status \in {"AT_DESTINATION_STATION", "DELIVERY_ASSIGNED", "OUT_FOR_DELIVERY"}
  /\ tasks' = Cancelled({"DELIVERY"})
  /\ deliveryMethod' = "STATION_PICKUP"
  /\ status' = "WAITING_FOR_RECIPIENT_PICKUP"
  /\ UNCHANGED <<pickupMethod, quote, money, legs, cases, tracked, pod, credential>>

\* _approve_return_operation(): tasks and legs stay as they are.
ApproveReturn ==
  /\ HoldClear
  /\ status \notin {"PENDING_PAYMENT", "CANCELLED", "DELIVERED"}
  /\ status' = "RETURN_APPROVED"
  /\ UNCHANGED <<pickupMethod, deliveryMethod, quote, money, tasks, legs, cases,
                 tracked, pod, credential>>

\* advance_return(), first call: the way back starts.
StartReturn ==
  /\ HoldClear
  /\ status = "RETURN_APPROVED"
  /\ status' = "IN_RETURN"
  /\ LegDeparts
  /\ UNCHANGED <<pickupMethod, deliveryMethod, quote, money, tasks, cases, tracked,
                 pod, credential>>

\* advance_return(), second call: back at the sender, refunded, one leg closed.
CompleteReturn ==
  /\ HoldClear
  /\ status = "IN_RETURN"
  /\ status' = "RETURNED"
  /\ RefundedInFull
  /\ legs' = IF legs > 0 THEN legs - 1 ELSE legs
  /\ UNCHANGED <<pickupMethod, deliveryMethod, quote, paid, payments, tasks, cases,
                 tracked, pod, credential>>

\* A recovery action of the customer or an operator.
Recovers ==
  CancelShipment \/ Redeliver \/ ConvertToPickup \/ ApproveReturn \/ StartReturn
    \/ CompleteReturn
=============================================================================
