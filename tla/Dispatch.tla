------------------------------ MODULE Dispatch ------------------------------
(***************************************************************************)
(* The sending end: couriers take tasks, collect and reweigh the parcel,   *)
(* the origin station receives it (DispatchService, dispatch/router.py and *)
(* ShipmentApplicationService.reweigh).                                    *)
(***************************************************************************)
EXTENDS ShipmentCore

AcceptTarget(task) == IF task.type = "PICKUP" THEN "PICKUP_ASSIGNED"
                                              ELSE "DELIVERY_ASSIGNED"

\* accept_task(): the row lock comes before the shipment is read, and the
\* UPDATE ... WHERE status = 'AVAILABLE' lets one courier through.
AcceptTask(t, courier) ==
  /\ HoldClear
  /\ tasks[t].status = "AVAILABLE"
  /\ tasks' = [tasks EXCEPT ![t].status = "ACCEPTED", ![t].assignee = courier]
  /\ TransitionFrom(status, AcceptTarget(tasks[t]), <<"assign", t>>)
  /\ UNCHANGED <<pickupMethod, deliveryMethod, quote, money, legs, cases, pod,
                 credential>>

-----------------------------------------------------------------------------
\* The task is read without a lock; its type is not looked at.
ConfirmPickupReads(t) == tasks[t].status = "ACCEPTED"

ConfirmPickup(t) ==
  /\ HoldClear
  /\ tasks' = [tasks EXCEPT ![t].status = "COMPLETED"]
  /\ TransitionFrom(status, "PICKED_UP", <<"confirm_pickup", t>>)
  /\ UNCHANGED <<pickupMethod, deliveryMethod, quote, money, legs, cases, pod,
                 credential>>

-----------------------------------------------------------------------------
(* confirm_pickup_with_reweigh(): new quote, settlement, then the pickup,  *)
(* unless the shipment in memory now waits for money: that is committed    *)
(* and the pickup refused.                                                 *)

ReweighReads(t) == tasks[t].status = "ACCEPTED" /\ tasks[t].type = "PICKUP"

\* New total against everything paid and refunded so far.
Difference(seen, total) == total - (seen.paid - seen.refunded)

\* The status reweigh() leaves in memory.
Reweighed(seen, total) ==
  CASE Difference(seen, total) > 0 -> "AWAITING_SUPPLEMENT"
    [] Difference(seen, total) = 0 /\ seen.status = "AWAITING_SUPPLEMENT" ->
         "PICKUP_ASSIGNED"
    [] OTHER -> seen.status

\* Mutant: the sign of the difference is lost.
OverpaidSigned(seen, total) ==
  IF Difference(seen, total) < 0 THEN Difference(seen, total) ELSE 0
\* The refund of a reweigh that came out below what was paid.
Overpaid(seen, total) ==
  IF Difference(seen, total) < 0 THEN -Difference(seen, total) ELSE 0

\* The facts reweigh() adds, whichever way the pickup goes.
NewQuote(seen, total) ==
  /\ quote.no < MaxQuotes
  /\ quote' = [no |-> quote.no + 1, total |-> total]
  /\ refunded' = refunded + Overpaid(seen, total)

ReweighRefused(seen, total) ==
  /\ Reweighed(seen, total) = "AWAITING_SUPPLEMENT"
  /\ NewQuote(seen, total)
  /\ status' = Written(seen, "AWAITING_SUPPLEMENT")
  /\ UNCHANGED <<pickupMethod, deliveryMethod, paid, payments, tasks, legs, cases,
                 tracked, pod, credential>>

ReweighCollected(seen, t, total) ==
  /\ Reweighed(seen, total) # "AWAITING_SUPPLEMENT"
  /\ HoldClear
  /\ NewQuote(seen, total)
  /\ tasks' = [tasks EXCEPT ![t].status = "COMPLETED"]
  /\ IF <<"confirm_pickup", t>> \in tracked
       THEN /\ status' = Written(seen, Reweighed(seen, total))
            /\ UNCHANGED tracked
       ELSE TransitionFrom(Reweighed(seen, total), "PICKED_UP",
                           <<"confirm_pickup", t>>)
  /\ UNCHANGED <<pickupMethod, deliveryMethod, paid, payments, legs, cases, pod,
                 credential>>

ConfirmPickupWithReweigh(seen, t) ==
  \E total \in Totals : \/ ReweighRefused(seen, total)
                        \/ ReweighCollected(seen, t, total)

-----------------------------------------------------------------------------
\* accept_dropoff() and confirm_origin_arrival(): the shipment is loaded for
\* the station check, then locked; the move starts from what was loaded.
ReachOrigin(seen, action) ==
  /\ HoldClear
  /\ TransitionFrom(seen.status, "AT_ORIGIN_STATION", <<action, 0>>)
  /\ UNCHANGED <<pickupMethod, deliveryMethod, quote, money, tasks, legs, cases, pod,
                 credential>>

AcceptDropoff(seen)        == ReachOrigin(seen, "accept_dropoff")
ConfirmOriginArrival(seen) == ReachOrigin(seen, "confirm_origin_arrival")
=============================================================================
