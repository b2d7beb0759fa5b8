------------------------------ MODULE Payments ------------------------------
(***************************************************************************)
(* Charging and refunding a shipment: PaymentService, and the older        *)
(* POST /shipments/{id}/confirm-payment endpoint, which moves the shipment *)
(* on without any transaction.  XReads is what the handler checks when it  *)
(* loads its rows, X what it does from there to its commit.                *)
(***************************************************************************)
EXTENDS ShipmentCore

\* Where a payment takes the shipment.
PaidTarget == IF pickupMethod = "DOOR_PICKUP" THEN "PENDING_PICKUP"
                                              ELSE "WAITING_FOR_DROPOFF"

\* Both payment endpoints: move on (or replay the move), then, for a door
\* pickup, create a task for the couriers, on a replay as well.
Booked(seen) ==
  /\ TransitionFrom(seen.status, PaidTarget, <<"confirm_payment", 0>>)
  /\ IF pickupMethod = "DOOR_PICKUP" THEN CreatePickupTask ELSE UNCHANGED tasks

ConfirmPayment(seen) ==
  /\ Booked(seen)
  /\ UNCHANGED <<pickupMethod, deliveryMethod, quote, money, legs, cases, pod,
                 credential>>

-----------------------------------------------------------------------------
\* Mutant: only a cancelled shipment refuses a payment.
PayableTwice(seen) == seen.status # "CANCELLED"
\* The status pay_quote() looks at is the one it loaded before it locked.
Payable(seen) == seen.status = "PENDING_PAYMENT"

PayQuote(seen) ==
  /\ HoldClear
  /\ Payable(seen)
  /\ payments < MaxPayments
  /\ paid' = paid + seen.quote.total
  /\ payments' = payments + 1
  /\ Booked(seen)
  /\ UNCHANGED <<pickupMethod, deliveryMethod, quote, refunded, legs, cases, pod,
                 credential>>

-----------------------------------------------------------------------------
\* What the customer still owes, refunds left out of the account.
Shortfall(seen) == seen.quote.total - seen.paid

PaySupplementReads == Shortfall(Seen) > 0

\* Neither lock nor hold check; the money is taken whatever the status is.
PaySupplement(seen) ==
  /\ paid' = paid + Shortfall(seen)
  /\ IF seen.status = "AWAITING_SUPPLEMENT"
       THEN TransitionFrom(seen.status, "PICKUP_ASSIGNED",
                           <<"pay_supplement", seen.quote.no>>)
       ELSE UNCHANGED <<status, tracked>>
  /\ UNCHANGED <<pickupMethod, deliveryMethod, quote, refunded, payments, tasks, legs,
                 cases, pod, credential>>

-----------------------------------------------------------------------------
\* Statuses in which the customer may take the money back.
Refundable == {"PENDING_PICKUP", "WAITING_FOR_DROPOFF"}

RefundPaymentReads == payments > 0 /\ status \in Refundable

\* refund_payment() of the n-th PAYMENT: all that was ever paid goes back, the
\* shipment is cancelled, its courier tasks are left as they are.
RefundPayment(seen, n) ==
  /\ n \in 1..payments
  /\ refunded' = refunded + seen.paid
  /\ TransitionFrom(seen.status, "CANCELLED", <<"cancel", n>>)
  /\ UNCHANGED <<pickupMethod, deliveryMethod, quote, paid, payments, tasks, legs,
                 cases, pod, credential>>
=============================================================================
