---------------------------- MODULE Fulfillment -----------------------------
(***************************************************************************)
(* One shipment served by every fulfilment service at once.                *)
(*                                                                         *)
(* Calls that load rows before they lock or write them come in two steps:  *)
(* Begin keeps what the request loaded, Finish runs the rest of the        *)
(* handler on it, Abandon is an error or a lost client (nothing was        *)
(* written: the transaction rolls back).  Serve is the same call with      *)
(* nobody in between.  All other handlers lock first and are one step.     *)
(***************************************************************************)
EXTENDS Payments, Dispatch, LastMile, ExceptionCases, Returns

CONSTANTS
  Requests,         \* slots for requests under way (none: calls never overlap)
  Overlapping,      \* calls that may be overtaken
  PickupMethods,    \* methods of the shipment on the table ...
  DeliveryMethods   \* ... that Init may choose

ASSUME FulfillmentAssumption ==
  /\ PickupMethods \subseteq PickupMethod
  /\ DeliveryMethods \subseteq DeliveryMethod

VARIABLE inflight   \* what each request under way has loaded

vars == <<core, inflight>>

-----------------------------------------------------------------------------
\* <<call, argument>>: a task, the ordinal of a payment, or nothing (0).
Calls ==
  {"confirm_payment", "pay_quote", "pay_supplement", "accept_dropoff",
   "confirm_origin_arrival", "start_delivery", "issue_pickup_credential",
   "verify_station_pickup"} \X {0}
  \cup {"confirm_pickup", "confirm_pickup_with_reweigh", "confirm_delivery"} \X TaskIds
  \cup {"refund_payment"} \X (1..MaxPayments)

\* The checks a call makes on the rows it loads without a lock.
Loads(call, x) ==
  \/ call \in {"confirm_payment", "pay_quote", "accept_dropoff",
               "confirm_origin_arrival"}
  \/ call = "pay_supplement" /\ PaySupplementReads
  \/ call = "refund_payment" /\ RefundPaymentReads
  \/ call = "confirm_pickup" /\ ConfirmPickupReads(x)
  \/ call = "confirm_pickup_with_reweigh" /\ ReweighReads(x)
  \/ call = "start_delivery" /\ StartDeliveryReads
  \/ call = "confirm_delivery" /\ ConfirmDeliveryReads(x)
  \/ call = "issue_pickup_credential" /\ StationPickupReads
  \/ call = "verify_station_pickup" /\ VerifyStationPickupReads

\* What it does from there to its commit.
Commits(call, x, seen) ==
  \/ call = "confirm_payment" /\ ConfirmPayment(seen)
  \/ call = "pay_quote" /\ PayQuote(seen)
  \/ call = "pay_supplement" /\ PaySupplement(seen)
  \/ call = "refund_payment" /\ RefundPayment(seen, x)
  \/ call = "confirm_pickup" /\ ConfirmPickup(x)
  \/ call = "confirm_pickup_with_reweigh" /\ ConfirmPickupWithReweigh(seen, x)
  \/ call = "accept_dropoff" /\ AcceptDropoff(seen)
  \/ call = "confirm_origin_arrival" /\ ConfirmOriginArrival(seen)
  \/ call = "start_delivery" /\ StartDelivery
  \/ call = "confirm_delivery" /\ ConfirmDelivery(x)
  \/ call = "issue_pickup_credential" /\ IssuePickupCredential(seen)
  \/ call = "verify_station_pickup" /\ VerifyStationPickup(seen)

Serve(call, x) == Loads(call, x) /\ Commits(call, x, Seen)

-----------------------------------------------------------------------------
NothingSeen == [status |-> "NONE", quote |-> [no |-> 0, total |-> 0],
                paid |-> 0, refunded |-> 0]

Idle == [call |-> "idle", arg |-> 0, seen |-> NothingSeen]

\* What of the shipment and its account the call loads before the lock; a call
\* that only reads tasks or proofs finds the shipment fresh under the lock.
Kept(call) ==
  CASE call \in {"confirm_pickup", "start_delivery", "confirm_delivery"} -> NothingSeen
    [] call \in {"confirm_payment", "accept_dropoff", "confirm_origin_arrival",
                 "issue_pickup_credential", "verify_station_pickup"} ->
         [NothingSeen EXCEPT !.status = status]
    [] OTHER -> Seen

Begin(r, call, x) ==
  /\ inflight[r] = Idle
  /\ Loads(call, x)
  /\ inflight' = [inflight EXCEPT ![r] = [call |-> call, arg |-> x, seen |-> Kept(call)]]
  /\ UNCHANGED core

Finish(r) ==
  /\ Commits(inflight[r].call, inflight[r].arg, inflight[r].seen)
  /\ inflight' = [inflight EXCEPT ![r] = Idle]

Abandon(r) ==
  /\ inflight[r] # Idle
  /\ inflight' = [inflight EXCEPT ![r] = Idle]
  /\ UNCHANGED core

-----------------------------------------------------------------------------
Init ==
  /\ Created(PickupMethods, DeliveryMethods)
  /\ inflight = [r \in Requests |-> Idle]

\* Handlers that lock the shipment before they read it.
LockFirst ==
  \/ \E t \in TaskIds, k \in Couriers : AcceptTask(t, k)
  \/ DispatchLinehaul
  \/ ArriveDestination
  \/ CredentialExpires
  \/ \E c \in CaseIds :
       \/ \E blocks \in BOOLEAN : OpenCase(c, blocks)
       \/ \E action \in CaseActions : ActOnCase(c, action)
       \/ \E t \in TaskIds : ReassignTask(c, t)
  \/ ResumeShipment
  \/ Recovers

\* A call that nobody overtakes.
OneCall ==
  /\ \/ \E call \in Calls : Serve(call[1], call[2])
     \/ LockFirst
  /\ UNCHANGED inflight

\* A call under way.
Overlap ==
  \E r \in Requests :
    \/ \E call \in Calls : call[1] \in Overlapping /\ Begin(r, call[1], call[2])
    \/ Finish(r)
    \/ Abandon(r)

Next == OneCall \/ Overlap

Spec == Init /\ [][Next]_vars

\* The specification of a system whose requests never overlap.
SerialSpec == Init /\ [][OneCall]_vars

-----------------------------------------------------------------------------
(* Type correctness *)

Slots == [call : {c[1] : c \in Calls} \cup {"idle"},
          arg  : {c[2] : c \in Calls} \cup {0},
          seen : SeenRows]

\* What a request under way may rely on: it is a call that could begin, a task
\* it names exists, and a supplement it is going to take is positive.
Sound(call, x, seen) ==
  /\ <<call, x>> \in Calls \cup {<<"idle", 0>>}
  /\ call \in {"confirm_pickup", "confirm_pickup_with_reweigh", "confirm_delivery"}
       => tasks[x] \in Task
  /\ call = "pay_supplement" => seen.quote \in Quote /\ Shortfall(seen) > 0

\* The rows are well formed, whatever requests overlap, and every request under
\* way is one that could begin.
TypeOK ==
  /\ CoreTypeOK
  /\ inflight \in [Requests -> Slots]
  /\ \A r \in Requests : Sound(inflight[r].call, inflight[r].arg, inflight[r].seen)

-----------------------------------------------------------------------------
(* Properties that hold however requests overlap *)

\* Statuses that calls without a hold check can still write.
DeskStatus == {"PENDING_PICKUP", "WAITING_FOR_DROPOFF", "AWAITING_SUPPLEMENT",
               "PICKUP_ASSIGNED", "CANCELLED"}

\* What a step under a hold leaves alone.
Frozen ==
  /\ status' \in {status} \cup DeskStatus
  /\ legs' = legs /\ pod' = pod /\ deliveryMethod' = deliveryMethod
  /\ \A t \in TaskIds :
       tasks'[t].status \in {"ACCEPTED", "COMPLETED"}
         => tasks'[t].status = tasks[t].status

\* While an exception holds the shipment nothing physical happens to it: no
\* task is taken or done, no leg departs or arrives, nobody signs, and its
\* status moves, if at all, only to one of the paper statuses above.
HoldFreezes == [][HoldsActive # {} => Frozen]_vars

\* A case that holds the shipment is a live blocking case that froze a status:
\* closing it, or clearing its flag, cannot leave a hold nobody can release.
HeldCaseLive ==
  \A c \in HoldsActive :
    /\ cases[c].blocks
    /\ cases[c].status \notin {"NONE", "CLOSED"}
    /\ cases[c].frozen \in Status

\* A shipment in linehaul has a leg to arrive on; without one neither
\* arrive_destination nor resume_shipment would ever let it go on.
LinehaulHasLeg == status = "IN_LINEHAUL" => legs > 0

\* Once the recipient fetches the parcel from the station no courier may carry
\* it: no delivery task is open and the status is not one of a delivery.
StationPickupHasNoCourier ==
  deliveryMethod = "STATION_PICKUP" =>
    /\ ~ActiveTask("DELIVERY")
    /\ status \notin {"DELIVERY_ASSIGNED", "OUT_FOR_DELIVERY"}

\* Both ways of signing leave a proof of delivery, whatever races with them.
DeliveredHasProof == status = "DELIVERED" => pod

-----------------------------------------------------------------------------
(* Properties of a system whose requests never overlap *)

\* Reweighs, refunds, cancellations and returns never give back more than the
\* customer paid.
RefundWithinPayments == refunded <= paid

\* A shipment is cancelled or returned only together with the refund of all
\* that was paid for it.
SettledOnClose ==
  [][status' # status /\ status' \in {"CANCELLED", "RETURNED"}
       => refunded' = paid']_vars

\* No call brings a cancelled shipment back, not even one on a courier task
\* that the cancellation left open.
CancelledIsFinal == [][status = "CANCELLED" => status' = "CANCELLED"]_vars

\* The bound quote is charged once.
PaidOnce == payments <= 1
=============================================================================
