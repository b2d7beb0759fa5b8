------------------------- MODULE FulfillmentProofs --------------------------
(***************************************************************************)
(* Proofs about Fulfillment for any tasks, cases, couriers, totals and     *)
(* requests, however the requests overlap; the parts about money first say *)
(* what holds if they do not, then how much overlap it bears.              *)
(*                                                                         *)
(* Every step of the specification is a step of a handler on the rows      *)
(* (CoreStep) or leaves the rows alone.  Type correctness comes first,     *)
(* then the invariants that relate the rows, each from CoreStep.           *)
(***************************************************************************)
EXTENDS Fulfillment, TLAPS

-----------------------------------------------------------------------------
(* Operators the handlers share *)

LEMMA CoreAssumptions ==
  /\ Totals \subseteq Nat \ {0} /\ MaxQuotes \in Nat \ {0}
  /\ MaxPayments \in Nat /\ MaxLegs \in Nat /\ NoCourier \notin Couriers
  BY CoreAssumption

\* The transition service writes a status and a key of the right kind.
LEMMA TransitionTyped ==
  ASSUME CoreTypeOK, NEW from, NEW target \in Status, NEW key \in Keys,
         TransitionFrom(from, target, key)
  PROVE  status' \in Status /\ tracked' \subseteq Keys
  BY DEF CoreTypeOK, TransitionFrom

LEMMA KeyActions ==
  /\ \A a \in {"confirm_payment", "accept_dropoff", "confirm_origin_arrival",
               "dispatch_linehaul", "arrive_destination", "start_delivery",
               "confirm_delivery", "issue_pickup_credential",
               "verify_station_pickup"} : <<a, 0>> \in Keys
  /\ \A n \in 1..MaxQuotes : <<"pay_supplement", n>> \in Keys
  /\ \A n \in 1..MaxPayments : <<"cancel", n>> \in Keys
  /\ \A t \in TaskIds : <<"assign", t>> \in Keys /\ <<"confirm_pickup", t>> \in Keys
  BY DEF Keys

LEMMA TaskKinds ==
  /\ \A type \in TaskType : NewTask(type) \in Task
  /\ NoTask \notin Task
  /\ ~Active(NoTask)
  BY DEF NewTask, NoTask, Task, TaskType, TaskStatus, Active

\* A task row that exists is never lost.
TasksKept == \A t \in TaskIds : tasks[t] \in Task => tasks'[t] \in Task

LEMMA CancelledTyped ==
  ASSUME CoreTypeOK, NEW types
  PROVE  /\ Cancelled(types) \in [TaskIds -> Task \cup {NoTask}]
         /\ \A t \in TaskIds : tasks[t] \in Task => Cancelled(types)[t] \in Task
  BY TaskKinds DEF CoreTypeOK, Cancelled, Task, TaskStatus

LEMMA CreateTyped ==
  ASSUME CoreTypeOK, CreatePickupTask
  PROVE  tasks' \in [TaskIds -> Task \cup {NoTask}] /\ TasksKept
  BY TaskKinds DEF CoreTypeOK, CreatePickupTask, TasksKept, TaskType

\* Setting the status of a row that exists.
LEMMA StatusTyped ==
  ASSUME CoreTypeOK, NEW t \in TaskIds, tasks[t] \in Task, NEW s \in TaskStatus,
         tasks' = [tasks EXCEPT ![t].status = s]
  PROVE  tasks' \in [TaskIds -> Task \cup {NoTask}] /\ TasksKept
  BY DEF CoreTypeOK, TasksKept, Task

-----------------------------------------------------------------------------
(* Steps of the handlers *)

\* A call commits on what it has loaded.
CommitStep ==
  \E call \in Calls, seen \in SeenRows :
    Sound(call[1], call[2], seen) /\ Commits(call[1], call[2], seen)

CoreStep == CommitStep \/ LockFirst \/ UNCHANGED core

LEMMA SeenTyped == CoreTypeOK => Seen \in SeenRows
<1>1. Totals \subseteq Nat /\ 1..MaxQuotes \subseteq 0..MaxQuotes
  BY CoreAssumptions
<1>2. Quote \subseteq [no : 0..MaxQuotes, total : Nat]
  BY <1>1 DEF Quote
<1>3. CoreTypeOK => /\ status \in Status /\ quote \in Quote
                    /\ paid \in Nat /\ refunded \in Nat
  BY DEF CoreTypeOK
<1> QED
  BY <1>2, <1>3 DEF Seen, SeenRows

LEMMA CallArguments ==
  ASSUME NEW call \in Calls
  PROVE  /\ call = <<call[1], call[2]>>
         /\ call[1] # "idle"
         /\ call[1] \in {"confirm_pickup", "confirm_pickup_with_reweigh",
                         "confirm_delivery"} => call[2] \in TaskIds
         /\ call[1] = "refund_payment" => call[2] \in 1..MaxPayments
  BY DEF Calls

\* A call that has just loaded its rows is sound.
LEMMA LoadsSound ==
  ASSUME CoreTypeOK, NEW call \in Calls, Loads(call[1], call[2])
  PROVE  Sound(call[1], call[2], Seen)
<1>2. ASSUME call[1] \in {"confirm_pickup", "confirm_pickup_with_reweigh",
                          "confirm_delivery"}
      PROVE  tasks[call[2]] \in Task
  <2>1. call[2] \in TaskIds
    BY <1>2, CallArguments
  <2>2. tasks[call[2]] # NoTask
    BY <1>2 DEF Loads, ConfirmPickupReads, ReweighReads, ConfirmDeliveryReads, NoTask
  <2> QED
    BY <2>1, <2>2 DEF CoreTypeOK
<1>3. ASSUME call[1] = "pay_supplement"
      PROVE  Seen.quote \in Quote /\ Shortfall(Seen) > 0
  BY <1>3 DEF Loads, PaySupplementReads, CoreTypeOK, Seen
<1> QED
  BY <1>2, <1>3, CallArguments DEF Sound

LEMMA ServeSteps ==
  ASSUME CoreTypeOK, NEW call \in Calls, Serve(call[1], call[2])
  PROVE  CommitStep
  BY LoadsSound, SeenTyped DEF Serve, CommitStep

LEMMA NextIsCoreStep == TypeOK /\ [Next]_vars => CoreStep
<1> SUFFICES ASSUME TypeOK, [Next]_vars PROVE CoreStep
  OBVIOUS
<1>1. CASE OneCall
  BY <1>1, ServeSteps DEF OneCall, CoreStep, TypeOK
<1>2. ASSUME NEW r \in Requests, Finish(r) PROVE CommitStep
  <2> DEFINE call == <<inflight[r].call, inflight[r].arg>>
  <2>1. Sound(call[1], call[2], inflight[r].seen)
    BY DEF TypeOK
  <2>2. Commits(call[1], call[2], inflight[r].seen)
    BY <1>2 DEF Finish
  <2>3. call # <<"idle", 0>>
    BY <2>2 DEF Commits
  <2>4. call \in Calls /\ inflight[r].seen \in SeenRows
    BY <2>1, <2>3 DEF Sound, TypeOK, Slots
  <2> HIDE DEF call
  <2> QED
    BY <2>1, <2>2, <2>4 DEF CommitStep
<1>3. CASE Overlap
  BY <1>2, <1>3 DEF Overlap, Begin, Abandon, CoreStep
<1>4. CASE UNCHANGED vars
  BY <1>4 DEF vars, core, CoreStep
<1> QED
  BY <1>1, <1>3, <1>4 DEF Next

-----------------------------------------------------------------------------
(* Type correctness, service by service *)

\* What a handler leaves behind.
Typed == CoreTypeOK' /\ TasksKept

LEMMA UntouchedTasks == CoreTypeOK /\ UNCHANGED tasks => TasksKept
  BY DEF TasksKept

LEMMA BookedTyped ==
  ASSUME CoreTypeOK, NEW seen, Booked(seen)
  PROVE  /\ status' \in Status /\ tracked' \subseteq Keys
         /\ tasks' \in [TaskIds -> Task \cup {NoTask}] /\ TasksKept
<1>1. PaidTarget \in Status /\ <<"confirm_payment", 0>> \in Keys
  BY KeyActions DEF PaidTarget, Status
<1>2. status' \in Status /\ tracked' \subseteq Keys
  BY <1>1, TransitionTyped DEF Booked
<1>3. CASE pickupMethod = "DOOR_PICKUP"
  BY <1>2, <1>3, CreateTyped DEF Booked
<1>4. CASE pickupMethod # "DOOR_PICKUP"
  BY <1>2, <1>4, UntouchedTasks DEF Booked, CoreTypeOK
<1> QED
  BY <1>3, <1>4

LEMMA PaymentsTyped ==
  ASSUME CoreTypeOK, NEW seen \in SeenRows
  PROVE  /\ ConfirmPayment(seen) => Typed
         /\ PayQuote(seen) => Typed
         /\ seen.quote \in Quote /\ Shortfall(seen) > 0 /\ PaySupplement(seen) => Typed
         /\ \A n \in 1..MaxPayments : RefundPayment(seen, n) => Typed
<1>1. seen.paid \in Nat /\ seen.refunded \in Nat /\ seen.quote.total \in Nat
  BY DEF SeenRows
<1>2. ASSUME ConfirmPayment(seen) PROVE Typed
  BY <1>2, BookedTyped DEF ConfirmPayment, Typed, CoreTypeOK, money
<1>3. ASSUME PayQuote(seen) PROVE Typed
  <2>1. paid' \in Nat /\ payments' \in 0..MaxPayments
    BY <1>1, <1>3, CoreAssumptions DEF PayQuote, CoreTypeOK
  <2>2. /\ status' \in Status /\ tracked' \subseteq Keys
        /\ tasks' \in [TaskIds -> Task \cup {NoTask}] /\ TasksKept
    BY <1>3, BookedTyped DEF PayQuote
  <2> QED
    BY <1>3, <2>1, <2>2 DEF PayQuote, Typed, CoreTypeOK
<1>4. ASSUME seen.quote \in Quote, Shortfall(seen) > 0, PaySupplement(seen) PROVE Typed
  <2>1. paid' \in Nat
    BY <1>1, <1>4 DEF PaySupplement, Shortfall, CoreTypeOK
  <2>2. <<"pay_supplement", seen.quote.no>> \in Keys
    BY <1>4, KeyActions DEF Quote
  <2>3. status' \in Status /\ tracked' \subseteq Keys
    <3>1. CASE seen.status = "AWAITING_SUPPLEMENT"
      BY <1>4, <2>2, <3>1, TransitionTyped DEF PaySupplement, Status
    <3>2. CASE seen.status # "AWAITING_SUPPLEMENT"
      BY <1>4, <3>2 DEF PaySupplement, CoreTypeOK
    <3> QED
      BY <3>1, <3>2
  <2> QED
    BY <1>4, <2>1, <2>3, UntouchedTasks DEF PaySupplement, Typed, CoreTypeOK
<1>5. ASSUME NEW n \in 1..MaxPayments, RefundPayment(seen, n) PROVE Typed
  <2>1. refunded' \in Nat
    BY <1>1, <1>5 DEF RefundPayment, CoreTypeOK
  <2>2. status' \in Status /\ tracked' \subseteq Keys
    BY <1>5, KeyActions, TransitionTyped DEF RefundPayment, Status
  <2> QED
    BY <1>5, <2>1, <2>2, UntouchedTasks DEF RefundPayment, Typed, CoreTypeOK
<1> QED
  BY <1>2, <1>3, <1>4, <1>5

-----------------------------------------------------------------------------
LEMMA DispatchTyped ==
  ASSUME CoreTypeOK
  PROVE  /\ \A t \in TaskIds, k \in Couriers : AcceptTask(t, k) => Typed
         /\ \A t \in TaskIds : tasks[t] \in Task /\ ConfirmPickup(t) => Typed
         /\ \A t \in TaskIds, seen \in SeenRows :
              tasks[t] \in Task /\ ConfirmPickupWithReweigh(seen, t) => Typed
         /\ \A seen \in SeenRows : AcceptDropoff(seen) => Typed
         /\ \A seen \in SeenRows : ConfirmOriginArrival(seen) => Typed
<1>1. ASSUME NEW t \in TaskIds, NEW k \in Couriers, AcceptTask(t, k) PROVE Typed
  <2>1. status' \in Status /\ tracked' \subseteq Keys
    BY <1>1, KeyActions, TransitionTyped DEF AcceptTask, AcceptTarget, Status
  <2>2. tasks[t] \in Task
    BY <1>1 DEF AcceptTask, CoreTypeOK, NoTask
  <2>3. tasks' \in [TaskIds -> Task \cup {NoTask}] /\ TasksKept
    BY <1>1, <2>2 DEF AcceptTask, CoreTypeOK, TasksKept, Task, TaskStatus
  <2> QED
    BY <1>1, <2>1, <2>3 DEF AcceptTask, Typed, CoreTypeOK, money
<1>2. ASSUME NEW t \in TaskIds, tasks[t] \in Task, ConfirmPickup(t) PROVE Typed
  <2>1. status' \in Status /\ tracked' \subseteq Keys
    BY <1>2, KeyActions, TransitionTyped DEF ConfirmPickup, Status
  <2>2. tasks' \in [TaskIds -> Task \cup {NoTask}] /\ TasksKept
    BY <1>2, StatusTyped DEF ConfirmPickup, TaskStatus
  <2> QED
    BY <1>2, <2>1, <2>2 DEF ConfirmPickup, Typed, CoreTypeOK, money
<1>3. ASSUME NEW t \in TaskIds, NEW seen \in SeenRows, tasks[t] \in Task,
             ConfirmPickupWithReweigh(seen, t)
      PROVE  Typed
  <2>1. PICK total \in Totals : ReweighRefused(seen, total) \/ ReweighCollected(seen, t, total)
    BY <1>3 DEF ConfirmPickupWithReweigh
  <2>2. total \in Nat /\ seen.paid \in Nat /\ seen.refunded \in Nat
    BY CoreAssumptions DEF SeenRows
  <2>3. Overpaid(seen, total) \in Nat
    BY <2>2 DEF Overpaid, Difference
  <2>4. ASSUME NewQuote(seen, total) PROVE quote' \in Quote /\ refunded' \in Nat
    <3>1. quote.no \in 1..MaxQuotes /\ refunded \in Nat
      BY DEF CoreTypeOK, Quote
    <3>2. quote.no + 1 \in 1..MaxQuotes
      BY <2>4, <3>1, CoreAssumptions DEF NewQuote
    <3> QED
      BY <2>3, <2>4, <3>1, <3>2 DEF NewQuote, Quote
  <2>5. Written(seen, Reweighed(seen, total)) \in Status
    BY DEF Written, Reweighed, CoreTypeOK, Status
  <2>6. CASE ReweighRefused(seen, total)
    <3>1. status' \in Status
      BY <2>5, <2>6 DEF ReweighRefused
    <3> QED
      BY <2>4, <2>6, <3>1, UntouchedTasks DEF ReweighRefused, Typed, CoreTypeOK
  <2>7. CASE ReweighCollected(seen, t, total)
    <3>1. status' \in Status /\ tracked' \subseteq Keys
      <4>1. CASE <<"confirm_pickup", t>> \in tracked
        BY <2>5, <2>7, <4>1 DEF ReweighCollected, CoreTypeOK
      <4>2. CASE <<"confirm_pickup", t>> \notin tracked
        BY <2>7, <4>2, KeyActions, TransitionTyped DEF ReweighCollected, Status
      <4> QED
        BY <4>1, <4>2
    <3>2. tasks' \in [TaskIds -> Task \cup {NoTask}] /\ TasksKept
      BY <1>3, <2>7, StatusTyped DEF ReweighCollected, TaskStatus
    <3> QED
      BY <2>4, <2>7, <3>1, <3>2 DEF ReweighCollected, Typed, CoreTypeOK
  <2> QED
    BY <2>1, <2>6, <2>7
<1>4. ASSUME NEW seen, NEW action \in {"accept_dropoff", "confirm_origin_arrival"},
             ReachOrigin(seen, action)
      PROVE  Typed
  <2>1. status' \in Status /\ tracked' \subseteq Keys
    BY <1>4, KeyActions, TransitionTyped DEF ReachOrigin, Status
  <2> QED
    BY <1>4, <2>1, UntouchedTasks DEF ReachOrigin, Typed, CoreTypeOK, money
<1> QED
  BY <1>1, <1>2, <1>3, <1>4 DEF AcceptDropoff, ConfirmOriginArrival

LEMMA LastMileTyped ==
  ASSUME CoreTypeOK
  PROVE  /\ DispatchLinehaul => Typed
         /\ ArriveDestination => Typed
         /\ StartDelivery => Typed
         /\ \A t \in TaskIds : tasks[t] \in Task /\ ConfirmDelivery(t) => Typed
         /\ \A seen : IssuePickupCredential(seen) => Typed
         /\ CredentialExpires => Typed
         /\ \A seen : VerifyStationPickup(seen) => Typed
<1>1. ASSUME DispatchLinehaul PROVE Typed
  <2>1. status' \in Status /\ tracked' \subseteq Keys
    BY <1>1, KeyActions, TransitionTyped DEF DispatchLinehaul, Status
  <2>2. legs' \in 0..MaxLegs
    BY <1>1, CoreAssumptions DEF DispatchLinehaul, LegDeparts, CoreTypeOK
  <2> QED
    BY <1>1, <2>1, <2>2, UntouchedTasks DEF DispatchLinehaul, Typed, CoreTypeOK, money
<1>2. ASSUME ArriveDestination PROVE Typed
  <2>1. status' \in Status /\ tracked' \subseteq Keys
    BY <1>2, KeyActions, TransitionTyped DEF ArriveDestination, Status
  <2>2. legs' \in 0..MaxLegs
    BY <1>2, CoreAssumptions DEF ArriveDestination, CoreTypeOK
  <2>3. tasks' \in [TaskIds -> Task \cup {NoTask}] /\ TasksKept
    BY <1>2, TaskKinds DEF ArriveDestination, CoreTypeOK, TasksKept, TaskType
  <2> QED
    BY <1>2, <2>1, <2>2, <2>3 DEF ArriveDestination, Typed, CoreTypeOK, money
<1>3. ASSUME StartDelivery PROVE Typed
  <2>1. status' \in Status /\ tracked' \subseteq Keys
    BY <1>3, KeyActions, TransitionTyped DEF StartDelivery, Status
  <2> QED
    BY <1>3, <2>1, UntouchedTasks DEF StartDelivery, Typed, CoreTypeOK, money
<1>4. ASSUME NEW t \in TaskIds, tasks[t] \in Task, ConfirmDelivery(t) PROVE Typed
  <2>1. status' \in Status /\ tracked' \subseteq Keys
    BY <1>4, KeyActions, TransitionTyped DEF ConfirmDelivery, Status
  <2>2. tasks' \in [TaskIds -> Task \cup {NoTask}] /\ TasksKept
    BY <1>4, StatusTyped DEF ConfirmDelivery, TaskStatus
  <2> QED
    BY <1>4, <2>1, <2>2 DEF ConfirmDelivery, Signed, Typed, CoreTypeOK, money
<1>5. ASSUME NEW seen, IssuePickupCredential(seen) PROVE Typed
  <2>1. status' \in Status /\ tracked' \subseteq Keys
    <3>1. CASE seen.status = "AT_DESTINATION_STATION"
      BY <1>5, <3>1, KeyActions, TransitionTyped DEF IssuePickupCredential, Status
    <3>2. CASE seen.status # "AT_DESTINATION_STATION"
      BY <1>5, <3>2 DEF IssuePickupCredential, CoreTypeOK
    <3> QED
      BY <3>1, <3>2
  <2> QED
    BY <1>5, <2>1, UntouchedTasks DEF IssuePickupCredential, Typed, CoreTypeOK, money
<1>6. ASSUME CredentialExpires PROVE Typed
  BY <1>6, UntouchedTasks DEF CredentialExpires, Typed, CoreTypeOK, money, row
<1>7. ASSUME NEW seen, VerifyStationPickup(seen) PROVE Typed
  <2>1. status' \in Status /\ tracked' \subseteq Keys
    BY <1>7, KeyActions, TransitionTyped DEF VerifyStationPickup, Status
  <2> QED
    BY <1>7, <2>1, UntouchedTasks DEF VerifyStationPickup, Signed, Typed, CoreTypeOK, money
<1> QED
  BY <1>1, <1>2, <1>3, <1>4, <1>5, <1>6, <1>7

-----------------------------------------------------------------------------
LEMMA CasesTyped ==
  ASSUME CoreTypeOK
  PROVE  /\ \A c \in CaseIds, blocks \in BOOLEAN : OpenCase(c, blocks) => Typed
         /\ \A c \in CaseIds : \A action : ActOnCase(c, action) => Typed
         /\ \A c \in CaseIds, t \in TaskIds : ReassignTask(c, t) => Typed
         /\ ResumeShipment => Typed
<1> USE DEF OnlyCases, row, money
<1>1. ASSUME NEW c \in CaseIds, NEW blocks \in BOOLEAN, OpenCase(c, blocks) PROVE Typed
  <2>1. cases' \in [CaseIds -> Case \cup {NoCase}]
    <3> DEFINE new == [status |-> "OPEN", blocks |-> blocks, held |-> blocks,
                       frozen |-> IF blocks THEN status ELSE "NONE"]
    <3>1. new \in Case
      BY DEF CoreTypeOK, Case, CaseStatus
    <3>2. cases' = [cases EXCEPT ![c] = new]
      BY <1>1 DEF OpenCase, NewCase
    <3> HIDE DEF new
    <3> QED
      BY <3>1, <3>2 DEF CoreTypeOK
  <2> QED
    BY <1>1, <2>1, UntouchedTasks DEF OpenCase, NewCase, Typed, CoreTypeOK
<1>2. ASSUME NEW c \in CaseIds, NEW action, ActOnCase(c, action) PROVE Typed
  <2>1. PICK target \in CaseStatus :
          /\ <<cases[c].status, action, target>> \in CaseMoves
          /\ cases' = [cases EXCEPT ![c].status = target]
    BY <1>2 DEF ActOnCase
  <2>2. cases[c] \in Case
    <3>1. cases[c].status # "NONE"
      BY <2>1 DEF CaseMoves
    <3> QED
      BY <3>1 DEF CoreTypeOK, NoCase
  <2>3. cases' \in [CaseIds -> Case \cup {NoCase}]
    BY <2>1, <2>2 DEF CoreTypeOK, Case
  <2> QED
    BY <1>2, <2>3, UntouchedTasks DEF ActOnCase, Typed, CoreTypeOK
<1>3. ASSUME NEW c \in CaseIds, NEW t \in TaskIds, ReassignTask(c, t) PROVE Typed
  <2>1. PICK new \in TaskIds :
          /\ Unused(new)
          /\ tasks' = [tasks EXCEPT ![t].status = "CANCELLED",
                                    ![new] = NewTask(tasks[t].type)]
    BY <1>3 DEF ReassignTask
  <2>2. tasks[t] \in Task /\ new # t
    BY <1>3, <2>1, TaskKinds DEF ReassignTask, CoreTypeOK, Unused
  <2>3. NewTask(tasks[t].type) \in Task /\ [tasks[t] EXCEPT !.status = "CANCELLED"] \in Task
    BY <2>2, TaskKinds DEF Task, TaskStatus
  <2>4. tasks' \in [TaskIds -> Task \cup {NoTask}] /\ TasksKept
    BY <2>1, <2>2, <2>3 DEF CoreTypeOK, TasksKept
  <2> QED
    BY <1>3, <2>4 DEF ReassignTask, Typed, CoreTypeOK
<1>4. ASSUME ResumeShipment PROVE Typed
  <2>1. ASSUME NEW c \in CaseIds
        PROVE  (IF c \in HoldsActive
                  THEN [cases[c] EXCEPT !.held = FALSE, !.blocks = FALSE]
                  ELSE cases[c]) \in Case \cup {NoCase}
    <3>1. cases[c] \in Case \cup {NoCase} /\ ~NoCase.held
      BY DEF CoreTypeOK, NoCase
    <3>2. c \in HoldsActive => cases[c] \in Case
      BY <3>1 DEF HoldsActive
    <3>3. \A k \in Case : [k EXCEPT !.held = FALSE, !.blocks = FALSE] \in Case
      BY DEF Case
    <3> QED
      BY <3>1, <3>2, <3>3
  <2>2. cases' \in [CaseIds -> Case \cup {NoCase}]
    BY <1>4, <2>1 DEF ResumeShipment, HoldsReleased
  <2> QED
    BY <1>4, <2>2, UntouchedTasks DEF ResumeShipment, HoldsReleased, Typed, CoreTypeOK
<1> QED
  BY <1>1, <1>2, <1>3, <1>4

LEMMA ReturnsTyped ==
  ASSUME CoreTypeOK
  PROVE  /\ CancelShipment => Typed
         /\ Redeliver => Typed
         /\ ConvertToPickup => Typed
         /\ ApproveReturn => Typed
         /\ StartReturn => Typed
         /\ CompleteReturn => Typed
<1> USE DEF money
<1>1. ASSUME CancelShipment PROVE Typed
  BY <1>1, CancelledTyped
     DEF CancelShipment, RefundedInFull, Typed, TasksKept, CoreTypeOK, Status
<1>2. ASSUME Redeliver PROVE Typed
  <2>1. PICK t \in TaskIds :
          tasks' = [Cancelled({"DELIVERY"}) EXCEPT ![t] = NewTask("DELIVERY")]
    BY <1>2 DEF Redeliver
  <2>2. tasks' \in [TaskIds -> Task \cup {NoTask}] /\ TasksKept
    BY <2>1, CancelledTyped, TaskKinds DEF TasksKept, TaskType
  <2> QED
    BY <1>2, <2>2 DEF Redeliver, Typed, CoreTypeOK, Status
<1>3. ASSUME ConvertToPickup PROVE Typed
  BY <1>3, CancelledTyped
     DEF ConvertToPickup, Typed, TasksKept, CoreTypeOK, Status, DeliveryMethod
<1>4. ASSUME ApproveReturn PROVE Typed
  BY <1>4, UntouchedTasks DEF ApproveReturn, Typed, CoreTypeOK, Status
<1>5. ASSUME StartReturn PROVE Typed
  <2>1. legs' \in 0..MaxLegs
    BY <1>5, CoreAssumptions DEF StartReturn, LegDeparts, CoreTypeOK
  <2> QED
    BY <1>5, <2>1, UntouchedTasks DEF StartReturn, Typed, CoreTypeOK, Status
<1>6. ASSUME CompleteReturn PROVE Typed
  <2>1. legs' \in 0..MaxLegs
    BY <1>6, CoreAssumptions DEF CompleteReturn, CoreTypeOK
  <2> QED
    BY <1>6, <2>1, UntouchedTasks
       DEF CompleteReturn, RefundedInFull, Typed, CoreTypeOK, Status
<1> QED
  BY <1>1, <1>2, <1>3, <1>4, <1>5, <1>6

-----------------------------------------------------------------------------
LEMMA CommitTyped == CoreTypeOK /\ CommitStep => Typed
<1> SUFFICES ASSUME CoreTypeOK, NEW call \in Calls, NEW seen \in SeenRows,
                    Sound(call[1], call[2], seen), Commits(call[1], call[2], seen)
             PROVE  Typed
  BY DEF CommitStep
<1>1. CASE call[1] \in {"confirm_pickup", "confirm_pickup_with_reweigh",
                        "confirm_delivery"}
  <2>1. call[2] \in TaskIds /\ tasks[call[2]] \in Task
    BY <1>1, CallArguments DEF Sound
  <2> QED
    BY <1>1, <2>1, DispatchTyped, LastMileTyped DEF Commits
<1>2. CASE call[1] \in {"pay_supplement", "refund_payment"}
  <2>1. call[1] = "refund_payment" => call[2] \in 1..MaxPayments
    BY CallArguments
  <2> QED
    BY <1>2, <2>1, PaymentsTyped DEF Commits, Sound
<1>3. CASE call[1] \notin {"confirm_pickup", "confirm_pickup_with_reweigh",
                           "confirm_delivery", "pay_supplement", "refund_payment"}
  BY <1>3, PaymentsTyped, DispatchTyped, LastMileTyped DEF Commits
<1> QED
  BY <1>1, <1>2, <1>3

LEMMA StepTyped == CoreTypeOK /\ CoreStep => Typed
<1> SUFFICES ASSUME CoreTypeOK, CoreStep PROVE Typed
  OBVIOUS
<1>1. CASE CommitStep
  BY <1>1, CommitTyped
<1>2. CASE LockFirst
  BY <1>2, DispatchTyped, LastMileTyped, CasesTyped, ReturnsTyped DEF LockFirst, Recovers
<1>3. CASE UNCHANGED core
  BY <1>3, UntouchedTasks DEF core, Typed, CoreTypeOK
<1> QED
  BY <1>1, <1>2, <1>3 DEF CoreStep

-----------------------------------------------------------------------------
(* Type correctness of the whole *)

\* What a request under way relies on stays true while others overtake it.
LEMMA SoundKept ==
  ASSUME CoreTypeOK, TasksKept, NEW call, NEW x, NEW seen, Sound(call, x, seen)
  PROVE  Sound(call, x, seen)'
<1>1. ASSUME call \in {"confirm_pickup", "confirm_pickup_with_reweigh", "confirm_delivery"}
      PROVE  tasks'[x] \in Task
  <2>1. tasks[x] \in Task /\ <<call, x>> \in Calls
    BY <1>1 DEF Sound
  <2>2. x \in TaskIds
    BY <1>1, <2>1, CallArguments
  <2> QED
    BY <2>1, <2>2 DEF TasksKept
<1> QED
  BY <1>1 DEF Sound

LEMMA IdleSlot == Idle \in Slots /\ Sound("idle", 0, NothingSeen)
<1>1. NothingSeen \in SeenRows
  BY CoreAssumptions DEF NothingSeen, SeenRows
<1> QED
  BY <1>1 DEF Idle, Slots, Sound

LEMMA InitTyped == Init => TypeOK
<1> SUFFICES ASSUME Init PROVE TypeOK
  OBVIOUS
<1>1. quote \in Quote
  <2>1. 1 \in 1..MaxQuotes
    BY CoreAssumptions
  <2> QED
    BY <2>1 DEF Init, Created, Quote
<1>2. CoreTypeOK
  <2>1. pickupMethod \in PickupMethod /\ deliveryMethod \in DeliveryMethod
    BY FulfillmentAssumption DEF Init, Created
  <2>2. /\ paid \in Nat /\ refunded \in Nat /\ payments \in 0..MaxPayments
        /\ legs \in 0..MaxLegs
    BY CoreAssumptions DEF Init, Created
  <2>3. tasks \in [TaskIds -> Task \cup {NoTask}] /\ cases \in [CaseIds -> Case \cup {NoCase}]
    BY DEF Init, Created
  <2>4. status \in Status /\ tracked \subseteq Keys /\ pod \in BOOLEAN /\ credential \in BOOLEAN
    BY DEF Init, Created, Status
  <2> QED
    BY <1>1, <2>1, <2>2, <2>3, <2>4 DEF CoreTypeOK
<1> QED
  BY <1>2, IdleSlot DEF Init, TypeOK, Idle

\* What a call keeps when it has loaded its rows.
LEMMA KeptSound ==
  ASSUME CoreTypeOK, NEW call \in Calls, Loads(call[1], call[2])
  PROVE  Kept(call[1]) \in SeenRows /\ Sound(call[1], call[2], Kept(call[1]))
<1>1. Seen \in SeenRows /\ Sound(call[1], call[2], Seen)
  BY LoadsSound, SeenTyped
<1>2. NothingSeen \in SeenRows
  BY CoreAssumptions DEF NothingSeen, SeenRows
<1>3. [NothingSeen EXCEPT !.status = status] \in SeenRows
  BY <1>2 DEF SeenRows, CoreTypeOK
<1>4. Kept(call[1]) \in SeenRows
  BY <1>1, <1>2, <1>3 DEF Kept
<1>5. call[1] = "pay_supplement" => Kept(call[1]) = Seen
  BY DEF Kept
<1> QED
  BY <1>1, <1>4, <1>5 DEF Sound

\* A well formed request under way.
Slot(request) ==
  request \in Slots /\ Sound(request.call, request.arg, request.seen)

LEMMA NextTyped == TypeOK /\ [Next]_vars => TypeOK'
<1> SUFFICES ASSUME TypeOK, [Next]_vars PROVE TypeOK'
  OBVIOUS
<1>1. CoreTypeOK' /\ TasksKept
  BY NextIsCoreStep, StepTyped DEF TypeOK, Typed
<1>2. \A call, x, seen : Sound(call, x, seen) => Sound(call, x, seen)'
  BY <1>1, SoundKept DEF TypeOK
<1>3. CASE UNCHANGED inflight
  BY <1>1, <1>2, <1>3 DEF TypeOK
<1>4. ASSUME NEW r \in Requests, NEW request, Slot(request),
             inflight' = [inflight EXCEPT ![r] = request]
      PROVE  TypeOK'
  <2>1. inflight' \in [Requests -> Slots]
    BY <1>4 DEF TypeOK, Slot
  <2>2. ASSUME NEW s \in Requests
        PROVE  Sound(inflight'[s].call, inflight'[s].arg, inflight'[s].seen)
    BY <1>4 DEF TypeOK, Slot
  <2> QED
    BY <1>1, <1>2, <2>1, <2>2 DEF TypeOK
<1>5. ASSUME NEW r \in Requests, NEW call \in Calls, Begin(r, call[1], call[2])
      PROVE  TypeOK'
  <2> DEFINE request == [call |-> call[1], arg |-> call[2], seen |-> Kept(call[1])]
  <2>1. Slot(request)
    BY <1>5, KeptSound DEF Begin, TypeOK, Slot, Slots
  <2>2. inflight' = [inflight EXCEPT ![r] = request]
    BY <1>5 DEF Begin
  <2> HIDE DEF request
  <2> QED
    BY <1>4, <2>1, <2>2
<1>6. Slot(Idle)
  BY IdleSlot DEF Slot, Idle
<1>7. ASSUME NEW r \in Requests, Finish(r) \/ Abandon(r) PROVE TypeOK'
  BY <1>4, <1>6, <1>7 DEF Finish, Abandon
<1> QED
  BY <1>3, <1>5, <1>7 DEF Next, OneCall, Overlap, vars

\* Whatever handlers run and however they overtake each other, every row stays
\* one the application could have written, and no supplement is negative.
THEOREM TypeCorrect == Spec => []TypeOK
  BY InitTyped, NextTyped, PTL DEF Spec

-----------------------------------------------------------------------------
(* Invariants that relate the rows *)

\* The handlers a CommitStep may be.
LEMMA CommitCases ==
  ASSUME CommitStep
  PROVE  \E call \in Calls, seen \in SeenRows :
           \/ ConfirmPayment(seen) \/ PayQuote(seen) \/ PaySupplement(seen)
           \/ RefundPayment(seen, call[2])
           \/ call[2] \in TaskIds /\ ConfirmPickup(call[2])
           \/ call[2] \in TaskIds /\ ConfirmPickupWithReweigh(seen, call[2])
           \/ AcceptDropoff(seen) \/ ConfirmOriginArrival(seen)
           \/ StartDelivery
           \/ call[2] \in TaskIds /\ ConfirmDelivery(call[2])
           \/ IssuePickupCredential(seen) \/ VerifyStationPickup(seen)
<1>1. PICK call \in Calls, seen \in SeenRows : Commits(call[1], call[2], seen)
  BY DEF CommitStep
<1>2. call[1] \in {"confirm_pickup", "confirm_pickup_with_reweigh", "confirm_delivery"}
        => call[2] \in TaskIds
  BY CallArguments
<1> QED
  BY <1>1, <1>2 DEF Commits

LEMMA TransitionMoves ==
  ASSUME NEW from, NEW target, NEW key, TransitionFrom(from, target, key)
  PROVE  /\ status' \in {status, target}
         /\ tracked \subseteq tracked' /\ tracked' \subseteq tracked \cup {key}
  BY DEF TransitionFrom

Arrived    == <<"arrive_destination", 0>>
Dispatched == <<"dispatch_linehaul", 0>>

\* An open delivery task was one before.
NoNewDelivery ==
  \A t \in TaskIds : Active(tasks'[t]) /\ tasks'[t].type = "DELIVERY"
                       => Active(tasks[t]) /\ tasks[t].type = "DELIVERY"

LEMMA UntouchedDeliveries == UNCHANGED tasks => NoNewDelivery
  BY DEF NoNewDelivery

\* What calls that load before they lock may do to the rows the invariants
\* below are about.
Effects ==
  /\ legs' = legs /\ deliveryMethod' = deliveryMethod /\ cases' = cases
  /\ tracked \subseteq tracked'
  /\ Arrived \in tracked' => Arrived \in tracked
  /\ pod => pod'
  /\ status' # status => status' \notin {"IN_LINEHAUL", "DELIVERY_ASSIGNED"}
  /\ status' # status /\ status' = "DELIVERED" => pod'
  /\ status' # status /\ status' = "OUT_FOR_DELIVERY" => status = "DELIVERY_ASSIGNED"
  /\ NoNewDelivery

LEMMA CompletedTasks ==
  ASSUME CoreTypeOK, NEW t \in TaskIds, tasks' = [tasks EXCEPT ![t].status = "COMPLETED"]
  PROVE  NoNewDelivery
<1>1. ASSUME NEW s \in TaskIds, Active(tasks'[s]) PROVE s # t
  BY <1>1 DEF CoreTypeOK, Active, Task, NoTask
<1> QED
  BY <1>1 DEF CoreTypeOK, NoNewDelivery

LEMMA CreatedTasks == CoreTypeOK /\ CreatePickupTask => NoNewDelivery
  BY DEF CoreTypeOK, CreatePickupTask, NewTask, NoNewDelivery

\* Which key and which move a handler asks the transition service for.
LEMMA TransitionEffects ==
  ASSUME NEW from, NEW target, NEW key, key # Arrived,
         target \notin {"IN_LINEHAUL", "DELIVERY_ASSIGNED", "OUT_FOR_DELIVERY", "DELIVERED"},
         TransitionFrom(from, target, key)
  PROVE  /\ tracked \subseteq tracked'
         /\ Arrived \in tracked' => Arrived \in tracked
         /\ status' # status
              => status' \notin {"IN_LINEHAUL", "DELIVERY_ASSIGNED", "OUT_FOR_DELIVERY", "DELIVERED"}
  BY TransitionMoves

LEMMA CommitEffects == CoreTypeOK /\ CommitStep => Effects
<1> SUFFICES ASSUME CoreTypeOK, CommitStep PROVE Effects
  OBVIOUS
<1>1. PICK call \in Calls, seen \in SeenRows :
         \/ ConfirmPayment(seen) \/ PayQuote(seen) \/ PaySupplement(seen)
         \/ RefundPayment(seen, call[2])
         \/ call[2] \in TaskIds /\ ConfirmPickup(call[2])
         \/ call[2] \in TaskIds /\ ConfirmPickupWithReweigh(seen, call[2])
         \/ AcceptDropoff(seen) \/ ConfirmOriginArrival(seen)
         \/ StartDelivery
         \/ call[2] \in TaskIds /\ ConfirmDelivery(call[2])
         \/ IssuePickupCredential(seen) \/ VerifyStationPickup(seen)
  BY CommitCases
<1>2. CASE ConfirmPayment(seen) \/ PayQuote(seen)
  <2>1. Booked(seen) /\ legs' = legs /\ deliveryMethod' = deliveryMethod
        /\ cases' = cases /\ pod' = pod
    BY <1>2 DEF ConfirmPayment, PayQuote
  <2>2. UNCHANGED tasks \/ CreatePickupTask
    BY <2>1 DEF Booked
  <2>3. TransitionFrom(seen.status, PaidTarget, <<"confirm_payment", 0>>)
    BY <2>1 DEF Booked
  <2>4. PaidTarget \in {"PENDING_PICKUP", "WAITING_FOR_DROPOFF"}
        /\ <<"confirm_payment", 0>> # Arrived
    BY DEF PaidTarget, Arrived
  <2> QED
    BY <2>1, <2>2, <2>3, <2>4, CreatedTasks, UntouchedDeliveries, TransitionEffects DEF Effects
<1>3. CASE PaySupplement(seen)
  <2>1. <<"pay_supplement", seen.quote.no>> # Arrived
    BY DEF Arrived
  <2>2. CASE seen.status = "AWAITING_SUPPLEMENT"
    BY <1>3, <2>1, <2>2, TransitionEffects, UntouchedDeliveries DEF PaySupplement, Effects
  <2>3. CASE seen.status # "AWAITING_SUPPLEMENT"
    BY <1>3, <2>3, UntouchedDeliveries DEF PaySupplement, Effects
  <2> QED
    BY <2>2, <2>3
<1>4. CASE RefundPayment(seen, call[2])
  <2>1. <<"cancel", call[2]>> # Arrived
    BY DEF Arrived
  <2> QED
    BY <1>4, <2>1, TransitionEffects, UntouchedDeliveries DEF RefundPayment, Effects
<1>5. CASE call[2] \in TaskIds /\ ConfirmPickup(call[2])
  <2>1. <<"confirm_pickup", call[2]>> # Arrived
    BY DEF Arrived
  <2>2. NoNewDelivery
    BY <1>5, CompletedTasks DEF ConfirmPickup
  <2> QED
    BY <1>5, <2>1, <2>2, TransitionEffects DEF ConfirmPickup, Effects
<1>6. ASSUME NEW total, ReweighRefused(seen, total) PROVE Effects
  BY <1>6, UntouchedDeliveries DEF ReweighRefused, Written, Effects
<1>7. ASSUME NEW total, call[2] \in TaskIds, ReweighCollected(seen, call[2], total)
      PROVE  Effects
  <2>1. <<"confirm_pickup", call[2]>> # Arrived
    BY DEF Arrived
  <2>2. NoNewDelivery
    BY <1>7, CompletedTasks DEF ReweighCollected
  <2>3. CASE <<"confirm_pickup", call[2]>> \in tracked
    <3>1. Written(seen, Reweighed(seen, total))
            \in {status, "AWAITING_SUPPLEMENT", "PICKUP_ASSIGNED"}
      BY DEF Written, Reweighed
    <3> QED
      BY <1>7, <2>3, <2>2, <3>1 DEF ReweighCollected, Effects
  <2>4. CASE <<"confirm_pickup", call[2]>> \notin tracked
    BY <1>7, <2>1, <2>4, <2>2, TransitionEffects DEF ReweighCollected, Effects
  <2> QED
    BY <2>3, <2>4
<1>8. CASE AcceptDropoff(seen) \/ ConfirmOriginArrival(seen)
  <2>1. <<"accept_dropoff", 0>> # Arrived /\ <<"confirm_origin_arrival", 0>> # Arrived
    BY DEF Arrived
  <2> QED
    BY <1>8, <2>1, TransitionEffects, UntouchedDeliveries
       DEF AcceptDropoff, ConfirmOriginArrival, ReachOrigin, Effects
<1>9. CASE StartDelivery
  <2>1. <<"start_delivery", 0>> # Arrived
    BY DEF Arrived
  <2>2. Legal(status, "OUT_FOR_DELIVERY") => status = "DELIVERY_ASSIGNED"
    BY DEF Legal, Moves
  <2> QED
    BY <1>9, <2>1, <2>2, TransitionMoves, UntouchedDeliveries DEF StartDelivery, TransitionFrom, Effects
<1>10. CASE call[2] \in TaskIds /\ ConfirmDelivery(call[2])
  <2>1. <<"confirm_delivery", 0>> # Arrived
    BY DEF Arrived
  <2>2. NoNewDelivery
    BY <1>10, CompletedTasks DEF ConfirmDelivery
  <2> QED
    BY <1>10, <2>1, <2>2, TransitionMoves DEF ConfirmDelivery, Signed, Effects
<1>11. CASE IssuePickupCredential(seen)
  <2>1. <<"issue_pickup_credential", 0>> # Arrived
    BY DEF Arrived
  <2>2. CASE seen.status = "AT_DESTINATION_STATION"
    BY <1>11, <2>1, <2>2, TransitionEffects, UntouchedDeliveries DEF IssuePickupCredential, Effects
  <2>3. CASE seen.status # "AT_DESTINATION_STATION"
    BY <1>11, <2>3, UntouchedDeliveries DEF IssuePickupCredential, Effects
  <2> QED
    BY <2>2, <2>3
<1>12. CASE VerifyStationPickup(seen)
  <2>1. <<"verify_station_pickup", 0>> # Arrived
    BY DEF Arrived
  <2> QED
    BY <1>12, <2>1, TransitionMoves, UntouchedDeliveries DEF VerifyStationPickup, Signed, Effects
<1> QED
  BY <1>1, <1>2, <1>3, <1>4, <1>5, <1>6, <1>7, <1>8, <1>9, <1>10, <1>11, <1>12
     DEF ConfirmPickupWithReweigh

-----------------------------------------------------------------------------
(* Holds *)

LEMMA HeldStep == CoreTypeOK /\ HeldCaseLive /\ CoreStep => HeldCaseLive'
<1> SUFFICES ASSUME CoreTypeOK, HeldCaseLive, CoreStep PROVE HeldCaseLive'
  OBVIOUS
<1>1. CASE UNCHANGED cases
  BY <1>1 DEF HeldCaseLive, HoldsActive
<1>2. ASSUME NEW c \in CaseIds, NEW blocks \in BOOLEAN, OpenCase(c, blocks)
      PROVE  HeldCaseLive'
  BY <1>2 DEF OpenCase, NewCase, HeldCaseLive, HoldsActive, CoreTypeOK
<1>3. ASSUME NEW c \in CaseIds, NEW action, ActOnCase(c, action) PROVE HeldCaseLive'
  <2>1. PICK target \in CaseStatus :
          /\ <<cases[c].status, action, target>> \in CaseMoves
          /\ cases' = [cases EXCEPT ![c].status = target]
    BY <1>3 DEF ActOnCase
  <2>2. target \in CaseStatus \ {"CLOSED"} \/ ~cases[c].held
    BY <1>3, <2>1 DEF ActOnCase, CanClose, CaseMoves
  <2>3. cases[c] \in Case \cup {NoCase}
    BY DEF CoreTypeOK
  <2> QED
    BY <2>1, <2>2, <2>3 DEF HeldCaseLive, HoldsActive, CoreTypeOK, CaseStatus, Case, NoCase
<1>4. CASE ResumeShipment
  <2>1. ASSUME NEW c \in CaseIds PROVE ~cases'[c].held
    <3>1. CASE cases[c].held
      <4>1. cases[c] \in Case
        BY <3>1 DEF CoreTypeOK, NoCase
      <4>2. cases'[c] = [cases[c] EXCEPT !.held = FALSE, !.blocks = FALSE]
        BY <1>4, <3>1 DEF ResumeShipment, HoldsReleased, HoldsActive
      <4> QED
        BY <4>1, <4>2 DEF Case
    <3>2. CASE ~cases[c].held
      BY <1>4, <3>2 DEF ResumeShipment, HoldsReleased, HoldsActive
    <3> QED
      BY <3>1, <3>2
  <2> QED
    BY <2>1 DEF HeldCaseLive, HoldsActive
<1>5. ASSUME NEW t \in TaskIds, NEW k \in Couriers, AcceptTask(t, k) PROVE UNCHANGED cases
  BY <1>5 DEF AcceptTask
<1>6. ASSUME NEW c \in CaseIds, NEW t \in TaskIds, ReassignTask(c, t)
      PROVE  UNCHANGED cases
  BY <1>6 DEF ReassignTask
<1>7. CASE DispatchLinehaul \/ ArriveDestination \/ CredentialExpires \/ CancelShipment
           \/ Redeliver \/ ConvertToPickup \/ ApproveReturn \/ StartReturn \/ CompleteReturn
  BY <1>1, <1>7 DEF DispatchLinehaul, ArriveDestination, CredentialExpires,
       CancelShipment, Redeliver, ConvertToPickup, ApproveReturn, StartReturn, CompleteReturn
<1>8. CASE LockFirst
  BY <1>1, <1>2, <1>3, <1>4, <1>5, <1>6, <1>7, <1>8 DEF LockFirst, Recovers
<1> QED
  BY <1>1, <1>8, CommitEffects DEF CoreStep, core, Effects

\* exceptions/service.py: a hold can always be traced to a live blocking case,
\* so an operator can still resolve it and ask for the shipment to resume.
THEOREM HoldsBelongToLiveCases == Spec => []HeldCaseLive
<1>1. Init => HeldCaseLive
  BY DEF Init, Created, HeldCaseLive, HoldsActive, NoCase
<1>2. TypeOK /\ HeldCaseLive /\ [Next]_vars => HeldCaseLive'
  BY NextIsCoreStep, HeldStep DEF TypeOK
<1> QED
  BY <1>1, <1>2, TypeCorrect, PTL DEF Spec

-----------------------------------------------------------------------------
(* The proof of delivery *)

LEMMA ProofStep == CoreTypeOK /\ DeliveredHasProof /\ CoreStep => DeliveredHasProof'
<1> SUFFICES ASSUME CoreTypeOK, DeliveredHasProof, CoreStep PROVE DeliveredHasProof'
  OBVIOUS
<1> USE DEF DeliveredHasProof
<1>2. ASSUME CommitStep PROVE DeliveredHasProof'
  BY <1>2, CommitEffects DEF Effects
<1>3. ASSUME LockFirst PROVE DeliveredHasProof'
  <2>1. ASSUME NEW t \in TaskIds, NEW k \in Couriers, AcceptTask(t, k)
        PROVE  DeliveredHasProof'
    BY <2>1, TransitionMoves DEF AcceptTask, AcceptTarget
  <2>2. CASE DispatchLinehaul \/ ArriveDestination
    BY <2>2, TransitionMoves DEF DispatchLinehaul, ArriveDestination
  <2> QED
    BY <1>3, <2>1, <2>2
       DEF LockFirst, Recovers, NewCase, HoldsReleased, OnlyCases, row, CredentialExpires, OpenCase, ActOnCase,
           ReassignTask, ResumeShipment, CancelShipment, Redeliver, ConvertToPickup,
           ApproveReturn, StartReturn, CompleteReturn
<1> QED
  BY <1>2, <1>3 DEF CoreStep, core

\* credentials.py: neither way of signing, nor any replay or race between them,
\* ends in DELIVERED without the proof of delivery.
THEOREM DeliveryIsProven == Spec => []DeliveredHasProof
<1>1. Init => DeliveredHasProof
  BY DEF Init, Created, DeliveredHasProof
<1>2. TypeOK /\ DeliveredHasProof /\ [Next]_vars => DeliveredHasProof'
  BY NextIsCoreStep, ProofStep DEF TypeOK
<1> QED
  BY <1>1, <1>2, TypeCorrect, PTL DEF Spec

-----------------------------------------------------------------------------
(* Legs *)

\* Linehaul is entered once, with a leg, and left by the arrival that closes it:
\* an arrival is on record only after a departure.
LegInv ==
  /\ status = "IN_LINEHAUL" => legs > 0 /\ Dispatched \in tracked /\ Arrived \notin tracked
  /\ Arrived \in tracked => Dispatched \in tracked

LEMMA LegStep == CoreTypeOK /\ LegInv /\ CoreStep => LegInv'
<1> SUFFICES ASSUME CoreTypeOK, LegInv, CoreStep PROVE LegInv'
  OBVIOUS
<1> USE DEF LegInv
<1>1. CASE CommitStep
  BY <1>1, CommitEffects DEF Effects
<1>2. ASSUME NEW t \in TaskIds, NEW k \in Couriers, AcceptTask(t, k) PROVE LegInv'
  <2>1. <<"assign", t>> # Arrived /\ AcceptTarget(tasks[t]) # "IN_LINEHAUL"
    BY DEF Arrived, AcceptTarget
  <2> QED
    BY <1>2, <2>1, TransitionMoves DEF AcceptTask
<1>3. CASE DispatchLinehaul
  <2>1. Dispatched # Arrived /\ legs \in Nat
    BY CoreAssumptions DEF Dispatched, Arrived, CoreTypeOK
  <2>2. legs' > 0 /\ TransitionFrom(status, "IN_LINEHAUL", Dispatched)
    BY <1>3, <2>1 DEF DispatchLinehaul, LegDeparts, Dispatched
  <2> QED
    BY <2>1, <2>2 DEF TransitionFrom
<1>4. CASE ArriveDestination
  <2>1. TransitionFrom(status, "AT_DESTINATION_STATION", Arrived)
    BY <1>4 DEF ArriveDestination, Arrived
  <2>2. Legal(status, "AT_DESTINATION_STATION") => status = "IN_LINEHAUL"
    BY DEF Legal, Moves
  <2> QED
    BY <2>1, <2>2 DEF TransitionFrom
<1>5. CASE CancelShipment \/ Redeliver \/ ConvertToPickup \/ ApproveReturn
           \/ StartReturn \/ CompleteReturn
  BY <1>5 DEF CancelShipment, Redeliver, ConvertToPickup, ApproveReturn, StartReturn,
              CompleteReturn
<1>6. CASE CredentialExpires \/ ResumeShipment
  BY <1>6 DEF CredentialExpires, ResumeShipment, OnlyCases, row
<1>7. ASSUME NEW c \in CaseIds, NEW x,
             OpenCase(c, x) \/ ActOnCase(c, x) \/ ReassignTask(c, x)
      PROVE  LegInv'
  BY <1>7 DEF OpenCase, NewCase, ActOnCase, ReassignTask, OnlyCases, row
<1>8. CASE UNCHANGED core
  BY <1>8 DEF core
<1> QED
  BY <1>1, <1>2, <1>3, <1>4, <1>5, <1>6, <1>7, <1>8 DEF CoreStep, LockFirst, Recovers

\* linehaul.py: replayed departures and arrivals, returns and recoveries never
\* leave a shipment in linehaul without a leg to arrive on.
THEOREM LinehaulTravels == Spec => []LinehaulHasLeg
<1>1. Init => LegInv
  BY DEF Init, Created, LegInv, Arrived
<1>2. TypeOK /\ LegInv /\ [Next]_vars => LegInv'
  BY NextIsCoreStep, LegStep DEF TypeOK
<1>3. LegInv => LinehaulHasLeg
  BY DEF LegInv, LinehaulHasLeg
<1> QED
  BY <1>1, <1>2, <1>3, TypeCorrect, PTL DEF Spec

-----------------------------------------------------------------------------
(* Station pickup *)

LEMMA CancelledDeliveries ==
  ASSUME CoreTypeOK, NEW types, "DELIVERY" \in types, tasks' = Cancelled(types)
  PROVE  ~ActiveTask("DELIVERY")'
<1>1. ASSUME NEW t \in TaskIds, tasks[t].type = "DELIVERY" PROVE ~Active(Cancelled(types)[t])
  BY <1>1 DEF CoreTypeOK, Cancelled, Active, Task, NoTask
<1>2. \A t \in TaskIds : Cancelled(types)[t].type = tasks[t].type
  BY DEF CoreTypeOK, Cancelled, Task
<1> QED
  BY <1>1, <1>2 DEF ActiveTask, Active

LEMMA StationStep ==
  CoreTypeOK /\ StationPickupHasNoCourier /\ CoreStep => StationPickupHasNoCourier'
<1> SUFFICES ASSUME CoreTypeOK, StationPickupHasNoCourier, CoreStep
             PROVE  StationPickupHasNoCourier'
  OBVIOUS
<1> USE DEF StationPickupHasNoCourier, ActiveTask
<1>1. CASE CommitStep
  BY <1>1, CommitEffects DEF Effects, NoNewDelivery
<1>2. ASSUME NEW t \in TaskIds, NEW k \in Couriers, AcceptTask(t, k),
             deliveryMethod = "STATION_PICKUP"
      PROVE  StationPickupHasNoCourier'
  <2>1. tasks[t] \in Task /\ tasks[t].type = "PICKUP"
    BY <1>2 DEF AcceptTask, Active, CoreTypeOK, NoTask, Task, TaskType
  <2>2. status' \in {status, "PICKUP_ASSIGNED"}
    BY <1>2, <2>1, TransitionMoves DEF AcceptTask, AcceptTarget
  <2>3. tasks'[t].type = "PICKUP" /\ \A s \in TaskIds \ {t} : tasks'[s] = tasks[s]
    BY <1>2, <2>1 DEF AcceptTask, CoreTypeOK, Task
  <2> QED
    BY <1>2, <2>2, <2>3
<1>3. CASE DispatchLinehaul \/ ArriveDestination
  BY <1>3, TransitionMoves DEF DispatchLinehaul, ArriveDestination, DeliveryMethod
<1>4. CASE CancelShipment
  BY <1>4, CancelledDeliveries DEF CancelShipment, TaskType
<1>5. CASE ConvertToPickup
  BY <1>5, CancelledDeliveries DEF ConvertToPickup
<1>6. CASE Redeliver \/ ApproveReturn \/ StartReturn \/ CompleteReturn
  BY <1>6 DEF Redeliver, ApproveReturn, StartReturn, CompleteReturn
<1>7. CASE CredentialExpires \/ ResumeShipment
  BY <1>7 DEF CredentialExpires, ResumeShipment, OnlyCases, row
<1>8. ASSUME NEW c \in CaseIds, NEW x, OpenCase(c, x) \/ ActOnCase(c, x)
      PROVE  StationPickupHasNoCourier'
  BY <1>8 DEF OpenCase, NewCase, ActOnCase, OnlyCases, row
<1>9. ASSUME NEW c \in CaseIds, NEW old \in TaskIds, ReassignTask(c, old),
             deliveryMethod = "STATION_PICKUP"
      PROVE  StationPickupHasNoCourier'
  <2>1. PICK new \in TaskIds :
          /\ Unused(new)
          /\ tasks' = [tasks EXCEPT ![old].status = "CANCELLED",
                                    ![new] = NewTask(tasks[old].type)]
    BY <1>9 DEF ReassignTask
  <2>2. Active(tasks[old]) /\ tasks[old] \in Task /\ tasks[old].type # "DELIVERY"
    BY <1>9 DEF ReassignTask, CoreTypeOK, Active, NoTask
  <2>3. \A t \in TaskIds : Active(tasks'[t]) => tasks'[t].type # "DELIVERY"
    BY <1>9, <2>1, <2>2 DEF CoreTypeOK, Active, Unused, NewTask, Task
  <2> QED
    BY <1>9, <2>3 DEF ReassignTask, row
<1>10. CASE UNCHANGED core
  BY <1>10 DEF core
<1>11. ASSUME deliveryMethod # "STATION_PICKUP",
              \/ \E t \in TaskIds, k \in Couriers : AcceptTask(t, k)
              \/ \E c \in CaseIds, t \in TaskIds : ReassignTask(c, t)
       PROVE  StationPickupHasNoCourier'
  BY <1>11 DEF AcceptTask, ReassignTask, row
<1> QED
  BY <1>1, <1>2, <1>3, <1>4, <1>5, <1>6, <1>7, <1>8, <1>9, <1>10, <1>11
     DEF CoreStep, LockFirst, Recovers

\* returns/service.py, convert_to_pickup: once the recipient fetches the parcel
\* no courier has an open delivery task and no delivery goes on, whoever races
\* with the conversion.
THEOREM StationPickupExcludesDelivery == Spec => []StationPickupHasNoCourier
<1>1. Init => StationPickupHasNoCourier
  BY DEF Init, Created, StationPickupHasNoCourier, ActiveTask, Active, NoTask
<1>2. TypeOK /\ StationPickupHasNoCourier /\ [Next]_vars => StationPickupHasNoCourier'
  BY NextIsCoreStep, StationStep DEF TypeOK
<1> QED
  BY <1>1, <1>2, TypeCorrect, PTL DEF Spec

-----------------------------------------------------------------------------
(* Holds freeze the parcel *)

LEMMA FrozenStep == CoreTypeOK /\ CoreStep => (HoldsActive # {} => Frozen)
<1> SUFFICES ASSUME CoreTypeOK, CoreStep, ~HoldClear PROVE Frozen
  BY DEF HoldClear
<1> USE DEF Frozen
<1>1. CASE UNCHANGED <<tasks, legs, pod, deliveryMethod>> /\ status' \in {status} \cup DeskStatus
  BY <1>1
<1>2. ASSUME NEW seen, ConfirmPayment(seen) PROVE Frozen
  <2>1. status' \in {status} \cup DeskStatus
    BY <1>2, TransitionMoves DEF ConfirmPayment, Booked, PaidTarget, DeskStatus
  <2>2. \A t \in TaskIds : tasks'[t].status = tasks[t].status \/ tasks'[t].status = "AVAILABLE"
    BY <1>2 DEF ConfirmPayment, Booked, CreatePickupTask, NewTask, CoreTypeOK
  <2> QED
    BY <1>2, <2>1, <2>2 DEF ConfirmPayment
<1>3. ASSUME NEW seen, NEW n, PaySupplement(seen) \/ RefundPayment(seen, n) PROVE Frozen
  <2>1. status' \in {status} \cup DeskStatus
    BY <1>3, TransitionMoves DEF PaySupplement, RefundPayment, DeskStatus
  <2> QED
    BY <1>1, <1>3, <2>1 DEF PaySupplement, RefundPayment
<1>4. ASSUME NEW seen, NEW t, ConfirmPickupWithReweigh(seen, t) PROVE Frozen
  BY <1>1, <1>4 DEF ConfirmPickupWithReweigh, ReweighCollected, ReweighRefused, Written,
                    DeskStatus
<1>5. CASE CommitStep
  <2>1. PICK call \in Calls, seen \in SeenRows :
           \/ ConfirmPayment(seen) \/ PayQuote(seen) \/ PaySupplement(seen)
           \/ RefundPayment(seen, call[2])
           \/ ConfirmPickup(call[2])
           \/ ConfirmPickupWithReweigh(seen, call[2])
           \/ AcceptDropoff(seen) \/ ConfirmOriginArrival(seen)
           \/ StartDelivery
           \/ ConfirmDelivery(call[2])
           \/ IssuePickupCredential(seen) \/ VerifyStationPickup(seen)
    BY <1>5, CommitCases
  <2> QED
    BY <1>2, <1>3, <1>4, <2>1
       DEF PayQuote, ConfirmPickup, AcceptDropoff, ConfirmOriginArrival, ReachOrigin,
           StartDelivery, ConfirmDelivery, IssuePickupCredential, VerifyStationPickup
<1>6. ASSUME NEW c \in CaseIds, NEW x, OpenCase(c, x) \/ ActOnCase(c, x) PROVE Frozen
  BY <1>1, <1>6 DEF OpenCase, NewCase, ActOnCase, OnlyCases, row
<1>7. ASSUME NEW c \in CaseIds, NEW old \in TaskIds, ReassignTask(c, old) PROVE Frozen
  <2>1. PICK new \in TaskIds :
          /\ Unused(new)
          /\ tasks' = [tasks EXCEPT ![old].status = "CANCELLED",
                                    ![new] = NewTask(tasks[old].type)]
    BY <1>7 DEF ReassignTask
  <2>2. tasks[old] \in Task /\ new # old
    BY <1>7, <2>1 DEF ReassignTask, CoreTypeOK, Active, Unused, NoTask
  <2>3. \A t \in TaskIds :
          tasks'[t].status = tasks[t].status \/ tasks'[t].status \in {"CANCELLED", "AVAILABLE"}
    BY <2>1, <2>2 DEF CoreTypeOK, NewTask, Task
  <2> QED
    BY <1>7, <2>3 DEF ReassignTask, row
<1>8. CASE ResumeShipment \/ CredentialExpires
  BY <1>1, <1>8 DEF ResumeShipment, HoldsReleased, CredentialExpires, OnlyCases, row
<1>9. CASE UNCHANGED core
  BY <1>1, <1>9 DEF core
<1> QED
  BY <1>5, <1>6, <1>7, <1>8, <1>9
     DEF CoreStep, LockFirst, Recovers, AcceptTask, DispatchLinehaul, ArriveDestination,
         CancelShipment, Redeliver, ConvertToPickup, ApproveReturn, StartReturn,
         CompleteReturn

\* control.py, lock_and_assert_fulfillment_allowed(): since the hold is read
\* after the row lock, no overtaken request moves the parcel under a hold.
THEOREM HoldsFreezeTheParcel == Spec => HoldFreezes
<1>1. TypeOK /\ [Next]_vars => [HoldsActive # {} => Frozen]_vars
  BY NextIsCoreStep, FrozenStep DEF TypeOK
<1> QED
  BY <1>1, TypeCorrect, PTL DEF Spec, HoldFreezes

-----------------------------------------------------------------------------
(* Money, when requests do not overlap *)

\* Statuses in which nothing was weighed or handed over yet.
Early == {"PENDING_PAYMENT", "PENDING_PICKUP", "WAITING_FOR_DROPOFF"}

\* No courier has a pickup in hand.
NobodyCollects ==
  \A t \in TaskIds : tasks[t].type = "PICKUP" => tasks[t].status # "ACCEPTED"

\* Before anything is weighed nothing is refunded; the one payment leaves
\* PENDING_PAYMENT for good; a cancellation is on record only of a cancelled
\* shipment; and a task that was taken is never on offer again, so that taking
\* one always moves the status on and a reweigh never meets an early or a
\* cancelled shipment.
Account ==
  /\ refunded <= paid /\ payments <= 1
  /\ status \in Early => refunded = 0
  /\ status = "PENDING_PAYMENT" => payments = 0 /\ <<"confirm_payment", 0>> \notin tracked
  /\ \A n \in 1..MaxPayments : <<"cancel", n>> \in tracked => status = "CANCELLED"
  /\ \A t \in TaskIds :
       <<"assign", t>> \in tracked => tasks[t].status \notin {"NONE", "AVAILABLE"}
  /\ status \in Early \cup {"CANCELLED"} => NobodyCollects

\* What a step may do to a closed shipment and to one it closes.
Settles ==
  /\ status = "CANCELLED" => status' = "CANCELLED"
  /\ status' # status /\ status' \in {"CANCELLED", "RETURNED"} => refunded' = paid'

Settled == Account' /\ Settles

\* Nobody takes a task, and none that was taken is offered again.
CalmTasks ==
  \A t \in TaskIds :
    /\ tasks'[t].status = "ACCEPTED"
         => tasks[t].status = "ACCEPTED" /\ tasks[t].type = tasks'[t].type
    /\ tasks'[t].status \in {"NONE", "AVAILABLE"}
         => tasks[t].status \in {"NONE", "AVAILABLE"}

\* A new status that neither a payment nor a refund brings.
CalmStatus ==
  status' # status =>
    status # "CANCELLED" /\ status' \notin Early \cup {"CANCELLED", "RETURNED"}

CalmKeys ==
  \A key \in tracked' \ tracked : key[1] \notin {"confirm_payment", "cancel", "assign"}

LEMMA AccountTyped ==
  ASSUME CoreTypeOK
  PROVE  paid \in Nat /\ refunded \in Nat /\ payments \in Nat /\ quote.total \in Nat
<1>1. Totals \subseteq Nat /\ 0..MaxPayments \subseteq Nat
  BY CoreAssumptions
<1>2. quote \in Quote /\ payments \in 0..MaxPayments /\ paid \in Nat /\ refunded \in Nat
  BY DEF CoreTypeOK
<1> QED
  BY <1>1, <1>2 DEF Quote

LEMMA CalmStep ==
  ASSUME CoreTypeOK, Account, UNCHANGED money, CalmStatus, CalmKeys, CalmTasks
  PROVE  Settled
<1>1. /\ \A n : <<"cancel", n>> \in tracked' => <<"cancel", n>> \in tracked
      /\ \A t : <<"assign", t>> \in tracked' => <<"assign", t>> \in tracked
      /\ <<"confirm_payment", 0>> \in tracked' => <<"confirm_payment", 0>> \in tracked
  BY DEF CalmKeys
<1>2. \A n \in 1..MaxPayments : <<"cancel", n>> \in tracked' => status' = "CANCELLED"
  BY <1>1 DEF Account, CalmStatus
<1>3. \A t \in TaskIds :
        <<"assign", t>> \in tracked' => tasks'[t].status \notin {"NONE", "AVAILABLE"}
  BY <1>1 DEF Account, CalmTasks
<1>4. status' \in Early \cup {"CANCELLED"} => NobodyCollects'
  BY DEF Account, CalmStatus, CalmTasks, NobodyCollects
<1>5. /\ refunded' <= paid' /\ payments' <= 1
      /\ status' \in Early => refunded' = 0
      /\ status' = "PENDING_PAYMENT"
           => payments' = 0 /\ <<"confirm_payment", 0>> \notin tracked'
  BY <1>1 DEF Account, CalmStatus, money, Early
<1>6. Settles
  BY DEF CalmStatus, Settles
<1> QED
  BY <1>2, <1>3, <1>4, <1>5, <1>6 DEF Settled, Account

LEMMA CalmTransition ==
  ASSUME NEW target, NEW key, TransitionFrom(status, target, key),
         target \notin Early \cup {"CANCELLED", "RETURNED"},
         key[1] \notin {"confirm_payment", "cancel", "assign"}
  PROVE  CalmStatus /\ CalmKeys
<1>1. ~Legal("CANCELLED", target)
  BY DEF Legal, Moves
<1> QED
  BY <1>1 DEF TransitionFrom, CalmStatus, CalmKeys

LEMMA UntouchedCalm ==
  /\ UNCHANGED tasks => CalmTasks
  /\ UNCHANGED <<status, tracked>> => CalmStatus /\ CalmKeys
  BY DEF CalmTasks, CalmStatus, CalmKeys

LEMMA CompletedCalm ==
  ASSUME CoreTypeOK, NEW t \in TaskIds, tasks' = [tasks EXCEPT ![t].status = "COMPLETED"]
  PROVE  CalmTasks
<1>1. \A s \in TaskIds \ {t} : tasks'[s] = tasks[s]
  BY DEF CoreTypeOK
<1>2. tasks'[t].status = "COMPLETED"
  BY DEF CoreTypeOK, Task, NoTask
<1> QED
  BY <1>1, <1>2 DEF CalmTasks

LEMMA CreatedCalm == CoreTypeOK /\ CreatePickupTask => CalmTasks
  BY DEF CoreTypeOK, CreatePickupTask, Unused, NewTask, NoTask, CalmTasks

LEMMA CancelledCalm ==
  ASSUME CoreTypeOK, NEW types
  PROVE  \A t \in TaskIds :
           /\ Cancelled(types)[t].type = tasks[t].type
           /\ Cancelled(types)[t].status \in {tasks[t].status, "CANCELLED"}
           /\ "PICKUP" \in types /\ tasks[t].type = "PICKUP"
                => Cancelled(types)[t].status # "ACCEPTED"
<1>1. ASSUME NEW t \in TaskIds
      PROVE  /\ Cancelled(types)[t].type = tasks[t].type
             /\ Cancelled(types)[t].status \in {tasks[t].status, "CANCELLED"}
             /\ "PICKUP" \in types /\ tasks[t].type = "PICKUP"
                  => Cancelled(types)[t].status # "ACCEPTED"
  <2>1. CASE tasks[t] \in Task
    BY <2>1 DEF Cancelled, Active, Task
  <2>2. CASE tasks[t] = NoTask
    BY <2>2 DEF Cancelled, Active, NoTask
  <2> QED
    BY <2>1, <2>2 DEF CoreTypeOK
<1> QED
  BY <1>1

-----------------------------------------------------------------------------
\* A payment is taken, or confirmed, once: from PENDING_PAYMENT the status goes
\* on and never comes back.
LEMMA BookedSettles ==
  ASSUME CoreTypeOK, Account, Booked(Seen), UNCHANGED refunded,
         \/ UNCHANGED <<paid, payments>>
         \/ /\ status = "PENDING_PAYMENT"
            /\ payments' = payments + 1 /\ paid' = paid + quote.total
  PROVE  Settled
<1>1. TransitionFrom(status, PaidTarget, <<"confirm_payment", 0>>)
  BY DEF Booked, Seen
<1>2. PaidTarget \in {"PENDING_PICKUP", "WAITING_FOR_DROPOFF"}
  BY DEF PaidTarget
<1>3. CalmTasks
  BY CreatedCalm, UntouchedCalm DEF Booked
<1>4. paid \in Nat /\ refunded \in Nat /\ payments \in Nat /\ quote.total \in Nat
  BY AccountTyped
<1>5. CASE <<"confirm_payment", 0>> \in tracked
  <2>1. status # "PENDING_PAYMENT" /\ UNCHANGED <<status, tracked>>
    BY <1>1, <1>5 DEF Account, TransitionFrom
  <2> QED
    BY <1>3, <2>1, CalmStep, UntouchedCalm DEF money
<1>6. CASE <<"confirm_payment", 0>> \notin tracked
  <2>1. Legal(status, PaidTarget) /\ status' = PaidTarget
        /\ tracked' = tracked \cup {<<"confirm_payment", 0>>}
    BY <1>1, <1>6 DEF TransitionFrom
  <2>2. status = "PENDING_PAYMENT"
    BY <1>2, <2>1 DEF Legal, Moves
  <2>3. refunded' = 0 /\ refunded' <= paid' /\ payments' <= 1
    BY <1>4, <2>2 DEF Account, Early
  <2>4. NobodyCollects'
    BY <1>3, <2>2 DEF Account, Early, CalmTasks, NobodyCollects
  <2>5. \A t \in TaskIds :
          <<"assign", t>> \in tracked' => tasks'[t].status \notin {"NONE", "AVAILABLE"}
    BY <1>3, <2>1 DEF Account, CalmTasks
  <2>6. \A n \in 1..MaxPayments : <<"cancel", n>> \notin tracked'
    BY <2>1, <2>2 DEF Account
  <2> QED
    BY <1>2, <2>1, <2>2, <2>3, <2>4, <2>5, <2>6 DEF Settled, Account, Settles
<1> QED
  BY <1>5, <1>6

LEMMA PaymentsSettle ==
  ASSUME CoreTypeOK, Account
  PROVE  /\ ConfirmPayment(Seen) => Settled
         /\ PayQuote(Seen) => Settled
         /\ PaySupplementReads /\ PaySupplement(Seen) => Settled
         /\ \A n \in 1..MaxPayments :
              RefundPaymentReads /\ RefundPayment(Seen, n) => Settled
<1>0. paid \in Nat /\ refunded \in Nat /\ payments \in Nat /\ quote.total \in Nat
  BY AccountTyped
<1>1. ASSUME ConfirmPayment(Seen) PROVE Settled
  BY <1>1, BookedSettles DEF ConfirmPayment, money
<1>2. ASSUME PayQuote(Seen) PROVE Settled
  BY <1>2, BookedSettles DEF PayQuote, Payable, Seen
<1>3. ASSUME PaySupplementReads, PaySupplement(Seen) PROVE Settled
  <2>1. refunded' = refunded /\ payments' = payments /\ tasks' = tasks /\ paid' > paid
    BY <1>0, <1>3 DEF PaySupplement, PaySupplementReads, Shortfall, Seen
  <2>2. CalmStatus /\ CalmKeys
    <3>1. CASE status = "AWAITING_SUPPLEMENT"
      <4>1. TransitionFrom(status, "PICKUP_ASSIGNED", <<"pay_supplement", quote.no>>)
        BY <1>3, <3>1 DEF PaySupplement, Seen
      <4> QED
        BY <4>1, CalmTransition DEF Early
    <3>2. CASE status # "AWAITING_SUPPLEMENT"
      BY <1>3, <3>2, UntouchedCalm DEF PaySupplement, Seen
    <3> QED
      BY <3>1, <3>2
  <2>3. refunded' <= paid'
    BY <1>0, <1>3, <2>1 DEF Account, PaySupplement, PaySupplementReads, Shortfall, Seen
  <2>4. /\ \A n : <<"cancel", n>> \in tracked' => <<"cancel", n>> \in tracked
        /\ \A t : <<"assign", t>> \in tracked' => <<"assign", t>> \in tracked
        /\ <<"confirm_payment", 0>> \in tracked' => <<"confirm_payment", 0>> \in tracked
    BY <2>2 DEF CalmKeys
  <2> QED
    BY <2>1, <2>2, <2>3, <2>4
       DEF Settled, Account, Settles, CalmStatus, NobodyCollects, Early
<1>4. ASSUME NEW n \in 1..MaxPayments, RefundPaymentReads, RefundPayment(Seen, n)
      PROVE  Settled
  <2>1. status \in Early /\ status \in Refundable /\ refunded = 0
    BY <1>4 DEF RefundPaymentReads, Refundable, Early, Account
  <2>2. <<"cancel", n>> \notin tracked
    BY <2>1 DEF Account, Refundable
  <2>3. status' = "CANCELLED" /\ tracked' = tracked \cup {<<"cancel", n>>}
    BY <1>4, <2>2 DEF RefundPayment, TransitionFrom
  <2>4. refunded' = paid' /\ paid' = paid /\ payments' = payments /\ tasks' = tasks
    BY <1>0, <1>4, <2>1 DEF RefundPayment, Seen
  <2> QED
    BY <1>0, <2>1, <2>3, <2>4 DEF Settled, Account, Settles, NobodyCollects, Early, Refundable
<1> QED
  BY <1>1, <1>2, <1>3, <1>4

-----------------------------------------------------------------------------
\* A courier takes a task that is on offer, so the status moves on.
LEMMA AcceptSettles ==
  ASSUME CoreTypeOK, Account, NEW t \in TaskIds, NEW k \in Couriers, AcceptTask(t, k)
  PROVE  Settled
<1>1. <<"assign", t>> \notin tracked
  BY DEF AcceptTask, Account
<1>2. /\ status' = AcceptTarget(tasks[t])
      /\ tracked' = tracked \cup {<<"assign", t>>}
      /\ Legal(status, AcceptTarget(tasks[t]))
  BY <1>1 DEF AcceptTask, TransitionFrom
<1>3. status' \in {"PICKUP_ASSIGNED", "DELIVERY_ASSIGNED"} /\ status # "CANCELLED"
  BY <1>2 DEF AcceptTarget, Legal, Moves
<1>4. UNCHANGED money
  BY DEF AcceptTask
<1>5. \A s \in TaskIds : s # t => tasks'[s] = tasks[s]
  BY DEF AcceptTask, CoreTypeOK
<1>6. tasks'[t].status = "ACCEPTED"
  <2>1. tasks[t] \in Task
    BY DEF AcceptTask, CoreTypeOK, NoTask
  <2> QED
    BY <2>1 DEF AcceptTask, CoreTypeOK, Task
<1>7. \A s \in TaskIds :
        <<"assign", s>> \in tracked' => tasks'[s].status \notin {"NONE", "AVAILABLE"}
  BY <1>2, <1>5, <1>6 DEF Account
<1>8. \A n \in 1..MaxPayments : <<"cancel", n>> \notin tracked'
  BY <1>2, <1>3 DEF Account
<1> QED
  BY <1>3, <1>4, <1>7, <1>8 DEF Settled, Account, Settles, money, Early

\* A reweigh gives back at most what was paid beyond the new total, and happens
\* only while a courier has the pickup in hand.
LEMMA ReweighSettles ==
  ASSUME CoreTypeOK, Account, NEW t \in TaskIds, ReweighReads(t),
         ConfirmPickupWithReweigh(Seen, t)
  PROVE  Settled
<1>1. PICK total \in Totals : ReweighRefused(Seen, total) \/ ReweighCollected(Seen, t, total)
  BY DEF ConfirmPickupWithReweigh
<1>2. total \in Nat /\ paid \in Nat /\ refunded \in Nat
  BY CoreAssumptions, AccountTyped
<1>3. status \notin Early \cup {"CANCELLED"}
  BY DEF Account, NobodyCollects, ReweighReads
<1>4. refunded' <= paid' /\ payments' = payments
  <2>1. refunded' = refunded + Overpaid(Seen, total) /\ paid' = paid /\ payments' = payments
    BY <1>1 DEF ReweighRefused, ReweighCollected, NewQuote
  <2>2. refunded + Overpaid(Seen, total) <= paid
    BY <1>2 DEF Overpaid, Difference, Seen, Account
  <2> QED
    BY <2>1, <2>2
<1>5. CalmTasks
  BY <1>1, CompletedCalm, UntouchedCalm DEF ReweighRefused, ReweighCollected
<1>6. Written(Seen, Reweighed(Seen, total)) \in {status, "AWAITING_SUPPLEMENT", "PICKUP_ASSIGNED"}
  BY DEF Written, Reweighed, Seen
<1>7. /\ status' # status => status' \notin Early \cup {"CANCELLED", "RETURNED"}
      /\ tracked' \subseteq tracked \cup {<<"confirm_pickup", t>>}
  <2>1. CASE ReweighRefused(Seen, total)
    BY <2>1, <1>6 DEF ReweighRefused, Early
  <2>2. CASE ReweighCollected(Seen, t, total) /\ <<"confirm_pickup", t>> \in tracked
    BY <2>2, <1>6 DEF ReweighCollected, Early
  <2>3. CASE ReweighCollected(Seen, t, total) /\ <<"confirm_pickup", t>> \notin tracked
    BY <2>3, TransitionMoves DEF ReweighCollected, Early
  <2> QED
    BY <1>1, <2>1, <2>2, <2>3
<1>8. status' \notin Early \cup {"CANCELLED"}
  BY <1>3, <1>7
<1>9. \A n \in 1..MaxPayments : <<"cancel", n>> \notin tracked'
  BY <1>3, <1>7 DEF Account
<1>10. \A s \in TaskIds :
         <<"assign", s>> \in tracked' => tasks'[s].status \notin {"NONE", "AVAILABLE"}
  BY <1>5, <1>7 DEF Account, CalmTasks
<1> QED
  BY <1>3, <1>4, <1>7, <1>8, <1>9, <1>10 DEF Settled, Account, Settles, Early

LEMMA FulfilmentSettles ==
  ASSUME CoreTypeOK, Account
  PROVE  /\ \A t \in TaskIds : ConfirmPickup(t) => Settled
         /\ AcceptDropoff(Seen) => Settled
         /\ ConfirmOriginArrival(Seen) => Settled
         /\ DispatchLinehaul => Settled
         /\ ArriveDestination => Settled
         /\ StartDelivery => Settled
         /\ \A t \in TaskIds : ConfirmDelivery(t) => Settled
         /\ IssuePickupCredential(Seen) => Settled
         /\ CredentialExpires => Settled
         /\ VerifyStationPickup(Seen) => Settled
<1> USE DEF Early
<1>1. ASSUME NEW t \in TaskIds, ConfirmPickup(t) PROVE Settled
  <2>1. CalmStatus /\ CalmKeys
    BY <1>1, CalmTransition DEF ConfirmPickup
  <2>2. CalmTasks
    BY <1>1, CompletedCalm DEF ConfirmPickup
  <2> QED
    BY <1>1, <2>1, <2>2, CalmStep DEF ConfirmPickup
<1>2. ASSUME NEW action \in {"accept_dropoff", "confirm_origin_arrival"},
             ReachOrigin(Seen, action)
      PROVE  Settled
  <2>1. TransitionFrom(status, "AT_ORIGIN_STATION", <<action, 0>>)
    BY <1>2 DEF ReachOrigin, Seen
  <2>2. CalmStatus /\ CalmKeys
    BY <2>1, CalmTransition
  <2> QED
    BY <1>2, <2>2, CalmStep, UntouchedCalm DEF ReachOrigin
<1>3. ASSUME DispatchLinehaul PROVE Settled
  <2>1. CalmStatus /\ CalmKeys
    BY <1>3, CalmTransition DEF DispatchLinehaul
  <2> QED
    BY <1>3, <2>1, CalmStep, UntouchedCalm DEF DispatchLinehaul
<1>4. ASSUME ArriveDestination PROVE Settled
  <2>1. CalmStatus /\ CalmKeys
    BY <1>4, CalmTransition DEF ArriveDestination
  <2>2. CalmTasks
    <3>1. CASE UNCHANGED tasks
      BY <3>1, UntouchedCalm
    <3>2. ASSUME NEW t \in TaskIds, Unused(t),
                 tasks' = [tasks EXCEPT ![t] = NewTask("DELIVERY")]
          PROVE  CalmTasks
      BY <3>2 DEF CoreTypeOK, Unused, NewTask, NoTask, CalmTasks
    <3> QED
      BY <1>4, <3>1, <3>2 DEF ArriveDestination
  <2> QED
    BY <1>4, <2>1, <2>2, CalmStep DEF ArriveDestination
<1>5. ASSUME StartDelivery PROVE Settled
  <2>1. CalmStatus /\ CalmKeys
    BY <1>5, CalmTransition DEF StartDelivery
  <2> QED
    BY <1>5, <2>1, CalmStep, UntouchedCalm DEF StartDelivery
<1>6. ASSUME NEW t \in TaskIds, ConfirmDelivery(t) PROVE Settled
  <2>1. CalmStatus /\ CalmKeys
    BY <1>6, CalmTransition DEF ConfirmDelivery
  <2>2. CalmTasks
    BY <1>6, CompletedCalm DEF ConfirmDelivery
  <2> QED
    BY <1>6, <2>1, <2>2, CalmStep DEF ConfirmDelivery
<1>7. ASSUME IssuePickupCredential(Seen) PROVE Settled
  <2>1. CalmStatus /\ CalmKeys
    <3>1. CASE status = "AT_DESTINATION_STATION"
      <4>1. TransitionFrom(status, "WAITING_FOR_RECIPIENT_PICKUP",
                           <<"issue_pickup_credential", 0>>)
        BY <1>7, <3>1 DEF IssuePickupCredential, Seen
      <4> QED
        BY <4>1, CalmTransition
    <3>2. CASE status # "AT_DESTINATION_STATION"
      BY <1>7, <3>2, UntouchedCalm DEF IssuePickupCredential, Seen
    <3> QED
      BY <3>1, <3>2
  <2> QED
    BY <1>7, <2>1, CalmStep, UntouchedCalm DEF IssuePickupCredential
<1>8. ASSUME CredentialExpires PROVE Settled
  BY <1>8, CalmStep, UntouchedCalm DEF CredentialExpires, row
<1>9. ASSUME VerifyStationPickup(Seen) PROVE Settled
  <2>1. TransitionFrom(status, "DELIVERED", <<"verify_station_pickup", 0>>)
    BY <1>9 DEF VerifyStationPickup, Seen
  <2>2. CalmStatus /\ CalmKeys
    BY <2>1, CalmTransition
  <2> QED
    BY <1>9, <2>2, CalmStep, UntouchedCalm DEF VerifyStationPickup
<1> QED
  BY <1>1, <1>2, <1>3, <1>4, <1>5, <1>6, <1>7, <1>8, <1>9
     DEF AcceptDropoff, ConfirmOriginArrival

-----------------------------------------------------------------------------
LEMMA ReassignedCalm ==
  ASSUME CoreTypeOK, NEW c \in CaseIds, NEW old \in TaskIds, ReassignTask(c, old)
  PROVE  CalmTasks
<1>1. PICK new \in TaskIds :
        /\ Unused(new)
        /\ tasks' = [tasks EXCEPT ![old].status = "CANCELLED",
                                  ![new] = NewTask(tasks[old].type)]
  BY DEF ReassignTask
<1>2. tasks[old] \in Task /\ new # old
  BY <1>1 DEF ReassignTask, CoreTypeOK, Active, Unused, NoTask
<1>3. tasks'[old].status = "CANCELLED" /\ tasks'[new].status = "AVAILABLE"
  BY <1>1, <1>2 DEF CoreTypeOK, NewTask, Task
<1>4. tasks[new].status = "NONE"
  BY <1>1 DEF Unused, NoTask
<1>5. \A s \in TaskIds : s # old /\ s # new => tasks'[s] = tasks[s]
  BY <1>1 DEF CoreTypeOK
<1> QED
  BY <1>3, <1>4, <1>5 DEF CalmTasks

LEMMA RedeliveredCalm ==
  ASSUME CoreTypeOK, Redeliver
  PROVE  CalmTasks
<1>1. PICK t \in TaskIds :
        /\ Unused(t)
        /\ tasks' = [Cancelled({"DELIVERY"}) EXCEPT ![t] = NewTask("DELIVERY")]
  BY DEF Redeliver
<1>2. Cancelled({"DELIVERY"}) \in [TaskIds -> Task \cup {NoTask}]
  BY CancelledTyped
<1>3. tasks[t].status = "NONE" /\ tasks'[t].status = "AVAILABLE"
  BY <1>1, <1>2 DEF Unused, NoTask, NewTask
<1>4. \A s \in TaskIds : s # t => tasks'[s] = Cancelled({"DELIVERY"})[s]
  BY <1>1, <1>2
<1>5. \A s \in TaskIds : s # t => /\ tasks'[s].type = tasks[s].type
                                  /\ tasks'[s].status \in {tasks[s].status, "CANCELLED"}
  BY <1>4, CancelledCalm
<1> QED
  BY <1>3, <1>5 DEF CalmTasks

LEMMA CasesSettle ==
  ASSUME CoreTypeOK, Account
  PROVE  /\ \A c \in CaseIds, blocks \in BOOLEAN : OpenCase(c, blocks) => Settled
         /\ \A c \in CaseIds : \A action : ActOnCase(c, action) => Settled
         /\ \A c \in CaseIds, old \in TaskIds : ReassignTask(c, old) => Settled
         /\ ResumeShipment => Settled
<1>1. ASSUME OnlyCases PROVE Settled
  BY <1>1, CalmStep, UntouchedCalm DEF OnlyCases, row
<1>2. ASSUME NEW c \in CaseIds, NEW old \in TaskIds, ReassignTask(c, old) PROVE Settled
  BY <1>2, ReassignedCalm, CalmStep, UntouchedCalm DEF ReassignTask, row
<1> QED
  BY <1>1, <1>2 DEF OpenCase, ActOnCase, ResumeShipment

LEMMA ReturnsSettle ==
  ASSUME CoreTypeOK, Account
  PROVE  Recovers => Settled
<1>0. paid \in Nat /\ refunded \in Nat
  BY AccountTyped
<1> USE DEF Early
<1>1. ASSUME CancelShipment PROVE Settled
  <2>1. refunded' = paid' /\ paid' = paid /\ payments' = payments
        /\ status' = "CANCELLED" /\ tracked' = tracked /\ tasks' = Cancelled(TaskType)
    BY <1>0, <1>1 DEF CancelShipment, RefundedInFull, Account
  <2>2. \A t \in TaskIds :
          /\ tasks'[t].type = tasks[t].type
          /\ tasks'[t].status \in {tasks[t].status, "CANCELLED"}
          /\ tasks[t].type = "PICKUP" => tasks'[t].status # "ACCEPTED"
    BY <2>1, CancelledCalm DEF TaskType
  <2>3. NobodyCollects'
    BY <2>2 DEF NobodyCollects
  <2>4. \A t \in TaskIds :
          <<"assign", t>> \in tracked' => tasks'[t].status \notin {"NONE", "AVAILABLE"}
    BY <2>1, <2>2 DEF Account
  <2> QED
    BY <1>0, <2>1, <2>3, <2>4 DEF Settled, Account, Settles
<1>2. ASSUME Redeliver PROVE Settled
  BY <1>2, RedeliveredCalm, CalmStep DEF Redeliver, CalmStatus, CalmKeys
<1>3. ASSUME ConvertToPickup PROVE Settled
  <2>1. CalmTasks
    BY <1>3, CancelledCalm DEF ConvertToPickup, CalmTasks
  <2> QED
    BY <1>3, <2>1, CalmStep DEF ConvertToPickup, CalmStatus, CalmKeys
<1>4. ASSUME ApproveReturn \/ StartReturn PROVE Settled
  BY <1>4, CalmStep, UntouchedCalm DEF ApproveReturn, StartReturn, CalmStatus, CalmKeys
<1>5. ASSUME CompleteReturn PROVE Settled
  <2>1. refunded' = paid' /\ paid' = paid /\ payments' = payments /\ tasks' = tasks
        /\ status = "IN_RETURN" /\ status' = "RETURNED" /\ tracked' = tracked
    BY <1>0, <1>5 DEF CompleteReturn, RefundedInFull, Account
  <2> QED
    BY <1>0, <2>1 DEF Settled, Account, Settles, NobodyCollects
<1> QED
  BY <1>1, <1>2, <1>3, <1>4, <1>5 DEF Recovers

-----------------------------------------------------------------------------
LEMMA ServeSettles ==
  ASSUME CoreTypeOK, Account, NEW call \in Calls, Serve(call[1], call[2])
  PROVE  Settled
<1>1. /\ call[1] \in {"confirm_pickup", "confirm_pickup_with_reweigh", "confirm_delivery"}
           => call[2] \in TaskIds
      /\ call[1] = "refund_payment" => call[2] \in 1..MaxPayments
  BY CallArguments
<1>2. CASE call[1] \in {"confirm_payment", "pay_quote", "pay_supplement", "refund_payment"}
  BY <1>1, <1>2, PaymentsSettle DEF Serve, Loads, Commits
<1>3. CASE call[1] = "confirm_pickup_with_reweigh"
  BY <1>1, <1>3, ReweighSettles DEF Serve, Loads, Commits
<1>4. CASE call[1] \notin {"confirm_payment", "pay_quote", "pay_supplement",
                           "refund_payment", "confirm_pickup_with_reweigh"}
  BY <1>1, <1>4, FulfilmentSettles DEF Serve, Commits
<1> QED
  BY <1>2, <1>3, <1>4

LEMMA SerialStep == TypeOK /\ Account /\ [OneCall]_vars => Settled
<1> SUFFICES ASSUME CoreTypeOK, Account, [OneCall]_vars PROVE Settled
  BY DEF TypeOK
<1>1. ASSUME NEW call \in Calls, Serve(call[1], call[2]) PROVE Settled
  BY <1>1, ServeSettles
<1>2. CASE LockFirst
  BY <1>2, AcceptSettles, FulfilmentSettles, CasesSettle, ReturnsSettle DEF LockFirst
<1>3. CASE UNCHANGED vars
  BY <1>3, CalmStep, UntouchedCalm DEF vars, core, money
<1> QED
  BY <1>1, <1>2, <1>3 DEF OneCall

LEMMA SerialIsSpec == SerialSpec => Spec
<1>1. [OneCall]_vars => [Next]_vars
  BY DEF Next
<1> QED
  BY <1>1, PTL DEF SerialSpec, Spec

LEMMA AccountInvariant == SerialSpec => []Account
<1>1. Init => Account
  BY DEF Init, Created, Account, NobodyCollects, NoTask, Early
<1>2. TypeOK /\ Account /\ [OneCall]_vars => Account'
  BY SerialStep DEF Settled
<1> QED
  BY <1>1, <1>2, TypeCorrect, SerialIsSpec, PTL DEF SerialSpec

\* payments/service.py, shipments/service.py and returns/service.py together:
\* however many reweighs, refunds, cancellations and returns follow each other,
\* what goes back never exceeds what was paid.
THEOREM RefundsArePaidFor == SerialSpec => []RefundWithinPayments
<1>1. Account => RefundWithinPayments
  BY DEF Account, RefundWithinPayments
<1> QED
  BY <1>1, AccountInvariant, PTL

\* payments/service.py, pay_quote and the older confirm-payment endpoint: in
\* any order and number of calls, a quote is charged once.
THEOREM QuoteIsPaidOnce == SerialSpec => []PaidOnce
<1>1. Account => PaidOnce
  BY DEF Account, PaidOnce
<1> QED
  BY <1>1, AccountInvariant, PTL

\* Whichever service closes the shipment leaves its account even.
THEOREM ClosingSettles == SerialSpec => SettledOnClose
<1>1. TypeOK /\ Account /\ [OneCall]_vars
        => [status' # status /\ status' \in {"CANCELLED", "RETURNED"}
              => refunded' = paid']_vars
  BY SerialStep DEF Settled, Settles
<1> QED
  BY <1>1, AccountInvariant, TypeCorrect, SerialIsSpec, PTL DEF SerialSpec, SettledOnClose

\* The statuses that recovery and reweighing assign without the transition
\* table never reopen a cancelled shipment.
THEOREM CancellationIsFinal == SerialSpec => CancelledIsFinal
<1>1. TypeOK /\ Account /\ [OneCall]_vars
        => [status = "CANCELLED" => status' = "CANCELLED"]_vars
  BY SerialStep DEF Settled, Settles
<1> QED
  BY <1>1, AccountInvariant, TypeCorrect, SerialIsSpec, PTL DEF SerialSpec, CancelledIsFinal

-----------------------------------------------------------------------------
(* The same four promises when calls do overlap, as long as the ones that are *)
(* overtaken load only tasks and proofs before they lock the shipment.        *)

TaskReaders == {"confirm_pickup", "start_delivery", "confirm_delivery"}

\* Every request under way is one of them.
OnlyTaskReaders ==
  \A r \in Requests : inflight[r].call \in TaskReaders \cup {"idle"}

LEMMA ReadersSettle ==
  ASSUME TypeOK, Account, OnlyTaskReaders, NEW r \in Requests, Finish(r)
  PROVE  Settled
<1> DEFINE i == inflight[r]
<1>1. i.call \in TaskReaders \cup {"idle"} /\ Commits(i.call, i.arg, i.seen)
  BY DEF OnlyTaskReaders, Finish
<1>2. i.call \in {"confirm_pickup", "confirm_delivery"} => i.arg \in TaskIds
  BY CallArguments DEF TypeOK, Sound
<1>3. CASE i.call = "confirm_pickup"
  BY <1>1, <1>2, <1>3, FulfilmentSettles DEF Commits, TypeOK
<1>4. CASE i.call = "start_delivery"
  BY <1>1, <1>4, FulfilmentSettles DEF Commits, TypeOK
<1>5. CASE i.call = "confirm_delivery"
  BY <1>1, <1>2, <1>5, FulfilmentSettles DEF Commits, TypeOK
<1>6. CASE i.call = "idle"
  BY <1>1, <1>6 DEF Commits
<1> QED
  BY <1>1, <1>3, <1>4, <1>5, <1>6 DEF TaskReaders

LEMMA OvertakenStep ==
  ASSUME TypeOK, Account, OnlyTaskReaders, [Next]_vars
  PROVE  Settled
<1>1. CASE OneCall \/ UNCHANGED vars
  BY <1>1, SerialStep
<1>2. ASSUME NEW r \in Requests, Finish(r) PROVE Settled
  BY <1>2, ReadersSettle
<1>3. ASSUME UNCHANGED core PROVE Settled
  BY <1>3, CalmStep, UntouchedCalm DEF core, money, TypeOK
<1> QED
  BY <1>1, <1>2, <1>3 DEF Next, Overlap, Begin, Abandon

LEMMA ReadersInvariant ==
  ASSUME Overlapping \subseteq TaskReaders
  PROVE  Spec => [](Account /\ OnlyTaskReaders)
<1>1. Init => Account /\ OnlyTaskReaders
  BY DEF Init, Created, Account, NobodyCollects, NoTask, Early, OnlyTaskReaders, Idle
<1>2. TypeOK /\ Account /\ OnlyTaskReaders /\ [Next]_vars => Account'
  BY OvertakenStep DEF Settled
<1>3. TypeOK /\ OnlyTaskReaders /\ [Next]_vars => OnlyTaskReaders'
  <2> SUFFICES ASSUME TypeOK, OnlyTaskReaders, [Next]_vars PROVE OnlyTaskReaders'
    OBVIOUS
  <2>1. ASSUME NEW r \in Requests, NEW call \in Calls, call[1] \in Overlapping,
               Begin(r, call[1], call[2])
        PROVE  OnlyTaskReaders'
    BY <2>1 DEF Begin, OnlyTaskReaders, TypeOK
  <2>2. ASSUME NEW r \in Requests, inflight' = [inflight EXCEPT ![r] = Idle]
        PROVE  OnlyTaskReaders'
    BY <2>2 DEF OnlyTaskReaders, TypeOK, Idle
  <2>3. ASSUME UNCHANGED inflight PROVE OnlyTaskReaders'
    BY <2>3 DEF OnlyTaskReaders
  <2> QED
    BY <2>1, <2>2, <2>3 DEF Next, OneCall, Overlap, Finish, Abandon, vars
<1> QED
  BY <1>1, <1>2, <1>3, TypeCorrect, PTL DEF Spec

\* Courier calls (dispatch/service.py confirm_pickup, shipments/credentials.py
\* start_delivery and confirm_delivery) may be overtaken by
\* anything between loading their task and locking the shipment: refunds stay
\* within payments, a quote is charged once, closing leaves the account even,
\* and a cancelled shipment stays cancelled.
THEOREM CouriersMayBeOvertaken ==
  ASSUME Overlapping \subseteq TaskReaders
  PROVE  Spec => /\ []RefundWithinPayments /\ []PaidOnce
                 /\ SettledOnClose /\ CancelledIsFinal
<1>1. Account => RefundWithinPayments /\ PaidOnce
  BY DEF Account, RefundWithinPayments, PaidOnce
<1>2. TypeOK /\ Account /\ OnlyTaskReaders /\ [Next]_vars
        => /\ [status' # status /\ status' \in {"CANCELLED", "RETURNED"}
                 => refunded' = paid']_vars
           /\ [status = "CANCELLED" => status' = "CANCELLED"]_vars
  BY OvertakenStep DEF Settled, Settles
<1> QED
  BY <1>1, <1>2, ReadersInvariant, TypeCorrect, PTL DEF Spec, SettledOnClose, CancelledIsFinal

-----------------------------------------------------------------------------
(* The money alone asks less: of the calls that load before they lock only    *)
(* pay_quote, refund_payment and the reweigh spoil the account when they are  *)
(* overtaken.  Every other one may commit on rows of any age.                 *)

\* The calls that charge or give back on the strength of what they loaded.
Chargers == {"pay_quote", "refund_payment", "confirm_pickup_with_reweigh"}

NoChargerOvertaken ==
  \A r \in Requests : inflight[r].call \notin Chargers

CancelOnRecord == \E n \in 1..MaxPayments : <<"cancel", n>> \in tracked

\* The quote is unpaid, or the one payment can still be given back whole.
Unspent == \/ status = "PENDING_PAYMENT"
           \/ status \in Refundable /\ payments > 0

\* A payment and a refund_payment leave the confirm_payment key behind, so the
\* status that allows them is not reached again; while one of them is possible
\* nothing went back yet and no courier can reweigh.
Books ==
  /\ refunded <= paid /\ payments <= 1
  /\ payments > 0 \/ CancelOnRecord => <<"confirm_payment", 0>> \in tracked
  /\ status = "PENDING_PAYMENT" => <<"confirm_payment", 0>> \notin tracked
  /\ Unspent => refunded = 0 /\ NobodyCollects /\ ~CancelOnRecord
  /\ \A t \in TaskIds :
       <<"assign", t>> \in tracked => tasks[t].status \notin {"NONE", "AVAILABLE"}

\* No event is forgotten, and a new status allows no payment and no refund.
Onward == tracked \subseteq tracked' /\ (status' # status => status' \notin Early)

\* What a handler does that neither charges nor refunds nor hands out a task.
Quiet == UNCHANGED money /\ Onward /\ CalmKeys /\ CalmTasks

\* Books sees of a step only money, the three kinds of keys and taken tasks.
LEMMA OnwardKeepsBooks ==
  ASSUME CoreTypeOK, Books, Onward, CalmKeys, CalmTasks,
         payments' = payments, refunded' <= paid', Unspent => UNCHANGED refunded
  PROVE  Books'
<1>1. /\ \A n : <<"cancel", n>> \in tracked' <=> <<"cancel", n>> \in tracked
      /\ \A t : <<"assign", t>> \in tracked' <=> <<"assign", t>> \in tracked
      /\ <<"confirm_payment", 0>> \in tracked' <=> <<"confirm_payment", 0>> \in tracked
  BY DEF CalmKeys, Onward
<1>2. CancelOnRecord' <=> CancelOnRecord
  BY <1>1 DEF CancelOnRecord
<1>3. Unspent' => Unspent
  BY DEF Unspent, Onward, Early, Refundable
<1>4. NobodyCollects => NobodyCollects'
  BY DEF NobodyCollects, CalmTasks
<1>5. \A t \in TaskIds :
        <<"assign", t>> \in tracked' => tasks'[t].status \notin {"NONE", "AVAILABLE"}
  BY <1>1 DEF Books, CalmTasks
<1>6. status' = "PENDING_PAYMENT" => status = "PENDING_PAYMENT"
  BY DEF Onward, Early
<1>7. payments' <= 1 /\ (payments' > 0 => payments > 0)
  BY DEF Books
<1>8. Unspent' => refunded' = 0 /\ NobodyCollects' /\ ~CancelOnRecord'
  BY <1>2, <1>3, <1>4 DEF Books
<1> QED
  BY <1>1, <1>2, <1>5, <1>6, <1>7, <1>8 DEF Books

LEMMA QuietKeepsBooks == CoreTypeOK /\ Books /\ Quiet => Books'
  BY OnwardKeepsBooks DEF Quiet, Books, money

LEMMA TransitionOnward ==
  ASSUME NEW from, NEW target, NEW key, TransitionFrom(from, target, key),
         target \notin Early, key[1] \notin {"confirm_payment", "cancel", "assign"}
  PROVE  Onward /\ CalmKeys
  BY DEF TransitionFrom, Onward, CalmKeys

LEMMA UntouchedOnward == UNCHANGED <<status, tracked>> => Onward /\ CalmKeys
  BY DEF Onward, CalmKeys

LEMMA UntouchedQuiet == UNCHANGED core => Quiet
  BY UntouchedOnward, UntouchedCalm DEF core, row, money, Quiet

-----------------------------------------------------------------------------
\* The services that move the parcel, on rows of any age.
LEMMA FulfilmentQuiet ==
  ASSUME CoreTypeOK
  PROVE  /\ \A t \in TaskIds : ConfirmPickup(t) \/ ConfirmDelivery(t) => Quiet
         /\ \A seen : AcceptDropoff(seen) \/ ConfirmOriginArrival(seen) => Quiet
         /\ DispatchLinehaul \/ ArriveDestination \/ StartDelivery => Quiet
         /\ \A seen : IssuePickupCredential(seen) \/ VerifyStationPickup(seen) => Quiet
         /\ CredentialExpires => Quiet
<1> USE DEF Early
<1>1. ASSUME NEW t \in TaskIds, ConfirmPickup(t) \/ ConfirmDelivery(t) PROVE Quiet
  BY <1>1, TransitionOnward, CompletedCalm DEF ConfirmPickup, ConfirmDelivery, Quiet
<1>2. ASSUME NEW seen, AcceptDropoff(seen) \/ ConfirmOriginArrival(seen) PROVE Quiet
  <2>1. PICK action \in {"accept_dropoff", "confirm_origin_arrival"} :
          ReachOrigin(seen, action)
    BY <1>2 DEF AcceptDropoff, ConfirmOriginArrival
  <2> QED
    BY <2>1, TransitionOnward, UntouchedCalm DEF ReachOrigin, Quiet
<1>3. ASSUME DispatchLinehaul \/ StartDelivery PROVE Quiet
  BY <1>3, TransitionOnward, UntouchedCalm DEF DispatchLinehaul, StartDelivery, Quiet
<1>4. ASSUME ArriveDestination PROVE Quiet
  <2>1. Onward /\ CalmKeys /\ UNCHANGED money
    BY <1>4, TransitionOnward DEF ArriveDestination
  <2>2. CASE UNCHANGED tasks
    BY <2>1, <2>2, UntouchedCalm DEF Quiet
  <2>3. ASSUME NEW t \in TaskIds, Unused(t),
               tasks' = [tasks EXCEPT ![t] = NewTask("DELIVERY")]
        PROVE  Quiet
    BY <2>1, <2>3 DEF CoreTypeOK, Unused, NewTask, NoTask, CalmTasks, Quiet
  <2> QED
    BY <1>4, <2>2, <2>3 DEF ArriveDestination
<1>5. ASSUME NEW seen, IssuePickupCredential(seen) PROVE Quiet
  <2>1. Onward /\ CalmKeys
    BY <1>5, TransitionOnward, UntouchedOnward DEF IssuePickupCredential
  <2> QED
    BY <1>5, <2>1, UntouchedCalm DEF IssuePickupCredential, Quiet
<1>6. ASSUME NEW seen, VerifyStationPickup(seen) PROVE Quiet
  BY <1>6, TransitionOnward, UntouchedCalm DEF VerifyStationPickup, Quiet
<1>7. ASSUME CredentialExpires PROVE Quiet
  BY <1>7, UntouchedOnward, UntouchedCalm DEF CredentialExpires, row, Quiet
<1> QED
  BY <1>1, <1>2, <1>3, <1>4, <1>5, <1>6, <1>7

\* An exception case moves no money; a reassigned task starts unassigned.
LEMMA CasesQuiet ==
  ASSUME CoreTypeOK
  PROVE  /\ \A c \in CaseIds, blocks \in BOOLEAN : OpenCase(c, blocks) => Quiet
         /\ \A c \in CaseIds : \A action : ActOnCase(c, action) => Quiet
         /\ \A c \in CaseIds, old \in TaskIds : ReassignTask(c, old) => Quiet
         /\ ResumeShipment => Quiet
<1>1. ASSUME OnlyCases PROVE Quiet
  BY <1>1, UntouchedOnward, UntouchedCalm DEF OnlyCases, row, Quiet
<1>2. ASSUME NEW c \in CaseIds, NEW old \in TaskIds, ReassignTask(c, old) PROVE Quiet
  BY <1>2, ReassignedCalm, UntouchedOnward DEF ReassignTask, row, Quiet
<1> QED
  BY <1>1, <1>2 DEF OpenCase, ActOnCase, ResumeShipment

\* The recovery actions that leave the account alone.
LEMMA RecoveryQuiet ==
  ASSUME CoreTypeOK
  PROVE  Redeliver \/ ConvertToPickup \/ ApproveReturn \/ StartReturn => Quiet
<1> USE DEF Early
<1>1. ASSUME Redeliver PROVE Quiet
  BY <1>1, RedeliveredCalm DEF Redeliver, Quiet, Onward, CalmKeys
<1>2. ASSUME ConvertToPickup PROVE Quiet
  <2>1. CalmTasks
    BY <1>2, CancelledCalm DEF ConvertToPickup, CalmTasks
  <2> QED
    BY <1>2, <2>1 DEF ConvertToPickup, Quiet, Onward, CalmKeys
<1>3. ASSUME ApproveReturn \/ StartReturn PROVE Quiet
  BY <1>3, UntouchedCalm DEF ApproveReturn, StartReturn, Quiet, Onward, CalmKeys
<1> QED
  BY <1>1, <1>2, <1>3

-----------------------------------------------------------------------------
\* The first booking finds nothing refunded and no cancellation on record; a
\* later one, by a request however old, finds its key and changes no status.
LEMMA BookedKeepsBooks ==
  ASSUME CoreTypeOK, Books, NEW seen, Booked(seen), UNCHANGED refunded,
         \/ UNCHANGED <<paid, payments>>
         \/ /\ status = "PENDING_PAYMENT"
            /\ payments' = payments + 1 /\ paid' = paid + quote.total
  PROVE  Books'
<1>1. TransitionFrom(seen.status, PaidTarget, <<"confirm_payment", 0>>)
  BY DEF Booked
<1>2. PaidTarget \in Refundable /\ PaidTarget # "PENDING_PAYMENT"
  BY DEF PaidTarget, Refundable
<1>3. CalmTasks
  BY CreatedCalm, UntouchedCalm DEF Booked
<1>4. paid \in Nat /\ refunded \in Nat /\ payments \in Nat /\ quote.total \in Nat
  BY AccountTyped
<1>5. CASE <<"confirm_payment", 0>> \in tracked
  <2>1. UNCHANGED <<status, tracked>> /\ status # "PENDING_PAYMENT"
    BY <1>1, <1>5 DEF TransitionFrom, Books
  <2>2. refunded' <= paid' /\ payments' = payments
    BY <2>1 DEF Books
  <2> QED
    BY <1>3, <2>1, <2>2, OnwardKeepsBooks, UntouchedOnward
<1>6. CASE <<"confirm_payment", 0>> \notin tracked
  <2>1. status' = PaidTarget /\ tracked' = tracked \cup {<<"confirm_payment", 0>>}
    BY <1>1, <1>6 DEF TransitionFrom
  <2>2. payments = 0 /\ ~CancelOnRecord'
    BY <1>4, <1>6, <2>1 DEF Books, CancelOnRecord
  <2>3. refunded' <= paid' /\ payments' <= 1
    BY <1>4, <2>2 DEF Books
  <2>4. Unspent' => refunded' = 0 /\ NobodyCollects'
    <3>1. CASE UNCHANGED payments
      BY <1>2, <2>1, <2>2, <3>1 DEF Unspent
    <3>2. CASE status = "PENDING_PAYMENT"
      BY <1>3, <3>2 DEF Books, Unspent, NobodyCollects, CalmTasks
    <3> QED
      BY <3>1, <3>2
  <2>5. \A t \in TaskIds :
          <<"assign", t>> \in tracked' => tasks'[t].status \notin {"NONE", "AVAILABLE"}
    BY <1>3, <2>1 DEF Books, CalmTasks
  <2> QED
    BY <1>2, <2>1, <2>2, <2>3, <2>4, <2>5 DEF Books
<1> QED
  BY <1>5, <1>6

\* confirm_payment and pay_supplement on rows of any age: the first takes no
\* money, the second only adds to it.
LEMMA LatePaymentsKeepBooks ==
  ASSUME CoreTypeOK, Books, NEW seen
  PROVE  /\ ConfirmPayment(seen) => Books'
         /\ Shortfall(seen) \in Nat /\ PaySupplement(seen) => Books'
<1>1. ASSUME ConfirmPayment(seen) PROVE Books'
  BY <1>1, BookedKeepsBooks DEF ConfirmPayment, money
<1>2. ASSUME Shortfall(seen) \in Nat, PaySupplement(seen) PROVE Books'
  <2>1. /\ UNCHANGED <<refunded, payments, tasks>>
        /\ paid' = paid + Shortfall(seen)
    BY <1>2 DEF PaySupplement
  <2>2. refunded' <= paid'
    BY <1>2, <2>1, AccountTyped DEF Books
  <2>3. Onward /\ CalmKeys
    <3>1. CASE seen.status = "AWAITING_SUPPLEMENT"
      BY <1>2, <3>1, TransitionOnward DEF PaySupplement, Early
    <3>2. CASE seen.status # "AWAITING_SUPPLEMENT"
      BY <1>2, <3>2, UntouchedOnward DEF PaySupplement
    <3> QED
      BY <3>1, <3>2
  <2> QED
    BY <2>1, <2>2, <2>3, OnwardKeepsBooks, UntouchedCalm
<1> QED
  BY <1>1, <1>2

\* The calls that charge or give back, when nobody comes in between.
LEMMA ChargersKeepBooks ==
  ASSUME CoreTypeOK, Books
  PROVE  /\ PayQuote(Seen) => Books'
         /\ \A n \in 1..MaxPayments :
              RefundPaymentReads /\ RefundPayment(Seen, n) => Books'
         /\ \A t \in TaskIds :
              ReweighReads(t) /\ ConfirmPickupWithReweigh(Seen, t) => Books'
<1>0. paid \in Nat /\ refunded \in Nat /\ payments \in Nat
  BY AccountTyped
<1>1. ASSUME PayQuote(Seen) PROVE Books'
  BY <1>1, BookedKeepsBooks DEF PayQuote, Payable, Seen
<1>2. ASSUME NEW n \in 1..MaxPayments, RefundPaymentReads, RefundPayment(Seen, n)
      PROVE  Books'
  <2>1. Unspent /\ refunded = 0 /\ ~CancelOnRecord
    BY <1>2 DEF RefundPaymentReads, Unspent, Books
  <2>2. status' = "CANCELLED" /\ tracked' = tracked \cup {<<"cancel", n>>}
    BY <1>2, <2>1 DEF RefundPayment, TransitionFrom, CancelOnRecord
  <2>3. refunded' = paid' /\ paid' = paid /\ UNCHANGED <<payments, tasks>>
    BY <1>0, <1>2, <2>1 DEF RefundPayment, Seen
  <2>4. <<"confirm_payment", 0>> \in tracked
    BY <1>2 DEF RefundPaymentReads, Books
  <2>5. \A t \in TaskIds : <<"assign", t>> \in tracked' => <<"assign", t>> \in tracked
    BY <2>2
  <2> QED
    BY <1>0, <2>2, <2>3, <2>4, <2>5 DEF Books, Unspent, Refundable
<1>3. ASSUME NEW t \in TaskIds, ReweighReads(t), ConfirmPickupWithReweigh(Seen, t)
      PROVE  Books'
  <2>1. PICK total \in Totals :
          ReweighRefused(Seen, total) \/ ReweighCollected(Seen, t, total)
    BY <1>3 DEF ConfirmPickupWithReweigh
  <2>2. total \in Nat
    BY CoreAssumptions
  <2>3. ~Unspent
    BY <1>3 DEF Books, NobodyCollects, ReweighReads
  <2>4. refunded' <= paid' /\ payments' = payments
    <3>1. refunded' = refunded + Overpaid(Seen, total) /\ UNCHANGED <<paid, payments>>
      BY <2>1 DEF ReweighRefused, ReweighCollected, NewQuote
    <3>2. refunded + Overpaid(Seen, total) <= paid
      BY <1>0, <2>2 DEF Overpaid, Difference, Seen, Books
    <3> QED
      BY <3>1, <3>2
  <2>5. CalmTasks
    BY <2>1, CompletedCalm, UntouchedCalm DEF ReweighRefused, ReweighCollected
  <2>6. Written(Seen, Reweighed(Seen, total))
          \in {status, "AWAITING_SUPPLEMENT", "PICKUP_ASSIGNED"}
    BY DEF Written, Reweighed, Seen
  <2>7. Onward /\ CalmKeys
    <3>1. CASE ReweighRefused(Seen, total)
      BY <3>1, <2>6 DEF ReweighRefused, Early, Onward, CalmKeys
    <3>2. CASE ReweighCollected(Seen, t, total) /\ <<"confirm_pickup", t>> \in tracked
      BY <3>2, <2>6 DEF ReweighCollected, Early, Onward, CalmKeys
    <3>3. CASE ReweighCollected(Seen, t, total) /\ <<"confirm_pickup", t>> \notin tracked
      BY <3>3, TransitionOnward DEF ReweighCollected, Early
    <3> QED
      BY <2>1, <3>1, <3>2, <3>3
  <2> QED
    BY <2>3, <2>4, <2>5, <2>7, OnwardKeepsBooks
<1> QED
  BY <1>1, <1>2, <1>3

\* A courier takes a task that is on offer, so the status moves on.
LEMMA AcceptKeepsBooks ==
  ASSUME CoreTypeOK, Books, NEW t \in TaskIds, NEW k \in Couriers, AcceptTask(t, k)
  PROVE  Books'
<1>1. <<"assign", t>> \notin tracked
  BY DEF AcceptTask, Books
<1>2. /\ status' \in {"PICKUP_ASSIGNED", "DELIVERY_ASSIGNED"}
      /\ tracked' = tracked \cup {<<"assign", t>>}
      /\ UNCHANGED money
  BY <1>1 DEF AcceptTask, AcceptTarget, TransitionFrom
<1>3. \A s \in TaskIds : s # t => tasks'[s] = tasks[s]
  BY DEF AcceptTask, CoreTypeOK
<1>4. tasks'[t].status = "ACCEPTED"
  <2>1. tasks[t] \in Task
    BY DEF AcceptTask, CoreTypeOK, NoTask
  <2> QED
    BY <2>1 DEF AcceptTask, CoreTypeOK, Task
<1>5. CancelOnRecord' => CancelOnRecord
  BY <1>2 DEF CancelOnRecord
<1>6. \A s \in TaskIds :
        <<"assign", s>> \in tracked' => tasks'[s].status \notin {"NONE", "AVAILABLE"}
  BY <1>2, <1>3, <1>4 DEF Books
<1>7. ~Unspent' /\ status' # "PENDING_PAYMENT"
  BY <1>2 DEF Unspent, Refundable
<1> QED
  BY <1>2, <1>5, <1>6, <1>7 DEF Books, money

\* What closes a shipment squares its account and moves it on.
LEMMA ClosingKeepsBooks ==
  ASSUME CoreTypeOK, Books, CancelShipment \/ CompleteReturn
  PROVE  Books'
<1>1. refunded' = paid' /\ UNCHANGED <<paid, payments, tracked>>
  BY AccountTyped DEF CancelShipment, CompleteReturn, RefundedInFull, Books
<1>2. status' \in {"CANCELLED", "RETURNED"}
  BY DEF CancelShipment, CompleteReturn
<1>3. CalmTasks
  BY CancelledCalm, UntouchedCalm DEF CancelShipment, CompleteReturn, CalmTasks
<1>4. ~Unspent' /\ status' # "PENDING_PAYMENT" /\ CancelOnRecord' = CancelOnRecord
  BY <1>1, <1>2 DEF Unspent, Refundable, CancelOnRecord
<1>5. refunded' <= paid'
  BY <1>1, AccountTyped
<1> QED
  BY <1>1, <1>3, <1>4, <1>5 DEF Books, CalmTasks

-----------------------------------------------------------------------------
\* Any other call than a charger, whatever it has loaded.
LEMMA LateCommitKeepsBooks ==
  ASSUME CoreTypeOK, Books, NEW call, NEW x, NEW seen, call \notin Chargers,
         call \in {"confirm_pickup", "confirm_delivery"} => x \in TaskIds,
         call = "pay_supplement" => Shortfall(seen) \in Nat,
         Commits(call, x, seen)
  PROVE  Books'
<1>1. CASE call \in {"confirm_payment", "pay_supplement"}
  BY <1>1, LatePaymentsKeepBooks DEF Commits
<1>2. CASE call \notin {"confirm_payment", "pay_supplement"}
  BY <1>2, FulfilmentQuiet, QuietKeepsBooks DEF Commits, Chargers
<1> QED
  BY <1>1, <1>2

LEMMA ServeKeepsBooks ==
  ASSUME CoreTypeOK, Books, NEW call \in Calls, Serve(call[1], call[2])
  PROVE  Books'
<1>1. /\ call[1] \in {"confirm_pickup", "confirm_pickup_with_reweigh", "confirm_delivery"}
           => call[2] \in TaskIds
      /\ call[1] = "refund_payment" => call[2] \in 1..MaxPayments
  BY CallArguments
<1>2. CASE call[1] \in Chargers
  BY <1>1, <1>2, ChargersKeepBooks DEF Serve, Loads, Commits, Chargers
<1>3. CASE call[1] \notin Chargers
  <2>1. call[1] = "pay_supplement" => Shortfall(Seen) \in Nat
    <3>1. quote.total \in Nat /\ paid \in Nat
      BY AccountTyped
    <3> QED
      BY <3>1 DEF Serve, Loads, PaySupplementReads, Shortfall, Seen
  <2> QED
    BY <1>1, <1>3, <2>1, LateCommitKeepsBooks DEF Serve
<1> QED
  BY <1>2, <1>3

LEMMA FinishKeepsBooks ==
  ASSUME TypeOK, Books, NoChargerOvertaken, NEW r \in Requests, Finish(r)
  PROVE  Books'
<1> DEFINE i == inflight[r]
<1>1. /\ CoreTypeOK /\ Sound(i.call, i.arg, i.seen) /\ i.seen \in SeenRows
      /\ i.call \notin Chargers /\ Commits(i.call, i.arg, i.seen)
  BY DEF TypeOK, Slots, NoChargerOvertaken, Finish
<1>2. i.call \in {"confirm_pickup", "confirm_delivery"} => i.arg \in TaskIds
  BY <1>1, CallArguments DEF Sound
<1>3. i.call = "pay_supplement" => Shortfall(i.seen) \in Nat
  <2>1. i.seen.quote.total \in Nat /\ i.seen.paid \in Nat
    BY <1>1 DEF SeenRows
  <2> QED
    BY <1>1, <2>1 DEF Sound, Shortfall
<1> QED
  BY <1>1, <1>2, <1>3, LateCommitKeepsBooks

LEMMA LockFirstKeepsBooks ==
  ASSUME CoreTypeOK, Books, LockFirst
  PROVE  Books'
<1>1. ASSUME NEW t \in TaskIds, NEW k \in Couriers, AcceptTask(t, k) PROVE Books'
  BY <1>1, AcceptKeepsBooks
<1>2. CASE DispatchLinehaul \/ ArriveDestination \/ CredentialExpires
  BY <1>2, FulfilmentQuiet, QuietKeepsBooks
<1>3. CASE Recovers
  BY <1>3, ClosingKeepsBooks, RecoveryQuiet, QuietKeepsBooks DEF Recovers
<1> QED
  BY <1>1, <1>2, <1>3, CasesQuiet, QuietKeepsBooks DEF LockFirst

LEMMA BooksStep ==
  ASSUME TypeOK, Books, NoChargerOvertaken, [Next]_vars
  PROVE  Books'
<1>0. CoreTypeOK
  BY DEF TypeOK
<1>1. CASE OneCall
  BY <1>0, <1>1, ServeKeepsBooks, LockFirstKeepsBooks DEF OneCall
<1>2. ASSUME NEW r \in Requests, Finish(r) PROVE Books'
  BY <1>2, FinishKeepsBooks
<1>3. CASE UNCHANGED core
  BY <1>0, <1>3, UntouchedQuiet, QuietKeepsBooks
<1> QED
  BY <1>1, <1>2, <1>3 DEF Next, Overlap, Begin, Abandon, vars

LEMMA BooksInvariant ==
  ASSUME Overlapping \cap Chargers = {}
  PROVE  Spec => [](Books /\ NoChargerOvertaken)
<1>1. Init => Books /\ NoChargerOvertaken
  BY DEF Init, Created, Books, Unspent, CancelOnRecord, NobodyCollects, NoTask, Refundable,
         NoChargerOvertaken, Chargers, Idle
<1>2. TypeOK /\ Books /\ NoChargerOvertaken /\ [Next]_vars => Books'
  BY BooksStep
<1>3. TypeOK /\ NoChargerOvertaken /\ [Next]_vars => NoChargerOvertaken'
  <2> SUFFICES ASSUME TypeOK, NoChargerOvertaken, [Next]_vars PROVE NoChargerOvertaken'
    OBVIOUS
  <2>1. ASSUME NEW r \in Requests, NEW call \in Calls, call[1] \in Overlapping,
               Begin(r, call[1], call[2])
        PROVE  NoChargerOvertaken'
    BY <2>1 DEF Begin, NoChargerOvertaken, TypeOK
  <2>2. ASSUME NEW r \in Requests, inflight' = [inflight EXCEPT ![r] = Idle]
        PROVE  NoChargerOvertaken'
    BY <2>2 DEF NoChargerOvertaken, TypeOK, Idle, Chargers
  <2>3. ASSUME UNCHANGED inflight PROVE NoChargerOvertaken'
    BY <2>3 DEF NoChargerOvertaken
  <2> QED
    BY <2>1, <2>2, <2>3 DEF Next, OneCall, Overlap, Finish, Abandon, vars
<1> QED
  BY <1>1, <1>2, <1>3, TypeCorrect, PTL DEF Spec

\* Whatever else overlaps, and on rows however old: as long as pay_quote,
\* refund_payment (payments/service.py) and confirm_pickup_with_reweigh
\* (dispatch/router.py) are not overtaken, what goes back never exceeds what
\* was paid and a quote is charged once.
THEOREM OnlyChargersNeedTheLock ==
  ASSUME Overlapping \cap Chargers = {}
  PROVE  Spec => [](RefundWithinPayments /\ PaidOnce)
<1>1. Books => RefundWithinPayments /\ PaidOnce
  BY DEF Books, RefundWithinPayments, PaidOnce
<1> QED
  BY <1>1, BooksInvariant, PTL
=============================================================================
