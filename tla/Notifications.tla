--------------------------- MODULE Notifications ----------------------------
(***************************************************************************)
(* Notifications made from events and their deliveries over each channel   *)
(* (notifications/), on top of the outbox that carries the events: the     *)
(* handler of notification.requested is what Outbox counts as an effect.   *)
(***************************************************************************)
EXTENDS Outbox

CONSTANTS
  Channels,    \* channels of a notification
  Deliverers,  \* runs of deliver_notifications that may overlap
  Batch        \* rows such a run takes at most

ASSUME NotificationAssumption == Batch \in Nat \ {0}

VARIABLES
  message,   \* notification_messages: the status of each event's notification
  delivery,  \* notification_deliveries: status for each channel, times it was sent
  batch      \* the rows each run has locked

noteVars == <<message, delivery, batch>>
allVars  == <<vars, noteVars>>

Rows      == Events \X Channels
NoRow     == [status |-> "none", sends |-> 0]
Requested == [status |-> "PENDING", sends |-> 0]

NotesInit ==
  /\ message = [e \in Events |-> "none"]
  /\ delivery = [row \in Rows |-> NoRow]
  /\ batch = [d \in Deliverers |-> {}]

-----------------------------------------------------------------------------
(* The handler *)

\* Mutant: the rows are added outside the handler's savepoint.
MaterializedAnyway(e) ==
  /\ message' = IF message[e] = "none" THEN [message EXCEPT ![e] = "UNREAD"] ELSE message
  /\ delivery' = [row \in Rows |-> IF row[1] = e /\ delivery[row] = NoRow THEN Requested
                                   ELSE delivery[row]]

\* from_event(): a notification and one delivery for each channel, unless they exist.
\* A template that is unknown or lacks a variable makes the handler raise.
FromEvent(e) ==
  /\ message' = IF message[e] = "none" THEN [message EXCEPT ![e] = "UNREAD"] ELSE message
  /\ delivery' = [row \in Rows |-> IF row[1] = e /\ delivery[row] = NoRow THEN Requested
                                   ELSE delivery[row]]
\* _record_failure() is all that a failed handler leaves.
Undone(e) == UNCHANGED <<message, delivery>>

HandleNotificationEvent(w) == Succeed(w) /\ FromEvent(job[w]) /\ UNCHANGED batch
HandlerRaises(w) == Fail(w) /\ Undone(job[w]) /\ UNCHANGED batch

-----------------------------------------------------------------------------
(* deliver_notifications() *)

\* Mutant: the rows are read without FOR UPDATE SKIP LOCKED.
UnlockedAny(row) == TRUE
Unlocked(row) == \A d \in Deliverers : row \notin batch[d]

\* FAILED rows would be taken as well; the simulated channels never fail.
Pending == {row \in Rows : delivery[row].status = "PENDING" /\ Unlocked(row)}

\* Mutant: the query names one channel only.
OneChannel(rows) == {row \in rows : row[2] = CHOOSE c \in Channels : TRUE}
\* The rows of both channels.
Found(rows) == rows

TakeBatch(d) ==
  /\ batch[d] = {}
  /\ \E rows \in SUBSET Found(Pending) \ {{}} :
       /\ Cardinality(rows) <= Batch
       /\ Cardinality(rows) < Batch => rows = Found(Pending)
       /\ batch' = [batch EXCEPT ![d] = rows]
  /\ UNCHANGED <<vars, message, delivery>>

\* deliver_channel() of each row, and the commit.
DeliverBatch(d) ==
  /\ batch[d] # {}
  /\ delivery' = [row \in Rows |->
       IF row \in batch[d] THEN [status |-> "DELIVERED", sends |-> delivery[row].sends + 1]
       ELSE delivery[row]]
  /\ batch' = [batch EXCEPT ![d] = {}]
  /\ UNCHANGED <<vars, message>>

DelivererDies(d) ==
  /\ batch[d] # {} /\ crashes < MaxCrashes
  /\ batch' = [batch EXCEPT ![d] = {}]
  /\ crashes' = crashes + 1
  /\ UNCHANGED <<status, attempts, due, lock, sent, queue, phase, job, effects, letters,
                 dropped, message, delivery>>

-----------------------------------------------------------------------------
(* The customer *)

MarkRead(e) ==
  /\ message[e] # "none"
  /\ message' = [message EXCEPT ![e] = "READ"]
  /\ UNCHANGED <<vars, delivery, batch>>

MarkAllRead ==
  /\ message' = [e \in Events |-> IF message[e] = "UNREAD" THEN "READ" ELSE message[e]]
  /\ UNCHANGED <<vars, delivery, batch>>

-----------------------------------------------------------------------------
NotesNext ==
  \/ /\ \/ \E e \in Events : Append(e) \/ BackoffEnds(e)
        \/ \E r \in Relays : RelayStep(r) \/ RelayFails(r)
        \/ \E w \in Workers : \/ \E e \in Events : Receive(w, e)
                             \/ LockRow(w) \/ Skip(w) \/ Acknowledge(w)
                             \/ WorkerFails(w) \/ TaskRaises(w) \/ ProcessDies(w)
     /\ UNCHANGED noteVars
  \/ \E w \in Workers : HandleNotificationEvent(w) \/ HandlerRaises(w)
  \/ \E d \in Deliverers : TakeBatch(d) \/ DeliverBatch(d) \/ DelivererDies(d)
  \/ \E e \in Events : MarkRead(e)
  \/ MarkAllRead

NotesSpec == Init /\ NotesInit /\ [][NotesNext]_allVars

\* Beat starts a run every five seconds.
NotesFairness ==
  \A d \in Deliverers : WF_allVars(TakeBatch(d)) /\ WF_allVars(DeliverBatch(d))

NotesFairSpec == NotesSpec /\ NotesFairness

-----------------------------------------------------------------------------
(* Properties *)

\* Notifications and deliveries are well formed; simulated channels deliver at once.
NotesTypeOK ==
  /\ TypeOK
  /\ message \in [Events -> {"none", "UNREAD", "READ"}]
  /\ delivery \in [Rows -> [status: {"none", "PENDING", "DELIVERED"}, sends: Nat]]
  /\ batch \in [Deliverers -> SUBSET Rows]

\* Through failures, retries and redelivered messages the customer has a notification, with
\* a delivery for each channel, exactly when its event is completed: never for an event
\* that failed and will be tried again, and never half of one.
NoticeMatchesEvent ==
  \A e \in Events :
    /\ message[e] # "none" <=> status[e] = "completed"
    /\ \A c \in Channels : delivery[<<e, c>>] # NoRow <=> status[e] = "completed"

\* Runs that overlap or die send no delivery twice.
SentOnce ==
  \A row \in Rows :
    delivery[row].sends = IF delivery[row].status = "DELIVERED" THEN 1 ELSE 0

\* Every notification goes out over every channel in the end.
EventuallyDelivered ==
  \A row \in Rows : delivery[row].status = "PENDING" ~> delivery[row].status = "DELIVERED"
=============================================================================
