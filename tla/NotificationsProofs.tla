------------------------ MODULE NotificationsProofs -------------------------
(***************************************************************************)
(* Proofs about Notifications for any events, channels, deliverers and     *)
(* workers: notifications exist exactly for completed events, and no       *)
(* delivery is sent twice.                                                 *)
(***************************************************************************)
EXTENDS Notifications, OutboxProofs

\* A run has locked only rows that still have to be sent, and no row of another run.
BatchesApart ==
  /\ \A d \in Deliverers : \A row \in batch[d] : delivery[row].status = "PENDING"
  /\ \A d, o \in Deliverers : d # o => batch[d] \cap batch[o] = {}

NotesInv == NotesTypeOK /\ NoticeMatchesEvent /\ SentOnce /\ BatchesApart
NInv == IInv /\ NotesInv

LEMMA InitNInv == Init /\ NotesInit => NInv
<1> SUFFICES ASSUME Init, NotesInit PROVE NInv
  OBVIOUS
<1>1. IInv
  BY InitIInv
<1>2. NotesTypeOK
  BY <1>1 DEF NotesInit, NotesTypeOK, NoRow, IInv
<1>3. NoticeMatchesEvent
  BY DEF Init, NotesInit, NoticeMatchesEvent, NoRow, Rows
<1>4. SentOnce /\ BatchesApart
  BY DEF NotesInit, SentOnce, BatchesApart, NoRow
<1> QED
  BY <1>1, <1>2, <1>3, <1>4 DEF NInv, NotesInv

\* The outbox underneath keeps its invariant: a deliverer only counts its failure.
LEMMA OutboxKept == IInv /\ [NotesNext]_allVars => IInv'
<1> SUFFICES ASSUME IInv, [NotesNext]_allVars PROVE IInv'
  OBVIOUS
<1>1. CASE [Next]_vars
  BY <1>1, NextIInv
<1>2. ASSUME NEW d \in Deliverers, DelivererDies(d) PROVE IInv'
  BY <1>2, OutboxAssumption
     DEF DelivererDies, IInv, TypeOK, EffectOnce, DeadLetterOnce, WorkersLock, RelaysLock,
         Claimed
<1>3. ASSUME NEW w \in Workers, HandleNotificationEvent(w) \/ HandlerRaises(w) PROVE Next
  BY <1>3 DEF HandleNotificationEvent, HandlerRaises, Next, Consume
<1>4. ASSUME NEW d \in Deliverers, TakeBatch(d) \/ DeliverBatch(d) PROVE UNCHANGED vars
  BY <1>4 DEF TakeBatch, DeliverBatch
<1>5. ASSUME NEW e \in Events, MarkRead(e) PROVE UNCHANGED vars
  BY <1>5 DEF MarkRead
<1>6. ASSUME MarkAllRead PROVE UNCHANGED vars
  BY <1>6 DEF MarkAllRead
<1>7. ASSUME UNCHANGED allVars PROVE UNCHANGED vars
  BY <1>7 DEF allVars
<1>8. ASSUME NEW w \in Workers,
             \/ \E e \in Events : Receive(w, e)
             \/ LockRow(w) \/ Skip(w) \/ Acknowledge(w) \/ WorkerFails(w) \/ TaskRaises(w)
             \/ ProcessDies(w)
      PROVE Next
  BY <1>8 DEF Next, Consume
<1>9. ASSUME \/ \E e \in Events : Append(e) \/ BackoffEnds(e)
             \/ \E r \in Relays : RelayStep(r) \/ RelayFails(r)
      PROVE Next
  BY <1>9 DEF Next
<1> QED
  BY <1>1, <1>2, <1>3, <1>4, <1>5, <1>6, <1>7, <1>8, <1>9 DEF NotesNext

\* Only the notification handler completes an event.
LEMMA OthersCompleteNothing ==
  ASSUME IInv,
         \/ \E e \in Events : Append(e) \/ BackoffEnds(e)
         \/ \E r \in Relays : RelayStep(r) \/ RelayFails(r)
         \/ \E w \in Workers : \/ \E e \in Events : Receive(w, e)
                              \/ LockRow(w) \/ Skip(w) \/ Acknowledge(w)
                              \/ WorkerFails(w) \/ TaskRaises(w) \/ ProcessDies(w)
                              \/ Fail(w)
  PROVE  \A e \in Events : status'[e] = "completed" <=> status[e] = "completed"
<1> USE DEF IInv, TypeOK, WorkersLock, RelaysLock
<1>1. ASSUME NEW e \in Events, Append(e) \/ BackoffEnds(e)
      PROVE  \A x \in Events : status'[x] = "completed" <=> status[x] = "completed"
  BY <1>1 DEF Append, BackoffEnds
<1>2. ASSUME NEW r \in Relays, RelayCommit(r)
      PROVE  \A x \in Events : status'[x] = "completed" <=> status[x] = "completed"
  BY <1>2 DEF RelayCommit
<1>3. ASSUME NEW r \in Relays, RelayClaim(r) \/ RelayPublish(r) \/ RelayFails(r)
      PROVE  UNCHANGED status
  BY <1>3 DEF RelayClaim, RelayPublish, RelayFails
<1>4. ASSUME NEW w \in Workers,
             \/ \E e \in Events : Receive(w, e)
             \/ LockRow(w) \/ Skip(w) \/ Acknowledge(w) \/ WorkerFails(w) \/ TaskRaises(w)
             \/ ProcessDies(w)
      PROVE  UNCHANGED status
  BY <1>4 DEF Receive, LockRow, Skip, Acknowledge, WorkerFails, TaskRaises, ProcessDies
<1>5. ASSUME NEW w \in Workers, Fail(w)
      PROVE  \A x \in Events : status'[x] = "completed" <=> status[x] = "completed"
  BY <1>5 DEF Fail, Ends, Consumable
<1> QED
  BY <1>1, <1>2, <1>3, <1>4, <1>5 DEF RelayStep

LEMMA NextNInv == NInv /\ [NotesNext]_allVars => NInv'
<1> SUFFICES ASSUME NInv, [NotesNext]_allVars PROVE NInv'
  OBVIOUS
<1>0. IInv /\ IInv'
  BY OutboxKept DEF NInv
<1>1. TypeOK'
  BY <1>0 DEF IInv
<1> USE DEF NInv, NotesInv, NotesTypeOK, NoticeMatchesEvent, SentOnce, BatchesApart, Rows, NoRow,
            Requested
\* Steps of the outbox that complete nothing and leave the notifications alone.
<1>2. ASSUME UNCHANGED noteVars,
             \A e \in Events : status'[e] = "completed" <=> status[e] = "completed"
      PROVE  NotesInv'
  BY <1>1, <1>2 DEF noteVars
<1>3. ASSUME NEW w \in Workers, HandleNotificationEvent(w) PROVE NotesInv'
  <2> DEFINE e == job[w]
  <2>1. /\ e \in Events /\ status[e] = "published"
        /\ status' = [status EXCEPT ![e] = "completed"] /\ FromEvent(e) /\ batch' = batch
    BY <1>0, <1>3 DEF HandleNotificationEvent, Succeed, Ends, Consumable, IInv, WorkersLock
  <2>2. message[e] = "none" /\ \A c \in Channels : delivery[<<e, c>>] = NoRow
    BY <2>1
  <2>3. message' = [message EXCEPT ![e] = "UNREAD"]
    BY <2>1, <2>2 DEF FromEvent
  <2>4. \A row \in Rows : delivery'[row] = IF row[1] = e THEN Requested ELSE delivery[row]
    BY <2>1, <2>2 DEF FromEvent
  <2>5. NotesTypeOK'
    BY <1>1, <2>1, <2>3 DEF FromEvent
  <2>6. NoticeMatchesEvent'
    <3>1. status \in [Events -> RowStatus]
      BY <1>0 DEF IInv, TypeOK
    <3>2. \A x \in Events : message'[x] # "none" <=> status'[x] = "completed"
      BY <2>1, <2>3, <3>1
    <3>3. \A x \in Events : \A c \in Channels :
            delivery'[<<x, c>>] # NoRow <=> status'[x] = "completed"
      <4> TAKE x \in Events
      <4> TAKE c \in Channels
      <4>1. delivery'[<<x, c>>] = IF x = e THEN Requested ELSE delivery[<<x, c>>]
        BY <2>4
      <4> QED
        BY <2>1, <3>1, <4>1
    <3> QED
      BY ONLY <3>2, <3>3 DEF NoticeMatchesEvent, NoRow
  <2>7. SentOnce'
    BY <2>4
  <2>8. BatchesApart'
    <3>1. \A d \in Deliverers : \A row \in batch[d] : row \in Rows /\ row[1] # e
      BY <2>2
    <3> QED
      BY <2>1, <2>4, <3>1
  <2> QED
    BY <2>5, <2>6, <2>7, <2>8
<1>4. ASSUME NEW w \in Workers, HandlerRaises(w) PROVE NotesInv'
  BY <1>0, <1>2, <1>4, OthersCompleteNothing DEF HandlerRaises, Undone, noteVars
<1>5. ASSUME NEW d \in Deliverers, TakeBatch(d) PROVE NotesInv'
  <2>1. PICK rows \in SUBSET Pending : batch' = [batch EXCEPT ![d] = rows]
    BY <1>5 DEF TakeBatch, Found
  <2>2. rows \subseteq Rows /\ \A row \in rows :
          delivery[row].status = "PENDING" /\ \A o \in Deliverers : row \notin batch[o]
    BY <2>1 DEF Pending, Unlocked
  <2>3. UNCHANGED <<message, delivery, status>>
    BY <1>5 DEF TakeBatch, vars
  <2> QED
    BY <1>1, <2>1, <2>2, <2>3
<1>6. ASSUME NEW d \in Deliverers, DeliverBatch(d) PROVE NotesInv'
  <2>1. /\ batch' = [batch EXCEPT ![d] = {}] /\ UNCHANGED <<message, status>>
        /\ delivery' = [row \in Rows |->
             IF row \in batch[d]
               THEN [status |-> "DELIVERED", sends |-> delivery[row].sends + 1]
               ELSE delivery[row]]
    BY <1>6 DEF DeliverBatch, vars
  <2>2. \A row \in batch[d] : row \in Rows /\ delivery[row].status = "PENDING"
                              /\ delivery[row].sends = 0
    OBVIOUS
  <2>3. NotesTypeOK'
    BY <1>1, <2>1, <2>2
  <2>4. SentOnce'
    BY <2>1, <2>2
  <2>5. NoticeMatchesEvent'
    BY <2>1, <2>2
  <2>6. BatchesApart'
    BY <2>1
  <2> QED
    BY <2>3, <2>4, <2>5, <2>6
<1>7. ASSUME NEW d \in Deliverers, DelivererDies(d) PROVE NotesInv'
  BY <1>1, <1>7 DEF DelivererDies
<1>8. ASSUME NEW e \in Events, MarkRead(e) PROVE NotesInv'
  BY <1>1, <1>8 DEF MarkRead, vars
<1>9. ASSUME MarkAllRead PROVE NotesInv'
  BY <1>1, <1>9 DEF MarkAllRead, vars
<1>10. ASSUME UNCHANGED noteVars,
              \/ \E e \in Events : Append(e) \/ BackoffEnds(e)
              \/ \E r \in Relays : RelayStep(r) \/ RelayFails(r)
              \/ \E w \in Workers : \/ \E e \in Events : Receive(w, e)
                                   \/ LockRow(w) \/ Skip(w) \/ Acknowledge(w)
                                   \/ WorkerFails(w) \/ TaskRaises(w) \/ ProcessDies(w)
       PROVE  NotesInv'
  <2>1. \A e \in Events : status'[e] = "completed" <=> status[e] = "completed"
    BY ONLY <1>0, <1>10, OthersCompleteNothing
  <2> QED
    BY <1>2, <1>10, <2>1
<1>11. ASSUME UNCHANGED allVars PROVE NotesInv'
  BY <1>2, <1>11 DEF allVars, noteVars, vars
<1>12. NotesInv'
  BY ONLY <1>3, <1>4, <1>5, <1>6, <1>7, <1>8, <1>9, <1>10, <1>11, [NotesNext]_allVars
     DEF NotesNext
<1> QED
  BY ONLY <1>0, <1>12 DEF NInv

LEMMA NotesInductive == NotesSpec => []NInv
  BY InitNInv, NextNInv, PTL DEF NotesSpec

\* notifications/models.py: notifications and their deliveries are well formed for any
\* channels, and so is the outbox that carries their events.
THEOREM NotesTypeCorrect == NotesSpec => []NotesTypeOK
  BY NotesInductive, PTL DEF NInv, NotesInv

\* NotificationService.from_event() runs in the savepoint of its event: whatever fails, is
\* retried or is delivered twice, there are notification and deliveries for the completed
\* events and for no others.
THEOREM NoticesMatchEvents == NotesSpec => []NoticeMatchesEvent
  BY NotesInductive, PTL DEF NInv, NotesInv

\* deliver_notifications(): FOR UPDATE SKIP LOCKED keeps any number of runs from sending
\* one delivery twice.
THEOREM SentAtMostOnce == NotesSpec => []SentOnce
  BY NotesInductive, PTL DEF NInv, NotesInv
=============================================================================
