---------------------------- MODULE OutboxProofs ----------------------------
(***************************************************************************)
(* Proofs about Outbox for any events, relays, workers and bounds: its     *)
(* safety invariants, that a published row has its message unless a        *)
(* consumer dropped it, and that it implements the safety part of          *)
(* EventDelivery.                                                          *)
(***************************************************************************)
EXTENDS Outbox, TLAPS

-----------------------------------------------------------------------------
(* The inductive invariant: who holds a row lock is in the middle of a     *)
(* transaction on that row, and a relay holds pending rows only.           *)

\* A busy worker has a job; it holds a row lock exactly while it is "locked",
\* and then it is the lock of its job.
WorkersLock ==
  \A w \in Workers :
    /\ phase[w] # "idle" => job[w] \in Events
    /\ \A e \in Events : lock[e] = w <=> phase[w] = "locked" /\ job[w] = e

\* A relay has published only rows it holds, and these are still pending.
RelaysLock ==
  \A r \in Relays :
    /\ sent[r] \subseteq Claimed(r)
    /\ \A e \in Claimed(r) : status[e] = "pending"

IInv == TypeOK /\ EffectOnce /\ DeadLetterOnce /\ WorkersLock /\ RelaysLock

LEMMA InitIInv == Init => IInv
  BY OutboxAssumption
     DEF Init, IInv, TypeOK, EffectOnce, DeadLetterOnce, WorkersLock, RelaysLock,
         Claimed, RowStatus, Phase

\* A batch consists of rows the relay's query selects.
LEMMA BatchRelayable == ASSUME NEW batch \in Batches PROVE batch \subseteq Relayable
  BY DEF Batches, kSubset

LEMMA NextIInv == IInv /\ [Next]_vars => IInv'
<1> SUFFICES ASSUME IInv, [Next]_vars PROVE IInv'
  OBVIOUS
<1> USE OutboxAssumption DEF IInv, TypeOK, EffectOnce, DeadLetterOnce, WorkersLock,
                             RelaysLock, Claimed, RowStatus, Phase
<1>1. ASSUME NEW e \in Events, Append(e) PROVE IInv'
  BY <1>1 DEF Append
<1>2. ASSUME NEW e \in Events, BackoffEnds(e) PROVE IInv'
  BY <1>2 DEF BackoffEnds
<1>3. ASSUME NEW r \in Relays, RelayClaim(r) PROVE IInv'
  BY <1>3, BatchRelayable DEF RelayClaim, Relayable, Free
<1>4. ASSUME NEW r \in Relays, RelayPublish(r) PROVE IInv'
  BY <1>4 DEF RelayPublish
<1>5. ASSUME NEW r \in Relays, RelayCommit(r) PROVE IInv'
  BY <1>5 DEF RelayCommit, AllSent, Released
<1>6. ASSUME NEW r \in Relays, RelayFails(r) PROVE IInv'
  BY <1>6 DEF RelayFails, Released
<1>7. ASSUME NEW w \in Workers, NEW e \in Events, Receive(w, e) PROVE IInv'
  BY <1>7 DEF Receive
<1>8. ASSUME NEW w \in Workers, LockRow(w) PROVE IInv'
  BY <1>8 DEF LockRow, Free
<1>9. ASSUME NEW w \in Workers, Skip(w) PROVE IInv'
  BY <1>9 DEF Skip, Ends, Consumable, Released
<1>10. ASSUME NEW w \in Workers, Succeed(w) PROVE IInv'
  BY <1>10 DEF Succeed, Ends, Consumable, Released
<1>11. ASSUME NEW w \in Workers, Fail(w) PROVE IInv'
  <2> USE <1>11 DEF Fail, Ends, Consumable
  <2> DEFINE e == job[w]
  <2>1. e \in Events /\ lock[e] = w /\ status[e] = "published"
    OBVIOUS
  <2>2. attempts' \in [Events -> 0..MaxAttempts]
    <3>1. attempts[e] \in 0..MaxAttempts /\ attempts[e] # MaxAttempts
      BY <2>1
    <3>2. attempts[e] + 1 \in 0..MaxAttempts
      BY ONLY <3>1, OutboxAssumption
    <3> QED
      BY <2>1, <3>2
  <2>3. TypeOK'
    <3>1. status' \in [Events -> RowStatus] /\ letters' \in [Events -> Nat]
      BY <2>1
    <3>2. due' \in [Events -> BOOLEAN]
      <4>1. due' = due \/ due' = [due EXCEPT ![e] = FALSE]
        BY DEF LastAttempt
      <4>2. due \in [Events -> BOOLEAN]
        OBVIOUS
      <4> QED
        BY ONLY <4>1, <4>2, Zenon
    <3> QED
      BY <2>1, <2>2, <3>1, <3>2 DEF Released
  <2>4. EffectOnce'
    BY <2>1 DEF LastAttempt
  <2>5. DeadLetterOnce'
    BY <2>1, <2>2 DEF LastAttempt
  <2>6. WorkersLock'
    BY <2>1 DEF Released
  <2>7. RelaysLock'
    BY <2>1 DEF Released, LastAttempt
  <2> QED
    BY <2>3, <2>4, <2>5, <2>6, <2>7
<1>12. ASSUME NEW w \in Workers, Acknowledge(w) PROVE IInv'
  BY <1>12 DEF Acknowledge, Forget
<1>13. ASSUME NEW w \in Workers, WorkerFails(w) PROVE IInv'
  BY <1>13 DEF WorkerFails, Forget, Released
<1>14. ASSUME NEW w \in Workers, TaskRaises(w) \/ ProcessDies(w) PROVE IInv'
  BY <1>14 DEF TaskRaises, ProcessDies, Drops, Forget, Released
<1>15. CASE UNCHANGED vars
  BY <1>15 DEF vars
<1> QED
  BY <1>1, <1>2, <1>3, <1>4, <1>5, <1>6, <1>7, <1>8, <1>9, <1>10, <1>11, <1>12,
     <1>13, <1>14, <1>15 DEF Next, RelayStep, Consume

LEMMA Inductive == Spec => []IInv
  BY InitIInv, NextIInv, PTL DEF Spec

\* relay and consumer leave rows, locks, messages and tasks well formed,
\* whatever the numbers of events, relays, workers and failures.
THEOREM TypeCorrect == Spec => []TypeOK
  BY Inductive, PTL DEF IInv

\* consume_once(): duplicates, retries and crashes never make the handler of an
\* event take effect twice, nor leave a completed row without its effect.
THEOREM EffectIsOnce == Spec => []EffectOnce
  BY Inductive, PTL DEF IInv

\* _record_failure(): one dead letter, at the failure that reaches the limit.
THEOREM DeadLetterIsOnce == Spec => []DeadLetterOnce
  BY Inductive, PTL DEF IInv

-----------------------------------------------------------------------------
(* A published row has its message, unless a consumer dropped it.          *)

\* What a relay has sent is already on its way before the row says so; the
\* relay's row lock keeps every worker from looking too early.
SentIsUnderway ==
  \A r \in Relays : \A e \in sent[r] : Underway(e) \/ e \in dropped

UInv == PublishedIsUnderway /\ SentIsUnderway

LEMMA InitUInv == Init => UInv
  BY DEF Init, UInv, PublishedIsUnderway, SentIsUnderway

LEMMA NextUInv == IInv /\ UInv /\ [Next]_vars => UInv'
<1> SUFFICES ASSUME IInv, UInv, [Next]_vars PROVE UInv'
  OBVIOUS
<1> USE OutboxAssumption DEF IInv, UInv, TypeOK, WorkersLock, RelaysLock, Claimed,
                             PublishedIsUnderway, SentIsUnderway, Underway, Phase
<1>1. ASSUME NEW e \in Events, Append(e) \/ BackoffEnds(e) PROVE UInv'
  BY <1>1 DEF Append, BackoffEnds
<1>2. ASSUME NEW r \in Relays, RelayClaim(r) PROVE UInv'
  BY <1>2 DEF RelayClaim
<1>3. ASSUME NEW r \in Relays, RelayPublish(r) PROVE UInv'
  BY <1>3 DEF RelayPublish
<1>4. ASSUME NEW r \in Relays, RelayCommit(r) PROVE UInv'
  BY <1>4 DEF RelayCommit, AllSent
<1>5. ASSUME NEW r \in Relays, RelayFails(r) PROVE UInv'
  BY <1>5 DEF RelayFails
<1>6. ASSUME NEW w \in Workers, NEW e \in Events, Receive(w, e) PROVE UInv'
  BY <1>6 DEF Receive
<1>7. ASSUME NEW w \in Workers, LockRow(w) PROVE UInv'
  BY <1>7 DEF LockRow
<1>8. ASSUME NEW w \in Workers, Skip(w) PROVE UInv'
  BY <1>8 DEF Skip, Ends, Consumable
<1>9. ASSUME NEW w \in Workers, Succeed(w) PROVE UInv'
  BY <1>9 DEF Succeed, Ends, Consumable
<1>10. ASSUME NEW w \in Workers, Fail(w) PROVE UInv'
  BY <1>10 DEF Fail, Ends, Consumable
<1>11. ASSUME NEW w \in Workers, Acknowledge(w) PROVE UInv'
  BY <1>11 DEF Acknowledge, Forget
<1>12. ASSUME NEW w \in Workers, WorkerFails(w) PROVE UInv'
  BY <1>12 DEF WorkerFails, Forget
<1>13. ASSUME NEW w \in Workers, TaskRaises(w) \/ ProcessDies(w) PROVE UInv'
  BY <1>13 DEF TaskRaises, ProcessDies, Drops, Forget
<1>14. CASE UNCHANGED vars
  BY <1>14 DEF vars
<1> QED
  BY <1>1, <1>2, <1>3, <1>4, <1>5, <1>6, <1>7, <1>8, <1>9, <1>10, <1>11, <1>12,
     <1>13, <1>14 DEF Next, RelayStep, Consume

\* A row marked published, which relay_pending_events() never selects again, has a message
\* in the queue or in a worker that has not read the row yet, or since it was last published
\* a consumer's task raised outside the savepoint or its process died; nothing else, and no
\* loss of a worker, a relay or their connections, can separate a row from its message.
THEOREM NothingStranded == Spec => []PublishedIsUnderway
  BY NextUInv, Inductive, InitUInv, PTL DEF Spec, UInv

-----------------------------------------------------------------------------
(* The outbox implements the safety part of EventDelivery.                 *)

LEMMA StageValues ==
  /\ StageOf("none") = "none" /\ StageOf("pending") = "open"
  /\ StageOf("published") = "open" /\ StageOf("completed") = "handled"
  /\ StageOf("dead") = "given up"
  BY DEF StageOf

\* Without an effect or a dead letter, a step that leaves every stage alone, or loses open
\* events, is a step of the promise.
LEMMA MovesOnly ==
  ASSUME UNCHANGED <<effects, letters>>,
         \A e \in Events :
           Stages'[e] = Stages[e] \/ (Stages[e] = "open" /\ Stages'[e] = "lost")
  PROVE  [Delivery!Next]_(Delivery!edVars)
<1> DEFINE gone == {e \in Events : Stages'[e] # Stages[e]}
<1>0. Stages = [e \in Events |-> Stages[e]] /\ Stages' = [e \in Events |-> Stages'[e]]
  BY DEF Stages
<1>1. CASE gone = {}
  <2>1. Stages' = Stages
    BY <1>0, <1>1
  <2> QED
    BY <2>1 DEF Delivery!edVars
<1>2. CASE gone # {}
  <2>1. Stages' = [e \in Events |-> IF e \in gone THEN "lost" ELSE Stages[e]]
    BY <1>0
  <2>2. Delivery!Lose(gone)
    BY <1>2, <2>1 DEF Delivery!Lose
  <2> QED
    BY <2>2 DEF Delivery!Next
<1> QED
  BY <1>1, <1>2

\* A row whose status stays, and that no message can rescue if none could before, keeps its
\* stage or is lost.
LEMMA RowMoves ==
  ASSUME TypeOK, NEW e \in Events, status'[e] = status[e], Stranded(e) => Stranded(e)'
  PROVE  Stages'[e] = Stages[e] \/ (Stages[e] = "open" /\ Stages'[e] = "lost")
  BY StageValues DEF TypeOK, Stages, Stranded

\* Where no message and no job moves, a change of one row's status changes one stage.
LEMMA StageStep ==
  ASSUME TypeOK, NEW e \in Events, NEW row \in RowStatus \ {"published"},
         status' = [status EXCEPT ![e] = row], UNCHANGED <<queue, job>>
  PROVE  Stages' = [Stages EXCEPT ![e] = StageOf(row)]
<1>1. Stages'[e] = StageOf(row)
  BY DEF TypeOK, Stages, Stranded
<1>2. \A d \in Events \ {e} : Stages'[d] = Stages[d]
  BY DEF TypeOK, Stages, Stranded
<1> QED
  BY <1>1, <1>2 DEF Stages

LEMMA StepSimulates == IInv /\ [Next]_vars => [Delivery!Next]_(Delivery!edVars)
<1> SUFFICES ASSUME IInv, [Next]_vars PROVE [Delivery!Next]_(Delivery!edVars)
  OBVIOUS
<1> USE DEF IInv, TypeOK
<1>1. ASSUME NEW e \in Events, Append(e) PROVE Delivery!Open(e)
  <2>1. Stages[e] = "none"
    BY <1>1, StageValues DEF Append, Stages, Stranded
  <2>2. status' = [status EXCEPT ![e] = "pending"] /\ UNCHANGED <<queue, job>>
    BY <1>1 DEF Append
  <2>3. Stages' = [Stages EXCEPT ![e] = "open"]
    <3>1. Stages' = [Stages EXCEPT ![e] = StageOf("pending")]
      BY ONLY TypeOK, <1>1, <2>2, StageStep, Zenon DEF RowStatus
    <3> QED
      BY <3>1, StageValues
  <2> QED
    BY <1>1, <2>1, <2>3 DEF Append, Delivery!Open
<1>2. ASSUME NEW e \in Events, BackoffEnds(e) PROVE UNCHANGED Delivery!edVars
  BY <1>2 DEF BackoffEnds, Stages, Stranded, Delivery!edVars
<1>3. ASSUME NEW r \in Relays, RelayCommit(r) PROVE [Delivery!Next]_(Delivery!edVars)
  <2>1. UNCHANGED <<effects, letters>>
    BY <1>3 DEF RelayCommit
  <2>2. ASSUME NEW e \in Claimed(r)
        PROVE  Stages[e] = "open" /\ Stages'[e] \in {"open", "lost"}
    <3>1. e \in Events /\ status[e] = "pending" /\ status'[e] = "published"
      BY <1>3, <2>2 DEF RelayCommit, RelaysLock, Claimed
    <3> QED
      BY <3>1, StageValues DEF Stages, Stranded
  <2>3. ASSUME NEW e \in Events, e \notin Claimed(r) PROVE Stages'[e] = Stages[e]
    BY <1>3, <2>3 DEF RelayCommit, Stages, Stranded
  <2> QED
    BY <2>1, <2>2, <2>3, MovesOnly DEF Claimed
<1>4. ASSUME NEW r \in Relays, RelayPublish(r) PROVE [Delivery!Next]_(Delivery!edVars)
  <2>1. UNCHANGED <<effects, letters, status, job>>
    BY <1>4 DEF RelayPublish
  <2>2. ASSUME NEW e \in Events, Stranded(e) PROVE Stranded(e)'
    BY <1>4, <2>2 DEF RelayPublish, RelaysLock, Stranded
  <2> QED
    BY <2>1, <2>2, RowMoves, MovesOnly
<1>5. ASSUME NEW r \in Relays, RelayClaim(r) \/ RelayFails(r)
      PROVE  UNCHANGED Delivery!edVars
  BY <1>5 DEF RelayClaim, RelayFails, Stages, Stranded, Delivery!edVars
<1>6. ASSUME NEW w \in Workers, Succeed(w) PROVE Delivery!Next
  <2>1. job[w] \in Events /\ Stages[job[w]] = "open"
    BY <1>6, StageValues DEF Succeed, Ends, Consumable, WorkersLock, Stages, Stranded
  <2>2. status' = [status EXCEPT ![job[w]] = "completed"] /\ UNCHANGED <<queue, job>>
    BY <1>6 DEF Succeed, Ends
  <2>3. Stages' = [Stages EXCEPT ![job[w]] = "handled"]
    <3>1. Stages' = [Stages EXCEPT ![job[w]] = StageOf("completed")]
      BY ONLY TypeOK, <2>1, <2>2, StageStep, Zenon DEF RowStatus
    <3> QED
      BY <3>1, StageValues
  <2>4. Delivery!Take(job[w])
    BY <1>6, <2>1, <2>3 DEF Succeed, Delivery!Take
  <2> QED
    BY <2>1, <2>4 DEF Delivery!Next, Delivery!Settle
<1>7. ASSUME NEW w \in Workers, Fail(w)
      PROVE  [Delivery!Next]_(Delivery!edVars)
  <2>1. job[w] \in Events /\ Stages[job[w]] = "open"
    BY <1>7, StageValues DEF Fail, Ends, Consumable, WorkersLock, Stages, Stranded
  <2>2. CASE LastAttempt(job[w])
    <3>1. status' = [status EXCEPT ![job[w]] = "dead"] /\ UNCHANGED <<queue, job>>
      BY <1>7, <2>2 DEF Fail, Ends
    <3>2. Stages' = [Stages EXCEPT ![job[w]] = "given up"]
      <4>1. Stages' = [Stages EXCEPT ![job[w]] = StageOf("dead")]
        BY ONLY TypeOK, <2>1, <3>1, StageStep, Zenon DEF RowStatus
      <4> QED
        BY <4>1, StageValues
    <3>3. Delivery!GiveUp(job[w])
      BY <1>7, <2>1, <2>2, <3>2 DEF Fail, Delivery!GiveUp
    <3> QED
      BY <2>1, <3>3 DEF Delivery!Next, Delivery!Settle
  <2>3. CASE ~LastAttempt(job[w])
    <3>1. /\ UNCHANGED <<effects, letters, queue, job>>
          /\ status' = [status EXCEPT ![job[w]] = "pending"]
      BY <1>7, <2>3 DEF Fail, Ends
    <3>2. Stages' = [Stages EXCEPT ![job[w]] = "open"]
      <4>1. Stages' = [Stages EXCEPT ![job[w]] = StageOf("pending")]
        BY ONLY TypeOK, <2>1, <3>1, StageStep, Zenon DEF RowStatus
      <4> QED
        BY <4>1, StageValues
    <3>3. Stages' = Stages
      BY <2>1, <3>2 DEF Stages
    <3> QED
      BY <3>1, <3>3 DEF Delivery!edVars
  <2> QED
    BY <2>2, <2>3
<1>8. ASSUME NEW w \in Workers,
             \/ \E e \in Events : Receive(w, e)
             \/ Acknowledge(w) \/ WorkerFails(w) \/ TaskRaises(w) \/ ProcessDies(w)
      PROVE  [Delivery!Next]_(Delivery!edVars)
  <2>1. UNCHANGED <<effects, letters, status>>
    BY <1>8 DEF Receive, Acknowledge, WorkerFails, TaskRaises, ProcessDies
  <2>2. ASSUME NEW e \in Events, Stranded(e) PROVE Stranded(e)'
    <3>1. CASE \E d \in Events : Receive(w, d)
      BY <2>2, <3>1 DEF Receive, Stranded
    <3>2. CASE WorkerFails(w)
      BY <2>2, <3>2, OutboxAssumption DEF WorkerFails, Forget, WorkersLock, Stranded
    <3>3. CASE Acknowledge(w) \/ TaskRaises(w) \/ ProcessDies(w)
      <4>1. queue' = queue /\ job' = [job EXCEPT ![w] = None]
        BY <3>3 DEF Acknowledge, TaskRaises, ProcessDies, Drops, Forget
      <4> QED
        BY <2>1, <2>2, <4>1, OutboxAssumption DEF Stranded
    <3> QED
      BY <1>8, <3>1, <3>2, <3>3
  <2> QED
    BY <2>1, <2>2, RowMoves, MovesOnly
<1>9. ASSUME NEW w \in Workers, LockRow(w) \/ Skip(w) PROVE UNCHANGED Delivery!edVars
  BY <1>9 DEF LockRow, Skip, Ends, Stages, Stranded, Delivery!edVars
<1>10. CASE UNCHANGED vars
  BY <1>10 DEF vars, Stages, Stranded, Delivery!edVars
<1> QED
  BY <1>1, <1>2, <1>3, <1>4, <1>5, <1>6, <1>7, <1>8, <1>9, <1>10
     DEF Next, RelayStep, Consume, Delivery!Next

\* Relays, duplicates, retries and crashes are invisible at the level of the promise: every
\* step opens an event, settles one for good, loses some for good, or is none.
THEOREM ImplementsDelivery == Spec => DeliverySafety
<1>1. Init => Delivery!Init
  BY DEF Init, Delivery!Init, StageOf, Stages, Stranded
<1> QED
  BY <1>1, StepSimulates, Inductive, PTL DEF Spec, DeliverySafety, Delivery!SafeSpec
=============================================================================
