------------------------------- MODULE Outbox -------------------------------
(***************************************************************************)
(* The transactional outbox: rows of outbox_events, relays that publish    *)
(* them to the Celery queue, and workers that consume the messages         *)
(* (platform/outbox.py, platform/tasks.py, worker.py).                     *)
(*                                                                         *)
(* Publishing is not part of the relay's transaction: a message is in the  *)
(* queue before the row is committed as published, and stays there when    *)
(* the relay fails.  What a transaction wrote is visible at its commit, so *)
(* the rows change in one step there; its row locks are kept in lock.      *)
(*                                                                         *)
(* The broker is Redis behind Celery with acks_late: a message is          *)
(* acknowledged when its task ends, with or without an exception, and also *)
(* when only the process that runs the task dies, because                  *)
(* task_reject_on_worker_lost keeps its default (off).  It is delivered    *)
(* again only if the whole worker or its connection to the broker is lost. *)
(***************************************************************************)
EXTENDS Integers, FiniteSets, FiniteSetsExt

CONSTANTS
  Events,         \* ids of the events business transactions may append
  Relays,         \* runs of relay_outbox that may overlap
  Workers,        \* worker processes
  Limit,          \* rows a relay claims at most
  MaxAttempts,    \* failures after which an event is dead
  MaxMessages,    \* bound: messages of one event in the queue
  MaxCrashes,     \* bound: failures of relays and workers
  None            \* owner of a free row, job of an idle worker

ASSUME OutboxAssumption ==
  /\ MaxAttempts \in Nat \ {0}
  /\ Limit \in Nat \ {0} /\ MaxMessages \in Nat \ {0} /\ MaxCrashes \in Nat
  /\ None \notin Relays \cup Workers \cup Events
  /\ Relays \cap Workers = {}

VARIABLES
  status,     \* outbox_events.status, "none" before the row exists
  attempts,   \* outbox_events.attempts
  due,        \* next_attempt_at has come
  lock,       \* who holds the row lock
  sent,       \* events a relay has published in its transaction
  queue,      \* messages of each event in the broker
  phase,      \* how far each worker process is with its task
  job,        \* the event of that task
  effects,    \* committed effects of the event's handler
  letters,    \* rows of dead_letters
  dropped,    \* history: events of which a message was lost undone since the last publish
  crashes     \* failures so far

vars == <<status, attempts, due, lock, sent, queue, phase, job, effects, letters, dropped,
          crashes>>

RowStatus == {"none", "pending", "published", "completed", "dead"}
Phase     == {"idle", "received", "locked", "ended"}

Claimed(r)  == {e \in Events : lock[e] = r}
Free(e)     == lock[e] = None
Released(p) == [e \in Events |-> IF lock[e] = p THEN None ELSE lock[e]]

Init ==
  /\ status = [e \in Events |-> "none"]
  /\ attempts = [e \in Events |-> 0]
  /\ due = [e \in Events |-> FALSE]
  /\ lock = [e \in Events |-> None]
  /\ sent = [r \in Relays |-> {}]
  /\ queue = [e \in Events |-> 0]
  /\ phase = [w \in Workers |-> "idle"]
  /\ job = [w \in Workers |-> None]
  /\ effects = [e \in Events |-> 0]
  /\ letters = [e \in Events |-> 0]
  /\ dropped = {}
  /\ crashes = 0

\* OutboxService.append(), at the commit of the caller's transaction.
Append(e) ==
  /\ status[e] = "none"
  /\ status' = [status EXCEPT ![e] = "pending"]
  /\ due' = [due EXCEPT ![e] = TRUE]
  /\ UNCHANGED <<attempts, lock, sent, queue, phase, job, effects, letters, dropped, crashes>>

-----------------------------------------------------------------------------
(* relay_pending_events() *)

\* Mutant: an event that failed once is not looked for again.
RelayableOnce ==
  {e \in Events : status[e] = "pending" /\ attempts[e] = 0 /\ Free(e)}
\* FOR UPDATE SKIP LOCKED over the pending rows that are due.
Relayable == {e \in Events : status[e] = "pending" /\ due[e] /\ Free(e)}

Batches ==
  IF Cardinality(Relayable) <= Limit THEN {Relayable} ELSE kSubset(Limit, Relayable)

RelayClaim(r) ==
  /\ Claimed(r) = {} /\ Relayable # {}
  /\ \E batch \in Batches :
       lock' = [e \in Events |-> IF e \in batch THEN r ELSE lock[e]]
  /\ UNCHANGED <<status, attempts, due, sent, queue, phase, job, effects, letters, dropped,
                 crashes>>

RelayPublish(r) ==
  /\ \E e \in Claimed(r) \ sent[r] :
       /\ queue[e] < MaxMessages
       /\ queue' = [queue EXCEPT ![e] = @ + 1]
       /\ sent' = [sent EXCEPT ![r] = @ \cup {e}]
       /\ dropped' = dropped \ {e}
  /\ UNCHANGED <<status, attempts, due, lock, phase, job, effects, letters, crashes>>

\* Mutant: rows are marked although the broker has not taken their messages.
MarkedAtOnce(r) == TRUE
\* The loop over the batch has come to its end.
AllSent(r) == sent[r] = Claimed(r)

RelayCommit(r) ==
  /\ Claimed(r) # {} /\ AllSent(r)
  /\ status' = [e \in Events |-> IF e \in Claimed(r) THEN "published" ELSE status[e]]
  /\ lock' = Released(r)
  /\ sent' = [sent EXCEPT ![r] = {}]
  /\ UNCHANGED <<attempts, due, queue, phase, job, effects, letters, dropped, crashes>>

\* The broker refuses, or the relay dies: rolled back, messages stay.
RelayFails(r) ==
  /\ Claimed(r) # {} /\ crashes < MaxCrashes
  /\ lock' = Released(r)
  /\ sent' = [sent EXCEPT ![r] = {}]
  /\ crashes' = crashes + 1
  /\ UNCHANGED <<status, attempts, due, queue, phase, job, effects, letters, dropped>>

\* Time reaches next_attempt_at.
BackoffEnds(e) ==
  /\ status[e] = "pending" /\ ~due[e]
  /\ due' = [due EXCEPT ![e] = TRUE]
  /\ UNCHANGED <<status, attempts, lock, sent, queue, phase, job, effects, letters, dropped,
                 crashes>>

-----------------------------------------------------------------------------
(* consume_outbox_event() and consume_once() *)

\* A worker process receives a message; it is not acknowledged yet.
Receive(w, e) ==
  /\ phase[w] = "idle" /\ queue[e] > 0
  /\ queue' = [queue EXCEPT ![e] = @ - 1]
  /\ phase' = [phase EXCEPT ![w] = "received"]
  /\ job' = [job EXCEPT ![w] = e]
  /\ UNCHANGED <<status, attempts, due, lock, sent, effects, letters, dropped, crashes>>

\* SELECT ... FOR UPDATE waits for a relay or worker that holds the row.
LockRow(w) ==
  /\ phase[w] = "received" /\ Free(job[w])
  /\ lock' = [lock EXCEPT ![job[w]] = w]
  /\ phase' = [phase EXCEPT ![w] = "locked"]
  /\ UNCHANGED <<status, attempts, due, sent, queue, job, effects, letters, dropped, crashes>>

\* The transaction ends, the row is free, the message is still unacknowledged.
Ends(w) ==
  /\ phase[w] = "locked"
  /\ phase' = [phase EXCEPT ![w] = "ended"]
  /\ lock' = Released(w)
  /\ UNCHANGED <<job, sent, queue, dropped, crashes>>

\* Mutant: a redelivered message runs the handler again.
ConsumableAgain(e) == status[e] \in {"published", "completed"}
\* Rows of which consume_once() runs the handler.
Consumable(e) == status[e] = "published"

\* Settled already (returns False), or pending again (raises).
Skip(w) ==
  /\ Ends(w)
  /\ ~Consumable(job[w])
  /\ UNCHANGED <<status, attempts, due, effects, letters>>

\* The handler returns: its effect and the row are committed together.
Succeed(w) ==
  /\ Ends(w)
  /\ Consumable(job[w])
  /\ status' = [status EXCEPT ![job[w]] = "completed"]
  /\ effects' = [effects EXCEPT ![job[w]] = @ + 1]
  /\ UNCHANGED <<attempts, due, letters>>

\* Mutant: one failure too late.
OneTooLate(e) == attempts[e] >= MaxAttempts
\* The failures that make an event dead, this one included.
LastAttempt(e) == attempts[e] + 1 >= MaxAttempts

\* The handler raises: its savepoint is undone, _record_failure() counts.
Fail(w) ==
  /\ Ends(w)
  /\ Consumable(job[w])
  /\ attempts' = [attempts EXCEPT ![job[w]] = @ + 1]
  /\ IF LastAttempt(job[w])
       THEN /\ status' = [status EXCEPT ![job[w]] = "dead"]
            /\ letters' = [letters EXCEPT ![job[w]] = @ + 1]
            /\ UNCHANGED due
       ELSE /\ status' = [status EXCEPT ![job[w]] = "pending"]
            /\ due' = [due EXCEPT ![job[w]] = FALSE]
            /\ UNCHANGED letters
  /\ UNCHANGED effects

Forget(w) ==
  /\ phase' = [phase EXCEPT ![w] = "idle"]
  /\ job' = [job EXCEPT ![w] = None]

Acknowledge(w) ==
  /\ phase[w] = "ended"
  /\ Forget(w)
  /\ UNCHANGED <<status, attempts, due, lock, sent, queue, effects, letters, dropped, crashes>>

\* The worker or its connection to the broker is lost: what it has not acknowledged is
\* delivered again.
WorkerFails(w) ==
  /\ phase[w] # "idle" /\ crashes < MaxCrashes
  /\ queue' = [queue EXCEPT ![job[w]] = @ + 1]
  /\ lock' = Released(w)
  /\ crashes' = crashes + 1
  /\ Forget(w)
  /\ UNCHANGED <<status, attempts, due, sent, effects, letters, dropped>>

\* The task ends without a commit: rolled back, acknowledged, the message is lost undone.
Drops(w) ==
  /\ phase[w] \in {"received", "locked"}
  /\ lock' = Released(w)
  /\ dropped' = dropped \cup {job[w]}
  /\ Forget(w)

\* An exception outside the handler's savepoint: the database is lost, or refuses the row
\* lock, _record_failure() or the commit.
TaskRaises(w) ==
  /\ Drops(w)
  /\ crashes < MaxCrashes
  /\ crashes' = crashes + 1
  /\ UNCHANGED <<status, attempts, due, sent, queue, effects, letters>>

\* The process that runs the task dies alone, in its transaction or after it.
ProcessDies(w) ==
  /\ Drops(w) \/ (phase[w] = "ended" /\ Forget(w) /\ UNCHANGED <<lock, dropped>>)
  /\ crashes < MaxCrashes
  /\ crashes' = crashes + 1
  /\ UNCHANGED <<status, attempts, due, sent, queue, effects, letters>>

-----------------------------------------------------------------------------
RelayStep(r) == RelayClaim(r) \/ RelayPublish(r) \/ RelayCommit(r)

Consume(w) == LockRow(w) \/ Skip(w) \/ Succeed(w) \/ Fail(w) \/ Acknowledge(w)

Next ==
  \/ \E e \in Events : Append(e) \/ BackoffEnds(e)
  \/ \E r \in Relays : RelayStep(r) \/ RelayFails(r)
  \/ \E w \in Workers : \/ \E e \in Events : Receive(w, e)
                       \/ Consume(w) \/ WorkerFails(w) \/ TaskRaises(w) \/ ProcessDies(w)

Spec == Init /\ [][Next]_vars

\* Beat starts a relay every five seconds, a worker that runs takes its next
\* message and ends its task, and time passes.  Nothing makes anybody append.
Fairness ==
  /\ \A e \in Events : WF_vars(BackoffEnds(e))
  /\ \A r \in Relays : WF_vars(RelayStep(r))
  /\ \A w \in Workers : WF_vars(Consume(w)) /\ WF_vars(\E e \in Events : Receive(w, e))

FairSpec == Spec /\ Fairness

-----------------------------------------------------------------------------
(* Properties *)

\* Rows, locks, messages and tasks are well formed.
TypeOK ==
  /\ status \in [Events -> RowStatus]
  /\ attempts \in [Events -> 0..MaxAttempts]
  /\ due \in [Events -> BOOLEAN]
  /\ lock \in [Events -> Relays \cup Workers \cup {None}]
  /\ sent \in [Relays -> SUBSET Events]
  /\ queue \in [Events -> Nat]
  /\ phase \in [Workers -> Phase]
  /\ job \in [Workers -> Events \cup {None}]
  /\ effects \in [Events -> Nat] /\ letters \in [Events -> Nat]
  /\ dropped \subseteq Events
  /\ crashes \in 0..MaxCrashes

\* However often an event is published, received and retried, its handler
\* takes effect once, and exactly when the row is completed.
EffectOnce ==
  \A e \in Events : effects[e] = IF status[e] = "completed" THEN 1 ELSE 0

\* A dead letter is written once, and exactly for the events whose failures
\* reached the limit.
DeadLetterOnce ==
  \A e \in Events :
    /\ letters[e] = IF status[e] = "dead" THEN 1 ELSE 0
    /\ status[e] = "dead" <=> attempts[e] = MaxAttempts

\* The message of e is in the queue or in the hands of a worker that has not
\* looked at the row yet.
Underway(e) ==
  queue[e] > 0 \/ \E w \in Workers : job[w] = e /\ phase[w] \in {"received", "locked"}

\* A published row, which no relay looks at again, has a message on its way, whatever
\* happened between the relay's publish and its commit, and whichever workers were lost.
\* Only a consumer whose task raised outside the savepoint or whose process died since the
\* last publish can have lost it.
PublishedIsUnderway ==
  \A e \in Events : status[e] = "published" => Underway(e) \/ e \in dropped

\* No relay, message or worker will ever look at the row again.
Stranded(e) ==
  status[e] = "published" /\ queue[e] = 0 /\ \A w \in Workers : job[w] # e

\* Every appended event is settled, completed or dead, unless such a lost message leaves
\* its row stranded.
EventuallySettled ==
  \A e \in Events :
    status[e] = "pending" ~> status[e] \in {"completed", "dead"} \/ Stranded(e)

-----------------------------------------------------------------------------
\* The promise this module keeps, with pending and published both "open" as long as somebody
\* will look at the row.
StageOf(row) == CASE row = "none" -> "none"
                  [] row \in {"pending", "published"} -> "open"
                  [] row = "completed" -> "handled"
                  [] row = "dead" -> "given up"

Stages == [e \in Events |-> IF Stranded(e) THEN "lost" ELSE StageOf(status[e])]

Delivery == INSTANCE EventDelivery WITH stage <- Stages

DeliverySafety == Delivery!SafeSpec
DeliverySpec   == Delivery!Spec
=============================================================================
