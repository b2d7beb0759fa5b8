-------------------------- MODULE KnowledgeProofs ---------------------------
(***************************************************************************)
(* Proofs about KnowledgePipeline for any workers and bounds: types, one   *)
(* parse per round, what late results may touch, and that a document in    *)
(* the pipeline is carried on unless something was lost for good.          *)
(***************************************************************************)
EXTENDS KnowledgePipeline, TLAPS

-----------------------------------------------------------------------------
(* What the moves of a worker do to its job.                               *)

\* The phases of the two tasks.
Phases(message) ==
  IF message = "submit" THEN {"received", "announcing", "failing", "ended"}
                        ELSE {"received", "asking", "storing", "failing", "ended"}

LEMMA JobCases ==
  ASSUME NEW j \in JobType
  PROVE  \/ j = Idle
         \/ /\ j.message \in {"submit", "poll"} /\ j.at \in Phases(j.message)
            /\ j.attempt \in 0..MaxRounds /\ j # Idle
            /\ j.message = "submit" => j.attempt = 0
            /\ j = [message |-> j.message, at |-> j.at, attempt |-> j.attempt]
  BY KnowledgeAssumption DEF JobType, Idle, Phases

\* A worker that goes on with its task.
LEMMA GoesOn ==
  ASSUME job \in [Workers -> JobType], NEW w \in Workers, job[w] # Idle,
         NEW at \in Phases(job[w].message), Goes(w, at)
  PROVE  /\ job' \in [Workers -> JobType]
         /\ job'[w].at = at /\ job'[w].message = job[w].message
         /\ job'[w].attempt = job[w].attempt
         /\ \A v \in Workers : v # w => job'[v] = job[v]
<1>1. [job[w] EXCEPT !.at = at]
        = [message |-> job[w].message, at |-> at, attempt |-> job[w].attempt]
  BY JobCases
<1>2. [job[w] EXCEPT !.at = at] \in JobType
  BY <1>1, JobCases, KnowledgeAssumption DEF JobType, Phases
<1> QED
  BY <1>1, <1>2 DEF Goes

\* A worker that is done with its task, or takes a new one.
LEMMA Becomes ==
  ASSUME job \in [Workers -> JobType], NEW w \in Workers, NEW j \in JobType,
         job' = [job EXCEPT ![w] = j]
  PROVE  /\ job' \in [Workers -> JobType] /\ job'[w] = j
         /\ \A v \in Workers : v # w => job'[v] = job[v]
  OBVIOUS

\* The jobs that Receive, Acknowledge and PollReads assign.
LEMMA NewJobs ==
  /\ Idle \in JobType
  /\ Delivered("submit") \in JobType /\ Delivered("poll") \in JobType
  /\ \A n \in 0..MaxRounds : Asking(n) \in JobType
<1>1. 0 \in 0..MaxRounds
  BY KnowledgeAssumption
<1> QED
  BY <1>1 DEF Idle, Delivered, Asking, JobType

-----------------------------------------------------------------------------
(* Types and attempts, which need each other: an attempt is within the     *)
(* bound because the round it serves is.                                   *)

ParsedOnce == status = "PARSING" => attempts > 0

TInv == TypeOK /\ OneTaskPerRound /\ ParsedOnce

LEMMA InitTInv == Init => TInv
<1> SUFFICES ASSUME Init PROVE TInv
  OBVIOUS
<1>1. pdf \in BOOLEAN /\ uploading \in BOOLEAN
  BY DEF Init
<1>2. job \in [Workers -> JobType]
  BY NewJobs DEF Init
<1>3. status = "NONE" /\ attempts = 0 /\ text = 0 /\ reviewed = 0 /\ sending = 0
      /\ submits = 0 /\ polls = 0 /\ rounds = 0 /\ losses = 0
  BY DEF Init
<1> QED
  BY <1>1, <1>2, <1>3, KnowledgeAssumption DEF TInv, TypeOK, OneTaskPerRound, ParsedOnce

\* What a transition of the table can set.
LEMMA Table ==
  ASSUME NEW target, Transition(target)
  PROVE  /\ status \in DocumentStatus /\ status' = target
         /\ target \in {"QUEUED", "PARSING", "PARSE_FAILED", "REVIEW_REQUIRED",
                        "PUBLISHED", "ARCHIVED", "DEACTIVATED"}
         /\ target = "QUEUED" => status \in {"UPLOADED", "REVIEW_REQUIRED", "PARSE_FAILED",
                                              "PUBLISHED", "DEACTIVATED"}
         /\ target = "REVIEW_REQUIRED" => status = "PARSING"
         /\ target \in {"PUBLISHED", "ARCHIVED", "DEACTIVATED"}
              => status \in {"REVIEW_REQUIRED", "PUBLISHED"}
  BY DEF Transition, Successors, DocumentStatus, Parsable, Decided

\* The tasks of a worker keep them.
LEMMA WorkTInv ==
  ASSUME TInv, NEW w \in Workers, Work(w) PROVE TInv'
<1> USE KnowledgeAssumption DEF TInv, TypeOK, OneTaskPerRound, ParsedOnce
<1> SUFFICES /\ job' \in [Workers -> JobType]
             /\ submits' \in Nat /\ polls' \in Nat /\ losses' \in 0..MaxLosses
             /\ pdf' = pdf /\ reviewed' = reviewed
             /\ status' \in DocumentStatus \cup {"NONE", "DELETED"}
             /\ attempts' \in 0..MaxRounds /\ text' \in 0..MaxRounds
             /\ OneTaskPerRound' /\ ParsedOnce'
  BY DEF Work
<1>1. CASE Receive(w) /\ UNCHANGED <<document, losses>>
  BY <1>1, NewJobs, Becomes DEF Receive, document, Work
<1>2. CASE WorkerFails(w) /\ UNCHANGED losses
  BY <1>2, NewJobs, Becomes DEF WorkerFails, document, Work
<1>3. CASE TaskDies(w)
  BY <1>3, NewJobs, Becomes DEF TaskDies, document, broker, Work
<1>4. CASE Task(w) /\ UNCHANGED losses
  <2>0. /\ UNCHANGED <<uploading, sending, rounds, losses>>
        /\ losses \in 0..MaxLosses /\ job \in [Workers -> JobType]
        /\ "QUEUED" \in DocumentStatus /\ "PARSING" \in DocumentStatus
        /\ "PARSE_FAILED" \in DocumentStatus /\ "REVIEW_REQUIRED" \in DocumentStatus
    BY <1>4 DEF Work, DocumentStatus, Parsable, Decided
  <2>1. CASE SubmitPdf(w)
    <3>1. status = "QUEUED" /\ status' = "PARSING" /\ attempts' = attempts + 1
          /\ UNCHANGED <<pdf, text, reviewed, submits, polls>>
      BY <2>1 DEF SubmitPdf, Submittable, broker
    <3>2. job' \in [Workers -> JobType]
      BY <2>0, <2>1, GoesOn DEF SubmitPdf, Doing, Idle, Phases
    <3> QED
      BY <2>0, <3>1, <3>2
  <2>2. CASE ParseLocally(w)
    <3>1. status = "QUEUED" /\ status' = "REVIEW_REQUIRED" /\ attempts' = attempts + 1
          /\ text' = attempts + 1 /\ UNCHANGED <<pdf, reviewed, submits, polls>>
      BY <2>2 DEF ParseLocally, Submittable, broker
    <3>2. job' \in [Workers -> JobType]
      BY <2>0, <2>2, GoesOn DEF ParseLocally, Doing, Idle, Phases
    <3> QED
      BY <2>0, <3>1, <3>2
  <2>3. CASE SubmitAgain(w) \/ SubmitFails(w) \/ MinerUAnswers(w) \/ StoreFails(w)
    <3>1. UNCHANGED <<document, broker>>
      BY <2>3 DEF SubmitAgain, SubmitFails, MinerUAnswers, StoreFails
    <3>2. job' \in [Workers -> JobType]
      BY <2>0, <2>3, GoesOn
         DEF SubmitAgain, SubmitFails, MinerUAnswers, StoreFails, Doing, Idle, Phases
    <3> QED
      BY <2>0, <3>1, <3>2 DEF document, broker
  <2>4. CASE Announce(w)
    <3>1. job' \in [Workers -> JobType]
      BY <2>0, <2>4, GoesOn DEF Announce, Doing, Idle, Phases
    <3> QED
      BY <2>0, <2>4, <3>1 DEF Announce, document
  <2>5. CASE PollReads(w)
    <3>1. job' \in [Workers -> JobType]
      <4>1. CASE status = "PARSING"
        BY <2>5, <4>1, NewJobs, Becomes DEF PollReads
      <4>2. CASE status # "PARSING"
        BY <2>0, <2>5, <4>2, GoesOn DEF PollReads, Doing, Idle, Phases
      <4> QED
        BY <4>1, <4>2
    <3> QED
      BY <2>0, <2>5, <3>1 DEF PollReads, document, broker
  <2>6. CASE Store(w)
    <3>1. job' \in [Workers -> JobType] /\ job[w].attempt \in 0..MaxRounds
      BY <2>0, <2>6, GoesOn, JobCases DEF Store, Doing, Idle, Phases
    <3> QED
      BY <2>0, <2>6, <3>1 DEF Store, Awaited, broker
  <2>7. CASE MarkFailed(w)
    <3>1. job' \in [Workers -> JobType]
      BY <2>0, <2>7, GoesOn, JobCases DEF MarkFailed, Idle, Phases
    <3> QED
      BY <2>0, <2>7, <3>1 DEF MarkFailed, Failable, Parsable, broker
  <2>8. CASE Retry(w)
    <3>1. job' \in [Workers -> JobType]
      BY <2>0, <2>8, GoesOn DEF Retry, Doing, Idle, Phases
    <3> QED
      BY <2>0, <2>8, <3>1 DEF Retry, document
  <2>9. CASE Acknowledge(w)
    BY <2>0, <2>9, NewJobs, Becomes DEF Acknowledge, document, broker
  <2> QED
    BY <1>4, <2>1, <2>2, <2>3, <2>4, <2>5, <2>6, <2>7, <2>8, <2>9 DEF Task
<1> QED
  BY <1>1, <1>2, <1>3, <1>4 DEF Work

\* So do requests.
LEMMA NextTInv == TInv /\ [Next]_vars => TInv'
<1> SUFFICES ASSUME TInv, [Next]_vars PROVE TInv'
  OBVIOUS
<1> USE KnowledgeAssumption DEF TInv, TypeOK, OneTaskPerRound, ParsedOnce
<1>1. CASE Upload
  BY <1>1 DEF Upload, broker, DocumentStatus
<1>2. CASE UploadQueues
  <2>1. uploading' \in BOOLEAN
    BY <1>2 DEF UploadQueues
  <2>2. /\ status' = "QUEUED" /\ rounds < MaxRounds
        /\ rounds' = rounds + 1 /\ sending' = sending + 1
        /\ UNCHANGED <<pdf, attempts, text, reviewed, broker, job, losses>>
    BY <1>2 DEF UploadQueues
  <2> QED
    BY <2>1, <2>2 DEF broker, DocumentStatus, Parsable
<1>3. CASE Reparse
  BY <1>3, Table DEF Reparse, broker, DocumentStatus, Parsable
<1>4. CASE Send
  BY <1>4 DEF Send, document
<1>5. CASE RequestDies
  <2>1. uploading' \in BOOLEAN
    BY <1>5 DEF RequestDies
  <2>2. /\ losses < MaxLosses /\ losses' = losses + 1
        /\ sending' = sending \/ (sending > 0 /\ sending' = sending - 1)
        /\ UNCHANGED <<document, broker, job, rounds>>
    BY <1>5, Zenon DEF RequestDies
  <2>3. sending' \in Nat /\ losses' \in 0..MaxLosses
    BY <2>2
  <2> QED
    BY <2>1, <2>2, <2>3 DEF document, broker
<1>6. CASE Desk
  <2>1. UNCHANGED <<uploading, sending, broker, job, rounds, losses>>
    BY <1>6 DEF Desk
  <2>2. CASE Review
    BY <2>1, <2>2, Table DEF Review, broker, DocumentStatus, Decided
  <2>3. CASE Publish
    BY <2>1, <2>3, Table DEF Publish, broker, DocumentStatus, Decided
  <2>4. CASE Withdraw
    BY <2>1, <2>4, Table DEF Withdraw, broker, DocumentStatus, Decided
  <2>5. CASE Delete
    BY <2>1, <2>5 DEF Delete, broker
  <2> QED
    BY <1>6, <2>2, <2>3, <2>4, <2>5 DEF Desk
<1>7. CASE \E w \in Workers : Work(w)
  BY <1>7, WorkTInv
<1>8. CASE UNCHANGED vars
  BY <1>8 DEF vars, document, broker
<1> QED
  BY <1>1, <1>2, <1>3, <1>4, <1>5, <1>6, <1>7, <1>8 DEF Next

\* Rows, messages and tasks stay well formed, for any number of workers.
THEOREM TypeCorrect == Spec => []TypeOK
<1>1. TInv => TypeOK
  BY DEF TInv
<1> QED
  BY <1>1, InitTInv, NextTInv, PTL DEF Spec

\* A document queued once is parsed at most once, however often its messages
\* are delivered (_submit_mineru_document()'s promise not to pay twice).
THEOREM ParsedOncePerRound == Spec => []OneTaskPerRound
<1>1. TInv => OneTaskPerRound
  BY DEF TInv
<1> QED
  BY <1>1, InitTInv, NextTInv, PTL DEF Spec

-----------------------------------------------------------------------------
(* What a late result may touch.                                           *)

\* A worker changes the row in one of four ways.
LEMMA WorkOnRow ==
  ASSUME NEW w \in Workers, Work(w)
  PROVE  \/ UNCHANGED <<status, attempts, text>>
         \/ /\ SubmitPdf(w) /\ status = "QUEUED" /\ status' = "PARSING"
            /\ attempts' = attempts + 1 /\ text' = text
         \/ /\ status = "QUEUED" /\ status' = "REVIEW_REQUIRED"
            /\ attempts' = attempts + 1 /\ text' = attempts'
         \/ /\ status = "PARSING" /\ status' = "REVIEW_REQUIRED"
            /\ attempts' = attempts /\ text' = attempts
         \/ /\ status \in Parsable /\ status' = "PARSE_FAILED"
            /\ UNCHANGED <<attempts, text>>
<1>1. CASE UNCHANGED document
  BY <1>1 DEF document
<1>2. CASE Task(w) /\ ~UNCHANGED document
  BY <1>2 DEF Task, SubmitPdf, ParseLocally, SubmitAgain, SubmitFails, Announce,
     PollReads, MinerUAnswers, Store, StoreFails, MarkFailed, Retry, Acknowledge,
     Submittable, Awaited, Failable, document
<1> QED
  BY <1>1, <1>2 DEF Work, WorkerFails, TaskDies

\* A poll never stores the result of another attempt than the row names.
THEOREM StoresOnlyTheCurrentResult == Spec => StoredIsCurrent
<1>1. [Next]_vars => [text' \notin {0, text} => text' = attempts']_vars
  <2> SUFFICES ASSUME [Next]_vars PROVE text' \notin {0, text} => text' = attempts'
    OBVIOUS
  <2>1. CASE \E w \in Workers : Work(w)
    BY <2>1, WorkOnRow
  <2>2. CASE Upload \/ UploadQueues \/ Reparse \/ Send \/ RequestDies \/ Desk
    BY <2>2 DEF Upload, UploadQueues, Reparse, Send, RequestDies, Desk, Review,
       Publish, Withdraw, Delete, document
  <2>3. CASE UNCHANGED vars
    BY <2>3 DEF vars, document
  <2> QED
    BY <2>1, <2>2, <2>3 DEF Next
<1> QED
  BY <1>1, PTL DEF Spec, StoredIsCurrent

\* No worker touches a document that was decided on, whatever it comes back with.
THEOREM WorkersLeaveDecisions == Spec => DecidedStands
<1>1. [Next]_vars
        => [job' # job /\ status \in Decided => UNCHANGED <<status, text>>]_vars
  <2> SUFFICES ASSUME [Next]_vars, job' # job, status \in Decided
               PROVE  UNCHANGED <<status, text>>
    OBVIOUS
  <2>1. PICK w \in Workers : Work(w)
    BY DEF Next, Upload, UploadQueues, Reparse, Send, RequestDies, Desk, vars
  <2> QED
    BY <2>1, WorkOnRow DEF Decided, Parsable
<1> QED
  BY <1>1, PTL DEF Spec, DecidedStands

-----------------------------------------------------------------------------
(* Nothing is stranded.                                                    *)

\* While worker w moves on, the other ways to carry the document on remain;
\* so it is enough to look at what w itself carried.
LEMMA OthersCarryOn ==
  ASSUME TInv, TInv', NEW w \in Workers, CarriedOn, UNCHANGED <<status, attempts, sending>>,
         submits' >= submits, polls' >= polls,
         \A v \in Workers : v # w => job'[v] = job[v],
         Carries(w) => CarriedOn'
  PROVE  CarriedOn'
<1>1. CASE \E v \in Workers : v # w /\ Carries(v)
  BY <1>1 DEF CarriedOn, Carries, Doing
<1>2. CASE Carries(w)
  BY <1>2
<1>3. CASE sending > 0 \/ submits > 0 \/ (status = "PARSING" /\ polls > 0)
  BY <1>3 DEF CarriedOn, TInv, TypeOK
<1> QED
  BY <1>1, <1>2, <1>3 DEF CarriedOn

\* A task that neither ends nor loses its hold on the document.
LEMMA WorkCarriesOn ==
  ASSUME TInv, TInv', NothingStranded, NEW w \in Workers, Work(w),
         losses' = 0, status' \in Parsable
  PROVE  CarriedOn'
<1>0. /\ losses = 0 /\ sending' = sending /\ job \in [Workers -> JobType]
      /\ submits \in Nat /\ polls \in Nat /\ submits' \in Nat /\ polls' \in Nat
  BY DEF Work, TInv, TypeOK, TaskDies
<1>1. CASE Task(w) /\ SubmitPdf(w)
  <2>1. job'[w].at = "announcing" /\ status' = "PARSING"
    BY <1>0, <1>1, GoesOn DEF SubmitPdf, Doing, Idle, Phases
  <2> QED
    BY <2>1 DEF CarriedOn, Carries
<1>2. CASE ~SubmitPdf(w)
  <2>0. UNCHANGED <<status, attempts>> /\ CarriedOn
    BY <1>0, <1>2, WorkOnRow DEF NothingStranded, Parsable
  <2>1. CASE Receive(w)
    <3>1. CASE submits > 0 /\ job' = [job EXCEPT ![w] = Delivered("submit")]
      BY <1>0, <3>1, NewJobs, Becomes DEF CarriedOn, Carries, Doing, Delivered
    <3>2. CASE polls > 0 /\ submits' = submits
               /\ job' = [job EXCEPT ![w] = Delivered("poll")]
      <4>1. /\ job[w] = Idle /\ job'[w] = Delivered("poll")
            /\ \A v \in Workers : v # w => job'[v] = job[v]
        BY <1>0, <2>1, <3>2, NewJobs, Becomes DEF Receive
      <4>2. CASE status = "PARSING"
        BY <2>0, <4>1, <4>2 DEF CarriedOn, Carries, Doing, Delivered
      <4>3. CASE status # "PARSING"
        BY <1>0, <2>0, <3>2, <4>1, <4>3 DEF CarriedOn, Carries, Doing, Idle
      <4> QED
        BY <4>2, <4>3
    <3> QED
      BY <2>1, <3>1, <3>2 DEF Receive
  <2>2. CASE WorkerFails(w)
    <3>1. \A v \in Workers : v # w => job'[v] = job[v]
      BY <1>0, <2>2, NewJobs, Becomes DEF WorkerFails
    <3>2. Carries(w) => CarriedOn'
      <4>1. CASE job[w].message = "submit"
        BY <1>0, <2>2, <4>1 DEF WorkerFails, CarriedOn
      <4>2. CASE job[w].message = "poll"
        BY <1>0, <2>0, <2>2, <4>2 DEF WorkerFails, CarriedOn, Carries, Doing
      <4> QED
        BY <2>2, <4>1, <4>2 DEF WorkerFails
    <3> QED
      BY <1>0, <2>0, <2>2, <3>1, <3>2, OthersCarryOn DEF WorkerFails
  <2>3. CASE Task(w)
    <3>1. /\ submits' >= submits /\ polls' >= polls
          /\ \A v \in Workers : v # w => job'[v] = job[v]
      <4>1. \A v \in Workers : v # w => job'[v] = job[v]
        BY <1>0, <2>3
           DEF Task, SubmitPdf, ParseLocally, SubmitAgain, SubmitFails, Announce,
               PollReads, MinerUAnswers, Store, StoreFails, MarkFailed, Retry,
               Acknowledge, Goes
      <4>2. submits' >= submits /\ polls' >= polls
        BY <1>0, <2>3
           DEF Task, SubmitPdf, ParseLocally, SubmitAgain, SubmitFails, Announce,
               PollReads, MinerUAnswers, Store, StoreFails, MarkFailed, Retry,
               Acknowledge, broker
      <4> QED
        BY <4>1, <4>2
    <3>2. ASSUME Carries(w) PROVE CarriedOn'
      <4> USE <1>0, <2>0, <3>2 DEF Carries, Doing
      <4>1. CASE ParseLocally(w) \/ Store(w) \/ MarkFailed(w)
        BY <4>1 DEF ParseLocally, Submittable, Store, Awaited, MarkFailed, Failable,
           Parsable
      <4>2. CASE SubmitAgain(w)
        <5>1. status = "PARSING" /\ Resumable
          BY <4>2 DEF SubmitAgain, Submittable, Resumable, Parsable, TInv, ParsedOnce
        <5>2. job'[w].at = "announcing"
          BY <4>2, <5>1, GoesOn DEF SubmitAgain, Idle, Phases
        <5> QED
          BY <5>1, <5>2 DEF CarriedOn
      <4>3. CASE SubmitFails(w)
        <5>1. job'[w].at = "failing" /\ job'[w].message = "submit"
          BY <4>3, GoesOn DEF SubmitFails, Idle, Phases
        <5> QED
          BY <5>1 DEF CarriedOn
      <4>4. CASE Announce(w)
        BY <4>4 DEF Announce, CarriedOn
      <4>5. CASE PollReads(w)
        <5>1. status = "PARSING" /\ job'[w] = Asking(attempts)
          BY <4>5 DEF PollReads
        <5> QED
          BY <5>1 DEF CarriedOn, Asking
      <4>6. CASE MinerUAnswers(w) \/ StoreFails(w)
        <5>1. status = "PARSING" /\ job[w].attempt = attempts
          BY <4>6 DEF MinerUAnswers, StoreFails
        <5>2. job'[w].at \in {"storing", "failing"} /\ job'[w].attempt = job[w].attempt
          BY <4>6, GoesOn DEF MinerUAnswers, StoreFails, Idle, Phases
        <5> QED
          BY <5>1, <5>2 DEF CarriedOn
      <4>7. CASE Retry(w)
        BY <4>7 DEF Retry, CarriedOn
      <4>8. CASE Acknowledge(w)
        BY <4>8 DEF Acknowledge
      <4> QED
        BY <1>2, <2>3, <4>1, <4>2, <4>3, <4>4, <4>5, <4>6, <4>7, <4>8 DEF Task
    <3> QED
      BY <1>0, <2>0, <3>1, <3>2, OthersCarryOn
  <2> QED
    BY <1>0, <2>1, <2>2, <2>3 DEF Work, TaskDies
<1> QED
  BY <1>1, <1>2 DEF Task

\* Requests and administrators do not take a carrier away.
LEMMA NextCarriesOn ==
  ASSUME TInv, TInv', NothingStranded, [Next]_vars PROVE NothingStranded'
<1> SUFFICES ASSUME losses' = 0, status' \in Parsable PROVE CarriedOn'
  BY DEF NothingStranded
<1> USE DEF TInv, TypeOK
<1>1. CASE \E w \in Workers : Work(w)
  BY <1>1, WorkCarriesOn
<1>2. CASE UploadQueues \/ Reparse
  BY <1>2 DEF UploadQueues, Reparse, CarriedOn
<1>3. CASE Send
  BY <1>3 DEF Send, CarriedOn
<1>4. CASE RequestDies
  BY <1>4 DEF RequestDies
<1>5. CASE Upload
  BY <1>5 DEF Upload, Parsable
<1>6. CASE Desk
  BY <1>6, Table DEF Desk, Review, Publish, Withdraw, Delete, Parsable
<1>7. CASE UNCHANGED vars
  BY <1>7 DEF vars, document, broker, NothingStranded, CarriedOn, Carries, Doing
<1> QED
  BY <1>1, <1>2, <1>3, <1>4, <1>5, <1>6, <1>7 DEF Next

\* Unless something was lost for good, a document on its way through the
\* parsers is always carried on.
THEOREM CarriedThrough == Spec => []NothingStranded
<1>1. Init => NothingStranded
  BY DEF Init, NothingStranded, Parsable
<1>2. TInv /\ NothingStranded /\ [Next]_vars => TInv' /\ NothingStranded'
  BY NextTInv, NextCarriesOn
<1> QED
  BY <1>1, <1>2, InitTInv, PTL DEF Spec
=============================================================================
