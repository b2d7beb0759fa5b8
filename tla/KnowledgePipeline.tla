------------------------- MODULE KnowledgePipeline --------------------------
(***************************************************************************)
(* One document of the knowledge base on its way from upload to the        *)
(* search: administrators call the router, Celery workers parse it, PDFs   *)
(* with MinerU in a task of its own that is polled.  Requests commit       *)
(* before they send a message, workers ask MinerU and the object store     *)
(* between two transactions, and messages are acknowledged last.           *)
(*                                                                         *)
(* A MinerU task is named by the attempt (parse_attempts) that submitted   *)
(* it, a parsed text, with its chunks, by the attempt it came from; 0 is   *)
(* none.  What MinerU, the store and the embedding service answer is any   *)
(* choice.  Left out: the artifacts in the object store, which only        *)
(* delete_document() looks at, and the time a document is in effect.       *)
(***************************************************************************)
EXTENDS Naturals

CONSTANTS
  Workers,
  MaxRounds,    \* bound on how often the document is queued for parsing
  MaxMessages,  \* bound on messages of one kind in the broker
  MaxLosses     \* bound on messages or requests that are lost for good

ASSUME KnowledgeAssumption ==
  MaxRounds \in Nat /\ MaxMessages \in Nat /\ MaxLosses \in Nat

VARIABLES
  pdf,        \* the format decides who parses
  status,     \* of the row; NONE before, DELETED after it exists
  attempts,   \* parse_attempts: the attempt whose task the row names
  text,       \* the attempt parsed_text and its chunks come from
  reviewed,   \* the attempt under way or done when reviewed_by was set
  uploading,  \* an upload has committed the row and not queued it yet
  sending,    \* requests that have queued it and not sent the message yet
  submits,    \* submit_mineru_document messages in the broker
  polls,      \* poll_mineru_document messages in the broker
  job,        \* what each worker does
  rounds,     \* history: how often the document was queued
  losses      \* history: requests and tasks that ended without their message

document == <<pdf, status, attempts, text, reviewed>>
broker   == <<submits, polls>>
vars     == <<document, uploading, sending, broker, job, rounds, losses>>

-----------------------------------------------------------------------------
Decided == {"REVIEW_REQUIRED", "PUBLISHED", "ARCHIVED", "DEACTIVATED"}
Parsable == {"QUEUED", "PARSING"}
DocumentStatus == {"UPLOADED", "PARSE_FAILED"} \cup Parsable \cup Decided

\* _TRANSITIONS.
Successors ==
  [UPLOADED        |-> {"QUEUED", "PARSING"},
   QUEUED          |-> {"PARSING", "PARSE_FAILED"},
   PARSING         |-> {"REVIEW_REQUIRED", "PARSE_FAILED"},
   REVIEW_REQUIRED |-> {"QUEUED", "PUBLISHED"},
   PARSE_FAILED    |-> {"QUEUED"},
   PUBLISHED       |-> {"ARCHIVED", "DEACTIVATED", "QUEUED"},
   DEACTIVATED     |-> {"QUEUED"},
   ARCHIVED        |-> {}]

\* transition() to the target, which also refuses a document that is not there.
Transition(target) ==
  /\ status \in DocumentStatus
  /\ target \in Successors[status]
  /\ status' = target

Idle == [message |-> "none", at |-> "idle", attempt |-> 0]

Delivered(message) == [message |-> message, at |-> "received", attempt |-> 0]

Asking(attempt) == [message |-> "poll", at |-> "asking", attempt |-> attempt]

JobType ==
  {Idle}
  \cup [message : {"submit"}, attempt : {0},
        at : {"received", "announcing", "failing", "ended"}]
  \cup [message : {"poll"}, attempt : 0..MaxRounds,
        at : {"received", "asking", "storing", "failing", "ended"}]

Init ==
  /\ pdf \in BOOLEAN
  /\ status = "NONE" /\ attempts = 0 /\ text = 0 /\ reviewed = 0
  /\ uploading = FALSE /\ sending = 0 /\ submits = 0 /\ polls = 0
  /\ job = [w \in Workers |-> Idle]
  /\ rounds = 0 /\ losses = 0

-----------------------------------------------------------------------------
(* Administrators *)

\* upload_document(): the file is stored, the row committed and read back.
Upload ==
  /\ status = "NONE"
  /\ status' = "UPLOADED" /\ uploading' = TRUE
  /\ UNCHANGED <<pdf, attempts, text, reviewed, sending, broker, job, rounds, losses>>

\* The rest of the upload queues the document by a plain assignment, whatever
\* others made of the row meanwhile; a deleted row is an error.
UploadQueues ==
  /\ uploading /\ status # "DELETED" /\ rounds < MaxRounds
  /\ uploading' = FALSE /\ status' = "QUEUED"
  /\ rounds' = rounds + 1 /\ sending' = sending + 1
  /\ UNCHANGED <<pdf, attempts, text, reviewed, broker, job, losses>>

\* change_document_status() to QUEUED: the old text goes, the review stays.
Reparse ==
  /\ rounds < MaxRounds
  /\ Transition("QUEUED")
  /\ text' = 0
  /\ rounds' = rounds + 1 /\ sending' = sending + 1
  /\ UNCHANGED <<pdf, attempts, reviewed, uploading, broker, job, losses>>

\* submit_mineru_document.delay(), after the commit.
Send ==
  /\ sending > 0 /\ submits < MaxMessages
  /\ sending' = sending - 1 /\ submits' = submits + 1
  /\ UNCHANGED <<document, uploading, polls, job, rounds, losses>>

\* The API process or its connection to the broker fails first.
RequestDies ==
  /\ losses < MaxLosses
  /\ losses' = losses + 1
  /\ \/ uploading /\ uploading' = FALSE /\ UNCHANGED sending
     \/ sending > 0 /\ sending' = sending - 1 /\ UNCHANGED uploading
  /\ UNCHANGED <<document, broker, job, rounds>>

\* A review, which the table also lets through while MinerU is at work.
Review ==
  /\ \/ status = "REVIEW_REQUIRED" /\ UNCHANGED status
     \/ Transition("REVIEW_REQUIRED")
  /\ reviewed' = attempts
  /\ UNCHANGED <<pdf, attempts, text>>

Publish ==
  /\ Transition("PUBLISHED")
  /\ reviewed # 0
  /\ UNCHANGED <<pdf, attempts, text, reviewed>>

\* archive_document() and deactivate_document().
Withdraw ==
  /\ Transition("ARCHIVED") \/ Transition("DEACTIVATED")
  /\ UNCHANGED <<pdf, attempts, text, reviewed>>

\* delete_document(): the row and its chunks.
Delete ==
  /\ status \in DocumentStatus
  /\ status' = "DELETED" /\ text' = 0
  /\ UNCHANGED <<pdf, attempts, reviewed>>

Desk ==
  /\ Review \/ Publish \/ Withdraw \/ Delete
  /\ UNCHANGED <<uploading, sending, broker, job, rounds, losses>>

-----------------------------------------------------------------------------
(* Workers *)

Goes(w, at) == job' = [job EXCEPT ![w].at = at]

Receive(w) ==
  /\ job[w] = Idle
  /\ \/ /\ submits > 0 /\ submits' = submits - 1 /\ UNCHANGED polls
        /\ job' = [job EXCEPT ![w] = Delivered("submit")]
     \/ /\ polls > 0 /\ polls' = polls - 1 /\ UNCHANGED submits
        /\ job' = [job EXCEPT ![w] = Delivered("poll")]

Doing(w, message, at) == job[w].message = message /\ job[w].at = at

\* Mutant: resume_parsing() alone decides, which takes PARSING for PARSING.
AnyParsable == status \in Parsable
\* The row, under its lock, asks for a new attempt ...
Submittable == status = "QUEUED"

\* Mutant: a second message finds nothing to do.
NeverResumes == FALSE
\* ... or has one whose polling is to be resumed.
Resumable == status = "PARSING" /\ attempts > 0

\* _submit_mineru_document() of a PDF: MinerU accepts the task.
SubmitPdf(w) ==
  /\ Doing(w, "submit", "received") /\ pdf /\ Submittable
  /\ status' = "PARSING" /\ attempts' = attempts + 1
  /\ Goes(w, "announcing")
  /\ UNCHANGED <<pdf, text, reviewed, broker>>

\* Another format is parsed and indexed in the same transaction.
ParseLocally(w) ==
  /\ Doing(w, "submit", "received") /\ ~pdf /\ Submittable
  /\ status' = "REVIEW_REQUIRED" /\ attempts' = attempts + 1 /\ text' = attempts'
  /\ Goes(w, "ended")
  /\ UNCHANGED <<pdf, reviewed, broker>>

\* The task was submitted by an earlier delivery, or nothing is left to do.
SubmitAgain(w) ==
  /\ Doing(w, "submit", "received") /\ ~Submittable
  /\ Goes(w, IF Resumable THEN "announcing" ELSE "ended")
  /\ UNCHANGED <<document, broker>>

\* No store is configured, or a permanent error rolls the transaction back;
\* another transaction will say so.
SubmitFails(w) ==
  /\ Doing(w, "submit", "received")
  /\ Goes(w, "failing")
  /\ UNCHANGED <<document, broker>>

\* poll_mineru_document.apply_async().
Announce(w) ==
  /\ Doing(w, "submit", "announcing") /\ polls < MaxMessages
  /\ polls' = polls + 1
  /\ Goes(w, "ended")
  /\ UNCHANGED <<document, submits>>

\* _poll_mineru_document() reads the task it is going to ask about.
PollReads(w) ==
  /\ Doing(w, "poll", "received")
  /\ IF status = "PARSING"
       THEN job' = [job EXCEPT ![w] = Asking(attempts)]
       ELSE Goes(w, "ended")
  /\ UNCHANGED <<document, broker>>

\* The task is done and its archive downloaded, or it has failed.
MinerUAnswers(w) ==
  /\ Doing(w, "poll", "asking")
  /\ Goes(w, "storing") \/ Goes(w, "failing")
  /\ UNCHANGED <<document, broker>>

\* Mutant: the row is not asked for its task again.
StillParsing(w) == status = "PARSING"
\* The row still waits for the task this worker has the result of.
Awaited(w) == status = "PARSING" /\ attempts = job[w].attempt

\* The second transaction: text, chunks and status, or nothing.
Store(w) ==
  /\ Doing(w, "poll", "storing")
  /\ IF Awaited(w)
       THEN status' = "REVIEW_REQUIRED" /\ text' = job[w].attempt
       ELSE UNCHANGED <<status, text>>
  /\ Goes(w, "ended")
  /\ UNCHANGED <<pdf, attempts, reviewed, broker>>

\* The embedding service refuses the text for good.
StoreFails(w) ==
  /\ Doing(w, "poll", "storing") /\ Awaited(w)
  /\ Goes(w, "failing")
  /\ UNCHANGED <<document, broker>>

\* Mutant: the status is not looked at.
FailsAnyway == status \in DocumentStatus
\* A document still on its way through the parsers.
Failable == status \in Parsable

\* _mark_parse_failed(), whichever attempt the failure is about.
MarkFailed(w) ==
  /\ job[w].at = "failing"
  /\ status' = IF Failable THEN "PARSE_FAILED" ELSE status
  /\ Goes(w, "ended")
  /\ UNCHANGED <<pdf, attempts, text, reviewed, broker>>

\* MinerURetryableError, a task still running included: Celery sends the
\* message again, to be delivered later.
Retry(w) ==
  /\ \/ /\ Doing(w, "submit", "received") /\ Submittable
        /\ submits < MaxMessages /\ submits' = submits + 1 /\ UNCHANGED polls
     \/ /\ Doing(w, "poll", "asking")
        /\ polls < MaxMessages /\ polls' = polls + 1 /\ UNCHANGED submits
  /\ Goes(w, "ended")
  /\ UNCHANGED document

Acknowledge(w) ==
  /\ job[w].at = "ended"
  /\ job' = [job EXCEPT ![w] = Idle]
  /\ UNCHANGED <<document, broker>>

\* The worker goes with its connection: the message is delivered again.
WorkerFails(w) ==
  /\ \/ /\ job[w].message = "submit" /\ submits < MaxMessages
        /\ submits' = submits + 1 /\ UNCHANGED polls
     \/ /\ job[w].message = "poll" /\ polls < MaxMessages
        /\ polls' = polls + 1 /\ UNCHANGED submits
  /\ job' = [job EXCEPT ![w] = Idle]
  /\ UNCHANGED document

\* The process dies alone, the retries are used up, or the task raises what
\* nobody retries (EmbeddingRetryableError, an empty text): acknowledged.
TaskDies(w) ==
  /\ job[w].at \notin {"idle", "ended"} /\ losses < MaxLosses
  /\ losses' = losses + 1
  /\ job' = [job EXCEPT ![w] = Idle]
  /\ UNCHANGED <<document, broker>>

-----------------------------------------------------------------------------
Task(w) ==
  \/ SubmitPdf(w) \/ ParseLocally(w) \/ SubmitAgain(w) \/ SubmitFails(w)
  \/ Announce(w) \/ PollReads(w) \/ MinerUAnswers(w) \/ Store(w)
  \/ StoreFails(w) \/ MarkFailed(w) \/ Retry(w) \/ Acknowledge(w)

Work(w) ==
  /\ \/ Receive(w) /\ UNCHANGED <<document, losses>>
     \/ (Task(w) \/ WorkerFails(w)) /\ UNCHANGED losses
     \/ TaskDies(w)
  /\ UNCHANGED <<uploading, sending, rounds>>

Next ==
  \/ Upload \/ UploadQueues \/ Reparse \/ Send \/ RequestDies \/ Desk
  \/ \E w \in Workers : Work(w)

Spec == Init /\ [][Next]_vars

-----------------------------------------------------------------------------
(* Properties *)

\* Rows, messages and tasks are well formed, and no attempt is beyond the
\* rounds there can be.
TypeOK ==
  /\ pdf \in BOOLEAN /\ uploading \in BOOLEAN
  /\ status \in DocumentStatus \cup {"NONE", "DELETED"}
  /\ attempts \in 0..MaxRounds /\ text \in 0..MaxRounds /\ reviewed \in 0..MaxRounds
  /\ sending \in Nat /\ submits \in Nat /\ polls \in Nat
  /\ job \in [Workers -> JobType]
  /\ rounds \in 0..MaxRounds /\ losses \in 0..MaxLosses

\* However often a message is delivered, a document queued once is parsed, and
\* paid for, at most once: there is a committed attempt per round, and none
\* yet for the round that waits in the queue.
OneTaskPerRound ==
  IF status = "QUEUED" THEN attempts < rounds ELSE attempts <= rounds

\* The text that is stored is the one the row asked for: a poll that comes
\* back after a reparse, with the result of an older task, stores nothing.
StoredIsCurrent == [][text' \notin {0, text} => text' = attempts']_vars

\* Only administrators move a document that was decided on: no worker, with
\* whatever late result or failure, touches its status or its text.
DecidedStands ==
  [][job' # job /\ status \in Decided => UNCHANGED <<status, text>>]_vars

\* A task of worker w that will take the document on: it can still submit it
\* or will mark it failed, and once it is being parsed also one that has to
\* announce its polling, or polls for the current result.
Carries(w) ==
  \/ Doing(w, "submit", "received") \/ Doing(w, "submit", "failing")
  \/ /\ status = "PARSING"
     /\ \/ job[w].at \in {"announcing", "failing"} \/ Doing(w, "poll", "received")
        \/ job[w].at \in {"asking", "storing"} /\ job[w].attempt = attempts

\* There is a request, a message or a task that will take the document on.
CarriedOn ==
  \/ sending > 0 \/ submits > 0
  \/ status = "PARSING" /\ polls > 0
  \/ \E w \in Workers : Carries(w)

\* As long as nothing was lost for good, a document that is queued or being
\* parsed is carried on: every crash and every retry leaves a message for it.
NothingStranded == losses = 0 /\ status \in Parsable => CarriedOn

\* prd:348, a document is published only after an administrator has confirmed
\* how it was parsed: there is a text, and the review was of this text.
PublishedWasReviewed == status = "PUBLISHED" => text # 0 /\ reviewed = text
=============================================================================
