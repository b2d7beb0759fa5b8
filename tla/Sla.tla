-------------------------------- MODULE Sla ---------------------------------
(***************************************************************************)
(* The SLA clocks of one shipment, one for each stage that has a rule.     *)
(* Calls of the fulfilment start and stop them as they move the shipment,  *)
(* operators start, pause, resume and complete them by hand, and periodic  *)
(* scans mark a clock that has run over and open a case for it.            *)
(*                                                                         *)
(* Calls hold the lock of the shipment until they commit.  A scan locks    *)
(* each clock it marks, and with the first case it opens, by the foreign   *)
(* key, the shipment, until it commits.  Operators' requests take no lock  *)
(* before they write; here they are atomic, so they do not overlap each    *)
(* other or the end of a call.                                             *)
(*                                                                         *)
(* Left out: ETA and paused_seconds, which no code reads, rules that       *)
(* change, and pauses for a source, which nothing creates.  Which moves a   *)
(* shipment makes when calls overlap is a question for Fulfillment.        *)
(***************************************************************************)
EXTENDS WorkCalendar

CONSTANTS
  Stages,       \* the stages that have a rule
  WorkStages,   \* those whose target is working time
  Target,       \* the target of every rule
  Scanners,     \* scans that may run at the same time
  MaxTime,      \* bound on the clock
  MaxRequests,  \* bound on what operators do by hand
  MaxFailures,  \* bound on transactions lost for other reasons than deadlock
  None          \* no call, no stage

Milestones ==
  {"PENDING_PAYMENT", "PENDING_PICKUP", "IN_LINEHAUL", "AT_DESTINATION_STATION",
   "RETURN_APPROVED", "DELIVERED", "CANCELLED", "RETURNED"}

RecoveryStages == {"DELIVERY_REDELIVERY", "PICKUP_AT_STATION", "RETURN"}

ASSUME SlaAssumption ==
  /\ Stages \subseteq {"PICKUP", "LINEHAUL", "DELIVERY"} \cup RecoveryStages
  /\ WorkStages \subseteq Stages
  /\ Target \in Nat \ {0} /\ {MaxTime, MaxRequests, MaxFailures} \subseteq Nat
  /\ None \notin Stages \cup Scanners

VARIABLES
  now,       \* the clock
  shipment,  \* the last status of the shipment that means something to an SLA
  call,      \* the call that holds the shipment's lock, or None
  held,      \* the clocks that call has locked
  clocks,    \* sla_instances, with their open pause
  cases,     \* how many cases of the SLA scan each clock has
  scans,     \* the transaction of every scanner
  used,      \* history: the time that counts against each clock
  requests,  \* history: what operators have done
  failures   \* history: the transactions lost

vars == <<now, shipment, call, held, clocks, cases, scans, used, requests, failures>>

-----------------------------------------------------------------------------
(* Clocks *)

Statuses == {"NONE", "RUNNING", "PAUSED", "COMPLETED", "CANCELLED"}
Live == {"RUNNING", "PAUSED"}

Clock ==
  [status : Statuses, promised : Nat, pausedAt : Nat, breached : BOOLEAN, scanned : BOOLEAN]

NotStarted ==
  [status |-> "NONE", promised |-> 0, pausedAt |-> 0, breached |-> FALSE, scanned |-> FALSE]

\* Mutant: the shift goes the wrong way.
LaterSigned(stage, t, amount) ==
  IF stage \in WorkStages THEN AddWorkHours[amount][t] ELSE t - amount
\* calculate_promised_at() and the shift of a resume: the same two calendars.
Later(stage, t, amount) ==
  IF stage \in WorkStages THEN AddWorkHours[amount][t] ELSE t + amount

Started(stage) ==
  [NotStarted EXCEPT !.status = "RUNNING", !.promised = Later(stage, now, Target)]

Paused(clock) == [clock EXCEPT !.status = "PAUSED", !.pausedAt = now]

\* Mutant: nights and days of rest are given back too.
PauseLengthAllHours(stage) == now - clocks[stage].pausedAt
PauseLength(stage) ==
  IF stage \in WorkStages
  THEN WorkHoursBetween(clocks[stage].pausedAt, now)
  ELSE now - clocks[stage].pausedAt

Resumed(stage) ==
  [clocks[stage] EXCEPT !.status = "RUNNING",
                        !.promised = Later(stage, @, PauseLength(stage)),
                        !.pausedAt = 0]

Completed(clock) ==
  [clock EXCEPT !.status = "COMPLETED", !.breached = now > clock.promised]

\* last_scan_key becomes the reason.
Cancelled(clock) == [clock EXCEPT !.status = "CANCELLED", !.scanned = FALSE]

Overdue(stage) == clocks[stage].status = "RUNNING" /\ now > clocks[stage].promised

-----------------------------------------------------------------------------
(* Transactions and the locks they hold and wait for *)

NoScan == [left |-> {}, at |-> None, marked |-> {}, opened |-> {}]

Scan ==
  [left : SUBSET Stages, at : Stages \cup {None},
   marked : SUBSET Stages, opened : SUBSET Stages]

\* What a call of the fulfilment does to the shipment and the stage it starts.
Move(from, to, starts) == [from |-> from, to |-> to, starts |-> starts]

Calls ==
  {Move("PENDING_PAYMENT", "PENDING_PICKUP", "PICKUP"),
   Move("PENDING_PICKUP", "IN_LINEHAUL", "LINEHAUL"),
   Move("IN_LINEHAUL", "AT_DESTINATION_STATION", "DELIVERY"),
   Move("AT_DESTINATION_STATION", "DELIVERED", None),
   Move("AT_DESTINATION_STATION", "AT_DESTINATION_STATION", "DELIVERY_REDELIVERY"),
   Move("AT_DESTINATION_STATION", "AT_DESTINATION_STATION", "PICKUP_AT_STATION"),
   Move("RETURN_APPROVED", "RETURNED", None)}
  \cup {Move(from, "CANCELLED", None) : from \in {"PENDING_PAYMENT", "PENDING_PICKUP"}}
  \cup {Move(from, "RETURN_APPROVED", "RETURN") :
          from \in Milestones \ {"PENDING_PAYMENT", "CANCELLED", "DELIVERED"}}

\* Mutant: paused clocks are left alone.
StoppedRunning(move) ==
  IF move # None /\ move.to \in {"DELIVERED", "CANCELLED", "RETURNED"}
  THEN {stage \in Stages : clocks[stage].status = "RUNNING"}
  ELSE {}
\* The clocks a call is about to change, all existing rows.
Stopped(move) ==
  {stage \in Stages :
     /\ move # None
     /\ \/ move.to = "DELIVERED" /\ clocks[stage].status = "RUNNING"
        \/ move.to \in {"CANCELLED", "RETURNED"} /\ clocks[stage].status \in Live}

\* start(), and start_recovery_stage(), which follows the route of an older clock.
Starts(move) ==
  {stage \in Stages \cap {move.starts} :
     /\ clocks[stage].status = "NONE"
     /\ stage \in RecoveryStages => \E older \in Stages : clocks[older].status # "NONE"}

Locked(scanner) ==
  scans[scanner].marked \cup (Stages \cap {scans[scanner].at})

LockedByScan == UNION {Locked(scanner) : scanner \in Scanners}

\* Mutant: the query for an older case is gone.
ReportedNever(stage) == FALSE
\* What that query finds.
Reported(stage) == cases[stage] > 0

\* The case of the clock it has just locked needs the shipment.
NeedsShipment(scanner) ==
  scans[scanner].at # None /\ ~Reported(scans[scanner].at)

\* The clocks a scan cannot go on without: none it has left is free.
Wanted(scanner) ==
  IF scans[scanner].at = None /\ scans[scanner].left \subseteq held \cup LockedByScan
  THEN scans[scanner].left
  ELSE {}

\* Transaction x waits for a lock of y; the call goes by the name None.
Waits(x, y) ==
  \/ x = None /\ y # None /\ Stopped(call) \cap Locked(y) # {}
  \/ /\ x # None /\ y = None /\ call # None
     /\ NeedsShipment(x) \/ Wanted(x) \cap held # {}
  \/ x # None /\ y \notin {None, x} /\ Wanted(x) \cap Locked(y) # {}

\* PostgreSQL aborts one transaction of a cycle; here a cycle has two or three.
Deadlocked(x) ==
  \E y \in Scanners \cup {None} :
    /\ Waits(x, y)
    /\ Waits(y, x) \/ \E z \in Scanners \cup {None} : Waits(y, z) /\ Waits(z, x)

\* A transaction is lost to a deadlock, or to some failure.
Loses(x) ==
  \/ Deadlocked(x) /\ UNCHANGED failures
  \/ failures < MaxFailures /\ failures' = failures + 1

-----------------------------------------------------------------------------
Init ==
  /\ now \in 0..(DayLength - 1)
  /\ shipment = "PENDING_PAYMENT" /\ call = None /\ held = {}
  /\ clocks = [stage \in Stages |-> NotStarted]
  /\ cases = [stage \in Stages |-> 0]
  /\ scans = [scanner \in Scanners |-> NoScan]
  /\ used = [stage \in Stages |-> 0] /\ requests = 0 /\ failures = 0

Tick ==
  /\ now < MaxTime
  /\ now' = now + 1
  /\ used' = [stage \in Stages |->
               IF clocks[stage].status = "RUNNING" /\ (stage \in WorkStages => Working(now))
               THEN used[stage] + 1 ELSE used[stage]]
  /\ UNCHANGED <<shipment, call, held, clocks, cases, scans, requests, failures>>

(* Calls of the fulfilment *)

\* FOR UPDATE waits for scans that have opened a case.
LockShipment ==
  /\ call = None
  /\ \A scanner \in Scanners : scans[scanner].opened = {}
  /\ call' \in {move \in Calls : move.from = shipment}
  /\ UNCHANGED <<now, shipment, held, clocks, cases, scans, used, requests, failures>>

\* complete() flushes clock by clock, cancel_active_for_shipment() row by row.
LockClock(stage) ==
  /\ stage \in Stopped(call) \ (held \cup LockedByScan)
  /\ held' = held \cup {stage}
  /\ UNCHANGED <<now, shipment, call, clocks, cases, scans, used, requests, failures>>

\* sync_shipment_transition() and its like, up to the commit.
FinishCall ==
  /\ call # None
  /\ held = Stopped(call)
  /\ shipment' = call.to /\ call' = None /\ held' = {}
  /\ clocks' = [stage \in Stages |->
                 IF stage \in Starts(call) THEN Started(stage)
                 ELSE IF stage \notin Stopped(call) THEN clocks[stage]
                 ELSE IF call.to = "DELIVERED" THEN Completed(clocks[stage])
                 ELSE Cancelled(clocks[stage])]
  /\ UNCHANGED <<now, cases, scans, used, requests, failures>>

CallFails ==
  /\ call # None
  /\ call' = None /\ held' = {}
  /\ Loses(None)
  /\ UNCHANGED <<now, shipment, clocks, cases, scans, used, requests>>

(* Operators *)

\* An operator changes a clock that is in one of these statuses.
Operate(stage, statuses, clock) ==
  /\ clocks[stage].status \in statuses
  /\ held = {} /\ stage \notin LockedByScan
  /\ requests < MaxRequests /\ requests' = requests + 1
  /\ clocks' = [clocks EXCEPT ![stage] = clock]
  /\ UNCHANGED <<now, shipment, call, held, cases, scans, used, failures>>

\* Whatever the status of the shipment; the foreign key waits for a call.
StartClock(stage) ==
  call = None /\ Operate(stage, {"NONE"}, Started(stage))

Pause(stage) == Operate(stage, {"RUNNING"}, Paused(clocks[stage]))

Resume(stage) == Operate(stage, {"PAUSED"}, Resumed(stage))

Complete(stage) == Operate(stage, {"RUNNING"}, Completed(clocks[stage]))

(* scan_breaches() *)

\* Mutant: one clock marked under the key of the scans ends the search.
FoundOncePerKey ==
  {stage \in Stages : Overdue(stage) /\ ~clocks[stage].breached
                       /\ \A other \in Stages : ~clocks[other].scanned}
\* The window's key is the same for every scan.
Found ==
  {stage \in Stages : Overdue(stage) /\ ~clocks[stage].breached /\ ~clocks[stage].scanned}

ScanLoads(scanner) ==
  /\ scans[scanner] = NoScan /\ Found # {}
  /\ scans' = [scans EXCEPT ![scanner].left = Found]
  /\ UNCHANGED <<now, shipment, call, held, clocks, cases, used, requests, failures>>

\* The query for an older case flushes the marked row first.
ScanMarks(scanner, stage) ==
  /\ scans[scanner].at = None /\ stage \in scans[scanner].left
  /\ stage \notin held \cup LockedByScan
  /\ scans' = [scans EXCEPT ![scanner].at = stage, ![scanner].left = @ \ {stage}]
  /\ UNCHANGED <<now, shipment, call, held, clocks, cases, used, requests, failures>>

\* _open_breach_case(), with its notification.
ScanReports(scanner) ==
  LET stage == scans[scanner].at IN
  /\ stage # None
  /\ Reported(stage) \/ call = None
  /\ scans' = [scans EXCEPT
       ![scanner].at = None,
       ![scanner].marked = @ \cup {stage},
       ![scanner].opened = IF Reported(stage) THEN @ ELSE @ \cup {stage}]
  /\ UNCHANGED <<now, shipment, call, held, clocks, cases, used, requests, failures>>

\* Only the marks are written: the other columns are what they have become.
ScanCommits(scanner) ==
  /\ scans[scanner].left = {} /\ scans[scanner].at = None /\ scans[scanner].marked # {}
  /\ clocks' = [stage \in Stages |->
       IF stage \in scans[scanner].marked
       THEN [clocks[stage] EXCEPT !.breached = TRUE, !.scanned = TRUE]
       ELSE clocks[stage]]
  /\ cases' = [stage \in Stages |->
       IF stage \in scans[scanner].opened THEN cases[stage] + 1 ELSE cases[stage]]
  /\ scans' = [scans EXCEPT ![scanner] = NoScan]
  /\ UNCHANGED <<now, shipment, call, held, used, requests, failures>>

ScanFails(scanner) ==
  /\ scans[scanner] # NoScan
  /\ scans' = [scans EXCEPT ![scanner] = NoScan]
  /\ Loses(scanner)
  /\ UNCHANGED <<now, shipment, call, held, clocks, cases, used, requests>>

-----------------------------------------------------------------------------
Next ==
  \/ Tick
  \/ LockShipment
  \/ FinishCall
  \/ CallFails
  \/ \E stage \in Stages : LockClock(stage)
  \/ \E stage \in Stages : StartClock(stage) \/ Pause(stage) \/ Resume(stage) \/ Complete(stage)
  \/ \E scanner \in Scanners :
       \/ ScanLoads(scanner) \/ ScanReports(scanner)
       \/ ScanCommits(scanner) \/ ScanFails(scanner)
       \/ \E stage \in Stages : ScanMarks(scanner, stage)

Spec == Init /\ [][Next]_vars

\* Beat starts a scan every five minutes, a transaction under way goes on, and
\* PostgreSQL serves who waits for a lock in turn.
Fairness ==
  /\ WF_vars(FinishCall)
  /\ SF_vars(\E stage \in Stages : LockClock(stage))
  /\ \A scanner \in Scanners :
       /\ WF_vars(ScanLoads(scanner) \/ ScanCommits(scanner))
       /\ SF_vars(ScanReports(scanner))
       /\ \A stage \in Stages : SF_vars(ScanMarks(scanner, stage))
       /\ WF_vars(Deadlocked(scanner) /\ ScanFails(scanner))

FairSpec == Spec /\ Fairness

-----------------------------------------------------------------------------
\* The rows, the lock of the shipment and the transactions stay well formed.
TypeOK ==
  /\ now \in Nat /\ shipment \in Milestones
  /\ call \in Calls \cup {None}
  /\ call # None => call.from = shipment
  /\ held \subseteq Stopped(call)
  /\ clocks \in [Stages -> Clock] /\ cases \in [Stages -> Nat]
  /\ scans \in [Scanners -> Scan]
  /\ used \in [Stages -> Nat] /\ requests \in 0..MaxRequests /\ failures \in 0..MaxFailures

\* A clock runs over exactly when the time it ran outside its pauses, counted
\* unit by unit and in working time if the rule says so, exceeds the target:
\* the promise computed by add_work_hours() and shifted by resume() charges no
\* pause and no closed hour to the stage.
ClockIsFair ==
  \A stage \in Stages :
    clocks[stage].status = "RUNNING" =>
      /\ now > clocks[stage].promised => used[stage] >= Target
      /\ used[stage] > Target => now > clocks[stage].promised

\* However scans overlap, a clock that one of them marked has exactly one case,
\* and never a second one.  The unique index on the source of a case would turn
\* a second one into the failure of a whole scan.
OneCasePerBreach ==
  \A stage \in Stages :
    /\ cases[stage] <= 1
    /\ clocks[stage].breached /\ clocks[stage].status # "COMPLETED" => cases[stage] = 1

\* The end of a cancelled or returned shipment stops every clock, paused ones
\* too, and no clock that has stopped ever runs again.
ClosingStopsClocks ==
  [][\A stage \in Stages :
       /\ shipment' \in {"CANCELLED", "RETURNED"} /\ shipment' # shipment
            => clocks'[stage].status \notin Live
       /\ clocks[stage].status \in {"COMPLETED", "CANCELLED"}
            => clocks'[stage].status = clocks[stage].status]_vars

\* A clock that has run over is reported, unless it is stopped or paused first,
\* whatever deadlocks the scans meet on the way.
OverdueIsReported ==
  \A stage \in Stages :
    Overdue(stage) ~> (Reported(stage) \/ clocks[stage].status # "RUNNING")
=============================================================================
