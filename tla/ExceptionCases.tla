--------------------------- MODULE ExceptionCases ---------------------------
(***************************************************************************)
(* Exception cases and the holds the blocking ones put on the shipment     *)
(* (ExceptionService, ShipmentControlService).  Every handler locks first; *)
(* a hold belongs to exactly one case, so it is kept in the case's record. *)
(***************************************************************************)
EXTENDS ShipmentCore

OnlyCases == UNCHANGED <<row, money, tasks, legs, tracked, pod, credential>>

\* place_exception_hold(): a blocking case freezes the status it is opened in.
NewCase(blocks) ==
  [status |-> "OPEN", blocks |-> blocks, held |-> blocks,
   frozen |-> IF blocks THEN status ELSE "NONE"]

\* open_case(): the type of the case decides whether it blocks; no status of
\* the shipment refuses a case.
OpenCase(c, blocks) ==
  /\ cases[c] = NoCase
  /\ cases' = [cases EXCEPT ![c] = NewCase(blocks)]
  /\ OnlyCases

\* Mutant: a case is closed with its hold in place.
CloseAnyway(c) == TRUE
\* _case_has_active_hold() is false.
CanClose(c) == ~cases[c].held

\* The actions the router offers, one endpoint each.
CaseActions ==
  {"assign", "start_processing", "wait_for_customer", "resume_processing", "resolve", "close"}

\* assign_case(), resolve_case() and apply_action(): a move of the table; a
\* case that still holds the shipment cannot be closed.
ActOnCase(c, action) ==
  /\ action = "close" => CanClose(c)
  /\ \E target \in CaseStatus :
       /\ <<cases[c].status, action, target>> \in CaseMoves
       /\ cases' = [cases EXCEPT ![c].status = target]
  /\ OnlyCases

\* reassign_task(): the old task is closed and an equal one offered again;
\* neither the shipment's status nor its holds are looked at.
ReassignTask(c, old) ==
  /\ cases[c].status \in {"ASSIGNED", "PROCESSING"}
  /\ Active(tasks[old])
  /\ \E new \in TaskIds :
       /\ Unused(new)
       /\ tasks' = [tasks EXCEPT ![old].status = "CANCELLED",
                                 ![new] = NewTask(tasks[old].type)]
  /\ UNCHANGED <<row, money, legs, cases, tracked, pod, credential>>

-----------------------------------------------------------------------------
\* assert_resume_preconditions(): the facts the stage needs are still there.
StageReady ==
  /\ status = "PICKUP_ASSIGNED" => ActiveTask("PICKUP")
  /\ status \in {"DELIVERY_ASSIGNED", "OUT_FOR_DELIVERY"} => ActiveTask("DELIVERY")
  /\ status = "IN_LINEHAUL" => legs > 0

\* All active holds must be of one stage, the one the shipment is still in,
\* and of blocking cases that are resolved.
Resumable(c) == /\ cases[c].frozen = status
                /\ cases[c].blocks
                /\ cases[c].status = "RESOLVED"

\* release_exception_holds()
HoldsReleased ==
  [c \in CaseIds |-> IF c \in HoldsActive
                       THEN [cases[c] EXCEPT !.held = FALSE, !.blocks = FALSE]
                       ELSE cases[c]]

ResumeShipment ==
  /\ HoldsActive # {}
  /\ \A c \in HoldsActive : Resumable(c)
  /\ StageReady
  /\ cases' = HoldsReleased
  /\ OnlyCases
=============================================================================
