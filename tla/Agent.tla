------------------------------- MODULE Agent --------------------------------
(***************************************************************************)
(* A conversation with the shipping assistant: turns of the workflow that  *)
(* stops for a confirmation and is resumed by a later request, beside the  *)
(* requests of the draft's form (graph_runner.py, workflow/, api/).        *)
(*                                                                         *)
(* The checkpoint is saved after every node on a connection of its own;    *)
(* what the nodes do to the rows is committed when the turn ends.  A turn  *)
(* looks whether the workflow waits before its first write; that write, to *)
(* the row of the conversation, makes it wait for the turn before it.  By  *)
(* then the workflow may be elsewhere, and stopped there: an input starts  *)
(* it afresh, a decision makes it go on wherever it is (LangGraph).        *)
(***************************************************************************)
EXTENDS AgentGrants, Sequences

Init ==
  /\ draft = NewDraft
  /\ quotes = [n \in 1 .. MaxRevision |-> Blank]
  /\ grants = [g \in Grants |-> NoGrant]
  /\ shipments = [g \in Grants |-> NoShipment]
  /\ thread = NewThread
  /\ lock = None
  /\ held = None
  /\ deleted = FALSE
  /\ req = [r \in Requests |-> Idle]

-----------------------------------------------------------------------------
(* Routes: the node after a node (routes.py) *)

SecurityResultRoute(error) == IF error THEN "handle_failure" ELSE "assistant_agent"

\* tools: the model asked for tools that only read.
AssistantActionRoute(t, error, tools) ==
  CASE error                 -> "handle_failure"
    [] ~error /\ t.requested -> "shipment_process"
    [] OTHER                 -> IF tools THEN "assistant_tools" ELSE "finalize_turn"

AssistantToolsRoute(error) == IF error THEN "handle_failure" ELSE "finalize_turn"

ShipmentProgressRoute(missing) == IF missing THEN "finalize_turn" ELSE "create_quote"

QuoteRoute(error) == IF error THEN "handle_failure" ELSE "shipment_confirmation"

\* Mutant: the route looks at the wrong flag of the state.
ConfirmationRouteRequested(t, error) ==
  CASE error                 -> "handle_failure"
    [] ~error /\ t.requested -> "create_shipment"
    [] OTHER                 -> "finalize_turn"
ConfirmationRoute(t, error) ==
  CASE error                 -> "handle_failure"
    [] ~error /\ t.confirmed -> "create_shipment"
    [] OTHER                 -> "finalize_turn"

CreationRoute(error) == IF error THEN "handle_failure" ELSE "finalize_turn"

-----------------------------------------------------------------------------
(* Turns *)

\* _pending_interrupt(): is the workflow waiting for a decision?
Waiting(t) == t.interrupted

TurnBegins(r) ==
  /\ Begins(r)
  /\ req' = [req EXCEPT ![r] = [Idle EXCEPT !.at = "begun", !.saw = Waiting(thread)]]
  /\ UNCHANGED <<draft, quotes, grants, shipments, thread, lock, held, deleted>>

\* The workflow is given an input: a pass begins, whatever it was doing.
Restarted(t) ==
  [t EXCEPT !.at = "load_context", !.interrupted = FALSE, !.resume = None,
            !.decision = None, !.asked = FALSE]

\* A node has ended; what was sent to resume is gone with the old checkpoint.
Saved(t, node) == [t EXCEPT !.at = node, !.resume = None]

\* The user's message is stored, which waits for the turn before.  A workflow that waited
\* when the turn began is then resumed, with "defer" (other) if the message is no decision,
\* to be started again with the message.
TurnAppends(r, word) ==
  /\ req[r].at = "begun" /\ lock = None /\ ~deleted
  /\ lock' = r
  /\ LET s        == req[r]
         running  == [Idle EXCEPT !.at = "running"]
         finished == thread.at = "end"
         decides  == word # "other"
     IN \/ /\ ~s.saw \/ (finished /\ ~decides)
           /\ thread' = Restarted(thread)
           /\ req' = [req EXCEPT ![r] = running]
        \/ /\ s.saw /\ ~finished
           /\ thread' = [thread EXCEPT !.resume = word]
           /\ req' = [req EXCEPT ![r] = [running EXCEPT !.again = ~decides]]
        \/ /\ s.saw /\ finished /\ decides
           /\ req' = [req EXCEPT ![r] = [Idle EXCEPT !.at = "ending"]]
           /\ UNCHANGED thread
  /\ UNCHANGED <<draft, quotes, grants, shipments, held, deleted>>

At(r, node) == req[r].at = "running" /\ thread.at = node

\* Mutant: the flags of the last turn are kept.
FreshKept(t) == t
Fresh(t) == [t EXCEPT !.requested = FALSE, !.confirmed = FALSE]

\* load_context_node and security_gate_node
LoadContextNode(r) ==
  /\ At(r, "load_context")
  /\ \E blocked \in BOOLEAN :
       thread' = Saved(Fresh(thread), SecurityResultRoute(blocked))
  /\ UNCHANGED <<draft, quotes, grants, shipments, lock, held, deleted, req>>

\* Up to two tools the model asks for, with arguments that are a JSON object or not, and
\* that the tool accepts or not.
ToolCall == [tool: {"start_shipment", "read"}, parses: BOOLEAN, fits: BOOLEAN]
ToolCalls == {<<>>} \cup {<<a>> : a \in ToolCall} \cup {<<a, b>> : a, b \in ToolCall}

\* stream_with_tools(): calls whose arguments are no JSON object are left out.
Parsed(calls) == SelectSeq(calls, LAMBDA call : call.parses)

\* What the node makes of them: shipping starts by a valid call for it, and by that alone.
Decided(calls) ==
  IF \E n \in 1 .. Len(calls) : calls[n].tool = "start_shipment"
    THEN IF Len(calls) = 1 /\ calls[1].fits THEN "shipment" ELSE "invalid"
    ELSE IF calls = <<>> THEN "reply" ELSE "tools"

Answers == {Decided(Parsed(calls)) : calls \in ToolCalls}

AssistantAgentNode(r) ==
  /\ At(r, "assistant_agent")
  /\ \E answer \in Answers :
       LET t == [thread EXCEPT !.requested = @ \/ answer = "shipment",
                              !.confirmed = @ /\ answer # "shipment",
                              !.asked     = (answer = "shipment")]
       IN thread' = Saved(t, AssistantActionRoute(t, answer = "invalid", answer = "tools"))
  /\ UNCHANGED <<draft, quotes, grants, shipments, lock, held, deleted, req>>

\* Within the budget and with valid arguments, or not.
AssistantToolsNode(r) ==
  /\ At(r, "assistant_tools")
  /\ \E refused \in BOOLEAN : thread' = Saved(thread, AssistantToolsRoute(refused))
  /\ UNCHANGED <<draft, quotes, grants, shipments, lock, held, deleted, req>>

\* execute_update_draft(): an address label that matches no address, or several, is
\* dropped from the fields the model found in the message.
ToolPatches ==
  Contents \cup {[fields EXCEPT !.route = None] : fields \in Contents}

ShipmentProcessNode(r) ==
  /\ At(r, "shipment_process")
  /\ \E patch \in ToolPatches, s \in Reads(req[r]) :
       LET row == IF patch = Blank THEN s.work ELSE Updated(s.work, patch)
       IN /\ patch # Blank => s.work.revision < MaxRevision /\ CanFlush(r)
          /\ req' = [req EXCEPT ![r] = Flushed(s, row)]
          /\ held' = IF patch = Blank THEN held ELSE r
          /\ thread' = Saved(thread, ShipmentProgressRoute(~Complete(row.payload)))
  /\ UNCHANGED <<draft, quotes, grants, shipments, lock, deleted>>

\* Refused, if a quote of this revision exists for other fields or an address is gone.
CreateQuoteNode(r) ==
  /\ At(r, "create_quote")
  /\ \E refused \in BOOLEAN, s \in Reads(req[r]) :
       /\ ~refused => Quotable(s.work) /\ CanFlush(r)
       /\ req' = [req EXCEPT ![r] = IF refused THEN s ELSE Flushed(s, Quoted(s.work))]
       /\ held' = IF refused THEN held ELSE r
       /\ thread' = Saved(thread, QuoteRoute(refused))
  /\ UNCHANGED <<draft, quotes, grants, shipments, lock, deleted>>

\* prepare_confirmation()
Confirmable(row) == row.status = "READY_FOR_CONFIRMATION" /\ row.quote_id # 0

\* The end of a turn, or of the pass that drained the old confirmation.
Ended(s) == [s EXCEPT !.at = IF s.again THEN "running" ELSE "ending"]

\* Without a decision: the workflow stops, the runner stores the card.
ShipmentConfirmationNode(r) ==
  /\ At(r, "shipment_confirmation") /\ ~thread.interrupted
  /\ thread.resume = None /\ thread.decision = None
  /\ \E s \in Reads(req[r]) :
       IF Confirmable(s.work)
         THEN /\ thread' = [thread EXCEPT !.interrupted = TRUE]
              /\ req' = [req EXCEPT ![r] = Ended(s)]
         ELSE /\ thread' = Saved(thread, ConfirmationRoute(thread, TRUE))
              /\ req' = [req EXCEPT ![r] = s]
  /\ UNCHANGED <<draft, quotes, grants, shipments, lock, held, deleted>>

\* With one: the node runs, or runs again, on the draft as it is now, and interrupt()
\* returns the decision, which is written before the next checkpoint is.
ResumeConfirmation(r) ==
  /\ At(r, "shipment_confirmation")
  /\ thread.resume # None /\ thread.decision = None
  /\ \E s \in Reads(req[r]) :
       /\ req' = [req EXCEPT ![r] = s]
       /\ thread' = IF Confirmable(s.work) THEN [thread EXCEPT !.decision = thread.resume]
                    ELSE [Saved(thread, ConfirmationRoute(thread, TRUE))
                            EXCEPT !.interrupted = FALSE]
  /\ UNCHANGED <<draft, quotes, grants, shipments, lock, held, deleted>>

\* A decision that was written stands, whatever this turn was sent with.
ConfirmationEnds(r) ==
  /\ At(r, "shipment_confirmation") /\ thread.decision # None
  /\ LET yes == thread.decision = "confirm"
         t   == [thread EXCEPT !.interrupted = FALSE, !.requested = @ \/ yes,
                              !.confirmed = @ \/ yes]
     IN thread' = Saved(t, ConfirmationRoute(t, FALSE))
  /\ UNCHANGED <<draft, quotes, grants, shipments, lock, held, deleted, req>>

\* create_confirmed_shipment(): first a grant is issued for the draft ...
IssuesGrant(r) ==
  /\ At(r, "create_shipment") /\ req[r].issued.state = "none"
  /\ \E s \in Reads(req[r]) :
       \/ /\ ~Ready(s.work)
          /\ req' = [req EXCEPT ![r] = s]
          /\ thread' = Saved(thread, CreationRoute(TRUE))
       \/ /\ Ready(s.work)
          /\ \E g \in Grants :
               /\ grants[g].state = "none" /\ \A q \in Requests : req[q].grant # g
               /\ req' = [req EXCEPT ![r] =
                            [s EXCEPT !.grant = g, !.issued = Granted(s.work)]]
          /\ UNCHANGED thread
  /\ UNCHANGED <<draft, quotes, grants, shipments, lock, held, deleted>>

\* ... then it is consumed, with the draft locked, and create() is called.  The node
\* catches the error of either, and what was flushed before it stays.
CreateShipmentNode(r) ==
  /\ At(r, "create_shipment") /\ req[r].issued.state = "issued" /\ CanFlush(r)
  /\ held' = r
  /\ \E served \in BOOLEAN, s \in Reads(req[r]) :
       LET used == [s.work EXCEPT !.status = "SHIPMENT_CREATED"]
           made == Creatable(s.issued.payload, served)
       IN \/ /\ ~Consumable(s.issued, s.work)
             /\ req' = [req EXCEPT ![r] = s]
             /\ thread' = Saved(thread, CreationRoute(TRUE))
          \/ /\ Consumable(s.issued, s.work)
             /\ req' = [req EXCEPT ![r] =
                          [Flushed(s, used) EXCEPT !.issued.state = "consumed", !.made = made]]
             /\ thread' = Saved(thread, CreationRoute(~made))
  /\ UNCHANGED <<draft, quotes, grants, shipments, lock, deleted>>

\* finalize_turn_node and handle_failure_node store the answer and the workflow ends.
AnswerNode(r) ==
  /\ At(r, "finalize_turn") \/ At(r, "handle_failure")
  /\ thread' = Saved(thread, "end")
  /\ req' = [req EXCEPT ![r] = Ended(req[r])]
  /\ UNCHANGED <<draft, quotes, grants, shipments, lock, held, deleted>>

\* The workflow that was drained, and has ended or waits again, is given the message.
StartsAgain(r) ==
  /\ req[r].at = "running" /\ req[r].again
  /\ thread.at = "end" \/ (thread.interrupted /\ thread.resume = None)
  /\ thread' = Restarted(thread)
  /\ req' = [req EXCEPT ![r].again = FALSE]
  /\ UNCHANGED <<draft, quotes, grants, shipments, lock, held, deleted>>

\* An exception of a node ends the turn with an error event, and the router commits.  The
\* workflow stays where it is.
TurnBreaks(r) ==
  /\ req[r].at = "running"
  /\ req' = [req EXCEPT ![r].at = "ending"]
  /\ UNCHANGED <<draft, quotes, grants, shipments, thread, lock, held, deleted>>

Unlocked(r, holder) == IF holder = r THEN None ELSE holder

TurnCommits(r) ==
  /\ req[r].at = "ending" /\ ~deleted
  /\ LET s == req[r] IN
       /\ draft' = Written(s)
       /\ quotes' = QuotesWith(s)
       /\ grants' = [g \in Grants |->
            IF g = s.grant THEN s.issued ELSE grants[g]]
       /\ shipments' = [g \in Grants |->
            IF g = s.grant /\ s.made THEN Created(s.issued.payload) ELSE shipments[g]]
  /\ lock' = Unlocked(r, lock)
  /\ held' = Unlocked(r, held)
  /\ req' = [req EXCEPT ![r] = Idle]
  /\ UNCHANGED <<thread, deleted>>

\* A request is refused, disconnected or dies: its transaction is rolled back, the
\* checkpoint is not; the workflow stays where it is.
Dies(r) ==
  /\ req[r].at # "idle"
  /\ lock' = Unlocked(r, lock)
  /\ held' = Unlocked(r, held)
  /\ req' = [req EXCEPT ![r] = Idle]
  /\ UNCHANGED <<draft, quotes, grants, shipments, thread, deleted>>

-----------------------------------------------------------------------------
(* delete_conversation() *)

\* Mutant: the rows are deleted without waiting for the turn that holds them.
DeletableAnyway == TRUE
\* DELETE waits for the row of the conversation and, by its cascade, for the draft.
Deletable == lock = None /\ held = None

DeletesRow(r) ==
  /\ req[r].at = "idle" /\ ~deleted /\ Deletable
  /\ Cardinality(Active) < MaxActive
  /\ lock' = r /\ held' = r
  /\ req' = [req EXCEPT ![r] = [Idle EXCEPT !.at = "deleting"]]
  /\ UNCHANGED <<draft, quotes, grants, shipments, thread, deleted>>

\* delete_thread()
DeletesThread(r) ==
  /\ req[r].at = "deleting"
  /\ thread' = NewThread
  /\ req' = [req EXCEPT ![r].at = "forgotten"]
  /\ UNCHANGED <<draft, quotes, grants, shipments, lock, held, deleted>>

DeleteCommits(r) ==
  /\ req[r].at = "forgotten"
  /\ deleted' = TRUE
  /\ draft' = NewDraft
  /\ grants' = [g \in Grants |-> IF shipments[g].made THEN grants[g] ELSE NoGrant]
  /\ lock' = None /\ held' = None
  /\ req' = [req EXCEPT ![r] = Idle]
  /\ UNCHANGED <<quotes, shipments, thread>>

-----------------------------------------------------------------------------
Next ==
  \/ \E r \in Forms :
       \/ LoadsDraft(r)
       \/ UpdateDraft(r) \/ SaveDraftAddress(r) \/ ValidateDraft(r) \/ IssueGrant(r)
       \/ DeletesRow(r) \/ DeletesThread(r) \/ DeleteCommits(r)
  \/ \E r \in Turns :
       \/ TurnBegins(r) \/ \E word \in Words : TurnAppends(r, word)
       \/ LoadContextNode(r) \/ AssistantAgentNode(r)
       \/ AssistantToolsNode(r) \/ ShipmentProcessNode(r) \/ CreateQuoteNode(r)
       \/ ShipmentConfirmationNode(r) \/ ResumeConfirmation(r) \/ ConfirmationEnds(r)
       \/ IssuesGrant(r) \/ CreateShipmentNode(r)
       \/ AnswerNode(r) \/ StartsAgain(r) \/ TurnBreaks(r) \/ TurnCommits(r)
  \/ \E r \in Requests : Dies(r)
  \/ \E g \in Grants : ConsumeGrant(g) \/ Expires(g)

Spec == Init /\ [][Next]_vars

-----------------------------------------------------------------------------
(* Properties *)

GrantRows ==
  [state: {"none", "issued", "consumed", "expired"}, payload: Payloads, revision: Revision,
   quote_id: Revision]

Sessions ==
  [at: Stage, work: Rows, loaded: BOOLEAN, dirty: SUBSET Columns,
   priced: [1 .. MaxRevision -> Contents], saw: BOOLEAN, again: BOOLEAN,
   grant: Grants \cup {None}, issued: GrantRows, made: BOOLEAN]

Threads ==
  [at: Nodes, interrupted: BOOLEAN, resume: Words \cup {None}, decision: Words \cup {None},
   requested: BOOLEAN, confirmed: BOOLEAN, asked: BOOLEAN]

\* Rows, sessions and checkpoint are well formed: no revision is past the bound of the
\* edits, no status outside the four that drafts.py and grants.py write.
TypeOK ==
  /\ draft \in Rows
  /\ quotes \in [1 .. MaxRevision -> Contents]
  /\ grants \in [Grants -> GrantRows]
  /\ shipments \in [Grants -> [made: BOOLEAN, parcel: Parcels \cup {None},
                               route: Routes \cup {None}, quote_id: Revision]]
  /\ thread \in Threads
  /\ lock \in Requests \cup {None} /\ held \in Requests \cup {None}
  /\ deleted \in BOOLEAN
  /\ req \in [Requests -> Sessions]

\* The quote a shipment is billed by was computed for its weight and sizes, even when the
\* payload still names the quote of an older revision.
QuotedParcel ==
  \A g \in Grants : shipments[g].made =>
    /\ shipments[g].quote_id # 0
    /\ quotes[shipments[g].quote_id].parcel = shipments[g].parcel

\* The workflow creates a shipment only in a pass that has taken a decision, and that
\* decision was to confirm.  (It need not be the word of the turn that creates it: a turn
\* that began while the workflow waited resumes it wherever the turn before has stopped.)
CreatedOnConfirm ==
  [][\A r \in Turns : req'[r].made /\ ~req[r].made => thread.decision = "confirm"]_vars

\* Wherever turns stop, and whatever resumes the workflow there, flags the checkpoint kept
\* from an earlier pass never lead to the shipping nodes; only the model's call in this pass
\* does (the comment in load_context_node).
ShippingWasAsked ==
  thread.at \in {"shipment_process", "create_quote", "shipment_confirmation",
                 "create_shipment"} => thread.asked

\* A deleted conversation leaves no checkpoint behind that could be resumed.
DeletedLeavesNoThread == deleted => thread = NewThread

-----------------------------------------------------------------------------
(* A claim of a comment in the code *)

\* "The caller must then create the shipment in the same transaction" (consume() in
\* grants.py): a consumed grant has its shipment.
ConsumedMeansCreated ==
  \A g \in Grants : grants[g].state = "consumed" => shipments[g].made
=============================================================================
