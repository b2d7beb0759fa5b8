---------------------------- MODULE AgentProofs -----------------------------
(***************************************************************************)
(* Proofs about Agent for any parcels, routes, grants, turns, forms and    *)
(* number of edits: a shipment is created only in a confirmed pass of the  *)
(* workflow and with a quote of its parcel, no flag of an old pass starts  *)
(* shipping, and a deleted conversation stays forgotten.                   *)
(***************************************************************************)
EXTENDS Agent, TLAPS

-----------------------------------------------------------------------------
(* Rows, sessions and checkpoints                                          *)

LEMMA ZeroIsRevision ==
  /\ 0 \in Revision /\ NewDraft \in Rows /\ NewDraft.payload \in Payloads
  /\ Blank \in Contents /\ NoGrant \in GrantRows
  BY AgentAssumption
     DEF Revision, NewDraft, Rows, Payloads, Status, Blank, Contents, NoGrant, GrantRows

LEMMA UpdatedIsRow ==
  ASSUME NEW row \in Rows, row.revision < MaxRevision, NEW patch \in Contents
  PROVE  Updated(row, patch) \in Rows
<1> DEFINE payload == [row.payload EXCEPT !.parcel = Pick(patch.parcel, @),
                                          !.route  = Pick(patch.route, @)]
<1>1. payload \in Payloads
  BY DEF Rows, Payloads, Contents, Pick
<1>2. row.revision + 1 \in Revision /\ 0 \in Revision
  BY AgentAssumption DEF Rows, Revision
<1> QED
  BY <1>1, <1>2 DEF Updated, Rows, Status

LEMMA QuotedIsRow ==
  ASSUME NEW row \in Rows
  PROVE  Quoted(row) \in Rows
  BY DEF Quoted, Rows, Payloads, Status

LEMMA ContentOfRow ==
  ASSUME NEW row \in Rows
  PROVE  Content(row.payload) \in Contents
  BY DEF Content, Contents, Rows, Payloads

LEMMA GrantedIsGrant ==
  ASSUME NEW row \in Rows
  PROVE  Granted(row) \in GrantRows
  BY DEF Granted, GrantRows, Rows

LEMMA IdleIsSession == Idle \in Sessions
  BY ZeroIsRevision DEF Idle, Sessions, Stage

LEMMA WrittenIsRow ==
  ASSUME draft \in Rows, NEW s \in Sessions
  PROVE  Written(s) \in Rows
  BY DEF Written, Sessions, Rows

LEMMA ReadIsSession ==
  ASSUME draft \in Rows, NEW s \in Sessions, NEW read \in Reads(s)
  PROVE  read \in Sessions
<1>1. Loaded(s) \in Sessions
  BY DEF Loaded, Sessions
<1>2. Reread(s) \in Sessions
  BY WrittenIsRow DEF Reread, Sessions
<1> QED
  BY <1>1, <1>2 DEF Reads

LEMMA FlushedIsSession ==
  ASSUME NEW s \in Sessions, NEW row \in Rows
  PROVE  Flushed(s, row) \in Sessions
<1> DEFINE priced == [n \in 1 .. MaxRevision |->
                        IF n = row.quote_id /\ n # s.work.quote_id THEN Content(row.payload)
                        ELSE s.priced[n]]
<1>1. priced \in [1 .. MaxRevision -> Contents]
  BY ContentOfRow DEF Sessions
<1>2. s.dirty \cup Changed(s.work, row) \in SUBSET Columns
  BY DEF Sessions, Changed
<1>3. Flushed(s, row) = [s EXCEPT !.work = row, !.dirty = @ \cup Changed(s.work, row),
                                  !.priced = priced]
  BY DEF Flushed
<1> QED
  BY ONLY <1>1, <1>2, <1>3, s \in Sessions, row \in Rows DEF Sessions

LEMMA EndedIsSession ==
  ASSUME NEW s \in Sessions
  PROVE  Ended(s) \in Sessions
  BY DEF Ended, Sessions, Stage

LEMMA SavedIsThread ==
  ASSUME NEW t \in Threads, NEW node \in Nodes
  PROVE  Saved(t, node) \in Threads
  BY DEF Saved, Threads

LEMMA ThreadTypes ==
  /\ NewThread \in Threads
  /\ \A t \in Threads : Restarted(t) \in Threads
  BY DEF NewThread, Threads, Nodes, Restarted

\* A commit adds the quotes of its session and changes none that is there.
LEMMA QuotesWithKeeps ==
  ASSUME quotes \in [1 .. MaxRevision -> Contents], NEW s \in Sessions
  PROVE  /\ QuotesWith(s) \in [1 .. MaxRevision -> Contents]
         /\ \A n \in 1 .. MaxRevision : quotes[n] # Blank => QuotesWith(s)[n] = quotes[n]
  BY DEF QuotesWith, Sessions

-----------------------------------------------------------------------------
(* Types                                                                   *)

LEMMA InitTypeOK == Init => TypeOK
<1> SUFFICES ASSUME Init PROVE TypeOK
  OBVIOUS
<1>1. /\ draft \in Rows /\ quotes \in [1 .. MaxRevision -> Contents]
      /\ lock \in Requests \cup {None} /\ held \in Requests \cup {None} /\ deleted \in BOOLEAN
      /\ req \in [Requests -> Sessions]
  BY ZeroIsRevision, IdleIsSession DEF Init
<1>2. NoShipment \in [made: BOOLEAN, parcel: Parcels \cup {None},
                      route: Routes \cup {None}, quote_id: Revision]
  BY ZeroIsRevision DEF NoShipment
<1> QED
  BY <1>1, <1>2, ZeroIsRevision, ThreadTypes DEF Init, TypeOK

\* The nodes the routes lead to.
LEMMA RoutesLeadToNodes ==
  ASSUME NEW t, NEW error, NEW tools
  PROVE  /\ SecurityResultRoute(error) \in {"handle_failure", "assistant_agent"}
         /\ AssistantActionRoute(t, error, tools)
              \in {"handle_failure", "shipment_process", "assistant_tools", "finalize_turn"}
         /\ AssistantToolsRoute(error) \in {"handle_failure", "finalize_turn"}
         /\ ShipmentProgressRoute(error) \in {"finalize_turn", "create_quote"}
         /\ QuoteRoute(error) \in {"handle_failure", "shipment_confirmation"}
         /\ ConfirmationRoute(t, error)
              \in {"handle_failure", "create_shipment", "finalize_turn"}
         /\ CreationRoute(error) \in {"handle_failure", "finalize_turn"}
<1>1. AssistantActionRoute(t, error, tools)
        \in {"handle_failure", "shipment_process", "assistant_tools", "finalize_turn"}
  <2>1. CASE error
    BY <2>1 DEF AssistantActionRoute
  <2>2. CASE ~error
    BY <2>2 DEF AssistantActionRoute
  <2> QED
    BY <2>1, <2>2
<1>2. ConfirmationRoute(t, error) \in {"handle_failure", "create_shipment", "finalize_turn"}
  <2>1. CASE error
    BY <2>1 DEF ConfirmationRoute
  <2>2. CASE ~error
    BY <2>2 DEF ConfirmationRoute
  <2> QED
    BY <2>1, <2>2
<1> QED
  BY <1>1, <1>2
     DEF SecurityResultRoute, AssistantToolsRoute, ShipmentProgressRoute, QuoteRoute,
         CreationRoute

\* The requests of the form.
LEMMA FormTypes ==
  ASSUME TypeOK, NEW r \in Forms,
         \/ LoadsDraft(r)
         \/ UpdateDraft(r) \/ SaveDraftAddress(r) \/ ValidateDraft(r) \/ IssueGrant(r)
         \/ DeletesRow(r) \/ DeletesThread(r) \/ DeleteCommits(r)
  PROVE  TypeOK'
<1> r \in Requests
  BY DEF Requests
<1> USE IdleIsSession DEF TypeOK
<1>1. CASE LoadsDraft(r)
  <2>1. [Loaded(Idle) EXCEPT !.at = "loaded"] \in Sessions
    BY DEF Loaded, Sessions, Stage
  <2> QED
    BY <1>1, <2>1 DEF LoadsDraft
<1>2. ASSUME NEW row \in Rows, Writes(r, row),
             UNCHANGED <<grants, shipments, thread, lock, held, deleted>>
      PROVE  TypeOK'
  <2>1. Flushed(req[r], row) \in Sessions
    BY FlushedIsSession
  <2> QED
    BY <1>2, <2>1, WrittenIsRow, QuotesWithKeeps DEF Writes
<1>3. CASE UpdateDraft(r) \/ SaveDraftAddress(r)
  <2>1. PICK patch \in Contents :
          Writes(r, Updated(req[r].work, patch)) /\ req[r].work.revision < MaxRevision
    BY <1>3 DEF UpdateDraft, SaveDraftAddress, AddressPatches, Patches
  <2>2. Updated(req[r].work, patch) \in Rows
    BY <2>1, UpdatedIsRow DEF Sessions
  <2> QED
    BY <1>2, <1>3, <2>1, <2>2 DEF UpdateDraft, SaveDraftAddress
<1>4. CASE ValidateDraft(r)
  <2>1. Quoted(req[r].work) \in Rows
    BY QuotedIsRow DEF Sessions
  <2> QED
    BY <1>2, <1>4, <2>1 DEF ValidateDraft
<1>5. CASE IssueGrant(r)
  <2>1. Granted(req[r].work) \in GrantRows
    BY GrantedIsGrant DEF Sessions
  <2> QED
    BY <1>5, <2>1 DEF IssueGrant
<1>6. CASE DeletesRow(r)
  <2>1. [Idle EXCEPT !.at = "deleting"] \in Sessions
    BY DEF Sessions, Stage
  <2> QED
    BY <1>6, <2>1 DEF DeletesRow
<1>7. CASE DeletesThread(r)
  <2>1. [req[r] EXCEPT !.at = "forgotten"] \in Sessions
    BY DEF Sessions, Stage
  <2> QED
    BY <1>7, <2>1, ThreadTypes DEF DeletesThread
<1>8. CASE DeleteCommits(r)
  BY <1>8, ZeroIsRevision DEF DeleteCommits
<1> QED
  BY <1>1, <1>3, <1>4, <1>5, <1>6, <1>7, <1>8

\* The turns of the workflow.
LEMMA TurnTypes ==
  ASSUME TypeOK, NEW r \in Turns,
         \/ TurnBegins(r) \/ \E word \in Words : TurnAppends(r, word)
         \/ LoadContextNode(r) \/ AssistantAgentNode(r)
         \/ AssistantToolsNode(r) \/ ShipmentProcessNode(r) \/ CreateQuoteNode(r)
         \/ ShipmentConfirmationNode(r) \/ ResumeConfirmation(r) \/ ConfirmationEnds(r)
         \/ IssuesGrant(r) \/ CreateShipmentNode(r)
         \/ AnswerNode(r) \/ StartsAgain(r) \/ TurnBreaks(r) \/ TurnCommits(r)
  PROVE  TypeOK'
<1> r \in Requests
  BY DEF Requests
<1> USE DEF TypeOK
\* A step that changes the checkpoint and the session of its turn.
<1>1. ASSUME NEW s \in Sessions, NEW t \in Threads, req' = [req EXCEPT ![r] = s],
             thread' = t, lock' \in {lock, r}, held' \in {held, r},
             UNCHANGED <<draft, quotes, grants, shipments, deleted>>
      PROVE  TypeOK'
  BY <1>1
<1>2. req = [req EXCEPT ![r] = req[r]] /\ req[r] \in Sessions
  OBVIOUS
<1>3. ASSUME NEW s \in Reads(req[r]) PROVE s \in Sessions
  BY <1>2, <1>3, ReadIsSession
<1>4. CASE TurnBegins(r)
  <2>1. [Idle EXCEPT !.at = "begun", !.saw = Waiting(thread)] \in Sessions
    BY IdleIsSession DEF Sessions, Stage, Waiting, Threads
  <2> QED
    BY <1>1, <1>4, <2>1 DEF TurnBegins
<1>5. CASE \E word \in Words : TurnAppends(r, word)
  <2>1. PICK word \in Words : TurnAppends(r, word)
    BY <1>5
  <2>2. /\ [Idle EXCEPT !.at = "running"] \in Sessions
        /\ [Idle EXCEPT !.at = "ending"] \in Sessions
        /\ [[Idle EXCEPT !.at = "running"] EXCEPT !.again = ~(word # "other")] \in Sessions
    BY IdleIsSession DEF Sessions, Stage
  <2>3. \E s \in Sessions : req' = [req EXCEPT ![r] = s]
    BY <2>1, <2>2 DEF TurnAppends
  <2>4. thread' \in Threads
    <3>1. thread' \in {thread, Restarted(thread), [thread EXCEPT !.resume = word]}
      BY <2>1 DEF TurnAppends
    <3>2. [thread EXCEPT !.resume = word] \in Threads
      BY DEF Threads
    <3> QED
      BY <3>1, <3>2, ThreadTypes
  <2> QED
    BY <1>1, <2>1, <2>3, <2>4 DEF TurnAppends
<1>6. CASE LoadContextNode(r)
  <2>1. Fresh(thread) \in Threads
    BY DEF Fresh, Threads
  <2>2. thread' \in Threads
    <3>1. PICK blocked \in BOOLEAN :
            thread' = Saved(Fresh(thread), SecurityResultRoute(blocked))
      BY <1>6 DEF LoadContextNode
    <3>2. SecurityResultRoute(blocked) \in Nodes
      BY RoutesLeadToNodes DEF Nodes
    <3> QED
      BY <2>1, <3>1, <3>2, SavedIsThread
  <2> QED
    BY <1>1, <1>2, <1>6, <2>2 DEF LoadContextNode
<1>7. CASE AssistantAgentNode(r)
  <2>1. PICK answer \in Answers :
          LET t == [thread EXCEPT !.requested = @ \/ answer = "shipment",
                                  !.confirmed = @ /\ answer # "shipment",
                                  !.asked     = (answer = "shipment")]
          IN thread' =
               Saved(t, AssistantActionRoute(t, answer = "invalid", answer = "tools"))
    BY <1>7 DEF AssistantAgentNode
  <2> DEFINE t == [thread EXCEPT !.requested = @ \/ answer = "shipment",
                                 !.confirmed = @ /\ answer # "shipment",
                                 !.asked     = (answer = "shipment")]
             node == AssistantActionRoute(t, answer = "invalid", answer = "tools")
  <2>2. t \in Threads
    BY DEF Threads
  <2>3. node \in Nodes
    BY RoutesLeadToNodes DEF Nodes
  <2>4. thread' = Saved(t, node)
    BY <2>1
  <2>5. thread' \in Threads
    BY ONLY <2>2, <2>3, <2>4, SavedIsThread
  <2> QED
    BY <1>1, <1>2, <1>7, <2>5 DEF AssistantAgentNode
<1>8. CASE AssistantToolsNode(r)
  <2>1. PICK refused \in BOOLEAN : thread' = Saved(thread, AssistantToolsRoute(refused))
    BY <1>8 DEF AssistantToolsNode
  <2>2. thread' \in Threads
    BY <2>1, RoutesLeadToNodes, SavedIsThread DEF Nodes
  <2> QED
    BY <1>1, <1>2, <1>8, <2>2 DEF AssistantToolsNode
<1>9. CASE ShipmentProcessNode(r)
  <2>1. PICK patch \in ToolPatches, s \in Reads(req[r]) :
          LET row == IF patch = Blank THEN s.work ELSE Updated(s.work, patch)
          IN /\ patch # Blank => s.work.revision < MaxRevision /\ CanFlush(r)
             /\ req' = [req EXCEPT ![r] = Flushed(s, row)]
             /\ held' = IF patch = Blank THEN held ELSE r
             /\ thread' = Saved(thread, ShipmentProgressRoute(~Complete(row.payload)))
    BY <1>9 DEF ShipmentProcessNode
  <2> DEFINE row == IF patch = Blank THEN s.work ELSE Updated(s.work, patch)
  <2>2. patch \in Contents
    BY DEF ToolPatches, Contents
  <2>3. s \in Sessions
    BY <1>3
  <2>4. row \in Rows
    BY <2>1, <2>2, <2>3, UpdatedIsRow DEF Sessions
  <2>5. ShipmentProgressRoute(~Complete(row.payload)) \in Nodes
    BY RoutesLeadToNodes DEF Nodes
  <2>6. thread' \in Threads
    BY <2>1, <2>5, SavedIsThread
  <2>7. Flushed(s, row) \in Sessions
    BY <2>3, <2>4, FlushedIsSession
  <2>8. req' = [req EXCEPT ![r] = Flushed(s, row)] /\ held' \in {held, r}
    BY <2>1
  <2>9. lock' \in {lock, r} /\ UNCHANGED <<draft, quotes, grants, shipments, deleted>>
    BY <1>9, Zenon DEF ShipmentProcessNode
  <2> HIDE DEF row
  <2> QED
    BY <1>1, <2>6, <2>7, <2>8, <2>9
<1>10. CASE CreateQuoteNode(r)
  <2>1. PICK refused \in BOOLEAN, s \in Reads(req[r]) :
          /\ req' = [req EXCEPT ![r] = IF refused THEN s ELSE Flushed(s, Quoted(s.work))]
          /\ held' = IF refused THEN held ELSE r
          /\ thread' = Saved(thread, QuoteRoute(refused))
    BY <1>10 DEF CreateQuoteNode
  <2>2. s \in Sessions
    BY <1>3
  <2>3. Flushed(s, Quoted(s.work)) \in Sessions
    BY <2>2, QuotedIsRow, FlushedIsSession DEF Sessions
  <2>4. thread' \in Threads
    BY <2>1, RoutesLeadToNodes, SavedIsThread DEF Nodes
  <2> QED
    BY <1>1, <1>10, <2>1, <2>2, <2>3, <2>4 DEF CreateQuoteNode
<1>11. CASE ShipmentConfirmationNode(r)
  <2>1. PICK s \in Reads(req[r]) :
          \/ /\ thread' = [thread EXCEPT !.interrupted = TRUE]
             /\ req' = [req EXCEPT ![r] = Ended(s)]
          \/ /\ thread' = Saved(thread, ConfirmationRoute(thread, TRUE))
             /\ req' = [req EXCEPT ![r] = s]
    BY <1>11 DEF ShipmentConfirmationNode
  <2>2. s \in Sessions /\ Ended(s) \in Sessions
    BY <1>3, EndedIsSession
  <2>3. [thread EXCEPT !.interrupted = TRUE] \in Threads
    BY DEF Threads
  <2>4. Saved(thread, ConfirmationRoute(thread, TRUE)) \in Threads
    BY RoutesLeadToNodes, SavedIsThread DEF Nodes
  <2> QED
    BY <1>1, <1>11, <2>1, <2>2, <2>3, <2>4 DEF ShipmentConfirmationNode
<1>12. CASE ResumeConfirmation(r)
  <2>1. PICK s \in Reads(req[r]) :
          /\ req' = [req EXCEPT ![r] = s]
          /\ thread' \in {[thread EXCEPT !.decision = thread.resume],
                          [Saved(thread, ConfirmationRoute(thread, TRUE))
                             EXCEPT !.interrupted = FALSE]}
    BY <1>12 DEF ResumeConfirmation
  <2>2. Saved(thread, ConfirmationRoute(thread, TRUE)) \in Threads
    BY RoutesLeadToNodes, SavedIsThread DEF Nodes
  <2>3. thread' \in Threads
    BY <2>1, <2>2 DEF Threads
  <2> QED
    BY <1>1, <1>3, <1>12, <2>1, <2>3 DEF ResumeConfirmation
<1>13. CASE ConfirmationEnds(r)
  <2> DEFINE yes == thread.decision = "confirm"
             t   == [thread EXCEPT !.interrupted = FALSE, !.requested = @ \/ yes,
                                   !.confirmed = @ \/ yes]
  <2>1. t \in Threads
    BY DEF Threads
  <2>2. thread' = Saved(t, ConfirmationRoute(t, FALSE))
    BY <1>13 DEF ConfirmationEnds
  <2>3. thread' \in Threads
    <3> HIDE DEF t
    <3> QED
      BY <2>1, <2>2, RoutesLeadToNodes, SavedIsThread DEF Nodes
  <2> QED
    BY <1>1, <1>2, <1>13, <2>3 DEF ConfirmationEnds
<1>14. CASE IssuesGrant(r)
  <2>1. PICK s \in Reads(req[r]) :
          \/ /\ req' = [req EXCEPT ![r] = s]
             /\ thread' = Saved(thread, CreationRoute(TRUE))
          \/ /\ \E g \in Grants :
                  req' = [req EXCEPT ![r] = [s EXCEPT !.grant = g, !.issued = Granted(s.work)]]
             /\ UNCHANGED thread
    BY <1>14 DEF IssuesGrant
  <2>2. s \in Sessions
    BY <1>3
  <2>3. Granted(s.work) \in GrantRows
    BY <2>2, GrantedIsGrant DEF Sessions
  <2>4. \A g \in Grants : [s EXCEPT !.grant = g, !.issued = Granted(s.work)] \in Sessions
    BY <2>2, <2>3 DEF Sessions
  <2>5. Saved(thread, CreationRoute(TRUE)) \in Threads
    BY RoutesLeadToNodes, SavedIsThread DEF Nodes
  <2>6. thread' \in Threads /\ \E x \in Sessions : req' = [req EXCEPT ![r] = x]
    BY <2>1, <2>2, <2>4, <2>5
  <2> QED
    BY <1>1, <1>14, <2>6 DEF IssuesGrant
<1>15. CASE CreateShipmentNode(r)
  <2> DEFINE used(s) == [s.work EXCEPT !.status = "SHIPMENT_CREATED"]
             after(s, made) ==
               [Flushed(s, used(s)) EXCEPT !.issued.state = "consumed", !.made = made]
  <2>1. PICK served \in BOOLEAN, s \in Reads(req[r]) :
          \/ /\ req' = [req EXCEPT ![r] = s]
             /\ thread' = Saved(thread, CreationRoute(TRUE))
          \/ /\ req' = [req EXCEPT ![r] = after(s, Creatable(s.issued.payload, served))]
             /\ thread' = Saved(thread, CreationRoute(~Creatable(s.issued.payload, served)))
    BY <1>15 DEF CreateShipmentNode
  <2>2. s \in Sessions
    BY <1>3
  <2>3. used(s) \in Rows
    BY <2>2 DEF Sessions, Rows, Status
  <2>4. Flushed(s, used(s)) \in Sessions
    BY <2>2, <2>3, FlushedIsSession
  <2>5. Creatable(s.issued.payload, served) \in BOOLEAN
    BY DEF Creatable, QuoteFits
  <2>6. after(s, Creatable(s.issued.payload, served)) \in Sessions
    BY <2>4, <2>5 DEF Sessions, GrantRows
  <2>7. thread' \in Threads
    BY <2>1, RoutesLeadToNodes, SavedIsThread DEF Nodes
  <2>8. /\ lock' \in {lock, r} /\ held' \in {held, r}
        /\ UNCHANGED <<draft, quotes, grants, shipments, deleted>>
    BY <1>15, Zenon DEF CreateShipmentNode
  <2> HIDE DEF after
  <2> QED
    BY <1>1, <2>1, <2>2, <2>6, <2>7, <2>8
<1>16. CASE AnswerNode(r)
  <2>1. Ended(req[r]) \in Sessions
    BY <1>2, EndedIsSession
  <2>2. thread' \in Threads
    BY <1>16, SavedIsThread DEF AnswerNode, Nodes
  <2> QED
    BY <1>1, <1>16, <2>1, <2>2 DEF AnswerNode
<1>17. CASE StartsAgain(r)
  <2>1. [req[r] EXCEPT !.again = FALSE] \in Sessions
    BY <1>2 DEF Sessions
  <2> QED
    BY <1>1, <1>17, <2>1, ThreadTypes DEF StartsAgain
<1>18. CASE TurnBreaks(r)
  <2>1. [req[r] EXCEPT !.at = "ending"] \in Sessions
    BY <1>2 DEF Sessions, Stage
  <2> QED
    BY <1>1, <1>18, <2>1 DEF TurnBreaks
<1>19. CASE TurnCommits(r)
  <2>1. Written(req[r]) \in Rows /\ QuotesWith(req[r]) \in [1 .. MaxRevision -> Contents]
    BY WrittenIsRow, QuotesWithKeeps
  <2>2. /\ req[r].issued \in GrantRows
        /\ Created(req[r].issued.payload)
             \in [made: BOOLEAN, parcel: Parcels \cup {None},
                  route: Routes \cup {None}, quote_id: Revision]
    BY <1>2 DEF Created, Sessions, GrantRows, Payloads
  <2> QED
    BY <1>19, <2>1, <2>2, IdleIsSession DEF TurnCommits, Unlocked
<1> QED
  BY <1>4, <1>5, <1>6, <1>7, <1>8, <1>9, <1>10, <1>11, <1>12, <1>13, <1>14, <1>15, <1>16,
     <1>17, <1>18, <1>19

LEMMA NextTypeOK == TypeOK /\ [Next]_vars => TypeOK'
<1> SUFFICES ASSUME TypeOK, [Next]_vars PROVE TypeOK'
  OBVIOUS
<1>1. ASSUME NEW r \in Requests, Dies(r) PROVE TypeOK'
  BY <1>1, IdleIsSession DEF Dies, TypeOK, Unlocked
<1>2. ASSUME NEW g \in Grants, ConsumeGrant(g) PROVE TypeOK'
  <2>1. [draft EXCEPT !.status = "SHIPMENT_CREATED"] \in Rows
    BY DEF TypeOK, Rows, Status
  <2>2. Created(grants[g].payload) \in [made: BOOLEAN, parcel: Parcels \cup {None},
                                        route: Routes \cup {None}, quote_id: Revision]
    BY DEF Created, TypeOK, GrantRows, Payloads
  <2>3. [grants[g] EXCEPT !.state = "consumed"] \in GrantRows
    BY DEF TypeOK, GrantRows
  <2> QED
    BY <1>2, <2>1, <2>2, <2>3 DEF ConsumeGrant, TypeOK
<1>3. ASSUME NEW g \in Grants, Expires(g) PROVE TypeOK'
  <2>1. [NoGrant EXCEPT !.state = "expired"] \in GrantRows
    BY ZeroIsRevision DEF NoGrant, GrantRows
  <2> QED
    BY <1>3, <2>1 DEF Expires, TypeOK
<1>4. CASE UNCHANGED vars
  BY <1>4 DEF TypeOK, vars
<1> QED
  BY <1>1, <1>2, <1>3, <1>4, FormTypes, TurnTypes DEF Next

-----------------------------------------------------------------------------
(* Sessions: what a step leaves of where a request is and what it has made *)

LEMMA ReadKeeps ==
  ASSUME NEW s \in Sessions, NEW read \in Reads(s)
  PROVE  read.at = s.at /\ read.made = s.made /\ read.issued = s.issued
  BY DEF Reads, Loaded, Reread, Sessions

LEMMA FlushKeeps ==
  ASSUME NEW s \in Sessions, NEW row
  PROVE  /\ Flushed(s, row).at = s.at /\ Flushed(s, row).made = s.made
         /\ Flushed(s, row).issued = s.issued
  BY DEF Flushed, Sessions

\* The sessions of the nodes: s stands for the session with the draft as it was read.
LEMMA NodeSessions ==
  ASSUME TypeOK, NEW r \in Turns
  PROVE  /\ ShipmentProcessNode(r) \/ CreateQuoteNode(r) \/ ResumeConfirmation(r) =>
              \E s : /\ req' = [req EXCEPT ![r] = s] /\ s.at = req[r].at
                    /\ s.made = req[r].made /\ s.issued = req[r].issued
         /\ ShipmentConfirmationNode(r) =>
              \E s : /\ req' = [req EXCEPT ![r] = s] /\ s.at \in {req[r].at, "running", "ending"}
                    /\ s.made = req[r].made /\ s.issued = req[r].issued
         /\ IssuesGrant(r) =>
              \E s : /\ req' = [req EXCEPT ![r] = s] /\ s.at = req[r].at
                    /\ s.made = req[r].made
                    /\ \/ s.issued = req[r].issued
                       \/ s.issued.state = "issued" /\ Complete(s.issued.payload)
         /\ CreateShipmentNode(r) =>
              \E s : /\ req' = [req EXCEPT ![r] = s] /\ s.at = req[r].at
                    /\ \/ s.made = req[r].made /\ s.issued = req[r].issued
                       \/ /\ s.issued.state = "consumed"
                          /\ s.issued.payload = req[r].issued.payload
                          /\ s.made => QuoteFits(s.issued.payload)
<1> r \in Requests /\ req[r] \in Sessions /\ draft \in Rows
  BY DEF Requests, TypeOK
<1>1. ASSUME NEW s \in Reads(req[r])
      PROVE  s \in Sessions /\ s.at = req[r].at /\ s.made = req[r].made
             /\ s.issued = req[r].issued
  BY <1>1, ReadIsSession, ReadKeeps
<1>2. ASSUME ShipmentProcessNode(r) PROVE
        \E s : /\ req' = [req EXCEPT ![r] = s] /\ s.at = req[r].at
              /\ s.made = req[r].made /\ s.issued = req[r].issued
  <2>1. PICK s \in Reads(req[r]) : \E row : req' = [req EXCEPT ![r] = Flushed(s, row)]
    BY <1>2, Zenon DEF ShipmentProcessNode
  <2>2. PICK row : req' = [req EXCEPT ![r] = Flushed(s, row)]
    BY <2>1
  <2> DEFINE x == Flushed(s, row)
  <2>3. x.at = req[r].at /\ x.made = req[r].made /\ x.issued = req[r].issued
    BY <1>1, FlushKeeps
  <2>4. req' = [req EXCEPT ![r] = x]
    BY <2>2
  <2> HIDE DEF x
  <2> QED
    BY <2>3, <2>4
<1>3. ASSUME CreateQuoteNode(r) PROVE
        \E s : /\ req' = [req EXCEPT ![r] = s] /\ s.at = req[r].at
              /\ s.made = req[r].made /\ s.issued = req[r].issued
  <2>1. PICK s \in Reads(req[r]), refused \in BOOLEAN :
          req' = [req EXCEPT ![r] = IF refused THEN s ELSE Flushed(s, Quoted(s.work))]
    BY <1>3, Zenon DEF CreateQuoteNode
  <2> DEFINE x == IF refused THEN s ELSE Flushed(s, Quoted(s.work))
  <2>2. x.at = req[r].at /\ x.made = req[r].made /\ x.issued = req[r].issued
    BY <1>1, FlushKeeps
  <2>3. req' = [req EXCEPT ![r] = x]
    BY <2>1
  <2> HIDE DEF x
  <2> QED
    BY <2>2, <2>3
<1>4. ASSUME ResumeConfirmation(r) PROVE
        \E s : /\ req' = [req EXCEPT ![r] = s] /\ s.at = req[r].at
              /\ s.made = req[r].made /\ s.issued = req[r].issued
  <2>1. PICK s \in Reads(req[r]) : req' = [req EXCEPT ![r] = s]
    BY <1>4, Zenon DEF ResumeConfirmation
  <2> QED
    BY <1>1, <2>1
<1>5. ASSUME ShipmentConfirmationNode(r) PROVE
        \E s : /\ req' = [req EXCEPT ![r] = s] /\ s.at \in {req[r].at, "running", "ending"}
              /\ s.made = req[r].made /\ s.issued = req[r].issued
  <2>1. PICK s \in Reads(req[r]) : req' = [req EXCEPT ![r] = s]
                                   \/ req' = [req EXCEPT ![r] = Ended(s)]
    BY <1>5 DEF ShipmentConfirmationNode
  <2>2. Ended(s).at \in {"running", "ending"} /\ Ended(s).made = s.made
        /\ Ended(s).issued = s.issued
    BY <1>1 DEF Ended, Sessions
  <2> QED
    BY <1>1, <2>1, <2>2
<1>6. ASSUME IssuesGrant(r) PROVE
        \E s : /\ req' = [req EXCEPT ![r] = s] /\ s.at = req[r].at
              /\ s.made = req[r].made
              /\ \/ s.issued = req[r].issued
                 \/ s.issued.state = "issued" /\ Complete(s.issued.payload)
  <2>1. PICK s \in Reads(req[r]) :
          \/ req' = [req EXCEPT ![r] = s]
          \/ /\ Ready(s.work)
             /\ \E g \in Grants :
                  req' = [req EXCEPT ![r] = [s EXCEPT !.grant = g, !.issued = Granted(s.work)]]
    BY <1>6 DEF IssuesGrant
  <2> DEFINE x(g) == [s EXCEPT !.grant = g, !.issued = Granted(s.work)]
  <2>2. ASSUME Ready(s.work), NEW g \in Grants
        PROVE  /\ x(g).at = s.at /\ x(g).made = s.made /\ x(g).issued.state = "issued"
               /\ Complete(x(g).issued.payload)
    BY <1>1, <2>2 DEF Ready, Granted, Sessions
  <2>3. CASE req' = [req EXCEPT ![r] = s]
    BY <1>1, <2>3
  <2>4. ASSUME Ready(s.work), NEW g \in Grants, req' = [req EXCEPT ![r] = x(g)]
        PROVE  \E y : /\ req' = [req EXCEPT ![r] = y] /\ y.at = req[r].at
                     /\ y.made = req[r].made
                     /\ \/ y.issued = req[r].issued
                        \/ y.issued.state = "issued" /\ Complete(y.issued.payload)
    <3>1. /\ x(g).at = req[r].at /\ x(g).made = req[r].made
          /\ x(g).issued.state = "issued" /\ Complete(x(g).issued.payload)
      BY <1>1, <2>2, <2>4
    <3> HIDE DEF x
    <3> QED
      BY <2>4, <3>1
  <2> QED
    BY <2>1, <2>3, <2>4
<1>7. ASSUME CreateShipmentNode(r) PROVE
        \E s : /\ req' = [req EXCEPT ![r] = s] /\ s.at = req[r].at
              /\ \/ s.made = req[r].made /\ s.issued = req[r].issued
                 \/ /\ s.issued.state = "consumed"
                    /\ s.issued.payload = req[r].issued.payload
                    /\ s.made => QuoteFits(s.issued.payload)
  <2> DEFINE after(s, row, made) ==
               [Flushed(s, row) EXCEPT !.issued.state = "consumed", !.made = made]
             used(s) == [s.work EXCEPT !.status = "SHIPMENT_CREATED"]
  <2>1. PICK s \in Reads(req[r]), served \in BOOLEAN :
          \/ req' = [req EXCEPT ![r] = s]
          \/ req' = [req EXCEPT ![r] = after(s, used(s), Creatable(s.issued.payload, served))]
    BY <1>7 DEF CreateShipmentNode
  <2> DEFINE row == used(s)
  <2> HIDE DEF used
  <2>2. /\ Flushed(s, row).issued = s.issued /\ Flushed(s, row).at = s.at
        /\ s.issued \in GrantRows
    BY <1>1, FlushKeeps DEF Sessions
  <2>3. LET x == after(s, row, Creatable(s.issued.payload, served))
        IN /\ x.at = s.at /\ x.issued.state = "consumed"
           /\ x.issued.payload = s.issued.payload
           /\ x.made = Creatable(s.issued.payload, served)
    <3>1. /\ DOMAIN Flushed(s, row) = DOMAIN s
          /\ {"at", "issued", "made"} \subseteq DOMAIN s
      BY <1>1 DEF Flushed, Sessions
    <3>2. DOMAIN s.issued = {"state", "payload", "revision", "quote_id"}
      BY <2>2 DEF GrantRows
    <3> QED
      BY <2>2, <3>1, <3>2 DEF GrantRows, Flushed
  <2>4. Creatable(s.issued.payload, served) => QuoteFits(s.issued.payload)
    BY DEF Creatable
  <2> HIDE DEF after
  <2> QED
    BY <1>1, <2>1, <2>3, <2>4
<1> QED
  BY ONLY <1>2, <1>3, <1>4, <1>5, <1>6, <1>7

\* What a step makes of a session: it is left as it is, dropped, or one of the two halves of
\* create_confirmed_shipment() goes on with it.
LEMMA SessionOrigin ==
  ASSUME TypeOK, [Next]_vars, NEW r \in Requests
  PROVE  \/ req'[r].made = req[r].made /\ req'[r].issued = req[r].issued
         \/ ~req'[r].made /\ req'[r].issued = NoGrant
         \/ r \in Turns /\ (IssuesGrant(r) \/ CreateShipmentNode(r))
<1> DEFINE Goal == \/ req'[r].made = req[r].made /\ req'[r].issued = req[r].issued
                   \/ ~req'[r].made /\ req'[r].issued = NoGrant
                   \/ r \in Turns /\ (IssuesGrant(r) \/ CreateShipmentNode(r))
<1> HIDE DEF Goal
<1> SUFFICES Goal
  BY DEF Goal
<1>1. ASSUME NEW q \in Requests, NEW s, req' = [req EXCEPT ![q] = s],
             \/ s.made = req[q].made /\ s.issued = req[q].issued
             \/ ~s.made /\ s.issued = NoGrant
      PROVE  Goal
  BY <1>1 DEF Goal, TypeOK
<1>2. CASE UNCHANGED req
  BY <1>2 DEF Goal
<1> USE DEF Requests
<1>3. ASSUME NEW q \in Requests, NEW at, NEW saw, NEW again,
             req' = [req EXCEPT ![q] = [Idle EXCEPT !.at = at, !.saw = saw, !.again = again]]
      PROVE  Goal
  BY <1>1, <1>3 DEF Idle
<1>4. ASSUME NEW q \in Requests, req' = [req EXCEPT ![q] = Idle] PROVE Goal
  BY <1>1, <1>4 DEF Idle
<1>5. ASSUME NEW q \in Requests, NEW at, req' = [req EXCEPT ![q].at = at] PROVE Goal
  <2>1. [req[q] EXCEPT !.at = at].made = req[q].made
        /\ [req[q] EXCEPT !.at = at].issued = req[q].issued
    BY DEF TypeOK, Sessions
  <2> QED
    BY <1>1, <1>5, <2>1
<1>6. ASSUME NEW q \in Forms, LoadsDraft(q) PROVE Goal
  <2>1. /\ [Loaded(Idle) EXCEPT !.at = "loaded"].made = FALSE
        /\ [Loaded(Idle) EXCEPT !.at = "loaded"].issued = NoGrant
    BY DEF Loaded, Idle
  <2> QED
    BY <1>1, <1>6, <2>1 DEF LoadsDraft
<1>7. ASSUME NEW q \in Forms, UpdateDraft(q) \/ SaveDraftAddress(q) \/ ValidateDraft(q)
      PROVE Goal
  <2>1. req' = [req EXCEPT ![q] = Idle]
    BY <1>7, Zenon DEF UpdateDraft, SaveDraftAddress, ValidateDraft, Writes
  <2> QED
    BY <1>4, <2>1
<1>8. ASSUME NEW q \in Forms, IssueGrant(q) \/ DeleteCommits(q) PROVE Goal
  <2>1. req' = [req EXCEPT ![q] = Idle]
    BY <1>8, Zenon DEF IssueGrant, DeleteCommits
  <2> QED
    BY <1>4, <2>1
<1>9. ASSUME NEW q \in Forms, DeletesRow(q) PROVE Goal
  <2>1. req' = [req EXCEPT ![q] = [Idle EXCEPT !.at = "deleting"]]
    BY <1>9 DEF DeletesRow
  <2> QED
    BY <1>1, <2>1 DEF Idle
<1>10. ASSUME NEW q \in Forms, DeletesThread(q) PROVE Goal
  BY <1>5, <1>10 DEF DeletesThread
<1>11. ASSUME NEW q \in Turns, TurnBegins(q) PROVE Goal
  <2>1. req' = [req EXCEPT ![q] = [Idle EXCEPT !.at = "begun", !.saw = Waiting(thread)]]
    BY <1>11 DEF TurnBegins
  <2> QED
    BY <1>1, <2>1 DEF Idle
<1>12. ASSUME NEW q \in Turns, NEW word \in Words, TurnAppends(q, word) PROVE Goal
  <2> DEFINE running == [Idle EXCEPT !.at = "running"]
             ending  == [Idle EXCEPT !.at = "ending"]
             drains  == [running EXCEPT !.again = ~(word # "other")]
  <2>1. /\ ~running.made /\ running.issued = NoGrant
        /\ ~ending.made /\ ending.issued = NoGrant
        /\ ~drains.made /\ drains.issued = NoGrant
    BY DEF Idle
  <2>2. \/ req' = [req EXCEPT ![q] = running]
        \/ req' = [req EXCEPT ![q] = ending]
        \/ req' = [req EXCEPT ![q] = drains]
    BY <1>12, Zenon DEF TurnAppends
  <2> HIDE DEF running, ending, drains
  <2> QED
    BY <1>1, <2>1, <2>2
<1>13. ASSUME NEW q \in Turns,
              \/ LoadContextNode(q) \/ AssistantAgentNode(q) \/ AssistantToolsNode(q)
              \/ ConfirmationEnds(q)
       PROVE  Goal
  <2>1. UNCHANGED req
    BY <1>13, Zenon DEF LoadContextNode, AssistantAgentNode, AssistantToolsNode,
                        ConfirmationEnds
  <2> QED
    BY <1>2, <2>1
<1>14. ASSUME NEW q \in Turns,
              \/ ShipmentProcessNode(q) \/ CreateQuoteNode(q) \/ ResumeConfirmation(q)
              \/ ShipmentConfirmationNode(q)
       PROVE  Goal
  <2>1. PICK s : /\ req' = [req EXCEPT ![q] = s]
                 /\ s.made = req[q].made /\ s.issued = req[q].issued
    BY <1>14, NodeSessions, Zenon
  <2> QED
    BY <1>1, <2>1
<1>15. ASSUME NEW q \in Turns, IssuesGrant(q) \/ CreateShipmentNode(q) PROVE Goal
  <2>1. CASE q = r
    BY <1>15, <2>1 DEF Goal
  <2>2. CASE q # r
    <3>1. PICK s : req' = [req EXCEPT ![q] = s]
      BY <1>15, NodeSessions, Zenon
    <3> QED
      BY <2>2, <3>1 DEF Goal, TypeOK
  <2> QED
    BY <2>1, <2>2
<1>16. ASSUME NEW q \in Turns, AnswerNode(q) PROVE Goal
  <2>1. req' = [req EXCEPT ![q] = Ended(req[q])]
    BY <1>16 DEF AnswerNode
  <2>2. Ended(req[q]).made = req[q].made /\ Ended(req[q]).issued = req[q].issued
    BY DEF Ended, TypeOK, Sessions
  <2> QED
    BY <1>1, <2>1, <2>2
<1>17. ASSUME NEW q \in Turns, StartsAgain(q) PROVE Goal
  <2>1. [req[q] EXCEPT !.again = FALSE].made = req[q].made
        /\ [req[q] EXCEPT !.again = FALSE].issued = req[q].issued
    BY DEF TypeOK, Sessions
  <2> QED
    BY <1>1, <1>17, <2>1 DEF StartsAgain
<1>18. ASSUME NEW q \in Turns, TurnBreaks(q) PROVE Goal
  BY <1>5, <1>18 DEF TurnBreaks
<1>19. ASSUME NEW q \in Requests, (q \in Turns /\ TurnCommits(q)) \/ Dies(q) PROVE Goal
  <2>1. req' = [req EXCEPT ![q] = Idle]
    BY <1>19, Zenon DEF TurnCommits, Dies
  <2> QED
    BY <1>4, <2>1
<1>20. ASSUME NEW g \in Grants, ConsumeGrant(g) \/ Expires(g) PROVE Goal
  BY <1>2, <1>20, Zenon DEF ConsumeGrant, Expires
<1>21. CASE UNCHANGED vars
  BY <1>2, <1>21 DEF vars
<1> QED
  BY ONLY <1>6, <1>7, <1>8, <1>9, <1>10, <1>11, <1>12, <1>13, <1>14, <1>15, <1>16, <1>17,
          <1>18, <1>19, <1>20, <1>21, [Next]_vars
     DEF Next, Requests

-----------------------------------------------------------------------------
(* The flow of control: who runs the workflow, and with which flags.       *)

\* A turn that runs or ends, and a deletion, holds the row of the conversation.
TurnsHoldLock ==
  \A r \in Requests :
    req[r].at \in {"running", "ending", "deleting", "forgotten"} => lock = r

\* The flags of an earlier pass are gone before the model is asked, wherever the workflow
\* stops after that and whatever resumes it; it is confirmed only by the decision the
\* confirmation node takes.
FlagsOfThisPass ==
  /\ thread.at = "assistant_agent" => ~thread.requested
  /\ thread.at \in {"assistant_agent", "shipment_process", "create_quote",
                    "shipment_confirmation"} => ~thread.confirmed
  /\ thread.at = "create_shipment" => thread.decision = "confirm"
  /\ ShippingWasAsked

\* Once the checkpoint is deleted nobody writes another.
StaysForgotten ==
  /\ deleted => lock = None
  /\ deleted \/ (\E r \in Requests : req[r].at = "forgotten") => thread = NewThread

Flow == TurnsHoldLock /\ FlagsOfThisPass /\ StaysForgotten

LEMMA InitFlow == Init => Flow
  BY DEF Init, Flow, TurnsHoldLock, FlagsOfThisPass, ShippingWasAsked, StaysForgotten, Idle,
         NewThread

\* The checkpoint of a pass that has just begun has come nowhere.
LEMMA RestartedFlags ==
  ASSUME NEW t \in Threads, thread' = Restarted(t)
  PROVE  FlagsOfThisPass'
  BY DEF Restarted, FlagsOfThisPass, ShippingWasAsked, Threads

LEMMA NextFlow == TypeOK /\ Flow /\ [Next]_vars => Flow'
<1> SUFFICES ASSUME TypeOK, Flow, [Next]_vars PROVE Flow'
  OBVIOUS
<1> USE AgentAssumption DEF TypeOK, Requests
\* A step that leaves the checkpoint alone.
<1>1. ASSUME UNCHANGED thread, TurnsHoldLock',
             deleted' => lock' = None,
             deleted' => deleted \/ \E r \in Requests : req[r].at = "forgotten",
             \A r \in Requests : req'[r].at = "forgotten" => req[r].at = "forgotten"
      PROVE  Flow'
  BY <1>1 DEF Flow, FlagsOfThisPass, ShippingWasAsked, StaysForgotten
\* A step of a turn that runs the workflow: nobody has deleted its conversation.
<1>2. ASSUME NEW r \in Turns, req[r].at = "running", UNCHANGED <<lock, deleted>>,
             NEW s, req' = [req EXCEPT ![r] = s], s.at \in {"running", "ending"},
             FlagsOfThisPass'
      PROVE  Flow'
  <2>1. lock = r /\ lock # None
    BY <1>2 DEF Flow, TurnsHoldLock
  <2>2. TurnsHoldLock'
    BY <1>2, <2>1 DEF Flow, TurnsHoldLock
  <2>3. ~deleted' /\ \A q \in Requests : req'[q].at # "forgotten"
    BY <1>2, <2>1 DEF Flow, TurnsHoldLock, StaysForgotten
  <2> QED
    BY <1>2, <2>2, <2>3 DEF Flow, StaysForgotten
<1>3. ASSUME NEW r \in Forms,
             LoadsDraft(r) \/ UpdateDraft(r) \/ SaveDraftAddress(r) \/ ValidateDraft(r)
             \/ IssueGrant(r)
      PROVE  Flow'
  <2>1. UNCHANGED <<thread, lock, deleted>>
    BY <1>3, Zenon DEF LoadsDraft, UpdateDraft, SaveDraftAddress, ValidateDraft, IssueGrant
  <2>2. \E s : req' = [req EXCEPT ![r] = s] /\ s.at \in {"idle", "loaded"}
    <3>1. Idle.at = "idle" /\ [Loaded(Idle) EXCEPT !.at = "loaded"].at = "loaded"
      BY DEF Idle, Loaded
    <3>2. \/ req' = [req EXCEPT ![r] = Idle]
          \/ req' = [req EXCEPT ![r] = [Loaded(Idle) EXCEPT !.at = "loaded"]]
      BY <1>3, Zenon DEF LoadsDraft, UpdateDraft, SaveDraftAddress, ValidateDraft, Writes,
                         IssueGrant
    <3> HIDE DEF TypeOK
    <3> QED
      BY <3>1, <3>2
  <2> QED
    BY <1>1, <2>1, <2>2 DEF Flow, TurnsHoldLock, StaysForgotten
<1>4. ASSUME NEW r \in Forms, DeletesRow(r) PROVE Flow'
  <2>1. /\ req' = [req EXCEPT ![r] = [Idle EXCEPT !.at = "deleting"]]
        /\ [Idle EXCEPT !.at = "deleting"].at = "deleting"
        /\ lock = None /\ lock' = r /\ ~deleted /\ UNCHANGED <<thread, deleted>>
    BY <1>4 DEF DeletesRow, Deletable, Idle
  <2> QED
    BY <1>1, <2>1 DEF Flow, TurnsHoldLock, StaysForgotten
<1>5. ASSUME NEW r \in Forms, DeletesThread(r) PROVE Flow'
  <2>1. FlagsOfThisPass'
    BY <1>5 DEF DeletesThread, NewThread, FlagsOfThisPass, ShippingWasAsked
  <2> QED
    BY <1>5, <2>1 DEF DeletesThread, Flow, TurnsHoldLock, StaysForgotten, Sessions
<1>6. ASSUME NEW r \in Forms, DeleteCommits(r) PROVE Flow'
  <2>1. Idle.at = "idle"
    BY DEF Idle
  <2> QED
    BY <1>1, <1>6, <2>1 DEF DeleteCommits, Flow, TurnsHoldLock, StaysForgotten
<1>7. ASSUME NEW r \in Turns, TurnBegins(r) PROVE Flow'
  <2>1. /\ req' = [req EXCEPT ![r] = [Idle EXCEPT !.at = "begun", !.saw = Waiting(thread)]]
        /\ [Idle EXCEPT !.at = "begun", !.saw = Waiting(thread)].at = "begun"
        /\ UNCHANGED <<thread, lock, deleted>>
    BY <1>7 DEF TurnBegins, Idle
  <2> QED
    BY <1>1, <2>1 DEF Flow, TurnsHoldLock, StaysForgotten
<1>8. ASSUME NEW r \in Turns, NEW word \in Words, TurnAppends(r, word) PROVE Flow'
  <2> DEFINE running == [Idle EXCEPT !.at = "running"]
             ending  == [Idle EXCEPT !.at = "ending"]
             drains  == [running EXCEPT !.again = ~(word # "other")]
  <2>1. running.at = "running" /\ ending.at = "ending" /\ drains.at = "running"
    BY DEF Idle
  <2>2. \/ req' = [req EXCEPT ![r] = running]
        \/ req' = [req EXCEPT ![r] = ending]
        \/ req' = [req EXCEPT ![r] = drains]
    BY <1>8, Zenon DEF TurnAppends
  <2>3. thread' \in {thread, Restarted(thread), [thread EXCEPT !.resume = word]}
    BY <1>8 DEF TurnAppends
  <2>4. lock = None /\ lock' = r /\ ~deleted /\ ~deleted'
    BY <1>8 DEF TurnAppends
  <2>5. TurnsHoldLock' /\ \A q \in Requests : req'[q].at # "forgotten"
    <3> HIDE DEF running, ending, drains
    <3> QED
      BY <2>1, <2>2, <2>4 DEF Flow, TurnsHoldLock
  <2>6. FlagsOfThisPass'
    <3>1. CASE thread' = thread \/ thread' = [thread EXCEPT !.resume = word]
      BY <3>1 DEF Flow, FlagsOfThisPass, ShippingWasAsked, Threads
    <3> QED
      BY <2>3, <3>1, RestartedFlags
  <2> QED
    BY <2>4, <2>5, <2>6 DEF Flow, StaysForgotten
<1>9. ASSUME NEW r \in Turns, req[r].at = "running", UNCHANGED <<lock, deleted, req>>,
             FlagsOfThisPass'
      PROVE  Flow'
  <2>1. req' = [req EXCEPT ![r] = req[r]]
    BY <1>9
  <2> QED
    BY <1>2, <1>9, <2>1
<1>10. ASSUME NEW r \in Turns, LoadContextNode(r) PROVE Flow'
  <2>1. PICK node \in {"handle_failure", "assistant_agent"} :
          thread' = Saved(Fresh(thread), node)
    BY <1>10, RoutesLeadToNodes, Zenon DEF LoadContextNode
  <2>2. FlagsOfThisPass'
    BY <2>1 DEF Saved, Fresh, FlagsOfThisPass, ShippingWasAsked, Threads
  <2> QED
    BY <1>9, <1>10, <2>2 DEF LoadContextNode, At
<1>11. ASSUME NEW r \in Turns, AssistantAgentNode(r) PROVE Flow'
  <2>1. FlagsOfThisPass'
    BY <1>11 DEF AssistantAgentNode, At, AssistantActionRoute, Saved, Flow, FlagsOfThisPass,
                 ShippingWasAsked, Threads
  <2> QED
    BY <1>9, <1>11, <2>1 DEF AssistantAgentNode, At
<1>12. ASSUME NEW r \in Turns, AssistantToolsNode(r) PROVE Flow'
  <2>1. PICK node \in {"handle_failure", "finalize_turn"} : thread' = Saved(thread, node)
    BY <1>12, RoutesLeadToNodes, Zenon DEF AssistantToolsNode
  <2>2. FlagsOfThisPass'
    BY <2>1 DEF Saved, FlagsOfThisPass, ShippingWasAsked, Threads
  <2> QED
    BY <1>9, <1>12, <2>2 DEF AssistantToolsNode, At
<1>13. ASSUME NEW r \in Turns, ShipmentProcessNode(r) PROVE Flow'
  <2>1. PICK error : thread' = Saved(thread, ShipmentProgressRoute(error))
    BY <1>13, Zenon DEF ShipmentProcessNode
  <2>2. ShipmentProgressRoute(error) \in {"finalize_turn", "create_quote"}
    BY RoutesLeadToNodes, Zenon
  <2>3. At(r, "shipment_process") /\ UNCHANGED <<lock, deleted>>
    BY <1>13, Zenon DEF ShipmentProcessNode
  <2>4. FlagsOfThisPass'
    BY <2>1, <2>2, <2>3 DEF At, Saved, Flow, FlagsOfThisPass, ShippingWasAsked, Threads
  <2>5. PICK s : req' = [req EXCEPT ![r] = s] /\ s.at \in {"running", "ending"}
    BY <1>13, <2>3, NodeSessions DEF At
  <2> QED
    BY <1>2, <2>3, <2>4, <2>5 DEF At
<1>14. ASSUME NEW r \in Turns, CreateQuoteNode(r) PROVE Flow'
  <2>1. PICK node \in {"handle_failure", "shipment_confirmation"} :
          thread' = Saved(thread, node)
    BY <1>14, RoutesLeadToNodes, Zenon DEF CreateQuoteNode
  <2>2. At(r, "create_quote") /\ UNCHANGED <<lock, deleted>>
    BY <1>14, Zenon DEF CreateQuoteNode
  <2>3. FlagsOfThisPass'
    BY <2>1, <2>2 DEF At, Saved, Flow, FlagsOfThisPass, ShippingWasAsked, Threads
  <2>4. PICK s : req' = [req EXCEPT ![r] = s] /\ s.at \in {"running", "ending"}
    BY <1>14, <2>2, NodeSessions DEF At
  <2> QED
    BY <1>2, <2>2, <2>3, <2>4 DEF At
<1>15. ASSUME thread' = Saved(thread, ConfirmationRoute(thread, TRUE))
              \/ thread' = [Saved(thread, ConfirmationRoute(thread, TRUE))
                             EXCEPT !.interrupted = FALSE]
       PROVE  FlagsOfThisPass'
  <2>1. ConfirmationRoute(thread, TRUE) = "handle_failure"
    BY DEF ConfirmationRoute
  <2> QED
    BY <1>15, <2>1 DEF Saved, FlagsOfThisPass, ShippingWasAsked, Threads
<1>16. ASSUME NEW r \in Turns, ShipmentConfirmationNode(r) PROVE Flow'
  <2>1. /\ At(r, "shipment_confirmation") /\ UNCHANGED <<lock, deleted>>
        /\ \/ thread' = [thread EXCEPT !.interrupted = TRUE]
           \/ thread' = Saved(thread, ConfirmationRoute(thread, TRUE))
    BY <1>16 DEF ShipmentConfirmationNode
  <2>2. FlagsOfThisPass'
    <3>1. CASE thread' = [thread EXCEPT !.interrupted = TRUE]
      BY <2>1, <3>1 DEF At, Flow, FlagsOfThisPass, ShippingWasAsked, Threads
    <3> QED
      BY <1>15, <2>1, <3>1
  <2>3. PICK s : req' = [req EXCEPT ![r] = s] /\ s.at \in {"running", "ending"}
    BY <1>16, <2>1, NodeSessions DEF At
  <2> QED
    BY <1>2, <2>1, <2>2, <2>3 DEF At
<1>17. ASSUME NEW r \in Turns, ResumeConfirmation(r) PROVE Flow'
  <2>1. /\ At(r, "shipment_confirmation") /\ UNCHANGED <<lock, deleted>>
        /\ \/ thread' = [thread EXCEPT !.decision = thread.resume]
           \/ thread' = [Saved(thread, ConfirmationRoute(thread, TRUE))
                           EXCEPT !.interrupted = FALSE]
    BY <1>17 DEF ResumeConfirmation
  <2>2. FlagsOfThisPass'
    <3>1. CASE thread' = [thread EXCEPT !.decision = thread.resume]
      BY <2>1, <3>1 DEF At, Flow, FlagsOfThisPass, ShippingWasAsked, Threads
    <3> QED
      BY <1>15, <2>1, <3>1
  <2>3. PICK s : req' = [req EXCEPT ![r] = s] /\ s.at \in {"running", "ending"}
    BY <1>17, <2>1, NodeSessions DEF At
  <2> QED
    BY <1>2, <2>1, <2>2, <2>3 DEF At
<1>18. ASSUME NEW r \in Turns, ConfirmationEnds(r) PROVE Flow'
  <2> DEFINE yes == thread.decision = "confirm"
             t   == [thread EXCEPT !.interrupted = FALSE, !.requested = @ \/ yes,
                                   !.confirmed = @ \/ yes]
  <2>1. At(r, "shipment_confirmation") /\ UNCHANGED <<lock, deleted, req>>
    BY <1>18, Zenon DEF ConfirmationEnds
  <2>2. ConfirmationRoute(t, FALSE) \in {"finalize_turn", IF yes THEN "create_shipment"
                                                        ELSE "finalize_turn"}
    BY <2>1 DEF ConfirmationRoute, At, Flow, FlagsOfThisPass, Threads
  <2>3. thread' = Saved(t, ConfirmationRoute(t, FALSE))
    BY <1>18 DEF ConfirmationEnds
  <2>4. FlagsOfThisPass'
    BY <2>1, <2>2, <2>3 DEF At, Saved, Flow, FlagsOfThisPass, ShippingWasAsked, Threads
  <2> QED
    BY <1>9, <2>1, <2>4 DEF At
<1>19. ASSUME NEW node \in {"handle_failure", "finalize_turn"},
              thread' = Saved(thread, node)
       PROVE  FlagsOfThisPass'
  BY <1>19 DEF Saved, FlagsOfThisPass, ShippingWasAsked, Threads
<1>20. ASSUME NEW r \in Turns, IssuesGrant(r) PROVE Flow'
  <2>1. /\ At(r, "create_shipment") /\ UNCHANGED <<lock, deleted>>
        /\ thread' = Saved(thread, CreationRoute(TRUE)) \/ UNCHANGED thread
    BY <1>20, Zenon DEF IssuesGrant
  <2>2. FlagsOfThisPass'
    <3>1. CASE UNCHANGED thread
      BY <3>1 DEF Flow, FlagsOfThisPass, ShippingWasAsked
    <3> QED
      BY <1>19, <2>1, <3>1, RoutesLeadToNodes
  <2>3. PICK s : req' = [req EXCEPT ![r] = s] /\ s.at \in {"running", "ending"}
    BY <1>20, <2>1, NodeSessions DEF At
  <2> QED
    BY <1>2, <2>1, <2>2, <2>3 DEF At
<1>21. ASSUME NEW r \in Turns, CreateShipmentNode(r) PROVE Flow'
  <2>1. PICK node \in {"handle_failure", "finalize_turn"} : thread' = Saved(thread, node)
    <3>1. \E error : thread' = Saved(thread, CreationRoute(error))
      BY <1>21, Zenon DEF CreateShipmentNode
    <3> QED
      BY <3>1, RoutesLeadToNodes
  <2>2. At(r, "create_shipment") /\ UNCHANGED <<lock, deleted>>
    BY <1>21, Zenon DEF CreateShipmentNode
  <2>3. FlagsOfThisPass'
    BY <1>19, <2>1
  <2>4. PICK s : req' = [req EXCEPT ![r] = s] /\ s.at \in {"running", "ending"}
    BY <1>21, <2>2, NodeSessions DEF At
  <2> QED
    BY <1>2, <2>2, <2>3, <2>4 DEF At
<1>22. ASSUME NEW r \in Turns, AnswerNode(r) PROVE Flow'
  <2>1. /\ req[r].at = "running" /\ UNCHANGED <<lock, deleted>>
        /\ req' = [req EXCEPT ![r] = Ended(req[r])] /\ thread' = Saved(thread, "end")
    BY <1>22 DEF AnswerNode, At
  <2>2. Ended(req[r]).at \in {"running", "ending"}
    BY DEF Ended, Sessions
  <2>3. FlagsOfThisPass'
    BY <2>1 DEF Saved, FlagsOfThisPass, ShippingWasAsked, Threads
  <2> QED
    BY <1>2, <2>1, <2>2, <2>3
<1>23. ASSUME NEW r \in Turns, StartsAgain(r) PROVE Flow'
  <2>1. /\ req[r].at = "running" /\ UNCHANGED <<lock, deleted>>
        /\ req' = [req EXCEPT ![r] = [req[r] EXCEPT !.again = FALSE]]
        /\ thread' = Restarted(thread)
    BY <1>23 DEF StartsAgain
  <2>2. [req[r] EXCEPT !.again = FALSE].at = req[r].at
    BY DEF Sessions
  <2> QED
    BY <1>2, <2>1, <2>2, RestartedFlags
<1>24. ASSUME NEW r \in Turns, TurnBreaks(r) PROVE Flow'
  <2>1. /\ req[r].at = "running" /\ UNCHANGED <<thread, lock, deleted>>
        /\ req' = [req EXCEPT ![r] = [req[r] EXCEPT !.at = "ending"]]
    BY <1>24 DEF TurnBreaks
  <2>2. [req[r] EXCEPT !.at = "ending"].at = "ending"
    BY DEF Sessions
  <2>3. FlagsOfThisPass'
    BY <2>1 DEF Flow, FlagsOfThisPass, ShippingWasAsked
  <2> QED
    BY <1>2, <2>1, <2>2, <2>3
<1>25. ASSUME NEW r \in Requests, Dies(r) \/ TurnCommits(r) PROVE Flow'
  <2>1. /\ req' = [req EXCEPT ![r] = Idle] /\ lock' = Unlocked(r, lock)
        /\ UNCHANGED <<thread, deleted>>
    BY <1>25, Zenon DEF Dies, TurnCommits
  <2>2. Idle.at = "idle"
    BY DEF Idle
  <2> QED
    BY <1>1, <2>1, <2>2 DEF Unlocked, Flow, TurnsHoldLock, StaysForgotten
<1>26. ASSUME NEW g \in Grants, ConsumeGrant(g) \/ Expires(g) PROVE Flow'
  <2>1. UNCHANGED <<thread, lock, deleted, req>>
    BY <1>26, Zenon DEF ConsumeGrant, Expires
  <2> QED
    BY <2>1 DEF Flow, TurnsHoldLock, FlagsOfThisPass, ShippingWasAsked, StaysForgotten
<1>27. CASE UNCHANGED vars
  BY <1>27 DEF vars, Flow, TurnsHoldLock, FlagsOfThisPass, ShippingWasAsked, StaysForgotten
<1> QED
  BY ONLY <1>3, <1>4, <1>5, <1>6, <1>7, <1>8, <1>10, <1>11, <1>12, <1>13, <1>14, <1>16,
          <1>17, <1>18, <1>20, <1>21, <1>22, <1>23, <1>24, <1>25, <1>26, <1>27, [Next]_vars
     DEF Next, Requests

-----------------------------------------------------------------------------
(* The money: what is created fits its quote, and quotes never change.     *)

Fits(q, payload) ==
  /\ payload.parcel # None /\ payload.route # None /\ payload.quote_id # 0
  /\ q[payload.quote_id].parcel = payload.parcel

\* Only complete drafts are granted.
IssuedComplete ==
  \A g \in Grants : grants[g].state = "issued" => Complete(grants[g].payload)

\* Neither does a session grant others, and what it has created fits its quote.
MadeFits ==
  \A r \in Requests :
    /\ req[r].issued.state = "issued" => Complete(req[r].issued.payload)
    /\ req[r].made =>
         req[r].issued.state = "consumed" /\ Fits(quotes, req[r].issued.payload)

\* So does what is committed.
ShippedFits ==
  \A g \in Grants : shipments[g].made =>
    /\ shipments[g].parcel # None /\ shipments[g].quote_id # 0
    /\ quotes[shipments[g].quote_id].parcel = shipments[g].parcel

Money == IssuedComplete /\ MadeFits /\ ShippedFits

LEMMA InitMoney == Init => Money
  BY DEF Init, Money, IssuedComplete, MadeFits, ShippedFits, NoGrant, NoShipment, Idle

\* No step changes a quote.
LEMMA QuotesKept ==
  ASSUME TypeOK, [Next]_vars
  PROVE  \A n \in 1 .. MaxRevision : quotes[n] # Blank => quotes'[n] = quotes[n]
<1>1. ASSUME NEW r \in Forms, UpdateDraft(r) \/ SaveDraftAddress(r)
      PROVE  \A n \in 1 .. MaxRevision : quotes[n] # Blank => quotes'[n] = quotes[n]
  <2>1. PICK patch \in Contents :
          Writes(r, Updated(req[r].work, patch)) /\ req[r].work.revision < MaxRevision
    BY <1>1 DEF UpdateDraft, SaveDraftAddress, AddressPatches, Patches
  <2>2. Flushed(req[r], Updated(req[r].work, patch)) \in Sessions
    BY <2>1, UpdatedIsRow, FlushedIsSession DEF TypeOK, Requests, Sessions
  <2> QED
    BY <2>1, <2>2, QuotesWithKeeps DEF Writes, TypeOK
<1>2. ASSUME NEW r \in Forms, ValidateDraft(r)
      PROVE  \A n \in 1 .. MaxRevision : quotes[n] # Blank => quotes'[n] = quotes[n]
  <2>1. Flushed(req[r], Quoted(req[r].work)) \in Sessions
    BY QuotedIsRow, FlushedIsSession DEF TypeOK, Requests, Sessions
  <2> QED
    BY <1>2, <2>1, QuotesWithKeeps DEF ValidateDraft, Writes, TypeOK
<1>3. ASSUME NEW r \in Turns, TurnCommits(r)
      PROVE  \A n \in 1 .. MaxRevision : quotes[n] # Blank => quotes'[n] = quotes[n]
  BY <1>3, QuotesWithKeeps DEF TurnCommits, TypeOK, Requests
<1>4. CASE UNCHANGED quotes
  BY <1>4
<1>5. ASSUME NEW r \in Forms, LoadsDraft(r)
                              \/ IssueGrant(r) \/ DeletesRow(r) \/ DeletesThread(r)
                              \/ DeleteCommits(r)
      PROVE  UNCHANGED quotes
  BY <1>5, Zenon DEF LoadsDraft, IssueGrant,
              DeletesRow, DeletesThread, DeleteCommits
<1>6. ASSUME NEW r \in Turns,
             \/ TurnBegins(r) \/ \E word \in Words : TurnAppends(r, word)
             \/ LoadContextNode(r) \/ AssistantAgentNode(r)
             \/ AssistantToolsNode(r) \/ ShipmentProcessNode(r) \/ CreateQuoteNode(r)
             \/ ShipmentConfirmationNode(r) \/ ResumeConfirmation(r) \/ ConfirmationEnds(r)
             \/ IssuesGrant(r) \/ CreateShipmentNode(r)
             \/ AnswerNode(r) \/ StartsAgain(r) \/ TurnBreaks(r)
      PROVE  UNCHANGED quotes
  BY <1>6, Zenon DEF TurnBegins, TurnAppends, LoadContextNode, AssistantAgentNode,
              AssistantToolsNode, ShipmentProcessNode, CreateQuoteNode,
              ShipmentConfirmationNode, ResumeConfirmation, ConfirmationEnds, IssuesGrant,
              CreateShipmentNode, AnswerNode, StartsAgain, TurnBreaks
<1>7. ASSUME NEW r \in Requests, Dies(r) PROVE UNCHANGED quotes
  BY <1>7, Zenon DEF Dies
<1>8. ASSUME NEW g \in Grants, ConsumeGrant(g) \/ Expires(g) PROVE UNCHANGED quotes
  BY <1>8, Zenon DEF ConsumeGrant, Expires
<1>9. CASE UNCHANGED vars
  BY <1>4, <1>9 DEF vars
<1> QED
  BY ONLY <1>1, <1>2, <1>3, <1>4, <1>5, <1>6, <1>7, <1>8, <1>9, [Next]_vars DEF Next

\* What fits its quote goes on to fit it.
LEMMA FitStays ==
  ASSUME TypeOK, [Next]_vars, NEW payload \in Payloads, Fits(quotes, payload)
  PROVE  Fits(quotes', payload)
<1>1. payload.quote_id \in 1 .. MaxRevision /\ quotes[payload.quote_id] # Blank
  BY AgentAssumption DEF Fits, Payloads, Revision, Blank
<1> QED
  BY <1>1, QuotesKept DEF Fits

\* A grant becomes issued for a complete draft only.
LEMMA NextIssued == TypeOK /\ IssuedComplete /\ MadeFits /\ [Next]_vars => IssuedComplete'
<1> SUFFICES ASSUME TypeOK, IssuedComplete, MadeFits, [Next]_vars PROVE IssuedComplete'
  OBVIOUS
<1> USE DEF IssuedComplete
<1>1. ASSUME NEW r \in Forms, IssueGrant(r) PROVE IssuedComplete'
  BY <1>1 DEF IssueGrant, Granted, Ready, TypeOK
<1>2. ASSUME NEW r \in Forms, DeleteCommits(r) PROVE IssuedComplete'
  BY <1>2 DEF DeleteCommits, NoGrant
<1>3. ASSUME NEW r \in Turns, TurnCommits(r) PROVE IssuedComplete'
  BY <1>3 DEF TurnCommits, MadeFits, Requests
<1>4. ASSUME NEW g \in Grants, ConsumeGrant(g) PROVE IssuedComplete'
  BY <1>4 DEF ConsumeGrant, TypeOK
<1>5. ASSUME NEW g \in Grants, Expires(g) PROVE IssuedComplete'
  BY <1>5 DEF Expires, NoGrant, TypeOK
<1>6. CASE UNCHANGED grants
  BY <1>6
<1>7. ASSUME NEW r \in Forms, LoadsDraft(r)
                              \/ UpdateDraft(r) \/ SaveDraftAddress(r) \/ ValidateDraft(r)
                              \/ DeletesRow(r) \/ DeletesThread(r)
      PROVE  UNCHANGED grants
  BY <1>7, Zenon DEF LoadsDraft, UpdateDraft,
              SaveDraftAddress, ValidateDraft, DeletesRow, DeletesThread
<1>8. ASSUME NEW r \in Turns,
             \/ TurnBegins(r) \/ \E word \in Words : TurnAppends(r, word)
             \/ LoadContextNode(r) \/ AssistantAgentNode(r)
             \/ AssistantToolsNode(r) \/ ShipmentProcessNode(r) \/ CreateQuoteNode(r)
             \/ ShipmentConfirmationNode(r) \/ ResumeConfirmation(r) \/ ConfirmationEnds(r)
             \/ IssuesGrant(r) \/ CreateShipmentNode(r)
             \/ AnswerNode(r) \/ StartsAgain(r) \/ TurnBreaks(r)
      PROVE  UNCHANGED grants
  BY <1>8, Zenon DEF TurnBegins, TurnAppends, LoadContextNode, AssistantAgentNode,
              AssistantToolsNode, ShipmentProcessNode, CreateQuoteNode,
              ShipmentConfirmationNode, ResumeConfirmation, ConfirmationEnds, IssuesGrant,
              CreateShipmentNode, AnswerNode, StartsAgain, TurnBreaks
<1>9. ASSUME NEW r \in Requests, Dies(r) PROVE UNCHANGED grants
  BY <1>9, Zenon DEF Dies
<1>10. CASE UNCHANGED vars
  BY <1>6, <1>10 DEF vars
<1> QED
  BY ONLY <1>1, <1>2, <1>3, <1>4, <1>5, <1>6, <1>7, <1>8, <1>9, <1>10, [Next]_vars DEF Next

\* A session grants for a complete draft only, and keeps what it has granted.
LEMMA NextMade == TypeOK /\ Flow /\ MadeFits /\ [Next]_vars => MadeFits'
<1> SUFFICES ASSUME TypeOK, Flow, MadeFits, [Next]_vars, NEW r \in Requests
             PROVE  /\ req'[r].issued.state = "issued" => Complete(req'[r].issued.payload)
                    /\ req'[r].made => /\ req'[r].issued.state = "consumed"
                                      /\ Fits(quotes', req'[r].issued.payload)
  BY DEF MadeFits
<1>1. req[r].issued.payload \in Payloads
  BY DEF TypeOK, Sessions, GrantRows
<1>2. CASE req'[r].made = req[r].made /\ req'[r].issued = req[r].issued
  BY <1>1, <1>2, FitStays DEF MadeFits
<1>3. CASE ~req'[r].made /\ req'[r].issued = NoGrant
  BY <1>3 DEF NoGrant
<1>4. CASE r \in Turns /\ IssuesGrant(r)
  <2>1. PICK s : /\ req' = [req EXCEPT ![r] = s] /\ s.made = req[r].made
                 /\ \/ s.issued = req[r].issued
                    \/ s.issued.state = "issued" /\ Complete(s.issued.payload)
    BY <1>4, NodeSessions, Zenon
  <2>2. ~req[r].made
    BY <1>4 DEF IssuesGrant, MadeFits
  <2>3. req'[r] = s
    BY <2>1 DEF TypeOK
  <2> QED
    BY <2>1, <2>2, <2>3 DEF MadeFits
<1>5. CASE r \in Turns /\ CreateShipmentNode(r)
  <2>1. PICK s : /\ req' = [req EXCEPT ![r] = s]
                 /\ \/ s.made = req[r].made /\ s.issued = req[r].issued
                    \/ /\ s.issued.state = "consumed"
                       /\ s.issued.payload = req[r].issued.payload
                       /\ s.made => QuoteFits(s.issued.payload)
    BY <1>5, NodeSessions, Zenon
  <2>2. req'[r] = s
    BY <2>1 DEF TypeOK
  <2>3. CASE s.made = req[r].made /\ s.issued = req[r].issued
    BY <1>2, <2>2, <2>3
  <2>4. CASE /\ s.issued.state = "consumed"
             /\ s.issued.payload = req[r].issued.payload
             /\ s.made => QuoteFits(s.issued.payload)
    <3>1. Complete(req[r].issued.payload)
      BY <1>5 DEF CreateShipmentNode, MadeFits
    <3>2. s.made => Fits(quotes, req[r].issued.payload)
      BY <2>4, <3>1 DEF QuoteFits, Complete, Fits
    <3>3. s.made => Fits(quotes', req[r].issued.payload)
      BY <1>1, <3>2, FitStays
    <3> QED
      BY <2>2, <2>4, <3>3
  <2> QED
    BY <2>1, <2>3, <2>4
<1> QED
  BY <1>2, <1>3, <1>4, <1>5, SessionOrigin

\* A shipment is one that was, or is created now for a payload that fits its quote.
LEMMA ShipmentOrigin ==
  ASSUME TypeOK, IssuedComplete, MadeFits, [Next]_vars, NEW g \in Grants
  PROVE  \/ shipments'[g] = shipments[g]
         \/ \E payload \in Payloads :
              Fits(quotes, payload) /\ shipments'[g] = Created(payload)
<1> DEFINE Goal == \/ shipments'[g] = shipments[g]
                   \/ \E payload \in Payloads :
                        Fits(quotes, payload) /\ shipments'[g] = Created(payload)
<1> HIDE DEF Goal
<1> SUFFICES Goal
  BY DEF Goal
<1>1. ASSUME NEW r \in Turns, TurnCommits(r) PROVE Goal
  <2>1. req[r].issued.payload \in Payloads
    BY DEF TypeOK, Requests, Sessions, GrantRows
  <2>2. \/ shipments'[g] = shipments[g]
        \/ req[r].made /\ shipments'[g] = Created(req[r].issued.payload)
    <3>1. shipments' = [h \in Grants |-> IF h = req[r].grant /\ req[r].made
                                         THEN Created(req[r].issued.payload) ELSE shipments[h]]
      BY <1>1, Zenon DEF TurnCommits
    <3> QED
      BY <3>1
  <2> QED
    BY <2>1, <2>2, Zenon DEF MadeFits, Requests, Goal
<1>2. ASSUME NEW h \in Grants, ConsumeGrant(h) PROVE Goal
  <2>1. grants[h].payload \in Payloads /\ grants[h].state = "issued"
    BY <1>2 DEF ConsumeGrant, Consumable, TypeOK, GrantRows
  <2>2. Fits(quotes, grants[h].payload)
    BY <1>2, <2>1 DEF ConsumeGrant, Creatable, QuoteFits, IssuedComplete, Complete, Fits
  <2>3. shipments' = [shipments EXCEPT ![h] = Created(grants[h].payload)]
    BY <1>2, Zenon DEF ConsumeGrant
  <2>4. CASE g = h
    <3>1. shipments'[g] = Created(grants[h].payload)
      BY <2>3, <2>4 DEF TypeOK
    <3> QED
      BY <2>1, <2>2, <3>1, Zenon DEF Goal
  <2>5. CASE g # h
    <3>1. shipments'[g] = shipments[g]
      BY <2>3, <2>5 DEF TypeOK
    <3> QED
      BY <3>1 DEF Goal
  <2> QED
    BY <2>4, <2>5
<1>3. CASE UNCHANGED shipments
  BY <1>3, Zenon DEF Goal
<1>4. ASSUME NEW r \in Forms,
             \/ LoadsDraft(r)
             \/ UpdateDraft(r) \/ SaveDraftAddress(r) \/ ValidateDraft(r) \/ IssueGrant(r)
             \/ DeletesRow(r) \/ DeletesThread(r) \/ DeleteCommits(r)
      PROVE  UNCHANGED shipments
  BY <1>4, Zenon DEF LoadsDraft, UpdateDraft,
              SaveDraftAddress, ValidateDraft, IssueGrant, DeletesRow, DeletesThread,
              DeleteCommits
<1>5. ASSUME NEW r \in Turns,
             \/ TurnBegins(r) \/ \E word \in Words : TurnAppends(r, word)
             \/ LoadContextNode(r) \/ AssistantAgentNode(r)
             \/ AssistantToolsNode(r) \/ ShipmentProcessNode(r) \/ CreateQuoteNode(r)
             \/ ShipmentConfirmationNode(r) \/ ResumeConfirmation(r) \/ ConfirmationEnds(r)
             \/ IssuesGrant(r) \/ CreateShipmentNode(r)
             \/ AnswerNode(r) \/ StartsAgain(r) \/ TurnBreaks(r)
      PROVE  UNCHANGED shipments
  BY <1>5, Zenon DEF TurnBegins, TurnAppends, LoadContextNode, AssistantAgentNode,
              AssistantToolsNode, ShipmentProcessNode, CreateQuoteNode,
              ShipmentConfirmationNode, ResumeConfirmation, ConfirmationEnds, IssuesGrant,
              CreateShipmentNode, AnswerNode, StartsAgain, TurnBreaks
<1>6. ASSUME NEW r \in Requests, Dies(r) PROVE UNCHANGED shipments
  BY <1>6, Zenon DEF Dies
<1>7. ASSUME NEW h \in Grants, Expires(h) PROVE UNCHANGED shipments
  BY <1>7, Zenon DEF Expires
<1>8. CASE UNCHANGED vars
  BY <1>3, <1>8 DEF vars
<1> QED
  BY ONLY <1>1, <1>2, <1>3, <1>4, <1>5, <1>6, <1>7, <1>8, [Next]_vars DEF Next

LEMMA NextMoney == TypeOK /\ Flow /\ Money /\ [Next]_vars => Money'
<1> SUFFICES ASSUME TypeOK, Flow, Money, [Next]_vars PROVE Money'
  OBVIOUS
<1>1. IssuedComplete'
  BY NextIssued DEF Money
<1>2. MadeFits'
  BY NextMade DEF Money
<1>3. ShippedFits'
  <2> SUFFICES ASSUME NEW g \in Grants, shipments'[g].made
               PROVE  /\ shipments'[g].parcel # None /\ shipments'[g].quote_id # 0
                      /\ quotes'[shipments'[g].quote_id].parcel = shipments'[g].parcel
    BY DEF ShippedFits
  <2>1. CASE shipments'[g] = shipments[g]
    <3>1. shipments[g].parcel # None /\ quotes[shipments[g].quote_id].parcel = shipments[g].parcel
      BY <2>1 DEF Money, ShippedFits
    <3>2. shipments[g].quote_id \in 1 .. MaxRevision
      BY <2>1, AgentAssumption DEF Money, ShippedFits, TypeOK, Revision
    <3>3. quotes'[shipments[g].quote_id] = quotes[shipments[g].quote_id]
      BY <3>1, <3>2, QuotesKept DEF Blank
    <3> QED
      BY <2>1, <3>1, <3>3 DEF Money, ShippedFits
  <2>2. ASSUME NEW payload \in Payloads, Fits(quotes, payload), shipments'[g] = Created(payload)
        PROVE  /\ shipments'[g].parcel # None /\ shipments'[g].quote_id # 0
               /\ quotes'[shipments'[g].quote_id].parcel = shipments'[g].parcel
    <3>1. Fits(quotes', payload)
      BY <2>2, FitStays
    <3> QED
      BY <2>2, <3>1 DEF Fits, Created
  <2>3. \/ shipments'[g] = shipments[g]
        \/ \E payload \in Payloads :
             Fits(quotes, payload) /\ shipments'[g] = Created(payload)
    BY ShipmentOrigin DEF Money
  <2> QED
    BY <2>1, <2>2, <2>3
<1> QED
  BY <1>1, <1>2, <1>3 DEF Money

-----------------------------------------------------------------------------
(* The theorems                                                            *)

LEMMA Inductive == Spec => [](TypeOK /\ Flow /\ Money)
<1> USE InitTypeOK, NextTypeOK, InitFlow, NextFlow, InitMoney, NextMoney
<1>1. Init => TypeOK /\ Flow /\ Money
  OBVIOUS
<1>2. TypeOK /\ Flow /\ Money /\ [Next]_vars => (TypeOK /\ Flow /\ Money)'
  OBVIOUS
<1> QED
  BY <1>1, <1>2, PTL DEF Spec

\* Every row, session and checkpoint keeps its form, however long the conversation.
THEOREM TypeCorrect == Spec => []TypeOK
  BY Inductive, PTL

\* A shipment created through either way, the workflow or a grant of the form, is billed by
\* a quote made for its weight and sizes.
THEOREM BilledAsQuoted == Spec => []QuotedParcel
<1>1. TypeOK /\ Flow /\ Money => QuotedParcel
  BY DEF Money, ShippedFits, QuotedParcel
<1> QED
  BY <1>1, Inductive, PTL

\* The workflow creates a shipment only in a pass whose decision is to confirm, whichever turn
\* resumed it, and wherever the one before had stopped.
THEOREM OnlyConfirmedCreates == Spec => CreatedOnConfirm
<1>1. TypeOK /\ Flow /\ [Next]_vars =>
        \A r \in Turns : req'[r].made /\ ~req[r].made => thread.decision = "confirm"
  <2> SUFFICES ASSUME TypeOK, Flow, [Next]_vars, NEW r \in Turns, req'[r].made, ~req[r].made
               PROVE  thread.decision = "confirm"
    OBVIOUS
  <2>1. IssuesGrant(r) \/ CreateShipmentNode(r)
    BY SessionOrigin DEF Requests
  <2>2. ~IssuesGrant(r)
    <3> SUFFICES ASSUME IssuesGrant(r) PROVE FALSE
      OBVIOUS
    <3>1. PICK s : /\ req' = [req EXCEPT ![r] = s] /\ s.made = req[r].made
                   /\ \/ s.issued = req[r].issued
                      \/ s.issued.state = "issued" /\ Complete(s.issued.payload)
      BY NodeSessions, ZenonT(30)
    <3>2. req'[r] = s
      BY <3>1 DEF TypeOK, Requests
    <3> QED
      BY <3>1, <3>2, Zenon
  <2> QED
    BY <2>1, <2>2 DEF CreateShipmentNode, At, Flow, FlagsOfThisPass
<1>2. TypeOK /\ Flow /\ [Next]_vars =>
        [\A r \in Turns : req'[r].made /\ ~req[r].made => thread.decision = "confirm"]_vars
  BY <1>1
<1> QED
  BY <1>2, Inductive, PTL DEF Spec, CreatedOnConfirm

\* Wherever turns stop and whatever resumes them, the workflow is in the shipping nodes only
\* in a pass in which the model asked for them.
THEOREM OldFlagsNeverShip == Spec => []ShippingWasAsked
<1>1. TypeOK /\ Flow /\ Money => ShippingWasAsked
  BY DEF Flow, FlagsOfThisPass
<1> QED
  BY <1>1, Inductive, PTL

\* After a conversation is deleted no turn leaves a checkpoint for it.
THEOREM DeletedStaysForgotten == Spec => []DeletedLeavesNoThread
<1>1. TypeOK /\ Flow /\ Money => DeletedLeavesNoThread
  BY DEF Flow, StaysForgotten, DeletedLeavesNoThread
<1> QED
  BY <1>1, Inductive, PTL
=============================================================================
