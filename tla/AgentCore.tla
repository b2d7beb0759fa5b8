----------------------------- MODULE AgentCore ------------------------------
(***************************************************************************)
(* The rows of one agent conversation: its shipment draft, the quotes and  *)
(* grants made for it, the shipments created with them, the checkpoint of  *)
(* its workflow, and the requests that are being served.                   *)
(*                                                                         *)
(* A request works on a session of its own, on the draft as it was loaded  *)
(* (work), and writes, when it is flushed, only the columns whose value    *)
(* has changed (dirty); other requests see them at its commit.  The first  *)
(* flush takes the row's lock (held) until then.  The session refers to a  *)
(* row it has flushed weakly: as long as somebody still has the object it  *)
(* is not read again, and then it is.                                      *)
(*                                                                         *)
(* A payload is the parcel (category, weights and sizes), the route (the   *)
(* two addresses and their districts) and the id of a quote.  A quote is   *)
(* named by the revision that made it, its idempotency key.                *)
(***************************************************************************)
EXTENDS Integers, FiniteSets

CONSTANTS
  Parcels,      \* parcels a draft may describe
  Routes,       \* pairs of addresses with their districts
  Grants,       \* ids of confirmation grants
  Turns,        \* requests with a message that may overlap
  Forms,        \* requests of the form that may overlap
  MaxRevision,  \* bound: edits of the draft
  MaxActive,    \* bound: requests served at once
  None          \* a field that is missing, a lock nobody holds

Requests == Turns \cup Forms

ASSUME AgentAssumption ==
  /\ MaxRevision \in Nat
  /\ None \notin Parcels \cup Routes \cup Grants \cup Requests

VARIABLES
  draft,      \* the row of agent_shipment_drafts
  quotes,     \* quote_snapshots: what the quote of each revision priced
  grants,     \* agent_action_grants
  shipments,  \* what was created with each grant
  thread,     \* the checkpoint of the conversation's workflow
  lock,       \* the request that holds the row of the conversation
  held,       \* the request that holds the row of the draft
  deleted,    \* the conversation is gone
  req         \* the requests and their sessions

vars == <<draft, quotes, grants, shipments, thread, lock, held, deleted, req>>

Revision == 0 .. MaxRevision
Contents == [parcel: Parcels \cup {None}, route: Routes \cup {None}]
Payloads == [parcel: Parcels \cup {None}, route: Routes \cup {None}, quote_id: Revision]
Status   == {"INCOMPLETE", "READY_FOR_QUOTE", "READY_FOR_CONFIRMATION", "SHIPMENT_CREATED"}
Rows     == [payload: Payloads, revision: Revision, status: Status, quote_id: Revision]
Columns  == {"payload", "revision", "status", "quote_id"}

Blank    == [parcel |-> None, route |-> None]
NewDraft == [payload |-> [parcel |-> None, route |-> None, quote_id |-> 0],
             revision |-> 0, status |-> "INCOMPLETE", quote_id |-> 0]

Nodes == {"load_context", "assistant_agent", "assistant_tools", "shipment_process",
          "create_quote", "shipment_confirmation", "create_shipment", "finalize_turn",
          "handle_failure", "end"}
Words == {"confirm", "cancel", "other"}
Stage == {"idle", "loaded", "begun", "running", "ending", "deleting", "forgotten"}

NoGrant == [state |-> "none", payload |-> NewDraft.payload, revision |-> 0, quote_id |-> 0]

\* A session that has read nothing yet.
\* priced: the quotes it has made; grant, issued: the grant it has made.
Idle == [at |-> "idle", work |-> NewDraft, loaded |-> FALSE, dirty |-> {},
         priced |-> [n \in 1 .. MaxRevision |-> Blank], saw |-> FALSE, again |-> FALSE,
         grant |-> None, issued |-> NoGrant, made |-> FALSE]

\* A workflow that has not begun; it has none of these left when it has come to its end.
\* interrupted: waits for a decision; resume: a decision that was sent and no node has seen;
\* decision: the one this pass has taken; requested: shipment_requested; confirmed:
\* shipment_candidate_fields has _confirmed.
\* asked is a history variable: the model asked for shipping in this pass.
NewThread == [at |-> "end", interrupted |-> FALSE, resume |-> None, decision |-> None,
              requested |-> FALSE, confirmed |-> FALSE, asked |-> FALSE]

-----------------------------------------------------------------------------
(* The draft (drafts.py) *)

Content(payload) == [parcel |-> payload.parcel, route |-> payload.route]
\* missing_fields() returns none.
Complete(content) == content.parcel # None /\ content.route # None

Pick(new, old) == IF new = None THEN old ELSE new

\* update(): merged into the payload, whose old quote_id stays in it.
Updated(row, patch) ==
  LET payload == [row.payload EXCEPT !.parcel = Pick(patch.parcel, @),
                                     !.route  = Pick(patch.route, @)]
  IN [payload  |-> payload,
      revision |-> row.revision + 1,
      status   |-> IF Complete(payload) THEN "READY_FOR_QUOTE" ELSE "INCOMPLETE",
      quote_id |-> 0]

\* The idempotent quote of this revision: made now, or replayed for the same request.
Quotable(row) ==
  /\ Complete(row.payload)
  /\ quotes[row.revision] \in {Blank, Content(row.payload)}

\* validate_and_quote(): the revision stays, whatever the status was.
Quoted(row) ==
  [row EXCEPT !.payload.quote_id = row.revision, !.quote_id = row.revision,
              !.status = "READY_FOR_CONFIRMATION"]

-----------------------------------------------------------------------------
(* Sessions *)

Changed(old, new) == {c \in Columns : old[c] # new[c]}

\* The row after the columns this session changed are written.
Written(s) ==
  LET row(c) == IF c \in s.dirty THEN s.work ELSE draft
  IN [payload  |-> row("payload").payload,
      revision |-> row("revision").revision,
      status   |-> row("status").status,
      quote_id |-> row("quote_id").quote_id]

\* get_or_create(): the object the session still has, or the row, with what was flushed.
Loaded(s) == IF s.loaded THEN s ELSE [s EXCEPT !.work = draft, !.loaded = TRUE]
Reread(s) == [s EXCEPT !.work = Written(s), !.loaded = TRUE]
Reads(s)  == {Loaded(s), Reread(s)}

\* With the quote of the row, if it has a new one.
Flushed(s, row) ==
  [s EXCEPT !.work   = row,
            !.dirty  = @ \cup Changed(s.work, row),
            !.priced = [n \in 1 .. MaxRevision |->
                          IF n = row.quote_id /\ n # s.work.quote_id THEN Content(row.payload)
                          ELSE s.priced[n]]]

CanFlush(r) == held \in {None, r}

\* What a committed session leaves in quote_snapshots.
QuotesWith(s) ==
  [n \in 1 .. MaxRevision |-> IF quotes[n] = Blank THEN s.priced[n] ELSE quotes[n]]
=============================================================================
