---------------------------- MODULE AgentGrants -----------------------------
(***************************************************************************)
(* Confirmation grants and the shipments created with them (grants.py,     *)
(* shipment_write_service.py, ShipmentApplicationService.create()), and    *)
(* the requests of the draft's form: edit, validate, issue, consume.       *)
(***************************************************************************)
EXTENDS AgentCore

NoShipment == [made |-> FALSE, parcel |-> None, route |-> None, quote_id |-> 0]

\* Deleting the conversation locks its row, its draft and its grants.
Deleting == \E r \in Requests : req[r].at \in {"deleting", "forgotten"}

\* What issue() asks of the draft; validate() finds its fields complete.
Ready(row) ==
  /\ row.status = "READY_FOR_CONFIRMATION" /\ row.quote_id # 0
  /\ Complete(row.payload)

Granted(row) ==
  [state |-> "issued", payload |-> row.payload, revision |-> row.revision,
   quote_id |-> row.quote_id]

\* consume(): the grant is unused and in time, the draft is the one it was issued for.
Consumable(grant, row) ==
  /\ grant.state = "issued"
  /\ row.revision = grant.revision /\ row.quote_id = grant.quote_id
  /\ row.status = "READY_FOR_CONFIRMATION"

\* Mutant: the quote is not compared with the parcel.
QuoteGiven(payload) == payload.quote_id # 0
\* The quote named in the payload exists and has the weight and sizes of the parcel.
QuoteFits(payload) ==
  /\ payload.quote_id # 0
  /\ quotes[payload.quote_id].parcel = payload.parcel

\* create(), if at this moment an enabled station serves each district.
Creatable(payload, served) == QuoteFits(payload) /\ served

Created(payload) ==
  [made |-> TRUE, parcel |-> payload.parcel, route |-> payload.route,
   quote_id |-> payload.quote_id]

-----------------------------------------------------------------------------
(* Calls of the form: each reads the draft and commits later. *)

\* Bounds: so many requests are served at once, and a conversation whose grants are used up
\* is left alone or deleted.
Active == {r \in Requests : req[r].at # "idle"}
Begins(r) ==
  /\ req[r].at = "idle" /\ ~deleted
  /\ Cardinality(Active) < MaxActive
  /\ \E g \in Grants : grants[g].state \in {"none", "issued"}

LoadsDraft(r) ==
  /\ Begins(r)
  /\ req' = [req EXCEPT ![r] = [Loaded(Idle) EXCEPT !.at = "loaded"]]
  /\ UNCHANGED <<draft, quotes, grants, shipments, thread, lock, held, deleted>>

\* Flush and commit of a call that only changes its draft.
Writes(r, row) ==
  /\ req[r].at = "loaded" /\ held = None /\ ~deleted
  /\ draft' = Written(Flushed(req[r], row))
  /\ quotes' = QuotesWith(Flushed(req[r], row))
  /\ req' = [req EXCEPT ![r] = Idle]

\* update_draft: any fields of the form.
Patches == {patch \in Contents : patch # Blank}
\* save_draft_address: the addresses and districts of one side.
AddressPatches == {patch \in Patches : patch.parcel = None}

UpdateDraft(r) ==
  /\ req[r].work.revision < MaxRevision
  /\ \E patch \in Patches : Writes(r, Updated(req[r].work, patch))
  /\ UNCHANGED <<grants, shipments, thread, lock, held, deleted>>

SaveDraftAddress(r) ==
  /\ req[r].work.revision < MaxRevision
  /\ \E patch \in AddressPatches : Writes(r, Updated(req[r].work, patch))
  /\ UNCHANGED <<grants, shipments, thread, lock, held, deleted>>

ValidateDraft(r) ==
  /\ Quotable(req[r].work)
  /\ Writes(r, Quoted(req[r].work))
  /\ UNCHANGED <<grants, shipments, thread, lock, held, deleted>>

IssueGrant(r) ==
  /\ req[r].at = "loaded" /\ ~deleted /\ ~Deleting
  /\ Ready(req[r].work)
  /\ \E g \in Grants :
       /\ grants[g].state = "none"
       /\ \A q \in Requests : req[q].grant # g
       /\ grants' = [grants EXCEPT ![g] = Granted(req[r].work)]
  /\ req' = [req EXCEPT ![r] = Idle]
  /\ UNCHANGED <<draft, quotes, shipments, thread, lock, held, deleted>>

\* consume_grant: grant and draft are read under their locks, in one transaction with
\* create(); a shipment that cannot be created takes the consumption back.
ConsumeGrant(g) ==
  /\ held = None /\ ~deleted
  /\ Consumable(grants[g], draft) /\ Creatable(grants[g].payload, TRUE)
  /\ grants' = [grants EXCEPT ![g].state = "consumed"]
  /\ draft' = [draft EXCEPT !.status = "SHIPMENT_CREATED"]
  /\ shipments' = [shipments EXCEPT ![g] = Created(grants[g].payload)]
  /\ UNCHANGED <<quotes, thread, lock, held, deleted, req>>

\* Five minutes pass; only consume_grant can tell, so it is enough to have it happen when
\* no request is being served.
Expires(g) ==
  /\ grants[g].state = "issued" /\ Active = {}
  /\ grants' = [grants EXCEPT ![g] = [NoGrant EXCEPT !.state = "expired"]]
  /\ UNCHANGED <<draft, quotes, shipments, thread, lock, held, deleted, req>>
=============================================================================
