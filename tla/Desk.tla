-------------------------------- MODULE Desk --------------------------------
(***************************************************************************)
(* The rows a customer's order and the administration of the stations      *)
(* share: stations and their service areas, the customer's address book,   *)
(* the pricing rules, quotes, shipments and idempotency records, and the   *)
(* requests that are being served.                                         *)
(*                                                                         *)
(* A request is one READ COMMITTED transaction.  What it has written stays *)
(* in its record until it commits; the rows it has written or refers to    *)
(* are locked until then, which the guards of other requests read.         *)
(***************************************************************************)
EXTENDS Pricing, FiniteSets

CONSTANTS
  Stations,     \* ids of stations that may exist
  Districts,    \* six-digit district codes
  Origins,      \* bound: districts that quotes are asked from
  Services,     \* bound: pairs of pickup and delivery methods that quotes are asked for
  Addresses,    \* ids of address rows of the customer
  Contacts,     \* a normalised name, phone and detail
  Packages,     \* packages, each by its billable weight
  BaseFees,     \* fees of the first kilogram a rule may set
  UnitFees,     \* fees of each further half kilogram
  RemoteFees,   \* surcharges for a remote district
  QuoteKeys,    \* Idempotency-Keys the customer sends with quotes
  OrderKeys,    \* Idempotency-Keys the customer sends with orders
  QuoteIds,     \* ids of quote snapshots
  ShipmentIds,  \* ids of shipments
  Admins,       \* requests to the administration that may overlap
  Clients,      \* requests of the customer that may overlap
  MaxRequests,  \* bound: requests of either kind, and changes of rules
  None          \* no row, a lock nobody holds

Keys == QuoteKeys \cup OrderKeys
Rules == [base: BaseFees, additional: UnitFees, remote: RemoteFees]

PickupMethod == {"DOOR_PICKUP", "STATION_DROPOFF"}
DeliveryMethod == {"HOME_DELIVERY", "STATION_PICKUP"}

ASSUME DeskAssumption ==
  /\ Districts \subseteq Nat /\ Origins \subseteq Districts
  /\ Services \subseteq [pickup: PickupMethod, delivery: DeliveryMethod]
  /\ Packages \subseteq Nat \ {0}
  /\ BaseFees \subseteq Nat /\ UnitFees \subseteq Nat /\ RemoteFees \subseteq Nat
  /\ MaxRequests \in Nat
  /\ QuoteKeys \cap OrderKeys = {} /\ QuoteIds \cap ShipmentIds = {}
  /\ None \notin Stations \cup Admins \cup Clients \cup Addresses \cup QuoteIds
                  \cup ShipmentIds \cup Keys

VARIABLES
  station,    \* stations: "none" where there is no row
  areas,      \* service_areas
  address,    \* addresses
  rule,       \* the rule in effect on each route, None if there is none
  quotes,     \* quote_snapshots
  shipments,  \* shipments, each with the key of the request that made it
  record,     \* idempotency_records
  lock,       \* advisory locks on keys
  replies,    \* the answers the customer has received for each key
  admin,      \* requests to the administration
  client,     \* requests of the customer
  spent       \* requests made so far

stationTables == <<station, areas, admin>>
orderTables == <<quotes, shipments, record, lock, replies>>
vars == <<station, areas, address, rule, quotes, shipments, record, lock, replies,
          admin, client, spent>>

HomeServices == {"HOME_PICKUP", "HOME_DELIVERY"}
Routes == {"SAME_CITY", "BJ_SH", "CROSS_REGION"}

Area == [district: Districts, service: HomeServices, station: Stations]
AddressRow == [district: Districts, contact: Contacts, ephemeral: BOOLEAN, deleted: BOOLEAN]

\* A quote is for the services it is asked for; an order is for door pickup and home
\* delivery.
QuoteCommand ==
  [origin: Origins, destination: Districts, package: Packages, services: Services]
OrderCommand == [sender: Addresses, receiver: Addresses, package: Packages, quote: QuoteIds]

\* source: the quote it is a reweigh of.
Quote == [command: QuoteCommand, rule: Rules, total: Nat, source: QuoteIds \cup {None}]
Shipment == [command: OrderCommand, origin: Stations, destination: Stations, key: OrderKeys]

\* want: the districts asked for; target: the areas a DELETE has found; gone, added:
\* the areas deleted and inserted; was: the station as it was loaded.
AdminRequest ==
  [at: {"idle", "loaded", "checked", "deleting", "ready"},
   op: {"create", "update", "enable", "disable", "delete"},
   station: Stations \cup {None}, want: SUBSET Districts,
   target: SUBSET Area, gone: SUBSET Area, added: SUBSET Area,
   was: {"none", "enabled", "disabled"}]
AdminIdle ==
  [at |-> "idle", op |-> "create", station |-> None, want |-> {}, target |-> {},
   gone |-> {}, added |-> {}, was |-> "none"]

\* command: of the order or quote; from, to: the districts of the addresses as loaded;
\* origin, destination: the stations matched; made: the quote calculated; row: the
\* address to be added.
ClientRequest ==
  [at: {"idle", "working", "origin", "inserted", "quoted", "adding"},
   key: Keys \cup {None}, command: QuoteCommand \cup OrderCommand \cup {None},
   from: Districts \cup {None}, to: Districts \cup {None},
   origin: Stations \cup {None}, destination: Stations \cup {None},
   made: Quote \cup {None}, row: AddressRow \cup {None}]
ClientIdle ==
  [at |-> "idle", key |-> None, command |-> None, from |-> None, to |-> None,
   origin |-> None, destination |-> None, made |-> None, row |-> None]

Answered == [command: QuoteCommand \cup OrderCommand, answer: QuoteIds \cup ShipmentIds]

\* No row is no row.
ASSUME RowsAssumption == None \notin Quote \cup Shipment \cup Answered
=============================================================================
