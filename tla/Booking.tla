------------------------------ MODULE Booking -------------------------------
(***************************************************************************)
(* A customer's requests: quotes and orders under an idempotency key       *)
(* (platform/idempotency.py, pricing/service.py, shipments/service.py),    *)
(* reweighs of quotes and the address book (addresses/), beside the        *)
(* administration of stations and rules.                                   *)
(*                                                                         *)
(* One customer: keys are scoped by customer, and the checks of ownership  *)
(* compare rows of the same customer.                                      *)
(***************************************************************************)
EXTENDS Stations

FeeFor(services) == ServiceFee(services.pickup, services.delivery)

\* A quote by rule r; source: the quote it is a reweigh of.
QuoteOf(command, r, source) ==
  [command |-> command, rule |-> r, source |-> source,
   total |-> TotalCents(r, command.package, FeeFor(command.services))]

\* A desk that is open: every district has a station, the customer has an address or more,
\* none of them twice, and a quote has been made (of the lightest package by the dearest
\* rule for the cheapest services, so that others can differ).
Entered == {row \in AddressRow : ~row.ephemeral /\ ~row.deleted}

Init ==
  /\ \E serves \in [Districts -> Stations] :
       /\ areas = {x \in Area : serves[x.district] = x.station}
       /\ station = [s \in Stations |->
                       IF \E d \in Districts : serves[d] = s THEN "enabled" ELSE "none"]
  /\ address \in [Addresses -> Entered \cup {None}]
  /\ \E i \in Addresses : address[i] # None
  /\ \A i, j \in Addresses : i # j /\ address[i] # None => address[i] # address[j]
  /\ \E r \in Rules : \E d \in Origins : \E package \in Packages :
       /\ \A x \in Rules : x.base <= r.base
       /\ \A x \in Origins : d <= x
       /\ \A x \in Packages : package <= x
       /\ rule = [route \in Routes |-> r]
       /\ \E q \in QuoteIds : \E services \in Services :
            /\ \A x \in Services : FeeFor(services) <= FeeFor(x)
            /\ quotes = [[i \in QuoteIds |-> None] EXCEPT ![q] =
                 QuoteOf([origin |-> d, destination |-> d, package |-> package,
                          services |-> services], r, None)]
  /\ shipments = [i \in ShipmentIds |-> None]
  /\ record = [k \in Keys |-> None]
  /\ lock = [k \in Keys |-> None]
  /\ replies = [k \in Keys |-> {}]
  /\ admin = [a \in Admins |-> AdminIdle]
  /\ client = [c \in Clients |-> ClientIdle]
  /\ spent = 0

Starts(c) ==
  /\ client[c].at = "idle" /\ spent < MaxRequests
  /\ spent' = spent + 1
  /\ UNCHANGED <<stationTables, rule, quotes, shipments, record>>

-----------------------------------------------------------------------------
(* IdempotencyService.execute() *)

FreeKey(k) == lock[k] = None

\* A record of the same request is replayed, one of another request refused (409); the
\* reply may be lost.
Replays(c, k, command) ==
  /\ Starts(c) /\ FreeKey(k) /\ record[k] # None
  /\ \/ replies' = replies
     \/ /\ record[k].command = command
        /\ replies' = [replies EXCEPT ![k] = @ \cup {record[k].answer}]
  /\ UNCHANGED <<address, lock, client>>

Executes(c, k, work) ==
  /\ Starts(c) /\ FreeKey(k) /\ record[k] = None
  /\ lock' = [lock EXCEPT ![k] = c]
  /\ client' = [client EXCEPT ![c] = work]
  /\ UNCHANGED <<address, replies>>

Released(c) == [k \in Keys |-> IF lock[k] = c THEN None ELSE lock[k]]

\* Mutant: the record is completed before there is an answer.
CompletedFirst(command, answer) == [command |-> command, answer |-> None]
Completed(command, answer) == [command |-> command, answer |-> answer]

\* Mutant: the record is not saved.
SavedNowhere(k, entry) == record
Saved(k, entry) == [record EXCEPT ![k] = entry]

\* The answer is recorded in the transaction of the operation.  The reply may be lost.
Records(c, answer) ==
  LET k == client[c].key
  IN /\ record[k] = None
     /\ record' = Saved(k, Completed(client[c].command, answer))
     /\ lock' = Released(c)
     /\ \/ replies' = replies
        \/ replies' = [replies EXCEPT ![k] = @ \cup {answer}]
     /\ client' = [client EXCEPT ![c] = ClientIdle]

\* The request is refused, cut off or fails: it is rolled back.
Refused(c) ==
  /\ lock' = Released(c)
  /\ client' = [client EXCEPT ![c] = ClientIdle]
  /\ UNCHANGED <<stationTables, address, rule, quotes, shipments, record, replies, spent>>

Dies(c) == client[c].at # "idle" /\ Refused(c)

-----------------------------------------------------------------------------
(* PricingService *)

\* quote(), with the rule in effect on the route (_active_rule()).
QuoteRequested(c) ==
  \E k \in QuoteKeys : \E command \in QuoteCommand :
    LET r == rule[RouteCode(command.origin, command.destination)]
    IN \/ Replays(c, k, command)
       \/ r # None /\ Executes(c, k, [ClientIdle EXCEPT
            !.at = "quoted", !.key = k, !.command = command,
            !.made = QuoteOf(command, r, None)])

QuoteCommits(c) ==
  \E q \in QuoteIds :
    /\ client[c].at = "quoted" /\ quotes[q] = None
    /\ quotes' = [quotes EXCEPT ![q] = client[c].made]
    /\ Records(c, q)
    /\ UNCHANGED <<stationTables, address, rule, shipments, spent>>

\* Mutant: the rule in effect today.
RuleOfToday(q) == rule[RouteCode(quotes[q].command.origin, quotes[q].command.destination)]
\* The rule of the quote, looked up by its id.
RuleOf(q) == quotes[q].rule

\* reweigh(): a new quote of another package, by the rule of the first.
Reweigh(c) ==
  \E q, new \in QuoteIds : \E package \in Packages :
    /\ quotes[q] # None /\ quotes[new] = None
    /\ client[c].at = "idle" /\ spent < MaxRequests
    /\ RuleOf(q) # None
    /\ quotes' = [quotes EXCEPT ![new] =
                    QuoteOf([quotes[q].command EXCEPT !.package = package], RuleOf(q), q)]
    /\ spent' = spent + 1
    /\ UNCHANGED <<stationTables, address, rule, shipments, record, lock, replies, client>>

\* Bound: rules change on the routes that quotes are asked for.
RoutesAsked == {RouteCode(d, e) : d \in Origins, e \in Districts}

\* create_rule(), and rules that come into effect or expire: any rule, or none, may be
\* the latest in effect on a route.
RuleChanges ==
  \E route \in RoutesAsked : \E r \in Rules \cup {None} :
    /\ spent < MaxRequests /\ rule[route] # r
    /\ rule' = [rule EXCEPT ![route] = r]
    /\ spent' = spent + 1
    /\ UNCHANGED <<stationTables, address, orderTables, client>>

-----------------------------------------------------------------------------
(* ShipmentApplicationService.create() *)

\* Mutant: the package is not compared with the quote's.
QuotedAnything(command) == quotes[command.quote] # None
\* The quote exists, and priced the weight and size of this package: its services and
\* districts are not compared with the order's.
QuoteMatches(command) ==
  quotes[command.quote] # None /\ quotes[command.quote].command.package = command.package

\* A deleted address still has its row.
OrderRequested(c) ==
  \E k \in OrderKeys : \E command \in OrderCommand :
    \/ Replays(c, k, command)
    \/ /\ address[command.sender] # None /\ address[command.receiver] # None
       /\ QuoteMatches(command)
       /\ Executes(c, k, [ClientIdle EXCEPT
            !.at = "working", !.key = k, !.command = command,
            !.from = address[command.sender].district,
            !.to = address[command.receiver].district])

\* UNSUPPORTED_SERVICE_AREA refuses the order.
MatchesOrigin(c) ==
  LET s == MatchStation(client[c].from, "HOME_PICKUP")
  IN /\ client[c].at = "working" /\ s # None
     /\ client' = [client EXCEPT ![c].at = "origin", ![c].origin = s]
     /\ UNCHANGED <<stationTables, address, rule, orderTables, spent>>

\* The foreign keys of the shipment wait for a request that deletes a station.
BeingDeleted(s) == \E a \in Admins : Writing(a, s) /\ admin[a].op = "delete"

InsertsShipment(c) ==
  LET s == MatchStation(client[c].to, "HOME_DELIVERY")
  IN /\ client[c].at = "origin" /\ s # None
     /\ station[client[c].origin] # "none"
     /\ ~BeingDeleted(client[c].origin) /\ ~BeingDeleted(s)
     /\ client' = [client EXCEPT ![c].at = "inserted", ![c].destination = s]
     /\ UNCHANGED <<stationTables, address, rule, orderTables, spent>>

OrderCommits(c) ==
  \E i \in ShipmentIds :
    /\ client[c].at = "inserted" /\ shipments[i] = None
    /\ shipments' = [shipments EXCEPT ![i] =
         [command |-> client[c].command, origin |-> client[c].origin,
          destination |-> client[c].destination, key |-> client[c].key]]
    /\ Records(c, i)
    /\ UNCHANGED <<stationTables, address, rule, quotes, spent>>

-----------------------------------------------------------------------------
(* The address book (addresses/) *)

Live(i) == address[i] # None /\ ~address[i].deleted

\* find_matching_address(): the addresses that say the same; a formal one goes first.
Matching(row) == {i \in Addresses : Live(i) /\ address[i].contact = row.contact
                                    /\ address[i].district = row.district}
Preferred(row) == {i \in Matching(row) : address[i].ephemeral =>
                     \A j \in Matching(row) : address[j].ephemeral}

\* An address of the book, or one for a single order (save_draft_address()).
AddressRequested(c) ==
  \E row \in [district: Districts, contact: Contacts, ephemeral: BOOLEAN, deleted: {FALSE}] :
    /\ Starts(c)
    /\ IF Matching(row) # {}
       THEN /\ \E i \in Preferred(row) :
                 address' = [address EXCEPT ![i].ephemeral = @ /\ row.ephemeral]
            /\ UNCHANGED client
       ELSE /\ client' = [client EXCEPT ![c] =
                             [ClientIdle EXCEPT !.at = "adding", !.row = row]]
            /\ UNCHANGED address
    /\ UNCHANGED <<lock, replies>>

\* Nothing keeps another request from adding the same address meanwhile.
AddsAddress(c) ==
  \E i \in Addresses :
    /\ client[c].at = "adding" /\ address[i] = None
    /\ address' = [address EXCEPT ![i] = client[c].row]
    /\ client' = [client EXCEPT ![c] = ClientIdle]
    /\ UNCHANGED <<stationTables, rule, orderTables, spent>>

\* update_address(), to another district or other words.
UpdateAddress(c) ==
  \E i \in Addresses : \E d \in Districts : \E contact \in Contacts :
    /\ Starts(c) /\ Live(i)
    /\ address' = [address EXCEPT ![i].district = d, ![i].contact = contact]
    /\ UNCHANGED <<client, lock, replies>>

\* delete_address() marks the row.
MarkedDeleted(i) == [address[i] EXCEPT !.deleted = TRUE]

RemoveAddress(c) ==
  \E i \in Addresses :
    /\ Starts(c) /\ Live(i)
    /\ address' = [address EXCEPT ![i] = MarkedDeleted(i)]
    /\ UNCHANGED <<client, lock, replies>>

-----------------------------------------------------------------------------

Orders(c) ==
  \/ QuoteRequested(c) \/ QuoteCommits(c) \/ Reweigh(c)
  \/ OrderRequested(c) \/ MatchesOrigin(c) \/ InsertsShipment(c)
  \/ OrderCommits(c) \/ Dies(c)
  \/ AddressRequested(c) \/ AddsAddress(c) \/ UpdateAddress(c) \/ RemoveAddress(c)

Next ==
  \/ \E a \in Admins : Administrates(a)
  \/ \E c \in Clients : Orders(c)
  \/ RuleChanges

Spec == Init /\ [][Next]_vars

-----------------------------------------------------------------------------
(* Properties *)

\* Rows, requests and answers have their types.
TypeOK ==
  /\ station \in [Stations -> {"none", "enabled", "disabled"}]
  /\ areas \subseteq Area
  /\ address \in [Addresses -> AddressRow \cup {None}]
  /\ rule \in [Routes -> Rules \cup {None}]
  /\ quotes \in [QuoteIds -> Quote \cup {None}]
  /\ shipments \in [ShipmentIds -> Shipment \cup {None}]
  /\ record \in [Keys -> Answered \cup {None}]
  /\ lock \in [Keys -> Clients \cup {None}]
  /\ replies \in [Keys -> SUBSET (QuoteIds \cup ShipmentIds)]
  /\ admin \in [Admins -> AdminRequest]
  /\ client \in [Clients -> ClientRequest]
  /\ spent \in 0 .. MaxRequests

\* A request that works on a key is alone with it: the answer of a request before it
\* is not overlooked, so its own can be recorded (idempotency.py: pg_advisory_xact_lock
\* before the record is read).
WorksAlone ==
  \A c \in Clients : client[c].key # None =>
    lock[client[c].key] = c /\ record[client[c].key] = None

\* However often an order is sent again, while it is served, after its reply was lost or
\* after it was rolled back, one shipment comes of it, and every reply names that one.
OneShipmentPerKey ==
  /\ \A i, j \in ShipmentIds :
       shipments[i] # None /\ shipments[j] # None /\ shipments[i].key = shipments[j].key
         => i = j
  /\ \A k \in OrderKeys : \A i \in replies[k] : shipments[i] # None /\ shipments[i].key = k

\* A district's parcels are collected and delivered by one station, whatever requests
\* replace areas at once: neither service of it is left behind, none has two stations.
OneStationPerDistrict ==
  \A x \in areas : \A y \in areas :
    x.district = y.district =>
      /\ x.station = y.station
      /\ \E z \in areas : z.district = x.district /\ z.service # x.service

\* A station that is deleted while orders are matched to it, or while another request
\* gives it areas, leaves neither a shipment nor an area without a station.
StationsOfRowsExist ==
  /\ \A i \in ShipmentIds : shipments[i] # None =>
       station[shipments[i].origin] # "none" /\ station[shipments[i].destination] # "none"
  /\ \A x \in areas : station[x.station] # "none"

\* The price list (pricing-rules.md): the first kilogram, each half one begun, and the
\* services, which never take the price below nothing.
ListPrice(r, package, services) ==
  LET covers(n) == package <= 1000 + 500 * n
      begun == CHOOSE n \in 0 .. package \div 500 :
                 covers(n) /\ (n > 0 => ~covers(n - 1))
      weight == r.base + begun * r.additional + r.remote
      collected == services.pickup = "DOOR_PICKUP"
      fetched == services.delivery = "STATION_PICKUP"
      extra == CASE collected /\ ~fetched -> 300
                 [] collected /\ fetched -> 200
                 [] ~collected /\ fetched -> -100
                 [] OTHER -> 0
  IN Larger(0, weight + extra)

\* A shipment costs the list price of the package it declares, by a single rule of its
\* quote and for the services that quote was asked for, though rules change and quotes are
\* reweighed between the quote and the order.
PricedForItsPackage ==
  \A i \in ShipmentIds : shipments[i] # None =>
    LET command == shipments[i].command
        q == quotes[command.quote]
    IN q # None /\ q.total = ListPrice(q.rule, command.package, q.command.services)

\* A package found heavier is never cheaper than it was quoted, whatever rules have come
\* into effect since (reweigh() takes the rule of the first quote).
HeavierNeverCheaper ==
  \A q \in QuoteIds : quotes[q] # None /\ quotes[q].source # None =>
    LET first == quotes[quotes[q].source]
    IN first.command.package <= quotes[q].command.package => first.total <= quotes[q].total
=============================================================================
