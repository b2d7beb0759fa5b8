--------------------------- MODULE BookingProofs ----------------------------
(***************************************************************************)
(* Proofs about Booking for any stations, districts, fees, keys and number *)
(* of requests: one shipment comes of a key, a price follows the list and  *)
(* never falls with the weight, and whatever the administration does at    *)
(* once, a district has one station and a row refers to one that is there. *)
(***************************************************************************)
EXTENDS Booking, TLAPS

-----------------------------------------------------------------------------
(* Prices *)

LEMMA FeesOfServices ==
  ASSUME NEW services \in Services
  PROVE  /\ FeeFor(services) \in Int
         /\ services.pickup \in PickupMethod /\ services.delivery \in DeliveryMethod
  BY DeskAssumption DEF FeeFor, ServiceFee

LEMMA UnitsAreNat ==
  ASSUME NEW package \in Nat
  PROVE  BilledUnits(package) \in Nat
  BY DEF BilledUnits, Larger, CeilDiv

\* The package is within the units billed for it, and not within fewer.
LEMMA UnitsCover ==
  ASSUME NEW package \in Nat
  PROVE  /\ package <= 1000 + 500 * BilledUnits(package)
         /\ BilledUnits(package) > 0 => package > 1000 + 500 * (BilledUnits(package) - 1)
         /\ BilledUnits(package) \in 0 .. package \div 500
  BY DEF BilledUnits, Larger, CeilDiv

LEMMA UnitsGrow ==
  ASSUME NEW a \in Nat, NEW b \in Nat, a <= b
  PROVE  BilledUnits(a) <= BilledUnits(b)
<1>1. CeilDiv(a - 1000, 500) <= CeilDiv(b - 1000, 500)
  BY DEF CeilDiv
<1>2. CeilDiv(a - 1000, 500) \in Int /\ CeilDiv(b - 1000, 500) \in Int
  BY DEF CeilDiv
<1> QED
  BY ONLY <1>1, <1>2 DEF BilledUnits, Larger

LEMMA ProductGrows ==
  ASSUME NEW m \in Nat, NEW n \in Nat, NEW fee \in Nat, m <= n
  PROVE  m * fee <= n * fee /\ m * fee \in Nat /\ n * fee \in Nat
<1>1. PICK d \in Nat : n = m + d
  BY n - m \in Nat
<1>2. d * fee \in Nat
  OBVIOUS
<1>3. n * fee = m * fee + d * fee
  BY <1>1
<1> QED
  BY <1>2, <1>3

LEMMA RuleFees ==
  ASSUME NEW r \in Rules
  PROVE  r.base \in Nat /\ r.additional \in Nat /\ r.remote \in Nat
  BY DeskAssumption DEF Rules

LEMMA TotalOfRule ==
  ASSUME NEW r \in Rules, NEW package \in Nat, NEW fee \in Int
  PROVE  /\ TotalCents(r, package, fee)
              = Larger(0, r.base + BilledUnits(package) * r.additional + r.remote + fee)
         /\ TotalCents(r, package, fee) \in Nat
<1>1. BilledUnits(package) * r.additional \in Nat
  BY RuleFees, UnitsAreNat, ProductGrows
<1> QED
  BY <1>1, RuleFees DEF TotalCents, Larger

LEMMA TotalGrows ==
  ASSUME NEW r \in Rules, NEW a \in Nat, NEW b \in Nat, a <= b, NEW fee \in Int
  PROVE  TotalCents(r, a, fee) <= TotalCents(r, b, fee)
<1>1. BilledUnits(a) * r.additional <= BilledUnits(b) * r.additional
  BY UnitsGrow, UnitsAreNat, RuleFees, ProductGrows
<1>2. BilledUnits(a) * r.additional \in Nat /\ BilledUnits(b) * r.additional \in Nat
  BY UnitsAreNat, RuleFees, ProductGrows
<1> DEFINE m == BilledUnits(a) * r.additional
           n == BilledUnits(b) * r.additional
<1>3. /\ TotalCents(r, a, fee) = Larger(0, r.base + m + r.remote + fee)
      /\ TotalCents(r, b, fee) = Larger(0, r.base + n + r.remote + fee)
  BY TotalOfRule
<1> HIDE DEF m, n
<1> QED
  <2>1. m \in Nat /\ n \in Nat /\ m <= n
    BY <1>1, <1>2 DEF m, n
  <2> QED
    BY ONLY <2>1, <1>3, RuleFees, r \in Rules, fee \in Int DEF Larger

\* The calculation is the price list: its first kilogram, each half one begun, and what
\* the services add or take off.
LEMMA CalculationIsList ==
  ASSUME NEW r \in Rules, NEW package \in Nat, NEW services \in Services
  PROVE  TotalCents(r, package, FeeFor(services)) = ListPrice(r, package, services)
<1> DEFINE covers(n) == package <= 1000 + 500 * n
           begins(n) == covers(n) /\ (n > 0 => ~covers(n - 1))
           begun == CHOOSE n \in 0 .. package \div 500 : begins(n)
           collected == services.pickup = "DOOR_PICKUP"
           fetched == services.delivery = "STATION_PICKUP"
           extra == CASE collected /\ ~fetched -> 300
                      [] collected /\ fetched -> 200
                      [] ~collected /\ fetched -> -100
                      [] OTHER -> 0
<1>1. begins(BilledUnits(package)) /\ BilledUnits(package) \in 0 .. package \div 500
  BY UnitsCover, UnitsAreNat
<1>2. \A m, n \in Nat : begins(m) /\ begins(n) => m = n
  OBVIOUS
<1>3. begun \in 0 .. package \div 500 /\ begins(begun)
  BY <1>1
<1>4. begun = BilledUnits(package)
  <2> HIDE DEF begun, begins
  <2> QED
    BY <1>1, <1>2, <1>3
<1>5. extra = FeeFor(services)
  <2>1. FeeFor(services) = (IF collected THEN 300 ELSE 0) - (IF fetched THEN 100 ELSE 0)
    BY DEF FeeFor, ServiceFee
  <2> HIDE DEF collected, fetched
  <2> QED
    BY <2>1
<1>6. ListPrice(r, package, services)
        = Larger(0, (r.base + begun * r.additional + r.remote) + extra)
  BY DEF ListPrice
<1> HIDE DEF begun, extra
<1> QED
  BY <1>4, <1>5, <1>6, TotalOfRule, FeesOfServices

-----------------------------------------------------------------------------
(* Types *)

\* What a request of the customer has found by the stage it is at.
Staged ==
  \A c \in Clients :
    /\ client[c].at \in {"idle", "adding"} => client[c].key = None
    /\ client[c].at \in {"working", "origin", "inserted"} =>
         client[c].key \in OrderKeys /\ client[c].command \in OrderCommand
    /\ client[c].at \in {"origin", "inserted"} => client[c].origin \in Stations
    /\ client[c].at = "inserted" => client[c].destination \in Stations
    /\ client[c].at = "quoted" =>
         /\ client[c].key \in QuoteKeys /\ client[c].command \in QuoteCommand
         /\ client[c].made \in Quote
    /\ client[c].at = "adding" => client[c].row \in AddressRow

\* A request to the administration names a station once it has begun.
Named == \A a \in Admins : admin[a].at # "idle" => admin[a].station \in Stations

Typed == TypeOK /\ Staged /\ Named

LEMMA IdleTypes == AdminIdle \in AdminRequest /\ ClientIdle \in ClientRequest
  BY DEF AdminIdle, AdminRequest, ClientIdle, ClientRequest

LEMMA QuoteOfType ==
  ASSUME NEW command \in QuoteCommand, NEW r \in Rules, NEW source \in QuoteIds \cup {None}
  PROVE  QuoteOf(command, r, source) \in Quote
<1>1. command.package \in Nat /\ command.services \in Services
  BY DeskAssumption DEF QuoteCommand
<1>2. TotalCents(r, command.package, FeeFor(command.services)) \in Nat
  BY <1>1, TotalOfRule, FeesOfServices
<1> QED
  BY <1>2 DEF QuoteOf, Quote

LEMMA RowsForType ==
  ASSUME NEW s \in Stations, NEW want \in SUBSET Districts
  PROVE  RowsFor(s, want) \subseteq Area
  BY DEF RowsFor, Area

LEMMA MatchIsStation ==
  ASSUME areas \subseteq Area, NEW d, NEW v, MatchStation(d, v) # None
  PROVE  /\ MatchStation(d, v) \in Stations
         /\ station[MatchStation(d, v)] = "enabled"
<1>1. MatchStation(d, v) \in Served(d, v)
  BY DEF MatchStation
<1> QED
  BY <1>1 DEF Served, Area

LEMMA InitTyped == Init => Typed
<1> SUFFICES ASSUME Init PROVE Typed
  OBVIOUS
<1>1. PICK r \in Rules : \E d \in Origins : \E package \in Packages :
        /\ rule = [route \in Routes |-> r]
        /\ \E q \in QuoteIds : \E services \in Services :
             quotes = [[i \in QuoteIds |-> None] EXCEPT ![q] =
               QuoteOf([origin |-> d, destination |-> d, package |-> package,
                        services |-> services], r, None)]
  BY DEF Init
<1>2. rule \in [Routes -> Rules \cup {None}]
  BY <1>1
<1>3. quotes \in [QuoteIds -> Quote \cup {None}]
  <2>1. PICK d \in Origins, package \in Packages, services \in Services, q \in QuoteIds :
          quotes = [[i \in QuoteIds |-> None] EXCEPT ![q] =
            QuoteOf([origin |-> d, destination |-> d, package |-> package,
                     services |-> services], r, None)]
    BY <1>1
  <2>2. [origin |-> d, destination |-> d, package |-> package, services |-> services]
          \in QuoteCommand
    BY DeskAssumption DEF QuoteCommand
  <2>3. QuoteOf([origin |-> d, destination |-> d, package |-> package,
                 services |-> services], r, None) \in Quote
    BY <2>2, QuoteOfType
  <2> QED
    BY <2>1, <2>3
<1>4. address \in [Addresses -> AddressRow \cup {None}] /\ areas \subseteq Area
      /\ station \in [Stations -> {"none", "enabled", "disabled"}]
  BY DEF Init, Entered
<1>5. spent \in 0 .. MaxRequests
  BY DeskAssumption DEF Init
<1>6. /\ shipments \in [ShipmentIds -> Shipment \cup {None}]
      /\ record \in [Keys -> Answered \cup {None}]
      /\ lock \in [Keys -> Clients \cup {None}]
      /\ replies \in [Keys -> SUBSET (QuoteIds \cup ShipmentIds)]
  BY DEF Init
<1>7. admin \in [Admins -> AdminRequest] /\ client \in [Clients -> ClientRequest]
  BY IdleTypes DEF Init
<1>8. Staged /\ Named
  BY DEF Init, Staged, Named, AdminIdle, ClientIdle
<1> QED
  BY <1>2, <1>3, <1>4, <1>5, <1>6, <1>7, <1>8 DEF Typed, TypeOK

\* A request that goes on to another stage, or that finds, deletes and adds areas.
LEMMA WithStage ==
  ASSUME NEW q \in AdminRequest, NEW at \in {"checked", "deleting", "ready"}
  PROVE  /\ [q EXCEPT !.at = at] \in AdminRequest
         /\ [q EXCEPT !.at = at].station = q.station
  BY DEF AdminRequest

LEMMA WithTarget ==
  ASSUME NEW q \in AdminRequest, NEW target \in SUBSET Area
  PROVE  /\ [q EXCEPT !.at = "deleting", !.target = target] \in AdminRequest
         /\ [q EXCEPT !.at = "deleting", !.target = target].station = q.station
  BY DEF AdminRequest

LEMMA WithAreas ==
  ASSUME NEW q \in AdminRequest, NEW gone \in SUBSET Area, NEW added \in SUBSET Area
  PROVE  /\ [q EXCEPT !.at = "ready", !.gone = gone] \in AdminRequest
         /\ [q EXCEPT !.at = "ready", !.gone = gone].station = q.station
         /\ [q EXCEPT !.at = "ready", !.gone = gone, !.added = added] \in AdminRequest
         /\ [q EXCEPT !.at = "ready", !.gone = gone, !.added = added].station = q.station
<1>1. /\ [q EXCEPT !.at = "ready", !.gone = gone] \in AdminRequest
      /\ [q EXCEPT !.at = "ready", !.gone = gone].station = q.station
  BY DEF AdminRequest
<1>2. /\ [q EXCEPT !.at = "ready", !.gone = gone, !.added = added] \in AdminRequest
      /\ [q EXCEPT !.at = "ready", !.gone = gone, !.added = added].station = q.station
  BY DEF AdminRequest
<1> QED
  BY <1>1, <1>2

\* Requests to the administration.
LEMMA AdminTyped ==
  ASSUME Typed, NEW a \in Admins, Administrates(a)
  PROVE  Typed'
<1> USE DEF Typed, TypeOK
\* A step of the request alone.
<1>1. ASSUME NEW q \in AdminRequest, admin' = [admin EXCEPT ![a] = q],
             q.at # "idle" => q.station \in Stations, spent' \in 0 .. MaxRequests,
             UNCHANGED <<station, areas, address, rule, orderTables, client>>
      PROVE  Typed'
  BY <1>1 DEF Staged, Named, orderTables
<1>2. ASSUME Leaves(a) PROVE Typed'
  BY <1>1, <1>2, IdleTypes DEF Leaves, AdminIdle
<1>3. ASSUME NEW op \in {"create", "update", "enable", "disable", "delete"},
             NEW s \in Stations, NEW want \in SUBSET Districts, Begins(a, op, s, want)
      PROVE  Typed'
  <2> DEFINE q == [AdminIdle EXCEPT
                     !.at = IF op = "delete" THEN "deleting" ELSE "loaded", !.op = op,
                     !.station = s, !.want = want, !.was = station[s],
                     !.target = IF op = "delete" THEN AreasOf(s) ELSE {}]
  <2>1. q \in AdminRequest /\ q.station = s
    BY DEF AdminIdle, AdminRequest, AreasOf
  <2>2. spent' \in 0 .. MaxRequests
    BY <1>3, DeskAssumption DEF Begins
  <2> QED
    BY <1>1, <1>3, <2>1, <2>2 DEF Begins
<1>4. CASE CreateStation(a)
  BY <1>3, <1>4 DEF CreateStation, Wants
<1>5. CASE UpdateStation(a)
  BY <1>3, <1>5 DEF UpdateStation, Wants
<1>6. CASE SetStationEnabled(a) \/ DeleteStation(a)
  BY <1>3, <1>6 DEF SetStationEnabled, DeleteStation
<1>7. admin[a] \in AdminRequest /\ (admin[a].at # "idle" => admin[a].station \in Stations)
  BY DEF Named
<1>8. /\ admin[a].target \in SUBSET Area /\ admin[a].gone \in SUBSET Area
      /\ admin[a].added \in SUBSET Area /\ Deleted(a) \in SUBSET Area
      /\ AreasOf(admin[a].station) \in SUBSET Area
  BY DEF AdminRequest, Deleted, AreasOf
\* A step to another stage.
<1>9. ASSUME NEW q \in AdminRequest, q.station = admin[a].station, admin[a].at # "idle",
             admin' = [admin EXCEPT ![a] = q],
             UNCHANGED <<station, areas, address, rule, orderTables, client, spent>>
      PROVE  Typed'
  BY <1>1, <1>7, <1>9
<1> HIDE DEF Typed, TypeOK
<1>10. CASE ChecksAreas(a)
  <2>1. admin[a].at # "idle"
    BY <1>10 DEF ChecksAreas
  <2>2. CASE admin' = [admin EXCEPT ![a] = [admin[a] EXCEPT !.at = "checked"]]
             /\ UNCHANGED <<station, areas, address, rule, orderTables, client, spent>>
    <3>1. /\ [admin[a] EXCEPT !.at = "checked"] \in AdminRequest
          /\ [admin[a] EXCEPT !.at = "checked"].station = admin[a].station
      BY <1>7, WithStage
    <3> QED
      BY <1>9, <2>1, <2>2, <3>1
  <2> QED
    BY <1>2, <1>10, <2>2 DEF ChecksAreas
<1>11. CASE FindsAreas(a)
  <2>1. /\ [admin[a] EXCEPT !.at = "deleting", !.target = AreasOf(admin[a].station)]
             \in AdminRequest
        /\ [admin[a] EXCEPT !.at = "deleting", !.target = AreasOf(admin[a].station)].station
             = admin[a].station
    BY <1>7, <1>8, WithTarget
  <2> QED
    BY <1>9, <1>11, <2>1 DEF FindsAreas
<1>12. CASE ReplacesAreas(a)
  <2> DEFINE rows == RowsFor(admin[a].station, admin[a].want)
             gone == Deleted(a)
             q == [admin[a] EXCEPT !.at = "ready", !.gone = gone, !.added = rows]
  <2>1. admin[a].at # "idle"
    BY <1>12 DEF ReplacesAreas
  <2>2. rows \in SUBSET Area /\ gone \in SUBSET Area
    BY <1>7, <1>8, <2>1, RowsForType DEF AdminRequest
  <2> HIDE DEF rows, gone
  <2>3. q \in AdminRequest /\ q.station = admin[a].station
    BY <1>7, <2>2, WithAreas
  <2>4. CASE admin' = [admin EXCEPT ![a] = q]
             /\ UNCHANGED <<station, areas, address, rule, orderTables, client, spent>>
    BY <1>9, <2>1, <2>3, <2>4
  <2> QED
    BY <1>2, <1>12, <2>4 DEF ReplacesAreas, rows, gone
<1>13. CASE SwitchesStation(a)
  <2>1. /\ [admin[a] EXCEPT !.at = "ready"] \in AdminRequest
        /\ [admin[a] EXCEPT !.at = "ready"].station = admin[a].station
    BY <1>7, WithStage
  <2>2. admin[a].at # "idle"
    BY <1>13 DEF SwitchesStation
  <2>3. CASE admin' = [admin EXCEPT ![a] = [admin[a] EXCEPT !.at = "ready"]]
             /\ UNCHANGED <<station, areas, address, rule, orderTables, client, spent>>
    BY <1>9, <2>1, <2>2, <2>3
  <2> QED
    BY <1>2, <1>13, <2>3 DEF SwitchesStation
<1>14. CASE DeletesStation(a)
  <2>1. /\ [admin[a] EXCEPT !.at = "ready", !.gone = Deleted(a)] \in AdminRequest
        /\ [admin[a] EXCEPT !.at = "ready", !.gone = Deleted(a)].station = admin[a].station
    BY <1>7, <1>8, WithAreas
  <2>2. admin[a].at # "idle"
    BY <1>14 DEF DeletesStation
  <2>3. CASE admin' = [admin EXCEPT ![a] = [admin[a] EXCEPT !.at = "ready", !.gone = Deleted(a)]]
             /\ UNCHANGED <<station, areas, address, rule, orderTables, client, spent>>
    BY <1>9, <2>1, <2>2, <2>3
  <2> QED
    BY <1>2, <1>14, <2>3 DEF DeletesStation
<1>15. CASE AdminCommits(a)
  <2> USE DEF Typed, TypeOK
  <2>1. areas' \subseteq Area
    BY <1>8, <1>15 DEF AdminCommits
  <2>2. station' \in [Stations -> {"none", "enabled", "disabled"}]
    BY <1>15 DEF AdminCommits, Switched
  <2>3. admin' \in [Admins -> AdminRequest] /\ Named'
    BY <1>15, IdleTypes DEF AdminCommits, AdminIdle, Named
  <2> QED
    BY <1>15, <2>1, <2>2, <2>3 DEF AdminCommits, Staged, orderTables
<1>16. CASE AdminDies(a)
  BY <1>2, <1>16 DEF AdminDies
<1> QED
  BY <1>4, <1>5, <1>6, <1>10, <1>11, <1>12, <1>13, <1>14, <1>15, <1>16 DEF Administrates

\* Requests of the customer: a step of the request alone, and the tables it writes.
LEMMA ClientTyped ==
  ASSUME Typed, NEW c \in Clients, Orders(c)
  PROVE  Typed'
<1> DEFINE Fit(q) ==
      /\ q \in ClientRequest
      /\ q.at \in {"idle", "adding"} => q.key = None
      /\ q.at \in {"working", "origin", "inserted"} =>
           q.key \in OrderKeys /\ q.command \in OrderCommand
      /\ q.at \in {"origin", "inserted"} => q.origin \in Stations
      /\ q.at = "inserted" => q.destination \in Stations
      /\ q.at = "quoted" =>
           q.key \in QuoteKeys /\ q.command \in QuoteCommand /\ q.made \in Quote
      /\ q.at = "adding" => q.row \in AddressRow
<1>1. ASSUME NEW q, Fit(q), client' = [client EXCEPT ![c] = q],
             UNCHANGED <<station, areas, rule, admin>>,
             address' \in [Addresses -> AddressRow \cup {None}],
             quotes' \in [QuoteIds -> Quote \cup {None}],
             shipments' \in [ShipmentIds -> Shipment \cup {None}],
             record' \in [Keys -> Answered \cup {None}],
             lock' \in [Keys -> Clients \cup {None}],
             replies' \in [Keys -> SUBSET (QuoteIds \cup ShipmentIds)],
             spent' \in 0 .. MaxRequests
      PROVE  Typed'
  BY <1>1 DEF Typed, TypeOK, Staged, Named
<1>2. Fit(client[c]) /\ client = [client EXCEPT ![c] = client[c]] /\ Fit(ClientIdle)
  BY IdleTypes DEF Typed, TypeOK, Staged, ClientIdle
<1>3. /\ UNCHANGED address => address' \in [Addresses -> AddressRow \cup {None}]
      /\ UNCHANGED quotes => quotes' \in [QuoteIds -> Quote \cup {None}]
      /\ UNCHANGED shipments => shipments' \in [ShipmentIds -> Shipment \cup {None}]
      /\ UNCHANGED record => record' \in [Keys -> Answered \cup {None}]
      /\ UNCHANGED lock => lock' \in [Keys -> Clients \cup {None}]
      /\ UNCHANGED replies => replies' \in [Keys -> SUBSET (QuoteIds \cup ShipmentIds)]
      /\ UNCHANGED spent => spent' \in 0 .. MaxRequests
      /\ spent < MaxRequests /\ spent' = spent + 1 => spent' \in 0 .. MaxRequests
      /\ lock' = Released(c) => lock' \in [Keys -> Clients \cup {None}]
  BY DeskAssumption DEF Typed, TypeOK, Released
<1> HIDE DEF Fit
\* A request under a key: replayed or begun.
<1>4. ASSUME NEW k \in Keys, NEW command, Replays(c, k, command) PROVE Typed'
  <2>1. record[k].answer \in QuoteIds \cup ShipmentIds
    BY <1>4 DEF Replays, Typed, TypeOK, Answered
  <2>2. replies' \in [Keys -> SUBSET (QuoteIds \cup ShipmentIds)]
    BY <1>4, <2>1 DEF Replays, Typed, TypeOK
  <2> QED
    BY <1>1, <1>2, <1>3, <1>4, <2>2 DEF Replays, Starts, stationTables
<1>5. ASSUME NEW k \in Keys, NEW command, NEW q, Fit(q), Executes(c, k, q) PROVE Typed'
  <2>1. lock' \in [Keys -> Clients \cup {None}]
    BY <1>5 DEF Executes, Typed, TypeOK
  <2> QED
    BY <1>1, <1>3, <1>5, <2>1 DEF Executes, Starts, stationTables
<1>6. CASE QuoteRequested(c)
  <2>1. PICK k \in QuoteKeys, command \in QuoteCommand :
          LET r == rule[RouteCode(command.origin, command.destination)]
          IN \/ Replays(c, k, command)
             \/ r # None /\ Executes(c, k, [ClientIdle EXCEPT
                  !.at = "quoted", !.key = k, !.command = command,
                  !.made = QuoteOf(command, r, None)])
    BY <1>6 DEF QuoteRequested
  <2> DEFINE r == rule[RouteCode(command.origin, command.destination)]
             q == [ClientIdle EXCEPT !.at = "quoted", !.key = k, !.command = command,
                                     !.made = QuoteOf(command, r, None)]
  <2>2. ASSUME r # None PROVE Fit(q)
    <3>1. RouteCode(command.origin, command.destination) \in Routes
      BY DEF RouteCode, Routes
    <3>2. r \in Rules
      BY <2>2, <3>1 DEF Typed, TypeOK
    <3>3. QuoteOf(command, r, None) \in Quote
      BY <3>2, QuoteOfType
    <3> QED
      BY <3>3 DEF Fit, ClientIdle, ClientRequest, Keys
  <2> HIDE DEF q
  <2>3. k \in Keys
    BY DEF Keys
  <2> QED
    BY <1>4, <1>5, <2>1, <2>2, <2>3 DEF q
<1>7. CASE QuoteCommits(c)
  <2>1. PICK i \in QuoteIds : /\ client[c].at = "quoted" /\ quotes[i] = None
                              /\ quotes' = [quotes EXCEPT ![i] = client[c].made]
                              /\ Records(c, i)
                              /\ UNCHANGED <<stationTables, address, rule, shipments, spent>>
    BY <1>7 DEF QuoteCommits
  <2>2. client[c].made \in Quote /\ client[c].key \in Keys /\ client[c].command \in QuoteCommand
    BY <2>1 DEF Typed, Staged, Keys
  <2>3. quotes' \in [QuoteIds -> Quote \cup {None}]
    BY <2>1, <2>2 DEF Typed, TypeOK
  <2>4. record' \in [Keys -> Answered \cup {None}]
    BY <2>1, <2>2 DEF Records, Saved, Completed, Answered, Typed, TypeOK
  <2>5. replies' \in [Keys -> SUBSET (QuoteIds \cup ShipmentIds)]
    BY <2>1, <2>2 DEF Records, Typed, TypeOK
  <2> QED
    BY <1>1, <1>2, <1>3, <2>1, <2>3, <2>4, <2>5 DEF Records, stationTables
<1>8. CASE Reweigh(c)
  <2>1. PICK q \in QuoteIds, new \in QuoteIds, package \in Packages :
          /\ quotes[q] # None /\ RuleOf(q) # None
          /\ quotes' = [quotes EXCEPT ![new] =
               QuoteOf([quotes[q].command EXCEPT !.package = package], RuleOf(q), q)]
    BY <1>8 DEF Reweigh
  <2>2. RuleOf(q) \in Rules /\ [quotes[q].command EXCEPT !.package = package] \in QuoteCommand
    BY <2>1 DEF Typed, TypeOK, RuleOf, Quote, QuoteCommand
  <2>3. quotes' \in [QuoteIds -> Quote \cup {None}]
    BY <2>1, <2>2, QuoteOfType DEF Typed, TypeOK
  <2> QED
    BY <1>1, <1>2, <1>3, <1>8, <2>3 DEF Reweigh, stationTables
<1>9. CASE OrderRequested(c)
  <2>1. PICK k \in OrderKeys, command \in OrderCommand :
          \/ Replays(c, k, command)
          \/ /\ address[command.sender] # None /\ address[command.receiver] # None
             /\ Executes(c, k, [ClientIdle EXCEPT
                  !.at = "working", !.key = k, !.command = command,
                  !.from = address[command.sender].district,
                  !.to = address[command.receiver].district])
    BY <1>9 DEF OrderRequested
  <2> DEFINE q == [ClientIdle EXCEPT
                    !.at = "working", !.key = k, !.command = command,
                    !.from = address[command.sender].district,
                    !.to = address[command.receiver].district]
  <2>2. ASSUME address[command.sender] # None, address[command.receiver] # None PROVE Fit(q)
    <3>1. /\ address[command.sender].district \in Districts
          /\ address[command.receiver].district \in Districts
      BY <2>2 DEF OrderCommand, AddressRow, Typed, TypeOK
    <3> QED
      BY <3>1 DEF Fit, ClientIdle, ClientRequest, Keys
  <2> HIDE DEF q
  <2>3. k \in Keys
    BY DEF Keys
  <2> QED
    BY <1>4, <1>5, <2>1, <2>2, <2>3 DEF q
<1>10. CASE MatchesOrigin(c)
  <2> DEFINE s == MatchStation(client[c].from, "HOME_PICKUP")
             q == [client[c] EXCEPT !.at = "origin", !.origin = s]
  <2>1. s \in Stations /\ client[c].at = "working"
    BY <1>10, MatchIsStation DEF MatchesOrigin, Typed, TypeOK
  <2> HIDE DEF s
  <2>2. q \in ClientRequest /\ client[c] \in ClientRequest
    BY <1>2, <2>1 DEF Fit, ClientRequest
  <2>3. Fit(q)
    BY <1>2, <2>1, <2>2 DEF Fit, ClientRequest
  <2> QED
    BY <1>1, <1>3, <1>10, <2>3 DEF MatchesOrigin, stationTables, orderTables, s
<1>11. CASE InsertsShipment(c)
  <2> DEFINE s == MatchStation(client[c].to, "HOME_DELIVERY")
             q == [client[c] EXCEPT !.at = "inserted", !.destination = s]
  <2>1. s \in Stations /\ client[c].at = "origin"
    BY <1>11, MatchIsStation DEF InsertsShipment, Typed, TypeOK
  <2> HIDE DEF s
  <2>2. q \in ClientRequest /\ client[c] \in ClientRequest
    BY <1>2, <2>1 DEF Fit, ClientRequest
  <2>3. Fit(q)
    BY <1>2, <2>1, <2>2 DEF Fit, ClientRequest
  <2> QED
    BY <1>1, <1>3, <1>11, <2>3 DEF InsertsShipment, stationTables, orderTables, s
<1>12. CASE OrderCommits(c)
  <2>1. PICK i \in ShipmentIds :
          /\ client[c].at = "inserted" /\ shipments[i] = None
          /\ shipments' = [shipments EXCEPT ![i] =
               [command |-> client[c].command, origin |-> client[c].origin,
                destination |-> client[c].destination, key |-> client[c].key]]
          /\ Records(c, i)
          /\ UNCHANGED <<stationTables, address, rule, quotes, spent>>
    BY <1>12 DEF OrderCommits
  <2>2. /\ client[c].key \in OrderKeys /\ client[c].command \in OrderCommand
        /\ client[c].origin \in Stations /\ client[c].destination \in Stations
    BY <2>1 DEF Typed, Staged
  <2>3. shipments' \in [ShipmentIds -> Shipment \cup {None}]
    BY <2>1, <2>2 DEF Shipment, Typed, TypeOK
  <2>4. record' \in [Keys -> Answered \cup {None}]
    BY <2>1, <2>2 DEF Records, Saved, Completed, Answered, Typed, TypeOK
  <2>5. replies' \in [Keys -> SUBSET (QuoteIds \cup ShipmentIds)]
    BY <2>1, <2>2 DEF Records, Typed, TypeOK
  <2> QED
    BY <1>1, <1>2, <1>3, <2>1, <2>3, <2>4, <2>5 DEF Records, stationTables
<1>13. CASE Dies(c)
  BY <1>1, <1>2, <1>3, <1>13 DEF Dies, Refused, stationTables
<1>14. CASE AddressRequested(c)
  <2>1. PICK row \in AddressRow :
          \/ /\ \E i \in Preferred(row) :
                  address' = [address EXCEPT ![i].ephemeral = @ /\ row.ephemeral]
             /\ UNCHANGED client
          \/ /\ client' = [client EXCEPT ![c] = [ClientIdle EXCEPT !.at = "adding", !.row = row]]
             /\ UNCHANGED address
    BY <1>14 DEF AddressRequested, AddressRow
  <2>2. address' \in [Addresses -> AddressRow \cup {None}]
    <3>1. CASE UNCHANGED address
      BY <1>3, <3>1
    <3>2. CASE \E i \in Preferred(row) :
                 address' = [address EXCEPT ![i].ephemeral = @ /\ row.ephemeral]
      <4>1. PICK i \in Preferred(row) :
              address' = [address EXCEPT ![i].ephemeral = @ /\ row.ephemeral]
        BY <3>2
      <4>2. i \in Addresses /\ address[i] \in AddressRow
        BY DEF Preferred, Matching, Live, Typed, TypeOK
      <4>3. [address[i] EXCEPT !.ephemeral = @ /\ row.ephemeral] \in AddressRow
        BY <4>2 DEF AddressRow
      <4> QED
        BY <4>1, <4>2, <4>3 DEF Typed, TypeOK
    <3> QED
      BY <2>1, <3>1, <3>2
  <2>3. Fit([ClientIdle EXCEPT !.at = "adding", !.row = row])
    BY DEF Fit, ClientIdle, ClientRequest
  <2>4. \E q : Fit(q) /\ client' = [client EXCEPT ![c] = q]
    BY <1>2, <2>1, <2>3
  <2> QED
    BY <1>1, <1>3, <1>14, <2>2, <2>4 DEF AddressRequested, Starts, stationTables
<1>15. CASE AddsAddress(c)
  <2>1. address' \in [Addresses -> AddressRow \cup {None}]
    BY <1>15 DEF AddsAddress, Typed, TypeOK, Staged
  <2> QED
    BY <1>1, <1>2, <1>3, <1>15, <2>1 DEF AddsAddress, stationTables, orderTables
<1>16. CASE UpdateAddress(c)
  <2>1. PICK i \in Addresses, d \in Districts, contact \in Contacts :
          Live(i) /\ address' = [address EXCEPT ![i].district = d, ![i].contact = contact]
    BY <1>16 DEF UpdateAddress
  <2>2. address[i] \in AddressRow
    BY <2>1 DEF Live, Typed, TypeOK
  <2>3. [address[i] EXCEPT !.district = d, !.contact = contact] \in AddressRow
    BY ONLY <2>2, d \in Districts, contact \in Contacts DEF AddressRow
  <2>4. address' \in [Addresses -> AddressRow \cup {None}]
    BY <2>1, <2>3 DEF Typed, TypeOK
  <2> QED
    BY <1>1, <1>2, <1>3, <1>16, <2>4 DEF UpdateAddress, Starts, stationTables
<1>17. CASE RemoveAddress(c)
  <2>1. PICK i \in Addresses : Live(i) /\ address' = [address EXCEPT ![i] = MarkedDeleted(i)]
    BY <1>17 DEF RemoveAddress
  <2>2. address[i] \in AddressRow
    BY <2>1 DEF Live, Typed, TypeOK
  <2>3. MarkedDeleted(i) \in AddressRow
    BY <2>2 DEF MarkedDeleted, AddressRow
  <2>4. address' \in [Addresses -> AddressRow \cup {None}]
    BY <2>1, <2>3 DEF Typed, TypeOK
  <2> QED
    BY <1>1, <1>2, <1>3, <1>17, <2>4 DEF RemoveAddress, Starts, stationTables
<1> QED
  BY <1>6, <1>7, <1>8, <1>9, <1>10, <1>11, <1>12, <1>13, <1>14, <1>15, <1>16, <1>17 DEF Orders

LEMMA NextTyped == Typed /\ [Next]_vars => Typed'
<1> SUFFICES ASSUME Typed, [Next]_vars PROVE Typed'
  OBVIOUS
<1>1. CASE RuleChanges
  <2>1. PICK route \in RoutesAsked, r \in Rules \cup {None} :
          rule' = [rule EXCEPT ![route] = r] /\ spent < MaxRequests /\ spent' = spent + 1
    BY <1>1 DEF RuleChanges
  <2>2. rule' \in [Routes -> Rules \cup {None}]
    <3>1. rule \in [Routes -> Rules \cup {None}]
      BY DEF Typed, TypeOK
    <3> QED
      BY ONLY <2>1, <3>1
  <2>3. spent' \in 0 .. MaxRequests
    BY <2>1, DeskAssumption DEF Typed, TypeOK
  <2> QED
    BY <1>1, <2>2, <2>3
       DEF RuleChanges, Typed, TypeOK, Staged, Named, stationTables, orderTables
<1>2. CASE UNCHANGED vars
  BY <1>2 DEF vars, Typed, TypeOK, Staged, Named
<1> QED
  BY <1>1, <1>2, AdminTyped, ClientTyped DEF Next

-----------------------------------------------------------------------------
(* Keys *)

\* The answer kept for a key is the shipment made for it, and so is every reply.
AnswersTrue ==
  /\ \A i \in ShipmentIds : shipments[i] # None =>
       record[shipments[i].key] # None /\ record[shipments[i].key].answer = i
  /\ \A k \in OrderKeys : record[k] # None =>
       /\ record[k].answer \in ShipmentIds
       /\ shipments[record[k].answer] # None /\ shipments[record[k].answer].key = k
  /\ \A k \in OrderKeys : \A i \in replies[k] : record[k] # None /\ record[k].answer = i

LEMMA InitKeys == Init => WorksAlone /\ AnswersTrue
  BY DeskAssumption DEF Init, WorksAlone, AnswersTrue, ClientIdle, Keys

\* A key that is worked on is locked by that request, and has no record.
LEMMA NextAlone == Typed /\ WorksAlone /\ [Next]_vars => WorksAlone'
<1> SUFFICES ASSUME Typed, WorksAlone, [Next]_vars PROVE WorksAlone'
  OBVIOUS
<1> USE DEF WorksAlone
<1>1. CASE UNCHANGED <<client, lock, record>>
  BY <1>1
<1>2. ASSUME NEW c \in Clients, NEW k \in Keys, NEW command, Replays(c, k, command)
      PROVE  WorksAlone'
  BY <1>1, <1>2 DEF Replays, Starts
\* A request that takes a free key.
<1>3. ASSUME NEW c \in Clients, NEW k \in Keys, NEW q, q.key = k, Executes(c, k, q)
      PROVE  WorksAlone'
  <2>1. /\ lock' = [lock EXCEPT ![k] = c] /\ client' = [client EXCEPT ![c] = q]
        /\ record' = record /\ record[k] = None /\ lock[k] = None
    BY <1>3 DEF Executes, Starts, FreeKey
  <2>2. ASSUME NEW d \in Clients, client[d].key = k PROVE FALSE
    BY <2>1, <2>2, DeskAssumption DEF Keys
  <2> QED
    BY <1>3, <2>1, <2>2 DEF Typed, TypeOK, ClientRequest
\* A request that leaves its key, with a record or without one.
<1>4. ASSUME NEW c \in Clients, client' = [client EXCEPT ![c] = ClientIdle],
             lock' = Released(c),
             \/ record' = record
             \/ /\ client[c].key \in Keys
                /\ \E x : record' = [record EXCEPT ![client[c].key] = x]
      PROVE  WorksAlone'
  <2> SUFFICES ASSUME NEW d \in Clients, client'[d].key # None
               PROVE  lock'[client'[d].key] = d /\ record'[client'[d].key] = None
    OBVIOUS
  <2>1. d # c /\ client'[d] = client[d]
    BY <1>4 DEF ClientIdle, Typed, TypeOK
  <2>2. client[d].key \in Keys /\ lock[client[d].key] = d /\ record[client[d].key] = None
    BY <2>1 DEF Typed, TypeOK, ClientRequest
  <2>3. client[c].key \in Keys => client[c].key # client[d].key
    BY <2>1, <2>2, DeskAssumption DEF Keys
  <2> QED
    BY <1>4, <2>1, <2>2, <2>3 DEF Released, Typed, TypeOK
\* A request that goes on.
<1>5. ASSUME NEW c \in Clients, NEW q, q.key = client[c].key,
             client' = [client EXCEPT ![c] = q], UNCHANGED <<lock, record>>
      PROVE  WorksAlone'
  BY <1>5 DEF Typed, TypeOK
<1>6. ASSUME NEW c \in Clients, Orders(c) PROVE WorksAlone'
  <2>1. CASE QuoteRequested(c)
    BY <1>2, <1>3, <2>1 DEF QuoteRequested, Keys, ClientIdle
  <2>2. CASE QuoteCommits(c)
    <3>1. client[c].key \in Keys
      BY <2>2 DEF QuoteCommits, Typed, Staged, Keys
    <3> QED
      BY <1>4, <2>2, <3>1 DEF QuoteCommits, Records, Saved
  <2>3. CASE OrderRequested(c)
    BY <1>2, <1>3, <2>3 DEF OrderRequested, Keys, ClientIdle
  <2>4. CASE MatchesOrigin(c)
    <3> DEFINE s == MatchStation(client[c].from, "HOME_PICKUP")
    <3>1. [client[c] EXCEPT !.at = "origin", !.origin = s].key = client[c].key
      BY DEF Typed, TypeOK, ClientRequest
    <3> QED
      BY <1>5, <2>4, <3>1, Zenon DEF MatchesOrigin, orderTables
  <2>5. CASE InsertsShipment(c)
    <3> DEFINE s == MatchStation(client[c].to, "HOME_DELIVERY")
    <3>1. [client[c] EXCEPT !.at = "inserted", !.destination = s].key = client[c].key
      BY DEF Typed, TypeOK, ClientRequest
    <3> QED
      BY <1>5, <2>5, <3>1, Zenon DEF InsertsShipment, orderTables
  <2>6. CASE OrderCommits(c)
    <3>1. client[c].key \in Keys
      BY <2>6 DEF OrderCommits, Typed, Staged, Keys
    <3> QED
      BY <1>4, <2>6, <3>1 DEF OrderCommits, Records, Saved
  <2>7. CASE Dies(c)
    BY <1>4, <2>7 DEF Dies, Refused
  <2>8. CASE AddressRequested(c)
    <3>1. client[c].key = None
      BY <2>8 DEF AddressRequested, Starts, Typed, Staged
    <3>2. UNCHANGED <<lock, record>>
      BY <2>8 DEF AddressRequested, Starts
    <3>3. \/ UNCHANGED client
          \/ \E row : client' = [client EXCEPT ![c] = [ClientIdle EXCEPT !.at = "adding", !.row = row]]
      BY <2>8 DEF AddressRequested
    <3> QED
      BY <1>1, <1>5, <3>1, <3>2, <3>3 DEF ClientIdle
  <2>9. CASE AddsAddress(c)
    <3>1. client[c].key = None
      BY <2>9 DEF AddsAddress, Typed, Staged
    <3> QED
      BY <1>5, <2>9, <3>1 DEF AddsAddress, ClientIdle, orderTables
  <2>10. CASE Reweigh(c) \/ UpdateAddress(c) \/ RemoveAddress(c)
    BY <1>1, <2>10 DEF Reweigh, UpdateAddress, RemoveAddress, Starts
  <2> QED
    BY <1>6, <2>1, <2>2, <2>3, <2>4, <2>5, <2>6, <2>7, <2>8, <2>9, <2>10 DEF Orders
<1>7. ASSUME NEW a \in Admins, Administrates(a) PROVE UNCHANGED <<client, lock, record>>
  BY <1>7
     DEF Administrates, CreateStation, UpdateStation, SetStationEnabled, DeleteStation, Begins,
         ChecksAreas, FindsAreas, ReplacesAreas, SwitchesStation, DeletesStation, AdminCommits,
         AdminDies, Leaves, orderTables
<1>8. CASE RuleChanges
  BY <1>1, <1>8 DEF RuleChanges, orderTables
<1>9. CASE UNCHANGED vars
  BY <1>1, <1>9 DEF vars
<1> QED
  BY <1>1, <1>6, <1>7, <1>8, <1>9 DEF Next

LEMMA NextAnswers == Typed /\ WorksAlone /\ AnswersTrue /\ [Next]_vars => AnswersTrue'
<1> SUFFICES ASSUME Typed, WorksAlone, AnswersTrue, [Next]_vars PROVE AnswersTrue'
  OBVIOUS
<1>1. CASE UNCHANGED <<shipments, record, replies>>
  BY <1>1 DEF AnswersTrue
<1>2. ASSUME NEW c \in Clients, NEW k \in Keys, NEW command, Replays(c, k, command)
      PROVE  AnswersTrue'
  <2>1. UNCHANGED <<shipments, record>> /\ record[k] # None
    BY <1>2 DEF Replays, Starts
  <2>2. \/ replies' = replies
        \/ replies' = [replies EXCEPT ![k] = @ \cup {record[k].answer}]
    BY <1>2 DEF Replays
  <2>3. ASSUME NEW l \in Keys, NEW j \in replies'[l]
        PROVE  j \in replies[l] \/ (l = k /\ j = record[k].answer)
    <3>1. CASE replies' = replies
      BY <2>3, <3>1
    <3>2. CASE replies' = [replies EXCEPT ![k] = @ \cup {record[k].answer}]
      <4>1. replies'[l] = IF l = k THEN replies[k] \cup {record[k].answer} ELSE replies[l]
        BY <3>2 DEF Typed, TypeOK
      <4> QED
        BY <2>3, <4>1
    <3> QED
      BY <2>2, <3>1, <3>2
  <2> QED
    BY <2>1, <2>3 DEF AnswersTrue, Keys
<1>3. ASSUME NEW c \in Clients, QuoteRequested(c) PROVE AnswersTrue'
  <2>1. ASSUME NEW k \in QuoteKeys, NEW command, NEW q, Executes(c, k, q) PROVE AnswersTrue'
    BY <1>1, <2>1 DEF Executes, Starts
  <2> QED
    BY <1>2, <1>3, <2>1 DEF QuoteRequested, Keys
<1>4. ASSUME NEW c \in Clients, OrderRequested(c) PROVE AnswersTrue'
  <2>1. ASSUME NEW k \in OrderKeys, NEW command, NEW q, Executes(c, k, q) PROVE AnswersTrue'
    BY <1>1, <2>1 DEF Executes, Starts
  <2> QED
    BY <1>2, <1>4, <2>1 DEF OrderRequested, Keys
<1>5. ASSUME NEW c \in Clients, QuoteCommits(c) PROVE AnswersTrue'
  <2>1. client[c].key \in QuoteKeys /\ client[c].key \notin OrderKeys
    BY <1>5, DeskAssumption DEF QuoteCommits, Typed, Staged
  <2>2. shipments' = shipments /\ \A k \in OrderKeys : record'[k] = record[k] /\ replies'[k] = replies[k]
    BY <1>5, <2>1 DEF QuoteCommits, Records, Saved, Typed, TypeOK, Keys
  <2>3. \A i \in ShipmentIds : shipments[i] # None => shipments[i].key \in OrderKeys
    BY DEF Typed, TypeOK, Shipment
  <2> QED
    BY <2>2, <2>3 DEF AnswersTrue
<1>6. ASSUME NEW c \in Clients, OrderCommits(c) PROVE AnswersTrue'
  <2> DEFINE k == client[c].key
             new == [command |-> client[c].command, origin |-> client[c].origin,
                     destination |-> client[c].destination, key |-> k]
  <2>1. PICK i \in ShipmentIds :
          /\ client[c].at = "inserted" /\ shipments[i] = None
          /\ shipments' = [shipments EXCEPT ![i] = new]
          /\ Records(c, i)
    BY <1>6 DEF OrderCommits
  <2>2. k \in OrderKeys /\ k \in Keys /\ record[k] = None
    BY <2>1 DEF Typed, Staged, Keys, Records
  <2>3. /\ record' = [record EXCEPT ![k] = [command |-> client[c].command, answer |-> i]]
        /\ replies' = replies \/ replies' = [replies EXCEPT ![k] = @ \cup {i}]
    BY <2>1 DEF Records, Saved, Completed
  <2>4. /\ new # None /\ new.key = k
        /\ [command |-> client[c].command, answer |-> i] # None
    <3>1. new \in Shipment
      BY <2>1, <2>2 DEF Shipment, Typed, Staged
    <3>2. [command |-> client[c].command, answer |-> i] \in Answered
      BY <2>1 DEF Answered, Typed, Staged
    <3> QED
      BY <3>1, <3>2, RowsAssumption
  <2>5. ASSUME NEW j \in ShipmentIds, shipments'[j] # None
        PROVE  record'[shipments'[j].key] # None /\ record'[shipments'[j].key].answer = j
    <3>1. CASE j = i
      BY <2>1, <2>2, <2>3, <2>4, <3>1 DEF Typed, TypeOK
    <3>2. CASE j # i
      <4>1. shipments'[j] = shipments[j] /\ shipments[j].key # k
        BY <2>1, <2>2, <2>5, <3>2 DEF Typed, TypeOK, AnswersTrue
      <4> QED
        BY <2>3, <2>5, <4>1 DEF Typed, TypeOK, AnswersTrue
    <3> QED
      BY <3>1, <3>2
  <2>6. ASSUME NEW l \in OrderKeys, record'[l] # None
        PROVE  /\ record'[l].answer \in ShipmentIds
               /\ shipments'[record'[l].answer] # None /\ shipments'[record'[l].answer].key = l
    <3>1. CASE l = k
      <4>1. record'[l].answer = i
        BY <2>2, <2>3, <3>1 DEF Typed, TypeOK
      <4> QED
        BY <2>1, <2>2, <2>4, <3>1, <4>1 DEF Typed, TypeOK
    <3>2. CASE l # k
      <4>1. record'[l] = record[l]
        BY <2>3, <3>2 DEF Typed, TypeOK
      <4>2. record[l].answer \in ShipmentIds /\ record[l].answer # i
            /\ shipments[record[l].answer] # None /\ shipments[record[l].answer].key = l
        BY <2>1, <2>6, <4>1 DEF AnswersTrue
      <4> QED
        BY <2>1, <4>1, <4>2 DEF Typed, TypeOK
    <3> QED
      BY <3>1, <3>2
  <2>7. ASSUME NEW l \in OrderKeys, NEW j \in replies'[l]
        PROVE  record'[l] # None /\ record'[l].answer = j
    <3>1. CASE l = k
      <4>1. j = i
        BY <2>2, <2>3, <2>7, <3>1 DEF AnswersTrue, Typed, TypeOK
      <4> QED
        BY <2>2, <2>3, <2>4, <3>1, <4>1 DEF Typed, TypeOK
    <3>2. CASE l # k
      <4>1. replies'[l] = replies[l] /\ record'[l] = record[l]
        BY <2>3, <3>2 DEF Typed, TypeOK, Keys
      <4> QED
        BY <2>7, <4>1 DEF AnswersTrue
    <3> QED
      BY <3>1, <3>2
  <2> QED
    BY <2>5, <2>6, <2>7 DEF AnswersTrue
<1>7. ASSUME NEW c \in Clients,
             \/ Reweigh(c) \/ MatchesOrigin(c) \/ InsertsShipment(c) \/ Dies(c)
             \/ AddressRequested(c) \/ AddsAddress(c) \/ UpdateAddress(c) \/ RemoveAddress(c)
      PROVE  UNCHANGED <<shipments, record, replies>>
  BY <1>7
     DEF Reweigh, MatchesOrigin, InsertsShipment, Dies, Refused, AddressRequested, AddsAddress,
         UpdateAddress, RemoveAddress, Starts, orderTables
<1>8. ASSUME NEW a \in Admins, Administrates(a) PROVE UNCHANGED <<shipments, record, replies>>
  BY <1>8
     DEF Administrates, CreateStation, UpdateStation, SetStationEnabled, DeleteStation, Begins,
         ChecksAreas, FindsAreas, ReplacesAreas, SwitchesStation, DeletesStation, AdminCommits,
         AdminDies, Leaves, orderTables
<1>9. CASE RuleChanges
  BY <1>1, <1>9 DEF RuleChanges, orderTables
<1>10. CASE UNCHANGED vars
  BY <1>1, <1>10 DEF vars
<1> QED
  BY <1>1, <1>3, <1>4, <1>5, <1>6, <1>7, <1>8, <1>9, <1>10 DEF Next, Orders

-----------------------------------------------------------------------------
(* Quotes and prices *)

\* A quote is the calculation by its own rule, and a reweigh has the rule and the services
\* of its source.
Calculated(q) ==
  q.total = TotalCents(q.rule, q.command.package, FeeFor(q.command.services))

Follows(q, first) ==
  /\ first # None
  /\ first.rule = q.rule /\ first.command.services = q.command.services

QuotesTrue ==
  /\ \A q \in QuoteIds : quotes[q] # None =>
       /\ Calculated(quotes[q])
       /\ quotes[q].source # None => Follows(quotes[q], quotes[quotes[q].source])
  /\ \A c \in Clients : client[c].at = "quoted" =>
       Calculated(client[c].made) /\ client[c].made.source = None

\* An order, and the shipment that comes of it, has a quote of its package.
OrdersQuoted ==
  /\ \A c \in Clients : client[c].at \in {"working", "origin", "inserted"} =>
       QuoteMatches(client[c].command)
  /\ \A i \in ShipmentIds : shipments[i] # None => QuoteMatches(shipments[i].command)

Quoting == QuotesTrue /\ OrdersQuoted

LEMMA QuoteOfCalculated ==
  ASSUME NEW command, NEW r, NEW source
  PROVE  Calculated(QuoteOf(command, r, source))
  BY DEF Calculated, QuoteOf

LEMMA InitQuoting == Init => Quoting
<1> SUFFICES ASSUME Init PROVE Quoting
  OBVIOUS
<1>1. PICK q \in QuoteIds : \E command, r :
        quotes = [[i \in QuoteIds |-> None] EXCEPT ![q] = QuoteOf(command, r, None)]
  BY DEF Init
<1>2. PICK command, r :
        quotes = [[i \in QuoteIds |-> None] EXCEPT ![q] = QuoteOf(command, r, None)]
  BY <1>1
<1>3. \A i \in QuoteIds : quotes[i] # None =>
        Calculated(quotes[i]) /\ quotes[i].source = None
  BY <1>2, QuoteOfCalculated DEF QuoteOf
<1>4. /\ \A c \in Clients : client[c].at = "idle"
      /\ \A i \in ShipmentIds : shipments[i] = None
  BY DEF Init, ClientIdle
<1> QED
  BY <1>3, <1>4 DEF Quoting, QuotesTrue, OrdersQuoted

\* Quotes are added and never changed.
LEMMA QuotesStay ==
  ASSUME Typed, Quoting, NEW new \in QuoteIds, quotes[new] = None, NEW q \in Quote,
         quotes' = [quotes EXCEPT ![new] = q], Calculated(q),
         q.source # None => Follows(q, quotes[q.source])
  PROVE  /\ \A i \in QuoteIds : quotes'[i] # None =>
              /\ Calculated(quotes'[i])
              /\ quotes'[i].source # None => Follows(quotes'[i], quotes'[quotes'[i].source])
         /\ \A i \in QuoteIds : quotes[i] # None => quotes'[i] = quotes[i]
<1>1. \A i \in QuoteIds : quotes[i] # None => quotes'[i] = quotes[i]
  BY DEF Typed, TypeOK
<1>2. quotes'[new] = q /\ q.source \in QuoteIds \cup {None}
  BY DEF Typed, TypeOK, Quote
<1>3. \A i \in QuoteIds : quotes[i] # None => quotes[i].source \in QuoteIds \cup {None}
  BY DEF Typed, TypeOK, Quote
<1>4. \A i \in QuoteIds : i # new => quotes'[i] = quotes[i]
  BY DEF Typed, TypeOK
<1> QED
  BY <1>1, <1>2, <1>3, <1>4 DEF Quoting, QuotesTrue, Follows

LEMMA NextQuoting == Typed /\ Quoting /\ [Next]_vars => Quoting'
<1> SUFFICES ASSUME Typed, Quoting, [Next]_vars PROVE Quoting'
  OBVIOUS
<1> DEFINE Kept == \A i \in QuoteIds : quotes[i] # None => quotes'[i] = quotes[i]
           Rows == \A i \in QuoteIds : quotes'[i] # None =>
                     /\ Calculated(quotes'[i])
                     /\ quotes'[i].source # None =>
                          Follows(quotes'[i], quotes'[quotes'[i].source])
           Fit(q) == /\ q.at = "quoted" => Calculated(q.made) /\ q.made.source = None
                     /\ q.at \in {"working", "origin", "inserted"} => QuoteMatches(q.command)
\* Every step adds quotes at most, begins or goes on with one request, adds a shipment.
<1>1. ASSUME Kept, Rows,
             \/ client' = client
             \/ \E c \in Clients : \E q : Fit(q) /\ client' = [client EXCEPT ![c] = q],
             \A i \in ShipmentIds : shipments'[i] # None =>
               shipments'[i] = shipments[i] \/ QuoteMatches(shipments'[i].command)
      PROVE  Quoting'
  <2>1. ASSUME NEW command, command.quote \in QuoteIds, QuoteMatches(command)
        PROVE  quotes'[command.quote] # None
               /\ quotes'[command.quote].command.package = command.package
    BY <1>1, <2>1 DEF QuoteMatches
  <2>2. ASSUME NEW c \in Clients PROVE Fit(client'[c])
    BY <1>1 DEF Quoting, QuotesTrue, OrdersQuoted, Typed, TypeOK
  <2>3. Typed'
    BY NextTyped
  <2>4. ASSUME NEW c \in Clients, client'[c].at \in {"working", "origin", "inserted"}
        PROVE  QuoteMatches(client[c].command)'
    BY <2>1, <2>2, <2>3, <2>4 DEF QuoteMatches, Typed, Staged, OrderCommand
  <2>5. ASSUME NEW i \in ShipmentIds, shipments'[i] # None
        PROVE  QuoteMatches(shipments[i].command)'
    <3>1. QuoteMatches(shipments'[i].command)
      BY <1>1, <2>5 DEF Quoting, OrdersQuoted
    <3>2. shipments'[i].command.quote \in QuoteIds
      BY <2>3, <2>5 DEF Typed, TypeOK, Shipment, OrderCommand
    <3> QED
      BY <2>1, <3>1, <3>2 DEF QuoteMatches
  <2> QED
    BY <1>1, <2>2, <2>4, <2>5 DEF Quoting, QuotesTrue, OrdersQuoted
<1>2. UNCHANGED quotes => Kept /\ Rows
  BY DEF Quoting, QuotesTrue
<1>3. \A c \in Clients : Fit(client[c])
  BY DEF Quoting, QuotesTrue, OrdersQuoted
<1>4. Fit(ClientIdle)
  BY DEF ClientIdle
<1>5. UNCHANGED shipments => \A i \in ShipmentIds : shipments'[i] # None =>
               shipments'[i] = shipments[i] \/ QuoteMatches(shipments'[i].command)
  OBVIOUS
<1> HIDE DEF Kept, Rows, Fit
<1>6. CASE UNCHANGED <<quotes, client, shipments>>
  BY <1>1, <1>2, <1>5, <1>6
<1>7. ASSUME NEW c \in Clients, QuoteRequested(c) PROVE Quoting'
  <2>1. UNCHANGED <<quotes, shipments>>
    BY <1>7 DEF QuoteRequested, Replays, Executes, Starts
  <2>2. client' = client \/ \E q : Fit(q) /\ client' = [client EXCEPT ![c] = q]
    <3>1. PICK k, command :
            LET r == rule[RouteCode(command.origin, command.destination)]
            IN \/ Replays(c, k, command)
               \/ Executes(c, k, [ClientIdle EXCEPT
                    !.at = "quoted", !.key = k, !.command = command,
                    !.made = QuoteOf(command, r, None)])
      BY <1>7 DEF QuoteRequested
    <3> DEFINE made == QuoteOf(command, rule[RouteCode(command.origin, command.destination)], None)
    <3>2. Calculated(made) /\ made.source = None
      BY QuoteOfCalculated DEF QuoteOf
    <3> HIDE DEF made
    <3>3. Fit([ClientIdle EXCEPT !.at = "quoted", !.key = k, !.command = command, !.made = made])
      BY <3>2 DEF Fit, ClientIdle
    <3> QED
      BY <3>1, <3>3 DEF Replays, Executes, made
  <2> QED
    BY <1>1, <1>2, <1>5, <2>1, <2>2
<1>8. ASSUME NEW c \in Clients, QuoteCommits(c) PROVE Quoting'
  <2>1. PICK q \in QuoteIds : /\ client[c].at = "quoted" /\ quotes[q] = None
                              /\ quotes' = [quotes EXCEPT ![q] = client[c].made]
    BY <1>8 DEF QuoteCommits
  <2>2. /\ client[c].made \in Quote /\ Calculated(client[c].made)
        /\ client[c].made.source = None
    BY <2>1 DEF Typed, Staged, Quoting, QuotesTrue
  <2>3. Kept /\ Rows
    BY <2>1, <2>2, QuotesStay DEF Kept, Rows
  <2> QED
    BY <1>1, <1>4, <1>5, <1>8, <2>3 DEF QuoteCommits, Records
<1>9. ASSUME NEW c \in Clients, Reweigh(c) PROVE Quoting'
  <2>1. PICK q \in QuoteIds, new \in QuoteIds, package \in Packages :
          /\ quotes[q] # None /\ quotes[new] = None /\ RuleOf(q) # None
          /\ quotes' = [quotes EXCEPT ![new] =
               QuoteOf([quotes[q].command EXCEPT !.package = package], RuleOf(q), q)]
    BY <1>9 DEF Reweigh
  <2> DEFINE made == QuoteOf([quotes[q].command EXCEPT !.package = package], RuleOf(q), q)
  <2>2. RuleOf(q) \in Rules /\ [quotes[q].command EXCEPT !.package = package] \in QuoteCommand
    BY <2>1 DEF Typed, TypeOK, RuleOf, Quote, QuoteCommand
  <2>3. made \in Quote /\ Calculated(made)
    BY <2>2, QuoteOfType, QuoteOfCalculated
  <2>4. made.source = q /\ Follows(made, quotes[q])
    BY <2>1, <2>2 DEF QuoteOf, RuleOf, Follows, QuoteCommand, Quote, Typed, TypeOK
  <2> HIDE DEF made
  <2>5. Kept /\ Rows
    BY <2>1, <2>3, <2>4, QuotesStay DEF Kept, Rows, made
  <2> QED
    BY <1>1, <1>5, <1>9, <2>5 DEF Reweigh
<1>10. ASSUME NEW c \in Clients, OrderRequested(c) PROVE Quoting'
  <2>1. UNCHANGED <<quotes, shipments>>
    BY <1>10 DEF OrderRequested, Replays, Executes, Starts
  <2>2. client' = client \/ \E q : Fit(q) /\ client' = [client EXCEPT ![c] = q]
    <3>1. PICK k, command :
            \/ Replays(c, k, command)
            \/ /\ QuoteMatches(command)
               /\ Executes(c, k, [ClientIdle EXCEPT
                    !.at = "working", !.key = k, !.command = command,
                    !.from = address[command.sender].district,
                    !.to = address[command.receiver].district])
      BY <1>10 DEF OrderRequested
    <3>2. QuoteMatches(command) =>
            Fit([ClientIdle EXCEPT
                    !.at = "working", !.key = k, !.command = command,
                    !.from = address[command.sender].district,
                    !.to = address[command.receiver].district])
      BY DEF Fit, ClientIdle
    <3> QED
      BY <3>1, <3>2 DEF Replays, Executes
  <2> QED
    BY <1>1, <1>2, <1>5, <2>1, <2>2
<1>11. ASSUME NEW c \in Clients, MatchesOrigin(c) \/ InsertsShipment(c) PROVE Quoting'
  <2>1. UNCHANGED <<quotes, shipments>> /\ client[c].at \in {"working", "origin"}
    BY <1>11 DEF MatchesOrigin, InsertsShipment, orderTables
  <2>2. \E q : /\ q.at \in {"origin", "inserted"} /\ q.command = client[c].command
               /\ client' = [client EXCEPT ![c] = q]
    <3>1. \A s : /\ [client[c] EXCEPT !.at = "origin", !.origin = s].at = "origin"
                 /\ [client[c] EXCEPT !.at = "origin", !.origin = s].command = client[c].command
                 /\ [client[c] EXCEPT !.at = "inserted", !.destination = s].at = "inserted"
                 /\ [client[c] EXCEPT !.at = "inserted", !.destination = s].command
                      = client[c].command
      BY DEF Typed, TypeOK, ClientRequest
    <3>2. \/ client' = [client EXCEPT ![c] = [client[c] EXCEPT
                 !.at = "origin", !.origin = MatchStation(client[c].from, "HOME_PICKUP")]]
          \/ client' = [client EXCEPT ![c] = [client[c] EXCEPT
                 !.at = "inserted", !.destination = MatchStation(client[c].to, "HOME_DELIVERY")]]
      BY <1>11 DEF MatchesOrigin, InsertsShipment
    <3> QED
      BY <3>1, <3>2
  <2>3. QuoteMatches(client[c].command)
    BY <2>1 DEF Quoting, OrdersQuoted
  <2>4. \E q : Fit(q) /\ client' = [client EXCEPT ![c] = q]
    BY <2>2, <2>3 DEF Fit
  <2> QED
    BY <1>1, <1>2, <1>5, <2>1, <2>4
<1>12. ASSUME NEW c \in Clients, OrderCommits(c) PROVE Quoting'
  <2>1. PICK i \in ShipmentIds :
          /\ client[c].at = "inserted"
          /\ shipments' = [shipments EXCEPT ![i] =
               [command |-> client[c].command, origin |-> client[c].origin,
                destination |-> client[c].destination, key |-> client[c].key]]
    BY <1>12 DEF OrderCommits
  <2>2. QuoteMatches(client[c].command)
    BY <2>1 DEF Quoting, OrdersQuoted
  <2>3. \A j \in ShipmentIds : shipments'[j] # None =>
               shipments'[j] = shipments[j] \/ QuoteMatches(shipments'[j].command)
    BY <2>1, <2>2 DEF Typed, TypeOK
  <2> QED
    BY <1>1, <1>2, <1>4, <1>12, <2>3 DEF OrderCommits, Records
<1>13. ASSUME NEW c \in Clients,
              Dies(c) \/ AddressRequested(c) \/ AddsAddress(c) \/ UpdateAddress(c) \/ RemoveAddress(c)
       PROVE  Quoting'
  <2>1. UNCHANGED <<quotes, shipments>>
    BY <1>13 DEF Dies, Refused, AddressRequested, AddsAddress, UpdateAddress, RemoveAddress,
                 Starts, orderTables
  <2>2. \A row : Fit([ClientIdle EXCEPT !.at = "adding", !.row = row])
    BY DEF Fit, ClientIdle
  <2>3. client' = client \/ \E q : Fit(q) /\ client' = [client EXCEPT ![c] = q]
    BY <1>4, <1>13, <2>2 DEF Dies, Refused, AddressRequested, AddsAddress, UpdateAddress,
                             RemoveAddress
  <2> QED
    BY <1>1, <1>2, <1>5, <2>1, <2>3
<1>14. ASSUME NEW a \in Admins, Administrates(a) PROVE UNCHANGED <<quotes, client, shipments>>
  BY <1>14
     DEF Administrates, CreateStation, UpdateStation, SetStationEnabled, DeleteStation, Begins,
         ChecksAreas, FindsAreas, ReplacesAreas, SwitchesStation, DeletesStation, AdminCommits,
         AdminDies, Leaves, orderTables
<1>15. CASE RuleChanges
  BY <1>6, <1>15 DEF RuleChanges, orderTables
<1>16. CASE UNCHANGED vars
  BY <1>6, <1>16 DEF vars
<1> QED
  BY <1>6, <1>7, <1>8, <1>9, <1>10, <1>11, <1>12, <1>13, <1>14, <1>15, <1>16
     DEF Next, Orders

-----------------------------------------------------------------------------
(* Service areas *)

\* Both services of a district go together.
Paired(rows) ==
  \A x \in rows : \A v \in HomeServices :
    [district |-> x.district, service |-> v, station |-> x.station] \in rows

\* What a request finds, deletes and adds; only a flushed one deletes or adds.
Changes ==
  \A a \in Admins :
    /\ Paired(admin[a].target) /\ Paired(admin[a].gone) /\ Paired(admin[a].added)
    /\ admin[a].at # "ready" => admin[a].gone = {} /\ admin[a].added = {}
    /\ \A x \in admin[a].added : x.station = admin[a].station

\* What is added meets no area that stays, and nothing another request deletes or adds.
Apart ==
  \A a \in Admins : \A x \in admin[a].added :
    /\ \A y \in areas \ admin[a].gone : ~SameKey(x, y)
    /\ \A b \in Admins \ {a} : \A y \in admin[b].gone \cup admin[b].added : ~SameKey(x, y)

Settled ==
  /\ Paired(areas)
  /\ \A x, y \in areas : SameKey(x, y) => x.station = y.station
  /\ Changes /\ Apart

LEMMA PairedSets ==
  ASSUME NEW X, NEW Y, Paired(X), Paired(Y)
  PROVE  Paired(X \cap Y) /\ Paired(X \cup Y) /\ Paired({})
  BY DEF Paired

LEMMA PairedRest ==
  ASSUME NEW X \in SUBSET Area, NEW Y \in SUBSET Area, Paired(X), Paired(Y)
  PROVE  Paired(X \ Y)
<1> SUFFICES ASSUME NEW x \in X \ Y, NEW v \in HomeServices
             PROVE  [district |-> x.district, service |-> v, station |-> x.station] \in X \ Y
  BY DEF Paired
<1> DEFINE y == [district |-> x.district, service |-> v, station |-> x.station]
<1>1. x = [district |-> y.district, service |-> x.service, station |-> y.station]
      /\ x.service \in HomeServices
  BY DEF Area
<1>2. y \in X /\ (y \in Y => x \in Y)
  BY <1>1 DEF Paired
<1> QED
  BY <1>2

LEMMA PairedRows ==
  ASSUME NEW s, NEW want
  PROVE  /\ Paired(RowsFor(s, want))
         /\ \A x \in RowsFor(s, want) : x.station = s
  BY DEF Paired, RowsFor

LEMMA PairedOf ==
  ASSUME Paired(areas), NEW s
  PROVE  Paired(AreasOf(s))
  BY DEF Paired, AreasOf

LEMMA InitSettled == Init => Settled
<1> SUFFICES ASSUME Init PROVE Settled
  OBVIOUS
<1>1. PICK serves \in [Districts -> Stations] : areas = {x \in Area : serves[x.district] = x.station}
  BY DEF Init
<1>2. Paired(areas)
  BY <1>1 DEF Paired, Area
<1>3. \A x, y \in areas : SameKey(x, y) => x.station = y.station
  BY <1>1 DEF SameKey
<1>4. Changes /\ Apart
  BY DEF Init, Changes, Apart, AdminIdle, Paired
<1> QED
  BY <1>2, <1>3, <1>4 DEF Settled

LEMMA NextSettled == Typed /\ Settled /\ [Next]_vars => Settled'
<1> SUFFICES ASSUME Typed, Settled, [Next]_vars PROVE Settled'
  OBVIOUS
<1>1. CASE UNCHANGED <<areas, admin>>
  BY <1>1 DEF Settled, Changes, Apart, Paired
\* A request that has flushed nothing yet.
<1>2. ASSUME NEW a \in Admins, NEW q, q.at # "ready", q.gone = {}, q.added = {},
             Paired(q.target), admin' = [admin EXCEPT ![a] = q], UNCHANGED areas
      PROVE  Settled'
  <2>1. \A b \in Admins : admin'[b] = IF b = a THEN q ELSE admin[b]
    BY <1>2 DEF Typed, TypeOK
  <2>2. Changes'
    BY <1>2, <2>1 DEF Settled, Changes, Paired
  <2>3. Apart'
    BY <1>2, <2>1 DEF Settled, Apart
  <2> QED
    BY <1>2, <2>2, <2>3 DEF Settled, Paired
\* A request that flushes.
<1>3. ASSUME NEW a \in Admins, NEW q, Paired(q.target), Paired(q.gone), Paired(q.added),
             q.at = "ready", q.gone \subseteq areas,
             \A x \in q.added : x.station = q.station,
             \A b \in Admins \ {a} : admin[b].gone \cap q.gone = {},
             \A x \in q.added : \A y \in areas \ q.gone : ~SameKey(x, y),
             \A b \in Admins \ {a} : \A x \in q.added :
               \A y \in admin[b].gone \cup admin[b].added : ~SameKey(x, y),
             admin' = [admin EXCEPT ![a] = q], UNCHANGED areas
      PROVE  Settled'
  <2>1. \A b \in Admins : admin'[b] = IF b = a THEN q ELSE admin[b]
    BY <1>3 DEF Typed, TypeOK
  <2>2. Changes'
    BY <1>3, <2>1 DEF Settled, Changes, Paired
  <2>3. ASSUME NEW b \in Admins \ {a}, NEW x \in admin[b].added, NEW y \in q.gone \cup q.added
        PROVE  ~SameKey(x, y)
    <3>1. CASE y \in q.gone
      BY <1>3, <2>3, <3>1 DEF Settled, Apart
    <3>2. CASE y \in q.added
      BY <1>3, <2>3, <3>2 DEF SameKey
    <3> QED
      BY <2>3, <3>1, <3>2
  <2>4. Apart'
    <3> SUFFICES ASSUME NEW b \in Admins, NEW x \in admin'[b].added
                 PROVE  /\ \A y \in areas \ admin'[b].gone : ~SameKey(x, y)
                        /\ \A d \in Admins \ {b} : \A y \in admin'[d].gone \cup admin'[d].added :
                             ~SameKey(x, y)
      BY <1>3 DEF Apart, SameKey
    <3>1. CASE b = a
      BY <1>3, <2>1, <3>1
    <3>2. CASE b # a
      BY <1>3, <2>1, <2>3, <3>2 DEF Settled, Apart
    <3> QED
      BY <3>1, <3>2
  <2> QED
    BY <1>3, <2>2, <2>4 DEF Settled, Paired
<1>4. ASSUME NEW a \in Admins, Leaves(a) PROVE Settled'
  BY <1>2, <1>4 DEF Leaves, AdminIdle, Paired
<1>5. ASSUME NEW a \in Admins, NEW op, NEW s, NEW want, Begins(a, op, s, want) PROVE Settled'
  <2> DEFINE q == [AdminIdle EXCEPT
                     !.at = IF op = "delete" THEN "deleting" ELSE "loaded", !.op = op,
                     !.station = s, !.want = want, !.was = station[s],
                     !.target = IF op = "delete" THEN AreasOf(s) ELSE {}]
  <2>1. q.at # "ready" /\ q.gone = {} /\ q.added = {}
        /\ q.target = IF op = "delete" THEN AreasOf(s) ELSE {}
    BY DEF AdminIdle
  <2>2. Paired(q.target)
    BY <2>1, PairedOf DEF Paired, Settled
  <2> QED
    BY <1>2, <1>5, <2>1, <2>2 DEF Begins
<1>6. ASSUME NEW a \in Admins, ChecksAreas(a) PROVE Settled'
  <2>1. /\ [admin[a] EXCEPT !.at = "checked"].at = "checked"
        /\ [admin[a] EXCEPT !.at = "checked"].gone = admin[a].gone
        /\ [admin[a] EXCEPT !.at = "checked"].added = admin[a].added
        /\ [admin[a] EXCEPT !.at = "checked"].target = admin[a].target
    BY DEF Typed, TypeOK, AdminRequest
  <2>2. admin[a].gone = {} /\ admin[a].added = {} /\ Paired(admin[a].target)
    BY <1>6 DEF ChecksAreas, Settled, Changes
  <2> QED
    BY <1>2, <1>4, <1>6, <2>1, <2>2 DEF ChecksAreas
<1>7. ASSUME NEW a \in Admins, FindsAreas(a) PROVE Settled'
  <2> DEFINE s == admin[a].station
             q == [admin[a] EXCEPT !.at = "deleting", !.target = AreasOf(s)]
  <2>1. q.at = "deleting" /\ q.gone = admin[a].gone /\ q.added = admin[a].added
        /\ q.target = AreasOf(s)
    BY DEF Typed, TypeOK, AdminRequest
  <2>2. admin[a].gone = {} /\ admin[a].added = {} /\ Paired(AreasOf(s))
    BY <1>7, PairedOf DEF FindsAreas, Settled, Changes
  <2>3. admin' = [admin EXCEPT ![a] = q] /\ UNCHANGED areas
    BY <1>7 DEF FindsAreas
  <2> HIDE DEF q
  <2> QED
    BY <1>2, <2>1, <2>2, <2>3
<1>8. ASSUME NEW a \in Admins, ReplacesAreas(a) PROVE Settled'
  <2> DEFINE s == admin[a].station
             rows == RowsFor(s, admin[a].want)
             gone == Deleted(a)
             q == [admin[a] EXCEPT !.at = "ready", !.gone = gone, !.added = rows]
  <2>1. /\ q.at = "ready" /\ q.gone = gone /\ q.added = rows
        /\ q.target = admin[a].target /\ q.station = s
    BY DEF Typed, TypeOK, AdminRequest
  <2>2. CASE Leaves(a)
    BY <1>4, <2>2
  <2>3. CASE ~Duplicate(a, rows) /\ admin' = [admin EXCEPT ![a] = q] /\ UNCHANGED areas
    <3>1. Paired(rows) /\ \A x \in rows : x.station = s
      BY PairedRows
    <3>2. Paired(gone) /\ Paired(admin[a].target) /\ gone \subseteq areas
      BY PairedSets DEF Settled, Changes, Deleted
    <3>3. \A b \in Admins \ {a} : admin[b].gone \cap gone = {}
      BY <1>8 DEF ReplacesAreas, Deletable, Others, Deleted
    <3>4. \A x \in rows : \A y \in areas \ gone : ~SameKey(x, y)
      BY <2>3 DEF Duplicate
    <3>5. \A b \in Admins \ {a} : \A x \in rows :
            \A y \in admin[b].gone \cup admin[b].added : ~SameKey(x, y)
      BY <1>8 DEF ReplacesAreas, Insertable, Others
    <3> HIDE DEF q, rows, gone
    <3> QED
      BY <1>3, <2>1, <2>3, <3>1, <3>2, <3>3, <3>4, <3>5
  <2> QED
    BY <1>8, <2>2, <2>3 DEF ReplacesAreas
<1>9. ASSUME NEW a \in Admins, SwitchesStation(a) PROVE Settled'
  <2> DEFINE q == [admin[a] EXCEPT !.at = "ready"]
  <2>1. /\ q.at = "ready" /\ q.gone = admin[a].gone /\ q.added = admin[a].added
        /\ q.target = admin[a].target /\ q.station = admin[a].station
    BY DEF Typed, TypeOK, AdminRequest
  <2>2. admin[a].gone = {} /\ admin[a].added = {} /\ Paired(admin[a].target) /\ Paired({})
    BY <1>9 DEF SwitchesStation, Settled, Changes, Paired
  <2> HIDE DEF q
  <2>3. CASE admin' = [admin EXCEPT ![a] = q] /\ UNCHANGED areas
    BY <1>3, <2>1, <2>2, <2>3
  <2> QED
    BY <1>4, <1>9, <2>3 DEF SwitchesStation, q
<1>10. ASSUME NEW a \in Admins, DeletesStation(a) PROVE Settled'
  <2> DEFINE gone == Deleted(a)
             q == [admin[a] EXCEPT !.at = "ready", !.gone = gone]
  <2>1. /\ q.at = "ready" /\ q.gone = gone /\ q.added = admin[a].added
        /\ q.target = admin[a].target /\ q.station = admin[a].station
    BY DEF Typed, TypeOK, AdminRequest
  <2>2. /\ admin[a].added = {} /\ Paired(admin[a].target) /\ Paired({})
        /\ Paired(gone) /\ gone \subseteq areas
    BY <1>10, PairedSets DEF DeletesStation, Settled, Changes, Deleted
  <2>3. \A b \in Admins \ {a} : admin[b].gone \cap gone = {}
    BY <1>10 DEF DeletesStation, Deletable, Others, Deleted
  <2> HIDE DEF q, gone
  <2>4. CASE admin' = [admin EXCEPT ![a] = q] /\ UNCHANGED areas
    BY <1>3, <2>1, <2>2, <2>3, <2>4
  <2> QED
    BY <1>4, <1>10, <2>4 DEF DeletesStation, q, gone
<1>11. ASSUME NEW a \in Admins, AdminCommits(a) PROVE Settled'
  <2> DEFINE gone == admin[a].gone
             added == admin[a].added
  <2>1. areas' = (areas \ gone) \cup added /\ admin' = [admin EXCEPT ![a] = AdminIdle]
    BY <1>11 DEF AdminCommits
  <2>2. \A b \in Admins : admin'[b] = IF b = a THEN AdminIdle ELSE admin[b]
    BY <2>1 DEF Typed, TypeOK
  <2>3. Paired(areas')
    <3>1. areas \in SUBSET Area /\ gone \in SUBSET Area
      BY DEF Typed, TypeOK, AdminRequest
    <3>2. Paired(areas) /\ Paired(gone) /\ Paired(added)
      BY DEF Settled, Changes
    <3>3. Paired(areas \ gone)
      BY <3>1, <3>2, PairedRest
    <3> QED
      BY <2>1, <3>2, <3>3, PairedSets
  <2>4. ASSUME NEW x \in areas', NEW y \in areas', SameKey(x, y) PROVE x.station = y.station
    <3>1. CASE x \in areas \ gone /\ y \in areas \ gone
      BY <2>4, <3>1 DEF Settled
    <3>2. CASE x \in added /\ y \in added
      BY <3>2 DEF Settled, Changes
    <3>3. \A u \in added : \A w \in areas \ gone : ~SameKey(u, w) /\ ~SameKey(w, u)
      BY DEF Settled, Apart, SameKey
    <3> QED
      BY <2>1, <2>4, <3>1, <3>2, <3>3
  <2>5. Changes'
    BY <2>2 DEF Settled, Changes, AdminIdle, Paired
  <2>6. Apart'
    <3> SUFFICES ASSUME NEW b \in Admins, NEW x \in admin'[b].added
                 PROVE  /\ \A y \in areas' \ admin'[b].gone : ~SameKey(x, y)
                        /\ \A d \in Admins \ {b} : \A y \in admin'[d].gone \cup admin'[d].added :
                             ~SameKey(x, y)
      BY DEF Apart, SameKey
    <3>1. b # a /\ admin'[b] = admin[b]
      BY <2>2 DEF AdminIdle
    <3>2. \A y \in areas \ admin[b].gone : ~SameKey(x, y)
      BY <3>1 DEF Settled, Apart
    <3>3. \A y \in added : ~SameKey(x, y)
      BY <3>1 DEF Settled, Apart
    <3>4. \A d \in Admins \ {b} : \A y \in admin'[d].gone \cup admin'[d].added : ~SameKey(x, y)
      BY <2>2, <3>1 DEF Settled, Apart, AdminIdle
    <3> QED
      BY <2>1, <3>1, <3>2, <3>3, <3>4
  <2> QED
    BY <2>3, <2>4, <2>5, <2>6 DEF Settled, SameKey
<1>12. ASSUME NEW a \in Admins, Administrates(a) PROVE Settled'
  BY <1>4, <1>5, <1>6, <1>7, <1>8, <1>9, <1>10, <1>11, <1>12
     DEF Administrates, CreateStation, UpdateStation, SetStationEnabled, DeleteStation, AdminDies
<1>13. ASSUME NEW c \in Clients, Orders(c) PROVE UNCHANGED <<areas, admin>>
  BY <1>13
     DEF Orders, QuoteRequested, QuoteCommits, Reweigh, OrderRequested, MatchesOrigin,
         InsertsShipment, OrderCommits, Dies, Refused, AddressRequested, AddsAddress,
         UpdateAddress, RemoveAddress, Replays, Executes, Starts, stationTables
<1>14. CASE RuleChanges
  BY <1>1, <1>14 DEF RuleChanges, stationTables
<1>15. CASE UNCHANGED vars
  BY <1>1, <1>15 DEF vars
<1> QED
  BY <1>1, <1>12, <1>13, <1>14, <1>15 DEF Next

-----------------------------------------------------------------------------
(* Rows that refer to a station *)

Ready(a) == admin[a].at = "ready"

\* One request at a time has written a station, and its row is there, unless it is new.
Writers ==
  /\ \A a, b \in Admins : Ready(a) /\ Ready(b) /\ admin[a].station = admin[b].station => a = b
  /\ \A a \in Admins : Ready(a) /\ admin[a].op # "create" => station[admin[a].station] # "none"

\* A station that is being deleted has no rows that refer to it, beyond its areas.
Unreferred ==
  \A a \in Admins : Ready(a) /\ admin[a].op = "delete" =>
    LET s == admin[a].station
    IN /\ AreasOf(s) \subseteq admin[a].gone /\ admin[a].added = {}
       /\ ~Referred(s) /\ ~Pinned(s)

\* What refers to a station, or is about to, finds it.
Standing ==
  /\ StationsOfRowsExist
  /\ \A c \in Clients : client[c].at = "inserted" =>
       station[client[c].origin] # "none" /\ station[client[c].destination] # "none"

Referring == Writers /\ Unreferred /\ Standing

LEMMA InitReferring == Init => Referring
<1> SUFFICES ASSUME Init PROVE Referring
  OBVIOUS
<1>1. \A x \in areas : station[x.station] # "none"
  BY DEF Init, Area
<1>2. /\ \A i \in ShipmentIds : shipments[i] = None
      /\ \A a \in Admins : admin[a].at = "idle"
      /\ \A c \in Clients : client[c].at = "idle"
  BY DEF Init, AdminIdle, ClientIdle
<1> QED
  BY <1>1, <1>2 DEF Referring, Writers, Unreferred, Standing, StationsOfRowsExist, Ready

LEMMA NextReferring == Typed /\ Settled /\ Referring /\ [Next]_vars => Referring'
<1> SUFFICES ASSUME Typed, Settled, Referring, [Next]_vars PROVE Referring'
  OBVIOUS
<1> USE DEF Referring, Writers, Unreferred, Standing, StationsOfRowsExist, Ready
<1>1. CASE UNCHANGED <<station, areas, shipments, admin, client>>
  BY <1>1 DEF AreasOf, Referred, Pinned
\* A request that has flushed nothing yet.
<1>2. ASSUME NEW a \in Admins, NEW q, q.at # "ready", admin' = [admin EXCEPT ![a] = q],
             UNCHANGED <<station, areas, shipments, client>>
      PROVE  Referring'
  <2>1. \A b \in Admins : admin'[b] = IF b = a THEN q ELSE admin[b]
    BY <1>2 DEF Typed, TypeOK
  <2> QED
    BY <1>2, <2>1 DEF AreasOf, Referred, Pinned
\* A request that flushes.
<1>3. ASSUME NEW a \in Admins, NEW q, q.station = admin[a].station,
             \A b \in Admins \ {a} : ~Writing(b, q.station),
             q.op # "create" => station[q.station] # "none",
             q.op = "delete" => /\ AreasOf(q.station) \subseteq q.gone /\ q.added = {}
                                /\ ~Referred(q.station) /\ ~Pinned(q.station),
             admin' = [admin EXCEPT ![a] = q],
             UNCHANGED <<station, areas, shipments, client>>
      PROVE  Referring'
  <2>1. \A b \in Admins : admin'[b] = IF b = a THEN q ELSE admin[b]
    BY <1>3 DEF Typed, TypeOK
  <2>2. Writers'
    BY <1>3, <2>1 DEF Writing
  <2>3. Unreferred'
    BY <1>3, <2>1 DEF AreasOf, Referred, Pinned
  <2>4. Standing'
    BY <1>3
  <2> QED
    BY <2>2, <2>3, <2>4
<1>4. ASSUME NEW a \in Admins, Leaves(a) PROVE Referring'
  BY <1>2, <1>4 DEF Leaves, AdminIdle, orderTables
<1>5. ASSUME NEW a \in Admins, NEW op, NEW s, NEW want, Begins(a, op, s, want) PROVE Referring'
  BY <1>2, <1>5 DEF Begins, AdminIdle, orderTables
<1>6. ASSUME NEW a \in Admins, ChecksAreas(a) \/ FindsAreas(a) PROVE Referring'
  <2>1. \A target :
          /\ [admin[a] EXCEPT !.at = "checked"].at = "checked"
          /\ [admin[a] EXCEPT !.at = "deleting", !.target = target].at = "deleting"
    BY DEF Typed, TypeOK, AdminRequest
  <2>2. \/ Leaves(a)
        \/ /\ admin' = [admin EXCEPT ![a] = [admin[a] EXCEPT !.at = "checked"]]
           /\ UNCHANGED <<station, areas, shipments, client>>
        \/ /\ admin' = [admin EXCEPT ![a] = [admin[a] EXCEPT
                          !.at = "deleting", !.target = AreasOf(admin[a].station)]]
           /\ UNCHANGED <<station, areas, shipments, client>>
    BY <1>6 DEF ChecksAreas, FindsAreas, orderTables
  <2> QED
    BY <1>2, <1>4, <2>1, <2>2
<1>7. ASSUME NEW a \in Admins, ReplacesAreas(a) PROVE Referring'
  <2> DEFINE s == admin[a].station
             rows == RowsFor(s, admin[a].want)
             gone == Deleted(a)
             q == [admin[a] EXCEPT !.at = "ready", !.gone = gone, !.added = rows]
  <2>1. q.at = "ready" /\ q.station = s /\ q.op = admin[a].op
    BY DEF Typed, TypeOK, AdminRequest
  <2>2. CASE Leaves(a)
    BY <1>4, <2>2
  <2>3. CASE /\ ~(admin[a].op = "update" /\ station[s] = "none")
             /\ admin' = [admin EXCEPT ![a] = q]
             /\ UNCHANGED <<station, areas, shipments, client>>
    <3>1. admin[a].op \in {"create", "update"} /\ \A b \in Admins \ {a} : ~Writing(b, s)
      BY <1>7 DEF ReplacesAreas, Locked, Others
    <3> HIDE DEF q
    <3> QED
      BY <1>3, <2>1, <2>3, <3>1
  <2> QED
    BY <1>7, <2>2, <2>3 DEF ReplacesAreas, orderTables
<1>8. ASSUME NEW a \in Admins, SwitchesStation(a) PROVE Referring'
  <2> DEFINE s == admin[a].station
             q == [admin[a] EXCEPT !.at = "ready"]
  <2>1. q.at = "ready" /\ q.station = s /\ q.op = admin[a].op
    BY DEF Typed, TypeOK, AdminRequest
  <2>2. CASE Leaves(a)
    BY <1>4, <2>2
  <2>3. CASE /\ station[s] # "none" /\ admin' = [admin EXCEPT ![a] = q]
             /\ UNCHANGED <<station, areas, shipments, client>>
    <3>1. admin[a].op \in {"enable", "disable"} /\ \A b \in Admins \ {a} : ~Writing(b, s)
      BY <1>8 DEF SwitchesStation, Locked, Others
    <3> HIDE DEF q
    <3> QED
      BY <1>3, <2>1, <2>3, <3>1
  <2> QED
    BY <1>8, <2>2, <2>3 DEF SwitchesStation, orderTables
<1>9. ASSUME NEW a \in Admins, DeletesStation(a) PROVE Referring'
  <2> DEFINE s == admin[a].station
             q == [admin[a] EXCEPT !.at = "ready", !.gone = Deleted(a)]
  <2>1. /\ q.at = "ready" /\ q.station = s /\ q.op = admin[a].op
        /\ q.gone = Deleted(a) /\ q.added = admin[a].added
    BY DEF Typed, TypeOK, AdminRequest
  <2>2. CASE Leaves(a)
    BY <1>4, <2>2
  <2>3. CASE /\ ~(Referred(s) \/ AreasOf(s) \ admin[a].target # {} \/ station[s] = "none")
             /\ admin' = [admin EXCEPT ![a] = q]
             /\ UNCHANGED <<station, areas, shipments, client>>
    <3>1. ~Pinned(s) /\ \A b \in Admins \ {a} : ~Writing(b, s)
      BY <1>9 DEF DeletesStation, Locked, Others
    <3>2. AreasOf(s) \subseteq Deleted(a)
      BY <2>3 DEF AreasOf, Deleted
    <3>3. admin[a].added = {}
      BY <1>9 DEF DeletesStation, Settled, Changes
    <3> HIDE DEF q
    <3> QED
      BY <1>3, <2>1, <2>3, <3>1, <3>2, <3>3
  <2> QED
    BY <1>9, <2>2, <2>3 DEF DeletesStation, orderTables
<1>10. ASSUME NEW a \in Admins, AdminCommits(a) PROVE Referring'
  <2> DEFINE s == admin[a].station
             q == admin[a]
  <2>1. /\ q.at = "ready" /\ s \in Stations
        /\ areas' = (areas \ q.gone) \cup q.added
        /\ admin' = [admin EXCEPT ![a] = AdminIdle]
        /\ UNCHANGED <<shipments, client>>
    BY <1>10 DEF AdminCommits, Typed, Named, orderTables
  <2>2. \A b \in Admins : admin'[b] = IF b = a THEN AdminIdle ELSE admin[b]
    BY <2>1 DEF Typed, TypeOK
  <2>3. /\ \A t \in Stations \ {s} : station'[t] = station[t]
        /\ q.op = "delete" => station'[s] = "none"
        /\ q.op # "delete" => station'[s] # "none"
    BY <1>10, <2>1 DEF AdminCommits, Switched, Typed, TypeOK
  <2>4. \A x \in q.added : x.station = s
    BY DEF Settled, Changes
  <2>5. \A b \in Admins \ {a} : Ready(b) => admin[b].station # s /\ admin[b].station \in Stations
    BY <2>1 DEF Typed, Named
  <2>6. Writers'
    BY <2>2, <2>3, <2>5 DEF AdminIdle
  <2>7. Unreferred'
    <3> SUFFICES ASSUME NEW b \in Admins, Ready(b)', admin'[b].op = "delete"
                 PROVE  /\ AreasOf(admin[b].station)' \subseteq admin'[b].gone
                        /\ admin'[b].added = {}
                        /\ ~Referred(admin[b].station)' /\ ~Pinned(admin[b].station)'
      OBVIOUS
    <3>1. b # a /\ admin'[b] = admin[b]
      BY <2>2 DEF AdminIdle
    <3>2. /\ admin[b].station # s /\ AreasOf(admin[b].station) \subseteq admin[b].gone
          /\ admin[b].added = {}
          /\ ~Referred(admin[b].station) /\ ~Pinned(admin[b].station)
      BY <2>5, <3>1
    <3>3. AreasOf(admin[b].station)' \subseteq AreasOf(admin[b].station)
      BY <2>1, <2>4, <3>1, <3>2 DEF AreasOf
    <3> QED
      BY <2>1, <3>1, <3>2, <3>3 DEF Referred, Pinned
  <2>8. Standing'
    <3>1. ASSUME NEW x \in areas' PROVE station'[x.station] # "none"
      <4>1. x.station \in Stations
        BY <2>1, <2>4 DEF Typed, TypeOK, Area
      <4>2. CASE x.station # s
        BY <2>1, <2>3, <2>4, <4>1, <4>2
      <4>3. CASE x.station = s
        <5>1. q.op = "delete" => FALSE
          BY <2>1, <4>3 DEF AreasOf
        <5> QED
          BY <2>3, <4>3, <5>1
      <4> QED
        BY <4>2, <4>3
    <3>2. ASSUME NEW t \in Stations, station[t] # "none", q.op = "delete" => t # s
          PROVE  station'[t] # "none"
      BY <2>3, <3>2
    <3>3. ASSUME NEW i \in ShipmentIds, shipments[i] # None
          PROVE  station'[shipments[i].origin] # "none" /\ station'[shipments[i].destination] # "none"
      <4>1. q.op = "delete" => s # shipments[i].origin /\ s # shipments[i].destination
        BY <2>1, <3>3 DEF Referred
      <4>2. shipments[i].origin \in Stations /\ shipments[i].destination \in Stations
        BY <3>3 DEF Typed, TypeOK, Shipment
      <4> QED
        BY <3>2, <3>3, <4>1, <4>2
    <3>4. ASSUME NEW c \in Clients, client[c].at = "inserted"
          PROVE  station'[client[c].origin] # "none" /\ station'[client[c].destination] # "none"
      <4>1. q.op = "delete" => s # client[c].origin /\ s # client[c].destination
        BY <2>1, <3>4 DEF Pinned
      <4>2. client[c].origin \in Stations /\ client[c].destination \in Stations
        BY <3>4 DEF Typed, Staged
      <4> QED
        BY <3>2, <3>4, <4>1, <4>2
    <3> QED
      BY <2>1, <3>1, <3>3, <3>4
  <2> QED
    BY <2>6, <2>7, <2>8
<1>11. ASSUME NEW a \in Admins, Administrates(a) PROVE Referring'
  BY ONLY <1>4, <1>5, <1>6, <1>7, <1>8, <1>9, <1>10, <1>11
     DEF Administrates, CreateStation, UpdateStation, SetStationEnabled, DeleteStation, AdminDies
\* A request of the customer that is not at its shipment when the step ends.
<1>12. ASSUME NEW c \in Clients, NEW q, q.at # "inserted",
              client' = client \/ client' = [client EXCEPT ![c] = q],
              UNCHANGED <<station, areas, shipments, admin>>
       PROVE  Referring'
  <2>1. \A d \in Clients : client'[d].at = "inserted" => client'[d] = client[d]
    BY <1>12 DEF Typed, TypeOK
  <2> QED
    BY <1>12, <2>1 DEF AreasOf, Referred, Pinned
<1>13. ASSUME NEW c \in Clients, QuoteRequested(c) \/ OrderRequested(c) PROVE Referring'
  <2>1. UNCHANGED <<station, areas, shipments, admin>>
    BY <1>13 DEF QuoteRequested, OrderRequested, Replays, Executes, Starts, stationTables
  <2>2. ASSUME NEW k, NEW command, NEW made, NEW from, NEW to
        PROVE  /\ [ClientIdle EXCEPT !.at = "quoted", !.key = k, !.command = command,
                                     !.made = made].at = "quoted"
               /\ [ClientIdle EXCEPT !.at = "working", !.key = k, !.command = command,
                                     !.from = from, !.to = to].at = "working"
               /\ ClientIdle.at = "idle"
    BY DEF ClientIdle
  <2>3. \E q : q.at # "inserted" /\ (client' = client \/ client' = [client EXCEPT ![c] = q])
    <3>1. CASE QuoteRequested(c)
      <4>1. PICK k \in QuoteKeys, command \in QuoteCommand :
              LET r == rule[RouteCode(command.origin, command.destination)]
              IN \/ Replays(c, k, command)
                 \/ r # None /\ Executes(c, k, [ClientIdle EXCEPT
                      !.at = "quoted", !.key = k, !.command = command,
                      !.made = QuoteOf(command, r, None)])
        BY <3>1 DEF QuoteRequested
      <4> DEFINE made == QuoteOf(command, rule[RouteCode(command.origin, command.destination)], None)
                 q == [ClientIdle EXCEPT !.at = "quoted", !.key = k, !.command = command,
                                         !.made = made]
      <4>2. client' = client \/ client' = [client EXCEPT ![c] = q]
        BY <4>1 DEF Replays, Executes
      <4>3. q.at = "quoted"
        BY <2>2
      <4> HIDE DEF q
      <4> QED
        BY <4>2, <4>3
    <3>2. CASE OrderRequested(c)
      <4>1. PICK k \in OrderKeys, command \in OrderCommand :
              \/ Replays(c, k, command)
              \/ Executes(c, k, [ClientIdle EXCEPT
                      !.at = "working", !.key = k, !.command = command,
                      !.from = address[command.sender].district,
                      !.to = address[command.receiver].district])
        BY <3>2 DEF OrderRequested
      <4> DEFINE q == [ClientIdle EXCEPT
                        !.at = "working", !.key = k, !.command = command,
                        !.from = address[command.sender].district,
                        !.to = address[command.receiver].district]
      <4>2. client' = client \/ client' = [client EXCEPT ![c] = q]
        BY <4>1 DEF Replays, Executes
      <4>3. q.at = "working"
        BY <2>2
      <4> HIDE DEF q
      <4> QED
        BY <4>2, <4>3
    <3> QED
      BY <1>13, <3>1, <3>2
  <2> QED
    BY <1>12, <2>1, <2>3
<1>14. ASSUME NEW c \in Clients,
              QuoteCommits(c) \/ Dies(c) \/ AddressRequested(c) \/ AddsAddress(c)
       PROVE  Referring'
  <2>1. UNCHANGED <<station, areas, shipments, admin>>
    BY <1>14 DEF QuoteCommits, Dies, Refused, AddressRequested, AddsAddress, Starts,
                 stationTables, orderTables
  <2>2. /\ ClientIdle.at = "idle"
        /\ \A row : [ClientIdle EXCEPT !.at = "adding", !.row = row].at = "adding"
    BY DEF ClientIdle
  <2>3. \/ client' = client
        \/ client' = [client EXCEPT ![c] = ClientIdle]
        \/ \E row : client' = [client EXCEPT ![c] = [ClientIdle EXCEPT !.at = "adding", !.row = row]]
    BY <1>14 DEF QuoteCommits, Records, Dies, Refused, AddressRequested, AddsAddress
  <2>4. \E q : q.at # "inserted" /\ (client' = client \/ client' = [client EXCEPT ![c] = q])
    BY <2>2, <2>3
  <2> QED
    BY <1>12, <2>1, <2>4
<1>15. ASSUME NEW c \in Clients, Reweigh(c) \/ UpdateAddress(c) \/ RemoveAddress(c)
       PROVE  Referring'
  BY <1>1, <1>15 DEF Reweigh, UpdateAddress, RemoveAddress, Starts, stationTables
<1>16. ASSUME NEW c \in Clients, MatchesOrigin(c) PROVE Referring'
  <2>1. \A s : [client[c] EXCEPT !.at = "origin", !.origin = s].at = "origin"
    BY DEF Typed, TypeOK, ClientRequest
  <2> QED
    BY <1>12, <1>16, <2>1 DEF MatchesOrigin, stationTables, orderTables
<1>17. ASSUME NEW c \in Clients, InsertsShipment(c) PROVE Referring'
  <2> DEFINE s == MatchStation(client[c].to, "HOME_DELIVERY")
             q == [client[c] EXCEPT !.at = "inserted", !.destination = s]
  <2>1. /\ s # None /\ station[client[c].origin] # "none"
        /\ ~BeingDeleted(client[c].origin) /\ ~BeingDeleted(s)
        /\ client' = [client EXCEPT ![c] = q]
        /\ UNCHANGED <<station, areas, shipments, admin>>
    BY <1>17 DEF InsertsShipment, stationTables, orderTables
  <2>2. station[s] # "none"
    BY <2>1, MatchIsStation DEF Typed, TypeOK
  <2> HIDE DEF s
  <2>3. q.origin = client[c].origin /\ q.destination = s
    BY DEF Typed, TypeOK, ClientRequest
  <2>4. \A d \in Clients : client'[d] = IF d = c THEN q ELSE client[d]
    BY <2>1 DEF Typed, TypeOK
  <2> HIDE DEF q
  <2>5. Unreferred'
    BY <2>1, <2>3, <2>4 DEF AreasOf, Referred, Pinned, BeingDeleted, Writing
  <2>6. Standing'
    BY <2>1, <2>2, <2>3, <2>4
  <2> QED
    BY <2>1, <2>5, <2>6
<1>18. ASSUME NEW c \in Clients, OrderCommits(c) PROVE Referring'
  <2>1. PICK i \in ShipmentIds :
          /\ client[c].at = "inserted"
          /\ shipments' = [shipments EXCEPT ![i] =
               [command |-> client[c].command, origin |-> client[c].origin,
                destination |-> client[c].destination, key |-> client[c].key]]
    BY <1>18 DEF OrderCommits
  <2>2. client' = [client EXCEPT ![c] = ClientIdle] /\ UNCHANGED <<station, areas, admin>>
    BY <1>18 DEF OrderCommits, Records, stationTables
  <2>3. \A d \in Clients : client'[d].at = "inserted" => client'[d] = client[d]
    BY <2>2 DEF Typed, TypeOK, ClientIdle
  <2>4. \A j \in ShipmentIds : shipments'[j] # None =>
          \/ shipments'[j] = shipments[j]
          \/ /\ shipments'[j].origin = client[c].origin
             /\ shipments'[j].destination = client[c].destination
    BY <2>1 DEF Typed, TypeOK
  <2>5. Unreferred'
    BY <2>1, <2>2, <2>3, <2>4 DEF AreasOf, Referred, Pinned
  <2>6. Standing'
    BY <2>1, <2>2, <2>3, <2>4
  <2> QED
    BY <2>2, <2>5, <2>6
<1>19. CASE RuleChanges
  BY <1>1, <1>19 DEF RuleChanges, stationTables, orderTables
<1>20. CASE UNCHANGED vars
  BY <1>1, <1>20 DEF vars
<1> QED
  BY ONLY <1>11, <1>13, <1>14, <1>15, <1>16, <1>17, <1>18, <1>19, <1>20, [Next]_vars
     DEF Next, Orders

-----------------------------------------------------------------------------
(* The theorems                                                            *)

Inv == Typed /\ WorksAlone /\ AnswersTrue /\ Quoting /\ Settled /\ Referring

LEMMA InductiveInv == Spec => []Inv
<1>1. Init => Inv
  BY InitTyped, InitKeys, InitQuoting, InitSettled, InitReferring DEF Inv
<1>2. Inv /\ [Next]_vars => Inv'
  BY NextTyped, NextAlone, NextAnswers, NextQuoting, NextSettled, NextReferring DEF Inv
<1> QED
  BY <1>1, <1>2, PTL DEF Spec

\* Every row, request and answer keeps its form.
THEOREM TypeCorrect == Spec => []TypeOK
<1>1. Inv => TypeOK
  BY DEF Inv, Typed
<1> QED
  BY <1>1, InductiveInv, PTL

\* However a key is sent again, one shipment comes of it and every reply names that one.
THEOREM OneOrder == Spec => []OneShipmentPerKey
<1>1. Inv => OneShipmentPerKey
  <2> SUFFICES ASSUME Inv PROVE OneShipmentPerKey
    OBVIOUS
  <2>1. \A i \in ShipmentIds : shipments[i] # None =>
          record[shipments[i].key].answer = i
    BY DEF Inv, AnswersTrue
  <2>2. ASSUME NEW k \in OrderKeys, NEW i \in replies[k]
        PROVE  shipments[i] # None /\ shipments[i].key = k
    BY DEF Inv, AnswersTrue
  <2> QED
    BY <2>1, <2>2 DEF OneShipmentPerKey
<1> QED
  BY <1>1, InductiveInv, PTL

\* A shipment costs the list price of the package it declares, by one rule of its quote and
\* for the services that quote was asked for.
THEOREM ListPriced == Spec => []PricedForItsPackage
<1>1. Inv => PricedForItsPackage
  <2> SUFFICES ASSUME Inv, NEW i \in ShipmentIds, shipments[i] # None
               PROVE  LET command == shipments[i].command
                          q == quotes[command.quote]
                      IN q # None /\ q.total = ListPrice(q.rule, command.package,
                                                        q.command.services)
    BY DEF PricedForItsPackage
  <2> DEFINE command == shipments[i].command
             q == quotes[command.quote]
  <2>1. command.quote \in QuoteIds /\ command.package \in Nat
    BY DeskAssumption DEF Inv, Typed, TypeOK, Shipment, OrderCommand
  <2>2. q # None /\ q.command.package = command.package
    BY DEF Inv, Quoting, OrdersQuoted, QuoteMatches
  <2>3. q.rule \in Rules /\ q.command.services \in Services
    BY <2>1, <2>2 DEF Inv, Typed, TypeOK, Quote, QuoteCommand
  <2>4. q.total = TotalCents(q.rule, q.command.package, FeeFor(q.command.services))
    BY <2>1, <2>2 DEF Inv, Quoting, QuotesTrue, Calculated
  <2>5. TotalCents(q.rule, command.package, FeeFor(q.command.services))
          = ListPrice(q.rule, command.package, q.command.services)
    BY <2>1, <2>3, CalculationIsList
  <2> QED
    BY <2>2, <2>4, <2>5
<1> QED
  BY <1>1, InductiveInv, PTL

\* A heavier package never costs less than it was quoted, though the rules have changed.
THEOREM PriceGrowsWithWeight == Spec => []HeavierNeverCheaper
<1>1. Inv => HeavierNeverCheaper
  <2> SUFFICES ASSUME Inv, NEW q \in QuoteIds, quotes[q] # None, quotes[q].source # None,
                      quotes[quotes[q].source].command.package <= quotes[q].command.package
               PROVE  quotes[quotes[q].source].total <= quotes[q].total
    BY DEF HeavierNeverCheaper
  <2> DEFINE now == quotes[q]
             first == quotes[now.source]
  <2>1. now.source \in QuoteIds /\ Follows(now, first)
    BY DEF Inv, Typed, TypeOK, Quote, Quoting, QuotesTrue
  <2>2. now \in Quote /\ first \in Quote
    BY <2>1 DEF Inv, Typed, TypeOK, Follows
  <2>3. /\ now.command.package \in Nat /\ first.command.package \in Nat
        /\ now.rule \in Rules /\ FeeFor(now.command.services) \in Int
    BY <2>2, DeskAssumption, FeesOfServices DEF Quote, QuoteCommand
  <2>4. Calculated(now) /\ Calculated(first)
    BY <2>1 DEF Inv, Quoting, QuotesTrue, Follows
  <2> QED
    BY <2>1, <2>3, <2>4, TotalGrows DEF Calculated, Follows
<1> QED
  BY <1>1, InductiveInv, PTL

\* Whatever requests replace areas at once, a district has one station, for both services.
THEOREM DistrictsSettled == Spec => []OneStationPerDistrict
<1>1. Inv => OneStationPerDistrict
  <2> SUFFICES ASSUME Inv, NEW x \in areas, NEW y \in areas, x.district = y.district
               PROVE  /\ x.station = y.station
                      /\ \E z \in areas : z.district = x.district /\ z.service # x.service
    BY DEF OneStationPerDistrict
  <2> DEFINE of(u, v) == [district |-> u.district, service |-> v, station |-> u.station]
  <2>1. \A v \in HomeServices : of(x, v) \in areas /\ of(y, v) \in areas
    BY DEF Inv, Settled, Paired
  <2>2. x.service \in HomeServices
    BY DEF Inv, Typed, TypeOK, Area
  <2>3. x.station = y.station
    <3>1. SameKey(x, of(y, x.service)) /\ of(y, x.service) \in areas
      BY <2>1, <2>2 DEF SameKey
    <3>2. \A z \in areas : SameKey(x, z) => x.station = z.station
      BY DEF Inv, Settled
    <3> QED
      BY <3>1, <3>2
  <2>4. PICK v \in HomeServices : v # x.service
    BY DEF HomeServices
  <2>5. of(x, v) \in areas /\ of(x, v).district = x.district /\ of(x, v).service # x.service
    BY <2>1, <2>4
  <2> QED
    BY <2>3, <2>5
<1> QED
  BY <1>1, InductiveInv, PTL

\* A deletion of a station leaves neither a shipment nor an area without one.
THEOREM StationsKept == Spec => []StationsOfRowsExist
<1>1. Inv => StationsOfRowsExist
  BY DEF Inv, Referring, Standing
<1> QED
  BY <1>1, InductiveInv, PTL
=============================================================================
