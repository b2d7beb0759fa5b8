------------------------------ MODULE Stations ------------------------------
(***************************************************************************)
(* The administration of stations and their service areas                  *)
(* (stations/admin_service.py) and the match of a district to a station    *)
(* (stations/service.py).  No handler locks a station before it reads it.  *)
(***************************************************************************)
EXTENDS Desk

AreasOf(s) == {x \in areas : x.station = s}

\* Mutant: only one of the two services of a district is given to the station.
RowsForOneService(s, want) == {[district |-> d, service |-> "HOME_PICKUP", station |-> s] :
                                 d \in want}
RowsFor(s, want) == {[district |-> d, service |-> v, station |-> s] :
                       d \in want, v \in HomeServices}

SameKey(x, y) == x.district = y.district /\ x.service = y.service

\* match_station(): None stands for UNSUPPORTED_SERVICE_AREA.
Served(district, service) ==
  {x.station : x \in {y \in areas : y.district = district /\ y.service = service
                                    /\ station[y.station] = "enabled"}}
MatchStation(district, service) ==
  IF Served(district, service) = {} THEN None
  ELSE CHOOSE s \in Served(district, service) : TRUE

Others(a) == Admins \ {a}
\* Another request has written the row of station s and not committed.
Writing(a, s) == admin[a].at = "ready" /\ admin[a].station = s
Locked(a, s) == \E b \in Others(a) : Writing(b, s)
\* An order that refers to s is not committed: it shares the key of the row.
Pinned(s) == \E c \in Clients : client[c].at = "inserted"
                                /\ s \in {client[c].origin, client[c].destination}

\* A DELETE sees the areas there are when it begins.
Begins(a, op, s, want) ==
  /\ admin[a].at = "idle" /\ spent < MaxRequests
  /\ admin' = [admin EXCEPT ![a] =
       [AdminIdle EXCEPT !.at = IF op = "delete" THEN "deleting" ELSE "loaded", !.op = op,
                         !.station = s, !.want = want, !.was = station[s],
                         !.target = IF op = "delete" THEN AreasOf(s) ELSE {}]]
  /\ spent' = spent + 1
  /\ UNCHANGED <<station, areas, address, rule, orderTables, client>>

\* Districts that are regions with a city and a province; others are refused.
Wants == SUBSET Districts

\* A new station without areas serves its own district.  Its code is free: no row has
\* it, and a request that is adding one makes this one wait for its end.
CreateStation(a) ==
  \E s \in Stations : \E want \in Wants \ {{}} :
    /\ station[s] = "none"
    /\ \A b \in Others(a) : ~(admin[b].op = "create" /\ admin[b].station = s)
    /\ Begins(a, "create", s, want)

\* New areas, or a new district and with it the areas; an update of neither is left out.
UpdateStation(a) ==
  \E s \in Stations : \E want \in Wants :
    station[s] # "none" /\ Begins(a, "update", s, want)

SetStationEnabled(a) ==
  \E s \in Stations : \E op \in {"enable", "disable"} :
    station[s] # "none" /\ Begins(a, op, s, {})

DeleteStation(a) ==
  \E s \in Stations : station[s] # "none" /\ Begins(a, "delete", s, {})

Leaves(a) ==
  /\ admin' = [admin EXCEPT ![a] = AdminIdle]
  /\ UNCHANGED <<station, areas, address, rule, orderTables, client, spent>>

\* _replace_service_areas(): refused if another station has one of the areas.
Conflict(s, want) ==
  \E x \in areas : x.station # s /\ x.district \in want /\ x.service \in HomeServices

ChecksAreas(a) ==
  /\ admin[a].at = "loaded" /\ admin[a].op \in {"create", "update"}
  /\ IF Conflict(admin[a].station, admin[a].want)
     THEN Leaves(a)
     ELSE /\ admin' = [admin EXCEPT ![a].at = "checked"]
          /\ UNCHANGED <<station, areas, address, rule, orderTables, client, spent>>

\* The areas are replaced: DELETE FROM service_areas begins.
FindsAreas(a) ==
  /\ admin[a].at = "checked"
  /\ admin' = [admin EXCEPT ![a].at = "deleting", ![a].target = AreasOf(admin[a].station)]
  /\ UNCHANGED <<station, areas, address, rule, orderTables, client, spent>>

\* It waits for a request that deletes one of them, and skips those that are gone.
Deletable(a) == \A b \in Others(a) : admin[b].gone \cap admin[a].target = {}
Deleted(a) == admin[a].target \cap areas

\* The unique constraint waits for the end of a request that deletes or has added the
\* same area, and fails on one that stays.
Insertable(a, rows) ==
  \A b \in Others(a) : \A x \in rows : \A y \in admin[b].gone \cup admin[b].added :
    ~SameKey(x, y)
Duplicate(a, rows) == \E x \in rows : \E y \in areas \ Deleted(a) : SameKey(x, y)

\* DELETE, INSERT and UPDATE of the station, all flushed; any failure rolls back.
ReplacesAreas(a) ==
  LET s    == admin[a].station
      rows == RowsFor(s, admin[a].want)
  IN /\ admin[a].at = "deleting" /\ admin[a].op \in {"create", "update"}
     /\ Deletable(a) /\ Insertable(a, rows) /\ ~Locked(a, s)
     /\ IF Duplicate(a, rows) \/ (admin[a].op = "update" /\ station[s] = "none")
        THEN Leaves(a)
        ELSE /\ admin' = [admin EXCEPT ![a].at = "ready", ![a].gone = Deleted(a),
                                       ![a].added = rows]
             /\ UNCHANGED <<station, areas, address, rule, orderTables, client, spent>>

\* A column is written if its value differs from the one that was loaded.
Switched(q, row) ==
  LET new == IF q.op = "enable" THEN "enabled" ELSE "disabled"
  IN IF q.was = new THEN row ELSE new

SwitchesStation(a) ==
  LET s == admin[a].station
  IN /\ admin[a].at = "loaded" /\ admin[a].op \in {"enable", "disable"}
     /\ ~Locked(a, s)
     /\ IF station[s] = "none"
        THEN Leaves(a)
        ELSE /\ admin' = [admin EXCEPT ![a].at = "ready"]
             /\ UNCHANGED <<station, areas, address, rule, orderTables, client, spent>>

\* Mutant: only the station an order starts from is looked at.
ReferredAsOrigin(s) ==
  \E i \in ShipmentIds : shipments[i] # None /\ shipments[i].origin = s
Referred(s) ==
  \E i \in ShipmentIds : shipments[i] # None
                         /\ s \in {shipments[i].origin, shipments[i].destination}

\* delete_station(): the foreign keys of shipments and areas refuse it; the rollback
\* brings the areas back (STATION_IN_USE).
DeletesStation(a) ==
  LET s == admin[a].station
  IN /\ admin[a].at = "deleting" /\ admin[a].op = "delete"
     /\ Deletable(a) /\ ~Locked(a, s) /\ ~Pinned(s)
     /\ IF Referred(s) \/ AreasOf(s) \ admin[a].target # {} \/ station[s] = "none"
        THEN Leaves(a)
        ELSE /\ admin' = [admin EXCEPT ![a].at = "ready", ![a].gone = Deleted(a)]
             /\ UNCHANGED <<station, areas, address, rule, orderTables, client, spent>>

AdminCommits(a) ==
  LET q == admin[a]
  IN /\ q.at = "ready"
     /\ areas' = (areas \ q.gone) \cup q.added
     /\ station' = [station EXCEPT ![q.station] =
          CASE q.op = "create" -> "enabled"
            [] q.op = "update" -> @
            [] q.op = "delete" -> "none"
            [] OTHER -> Switched(q, @)]
     /\ admin' = [admin EXCEPT ![a] = AdminIdle]
     /\ UNCHANGED <<address, rule, orderTables, client, spent>>

\* The request is cut off, or is the victim of a deadlock: it is rolled back.
AdminDies(a) == admin[a].at # "idle" /\ Leaves(a)

Administrates(a) ==
  \/ CreateStation(a) \/ UpdateStation(a) \/ SetStationEnabled(a) \/ DeleteStation(a)
  \/ ChecksAreas(a) \/ FindsAreas(a) \/ ReplacesAreas(a) \/ SwitchesStation(a)
  \/ DeletesStation(a) \/ AdminCommits(a) \/ AdminDies(a)
=============================================================================
