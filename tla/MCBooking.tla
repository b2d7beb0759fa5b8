----------------------------- MODULE MCBooking ------------------------------
(* Instances of Booking for TLC. *)
EXTENDS Booking, TLC

\* From door to door, as every order is, and from station to station.
DoorAndStation ==
  {[pickup |-> "DOOR_PICKUP", delivery |-> "HOME_DELIVERY"],
   [pickup |-> "STATION_DROPOFF", delivery |-> "STATION_PICKUP"]}

\* Shipments are left as they are: a run makes one, so permuting them costs more than it saves.
Symmetry == Permutations(Stations) \cup Permutations(Clients) \cup Permutations(Admins)
            \cup Permutations(QuoteIds) \cup Permutations(Addresses)
=============================================================================
