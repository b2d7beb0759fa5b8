SPECIFICATION Spec
CONSTANTS
  Stations = {s1, s2}
  Districts = {110101, 310105}
  Origins = {110101}
  Services <- DoorAndStation
  Addresses = {i1, i2}
  Contacts = {me}
  Packages = {1000, 1600}
  BaseFees = {800, 900}
  UnitFees = {150}
  RemoteFees = {0}
  QuoteKeys = {kq}
  OrderKeys = {ko}
  QuoteIds = {q1, q2}
  ShipmentIds = {p1, p2}
  Admins = {a1, a2}
  Clients = {c1, c2}
  MaxRequests = 3
  None = None
SYMMETRY Symmetry
INVARIANTS TypeOK OneShipmentPerKey PricedForItsPackage HeavierNeverCheaper OneStationPerDistrict StationsOfRowsExist
CHECK_DEADLOCK FALSE
