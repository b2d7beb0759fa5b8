SPECIFICATION Spec
CONSTANTS
  TaskIds = {t1, t2}
  CaseIds = {c1}
  Couriers = {k1}
  NoCourier = NoCourier
  Totals = {1}
  MaxQuotes = 1
  MaxPayments = 1
  MaxLegs = 1
  Requests = {r1}
  Overlapping = {"pay_quote", "refund_payment", "start_delivery", "verify_station_pickup", "confirm_delivery"}
  PickupMethods = {"DOOR_PICKUP"}
  DeliveryMethods = {"HOME_DELIVERY"}
SYMMETRY Symmetry
INVARIANTS HeldCaseLive LinehaulHasLeg StationPickupHasNoCourier DeliveredHasProof
PROPERTY HoldFreezes
CHECK_DEADLOCK FALSE
