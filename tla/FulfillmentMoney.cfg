SPECIFICATION SerialSpec
CONSTANTS
  TaskIds = {t1, t2, t3}
  CaseIds = {}
  Couriers = {k1}
  NoCourier = NoCourier
  Totals = {1, 2}
  MaxQuotes = 3
  MaxPayments = 2
  MaxLegs = 2
  Requests = {}
  Overlapping = {}
  PickupMethods = {"DOOR_PICKUP"}
  DeliveryMethods = {"HOME_DELIVERY"}
SYMMETRY Symmetry
INVARIANTS TypeOK RefundWithinPayments PaidOnce
PROPERTIES SettledOnClose CancelledIsFinal
CHECK_DEADLOCK FALSE
