------------------------------ MODULE Pricing -------------------------------
(***************************************************************************)
(* How a quote is calculated (pricing/policy.py).  Weights are grams, sizes *)
(* centimetres, fees cents; a district is its six-digit code.              *)
(***************************************************************************)
EXTENDS Integers

Larger(a, b) == IF a < b THEN b ELSE a
CeilDiv(a, b) == -((-a) \div b)

Province(district) == district \div 10000

RouteCode(origin, destination) ==
  CASE Province(origin) = Province(destination) -> "SAME_CITY"
    [] {Province(origin), Province(destination)} = {11, 31} -> "BJ_SH"
    [] OTHER -> "CROSS_REGION"

VolumeWeight(length, width, height) == CeilDiv(length * width * height, 8)

BillableWeight(actual, volume) == Larger(actual, volume)

BilledUnits(billable) == Larger(0, CeilDiv(billable - 1000, 500))

\* services: what the chosen services add to the fees of the rule.
ServiceFee(pickup, delivery) ==
  (IF pickup = "DOOR_PICKUP" THEN 300 ELSE 0)
    - (IF delivery = "STATION_PICKUP" THEN 100 ELSE 0)

Rule == [base: Nat, additional: Nat, remote: Nat]

TotalCents(rule, billable, services) ==
  Larger(0, rule.base + BilledUnits(billable) * rule.additional + rule.remote + services)
=============================================================================
