SPECIFICATION Spec
CONSTANTS
  Parcels = {light, heavy}
  Routes = {near}
  Grants = {g1}
  Turns = {t1, t2}
  Forms = {f1}
  MaxRevision = 2
  MaxActive = 2
  None = None
SYMMETRY Symmetry
INVARIANTS QuotedParcel ShippingWasAsked DeletedLeavesNoThread
PROPERTIES CreatedOnConfirm
CHECK_DEADLOCK FALSE
