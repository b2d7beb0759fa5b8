SPECIFICATION Spec
CONSTANTS
  Parcels = {light, heavy}
  Routes = {near}
  Grants = {g1}
  Turns = {t1}
  Forms = {f1}
  MaxRevision = 2
  MaxActive = 2
  None = None
SYMMETRY Symmetry
INVARIANT ConsumedMeansCreated
CHECK_DEADLOCK FALSE
