CONSTANTS
  Keys = {k1, k2, k3, k4}
  NoItem = NoItem
  Items <- UnitItems
  Instants <- OneInstant
  MaxSizeBytes = 2
  MaxGets = 2
  MaxEvictions = 8
SYMMETRY KeySymmetry
SPECIFICATION Spec
INVARIANT WithinBudget
