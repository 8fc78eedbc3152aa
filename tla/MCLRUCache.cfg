CONSTANTS
  Keys = {k1, k2, k3}
  NoItem = NoItem
  Items <- MCItems
  Instants <- MCInstants
  MaxSizeBytes = 3
  MaxGets = 3
  MaxEvictions = 4
SYMMETRY KeySymmetry
SPECIFICATION Spec
INVARIANTS ListConsistent
PROPERTIES EvictsOnlyOldest ImplementsContract
