CONSTANTS
  Keys = {k1, k2, k3}
  NoItem = NoItem
  Items <- MixedItems
  Instants <- MCInstants
  MaxSizeBytes = 3
  MaxGets = 2
  MaxEvictions = 3
SYMMETRY KeySymmetry
SPECIFICATION Spec
INVARIANTS BooksAgree FrequentSeenTwice
PROPERTIES FrequentSpared ImplementsContract
