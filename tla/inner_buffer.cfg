SPECIFICATION FairSpec
CONSTANTS
  BUFFER_SIZE = 3
  Data = {a, b}
INVARIANTS
  TypeOK
  NoWildRemove
  NothingDropped
  ItemsConserved
PROPERTIES
  ImplementsFifo
  ItemsComeBack
