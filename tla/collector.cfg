SPECIFICATION Spec
CONSTANTS
  k = k
  l = l
  m = m
  n = n
  Conses = Conses
  Structures = Structures
  Streams = Streams
  Cells = {k, l, m, n}
  Nil = Nil
  Pages = {Conses, Structures, Streams}
  PageOf <- MCPageOf
  TypeOf <- MCTypeOf
  SgcTypes <- MCSgcTypes
  MinFree = 1
SYMMETRY Renamings
INVARIANTS
  TypeOK
  ListsApart
  BarrierHolds
  NoDangling
PROPERTY
  ImplementsHeap
