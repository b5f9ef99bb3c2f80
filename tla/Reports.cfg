CONSTANTS
  t1 = t1
  t2 = t2
  Tills = {t1, t2}
  NumProducts = 3
  Mrp <- SomeMrps
  Slab <- SomeSlabs
  ReorderLevel <- SomeLevels
  OpeningStock <- SomeStock
  Sales <- SomeSales
  SlotsPerDay = 2
  IstOffset = 1
  WindowDays = 2
  TopLimit = 2
  TopOnSlide = 2
  LowOnSlide = 1
  MaxSlot = 3
  MaxBills = 2
SYMMETRY TillSymmetry
SPECIFICATION Spec
INVARIANTS TypeOK DayCloseSettles DeckAddsUp SuggestionsErrEarly
