CONSTANTS
  Threads = {t1, t2}
  Ids = {1, 2, 3}
  Slots = 4
  IntBits = 2
SPECIFICATION FairSpec
INVARIANTS ResolvesOwn OneSlotPerId
PROPERTIES CallReturns
