\* Three offers, three coroutines at a time.
SPECIFICATION DeliveryFairSpec
CONSTANTS
  Items = {i1, i2, i3}
  Jobs = {j1, j2, j3}
  NoItem = NoItem
CHECK_DEADLOCK FALSE
INVARIANTS
  Conserved
PROPERTIES
  ReadyOffersShown
