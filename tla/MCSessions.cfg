SPECIFICATION SessionSpec
CONSTANTS
  s1 = s1
  s2 = s2
  p1 = p1
  p2 = p2
  Sessions = {s1, s2}
  Orders = {1, 2}
  Products = {p1, p2}
  Carts <- MCCarts
  MaxReceipt = 1
  MaxStock = 2
  MaxTime = 0
  MaxRequests = 0
SYMMETRY SessionSymmetry
CONSTRAINT TwoUnits
INVARIANTS
  SessionTypeOK
  LinesNotExceeded
  WithheldShipsWhole
  OpenTaskMeansApproved
  ReadyMeansComplete
  OnlyCancellationDeadlocks
PROPERTIES
  CancelledWorkIsFinal
  AloneIsAtomic
CHECK_DEADLOCK FALSE
