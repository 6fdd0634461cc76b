SPECIFICATION Spec
CONSTANTS
  Orders = {1, 2, 3}
  p1 = p1
  Products = {p1}
  MaxQuantity = 2
  MaxStock = 3
  MaxTime = 1
INVARIANTS
  LoopComputesGrant
  EveryFlushAccepted
  DomainAgrees
CHECK_DEADLOCK FALSE
