SPECIFICATION FairSpec
CONSTANTS
  p1 = p1
  p2 = p2
  Orders = {1, 2}
  Products = {p1, p2}
  Carts <- MCCarts
  MaxReceipt = 2
  MaxStock = 2
  MaxTime = 1
  MaxRequests = 1
CONSTRAINT SmallWarehouse
INVARIANTS
  TypeOK
  StockLedger
  OnlyLiveOrdersHoldStock
  TasksWithinReservation
  WithheldShipsWhole
  OpenTaskMeansApproved
  ReadyExactlyWhenComplete
PROPERTIES
  CancelledIsFinal
  PromisesKept
  PriorityRespected
  NoIdleStock
  PlannedOrderBecomesReady
CHECK_DEADLOCK FALSE
