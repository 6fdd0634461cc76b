SPECIFICATION Spec
CONSTANTS
  s1 = s1
  s2 = s2
  p1 = p1
  p2 = p2
  Sessions = {s1}
  Products = {p1, p2}
  Prices = {0, 1, 2}
  Budgets = {3}
  Shippings = {0, 1}
  MaxQuantity = 3
INVARIANTS
  TypeOK
  OrderWithinBudget
  InvoiceMatchesOrder
PROPERTIES
  QuantitiesAddUp
CHECK_DEADLOCK FALSE
