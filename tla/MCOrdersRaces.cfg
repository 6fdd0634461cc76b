SPECIFICATION Spec
CONSTANTS
  s1 = s1
  s2 = s2
  p1 = p1
  p2 = p2
  Sessions = {s1, s2}
  Products = {p1}
  Prices = {1, 3}
  Budgets = {3}
  Shippings = {0, 1}
  MaxQuantity = 2
INVARIANTS
  InvoiceWithinBudget
PROPERTIES
  DecidedOnce
  PriceLocked
SYMMETRY SessionSymmetry
CHECK_DEADLOCK FALSE
