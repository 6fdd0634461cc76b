SPECIFICATION Spec
CONSTANTS
  s1 = s1
  s2 = s2
  p1 = p1
  p2 = p2
  Sessions = {s1, s2}
  Products = {p1}
  Prices = {1}
  Budgets = {2}
  Shippings = {1}
  MaxQuantity = 2
INVARIANTS
  OrderWithinBudget
CHECK_DEADLOCK FALSE
