SPECIFICATION Spec
CONSTANTS
  o1 = o1
  o2 = o2
  h1 = h1
  h2 = h2
  Orders = {o1, o2}
  Handlers = {h1, h2}
  MaxVersion = 2
  LastStatus = 3
SYMMETRY PageSymmetry
CONSTRAINT SmallPage
INVARIANTS
  TypeOK
  ScreenIsTrue
  MovedAsShown
CHECK_DEADLOCK FALSE
