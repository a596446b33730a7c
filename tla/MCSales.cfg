SPECIFICATION Spec
CONSTANTS
  o1 = o1
  o2 = o2
  o3 = o3
  o4 = o4
  b1 = b1
  b2 = b2
  a1 = a1
  a2 = a2
  Orders = {o1, o2, o3, o4}
  Buyers = {b1, b2}
  Admins = {a1, a2}
  Limit = 1
  LateRemoval = FALSE
  NoOrder = NoOrder
SYMMETRY Alike
INVARIANTS SoldFromOffer
PROPERTIES PauseStays
