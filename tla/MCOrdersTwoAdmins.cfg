SPECIFICATION Spec
CONSTANTS
  o1 = o1
  o2 = o2
  o3 = o3
  s1 = s1
  a1 = a1
  a2 = a2
  r1 = r1
  r2 = r2
  Orders = {o2}
  Subscriptions = {s1}
  Target <- MCTarget
  Receipts = {r1}
  Reviews = {a1, a2}
  MaxExtended = 0
  NoOrder = NoOrder
  NoSub = NoSub
INVARIANTS CountedOnce
