SPECIFICATION Spec

CONSTANTS
  p1 = p1
  p2 = p2
  o1 = o1
  o2 = o2
  m1 = m1
  m2 = m2
  None = None
  Refused = Refused
  Products = {p1}
  MaxQuantity = 2
  Options = {o1, o2}
  Tasks = {m1, m2}
  MaxTasks = 2
  MaxForeign = 1

SYMMETRY AnyOptionAndTask

INVARIANTS
  StorefrontInv
  OneOrderPerIntent
  ConfirmedAsSelected

CHECK_DEADLOCK FALSE
