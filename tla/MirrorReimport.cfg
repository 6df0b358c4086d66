\* The same file of two orders twice.
SPECIFICATION Spec
CONSTANTS
  o1 = o1
  o2 = o2
  l1 = l1
  l2 = l2
  None = None
  Orders = {o1, o2}
  Listings = {l1}
  Qtys = {0, 2}
  Figures = {1, 4}
  Workers = {"w1"}
  MaxFile = 2
  OrderDate <- MCOrderDate
  Times <- MCTimes
INVARIANTS ReimportIsNoOp
