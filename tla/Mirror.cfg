\* Two orders of two listings, stock files of either or both, and hand-typed
\* figures, by one process.
SPECIFICATION Spec
CONSTANTS
  o1 = o1
  o2 = o2
  l1 = l1
  l2 = l2
  None = None
  Orders = {o1, o2}
  Listings = {l1, l2}
  Qtys = {0, 2}
  Figures = {1, 4}
  Workers = {"w1"}
  MaxFile = 1
  OrderDate <- MCOrderDate
  Times <- MCTimes
INVARIANTS TypeOK StockIsFigureLessRecords RecordsAreLive
PROPERTIES ReapplyIsNoOp
