CONSTANTS
  Appts = {a1, a2}
  Products = {p1}
  Txs = {t1, t2, t3}
  Free = Free
  InitialStock = 2
  MaxQuantity = 2
  MaxAdjust = 1
SPECIFICATION Spec
SYMMETRY Symmetry
CHECK_DEADLOCK FALSE
INVARIANTS
  StockConserved
  PaidOnce
PROPERTIES
  PaidLinesStay
