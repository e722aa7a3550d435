\* The handlers up to the receipt, against the abstract reservation.
SPECIFICATION Spec
CONSTANTS
  o1 = o1  o2 = o2  o3 = o3  s1 = s1  s2 = s2  g1 = g1  g2 = g2  d1 = d1  d2 = d2
  Workers = {w1, w2}
  Stores = {s1, s2}
  Orders = {o1, o2, o3}
  Warehouses = {1, 2}
  Goods = {g1, g2}
  StockIns = {d1, d2}
  StoreOf <- MCStoreOf
  Demand <- MCDemand
  Boxes <- MCBoxes
  Migrated = {o3}
  Opening <- MCOpening
  Receipt <- MCReceipt
  AdjustTo = {}
  Ops <- OrderOps
  NoOrder = NoOrder  NoWarehouse = NoWarehouse  NoGoods = NoGoods  Untouched = Untouched
INVARIANTS StockConserved
PROPERTIES ReservesStock
\* A finished instance has nothing left to do: orders and documents are finite.
CHECK_DEADLOCK FALSE
