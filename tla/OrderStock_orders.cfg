\* Every order handler, two requests at a time.
SPECIFICATION Spec
CONSTANTS
  o1 = o1  o2 = o2  o3 = o3  s1 = s1  s2 = s2  g1 = g1  g2 = g2  d1 = d1  d2 = d2
  Workers = {w1, w2}
  Stores = {s1, s2}
  Orders = {o1, o2, o3}
  Warehouses = {1, 2}
  Goods = {g1, g2}
  StockIns = {d1, d2}
  StoreOf <- MCStoreOf
  Demand <- MCDemand
  Boxes <- MCBoxes
  Migrated = {o3}
  Opening <- MCOpening
  Receipt <- MCReceipt
  AdjustTo = {}
  Ops <- AllOrderOps
  NoOrder = NoOrder  NoWarehouse = NoWarehouse  NoGoods = NoGoods  Untouched = Untouched
INVARIANTS TypeOK OrderInv OneActiveOrderPerStore LockedMatchesHolders HoldersAreOpen OrderMatchesStockOut Balanced
PROPERTIES OrderLifeCycle
\* A finished instance has nothing left to do: orders and documents are finite.
CHECK_DEADLOCK FALSE
