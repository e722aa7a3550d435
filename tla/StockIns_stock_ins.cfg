\* Every handler of a stock-in document, two requests at a time.
SPECIFICATION FairSpec
CONSTANTS
  w1 = w1  w2 = w2  d1 = d1  d2 = d2
  Workers = {w1, w2}
  Docs = {d1, d2}
  Days = {1, 2}
  Goods = {1, 2}
  Warehouses = {1}
  Forms <- MCForms
  Opening <- MCOpening
  Issued <- MCIssued
  Ops <- MCOps
  Drafts <- MCDrafts
  MaxSequence = 2
  Scale = 2
  MaxEdits = 1
  NoForm = NoForm  NoRow = NoRow  NoDoc = NoDoc  NoNumber = NoNumber
INVARIANTS TypeOK NumbersConsecutive CostWithinPrices ValueWithinRounding
PROPERTIES ReceivesApproved RequestsEnd
\* Documents are finite: when all are finished nothing is left to do.
CHECK_DEADLOCK FALSE
