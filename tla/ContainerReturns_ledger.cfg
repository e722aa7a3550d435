\* All handlers of the container ledger, two requests at a time.
SPECIFICATION Spec
CONSTANTS
  k1 = k1  k2 = k2  q1 = q1  q2 = q2  t1 = t1  t2 = t2
  Workers = {w1, w2}
  Rows = {k1, k2}
  Requests = {q1, q2}
  Shipments = {t1, t2}
  Asked <- MCAsked
  Lent <- MCLent
  Ops <- AllOps
  NoDoc = NoDoc  NoRow = NoRow  Untouched = Untouched
INVARIANTS TypeOK PendingMatchesRequests RequestsReceivable LedgerBalanced ReturnsCounted
PROPERTIES RequestLifeCycle
\* A finished instance has nothing left to do: requests and shipments are finite.
CHECK_DEADLOCK FALSE
