\* Flows of a browser beside administrators and changes of the account.
SPECIFICATION Spec
CONSTANTS
  w1 = w1  w2 = w2  u1 = u1  m1 = m1  m2 = m2  c1 = c1  f1 = f1  f2 = f2
  Workers = {w1, w2}
  Users = {u1}
  Members = {m1, m2}
  Corps = {c1}
  Flows = {f1, f2}
  MaxRevision = 2
  MaxVersion = 1
  MaxSessions = 1
  NoFlow = NoFlow  NoUser = NoUser  NoMember = NoMember
SYMMETRY Symmetry
INVARIANTS TypeOK UnbindEndsSessions PasswordStillProved CancelledFlowsEnd
PROPERTIES DecisionsHold
\* Revisions, versions and flows are bounded.
CHECK_DEADLOCK FALSE
