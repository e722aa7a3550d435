\* One super administrator at the start and an account that may be created.
SPECIFICATION Spec
CONSTANTS
  w1 = w1  w2 = w2  ua = ua  ub = ub  p1 = p1  p2 = p2
  Workers = {w1, w2}
  Users = {ua, ub}
  Founders = {ua}
  Passwords = {p1, p2}
  FirstPassword = p1
  Changes <- MCChanges
  Ops <- MCOps
  MaxVersion = 2
  MaxTokens = 1
  Same = Same  NoUser = NoUser
INVARIANTS TypeOK SuperAdminRemains TokensAreCurrent
\* The versions are bounded.
CHECK_DEADLOCK FALSE
