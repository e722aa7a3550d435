\* Archiving beside every kind of reference, two requests at a time.
SPECIFICATION Spec
CONSTANTS
  w1 = w1  w2 = w2  c1 = c1  c2 = c2  g1 = g1  k1 = k1  s1 = s1  h1 = h1
  order = order  shelf = shelf  bound = bound  lent = lent
  Workers = {w1, w2}
  Rows = {c1, c2, g1, k1, s1, h1, order, shelf, bound, lent}
  Kind <- MCKind
  Ops <- MCOps
  Named <- MCNamed
  Opening <- MCOpening
  NoRow = NoRow
INVARIANTS TypeOK ReferencesLive
