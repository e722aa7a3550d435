\* Two tabs of one browser around the renewals of a session.
SPECIFICATION Spec
CONSTANTS
  a = a  b = b
  Tabs = {a, b}
  Visible = {a}
  Access = 8
  Margin = 2
  Grace = 3
  Life = 4
  RoundTrip = 1
  MaxTime = 4
  MaxSessions = 2
  MaxEvents = 1
  NoCookie = NoCookie  NoRequest = NoRequest  Keep = Keep
INVARIANTS TypeOK KeptUntilLogout JarCurrent EndedStaysEnded NoForcedExit
PROPERTIES EndedReachesTabs
\* The clock is bounded.
CHECK_DEADLOCK FALSE
