SPECIFICATION Spec
CONSTANTS
  r1 = r1  r2 = r2  r3 = r3  b1 = b1  b2 = b2
  l1 = l1  l2 = l2  l3 = l3  s1 = s1  s2 = s2
  Gone = gone  NoLogin = noLogin  NoSession = noSession  Nobody = nobody
  Requests = {r1, r2}
  Browsers = {b1, b2}
  Logins = {l1,l2,l3}
  Sessions = {s1, s2}
  MaxLogins = 2
  MaxRefresh = 1
  Rotates = TRUE
SYMMETRY Alike
INVARIANTS SessionInv RefreshTokenIsCurrent
PROPERTIES OnlyItsBrowserRedeems
