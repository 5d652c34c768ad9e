SPECIFICATION Spec
CONSTANTS
  u1 = u1
  u2 = u2
  daemon = daemon
  s1 = s1
  s2 = s2
  Users = {u1, u2}
  Checker = daemon
  Cookies = {s1, s2}
  NoCookie = NoCookie
  NoEpoch = NoEpoch
  Expired = Expired
  Limit = 1
  MaxEpoch = 3
INVARIANTS
  RevokedNeverValid
