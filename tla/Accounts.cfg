SPECIFICATION Spec
CONSTANTS
  User = {u1, u2, u3}
  Email = {e1, e2, e3}
  Invite = {i1, i2}
  Reset = {r1}
  Token = {t1, t2}
  Client = {c1, c2}
  InviteLife = {1}
  ResetLife = 1
  MaxTime = 2
  MaxRequests = 4
  None = None
SYMMETRY Symmetry
INVARIANTS AccountsSound BootstrapHonest SessionsHold
PROPERTIES TokenStable
CHECK_DEADLOCK FALSE
