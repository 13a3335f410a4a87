SPECIFICATION Spec
CHECK_DEADLOCK FALSE
CONSTANTS
  None = None
  Procs = {p1, p2}
  Children = {k1, k2, k3}
  Users = {u1, u2}
  Admins = {a1}
INVARIANT OneProcessPerServer
