\* Two connections resume the same session.
CONSTANTS
  Sessions = {s1}
  Children = {k1, k2, k3}
  Callers = {c1, c2}
  NoChild = NoChild
  NoSession = NoSession
  MaxRestarts = 0
SPECIFICATION Spec
INVARIANT OneChild
CHECK_DEADLOCK FALSE
