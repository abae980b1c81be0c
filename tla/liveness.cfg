\* Two connections on one session with a restart; one client connection with
\* decisions that may fail half-way; one job with two cancels and a restart.
CONSTANTS
  Sessions = {s1}
  Children = {k1, k2}
  Callers = {c1, c2}
  NoChild = NoChild
  NoSession = NoSession
  MaxRestarts = 1
  Publishers = {p1}
  Subscribers = {n1}
  NoSub = NoSub
  ChCap = 1
  OutCap = 1
  MaxSeq = 3
  MaxLegacy = 1
  MaxEphemeral = 0
  MaxAuditFailures = 1
  SendCap = 1
  Jobs = {j1}
  Cancellers = {x1, x2}
  NoJob = NoJob
SPECIFICATION AllSpec
INVARIANT JobsAreHonest
PROPERTIES DeadSessionsEnd CatchesUp JobsFinish
CHECK_DEADLOCK FALSE
