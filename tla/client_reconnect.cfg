\* One publisher, two connections one after the other: the events before,
\* during and after the reconnection.
CONSTANTS
  Publishers = {p1}
  Subscribers = {s1, s2}
  NoSub = NoSub
  ChCap = 1
  OutCap = 1
  MaxSeq = 2
  MaxLegacy = 1
  MaxEphemeral = 0
  MaxAuditFailures = 0
  SendCap = 1
SPECIFICATION ClientSpec
SYMMETRY Symmetry
CHECK_DEADLOCK FALSE
INVARIANTS ReconnectLosesNothing InOrder
