\* As client_reconnect, with two goroutines publishing to the session.
CONSTANTS
  Publishers = {p1, p2}
  Subscribers = {s1, s2}
  NoSub = NoSub
  ChCap = 1
  OutCap = 1
  MaxSeq = 2
  MaxLegacy = 0
  MaxEphemeral = 0
  MaxAuditFailures = 0
  SendCap = 1
SPECIFICATION ClientSpec
SYMMETRY Symmetry
CHECK_DEADLOCK FALSE
INVARIANT ReconnectLosesNothing
