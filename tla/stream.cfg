\* Two publishers race a subscription that may go away, and a Delete.  With
\* channels of one slot every send can block: behind a full channel, which waits
\* for a full output, which waits for the connection.
CONSTANTS
  Publishers = {p1, p2}
  Subscribers = {s1}
  NoSub = NoSub
  ChCap = 1
  OutCap = 1
  MaxSeq = 2
  MaxLegacy = 1
  MaxEphemeral = 1
  MaxAuditFailures = 1
SPECIFICATION FairSpec
INVARIANTS NoDuplicate NothingAlreadySeen NoEventLost
PROPERTIES FanoutReturns SubscriptionEnds
CHECK_DEADLOCK FALSE
