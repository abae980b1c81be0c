\* Two connections on two sessions; two handlers, approvals and control requests;
\* two turns; two pieces of output; two that end a session whose tokens are
\* counted.  One restart of the agent at any point.
CONSTANTS
  Sessions = {i1, i2}
  Asks = {i1, i2}
  Turns = {i1, i2}
  Callers = {h1, h2}
  Handlers = {h1, h2}
  ExecHandlers = {h1, h2}
  Children = {k1, k2}
  NoChild = NoChild
  NoSession = NoSession
  NoAsk = NoAsk
  NoTurn = NoTurn
  MaxRestarts = 1
  MaxCalls = 2
  MaxStarts = 2
  MaxBytes = 2
  MaxOutput = 4
  PollCallers = {h1, h2}
  MaxTotal = 2
SPECIFICATION AgentsSpec
SYMMETRY Symmetry
INVARIANTS TypesOK NoOrphan AliveIsHonest AsksAreServed AnswersMatch TurnIsCurrent  OutputIsKept
CHECK_DEADLOCK FALSE
