\* Two handlers, approving and declining one proposal or consuming tokens for
\* a human, two tokens for two actions, expiry and a restart at any point.
CONSTANTS
  Proposals = {p1}
  Tokens = {t1, t2}
  Hashes = {h1, h2}
  Callers = {c1, c2}
  h1 = h1
  NoToken = NoToken
  NoProposal = NoProposal
  HashOf <- SameAction
  TTL = 1
  MaxClock = 1
  MaxRestarts = 1
SPECIFICATION FairSpec
INVARIANTS SingleUse RunsArePaidFor StatusTellsTheTruth RunsAreAudited ExecutingIsServed
PROPERTIES NotLeftExecuting ImplementsConfirmedExecution
CHECK_DEADLOCK FALSE
