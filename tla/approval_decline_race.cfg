\* One proposal, approved by one handler and declined by another.
CONSTANTS
  Proposals = {p1}
  Tokens = {t1}
  Hashes = {h1}
  Callers = {c1, c2}
  h1 = h1
  NoToken = NoToken
  NoProposal = NoProposal
  HashOf <- SameAction
  TTL = 1
  MaxClock = 0
  MaxRestarts = 0
SPECIFICATION Spec
INVARIANT DeclinedDoesNotExecute
CHECK_DEADLOCK FALSE
