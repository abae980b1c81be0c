-------------------------- MODULE ConfirmationTokens --------------------------
(***************************************************************************)
(* The confirmation tokens that guard every mutation of the host:          *)
(* review.Manager.MintConfirmationToken and ConsumeToken over the store's  *)
(* confirmation_tokens rows, and the handlers that consume one and then    *)
(* mutate (review and session approvals, services, processes, firewall,    *)
(* docker, storage, security, pushes).                                     *)
(*                                                                         *)
(* ConsumeToken is two database calls: it reads the row and checks it,     *)
(* then flips used_at in one UPDATE.  They are two steps here, so any      *)
(* number of calls may hold the same unused row.  A Hash stands for the    *)
(* ActionHash of an (action, project, files, comment) tuple.               *)
(***************************************************************************)
EXTENDS Naturals, Sequences

CONSTANTS
  Tokens,       \* opaque token ids: each is minted at most once
  Hashes,       \* action hashes
  Callers,      \* handler goroutines
  NoToken,      \* the token of a handler that has none
  TTL,          \* lifetime of a token, in ticks
  MaxClock      \* bound: ticks of the clock

ASSUME TokensAssumption == NoToken \notin Tokens
ASSUME HashesAssumption == Hashes # {}
ASSUME ClockAssumption == TTL \in Nat \ {0} /\ MaxClock \in Nat

VARIABLES
  row,       \* confirmation_tokens: what each token's row says
  clock,     \* Manager.Now
  pc,        \* each handler: "idle", "checked" (row read and valid), "granted", ...
  tok,       \* the token it was called with
  hash,      \* the action hash it checks the token against
  grants     \* history: the <<token, hash>> pairs ConsumeToken accepted, in order

tokenVars == <<row, clock, pc, tok, hash, grants>>

\* The hash of a row not minted yet, and of a handler that checks none.
AnyHash == CHOOSE h \in Hashes : TRUE
Row == [state : {"absent", "unused", "used"}, hash : Hashes, expires : Nat]

Tick ==
  /\ clock < MaxClock
  /\ clock' = clock + 1
  /\ UNCHANGED <<row, pc, tok, hash, grants>>

\* MintConfirmationToken: a fresh random id, bound to one hash.
Mint(t, h) ==
  /\ row[t].state = "absent"
  /\ row' = [row EXCEPT ![t] = [state |-> "unused", hash |-> h, expires |-> clock + TTL]]
  /\ UNCHANGED <<clock, pc, tok, hash, grants>>

\* Mutant: the token is not bound to an action.
ValidForAnything(t, h) == row[t].state = "unused" /\ clock < row[t].expires

\* ConsumeToken's checks on the row it read: there, not used, not expired,
\* and bound to this action.
Valid(t, h) ==
  /\ row[t].state = "unused"
  /\ clock < row[t].expires
  /\ row[t].hash = h

\* A call whose checks pass.  One whose checks fail returns an error and has
\* changed nothing.
Check(c, t, h) ==
  /\ Valid(t, h)
  /\ pc' = [pc EXCEPT ![c] = "checked"]
  /\ tok' = [tok EXCEPT ![c] = t]
  /\ hash' = [hash EXCEPT ![c] = h]
  /\ UNCHANGED <<row, clock, grants>>

\* Mutant: an UPDATE without WHERE used_at IS NULL.
MarkUsedAnyway(c) ==
  /\ pc[c] = "checked"
  /\ row' = [row EXCEPT ![tok[c]].state = "used"]
  /\ grants' = Append(grants, <<tok[c], hash[c]>>)
  /\ pc' = [pc EXCEPT ![c] = "granted"]
  /\ UNCHANGED <<clock, tok, hash>>

\* MarkConfirmationTokenUsed: UPDATE ... WHERE used_at IS NULL, one row hit.
MarkUsed(c) ==
  /\ pc[c] = "checked"
  /\ row[tok[c]].state = "unused"
  /\ row' = [row EXCEPT ![tok[c]].state = "used"]
  /\ grants' = Append(grants, <<tok[c], hash[c]>>)
  /\ pc' = [pc EXCEPT ![c] = "granted"]
  /\ UNCHANGED <<clock, tok, hash>>

\* No row hit: somebody else used the token since it was read, ErrTokenUsed.
LostRace(c) ==
  /\ pc[c] = "checked"
  /\ row[tok[c]].state # "unused"

\* The handler is over.
Returns(c) ==
  /\ pc' = [pc EXCEPT ![c] = "idle"]
  /\ tok' = [tok EXCEPT ![c] = NoToken]
  /\ hash' = [hash EXCEPT ![c] = AnyHash]

\* A human-initiated call: consume the token, mutate the host, return.
HumanCall(c, t, h) == pc[c] = "idle" /\ Check(c, t, h)
HumanRefused(c) == LostRace(c) /\ Returns(c) /\ UNCHANGED <<row, clock, grants>>
HumanMutates(c) ==
  /\ pc[c] = "granted"
  /\ Returns(c)
  /\ UNCHANGED <<row, clock, grants>>

TokenInit ==
  /\ row = [t \in Tokens |-> [state |-> "absent", hash |-> AnyHash, expires |-> 0]]
  /\ clock = 0
  /\ pc = [c \in Callers |-> "idle"]
  /\ tok = [c \in Callers |-> NoToken]
  /\ hash = [c \in Callers |-> AnyHash]
  /\ grants = << >>
=============================================================================
