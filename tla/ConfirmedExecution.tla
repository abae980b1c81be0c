-------------------------- MODULE ConfirmedExecution --------------------------
(***************************************************************************)
(* What the approval path promises, without handlers, rows or statuses: a  *)
(* proposal's action runs at most once, and every run is paid for with a   *)
(* confirmation token of its own that was minted for that action.          *)
(***************************************************************************)
EXTENDS Naturals, Sequences

CONSTANTS Proposals, Tokens

VARIABLE
  runs       \* the <<proposal, token>> pairs run, in order

Run(p, t) ==
  /\ \A i \in 1..Len(runs) : runs[i][1] # p /\ runs[i][2] # t
  /\ runs' = Append(runs, <<p, t>>)

Init == runs = << >>
Next == \E p \in Proposals, t \in Tokens : Run(p, t)
Spec == Init /\ [][Next]_runs
=============================================================================
