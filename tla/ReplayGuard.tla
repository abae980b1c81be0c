------------------------------ MODULE ReplayGuard ------------------------------
(***************************************************************************)
(* The cache of request ids, shared by every connection, that answers a    *)
(* frame seen before instead of dispatching it again.                      *)
(***************************************************************************)
EXTENDS Naturals, FiniteSets

CONSTANTS
  Ids,
  Cap,        \* idSet.cap; 1024 in the code
  Window,     \* idSet.ttl in ticks; replayWindow is five minutes
  MaxNow      \* bound on the clock

VARIABLES
  seen,       \* idSet.seen: when each id was used, Never if it is not in the map
  lastGC,
  now,
  used        \* history: when each id was last read from a connection

guardVars == <<seen, lastGC, now, used>>

Never == MaxNow + 1       \* no time, or one long ago
Kept(s) == {id \in Ids : s[id] # Never}
Fresh(s, id) == s[id] # Never /\ now - s[id] <= Window

Collects == Cardinality(Kept(seen)) >= Cap \/ lastGC = Never \/ now - lastGC > Window

\* The sweep, when the map is full or a window has passed since the last one.
Swept == IF Collects THEN [id \in Ids |-> IF Fresh(seen, id) THEN seen[id] ELSE Never]
                     ELSE seen

\* Mutant: the newest entry makes room.
EvictedNewest(s) ==
  IF Cardinality(Kept(s)) < Cap THEN {s}
  ELSE {[s EXCEPT ![old] = Never] :
          old \in {id \in Kept(s) : \A other \in Kept(s) : s[id] >= s[other]}}

\* Mutant: nothing makes room.
EvictedNever(s) == {s}

\* A full map loses its oldest entry, any of the oldest.
Evicted(s) ==
  IF Cardinality(Kept(s)) < Cap THEN {s}
  ELSE {[s EXCEPT ![old] = Never] :
          old \in {id \in Kept(s) : \A other \in Kept(s) : s[id] <= s[other]}}

Uses(id) == used' = [used EXCEPT ![id] = now]
Sweeps == lastGC' = IF Collects THEN now ELSE lastGC

\* Mutant: a hit leaves the entry's time alone.
AnswerReplayStale(id) ==
  /\ Fresh(Swept, id)
  /\ seen' = Swept
  /\ Sweeps /\ Uses(id)
  /\ UNCHANGED now

\* add says the id is known: the frame is answered, its entry refreshed.
AnswerReplay(id) ==
  /\ Fresh(Swept, id)
  /\ seen' = [Swept EXCEPT ![id] = now]
  /\ Sweeps /\ Uses(id)
  /\ UNCHANGED now

\* The frame is new to the cache: it is dispatched.
Dispatch(id) ==
  /\ ~Fresh(Swept, id)
  /\ \E s \in Evicted(Swept) : seen' = [s EXCEPT ![id] = now]
  /\ Sweeps /\ Uses(id)
  /\ UNCHANGED now

GuardTick == now < MaxNow /\ now' = now + 1 /\ UNCHANGED <<seen, lastGC, used>>

GuardInit ==
  /\ seen = [id \in Ids |-> Never]
  /\ lastGC = Never          \* the zero time, long ago: the first frame sweeps
  /\ now = 0
  /\ used = [id \in Ids |-> Never]

GuardNext == GuardTick \/ \E id \in Ids : Dispatch(id) \/ AnswerReplay(id)

GuardSpec == GuardInit /\ [][GuardNext]_guardVars

-----------------------------------------------------------------------------
GuardTypeOK ==
  /\ now \in 0..MaxNow /\ lastGC \in 0..now \cup {Never}
  /\ seen \in [Ids -> 0..now \cup {Never}] /\ used \in [Ids -> 0..now \cup {Never}]
  /\ Cardinality(Kept(seen)) <= Cap

UsedSince(id) == {other \in Ids \ {id} : used[other] # Never /\ used[other] >= used[id]}

\* The inductive invariant: what the map holds is when the id was used, and an
\* id it lost is a window old, or has a full map of others used after it.
GuardInv ==
  /\ GuardTypeOK
  /\ \A id \in Ids : seen[id] # Never => seen[id] = used[id]
  /\ \A id \in Ids : used[id] # Never /\ seen[id] = Never
       => now - used[id] > Window \/ Cardinality(UsedSince(id)) >= Cap

\* A frame sent again is not executed again, however often and over however
\* many connections it is retried, unless a whole window went by without it or
\* a full cache of other requests came after it.
RunsRarely ==
  \A id \in Ids :
    Dispatch(id) /\ used[id] # Never
      => now - used[id] > Window \/ Cardinality(UsedSince(id)) >= Cap
RunsOnceInWindow == [][RunsRarely]_guardVars
=============================================================================
