----------------------------- MODULE AlertsProofs -----------------------------
(***************************************************************************)
(* Theorems about Alerts: types, the debounce and its converse, the pages. *)
(***************************************************************************)
EXTENDS Alerts, TLAPS

Readings4 == {"over", "near", "under", "gone"}

\* A unit has no reading between the thresholds, and always has one.
UnitReadings ==
  /\ \A u \in Units : host[u] \in {"over", "under"} /\ run[u].last \in {"over", "under", "gone"}
  /\ \A k \in Keys : run[k].last = "gone" => run[k].length = 0
  /\ pc \in {"failed", "sweep"} =>
       /\ todo \subseteq Units
       /\ \A u \in Units : sample[u] \in {"over", "under"}
                           /\ run[u].last = sample[u] /\ run[u].length > 0
  /\ pc = "failed" => \A u \in todo : sample[u] = "over"
  /\ pc = "sweep"  => \A u \in todo : sample[u] = "under"

\* How far the evaluation is: the keys it may still raise.
Ahead == CASE pc = "disks"  -> todo \cup {Load} \cup Units
           [] pc = "units"  -> Units
           [] pc = "failed" -> todo
           [] OTHER         -> {}

RoomInv ==
  /\ \A k \in Ahead : fired[k] < MaxEpisodes
  /\ pc = "disks" => todo \subseteq Disks
  /\ pc = "units" => todo = {}
  /\ pc = "idle" => note = Nothing

\* The load's count is the length of its run over the threshold.
LoadInv ==
  IF active[Load].on THEN run[Load].last # "under" /\ active[Load].hits <= LoadHits
  ELSE /\ active[Load].hits < LoadHits
       /\ active[Load].hits = IF run[Load].last = "over" THEN run[Load].length ELSE 0

\* The unit's last reading has not been counted yet.
Uncounted(u) ==
  \/ pc = "failed" /\ (u \in todo \/ sample[u] = "under")
  \/ pc = "sweep" /\ u \in todo

\* A unit's count is the length of its run against the state of the alert.
UnitInv(u) ==
  LET contrary == IF active[u].on THEN "under" ELSE "over" IN
  /\ active[u].hits < UnitHits
  /\ active[u].on => run[u].last # "gone"
  /\ IF Uncounted(u)
     THEN run[u].last = contrary => active[u].hits = run[u].length - 1
     ELSE active[u].hits = IF run[u].last = contrary THEN run[u].length ELSE 0

\* What the phone was told last, against the state of the alert.
PageInv(k) ==
  /\ paged[k].episode <= fired[k]
  /\ active[k].on => fired[k] > 0
  /\ note # Nothing /\ note.key = k => note.episode = fired[k] /\ note.clear = ~active[k].on
  /\ k \notin excused =>
       IF note # Nothing /\ note.key = k
       THEN /\ paged[k].clear = active[k].on
            /\ IF note.clear THEN paged[k].episode = fired[k] ELSE paged[k].episode < fired[k]
       ELSE /\ paged[k].clear = ~active[k].on
            /\ active[k].on => paged[k].episode = fired[k]

IInv == /\ TypeOK /\ UnitReadings /\ RoomInv /\ LoadInv
        /\ \A u \in Units : UnitInv(u)
        /\ \A k \in Keys : PageInv(k)

-----------------------------------------------------------------------------
(* One lemma per action: it preserves the invariant *)

USE KeysAssumption, HitsAssumption, BoundsAssumption

\* The two limits are at most MaxHits.
LEMMA MaxHitsBounds == MaxHits \in Nat /\ LoadHits <= MaxHits /\ UnitHits <= MaxHits
  BY DEF MaxHits

\* enter: the key is on, and there is a page to publish if it was not.
LEMMA EnterFacts ==
  ASSUME TypeOK, NEW k \in Keys, NEW hits \in 0..MaxHits,
         fired[k] < MaxEpisodes, Enter(k, hits)
  PROVE  /\ active' \in [Keys -> [on : BOOLEAN, hits : 0..MaxHits]]
         /\ fired' \in [Keys -> 0..MaxEpisodes]
         /\ note' \in [key : Keys, clear : BOOLEAN, episode : 1..MaxEpisodes] \cup {Nothing}
         /\ \A q \in Keys \ {k} : active'[q] = active[q] /\ fired'[q] = fired[q]
         /\ active'[k] = [on |-> TRUE, hits |-> hits]
         /\ IF active[k].on THEN fired' = fired /\ note' = note
            ELSE /\ fired'[k] = fired[k] + 1
                 /\ note' = [key |-> k, clear |-> FALSE, episode |-> fired'[k]]
<1>1. CASE active[k].on
  <2>1. active' = [active EXCEPT ![k].hits = hits] /\ fired' = fired /\ note' = note
    BY <1>1 DEF Enter
  <2>2. active[k] = [on |-> TRUE, hits |-> active[k].hits]
    BY <1>1 DEF TypeOK
  <2>3. QED
    BY <1>1, <2>1, <2>2, MaxHitsBounds DEF TypeOK
<1>2. CASE ~active[k].on
  <2>1. /\ active' = [active EXCEPT ![k] = [on |-> TRUE, hits |-> hits]]
        /\ fired' = [fired EXCEPT ![k] = @ + 1]
        /\ note' = [key |-> k, clear |-> FALSE, episode |-> fired[k] + 1]
    BY <1>2 DEF Enter
  <2>2. fired[k] + 1 \in 1..MaxEpisodes
    BY DEF TypeOK
  <2>3. QED
    BY <1>2, <2>1, <2>2, MaxHitsBounds DEF TypeOK
<1>3. QED
  BY <1>1, <1>2

\* clear: the key is off, and there is a page to publish if it was on.
LEMMA ClearFacts ==
  ASSUME TypeOK, NEW k \in Keys, PageInv(k), Clear(k)
  PROVE  /\ active' \in [Keys -> [on : BOOLEAN, hits : 0..MaxHits]]
         /\ fired' = fired
         /\ note' \in [key : Keys, clear : BOOLEAN, episode : 1..MaxEpisodes] \cup {Nothing}
         /\ \A q \in Keys \ {k} : active'[q] = active[q]
         /\ active'[k] = Quiet
         /\ note' = IF active[k].on THEN [key |-> k, clear |-> TRUE, episode |-> fired[k]]
                    ELSE note
<1>1. active[k].on => fired[k] \in 1..MaxEpisodes
  BY DEF TypeOK, PageInv
<1>2. /\ active' = [active EXCEPT ![k] = Quiet]
      /\ note' = IF active[k].on THEN [key |-> k, clear |-> TRUE, episode |-> fired[k]] ELSE note
      /\ fired' = fired
  BY DEF Clear
<1>3. note' \in [key : Keys, clear : BOOLEAN, episode : 1..MaxEpisodes] \cup {Nothing}
  BY <1>1, <1>2 DEF TypeOK
<1>4. Quiet \in [on : BOOLEAN, hits : 0..MaxHits]
  BY MaxHitsBounds DEF Quiet
<1>5. QED
  BY <1>2, <1>3, <1>4 DEF TypeOK

LEMMA PageIsNote ==
  ASSUME NEW k \in Keys, NEW e \in Nat
  PROVE  /\ [key |-> k, clear |-> TRUE, episode |-> e] # Nothing
         /\ [key |-> k, clear |-> FALSE, episode |-> e] # Nothing
<1>1. /\ [key |-> k, clear |-> TRUE, episode |-> e] \in [key : Keys, clear : BOOLEAN, episode : Nat]
      /\ [key |-> k, clear |-> FALSE, episode |-> e] \in [key : Keys, clear : BOOLEAN, episode : Nat]
  OBVIOUS
<1>2. QED
  BY <1>1, NothingAssumption

\* The page to publish is the one that is due.
LEMMA EnterPages ==
  ASSUME TypeOK, NEW k \in Keys, NEW hits \in 0..MaxHits,
         fired[k] < MaxEpisodes, Enter(k, hits),
         note = Nothing, paged' = paged, excused' = excused,
         NEW q \in Keys, PageInv(q)
  PROVE  PageInv(q)'
<1>1. /\ active' \in [Keys -> [on : BOOLEAN, hits : 0..MaxHits]]
      /\ fired' \in [Keys -> 0..MaxEpisodes]
      /\ \A z \in Keys \ {k} : active'[z] = active[z] /\ fired'[z] = fired[z]
      /\ active'[k] = [on |-> TRUE, hits |-> hits]
      /\ IF active[k].on THEN fired' = fired /\ note' = note
         ELSE /\ fired'[k] = fired[k] + 1
              /\ note' = [key |-> k, clear |-> FALSE, episode |-> fired'[k]]
  BY EnterFacts
<1>3. CASE q = k /\ active[k].on
  <2>1. active'[q].on /\ fired' = fired /\ note' = Nothing
    BY <1>1, <1>3
  <2>2. QED
    BY <1>3, <2>1 DEF PageInv
<1>4. CASE q = k /\ ~active[k].on
  <2>1. note' = [key |-> q, clear |-> FALSE, episode |-> fired'[q]] /\ active'[q].on = TRUE
    BY <1>1, <1>4
  <2>2. fired'[q] > 0 /\ paged[q].episode < fired'[q] /\ paged[q].episode <= fired'[q]
    BY <1>1, <1>4 DEF PageInv, TypeOK
  <2>3. note' # Nothing
    <3>1. fired'[q] \in Nat
      BY <1>1
    <3>2. QED
      BY <2>1, <3>1, PageIsNote
  <2>4. q \notin excused => paged[q].clear = TRUE
    BY <1>4 DEF PageInv, TypeOK
  <2>5. /\ note'.key = q /\ note'.episode = fired'[q] /\ note'.clear = FALSE
        /\ note'.clear = ~active'[q].on
    BY <2>1
  <2>6. q \notin excused' => paged'[q].clear = active'[q].on
    BY <2>1, <2>4
  <2>7. QED
    BY <2>2, <2>3, <2>5, <2>6 DEF PageInv
<1>5. CASE q # k
  <2>1. ~(note' # Nothing /\ note'.key = q)
    BY <1>1, <1>5
  <2>2. active'[q] = active[q] /\ fired'[q] = fired[q]
    BY <1>1, <1>5
  <2>3. QED
    BY <2>1, <2>2 DEF PageInv
<1>6. QED
  BY <1>3, <1>4, <1>5

LEMMA ClearPages ==
  ASSUME TypeOK, NEW k \in Keys, PageInv(k), Clear(k),
         note = Nothing, paged' = paged, excused' = excused,
         NEW q \in Keys, PageInv(q)
  PROVE  PageInv(q)'
<1>1. /\ fired' = fired
      /\ \A z \in Keys \ {k} : active'[z] = active[z]
      /\ active'[k] = Quiet
      /\ note' = IF active[k].on THEN [key |-> k, clear |-> TRUE, episode |-> fired[k]]
                 ELSE note
  BY ClearFacts
<1>2. CASE q = k /\ active[k].on
  <2>1. note' = [key |-> q, clear |-> TRUE, episode |-> fired'[q]] /\ active'[q].on = FALSE
    BY <1>1, <1>2 DEF Quiet
  <2>2. note' # Nothing
    <3>1. fired'[q] \in Nat
      BY <1>1 DEF TypeOK
    <3>2. QED
      BY <2>1, <3>1, PageIsNote
  <2>3. /\ note'.key = q /\ note'.episode = fired'[q] /\ note'.clear = TRUE
        /\ note'.clear = ~active'[q].on
    BY <2>1
  <2>4. q \notin excused => paged[q].clear = FALSE /\ paged[q].episode = fired[q]
    BY <1>2 DEF PageInv, TypeOK
  <2>5. q \notin excused' => paged'[q].clear = active'[q].on /\ paged'[q].episode = fired'[q]
    BY <1>1, <2>1, <2>4
  <2>6. paged'[q].episode <= fired'[q]
    BY <1>1 DEF PageInv
  <2>7. QED
    BY <2>1, <2>2, <2>3, <2>5, <2>6 DEF PageInv
<1>3. CASE q = k /\ ~active[k].on
  <2>1. active'[q].on = FALSE /\ note' = Nothing
    BY <1>1, <1>3 DEF Quiet
  <2>2. active[q].on = FALSE
    BY <1>3 DEF TypeOK
  <2>3. QED
    BY <1>1, <2>1, <2>2 DEF PageInv
<1>4. CASE q # k
  <2>1. active'[q] = active[q] /\ ~(note' # Nothing /\ note'.key = q)
    BY <1>1, <1>4
  <2>2. QED
    BY <1>1, <2>1 DEF PageInv
<1>5. QED
  BY <1>2, <1>3, <1>4

LEMMA StartEvaluationKeeps ==
  ASSUME IInv, StartEvaluation
  PROVE  IInv'
<1> USE DEF IInv, StartEvaluation, vars, world, store, evaluator, history, Keys, Uncounted, Ahead
<1>1. TypeOK'
  BY DEF TypeOK, Quiet, NoPage, Kinds
<1>2. UnitReadings'
  BY DEF TypeOK, UnitReadings
<1>3. RoomInv'
  BY DEF TypeOK, RoomInv, UnitReadings
<1>4. LoadInv'
  BY DEF TypeOK, LoadInv, UnitReadings, RoomInv
<1>5. ASSUME NEW w \in Units PROVE UnitInv(w)'
  BY <1>5 DEF TypeOK, UnitInv, UnitReadings, RoomInv
<1>6. ASSUME NEW q \in Keys PROVE PageInv(q)'
  BY <1>6 DEF TypeOK, PageInv, RoomInv
<1>7. QED
  BY <1>1, <1>2, <1>3, <1>4, <1>5, <1>6

LEMMA DisksOffKeeps ==
  ASSUME IInv, DisksOff
  PROVE  IInv'
<1> USE DEF IInv, DisksOff, vars, world, store, evaluator, history, Keys, Uncounted,
            Deleted, Excuse, Quiet, Ahead
<1>1. TypeOK'
  <2>1. active' \in [Keys -> [on : BOOLEAN, hits : 0..MaxHits]]
    BY MaxHitsBounds DEF TypeOK
  <2>2. QED
    BY <2>1 DEF TypeOK
<1>2. UnitReadings'
  BY DEF TypeOK, UnitReadings
<1>3. RoomInv'
  BY DEF TypeOK, RoomInv
<1>4. LoadInv'
  BY DEF TypeOK, LoadInv
<1>5. ASSUME NEW w \in Units PROVE UnitInv(w)'
  BY <1>5 DEF TypeOK, UnitInv
<1>6. ASSUME NEW q \in Keys PROVE PageInv(q)'
  BY <1>6 DEF TypeOK, PageInv
<1>7. QED
  BY <1>1, <1>2, <1>3, <1>4, <1>5, <1>6

LEMMA EvalDiskKeeps ==
  ASSUME IInv, NEW d \in Disks, EvalDisk(d)
  PROVE  IInv'
<1> USE DEF IInv
<1>1. d \in Keys /\ d \notin Units /\ d # Load /\ fired[d] < MaxEpisodes
  BY DEF Keys, RoomInv, Ahead, EvalDisk
<1>2. /\ pc = "disks" /\ pc' = pc /\ todo' \subseteq todo /\ note = Nothing
      /\ UNCHANGED <<world, store, rules, sample, history, run, restarts>>
  BY DEF EvalDisk
<1> USE DEF world, store, history
<1>3. ASSUME active' \in [Keys -> [on : BOOLEAN, hits : 0..MaxHits]],
             fired' \in [Keys -> 0..MaxEpisodes],
             note' \in [key : Keys, clear : BOOLEAN, episode : 1..MaxEpisodes] \cup {Nothing},
             \A z \in Keys \ {d} : active'[z] = active[z] /\ fired'[z] = fired[z]
      PROVE  TypeOK' /\ UnitReadings' /\ RoomInv' /\ LoadInv' /\ \A w \in Units : UnitInv(w)'
  <2>1. TypeOK'
    BY <1>2, <1>3 DEF TypeOK
  <2>2. UnitReadings'
    BY <1>2 DEF UnitReadings
  <2>3. RoomInv'
    <3>1. Ahead' \subseteq Ahead /\ Ahead \subseteq Keys /\ d \notin Ahead'
      BY <1>1, <1>2 DEF Ahead, Keys, RoomInv, EvalDisk
    <3>2. QED
      BY <1>2, <1>3, <3>1 DEF RoomInv
  <2>4. LoadInv'
    BY <1>1, <1>2, <1>3 DEF LoadInv, Keys
  <2>5. ASSUME NEW w \in Units PROVE UnitInv(w)'
    BY <1>1, <1>2, <1>3, <2>5 DEF UnitInv, Uncounted, Keys
  <2>6. QED
    BY <2>1, <2>2, <2>3, <2>4, <2>5
<1>4. CASE sample[d] = "over"
  <2>1. Enter(d, 0) /\ 0 \in 0..MaxHits
    BY <1>4, MaxHitsBounds DEF EvalDisk
  <2>2. \A q \in Keys : PageInv(q)'
    BY <1>1, <1>2, <2>1, EnterPages
  <2>3. QED
    BY <1>1, <1>3, <2>1, <2>2, EnterFacts
<1>5. CASE sample[d] = "under"
  <2>1. Clear(d) /\ PageInv(d)
    BY <1>1, <1>5 DEF EvalDisk
  <2>2. \A q \in Keys : PageInv(q)'
    BY <1>1, <1>2, <2>1, ClearPages
  <2>3. QED
    BY <1>1, <1>3, <2>1, <2>2, ClearFacts DEF TypeOK
<1>6. CASE sample[d] \notin {"over", "under"}
  <2>1. UNCHANGED <<active, note, fired>>
    BY <1>6 DEF Hold, EvalDisk
  <2>2. \A q \in Keys : PageInv(q)'
    BY <1>2, <2>1 DEF PageInv
  <2>3. QED
    BY <1>3, <2>1, <2>2 DEF TypeOK
<1>7. QED
  BY <1>4, <1>5, <1>6

LEMMA EvalLoadKeeps ==
  ASSUME IInv, EvalLoad
  PROVE  IInv'
<1> USE DEF IInv
<1>1. /\ Load \in Keys /\ Load \notin Units /\ fired[Load] < MaxEpisodes
      /\ active[Load].hits \in Nat /\ run[Load].length \in Nat /\ active[Load].on \in BOOLEAN
  BY DEF Keys, RoomInv, Ahead, EvalLoad, TypeOK
<1>2. /\ pc = "disks" /\ pc' = "units" /\ todo' = {} /\ todo = {} /\ note = Nothing
      /\ UNCHANGED <<world, store, rules, sample, paged, restarts>>
  BY DEF EvalLoad
<1> USE DEF world, store
<1>3. ASSUME active' \in [Keys -> [on : BOOLEAN, hits : 0..MaxHits]],
             fired' \in [Keys -> 0..MaxEpisodes],
             note' \in [key : Keys, clear : BOOLEAN, episode : 1..MaxEpisodes] \cup {Nothing},
             run' \in [Keys -> [last : {"over", "near", "under", "gone"}, length : 0..MaxHits]],
             excused' \subseteq Keys, run'[Load].last = "gone" => run'[Load].length = 0,
             \A z \in Keys \ {Load} :
               active'[z] = active[z] /\ fired'[z] = fired[z] /\ run'[z] = run[z],
             \A q \in Keys : PageInv(q)', LoadInv'
      PROVE  IInv'
  <2>1. TypeOK'
    BY <1>2, <1>3 DEF TypeOK
  <2>2. UnitReadings'
    BY <1>1, <1>2, <1>3 DEF UnitReadings, Keys
  <2>3. RoomInv'
    BY <1>1, <1>2, <1>3 DEF RoomInv, Ahead, Keys
  <2>4. ASSUME NEW w \in Units PROVE UnitInv(w)'
    BY <1>1, <1>2, <1>3, <2>4 DEF UnitInv, Uncounted, Keys
  <2>5. QED
    BY <1>3, <2>1, <2>2, <2>3, <2>4
<1>4. CASE LoadOff
  <2>1. /\ active' = Deleted({Load}) /\ Excuse({Load}) /\ Forgotten({Load})
        /\ UNCHANGED <<note, fired>>
    BY <1>4 DEF EvalLoad
  <2>2. /\ active' \in [Keys -> [on : BOOLEAN, hits : 0..MaxHits]]
        /\ active'[Load] = [on |-> FALSE, hits |-> 0]
        /\ \A z \in Keys \ {Load} : active'[z] = active[z]
    BY <1>1, <2>1, MaxHitsBounds DEF Deleted, Quiet, TypeOK
  <2>3. /\ run' \in [Keys -> [last : {"over", "near", "under", "gone"}, length : 0..MaxHits]]
        /\ run'[Load] = [last |-> "gone", length |-> 0]
        /\ \A z \in Keys \ {Load} : run'[z] = run[z]
    BY <1>1, <2>1, MaxHitsBounds DEF Forgotten, NoRun, TypeOK
  <2>4. ASSUME NEW q \in Keys PROVE PageInv(q)'
    <3>1. CASE q # Load
      <4>1. active'[q] = active[q] /\ (q \notin excused' => q \notin excused)
        BY <2>1, <2>2, <3>1 DEF Excuse
      <4>2. QED
        BY <1>2, <2>1, <2>4, <4>1 DEF PageInv
    <3>2. CASE q = Load /\ active[Load].on
      <4>1. q \in excused' /\ ~active'[q].on /\ note' = Nothing
        BY <1>2, <2>1, <2>2, <3>2 DEF Excuse
      <4>2. QED
        BY <1>2, <2>1, <2>4, <4>1 DEF PageInv
    <3>3. CASE q = Load /\ ~active[Load].on
      <4>1. active[q].on = FALSE /\ active'[q].on = FALSE
        BY <1>1, <2>2, <3>3
      <4>2. q \notin excused' => q \notin excused
        BY <2>1 DEF Excuse
      <4>3. QED
        BY <1>2, <2>1, <2>4, <4>1, <4>2 DEF PageInv
    <3>4. QED
      BY <3>1, <3>2, <3>3
  <2>5. LoadInv'
    BY <2>2, <2>3 DEF LoadInv
  <2>6. excused' \subseteq Keys
    BY <1>1, <2>1 DEF Excuse, TypeOK
  <2>7. /\ fired' \in [Keys -> 0..MaxEpisodes] /\ \A z \in Keys \ {Load} : fired'[z] = fired[z]
        /\ note' \in [key : Keys, clear : BOOLEAN, episode : 1..MaxEpisodes] \cup {Nothing}
    BY <2>1 DEF TypeOK
  <2>8. run'[Load].last = "gone" => run'[Load].length = 0
    BY <2>3
  <2>9. QED
    BY <1>3, <2>2, <2>3, <2>4, <2>5, <2>6, <2>7, <2>8
<1>5. CASE ~LoadOff
  <2>1. /\ IF sample[Load] = "over" THEN LoadOver ELSE LoadBelow
        /\ run' = [run EXCEPT ![Load] = Longer(Load, sample[Load])]
        /\ excused' = excused
        /\ sample[Load] \in {"over", "near", "under"}
    BY <1>1, <1>5 DEF EvalLoad, LoadOff, TypeOK
  <2>2. /\ run'[Load].last = sample[Load]
        /\ run'[Load].length = IF run[Load].last = sample[Load]
                               THEN Capped(run[Load].length + 1, MaxHits) ELSE 1
        /\ \A z \in Keys \ {Load} : run'[z] = run[z]
    BY <1>1, <2>1 DEF Longer, TypeOK
  <2>3. run' \in [Keys -> [last : {"over", "near", "under", "gone"}, length : 0..MaxHits]]
    <3>1. Longer(Load, sample[Load]) \in
            [last : {"over", "near", "under", "gone"}, length : 0..MaxHits]
      BY <1>1, <2>1, MaxHitsBounds DEF Longer, Capped, TypeOK
    <3>2. QED
      BY <2>1, <3>1 DEF TypeOK
  <2>4. ASSUME NEW on \in BOOLEAN, NEW h \in 0..LoadHits,
               active' = [active EXCEPT ![Load] = [on |-> on, hits |-> h]],
               on = active[Load].on, UNCHANGED <<note, fired>>, LoadInv'
        PROVE  IInv'
    <3>1. active' \in [Keys -> [on : BOOLEAN, hits : 0..MaxHits]]
      <4>1. h \in 0..MaxHits
        BY <2>4, MaxHitsBounds
      <4>2. [on |-> on, hits |-> h] \in [on : BOOLEAN, hits : 0..MaxHits]
        BY <2>4, <4>1
      <4>3. QED
        BY <2>4, <4>2 DEF TypeOK
    <3>2. \A q \in Keys : active'[q].on = active[q].on
      BY <1>1, <2>4 DEF TypeOK
    <3>3. \A q \in Keys : PageInv(q)'
      BY <1>2, <2>1, <2>4, <3>2 DEF PageInv
    <3>4. \A z \in Keys \ {Load} : active'[z] = active[z]
      BY <2>4 DEF TypeOK
    <3>5. QED
      BY <1>3, <2>1, <2>2, <2>3, <2>4, <3>1, <3>3, <3>4 DEF TypeOK
  <2>5. CASE sample[Load] = "over"
    <3> DEFINE hits == Capped(active[Load].hits + 1, LoadHits)
    <3>1. /\ LoadOver /\ hits \in 0..LoadHits
          /\ hits = IF active[Load].hits + 1 < LoadHits THEN active[Load].hits + 1 ELSE LoadHits
      BY <1>1, <2>1, <2>5 DEF Capped
    <3>2. CASE hits >= LoadHits
      <4>1. Enter(Load, hits) /\ hits \in 0..MaxHits
        BY <3>1, <3>2, MaxHitsBounds DEF LoadOver
      <4> HIDE DEF hits
      <4>2. \A q \in Keys : PageInv(q)'
        BY <1>1, <1>2, <2>1, <4>1, EnterPages
      <4>3. active'[Load] = [on |-> TRUE, hits |-> hits]
        BY <1>1, <4>1, EnterFacts
      <4>4. LoadInv'
        BY <2>2, <2>5, <3>1, <4>3 DEF LoadInv
      <4>5. QED
        BY <1>1, <1>3, <2>1, <2>2, <2>3, <4>1, <4>2, <4>4, EnterFacts DEF TypeOK
    <3>3. CASE hits < LoadHits
      <4>1. active' = [active EXCEPT ![Load].hits = hits] /\ UNCHANGED <<note, fired>>
        BY <3>1, <3>3 DEF LoadOver
      <4> HIDE DEF hits
      <4>2. active'[Load] = [on |-> active[Load].on, hits |-> hits]
        BY <1>1, <4>1 DEF TypeOK
      <4>3. active' = [active EXCEPT ![Load] = [on |-> active[Load].on, hits |-> hits]]
        BY <1>1, <4>1, <4>2 DEF TypeOK
      <4>4. LoadInv'
        BY <1>1, <2>2, <2>5, <3>1, <3>3, <4>2, MaxHitsBounds DEF LoadInv, Capped
      <4>5. QED
        BY <1>1, <2>4, <3>1, <4>1, <4>3, <4>4
    <3>4. QED
      BY <3>1, <3>2, <3>3
  <2>6. CASE sample[Load] # "over" /\ active[Load].on /\ sample[Load] = "under"
    <3>1. Clear(Load) /\ PageInv(Load)
      BY <1>1, <2>1, <2>6 DEF LoadBelow
    <3>2. \A q \in Keys : PageInv(q)'
      BY <1>1, <1>2, <2>1, <3>1, ClearPages
    <3>3. active'[Load] = [on |-> FALSE, hits |-> 0]
      BY <1>1, <3>1, ClearFacts DEF Quiet
    <3>4. LoadInv'
      BY <2>2, <2>6, <3>3 DEF LoadInv
    <3>5. QED
      BY <1>1, <1>3, <2>1, <2>2, <2>3, <3>1, <3>2, <3>4, ClearFacts DEF TypeOK
  <2>7. CASE sample[Load] # "over" /\ active[Load].on /\ sample[Load] # "under"
    <3>1. UNCHANGED <<active, note, fired>>
      BY <2>1, <2>7 DEF LoadBelow, Hold
    <3>2. LoadInv'
      BY <2>2, <2>7, <3>1 DEF LoadInv
    <3>3. \A q \in Keys : PageInv(q)'
      BY <1>2, <2>1, <3>1 DEF PageInv
    <3>4. QED
      BY <1>3, <2>1, <2>2, <2>3, <3>1, <3>2, <3>3 DEF TypeOK
  <2>8. CASE sample[Load] # "over" /\ ~active[Load].on
    <3>1. active' = [active EXCEPT ![Load].hits = 0] /\ UNCHANGED <<note, fired>>
      BY <2>1, <2>8 DEF LoadBelow
    <3>2. active'[Load] = [on |-> active[Load].on, hits |-> 0]
      BY <1>1, <3>1 DEF TypeOK
    <3>3. active' = [active EXCEPT ![Load] = [on |-> active[Load].on, hits |-> 0]]
      BY <1>1, <3>1, <3>2 DEF TypeOK
    <3>4. LoadInv'
      BY <2>2, <2>8, <3>2 DEF LoadInv
    <3>5. 0 \in 0..LoadHits
      OBVIOUS
    <3>6. QED
      BY <1>1, <2>4, <3>1, <3>3, <3>4, <3>5
  <2>9. QED
    BY <2>5, <2>6, <2>7, <2>8
<1>6. QED
  BY <1>4, <1>5

LEMMA UnitsOffKeeps ==
  ASSUME IInv, UnitsOff
  PROVE  IInv'
<1> USE DEF IInv, UnitsOff, vars, world, store, evaluator, history, Keys, Uncounted,
            Deleted, Excuse, Quiet, Forgotten, NoRun, Ends, Ahead
<1>1. TypeOK'
  <2>1. active' \in [Keys -> [on : BOOLEAN, hits : 0..MaxHits]]
    BY MaxHitsBounds DEF TypeOK
  <2>2. run' \in [Keys -> [last : {"over", "near", "under", "gone"}, length : 0..MaxHits]]
    BY MaxHitsBounds DEF TypeOK
  <2>3. QED
    BY <2>1, <2>2 DEF TypeOK, NoRules, NoSample, Kinds
<1>2. UnitReadings'
  BY DEF TypeOK, UnitReadings
<1>3. RoomInv'
  BY DEF TypeOK, RoomInv
<1>4. LoadInv'
  BY DEF TypeOK, LoadInv
<1>5. ASSUME NEW w \in Units PROVE UnitInv(w)'
  BY <1>5 DEF TypeOK, UnitInv
<1>6. ASSUME NEW q \in Keys PROVE PageInv(q)'
  BY <1>6 DEF TypeOK, PageInv
<1>7. QED
  BY <1>1, <1>2, <1>3, <1>4, <1>5, <1>6

LEMMA UnitsUnavailableKeeps ==
  ASSUME IInv, UnitsUnavailable
  PROVE  IInv'
<1> USE DEF IInv, UnitsUnavailable, vars, world, store, evaluator, history, Keys, Uncounted, Ends, NoSample, NoRules, Ahead
<1>1. TypeOK'
  BY DEF TypeOK, Quiet, NoPage, Kinds
<1>2. UnitReadings'
  BY DEF TypeOK, UnitReadings
<1>3. RoomInv'
  BY DEF TypeOK, RoomInv, UnitReadings
<1>4. LoadInv'
  BY DEF TypeOK, LoadInv, UnitReadings, RoomInv
<1>5. ASSUME NEW w \in Units PROVE UnitInv(w)'
  BY <1>5 DEF TypeOK, UnitInv, UnitReadings, RoomInv
<1>6. ASSUME NEW q \in Keys PROVE PageInv(q)'
  BY <1>6 DEF TypeOK, PageInv, RoomInv
<1>7. QED
  BY <1>1, <1>2, <1>3, <1>4, <1>5, <1>6

LEMMA ListUnitsKeeps ==
  ASSUME IInv, ListUnits
  PROVE  IInv'
<1> USE DEF IInv, ListUnits, vars, world, store, evaluator, history, Keys, Uncounted, Longer, Capped, MaxHits, Ahead
<1>1. TypeOK'
  BY DEF TypeOK, Quiet, NoPage, Kinds
<1>2. UnitReadings'
  BY DEF TypeOK, UnitReadings
<1>3. RoomInv'
  BY DEF TypeOK, RoomInv, UnitReadings
<1>4. LoadInv'
  BY DEF TypeOK, LoadInv, UnitReadings, RoomInv
<1>5. ASSUME NEW w \in Units PROVE UnitInv(w)'
  <2>1. run'[w] = Longer(w, host[w]) /\ host[w] \in {"over", "under"}
    BY <1>5 DEF UnitReadings
  <2>2. active' = active /\ ~Uncounted(w)
    BY <1>5
  <2>3. /\ active[w].hits < UnitHits /\ active[w].hits \in Nat /\ run[w].length \in Nat
        /\ active[w].on => run[w].last # "gone"
        /\ active[w].hits = IF run[w].last = IF active[w].on THEN "under" ELSE "over"
                            THEN run[w].length ELSE 0
    BY <1>5, <2>2 DEF UnitInv, TypeOK
  <2>4. run'[w].last = host[w]
    BY <2>1
  <2>5. run'[w].last = (IF active[w].on THEN "under" ELSE "over")
          => active[w].hits = run'[w].length - 1
    <3>1. CASE run[w].last = host[w]
      BY <2>1, <2>3, <2>4, <3>1, MaxHitsBounds
    <3>2. CASE run[w].last # host[w]
      BY <2>1, <2>3, <2>4, <3>2
    <3>3. QED
      BY <3>1, <3>2
  <2>6. QED
    BY <2>1, <2>2, <2>3, <2>4, <2>5 DEF UnitInv
<1>6. ASSUME NEW q \in Keys PROVE PageInv(q)'
  BY <1>6 DEF TypeOK, PageInv, RoomInv
<1>7. QED
  BY <1>1, <1>2, <1>3, <1>4, <1>5, <1>6

LEMMA TrackFailedKeeps ==
  ASSUME IInv, NEW u \in Units, TrackFailed(u)
  PROVE  IInv'
<1> USE DEF IInv
<1>1. /\ u \in Keys /\ u # Load /\ active[u].hits \in Nat /\ UnitHits \in Nat
      /\ u \notin todo'
  BY DEF Keys, TrackFailed, TypeOK
<1>2. /\ pc = "failed" /\ pc' = pc /\ todo' = todo \ {u} /\ u \in todo /\ note = Nothing
      /\ UNCHANGED <<world, store, rules, sample, history, run, restarts>>
  BY DEF TrackFailed, evaluator
<1> USE DEF world, store, history
<1>3. sample[u] = "over" /\ run[u].last = "over"
  BY <1>2 DEF UnitReadings
<1>4. ASSUME active' \in [Keys -> [on : BOOLEAN, hits : 0..MaxHits]],
             fired' \in [Keys -> 0..MaxEpisodes],
             note' \in [key : Keys, clear : BOOLEAN, episode : 1..MaxEpisodes] \cup {Nothing},
             \A z \in Keys \ {u} : active'[z] = active[z] /\ fired'[z] = fired[z],
             \A q \in Keys : PageInv(q)', UnitInv(u)'
      PROVE  IInv'
  <2>1. TypeOK'
    BY <1>2, <1>4 DEF TypeOK
  <2>2. UnitReadings'
    BY <1>2 DEF UnitReadings
  <2>3. RoomInv'
    BY <1>1, <1>2, <1>4 DEF RoomInv, Ahead, TypeOK
  <2>4. LoadInv'
    BY <1>1, <1>2, <1>4 DEF LoadInv, Keys
  <2>5. ASSUME NEW w \in Units, w # u PROVE UnitInv(w)'
    BY <1>2, <1>4, <2>5 DEF UnitInv, Uncounted, Keys
  <2>6. QED
    BY <1>4, <2>1, <2>2, <2>3, <2>4, <2>5
<1>5. CASE active[u].on = TRUE
  <2>1. active' = [active EXCEPT ![u].hits = 0] /\ UNCHANGED <<note, fired>>
    BY <1>5 DEF TrackUnit, TrackFailed
  <2>2. active'[u] = [on |-> active[u].on, hits |-> 0] /\ active[u].on \in BOOLEAN
    BY <1>1, <2>1 DEF TypeOK
  <2>3. active' \in [Keys -> [on : BOOLEAN, hits : 0..MaxHits]]
    <3>1. active'[u] \in [on : BOOLEAN, hits : 0..MaxHits]
      BY <2>2, MaxHitsBounds
    <3>2. active' = [active EXCEPT ![u] = active'[u]]
      BY <2>1, <2>2 DEF TypeOK
    <3>3. QED
      BY <3>1, <3>2 DEF TypeOK
  <2>4. \A q \in Keys : active'[q].on = active[q].on
    BY <1>1, <2>1, <2>2 DEF TypeOK
  <2>5. \A q \in Keys : PageInv(q)'
    BY <1>2, <2>1, <2>4 DEF PageInv
  <2>6. UnitInv(u)'
    BY <1>1, <1>2, <1>3, <1>5, <2>2 DEF UnitInv, Uncounted
  <2>7. QED
    BY <1>4, <2>1, <2>3, <2>5, <2>6 DEF TypeOK
<1>6. CASE active[u].on = FALSE /\ active[u].hits + 1 < UnitHits
  <2>1. active' = [active EXCEPT ![u].hits = active[u].hits + 1] /\ UNCHANGED <<note, fired>>
    BY <1>6 DEF TrackUnit, TrackFailed
  <2>2. active'[u] = [on |-> active[u].on, hits |-> active[u].hits + 1] /\ active[u].on \in BOOLEAN
    BY <1>1, <2>1 DEF TypeOK
  <2>3. active' \in [Keys -> [on : BOOLEAN, hits : 0..MaxHits]]
    BY <1>1, <1>6, <2>1, MaxHitsBounds DEF TypeOK
  <2>4. \A q \in Keys : active'[q].on = active[q].on
    BY <1>1, <2>1, <2>2 DEF TypeOK
  <2>5. \A q \in Keys : PageInv(q)'
    BY <1>2, <2>1, <2>4 DEF PageInv
  <2>6. UnitInv(u)'
    <3>1. active[u].hits = run[u].length - 1 /\ run[u].length \in Nat
      BY <1>1, <1>2, <1>3, <1>6 DEF UnitInv, Uncounted, TypeOK
    <3>2. QED
      BY <1>1, <1>2, <1>3, <1>6, <2>2, <3>1 DEF UnitInv, Uncounted
  <2>7. QED
    BY <1>4, <2>1, <2>3, <2>5, <2>6 DEF TypeOK
<1>7. CASE active[u].on = FALSE /\ ~(active[u].hits + 1 < UnitHits)
  <2>1. Enter(u, 0) /\ 0 \in 0..MaxHits /\ fired[u] < MaxEpisodes
    <3>1. Enter(u, 0)
      BY <1>7 DEF TrackUnit, TrackFailed
    <3>2. fired[u] < MaxEpisodes
      BY <1>2 DEF RoomInv, Ahead
    <3>3. QED
      BY <3>1, <3>2, MaxHitsBounds
  <2>2. \A q \in Keys : PageInv(q)'
    BY <1>1, <1>2, <2>1, EnterPages
  <2>3. active'[u] = [on |-> TRUE, hits |-> 0]
    BY <1>1, <2>1, EnterFacts
  <2>4. UnitInv(u)'
    BY <1>1, <1>2, <1>3, <2>3 DEF UnitInv, Uncounted
  <2>5. QED
    BY <1>1, <1>4, <2>1, <2>2, <2>4, EnterFacts
<1>8. active[u].on \in BOOLEAN
  BY <1>1 DEF TypeOK
<1>9. QED
  BY <1>5, <1>6, <1>7, <1>8

LEMMA SweepKeeps ==
  ASSUME IInv, Sweep
  PROVE  IInv'
<1> USE DEF IInv, Sweep, vars, world, store, evaluator, history, Keys, Uncounted, Ahead
<1>1. TypeOK'
  BY DEF TypeOK, Quiet, NoPage, Kinds
<1>2. UnitReadings'
  BY DEF TypeOK, UnitReadings
<1>3. RoomInv'
  BY DEF TypeOK, RoomInv, UnitReadings
<1>4. LoadInv'
  BY DEF TypeOK, LoadInv, UnitReadings, RoomInv
<1>5. ASSUME NEW w \in Units PROVE UnitInv(w)'
  BY <1>5 DEF TypeOK, UnitInv, UnitReadings, RoomInv
<1>6. ASSUME NEW q \in Keys PROVE PageInv(q)'
  BY <1>6 DEF TypeOK, PageInv, RoomInv
<1>7. QED
  BY <1>1, <1>2, <1>3, <1>4, <1>5, <1>6

LEMMA TrackHealthyKeeps ==
  ASSUME IInv, NEW u \in Units, TrackHealthy(u)
  PROVE  IInv'
<1> USE DEF IInv
<1>1. /\ u \in Keys /\ u # Load /\ active[u].hits \in Nat /\ UnitHits \in Nat
      /\ u \notin todo'
  BY DEF Keys, TrackHealthy, TypeOK
<1>2. /\ pc = "sweep" /\ pc' = pc /\ todo' = todo \ {u} /\ u \in todo /\ note = Nothing
      /\ UNCHANGED <<world, store, rules, sample, history, run, restarts>>
  BY DEF TrackHealthy, evaluator
<1> USE DEF world, store, history
<1>3. sample[u] = "under" /\ run[u].last = "under"
  BY <1>2 DEF UnitReadings
<1>4. ASSUME active' \in [Keys -> [on : BOOLEAN, hits : 0..MaxHits]],
             fired' \in [Keys -> 0..MaxEpisodes],
             note' \in [key : Keys, clear : BOOLEAN, episode : 1..MaxEpisodes] \cup {Nothing},
             \A z \in Keys \ {u} : active'[z] = active[z] /\ fired'[z] = fired[z],
             \A q \in Keys : PageInv(q)', UnitInv(u)'
      PROVE  IInv'
  <2>1. TypeOK'
    BY <1>2, <1>4 DEF TypeOK
  <2>2. UnitReadings'
    BY <1>2 DEF UnitReadings
  <2>3. RoomInv'
    BY <1>1, <1>2, <1>4 DEF RoomInv, Ahead, TypeOK
  <2>4. LoadInv'
    BY <1>1, <1>2, <1>4 DEF LoadInv, Keys
  <2>5. ASSUME NEW w \in Units, w # u PROVE UnitInv(w)'
    BY <1>2, <1>4, <2>5 DEF UnitInv, Uncounted, Keys
  <2>6. QED
    BY <1>4, <2>1, <2>2, <2>3, <2>4, <2>5
<1>5. CASE active[u].on = FALSE
  <2>1. active' = [active EXCEPT ![u].hits = 0] /\ UNCHANGED <<note, fired>>
    BY <1>5 DEF TrackUnit, TrackHealthy
  <2>2. active'[u] = [on |-> active[u].on, hits |-> 0] /\ active[u].on \in BOOLEAN
    BY <1>1, <2>1 DEF TypeOK
  <2>3. active' \in [Keys -> [on : BOOLEAN, hits : 0..MaxHits]]
    <3>1. active'[u] \in [on : BOOLEAN, hits : 0..MaxHits]
      BY <2>2, MaxHitsBounds
    <3>2. active' = [active EXCEPT ![u] = active'[u]]
      BY <2>1, <2>2 DEF TypeOK
    <3>3. QED
      BY <3>1, <3>2 DEF TypeOK
  <2>4. \A q \in Keys : active'[q].on = active[q].on
    BY <1>1, <2>1, <2>2 DEF TypeOK
  <2>5. \A q \in Keys : PageInv(q)'
    BY <1>2, <2>1, <2>4 DEF PageInv
  <2>6. UnitInv(u)'
    BY <1>1, <1>2, <1>3, <1>5, <2>2 DEF UnitInv, Uncounted
  <2>7. QED
    BY <1>4, <2>1, <2>3, <2>5, <2>6 DEF TypeOK
<1>6. CASE active[u].on = TRUE /\ active[u].hits + 1 < UnitHits
  <2>1. active' = [active EXCEPT ![u].hits = active[u].hits + 1] /\ UNCHANGED <<note, fired>>
    BY <1>6 DEF TrackUnit, TrackHealthy
  <2>2. active'[u] = [on |-> active[u].on, hits |-> active[u].hits + 1] /\ active[u].on \in BOOLEAN
    BY <1>1, <2>1 DEF TypeOK
  <2>3. active' \in [Keys -> [on : BOOLEAN, hits : 0..MaxHits]]
    BY <1>1, <1>6, <2>1, MaxHitsBounds DEF TypeOK
  <2>4. \A q \in Keys : active'[q].on = active[q].on
    BY <1>1, <2>1, <2>2 DEF TypeOK
  <2>5. \A q \in Keys : PageInv(q)'
    BY <1>2, <2>1, <2>4 DEF PageInv
  <2>6. UnitInv(u)'
    <3>1. active[u].hits = run[u].length - 1 /\ run[u].length \in Nat
      BY <1>1, <1>2, <1>3, <1>6 DEF UnitInv, Uncounted, TypeOK
    <3>2. QED
      BY <1>1, <1>2, <1>3, <1>6, <2>2, <3>1 DEF UnitInv, Uncounted
  <2>7. QED
    BY <1>4, <2>1, <2>3, <2>5, <2>6 DEF TypeOK
<1>7. CASE active[u].on = TRUE /\ ~(active[u].hits + 1 < UnitHits)
  <2>1. Clear(u) /\ PageInv(u)
    BY <1>1, <1>7 DEF TrackUnit, TrackHealthy
  <2>2. \A q \in Keys : PageInv(q)'
    BY <1>1, <1>2, <2>1, ClearPages
  <2>3. active'[u] = [on |-> FALSE, hits |-> 0]
    BY <1>1, <2>1, ClearFacts DEF Quiet
  <2>4. UnitInv(u)'
    BY <1>1, <1>2, <1>3, <2>3 DEF UnitInv, Uncounted
  <2>5. QED
    BY <1>1, <1>4, <2>1, <2>2, <2>4, ClearFacts DEF TypeOK
<1>8. active[u].on \in BOOLEAN
  BY <1>1 DEF TypeOK
<1>9. QED
  BY <1>5, <1>6, <1>7, <1>8

LEMMA EndEvaluationKeeps ==
  ASSUME IInv, EndEvaluation
  PROVE  IInv'
<1> USE DEF IInv, EndEvaluation, vars, world, store, evaluator, history, Keys, Uncounted, Ends, NoSample, NoRules, Ahead
<1>1. TypeOK'
  BY DEF TypeOK, Quiet, NoPage, Kinds
<1>2. UnitReadings'
  BY DEF TypeOK, UnitReadings
<1>3. RoomInv'
  BY DEF TypeOK, RoomInv, UnitReadings
<1>4. LoadInv'
  BY DEF TypeOK, LoadInv, UnitReadings, RoomInv
<1>5. ASSUME NEW w \in Units PROVE UnitInv(w)'
  BY <1>5 DEF TypeOK, UnitInv, UnitReadings, RoomInv
<1>6. ASSUME NEW q \in Keys PROVE PageInv(q)'
  BY <1>6 DEF TypeOK, PageInv, RoomInv
<1>7. QED
  BY <1>1, <1>2, <1>3, <1>4, <1>5, <1>6

LEMMA PublishKeeps ==
  ASSUME IInv, Publish
  PROVE  IInv'
<1> USE DEF IInv, Publish, vars, world, store, evaluator, history, Keys, Uncounted, Ahead
<1>1. TypeOK'
  BY DEF TypeOK, Quiet, NoPage, Kinds
<1>2. UnitReadings'
  BY DEF TypeOK, UnitReadings
<1>3. RoomInv'
  BY DEF TypeOK, RoomInv, UnitReadings
<1>4. LoadInv'
  BY DEF TypeOK, LoadInv, UnitReadings, RoomInv
<1>5. ASSUME NEW w \in Units PROVE UnitInv(w)'
  BY <1>5 DEF TypeOK, UnitInv, UnitReadings, RoomInv
<1>6. ASSUME NEW q \in Keys PROVE PageInv(q)'
  BY <1>6 DEF TypeOK, PageInv, RoomInv
<1>7. QED
  BY <1>1, <1>2, <1>3, <1>4, <1>5, <1>6

LEMMA AckKeeps ==
  ASSUME IInv, NEW k \in Keys, NEW e \in 1..MaxEpisodes, Ack(k, e)
  PROVE  IInv'
<1> USE DEF IInv, Ack, vars, world, store, evaluator, history, Keys, Uncounted, Ahead
<1>1. TypeOK'
  BY DEF TypeOK, Quiet, NoPage, Kinds
<1>2. UnitReadings'
  BY DEF TypeOK, UnitReadings
<1>3. RoomInv'
  BY DEF TypeOK, RoomInv, UnitReadings
<1>4. LoadInv'
  BY DEF TypeOK, LoadInv, UnitReadings, RoomInv
<1>5. ASSUME NEW w \in Units PROVE UnitInv(w)'
  BY <1>5 DEF TypeOK, UnitInv, UnitReadings, RoomInv
<1>6. ASSUME NEW q \in Keys PROVE PageInv(q)'
  BY <1>6 DEF TypeOK, PageInv, RoomInv
<1>7. QED
  BY <1>1, <1>2, <1>3, <1>4, <1>5, <1>6

LEMMA RestartKeeps ==
  ASSUME IInv, Restart
  PROVE  IInv'
<1> USE DEF IInv, Restart, vars, world, store, evaluator, history, Keys, Uncounted, Deleted, Quiet, Forgotten, NoRun, Ends, NoSample, NoRules, Ahead
<1>1. TypeOK'
  <2>1. active' \in [Keys -> [on : BOOLEAN, hits : 0..MaxHits]]
    BY MaxHitsBounds DEF TypeOK
  <2>2. run' \in [Keys -> [last : {"over", "near", "under", "gone"}, length : 0..MaxHits]]
    BY MaxHitsBounds DEF TypeOK
  <2>3. restarts' \in 0..MaxRestarts
    BY DEF TypeOK
  <2>4. QED
    BY <2>1, <2>2, <2>3 DEF TypeOK, Kinds
<1>2. UnitReadings'
  BY DEF TypeOK, UnitReadings
<1>3. RoomInv'
  BY DEF TypeOK, RoomInv, UnitReadings
<1>4. LoadInv'
  BY DEF TypeOK, LoadInv, UnitReadings, RoomInv
<1>5. ASSUME NEW w \in Units PROVE UnitInv(w)'
  BY <1>5 DEF TypeOK, UnitInv, UnitReadings, RoomInv
<1>6. ASSUME NEW q \in Keys PROVE PageInv(q)'
  BY <1>6 DEF TypeOK, PageInv, RoomInv
<1>7. QED
  BY <1>1, <1>2, <1>3, <1>4, <1>5, <1>6

\* The handlers and the host touch nothing the invariant speaks of but types.
LEMMA OthersKeep ==
  ASSUME IInv,
         \/ \E kind \in Kinds : SetConfig(kind)
         \/ \E k \in Keys : Silence(k)
         \/ \E k \in Keys : Unsilence(k)
         \/ \E k \in Keys : \E reading \in Readings(k) \ {host[k]} : ReadingChanges(k, reading)
         \/ ListerChanges
         \/ UNCHANGED vars
  PROVE  IInv'
<1> USE DEF IInv, vars, world, store, evaluator, history
<1>1. /\ UNCHANGED <<acked, pc, todo, rules, sample, active, note, fired, paged, excused, run, restarts>>
      /\ enabled' \in [Kinds -> BOOLEAN] /\ silenced' \subseteq Keys /\ lister' \in BOOLEAN
      /\ host' \in [Keys -> {"over", "near", "under", "gone"}]
      /\ \A u \in Units : host'[u] \in {"over", "under"}
  <2>1. CASE \E kind \in Kinds : SetConfig(kind)
    BY <2>1 DEF SetConfig, TypeOK, UnitReadings
  <2>2. CASE (\E k \in Keys : Silence(k)) \/ (\E k \in Keys : Unsilence(k))
    BY <2>2 DEF Silence, Unsilence, TypeOK, UnitReadings
  <2>3. CASE \E k \in Keys : \E reading \in Readings(k) \ {host[k]} : ReadingChanges(k, reading)
    BY <2>3 DEF ReadingChanges, Readings, TypeOK, UnitReadings, Keys
  <2>4. CASE ListerChanges \/ UNCHANGED vars
    BY <2>4 DEF ListerChanges, TypeOK, UnitReadings
  <2>5. QED
    BY <2>1, <2>2, <2>3, <2>4
<1>2. TypeOK' /\ UnitReadings' /\ RoomInv' /\ LoadInv'
  BY <1>1 DEF TypeOK, UnitReadings, RoomInv, LoadInv, Ahead
<1>3. ASSUME NEW w \in Units PROVE UnitInv(w)'
  BY <1>1, <1>3 DEF UnitInv, Uncounted
<1>4. ASSUME NEW q \in Keys PROVE PageInv(q)'
  BY <1>1, <1>4 DEF PageInv
<1>5. QED
  BY <1>2, <1>3, <1>4

LEMMA InitInv == Init => IInv
<1> SUFFICES ASSUME Init PROVE IInv
  OBVIOUS
<1> USE DEF Init, NoRules, NoSample, Quiet, NoPage, NoRun
<1>1. TypeOK
  <2>1. active \in [Keys -> [on : BOOLEAN, hits : 0..MaxHits]]
    BY MaxHitsBounds
  <2>2. run \in [Keys -> [last : {"over", "near", "under", "gone"}, length : 0..MaxHits]]
    BY MaxHitsBounds
  <2>3. paged \in [Keys -> [clear : BOOLEAN, episode : 0..MaxEpisodes]]
    OBVIOUS
  <2>4. QED
    BY <2>1, <2>2, <2>3 DEF TypeOK
<1>2. UnitReadings /\ RoomInv /\ LoadInv
  BY DEF UnitReadings, RoomInv, LoadInv, Ahead, Keys
<1>3. ASSUME NEW w \in Units PROVE UnitInv(w)
  BY <1>3 DEF UnitInv, Uncounted, Keys
<1>4. ASSUME NEW q \in Keys PROVE PageInv(q)
  <2>1. /\ note = Nothing /\ fired[q] = 0 /\ paged[q].episode = 0
        /\ paged[q].clear = TRUE /\ active[q].on = FALSE
    BY <1>4
  <2>2. paged[q].episode <= fired[q]
    BY <2>1
  <2>3. ~active[q].on /\ paged[q].clear = ~active[q].on
    BY <1>4
  <2>4. QED
    BY ZenonT(30), <2>1, <2>2, <2>3 DEF PageInv
<1>5. QED
  BY <1>1, <1>2, <1>3, <1>4 DEF IInv

LEMMA Consecution == IInv /\ [Next]_vars => IInv'
<1> SUFFICES ASSUME IInv, [Next]_vars PROVE IInv'
  OBVIOUS
<1>1. CASE Evaluate
  BY <1>1, StartEvaluationKeeps, DisksOffKeeps, EvalDiskKeeps, EvalLoadKeeps, UnitsOffKeeps,
     UnitsUnavailableKeeps, ListUnitsKeeps, TrackFailedKeeps, SweepKeeps, TrackHealthyKeeps,
     EndEvaluationKeeps, PublishKeeps DEF Evaluate
<1>2. CASE Handlers
  BY <1>2, AckKeeps, OthersKeep DEF Handlers
<1>3. CASE Environment
  BY <1>3, RestartKeeps, OthersKeep DEF Environment
<1>4. CASE UNCHANGED vars
  BY <1>4, OthersKeep
<1>5. QED
  BY <1>1, <1>2, <1>3, <1>4 DEF Next

LEMMA Inductive == Spec => []IInv
  BY InitInv, Consecution, PTL DEF Spec

-----------------------------------------------------------------------------
(* What a call of enter or clear does to the notifications *)

\* enter raises no other key, and a notification it leaves is of this one.
LEMMA EnterTouches ==
  ASSUME TypeOK, NEW k \in Keys, NEW hits \in 0..MaxHits, fired[k] < MaxEpisodes,
         Enter(k, hits)
  PROVE  /\ \A q \in Keys \ {k} : fired'[q] = fired[q]
         /\ note' # note => note'.key = k /\ ~note'.clear
         /\ active[k].on => fired' = fired
<1>1. \A q \in Keys \ {k} : fired'[q] = fired[q]
  BY EnterFacts
<1>2. CASE active[k].on
  <2>1. fired' = fired /\ note' = note
    BY <1>2 DEF Enter
  <2>2. QED
    BY <1>1, <2>1
<1>3. CASE ~active[k].on
  <2>1. note' = [key |-> k, clear |-> FALSE, episode |-> fired[k] + 1]
    BY <1>3 DEF Enter
  <2>2. note'.key = k /\ ~note'.clear
    BY <2>1
  <2>3. QED
    BY <1>1, <1>3, <2>2
<1>4. QED
  BY <1>2, <1>3

\* clear raises none, and a notification it leaves is of this key.
LEMMA ClearTouches ==
  ASSUME NEW k \in Keys, Clear(k)
  PROVE  fired' = fired /\ (note' # note => note'.key = k)
<1>1. CASE active[k].on
  BY <1>1 DEF Clear
<1>2. CASE ~active[k].on
  BY <1>2 DEF Clear
<1>3. QED
  BY <1>1, <1>2

-----------------------------------------------------------------------------
(* Theorems *)

\* Every variable of the alert manager has its type; no key fires more often
\* than the evaluations allow.
THEOREM TypeCorrect == Spec => []TypeOK
<1>1. IInv => TypeOK
  BY DEF IInv
<1>2. QED
  BY <1>1, Inductive, PTL

\* When an evaluation is over, what it has read for long enough is what is
\* active: no count gets lost on a path of evalLoad or evalUnits.
THEOREM EvaluationIsComplete == Spec => []EvaluationSettles
<1>1. IInv => EvaluationSettles
  <2> SUFFICES ASSUME IInv, Evaluated PROVE EvaluationSettles
    BY DEF EvaluationSettles
  <2>1. ASSUME NEW u \in Units, run[u].length >= UnitHits
        PROVE  active[u].on = (run[u].last = "over")
    <3>1. ~Uncounted(u) /\ UnitInv(u) /\ u \in Keys
      BY <2>1 DEF Evaluated, Uncounted, IInv, Keys
    <3>2. active[u].on \in BOOLEAN /\ run[u].length \in Nat /\ active[u].hits \in Nat
      BY <3>1 DEF IInv, TypeOK
    <3>3. run[u].last \in {"over", "under"}
      BY <2>1, <3>1, <3>2 DEF IInv, UnitReadings
    <3>4. CASE active[u].on = TRUE
      BY <2>1, <3>1, <3>2, <3>3, <3>4 DEF UnitInv
    <3>5. CASE active[u].on = FALSE
      BY <2>1, <3>1, <3>2, <3>3, <3>5 DEF UnitInv
    <3>6. QED
      BY <3>2, <3>4, <3>5
  <2>2. /\ run[Load].length >= LoadHits /\ run[Load].last = "over" => active[Load].on
        /\ run[Load].last = "under" => ~active[Load].on
    BY DEF IInv, LoadInv, TypeOK, Keys
  <2>3. QED
    BY <2>1, <2>2 DEF EvaluationSettles
<1>2. QED
  BY <1>1, Inductive, PTL

\* No alert of a unit or of the load starts, and none of a unit ends, before as
\* many equal readings in a row as trackUnit and evalLoad ask for.
THEOREM AlertsAreDebounced == Spec => Debounced
<1>1. ASSUME IInv, Next PROVE (\A u \in Units : UnitDebounced(u)) /\ LoadDebounced
  <2>1. TypeOK /\ UnitReadings /\ RoomInv /\ LoadInv
    BY <1>1 DEF IInv
  <2>2. Load \in Keys /\ Units \subseteq Keys /\ \A k \in Keys : fired[k] \in Nat
    BY <2>1 DEF Keys, TypeOK
  <2>3. ASSUME NEW d \in Disks, EvalDisk(d) PROVE (\A z \in Units : UnitDebounced(z)) /\ LoadDebounced
    <3>1. d \in Keys /\ d \notin Units /\ d # Load /\ fired[d] < MaxEpisodes /\ PageInv(d)
      BY <1>1, <2>3 DEF Keys, RoomInv, Ahead, EvalDisk, IInv
    <3>2. \/ Enter(d, 0) \/ Clear(d) \/ Hold
      BY <2>3 DEF EvalDisk
    <3>3. /\ \A q \in Keys \ {d} : fired'[q] = fired[q]
          /\ note' # note => note'.key = d
      <4>1. 0 \in 0..MaxHits
        BY MaxHitsBounds
      <4>2. CASE Enter(d, 0)
        BY <2>1, <3>1, <4>1, <4>2, EnterTouches
      <4>3. CASE Clear(d)
        BY <3>1, <4>3, ClearTouches
      <4>4. CASE Hold
        BY <4>4 DEF Hold
      <4>5. QED
        BY <3>2, <4>2, <4>3, <4>4
    <3>4. QED
      BY <2>2, <3>1, <3>3 DEF UnitDebounced, LoadDebounced
  <2>4. ASSUME EvalLoad PROVE (\A z \in Units : UnitDebounced(z)) /\ LoadDebounced
    <3>1. fired[Load] < MaxEpisodes /\ PageInv(Load) /\ Load \notin Units
      BY <1>1, <2>2, <2>4 DEF RoomInv, Ahead, EvalLoad, IInv
    <3>2. \/ Hold
          \/ UNCHANGED <<fired, note>>
          \/ Clear(Load)
          \/ LoadOver /\ sample[Load] = "over" /\ run' = [run EXCEPT ![Load] = Longer(Load, "over")]
      BY <2>4 DEF EvalLoad, LoadBelow, Hold
    <3>3. CASE Hold \/ UNCHANGED <<fired, note>> \/ Clear(Load)
      <4>1. fired' = fired /\ (note' # note => note'.key = Load)
        BY <2>2, <3>3, ClearTouches DEF Hold
      <4>2. QED
        BY <2>2, <3>1, <4>1 DEF UnitDebounced, LoadDebounced
    <3>4. CASE LoadOver /\ run' = [run EXCEPT ![Load] = Longer(Load, "over")]
      <4> DEFINE hits == Capped(active[Load].hits + 1, LoadHits)
      <4>1. hits \in 0..MaxHits
        BY <2>1, <2>2, MaxHitsBounds DEF Capped, TypeOK
      <4>2. CASE ~(hits >= LoadHits)
        BY <2>2, <3>4, <4>2 DEF LoadOver, UnitDebounced, LoadDebounced
      <4>3. CASE hits >= LoadHits
        <5>1. Enter(Load, hits)
          BY <3>4, <4>3 DEF LoadOver
        <5>2. active[Load].hits + 1 >= LoadHits
          BY <2>1, <2>2, <4>3 DEF Capped, TypeOK
        <5> HIDE DEF hits
        <5>3. /\ \A q \in Keys \ {Load} : fired'[q] = fired[q]
              /\ note' # note => note'.key = Load
              /\ active[Load].on => fired' = fired
          BY <2>1, <2>2, <3>1, <4>1, <5>1, EnterTouches
        <5>4. run'[Load] = Longer(Load, "over")
          BY <2>1, <2>2, <3>4 DEF TypeOK
        <5>5. ~active[Load].on => run'[Load].last = "over" /\ run'[Load].length >= LoadHits
          BY <2>1, <2>2, <5>2, <5>4, MaxHitsBounds DEF Longer, Capped, LoadInv, TypeOK
        <5>6. QED
          BY <2>2, <3>1, <5>3, <5>5 DEF UnitDebounced, LoadDebounced
      <4>4. QED
        BY <4>2, <4>3
    <3>5. QED
      BY <3>2, <3>3, <3>4
  <2>5. ASSUME NEW w \in Units, TrackFailed(w) PROVE (\A z \in Units : UnitDebounced(z)) /\ LoadDebounced
    <3>1. /\ UnitInv(w) /\ w # Load /\ sample[w] = "over" /\ run[w].last = "over" /\ Uncounted(w)
          /\ fired[w] < MaxEpisodes /\ note = Nothing
      BY <1>1, <2>1, <2>2, <2>5 DEF IInv, UnitReadings, TrackFailed, Uncounted, RoomInv, Ahead
    <3>2. \/ UNCHANGED <<note, fired>>
          \/ Enter(w, 0) /\ ~active[w].on /\ ~(active[w].hits + 1 < UnitHits)
      BY <2>1, <2>2, <2>5 DEF TrackFailed, TrackUnit, TypeOK
    <3>3. CASE UNCHANGED <<note, fired>>
      BY <2>2, <3>3 DEF UnitDebounced, LoadDebounced
    <3>4. CASE Enter(w, 0) /\ ~active[w].on /\ ~(active[w].hits + 1 < UnitHits)
      <4>0. 0 \in 0..MaxHits
        BY MaxHitsBounds
      <4>1. /\ \A q \in Keys \ {w} : fired'[q] = fired[q]
            /\ note' # note => note'.key = w /\ ~note'.clear
        BY <2>1, <2>2, <3>1, <3>4, <4>0, EnterTouches
      <4>2. run[w].length >= UnitHits
        BY <2>1, <2>2, <3>1, <3>4 DEF UnitInv, TypeOK
      <4>3. QED
        BY <2>2, <3>1, <4>1, <4>2 DEF UnitDebounced, LoadDebounced
    <3>5. QED
      BY <3>2, <3>3, <3>4
  <2>6. ASSUME NEW w \in Units, TrackHealthy(w) PROVE (\A z \in Units : UnitDebounced(z)) /\ LoadDebounced
    <3>1. /\ UnitInv(w) /\ PageInv(w) /\ sample[w] = "under" /\ run[w].last = "under"
          /\ Uncounted(w) /\ note = Nothing
      BY <1>1, <2>1, <2>2, <2>6 DEF IInv, UnitReadings, TrackHealthy, Uncounted
    <3>2. \/ UNCHANGED <<note, fired>>
          \/ Clear(w) /\ active[w].on /\ ~(active[w].hits + 1 < UnitHits)
      BY <2>1, <2>2, <2>6 DEF TrackHealthy, TrackUnit, TypeOK
    <3>3. CASE UNCHANGED <<note, fired>>
      BY <2>2, <3>3 DEF UnitDebounced, LoadDebounced
    <3>4. CASE Clear(w) /\ active[w].on /\ ~(active[w].hits + 1 < UnitHits)
      <4>1. fired' = fired /\ (note' # note => note'.key = w)
        BY <2>2, <3>4, ClearTouches
      <4>2. run[w].length >= UnitHits
        BY <2>1, <2>2, <3>1, <3>4 DEF UnitInv, TypeOK
      <4>3. QED
        BY <2>2, <3>1, <4>1, <4>2 DEF UnitDebounced, LoadDebounced
    <3>5. QED
      BY <3>2, <3>3, <3>4
  <2>7. ASSUME UNCHANGED fired, note' \in {note, Nothing} PROVE (\A z \in Units : UnitDebounced(z)) /\ LoadDebounced
    BY <2>2, <2>7 DEF UnitDebounced, LoadDebounced
  <2>8. CASE Evaluate
    BY <2>3, <2>4, <2>5, <2>6, <2>7, <2>8 DEF Evaluate, StartEvaluation, DisksOff, UnitsOff,
       UnitsUnavailable, ListUnits, Sweep, EndEvaluation, Publish
  <2>9. CASE Handlers \/ Environment
    BY <2>7, <2>9 DEF Handlers, Environment, SetConfig, Silence, Unsilence, Ack, ReadingChanges,
       ListerChanges, Restart
  <2>10. QED
    BY <1>1, <2>8, <2>9 DEF Next
<1>2. QED
  BY <1>1, Inductive, PTL DEF Spec, Debounced

\* The pages about a key are the start and the end of its episodes in turn,
\* save where one was suppressed or a state deleted: publish is the only step
\* that pages, and what it says follows from the page before by PageInv.
THEOREM PagesInTurn == Spec => PagesAlternate
<1> DEFINE Turn(k) ==
      paged'[k] # paged[k] /\ k \notin excused =>
        /\ paged'[k].clear # paged[k].clear
        /\ IF paged'[k].clear THEN paged'[k].episode = paged[k].episode
           ELSE paged'[k].episode > paged[k].episode
<1>1. ASSUME IInv, Next, NEW k \in Keys PROVE Turn(k)
  <2>1. CASE Publish
    <3>1. SUFFICES ASSUME paged'[k] # paged[k], k \notin excused PROVE Turn(k)
      OBVIOUS
    <3>2. /\ note # Nothing /\ note.key = k
          /\ paged'[k] = [clear |-> note.clear, episode |-> note.episode]
      BY <1>1, <2>1, <3>1 DEF Publish, IInv, TypeOK
    <3>3. /\ note.episode = fired[k] /\ note.clear = ~active[k].on
          /\ paged[k].clear = active[k].on
          /\ IF note.clear THEN paged[k].episode = fired[k] ELSE paged[k].episode < fired[k]
      BY <1>1, <3>1, <3>2 DEF PageInv, IInv
    <3>4. active[k].on \in BOOLEAN /\ fired[k] \in Nat /\ paged[k].episode \in Nat
      BY <1>1 DEF IInv, TypeOK
    <3>5. CASE active[k].on = TRUE
      BY <3>2, <3>3, <3>4, <3>5
    <3>6. CASE active[k].on = FALSE
      BY <3>2, <3>3, <3>4, <3>6
    <3>7. QED
      BY <3>4, <3>5, <3>6
  <2>2. CASE UNCHANGED paged
    BY <2>2
  <2>3. Publish \/ UNCHANGED paged
    BY <1>1 DEF Next, Evaluate, Handlers, Environment, StartEvaluation, DisksOff, EvalDisk, EvalLoad,
       UnitsOff, UnitsUnavailable, ListUnits, TrackFailed, Sweep, TrackHealthy, EndEvaluation,
       SetConfig, Silence, Unsilence, Ack, ReadingChanges, ListerChanges, Restart, history
  <2>4. QED
    BY <2>1, <2>2, <2>3
<1>2. ASSUME IInv, [Next]_vars PROVE [\A k \in Keys : Turn(k)]_vars
  BY <1>1, <1>2
<1>3. QED
  BY <1>2, Inductive, PTL DEF Spec, PagesAlternate

\* A disk alert starts on a reading over the threshold and ends on one under the
\* hysteresis, with its rule, or with the agent: no step about another key, and
\* none of a handler, touches it.
THEOREM DisksHaveHysteresis == Spec => DiskHysteresis
<1> DEFINE Steady(d) ==
      /\ fired'[d] > fired[d] => sample[d] = "over"
      /\ active[d].on /\ ~active'[d].on =>
           sample[d] = "under" \/ ~rules["disk_usage"] \/ restarts' > restarts
<1>1. ASSUME IInv, Next, NEW d \in Disks PROVE Steady(d)
  <2>1. TypeOK /\ RoomInv /\ d \in Keys /\ d \notin Units /\ d # Load /\ fired[d] \in Nat
    BY <1>1 DEF IInv, TypeOK, Keys
  <2>2. ASSUME active'[d] = active[d], fired'[d] = fired[d] PROVE Steady(d)
    BY <2>1, <2>2
  <2>3. ASSUME NEW k \in Keys \ {d}, fired[k] < MaxEpisodes, NEW hits \in 0..MaxHits, Enter(k, hits)
        PROVE  Steady(d)
    BY <2>1, <2>2, <2>3, EnterFacts
  <2>4. ASSUME NEW k \in Keys \ {d}, Clear(k) PROVE Steady(d)
    <3>1. PageInv(k)
      BY <1>1, <2>4 DEF IInv
    <3>2. QED
      BY <2>1, <2>2, <2>4, <3>1, ClearFacts
  <2>5. ASSUME NEW e \in Disks, EvalDisk(e) PROVE Steady(d)
    <3>1. e \in Keys /\ fired[e] < MaxEpisodes /\ 0 \in 0..MaxHits
      BY <2>1, <2>5, MaxHitsBounds DEF Keys, RoomInv, Ahead, EvalDisk
    <3>2. \/ sample[e] = "over" /\ Enter(e, 0)
          \/ sample[e] = "under" /\ Clear(e)
          \/ Hold
      BY <2>5 DEF EvalDisk
    <3>3. CASE Hold
      BY <2>2, <3>3 DEF Hold
    <3>4. CASE e # d
      BY <2>3, <2>4, <3>1, <3>2, <3>3, <3>4
    <3>5. CASE e = d /\ sample[e] = "over" /\ Enter(e, 0)
      <4>1. active'[e] = [on |-> TRUE, hits |-> 0]
        BY <2>1, <3>1, <3>5, EnterFacts
      <4>2. active'[d].on = TRUE
        BY <3>5, <4>1
      <4>3. QED
        BY <3>5, <4>2
    <3>6. CASE e = d /\ sample[e] = "under" /\ Clear(e)
      BY <2>1, <3>6 DEF Clear
    <3>7. QED
      BY <3>2, <3>3, <3>4, <3>5, <3>6
  <2>6. ASSUME EvalLoad PROVE Steady(d)
    <3>1. Load \in Keys \ {d} /\ fired[Load] < MaxEpisodes
      BY <2>1, <2>6 DEF Keys, RoomInv, Ahead, EvalLoad
    <3>2. CASE LoadOff \/ LoadBelow \/ ~(Capped(active[Load].hits + 1, LoadHits) >= LoadHits)
      <4>1. CASE Clear(Load)
        BY <2>4, <3>1, <4>1
      <4>2. CASE ~Clear(Load)
        <5>1. fired' = fired /\ active'[d] = active[d]
          BY <2>1, <2>6, <3>1, <3>2, <4>2 DEF EvalLoad, LoadBelow, LoadOver, Hold, Deleted, TypeOK
        <5>2. QED
          BY <2>2, <5>1
      <4>3. QED
        BY <4>1, <4>2
    <3>3. CASE LoadOver /\ Capped(active[Load].hits + 1, LoadHits) >= LoadHits
      <4>1. Capped(active[Load].hits + 1, LoadHits) \in 0..MaxHits
        BY <2>1, <3>1, MaxHitsBounds DEF Capped, TypeOK
      <4>2. Enter(Load, Capped(active[Load].hits + 1, LoadHits))
        BY <3>3 DEF LoadOver
      <4>3. QED
        BY <2>3, <3>1, <4>1, <4>2
    <3>4. QED
      BY <2>6, <3>2, <3>3 DEF EvalLoad
  <2>7. ASSUME NEW w \in Units, TrackFailed(w) \/ TrackHealthy(w) PROVE Steady(d)
    <3>1. w \in Keys \ {d} /\ 0 \in 0..MaxHits
      BY <2>1, <2>7, MaxHitsBounds DEF Keys
    <3>2. \/ TrackFailed(w) /\ Enter(w, 0) /\ fired[w] < MaxEpisodes
          \/ Clear(w)
          \/ \E n \in Nat : active' = [active EXCEPT ![w].hits = n] /\ UNCHANGED <<note, fired>>
      <4>1. active[w].hits + 1 \in Nat /\ active[w].on \in BOOLEAN
        BY <2>1, <3>1 DEF TypeOK
      <4>2. ASSUME NEW failed \in BOOLEAN, TrackUnit(w, failed)
            PROVE  \/ failed /\ Enter(w, 0)
                   \/ Clear(w)
                   \/ \E n \in Nat : active' = [active EXCEPT ![w].hits = n]
                                     /\ UNCHANGED <<note, fired>>
        <5>1. CASE active[w].on = failed
          BY <4>2, <5>1 DEF TrackUnit
        <5>2. CASE active[w].on # failed /\ active[w].hits + 1 < UnitHits
          BY <4>1, <4>2, <5>2 DEF TrackUnit
        <5>3. CASE active[w].on # failed /\ ~(active[w].hits + 1 < UnitHits)
          BY <4>2, <5>3 DEF TrackUnit
        <5>4. QED
          BY <5>1, <5>2, <5>3
      <4>3. CASE TrackFailed(w)
        <5>1. TrackUnit(w, TRUE) /\ fired[w] < MaxEpisodes
          BY <2>1, <4>3 DEF TrackFailed, RoomInv, Ahead
        <5>2. QED
          BY <4>2, <4>3, <5>1
      <4>4. CASE TrackHealthy(w)
        <5>1. TrackUnit(w, FALSE)
          BY <4>4 DEF TrackHealthy
        <5>2. QED
          BY <4>2, <5>1
      <4>5. QED
        BY <2>7, <4>3, <4>4
    <3>3. CASE \E n \in Nat : active' = [active EXCEPT ![w].hits = n] /\ UNCHANGED <<note, fired>>
      BY <2>1, <2>2, <3>1, <3>3 DEF TypeOK
    <3>4. QED
      BY <2>3, <2>4, <3>1, <3>2, <3>3
  <2>8. CASE DisksOff
    BY <2>1, <2>8 DEF DisksOff
  <2>9. CASE UnitsOff
    BY <2>1, <2>2, <2>9 DEF UnitsOff, Deleted, TypeOK
  <2>10. CASE Restart
    BY <1>1, <2>1, <2>10 DEF Restart, IInv, TypeOK
  <2>11. CASE Handlers
    BY <2>2, <2>11 DEF Handlers, SetConfig, Silence, Unsilence, Ack
  <2>12. CASE Evaluate
    BY <2>2, <2>5, <2>6, <2>7, <2>8, <2>9, <2>12 DEF Evaluate, StartEvaluation, UnitsUnavailable,
       ListUnits, Sweep, EndEvaluation, Publish
  <2>13. CASE Environment
    BY <2>2, <2>10, <2>13 DEF Environment, ReadingChanges, ListerChanges
  <2>14. QED
    BY <1>1, <2>11, <2>12, <2>13 DEF Next
<1>2. ASSUME IInv, [Next]_vars PROVE [\A d \in Disks : Steady(d)]_vars
  BY <1>1, <1>2
<1>3. QED
  BY <1>2, Inductive, PTL DEF Spec, DiskHysteresis
=============================================================================
