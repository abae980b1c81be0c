---------------------------- MODULE ServerProofs ----------------------------
(***************************************************************************)
(* Proofs about the server as a whole, for any number of goroutines, of    *)
(* things they work on, and of everything the bounds of MCServer count:    *)
(* first the components that HostServicesProofs leaves, then the theorems. *)
(*                                                                         *)
(* A behaviour is one of a single component, so that the invariant of the  *)
(* server (ServerInv) is that of each component while it is at work, and   *)
(* HostMutations' own, which holds of its variables at rest too.           *)
(***************************************************************************)
EXTENDS HostMutationsProofs, HostServicesProofs

-----------------------------------------------------------------------------
(***************************************************************************)
(* ReplayGuard, as Replays: v1 seen, v2 lastGC, v3 now, v4 used.           *)
(* An id that was forgotten was forgotten for one of two reasons, and both *)
(* stay true: its window passed, or a cache of younger ids took its place. *)
(***************************************************************************)

LEMMA GuardBounds == MaxFrameTime \in Nat /\ FrameWindow \in Nat /\ Cap \in Nat /\ IsFiniteSet(Ids)
BY ServerBoundsAssumption

GuardTimes(t) == 0..t \cup {Replays!Never}

\* FiniteSets counts alike inside the component.
LEMMA GuardCounts == \A S : Replays!Cardinality(S) = Cardinality(S)
BY DEF Replays!Cardinality, Cardinality

LEMMA GuardKeptFinite ==
  ASSUME NEW m
  PROVE  IsFiniteSet(Replays!Kept(m)) /\ Replays!Kept(m) \subseteq Ids /\ Cardinality(Replays!Kept(m)) \in Nat
<1>1. Replays!Kept(m) \in SUBSET Ids
  BY DEF Replays!Kept
<1> QED BY <1>1, GuardBounds, FS_Subset, FS_CardinalityType

LEMMA GuardInitInv == Replays!GuardInit => Replays!GuardInv
<1> SUFFICES ASSUME Replays!GuardInit PROVE Replays!GuardInv
  OBVIOUS
<1>1. /\ v1 = [id \in Ids |-> Replays!Never] /\ v4 = [id \in Ids |-> Replays!Never] /\ v3 = 0
      /\ v2 = Replays!Never
  BY DEF Replays!GuardInit
<1>2. Replays!Kept(v1) = {}
  BY <1>1 DEF Replays!Kept
<1>3. Cardinality(Replays!Kept(v1)) <= Cap
  BY <1>2, GuardBounds, FS_EmptySet
<1> QED BY <1>1, <1>3, GuardBounds, GuardCounts DEF Replays!GuardInv, Replays!GuardTypeOK

\* What the sweep leaves.
LEMMA GuardSweptKeeps ==
  ASSUME Replays!GuardInv
  PROVE  /\ Replays!Swept \in [Ids -> GuardTimes(v3)]
         /\ Replays!Kept(Replays!Swept) \subseteq Replays!Kept(v1)
         /\ Cardinality(Replays!Kept(Replays!Swept)) <= Cap
         /\ \A id \in Ids : Replays!Swept[id] # Replays!Never => Replays!Swept[id] = v1[id]
         /\ \A id \in Ids : Replays!Swept[id] = Replays!Never /\ v1[id] # Replays!Never => v3 - v1[id] > FrameWindow
         /\ \A id \in Ids : Replays!Swept[id] # Replays!Never /\ Cardinality(Replays!Kept(Replays!Swept)) >= Cap
              => Replays!Fresh(Replays!Swept, id)
<1>1. /\ v1 \in [Ids -> GuardTimes(v3)] /\ v3 \in 0..MaxFrameTime /\ Cardinality(Replays!Kept(v1)) <= Cap
  BY GuardCounts DEF Replays!GuardInv, Replays!GuardTypeOK, GuardTimes
<1>2. CASE ~Replays!Collects
  <2>1. Replays!Swept = v1 /\ Cardinality(Replays!Kept(v1)) < Cap
    <3>1. ~(Cardinality(Replays!Kept(v1)) >= Cap) /\ Replays!Swept = v1
      BY <1>2, GuardCounts DEF Replays!Swept, Replays!Collects
    <3> QED BY <3>1, <1>1, GuardKeptFinite, GuardBounds
  <2>2. ~(Cardinality(Replays!Kept(Replays!Swept)) >= Cap)
    BY <2>1, GuardKeptFinite, GuardBounds
  <2> QED BY <1>1, <2>1, <2>2
<1>3. CASE Replays!Collects
  <2>1. Replays!Swept = [id \in Ids |-> IF Replays!Fresh(v1, id) THEN v1[id] ELSE Replays!Never]
    BY <1>3 DEF Replays!Swept
  <2>2. \A id \in Ids : /\ Replays!Swept[id] # Replays!Never => Replays!Swept[id] = v1[id] /\ Replays!Fresh(v1, id)
                        /\ Replays!Swept[id] = Replays!Never /\ v1[id] # Replays!Never => ~Replays!Fresh(v1, id)
    BY <2>1 DEF Replays!Fresh
  <2>3. Replays!Swept \in [Ids -> GuardTimes(v3)]
    BY <1>1, <2>1 DEF GuardTimes
  <2>4. Replays!Kept(Replays!Swept) \subseteq Replays!Kept(v1)
    BY <2>2 DEF Replays!Kept
  <2>5. Cardinality(Replays!Kept(Replays!Swept)) <= Cap
    <3>1. Cardinality(Replays!Kept(Replays!Swept)) <= Cardinality(Replays!Kept(v1))
      BY <2>4, GuardKeptFinite, FS_Subset
    <3> QED BY <3>1, <1>1, GuardKeptFinite, GuardBounds
  <2>6. \A id \in Ids : Replays!Swept[id] = Replays!Never /\ v1[id] # Replays!Never => v3 - v1[id] > FrameWindow
    BY <2>2, <1>1, GuardBounds DEF Replays!Fresh, Replays!Never, GuardTimes
  <2>7. \A id \in Ids : Replays!Swept[id] # Replays!Never => Replays!Fresh(Replays!Swept, id)
    BY <2>2 DEF Replays!Fresh
  <2> QED BY <2>2, <2>3, <2>4, <2>5, <2>6, <2>7
<1> QED BY <1>2, <1>3

LEMMA GuardSinceFinite ==
  ASSUME NEW S \in SUBSET Ids PROVE IsFiniteSet(S) /\ Cardinality(S) \in Nat
BY GuardBounds, FS_Subset, FS_CardinalityType

\* A frame was read: one id is used, and m is what else the map keeps.
LEMMA GuardUses ==
  ASSUME Replays!GuardInv, NEW id \in Ids, NEW m \in [Ids -> GuardTimes(v3)],
         \A x \in Ids : m[x] # Replays!Never => m[x] = v1[x],
         \A x \in Ids : m[x] = Replays!Never /\ v1[x] # Replays!Never /\ x # id
            => \/ v3 - v1[x] > FrameWindow
               \/ /\ Cardinality((Replays!Kept(m) \cup {id}) \ {x}) >= Cap
                  /\ \A y \in Replays!Kept(m) : v1[y] >= v1[x],
         v1' = [m EXCEPT ![id] = v3], v4' = [v4 EXCEPT ![id] = v3], v3' = v3,
         v2' \in GuardTimes(v3), Cardinality(Replays!Kept(v1')) <= Cap
  PROVE  Replays!GuardInv'
<1>1. /\ v1 \in [Ids -> GuardTimes(v3)] /\ v4 \in [Ids -> GuardTimes(v3)] /\ v3 \in 0..MaxFrameTime
      /\ v3 # Replays!Never
  BY GuardBounds DEF Replays!GuardInv, Replays!GuardTypeOK, GuardTimes, Replays!Never
<1>2. v1' \in [Ids -> GuardTimes(v3)] /\ v4' \in [Ids -> GuardTimes(v3)]
  BY <1>1 DEF GuardTimes
<1>3. Replays!GuardTypeOK'
  BY <1>1, <1>2, GuardCounts DEF Replays!GuardTypeOK, GuardTimes, Replays!Never
<1>4. /\ \A x \in Ids : x # id => v1'[x] = m[x] /\ v4'[x] = v4[x]
      /\ v1'[id] = v3 /\ v4'[id] = v3
  BY <1>1
<1>5. \A x \in Ids : v1'[x] # Replays!Never => v1'[x] = v4'[x]
  BY <1>4 DEF Replays!GuardInv
<1>6. ASSUME NEW x \in Ids, v4'[x] # Replays!Never, v1'[x] = Replays!Never
      PROVE  v3 - v4'[x] > FrameWindow \/ Cardinality(Replays!UsedSince(x)') >= Cap
  <2>1. x # id /\ m[x] = Replays!Never /\ v4'[x] = v4[x]
    BY <1>1, <1>4, <1>6
  <2>2. Replays!UsedSince(x)' \in SUBSET Ids
    BY DEF Replays!UsedSince
  <2>3. CASE v1[x] = Replays!Never
    <3>1. v3 - v4[x] > FrameWindow \/ Cardinality(Replays!UsedSince(x)) >= Cap
      BY <1>6, <2>1, <2>3, GuardCounts DEF Replays!GuardInv
    <3>2. Replays!UsedSince(x) \subseteq Replays!UsedSince(x)'
      <4>1. v4[x] \in 0..v3 /\ v3 \in Nat /\ v3 >= v4[x]
        BY <1>1, <1>6, <2>1 DEF GuardTimes
      <4>2. ASSUME NEW y \in Replays!UsedSince(x) PROVE y \in Replays!UsedSince(x)'
        <5>1. y \in Ids \ {x} /\ v4[y] # Replays!Never /\ v4[y] >= v4[x]
          BY <4>2 DEF Replays!UsedSince
        <5>2. v4'[y] # Replays!Never /\ v4'[y] >= v4'[x]
          BY <1>1, <1>4, <2>1, <4>1, <5>1
        <5> QED BY <5>1, <5>2 DEF Replays!UsedSince
      <4> QED BY <4>2
    <3>3. Cardinality(Replays!UsedSince(x)) <= Cardinality(Replays!UsedSince(x)')
      BY <2>2, <3>2, GuardSinceFinite, FS_Subset
    <3>4. Cardinality(Replays!UsedSince(x)) \in Nat /\ Cardinality(Replays!UsedSince(x)') \in Nat
      BY <2>2, <3>2, GuardSinceFinite
    <3> QED BY <2>1, <3>1, <3>3, <3>4, GuardBounds
  <2>4. CASE v1[x] # Replays!Never
    <3>1. v4[x] = v1[x]
      BY <2>4 DEF Replays!GuardInv
    <3>2. CASE v3 - v1[x] > FrameWindow
      BY <2>1, <3>1, <3>2
    <3>3. CASE Cardinality((Replays!Kept(m) \cup {id}) \ {x}) >= Cap /\ \A y \in Replays!Kept(m) : v1[y] >= v1[x]
      <4> DEFINE K == (Replays!Kept(m) \cup {id}) \ {x}
      <4>1. ASSUME NEW y \in K PROVE y \in Replays!UsedSince(x)'
        <5>1. CASE y = id
          <6>1. v4[x] \in 0..v3
            BY <1>1, <1>6, <2>1 DEF GuardTimes
          <6>2. v4'[y] # Replays!Never /\ v4'[y] >= v4'[x]
            BY <1>1, <1>4, <2>1, <5>1, <6>1
          <6> QED BY <2>1, <5>1, <6>2 DEF Replays!UsedSince
        <5>2. CASE y # id
          <6>1. y \in Replays!Kept(m) /\ y \in Ids /\ y # x
            BY <4>1, <5>2 DEF Replays!Kept
          <6>2. v1[y] # Replays!Never /\ v4'[y] = v1[y]
            BY <1>4, <5>2, <6>1 DEF Replays!Kept, Replays!GuardInv
          <6> QED BY <2>1, <3>1, <3>3, <6>1, <6>2 DEF Replays!UsedSince
        <5> QED BY <5>1, <5>2
      <4>2. K \subseteq Replays!UsedSince(x)'
        BY <4>1
      <4> HIDE DEF K
      <4>3. K \in SUBSET Ids /\ Cardinality(K) <= Cardinality(Replays!UsedSince(x)')
        BY <2>2, <4>2, GuardSinceFinite, FS_Subset
      <4>4. Cardinality(K) \in Nat /\ Cardinality(Replays!UsedSince(x)') \in Nat
        BY <2>2, <4>3, GuardSinceFinite
      <4>5. Cardinality(K) >= Cap
        BY <3>3 DEF K
      <4> QED BY <4>3, <4>4, <4>5, GuardBounds
    <3> QED BY <2>1, <2>4, <3>2, <3>3
  <2> QED BY <2>3, <2>4
<1> QED BY <1>3, <1>5, <1>6, GuardCounts DEF Replays!GuardInv

LEMMA GuardKeptUses ==
  ASSUME NEW id \in Ids, NEW t, NEW m \in [Ids -> GuardTimes(t)], v3 # Replays!Never
  PROVE  Replays!Kept([m EXCEPT ![id] = v3]) = Replays!Kept(m) \cup {id}
BY DEF Replays!Kept

LEMMA GuardReplaySweeps == ASSUME Replays!GuardInv, Replays!Sweeps PROVE v2' \in GuardTimes(v3)
<1>1. v3 \in 0..v3 /\ v2 \in GuardTimes(v3)
  BY GuardBounds DEF Replays!GuardInv, Replays!GuardTypeOK, GuardTimes
<1> QED BY <1>1 DEF Replays!Sweeps, GuardTimes

LEMMA GuardReplayAnswers ==
  ASSUME Replays!GuardInv, NEW id \in Ids, Replays!AnswerReplay(id)
  PROVE  Replays!GuardInv'
<1>1. /\ Replays!Fresh(Replays!Swept, id) /\ v1' = [Replays!Swept EXCEPT ![id] = v3] /\ Replays!Sweeps
      /\ v4' = [v4 EXCEPT ![id] = v3] /\ v3' = v3
  BY DEF Replays!AnswerReplay, Replays!Uses
<1>2. /\ Replays!Swept \in [Ids -> GuardTimes(v3)] /\ Cardinality(Replays!Kept(Replays!Swept)) <= Cap
      /\ \A x \in Ids : Replays!Swept[x] # Replays!Never => Replays!Swept[x] = v1[x]
      /\ \A x \in Ids : Replays!Swept[x] = Replays!Never /\ v1[x] # Replays!Never => v3 - v1[x] > FrameWindow
  BY GuardSweptKeeps
<1>3. v3 # Replays!Never /\ id \in Replays!Kept(Replays!Swept)
  BY <1>1, GuardBounds DEF Replays!GuardInv, Replays!GuardTypeOK, Replays!Never, Replays!Fresh,
     Replays!Kept
<1>4. Replays!Kept(v1') = Replays!Kept(Replays!Swept) \cup {id}
  BY <1>1, <1>2, <1>3, GuardKeptUses
<1>5. Replays!Kept(Replays!Swept) \cup {id} = Replays!Kept(Replays!Swept)
  BY <1>3
<1>6. Cardinality(Replays!Kept(v1')) <= Cap
  BY <1>2, <1>4, <1>5
<1> DEFINE m == Replays!Swept
<1>7. /\ m \in [Ids -> GuardTimes(v3)] /\ \A x \in Ids : m[x] # Replays!Never => m[x] = v1[x]
      /\ \A x \in Ids : m[x] = Replays!Never /\ v1[x] # Replays!Never => v3 - v1[x] > FrameWindow
      /\ v1' = [m EXCEPT ![id] = v3]
  BY <1>1, <1>2
<1> HIDE DEF m
<1>8. v2' \in GuardTimes(v3)
  BY <1>1, GuardReplaySweeps
<1> QED BY <1>1, <1>6, <1>7, <1>8, GuardUses

LEMMA GuardReplayDispatches ==
  ASSUME Replays!GuardInv, NEW id \in Ids, Replays!Dispatch(id)
  PROVE  Replays!GuardInv'
<1> DEFINE w == Replays!Swept
<1>1. PICK m \in Replays!Evicted(w) : v1' = [m EXCEPT ![id] = v3]
  BY DEF Replays!Dispatch
<1>2. ~Replays!Fresh(w, id) /\ Replays!Sweeps /\ v4' = [v4 EXCEPT ![id] = v3] /\ v3' = v3
  BY DEF Replays!Dispatch, Replays!Uses
<1>3. /\ w \in [Ids -> GuardTimes(v3)] /\ Replays!Kept(w) \subseteq Replays!Kept(v1)
      /\ Cardinality(Replays!Kept(w)) <= Cap
      /\ \A x \in Ids : w[x] # Replays!Never => w[x] = v1[x]
      /\ \A x \in Ids : w[x] = Replays!Never /\ v1[x] # Replays!Never => v3 - v1[x] > FrameWindow
      /\ Cardinality(Replays!Kept(w)) >= Cap => w[id] = Replays!Never
  BY <1>2, GuardSweptKeeps
<1>4. v3 # Replays!Never
  BY GuardBounds DEF Replays!GuardInv, Replays!GuardTypeOK, Replays!Never
<1> HIDE DEF w
<1>5. IsFiniteSet(Replays!Kept(w)) /\ Cardinality(Replays!Kept(w)) \in Nat
  BY GuardKeptFinite
<1>6. v2' \in GuardTimes(v3)
  BY <1>2, GuardReplaySweeps
<1>7. CASE Cardinality(Replays!Kept(w)) < Cap
  <2>1. m = w
    BY <1>1, <1>7, GuardCounts DEF Replays!Evicted
  <2>2. Replays!Kept(v1') = Replays!Kept(w) \cup {id}
    BY <1>1, <1>3, <1>4, <2>1, GuardKeptUses
  <2>3. Cardinality(Replays!Kept(v1')) <= Cap
    <3>1. Cardinality(Replays!Kept(w) \cup {id}) \in {Cardinality(Replays!Kept(w)), Cardinality(Replays!Kept(w)) + 1}
      BY ONLY <1>5, FS_AddElement
    <3> HIDE DEF Replays!Evicted
    <3> QED BY <1>5, <1>7, <2>2, <3>1, GuardBounds
  <2>4. v1' = [w EXCEPT ![id] = v3]
    BY <1>1, <2>1
  <2> QED BY <1>2, <1>3, <1>6, <2>3, <2>4, GuardUses
<1>8. CASE ~(Cardinality(Replays!Kept(w)) < Cap)
  <2>1. PICK old \in Replays!Kept(w) : m = [w EXCEPT ![old] = Replays!Never] /\ \A other \in Replays!Kept(w) : w[old] <= w[other]
    BY <1>1, <1>8, GuardCounts DEF Replays!Evicted
  <2>2. old \in Ids /\ old # id /\ id \notin Replays!Kept(w) /\ old \in Replays!Kept(v1) /\ w[old] = v1[old]
    BY <1>3, <1>5, <1>8, <2>1, GuardBounds DEF Replays!Kept
  <2>3. m \in [Ids -> GuardTimes(v3)] /\ \A x \in Ids : m[x] = IF x = old THEN Replays!Never ELSE w[x]
    BY <1>3, <2>1, <2>2 DEF GuardTimes
  <2>4. Replays!Kept(m) = Replays!Kept(w) \ {old}
    BY <2>2, <2>3 DEF Replays!Kept
  <2>5. IsFiniteSet(Replays!Kept(m)) /\ Cardinality(Replays!Kept(m)) = Cardinality(Replays!Kept(w)) - 1
    BY <1>5, <2>1, <2>4, FS_RemoveElement
  <2>6. (Replays!Kept(m) \cup {id}) \ {old} = Replays!Kept(m) \cup {id} /\ id \notin Replays!Kept(m)
    BY <2>2, <2>4
  <2>7. Cardinality(Replays!Kept(m) \cup {id}) = Cardinality(Replays!Kept(w))
    <3>1. Cardinality(Replays!Kept(m) \cup {id}) = Cardinality(Replays!Kept(m)) + 1
      BY ONLY <2>5, <2>6, FS_AddElement
    <3> QED BY <1>5, <2>5, <3>1
  <2>8. Replays!Kept(v1') = Replays!Kept(m) \cup {id}
    BY <1>1, <1>4, <2>3, GuardKeptUses
  <2>9. Cardinality(Replays!Kept(v1')) <= Cap
    BY <1>3, <2>7, <2>8
  <2>10. \A y \in Replays!Kept(m) : v1[y] >= v1[old]
    <3>1. \A y \in Replays!Kept(w) : w[y] = v1[y] /\ w[y] \in Nat
      BY <1>3, GuardBounds DEF Replays!Kept, GuardTimes, Replays!GuardInv, Replays!GuardTypeOK
    <3> QED BY <2>1, <2>2, <2>4, <3>1
  <2>11. \A x \in Ids : m[x] # Replays!Never => m[x] = v1[x]
    BY <1>3, <2>3
  <2>12. Cardinality((Replays!Kept(m) \cup {id}) \ {old}) >= Cap
    BY <1>5, <1>8, <2>6, <2>7, GuardBounds
  <2>13. \A x \in Ids : m[x] = Replays!Never /\ v1[x] # Replays!Never /\ x # id
            => \/ v3 - v1[x] > FrameWindow
               \/ /\ Cardinality((Replays!Kept(m) \cup {id}) \ {x}) >= Cap
                  /\ \A y \in Replays!Kept(m) : v1[y] >= v1[x]
    <3> TAKE x \in Ids
    <3>1. CASE x = old
      BY <2>10, <2>12, <3>1
    <3>2. CASE x # old
      BY <1>3, <2>3, <3>2
    <3> QED BY <3>1, <3>2
  <2> QED BY <1>1, <1>2, <1>6, <2>3, <2>9, <2>11, <2>13, GuardUses
<1> QED BY <1>7, <1>8

LEMMA GuardNextInv == Replays!GuardInv /\ Replays!GuardNext => Replays!GuardInv'
<1> SUFFICES ASSUME Replays!GuardInv, Replays!GuardNext PROVE Replays!GuardInv'
  OBVIOUS
<1>1. CASE Replays!GuardTick
  <2>1. v3 < MaxFrameTime /\ v3' = v3 + 1 /\ UNCHANGED <<v1, v2, v4>>
    BY <1>1 DEF Replays!GuardTick
  <2>2. v3 \in Nat /\ v3' \in 0..MaxFrameTime /\ 0..v3 \subseteq 0..v3'
    BY <2>1, GuardBounds DEF Replays!GuardInv, Replays!GuardTypeOK
  <2>3. Replays!GuardTypeOK'
    BY <2>1, <2>2 DEF Replays!GuardInv, Replays!GuardTypeOK, Replays!Never, Replays!Kept
  <2>4. ASSUME NEW id \in Ids, v4'[id] # Replays!Never, v1'[id] = Replays!Never
        PROVE  v3' - v4'[id] > FrameWindow \/ Cardinality(Replays!UsedSince(id)') >= Cap
    <3>1. v3 - v4[id] > FrameWindow \/ Cardinality(Replays!UsedSince(id)) >= Cap
      BY <2>1, <2>4, GuardCounts DEF Replays!GuardInv
    <3>2. v4[id] \in Nat /\ v4'[id] = v4[id]
      BY <2>1, <2>2, <2>4 DEF Replays!GuardInv, Replays!GuardTypeOK
    <3>3. Replays!UsedSince(id)' = Replays!UsedSince(id)
      BY <2>1 DEF Replays!UsedSince
    <3> QED BY <2>1, <2>2, <3>1, <3>2, <3>3, GuardBounds
  <2> QED BY <2>1, <2>3, <2>4, GuardCounts DEF Replays!GuardInv
<1>2. ASSUME NEW id \in Ids, Replays!Dispatch(id) \/ Replays!AnswerReplay(id) PROVE Replays!GuardInv'
  BY <1>2, GuardReplayDispatches, GuardReplayAnswers
<1> QED BY <1>1, <1>2 DEF Replays!GuardNext

LEMMA GuardRunsRarely == Replays!GuardInv => Replays!RunsRarely
<1> SUFFICES ASSUME Replays!GuardInv, NEW id \in Ids, Replays!Dispatch(id), v4[id] # Replays!Never
             PROVE  v3 - v4[id] > FrameWindow \/ Cardinality(Replays!UsedSince(id)) >= Cap
  BY GuardCounts DEF Replays!RunsRarely
<1>1. ~Replays!Fresh(Replays!Swept, id)
  BY DEF Replays!Dispatch
<1>2. /\ Replays!Swept[id] # Replays!Never => Replays!Swept[id] = v1[id]
      /\ Replays!Swept[id] = Replays!Never /\ v1[id] # Replays!Never => v3 - v1[id] > FrameWindow
  BY GuardSweptKeeps
<1>3. CASE v1[id] = Replays!Never
  BY <1>3, GuardCounts DEF Replays!GuardInv
<1>4. CASE v1[id] # Replays!Never
  <2>1. v4[id] = v1[id] /\ v1[id] \in Nat /\ v3 \in Nat
    BY <1>4, GuardBounds DEF Replays!GuardInv, Replays!GuardTypeOK
  <2>2. v3 - v1[id] > FrameWindow
    BY <1>1, <1>2, <1>4, <2>1, GuardBounds DEF Replays!Fresh
  <2> QED BY <2>1, <2>2
<1> QED BY <1>3, <1>4

LEMMA GuardStutters == Replays!GuardInv /\ UNCHANGED shared => Replays!GuardInv'
BY DEF shared, Replays!GuardInv, Replays!GuardTypeOK, Replays!UsedSince

-----------------------------------------------------------------------------
(***************************************************************************)
(* CliAuth, as Auth: v1 kind, v2 running, v3 made, v4 login, v5 captive,   *)
(* v6 events, v7 answer, v8 file, v9 writes, v10 row, v11 authCall, v12    *)
(* signedIn.                                                               *)
(* The flag of the running login names the one login that is under way,    *)
(* and the file and the row are its own from the moment it has cleared     *)
(* what was there.                                                         *)
(***************************************************************************)

LEMMA AuthBounds == MaxLogins \in Nat /\ MaxWrites \in Nat /\ MaxLines \in Nat /\ EventSlots \in Nat
BY ServerBoundsAssumption

AuthAts == Auth!Busy \cup {"none", "gone"}
AuthLoginRecords == [at : AuthAts, ctx : {"live", "timeout", "cancelled"}, base : 0..MaxWrites, lines : 0..MaxLines]
AuthCallSteps == {"idle", "put", "logout", "logout_row", "drop"}
AuthEventsSound(e, done) == \A j \in Auth!Logins : Auth!Contains(e[j], "ok") => Auth!Contains(v6[j], "ok") \/ j \in done

LEMMA AuthInitInv == Auth!AuthInit => Auth!AuthInv
<1> SUFFICES ASSUME Auth!AuthInit PROVE Auth!AuthInv
  OBVIOUS
<1>1. /\ v1 \in Auth!Kinds /\ v2 = 0 /\ v3 = 0 /\ v4 = [i \in Auth!Logins |-> Auth!NoLogin]
      /\ v5 = [i \in Auth!Logins |-> "none"] /\ v6 = [i \in Auth!Logins |-> <<>>]
      /\ v7 = [i \in Auth!Logins |-> "none"] /\ v8 = 0 /\ v9 = 0 /\ v10 = "none"
      /\ v11 = [c \in AuthCallers |-> "idle"] /\ v12 = {}
  BY DEF Auth!AuthInit
<1>2. \A i \in Auth!Logins : /\ v6[i] = <<>> /\ Len(v6[i]) = 0 /\ ~Auth!Contains(v6[i], "ok")
                             /\ v4[i].at = "none" /\ v5[i] = "none" /\ v7[i] = "none"
  BY <1>1 DEF Auth!Contains, Auth!NoLogin
<1>3. Auth!NoLogin \in AuthLoginRecords
  BY AuthBounds DEF Auth!NoLogin, AuthLoginRecords, AuthAts
<1>4. v4 \in [Auth!Logins -> AuthLoginRecords]
  BY <1>1, <1>3
<1>5. v6 \in [Auth!Logins -> Seq(Auth!Events)] /\ \A i \in Auth!Logins : Len(v6[i]) <= EventSlots
  BY <1>1, <1>2, AuthBounds
<1>6. Auth!AuthTypeOK
  BY <1>1, <1>4, <1>5, AuthBounds DEF Auth!AuthTypeOK, AuthLoginRecords, AuthAts
<1> QED BY <1>1, <1>2, <1>6 DEF Auth!AuthInv, Auth!SuccessIsFresh, Auth!Busy, Auth!Finishing

LEMMA AuthTypes ==
  ASSUME Auth!AuthInv
  PROVE  /\ v4 \in [Auth!Logins -> AuthLoginRecords] /\ v5 \in [Auth!Logins -> {"none", "live", "gone"}]
         /\ v6 \in [Auth!Logins -> Seq(Auth!Events)] /\ \A i \in Auth!Logins : Len(v6[i]) <= EventSlots
         /\ v7 \in [Auth!Logins -> Auth!Events \cup {"none"}]
         /\ v1 \in Auth!Kinds /\ v2 \in 0..MaxLogins /\ v3 \in 0..MaxLogins
         /\ v8 \in 0..MaxWrites /\ v9 \in 0..MaxWrites /\ v10 \in {"none", "token", "auth_json"}
         /\ v11 \in [AuthCallers -> AuthCallSteps] /\ v12 \subseteq Auth!Logins
BY DEF Auth!AuthInv, Auth!AuthTypeOK, AuthLoginRecords, AuthAts, AuthCallSteps

\* The goroutine of one login goes on.
LEMMA AuthMoves ==
  ASSUME Auth!AuthInv, NEW i \in Auth!Logins,
         v4' \in [Auth!Logins -> AuthLoginRecords], \A j \in Auth!Logins : j # i => v4'[j] = v4[j],
         v4[i].at \in Auth!Busy, v4'[i].at \in Auth!Busy \ {"clearing"},
         UNCHANGED <<v1, v2, v3, v7, v8, v9, v12, v11>>,
         v5' \in [Auth!Logins -> {"none", "live", "gone"}],
         \A j \in Auth!Logins : j # i => v5'[j] = v5[j],
         v5'[i] = "live" => v4'[i].at \in Auth!Spawned,
         v6' \in [Auth!Logins -> Seq(Auth!Events)], \A j \in Auth!Logins : Len(v6'[j]) <= EventSlots,
         AuthEventsSound(v6', v12),
         v10' \in {"none", "token", "auth_json"},
         v10' # "none" => (v10' = v10 /\ v4[i].at # "clearing") \/ i \in v12,
         v4'[i].at \in Auth!Finishing => i \in v12
  PROVE  Auth!AuthInv'
<1>1. Auth!AuthTypeOK'
  BY AuthTypes DEF Auth!AuthTypeOK, AuthLoginRecords, AuthAts, AuthCallSteps
<1>2. Auth!SuccessIsFresh'
  <2>1. \A j \in Auth!Logins : v7'[j] = v7[j] /\ (Auth!Contains(v6'[j], "ok") => Auth!Contains(v6[j], "ok") \/ j \in v12)
    BY DEF AuthEventsSound
  <2>2. \A j \in Auth!Logins : v7[j] = "ok" \/ Auth!Contains(v6[j], "ok") => j \in v12
    BY DEF Auth!AuthInv, Auth!SuccessIsFresh
  <2> QED BY <2>1, <2>2 DEF Auth!SuccessIsFresh
<1>3. v2 = i /\ i <= v3 /\ i # 0 /\ v4'[i].at # "none"
  BY DEF Auth!AuthInv, Auth!Busy, Auth!Logins
<1>4. ASSUME NEW j \in Auth!Logins, j # i
      PROVE /\ v4'[j].at = v4[j].at /\ v5'[j] = v5[j] /\ v4[j].at \notin Auth!Busy
            /\ v4[j].at # "none" => j <= v3
            /\ v5[j] # "live"
            /\ v4[j].at \notin Auth!Finishing
  <2>1. v4[j].at \notin Auth!Busy
    BY <1>3, <1>4 DEF Auth!AuthInv
  <2>2. v5[j] = "live" => v4[j].at \in Auth!Spawned
    BY DEF Auth!AuthInv
  <2>3. Auth!Spawned \subseteq Auth!Busy /\ Auth!Finishing \subseteq Auth!Busy
    BY DEF Auth!Spawned, Auth!Busy, Auth!Finishing
  <2>4. v4[j].at # "none" => j <= v3
    BY DEF Auth!AuthInv
  <2> QED BY <1>4, <2>1, <2>2, <2>3, <2>4
<1>5. v8 # 0 => i \in v12
  BY DEF Auth!AuthInv
<1>6. v10' # "none" => i \in v12
  BY DEF Auth!AuthInv
<1> QED BY <1>1, <1>2, <1>3, <1>4, <1>5, <1>6 DEF Auth!AuthInv

\* A step beside them: no login moves.
LEMMA AuthStays ==
  ASSUME Auth!AuthInv,
         v4' \in [Auth!Logins -> AuthLoginRecords], \A j \in Auth!Logins : v4'[j].at = v4[j].at,
         UNCHANGED <<v1, v2, v3>>,
         v5' \in [Auth!Logins -> {"none", "live", "gone"}],
         \A j \in Auth!Logins : v5'[j] = "live" => v5[j] = "live",
         v6' \in [Auth!Logins -> Seq(Auth!Events)], \A j \in Auth!Logins : Len(v6'[j]) <= EventSlots,
         v7' \in [Auth!Logins -> Auth!Events \cup {"none"}],
         \A j \in Auth!Logins : Auth!Contains(v6'[j], "ok") => Auth!Contains(v6[j], "ok"),
         \A j \in Auth!Logins : v7'[j] = "ok" => v7[j] = "ok" \/ Auth!Contains(v6[j], "ok"),
         v8' \in 0..MaxWrites, v9' \in 0..MaxWrites, v10' \in {"none", "token", "auth_json"},
         v11' \in [AuthCallers -> AuthCallSteps],
         \/ v12' = v12 /\ v8' \in {0, v8} /\ v10' \in {"none", v10}
         \/ v12' = v12 \cup {i \in Auth!Logins : i <= v3}
  PROVE  Auth!AuthInv'
<1>0. v12 \subseteq v12' /\ v12' \subseteq Auth!Logins
  BY AuthTypes
<1>1. Auth!AuthTypeOK'
  BY <1>0, AuthTypes DEF Auth!AuthTypeOK, AuthLoginRecords, AuthAts, AuthCallSteps
<1>2. Auth!SuccessIsFresh'
  <2>1. \A j \in Auth!Logins : v7[j] = "ok" \/ Auth!Contains(v6[j], "ok") => j \in v12
    BY DEF Auth!AuthInv, Auth!SuccessIsFresh
  <2> QED BY <1>0, <2>1 DEF Auth!SuccessIsFresh
<1>3. \A j \in Auth!Logins :
       /\ v4[j].at # "none" => j <= v3
       /\ v4[j].at \in Auth!Busy => v2 = j
       /\ v5[j] = "live" => v4[j].at \in Auth!Spawned
       /\ v4[j].at \in Auth!Finishing => j \in v12
       /\ v4[j].at \in Auth!Busy /\ v8 # 0 => j \in v12
       /\ v4[j].at \in Auth!Busy \ {"clearing"} /\ v10 # "none" => j \in v12
  BY DEF Auth!AuthInv
<1>4. "none" \notin Auth!Busy
  BY DEF Auth!Busy
<1> QED BY <1>0, <1>1, <1>2, <1>3, <1>4 DEF Auth!AuthInv

LEMMA AuthLoginGoes ==
  ASSUME Auth!AuthInv, NEW i \in Auth!Logins, NEW at \in AuthAts, Auth!Goes(i, at)
  PROVE  /\ v4' \in [Auth!Logins -> AuthLoginRecords] /\ \A j \in Auth!Logins : j # i => v4'[j] = v4[j]
         /\ v4'[i].at = at
<1>1. v4 \in [Auth!Logins -> AuthLoginRecords] /\ v4' = [v4 EXCEPT ![i].at = at]
  BY AuthTypes DEF Auth!Goes
<1>2. [v4[i] EXCEPT !.at = at] \in AuthLoginRecords
  BY <1>1 DEF AuthLoginRecords
<1> QED BY <1>1, <1>2 DEF AuthLoginRecords

LEMMA AuthLoginKill ==
  ASSUME Auth!AuthInv, NEW i \in Auth!Logins, Auth!Kill(i)
  PROVE  /\ v5' \in [Auth!Logins -> {"none", "live", "gone"}]
         /\ \A j \in Auth!Logins : j # i => v5'[j] = v5[j]
         /\ v5'[i] # "live"
BY AuthTypes DEF Auth!Kill

LEMMA AuthLoginEmits ==
  ASSUME Auth!AuthInv, NEW i \in Auth!Logins, NEW ev \in Auth!Events, Auth!Emit(i, ev), ev = "ok" => i \in v12
  PROVE  /\ v6' \in [Auth!Logins -> Seq(Auth!Events)] /\ \A j \in Auth!Logins : Len(v6'[j]) <= EventSlots
         /\ AuthEventsSound(v6', v12)
         /\ ev # "ok" => \A j \in Auth!Logins : Auth!Contains(v6'[j], "ok") => Auth!Contains(v6[j], "ok")
<1>1. /\ v6 \in [Auth!Logins -> Seq(Auth!Events)] /\ \A j \in Auth!Logins : Len(v6[j]) <= EventSlots
      /\ v6' = [v6 EXCEPT ![i] = IF Len(@) < EventSlots THEN Append(@, ev) ELSE @]
  BY AuthTypes DEF Auth!Emit
<1>2. CASE ~(Len(v6[i]) < EventSlots)
  <2>1. v6' = v6
    BY <1>1, <1>2
  <2> QED BY <1>1, <2>1 DEF AuthEventsSound
<1>3. CASE Len(v6[i]) < EventSlots
  <2> DEFINE e == Append(v6[i], ev)
  <2>1. v6' = [v6 EXCEPT ![i] = e]
    BY <1>1, <1>3
  <2>2. /\ e \in Seq(Auth!Events) /\ Len(e) = Len(v6[i]) + 1 /\ Len(v6[i]) \in Nat
        /\ \A k \in 1..Len(e) : e[k] = "ok" => (k \in 1..Len(v6[i]) /\ v6[i][k] = "ok") \/ ev = "ok"
    BY <1>1, AppendProperties, LenProperties
  <2>3. Auth!Contains(e, "ok") => Auth!Contains(v6[i], "ok") \/ ev = "ok"
    BY <2>2 DEF Auth!Contains
  <2>4. Len(e) <= EventSlots
    BY <1>3, <2>2, AuthBounds
  <2> HIDE DEF e
  <2>5. \A j \in Auth!Logins : v6'[j] = IF j = i THEN e ELSE v6[j]
    BY <1>1, <2>1
  <2>6. v6' \in [Auth!Logins -> Seq(Auth!Events)]
    BY <1>1, <2>1, <2>2
  <2> QED BY <1>1, <2>3, <2>4, <2>5, <2>6 DEF AuthEventsSound
<1> QED BY <1>2, <1>3

LEMMA AuthEventsKept ==
  ASSUME Auth!AuthInv, v6' = v6
  PROVE  /\ v6' \in [Auth!Logins -> Seq(Auth!Events)] /\ \A j \in Auth!Logins : Len(v6'[j]) <= EventSlots
         /\ AuthEventsSound(v6', v12)
BY AuthTypes DEF AuthEventsSound

LEMMA AuthCaptiveKept ==
  ASSUME Auth!AuthInv, v5' = v5, NEW i \in Auth!Logins
  PROVE  /\ v5' \in [Auth!Logins -> {"none", "live", "gone"}]
         /\ \A j \in Auth!Logins : j # i => v5'[j] = v5[j]
         /\ v5'[i] = "live" => v4[i].at \in Auth!Spawned
BY AuthTypes DEF Auth!AuthInv

LEMMA AuthDriveInv ==
  ASSUME Auth!AuthInv, NEW i \in Auth!Logins, Auth!Drive(i), ~Auth!CleanupForgets(i)
  PROVE  Auth!AuthInv'
<1>0. v10 \in {"none", "token", "auth_json"} /\ v4 \in [Auth!Logins -> AuthLoginRecords]
      /\ v5 \in [Auth!Logins -> {"none", "live", "gone"}] /\ v8 \in 0..MaxWrites
      /\ {"ok", "failed", "timeout", "cancelled"} \subseteq Auth!Events /\ v1 \in {"claude", "codex"}
  BY AuthTypes DEF Auth!Events, Auth!Kinds
<1> USE DEF Auth!Busy, AuthAts, Auth!Spawned, Auth!Finishing, Auth!credential
<1>1. CASE Auth!StartLoginClearsRow(i)
  BY <1>0, <1>1, AuthLoginGoes, AuthEventsKept, AuthCaptiveKept, AuthMoves DEF Auth!StartLoginClearsRow
<1>2. CASE Auth!Spawn(i)
  <2>1. v5' = [v5 EXCEPT ![i] = "live"]
    BY <1>2 DEF Auth!Spawn
  <2>2. v5' \in [Auth!Logins -> {"none", "live", "gone"}] /\ \A j \in Auth!Logins : j # i => v5'[j] = v5[j]
    BY <1>0, <2>1
  <2> QED BY <1>0, <1>2, <2>2, AuthLoginGoes, AuthEventsKept, AuthMoves, SMTT(30) DEF Auth!Spawn
<1>3. CASE Auth!SpawnFails(i)
  <2>1. PICK left \in {"none", "live"} : v5' = [v5 EXCEPT ![i] = left]
    BY <1>3 DEF Auth!SpawnFails
  <2>2. v5' \in [Auth!Logins -> {"none", "live", "gone"}] /\ \A j \in Auth!Logins : j # i => v5'[j] = v5[j]
    BY <1>0, <2>1
  <2> QED BY <1>0, <1>3, <2>2, AuthLoginGoes, AuthLoginEmits, AuthMoves DEF Auth!SpawnFails
<1>4. CASE Auth!Wire(i)
  <2>1. v4' = [v4 EXCEPT ![i].at = "watch", ![i].base = v8]
    BY <1>4 DEF Auth!Wire
  <2> DEFINE r == [v4[i] EXCEPT !.at = "watch"]
             t == [v4 EXCEPT ![i] = r]
  <2>2. r \in AuthLoginRecords /\ r.at = "watch"
    BY <1>0 DEF AuthLoginRecords
  <2>3. v4' = [t EXCEPT ![i].base = v8] /\ t[i] = r /\ DOMAIN t = Auth!Logins
        /\ \A j \in Auth!Logins : j # i => t[j] = v4[j]
    BY <1>0, <2>1
  <2> HIDE DEF r
  <2>4. [r EXCEPT !.base = v8] \in AuthLoginRecords /\ [r EXCEPT !.base = v8].at = "watch"
    BY <1>0, <2>2 DEF AuthLoginRecords
  <2> HIDE DEF t
  <2>5. /\ v4' \in [Auth!Logins -> AuthLoginRecords] /\ (\A j \in Auth!Logins : j # i => v4'[j] = v4[j])
        /\ v4'[i].at = "watch"
    BY <1>0, <2>3, <2>4
  <2> QED BY <1>0, <1>4, <2>5, AuthEventsKept, AuthCaptiveKept, AuthMoves DEF Auth!Wire
<1>5. CASE Auth!WireFails(i)
  BY <1>0, <1>5, AuthLoginGoes, AuthLoginEmits, AuthLoginKill, AuthMoves DEF Auth!WireFails
<1>6. CASE Auth!WatchCancelled(i)
  <2>1. v4[i].ctx \in {"timeout", "cancelled"}
    BY <1>0, <1>6 DEF Auth!WatchCancelled, AuthLoginRecords
  <2>2. /\ v4[i].at = "watch" /\ Auth!Kill(i) /\ Auth!Goes(i, "cleanup")
        /\ \E ev \in {"timeout", "cancelled"} : Auth!Emit(i, ev)
        /\ UNCHANGED <<v1, v2, v3, v7, v8, v9, v10, v12, v11>>
    BY <1>6, <2>1 DEF Auth!WatchCancelled
  <2>3. /\ v6' \in [Auth!Logins -> Seq(Auth!Events)] /\ \A j \in Auth!Logins : Len(v6'[j]) <= EventSlots
        /\ AuthEventsSound(v6', v12)
    BY <1>0, <2>2, AuthLoginEmits
  <2>4. v10 # "none" => i \in v12
    BY <2>2 DEF Auth!AuthInv
  <2> QED BY <1>0, <2>2, <2>3, <2>4, AuthLoginGoes, AuthLoginKill, AuthMoves, SMTT(30)
<1>7. CASE Auth!WatchFinds(i)
  <2>1. /\ v4[i].at = "watch" /\ Auth!Goes(i, "finish")
        /\ UNCHANGED <<v1, v2, v3, v5, v6, v7, Auth!credential, v11>>
    BY <1>7 DEF Auth!WatchFinds
  <2>2. v8 # 0 \/ v10 # "none"
    BY <1>7 DEF Auth!WatchFinds, Auth!SignInSeen, Auth!FileIsNewer, Auth!StatusLoggedIn
  <2>3. i \in v12
    BY <2>1, <2>2 DEF Auth!AuthInv
  <2> QED BY <1>0, <2>1, <2>3, AuthLoginGoes, AuthEventsKept, AuthCaptiveKept, AuthMoves
<1>8. CASE Auth!WatchExited(i)
  BY <1>0, <1>8, AuthLoginGoes, AuthLoginEmits, AuthCaptiveKept, AuthMoves DEF Auth!WatchExited
<1>9. CASE Auth!FinishClaude(i)
  <2>1. i \in v12
    BY <1>9 DEF Auth!FinishClaude, Auth!AuthInv
  <2>2. /\ v4[i].at = "finish" /\ v10' = "none" /\ Auth!Goes(i, "kill")
        /\ UNCHANGED <<v1, v2, v3, v5, v6, v7, v8, v9, v11, v12>>
    BY <1>9 DEF Auth!FinishClaude
  <2> QED BY <1>0, <2>1, <2>2, AuthLoginGoes, AuthEventsKept, AuthCaptiveKept, AuthMoves
<1>10. CASE Auth!FinishCodexReads(i)
  <2>1. i \in v12
    BY <1>10 DEF Auth!FinishCodexReads, Auth!AuthInv
  <2> QED BY <1>0, <1>10, <2>1, AuthLoginGoes, AuthEventsKept, AuthCaptiveKept, AuthMoves
             DEF Auth!FinishCodexReads
<1>11. CASE Auth!FinishCodexPuts(i)
  <2>1. i \in v12
    BY <1>11 DEF Auth!FinishCodexPuts, Auth!AuthInv
  <2> QED BY <1>0, <1>11, <2>1, AuthLoginGoes, AuthEventsKept, AuthCaptiveKept, AuthMoves
             DEF Auth!FinishCodexPuts
<1>12. CASE Auth!FinishKills(i)
  <2>1. i \in v12
    BY <1>12 DEF Auth!FinishKills, Auth!AuthInv
  <2>2. v10' \in {v10, "none"}
    BY <1>12 DEF Auth!FinishKills, Auth!StatusDropsStale
  <2>3. \E ev \in {"ok", "failed"} : Auth!Emit(i, ev)
    BY <1>12 DEF Auth!FinishKills
  <2> QED BY <1>0, <1>12, <2>1, <2>2, <2>3, AuthLoginGoes, AuthLoginEmits, AuthLoginKill, AuthMoves
             DEF Auth!FinishKills
<1>13. CASE Auth!Cleanup(i)
  BY <1>0, <1>13, AuthLoginGoes, AuthEventsKept, AuthLoginKill, AuthMoves DEF Auth!Cleanup
<1> QED BY <1>1, <1>2, <1>3, <1>4, <1>5, <1>6, <1>7, <1>8, <1>9, <1>10, <1>11, <1>12, <1>13 DEF Auth!Drive

LEMMA AuthStartLoginInv == Auth!AuthInv /\ Auth!StartLogin => Auth!AuthInv'
<1> SUFFICES ASSUME Auth!AuthInv, Auth!StartLogin PROVE Auth!AuthInv'
  OBVIOUS
<1>1. /\ v2 = 0 /\ v3 < MaxLogins /\ v3' = v3 + 1 /\ v2' = v3'
      /\ v4' = [v4 EXCEPT ![v3'].at = "clearing"] /\ v8' = 0
      /\ UNCHANGED <<v1, v5, v6, v7, v9, v10, v11, v12>>
  BY DEF Auth!StartLogin
<1>2. v3' \in Auth!Logins /\ v3' \in Nat /\ v3' # 0 /\ v3' > v3 /\ v3 \in Nat /\ v3' \in 0..MaxLogins
  BY <1>1, AuthBounds, AuthTypes DEF Auth!Logins
<1> DEFINE n == v3'
<1>3. v4 \in [Auth!Logins -> AuthLoginRecords]
  BY AuthTypes
<1>4. [v4[n] EXCEPT !.at = "clearing"] \in AuthLoginRecords
  BY <1>2, <1>3 DEF AuthLoginRecords, AuthAts, Auth!Busy
<1>5. /\ v4' \in [Auth!Logins -> AuthLoginRecords] /\ (\A j \in Auth!Logins : j # n => v4'[j] = v4[j])
      /\ v4'[n].at = "clearing"
  BY <1>1, <1>2, <1>3, <1>4 DEF AuthLoginRecords
<1>6. Auth!AuthTypeOK'
  BY <1>1, <1>2, <1>5, AuthTypes, AuthBounds DEF Auth!AuthTypeOK, AuthLoginRecords, AuthAts, AuthCallSteps
<1>7. Auth!SuccessIsFresh'
  BY <1>1 DEF Auth!SuccessIsFresh, Auth!AuthInv
<1>8. /\ \A j \in Auth!Logins : v4[j].at \notin Auth!Busy
      /\ v4[n].at = "none"
  <2>1. \A j \in Auth!Logins : j # 0
    BY DEF Auth!Logins
  <2>2. n \in Auth!Logins /\ ~(n <= v3)
    BY <1>2
  <2> QED BY <1>1, <2>1, <2>2 DEF Auth!AuthInv
<1>9. /\ Auth!Spawned \subseteq Auth!Busy /\ Auth!Finishing \subseteq Auth!Busy
      /\ "clearing" \notin Auth!Finishing
  BY DEF Auth!Spawned, Auth!Busy, Auth!Finishing
<1>10. \A j \in Auth!Logins : v5[j] # "live"
  BY <1>8, <1>9 DEF Auth!AuthInv
<1>11. \A j \in Auth!Logins : v4[j].at # "none" => j <= v3'
  BY <1>2 DEF Auth!AuthInv, Auth!Logins
<1> HIDE DEF n
<1>12. n = v3' /\ n <= v3'
  BY <1>2 DEF n
<1> QED BY <1>1, <1>5, <1>6, <1>7, <1>8, <1>9, <1>10, <1>11, <1>12 DEF Auth!AuthInv

LEMMA AuthCleanupForgetsInv ==
  ASSUME Auth!AuthInv, NEW i \in Auth!Logins, Auth!CleanupForgets(i)
  PROVE  Auth!AuthInv'
<1>1. /\ v4[i].at = "forget" /\ v2' = IF v2 = i THEN 0 ELSE v2
      /\ Auth!Goes(i, "gone") /\ UNCHANGED <<v1, v3, v5, v6, v7, v8, v9, v10, v12, v11>>
  BY DEF Auth!CleanupForgets, Auth!credential
<1>2. /\ v4' \in [Auth!Logins -> AuthLoginRecords] /\ (\A j \in Auth!Logins : j # i => v4'[j] = v4[j])
      /\ v4'[i].at = "gone"
  BY <1>1, AuthLoginGoes DEF AuthAts
<1>3. v2 = i /\ v2' \in 0..MaxLogins /\ i <= v3
  BY <1>1, AuthBounds, AuthTypes DEF Auth!AuthInv, Auth!Busy
<1>4. Auth!AuthTypeOK'
  BY <1>1, <1>2, <1>3, AuthTypes DEF Auth!AuthTypeOK, AuthLoginRecords, AuthAts, AuthCallSteps
<1>5. Auth!SuccessIsFresh'
  BY <1>1 DEF Auth!SuccessIsFresh, Auth!AuthInv
<1>6. "gone" \notin Auth!Busy /\ "gone" \notin Auth!Finishing /\ "forget" \notin Auth!Spawned
  BY DEF Auth!Busy, Auth!Spawned, Auth!Finishing
<1>7. v5[i] # "live"
  BY <1>1, <1>6 DEF Auth!AuthInv
<1>8. \A j \in Auth!Logins : j # i => v4[j].at \notin Auth!Busy
  BY <1>3 DEF Auth!AuthInv
<1> QED BY <1>1, <1>2, <1>3, <1>4, <1>5, <1>6, <1>7, <1>8 DEF Auth!AuthInv

LEMMA AuthLoginBesideInv ==
  ASSUME Auth!AuthInv, NEW i \in Auth!Logins,
         Auth!WatchLine(i) \/ Auth!CliSignsIn(i) \/ Auth!CliExits(i) \/ Auth!ContextEnds(i) \/ Auth!Forward(i)
  PROVE  Auth!AuthInv'
<1>0. /\ v4 \in [Auth!Logins -> AuthLoginRecords] /\ v5 \in [Auth!Logins -> {"none", "live", "gone"}]
      /\ v8 \in 0..MaxWrites /\ v9 \in 0..MaxWrites /\ v10 \in {"none", "token", "auth_json"}
      /\ v7 \in [Auth!Logins -> Auth!Events \cup {"none"}] /\ v11 \in [AuthCallers -> AuthCallSteps]
      /\ v6 \in [Auth!Logins -> Seq(Auth!Events)] /\ \A j \in Auth!Logins : Len(v6[j]) <= EventSlots
  BY AuthTypes
<1>1. CASE Auth!WatchLine(i)
  <2>1. /\ v4[i].lines < MaxLines /\ Auth!Emit(i, "progress") /\ v4' = [v4 EXCEPT ![i].lines = @ + 1]
        /\ UNCHANGED <<v1, v2, v3, v5, v7, v8, v9, v10, v12, v11>>
    BY <1>1 DEF Auth!WatchLine, Auth!credential
  <2>2. [v4[i] EXCEPT !.lines = v4[i].lines + 1] \in AuthLoginRecords
    <3>1. v4[i].lines \in 0..MaxLines /\ v4[i] \in AuthLoginRecords
      BY <1>0 DEF AuthLoginRecords
    <3>2. v4[i].lines + 1 \in 0..MaxLines
      BY <2>1, <3>1, AuthBounds
    <3> QED BY <3>1, <3>2 DEF AuthLoginRecords
  <2>3. v4' \in [Auth!Logins -> AuthLoginRecords] /\ \A j \in Auth!Logins : v4'[j].at = v4[j].at
    BY <1>0, <2>1, <2>2 DEF AuthLoginRecords
  <2>4. /\ v6' \in [Auth!Logins -> Seq(Auth!Events)] /\ \A j \in Auth!Logins : Len(v6'[j]) <= EventSlots
        /\ \A j \in Auth!Logins : Auth!Contains(v6'[j], "ok") => Auth!Contains(v6[j], "ok")
    BY <2>1, AuthLoginEmits DEF Auth!Events
  <2> QED BY <1>0, <2>1, <2>3, <2>4, AuthStays
<1>2. CASE Auth!CliSignsIn(i)
  <2>1. /\ v9 < MaxWrites /\ v9' = v9 + 1 /\ v8' = v9'
        /\ v12' = v12 \cup {j \in Auth!Logins : j <= v3}
        /\ UNCHANGED <<v1, v2, v3, v4, v5, v6, v7, v10, v11>>
    BY <1>2 DEF Auth!CliSignsIn, Auth!WritesFile, Auth!Stored
  <2>2. v9' \in 0..MaxWrites
    BY <1>0, <2>1, AuthBounds
  <2> QED BY <1>0, <2>1, <2>2, AuthStays
<1>3. CASE Auth!CliExits(i)
  <2>1. Auth!Kill(i) /\ UNCHANGED <<v1, v2, v3, v4, v6, v7, v8, v9, v10, v12, v11>>
    BY <1>3 DEF Auth!CliExits, Auth!credential
  <2>2. /\ v5' \in [Auth!Logins -> {"none", "live", "gone"}]
        /\ \A j \in Auth!Logins : v5'[j] = "live" => v5[j] = "live"
    BY <2>1, AuthLoginKill
  <2> QED BY <1>0, <2>1, <2>2, AuthStays
<1>4. CASE Auth!ContextEnds(i)
  <2>1. PICK why \in {"timeout", "cancelled"} : v4' = [v4 EXCEPT ![i].ctx = why]
    BY <1>4 DEF Auth!ContextEnds
  <2>2. UNCHANGED <<v1, v2, v3, v5, v6, v7, v8, v9, v10, v12, v11>>
    BY <1>4 DEF Auth!ContextEnds, Auth!credential
  <2>3. [v4[i] EXCEPT !.ctx = why] \in AuthLoginRecords
    BY <1>0 DEF AuthLoginRecords
  <2>4. v4' \in [Auth!Logins -> AuthLoginRecords] /\ \A j \in Auth!Logins : v4'[j].at = v4[j].at
    BY <1>0, <2>1, <2>3 DEF AuthLoginRecords
  <2> QED BY <1>0, <2>2, <2>4, AuthStays
<1>5. CASE Auth!Forward(i)
  <2>1. /\ v6[i] # <<>> /\ v6' = [v6 EXCEPT ![i] = Tail(@)]
        /\ v7' = [v7 EXCEPT ![i] = IF Head(v6[i]) = "progress" THEN @ ELSE Head(v6[i])]
        /\ UNCHANGED <<v1, v2, v3, v4, v5, v8, v9, v10, v12, v11>>
    BY <1>5 DEF Auth!Forward, Auth!credential
  <2> DEFINE e == Tail(v6[i])
             a == IF Head(v6[i]) = "progress" THEN v7[i] ELSE Head(v6[i])
  <2>2. /\ e \in Seq(Auth!Events) /\ Len(e) = Len(v6[i]) - 1 /\ Len(v6[i]) \in Nat \ {0}
        /\ Head(v6[i]) = v6[i][1] /\ Head(v6[i]) \in Auth!Events
        /\ \A k \in 1..Len(e) : e[k] = v6[i][k + 1]
    BY <1>0, <2>1, HeadTailProperties, EmptySeq, LenProperties
  <2>3. Auth!Contains(e, "ok") => Auth!Contains(v6[i], "ok")
    BY <2>2 DEF Auth!Contains
  <2>4. a \in Auth!Events \cup {"none"} /\ (a = "ok" => v7[i] = "ok" \/ Auth!Contains(v6[i], "ok"))
    BY <1>0, <2>2 DEF Auth!Contains
  <2>5. Len(e) <= EventSlots
    BY <1>0, <2>2, AuthBounds
  <2>6. v6' = [v6 EXCEPT ![i] = e] /\ v7' = [v7 EXCEPT ![i] = a]
    BY <1>0, <2>1
  <2> HIDE DEF e, a
  <2>7. /\ v6' \in [Auth!Logins -> Seq(Auth!Events)] /\ \A j \in Auth!Logins : Len(v6'[j]) <= EventSlots
        /\ \A j \in Auth!Logins : Auth!Contains(v6'[j], "ok") => Auth!Contains(v6[j], "ok")
    BY <1>0, <2>2, <2>3, <2>5, <2>6
  <2>8. /\ v7' \in [Auth!Logins -> Auth!Events \cup {"none"}]
        /\ \A j \in Auth!Logins : v7'[j] = "ok" => v7[j] = "ok" \/ Auth!Contains(v6[j], "ok")
    BY <1>0, <2>4, <2>6
  <2> QED BY <1>0, <2>1, <2>7, <2>8, AuthStays
<1> QED BY <1>1, <1>2, <1>3, <1>4, <1>5

LEMMA AuthCallersInv ==
  ASSUME Auth!AuthInv, NEW c \in AuthCallers,
         \/ Auth!SetTokenFile(c) \/ Auth!SetTokenRow(c) \/ Auth!LogoutCancels(c) \/ Auth!LogoutClearsFile(c)
         \/ Auth!LogoutClearsRow(c) \/ Auth!StatusLooks(c) \/ Auth!StatusDrops(c)
  PROVE  Auth!AuthInv'
<1>0. /\ v4 \in [Auth!Logins -> AuthLoginRecords] /\ v5 \in [Auth!Logins -> {"none", "live", "gone"}]
      /\ v8 \in 0..MaxWrites /\ v9 \in 0..MaxWrites /\ v10 \in {"none", "token", "auth_json"}
      /\ v7 \in [Auth!Logins -> Auth!Events \cup {"none"}] /\ v11 \in [AuthCallers -> AuthCallSteps]
      /\ v6 \in [Auth!Logins -> Seq(Auth!Events)] /\ \A j \in Auth!Logins : Len(v6[j]) <= EventSlots
      /\ v2 \in 0..MaxLogins
  BY AuthTypes
<1>1. \A s \in AuthCallSteps : [v11 EXCEPT ![c] = s] \in [AuthCallers -> AuthCallSteps]
  BY <1>0
<1>2. v11' \in [AuthCallers -> AuthCallSteps] /\ UNCHANGED <<v1, v2, v3, v5, v6, v7>>
  BY <1>1 DEF Auth!SetTokenFile, Auth!SetTokenRow, Auth!LogoutCancels, Auth!LogoutClearsFile,
     Auth!LogoutClearsRow,
              Auth!StatusLooks, Auth!StatusDrops, AuthCallSteps
<1>3. CASE Auth!SetTokenFile(c)
  <2>1. /\ v9 < MaxWrites /\ v9' = v9 + 1 /\ v8' = v9'
        /\ v12' = v12 \cup {j \in Auth!Logins : j <= v3} /\ v4' = v4 /\ v10' = v10
    BY <1>3 DEF Auth!SetTokenFile, Auth!WritesFile, Auth!Stored
  <2>2. v9' \in 0..MaxWrites
    BY <1>0, <2>1, AuthBounds
  <2> QED BY <1>0, <1>2, <2>1, <2>2, AuthStays
<1>4. CASE Auth!SetTokenRow(c)
  <2>1. /\ v10' \in {"auth_json", "token"} /\ v12' = v12 \cup {j \in Auth!Logins : j <= v3}
        /\ v4' = v4 /\ v8' = v8 /\ v9' = v9
    BY <1>4 DEF Auth!SetTokenRow, Auth!Stored
  <2> QED BY <1>0, <1>2, <2>1, AuthStays
<1>5. CASE Auth!LogoutCancels(c)
  <2>1. /\ v4' = IF v2 = 0 THEN v4
              ELSE [v4 EXCEPT ![v2].ctx = IF @ = "live" THEN "cancelled" ELSE @]
        /\ UNCHANGED <<v8, v9, v10, v12>>
    BY <1>5 DEF Auth!LogoutCancels, Auth!credential
  <2>2. v4' \in [Auth!Logins -> AuthLoginRecords] /\ \A j \in Auth!Logins : v4'[j].at = v4[j].at
    <3>1. CASE v2 = 0
      BY <1>0, <2>1, <3>1
    <3>2. CASE v2 # 0
      <4> DEFINE x == IF v4[v2].ctx = "live" THEN "cancelled" ELSE v4[v2].ctx
      <4>1. v2 \in Auth!Logins
        BY <1>0, <3>2, AuthBounds DEF Auth!Logins
      <4>2. [v4[v2] EXCEPT !.ctx = x] \in AuthLoginRecords
        BY <1>0, <4>1 DEF AuthLoginRecords
      <4>3. v4' = [v4 EXCEPT ![v2].ctx = x]
        BY <1>0, <2>1, <3>2, <4>1
      <4> HIDE DEF x
      <4> QED BY <1>0, <4>1, <4>2, <4>3 DEF AuthLoginRecords
    <3> QED BY <3>1, <3>2
  <2> QED BY <1>0, <1>2, <2>1, <2>2, AuthStays
<1>6. CASE Auth!LogoutClearsFile(c)
  <2>1. v8' = 0 /\ UNCHANGED <<v4, v9, v10, v12>>
    BY <1>6 DEF Auth!LogoutClearsFile
  <2> QED BY <1>0, <1>2, <2>1, AuthBounds, AuthStays
<1>7. CASE Auth!LogoutClearsRow(c) \/ Auth!StatusDrops(c)
  <2>1. v10' = "none" /\ UNCHANGED <<v4, v8, v9, v12>>
    BY <1>7 DEF Auth!LogoutClearsRow, Auth!StatusDrops
  <2> QED BY <1>0, <1>2, <2>1, AuthStays
<1>8. CASE Auth!StatusLooks(c)
  <2>1. UNCHANGED <<v4, v8, v9, v10, v12>>
    BY <1>8 DEF Auth!StatusLooks, Auth!credential
  <2> QED BY <1>0, <1>2, <2>1, AuthStays
<1> QED BY <1>3, <1>4, <1>5, <1>6, <1>7, <1>8

LEMMA AuthNextInv == Auth!AuthInv /\ Auth!AuthNext => Auth!AuthInv'
BY AuthStartLoginInv, AuthDriveInv, AuthCleanupForgetsInv, AuthLoginBesideInv, AuthCallersInv
   DEF Auth!AuthNext

LEMMA AuthInvProps == Auth!AuthInv => Auth!CaptiveIsOwned /\ Auth!SuccessIsFresh
BY DEF Auth!AuthInv, Auth!CaptiveIsOwned, Auth!Spawned, Auth!Busy

LEMMA AuthStutters == Auth!AuthInv /\ UNCHANGED shared => Auth!AuthInv'
BY DEF shared, Auth!AuthInv, Auth!AuthTypeOK, Auth!SuccessIsFresh

-----------------------------------------------------------------------------
(***************************************************************************)
(* Runbooks, as Books: v1 now, v2 lastFired, v3 handler, v4 cards, v5      *)
(* runbooks, v6 announced, v7 runs, v8 asks, v9 events, v10 restarts.      *)
(* The claim of a key is the time of its last automatic repair, and a card *)
(* is published by a handler that holds the runbook it is of.              *)
(***************************************************************************)

LEMMA RunbookBounds == /\ MaxRepairTime \in Nat \ {0} /\ MaxRepairEvents \in Nat
                       /\ MaxRepairRestarts \in Nat /\ RepairWindow \in Nat
                       /\ AlertKeys # {}
BY ServerBoundsAssumption, SomethingThereAssumption

RunbookRecord == [run : Nat, steps : SUBSET Books!Steps, high : BOOLEAN]
RunbookClaims == /\ v2 \in [AlertKeys -> 0..MaxRepairTime] /\ v8 \in [AlertKeys -> Seq(1..MaxRepairTime)] /\ v7 \in Nat
                 /\ Books!AsksAreSpaced /\ Books!ClaimIsLast

LEMMA RunbookTypes ==
  ASSUME Books!RunbookInv
  PROVE  /\ v1 \in 1..MaxRepairTime /\ v9 \in 0..MaxRepairEvents /\ v10 \in 0..MaxRepairRestarts
         /\ v3 \in [Workers -> Books!HandlerRecord]
         /\ v4 \subseteq Nat \X Books!Steps /\ v6 \subseteq Nat /\ v5 \subseteq RunbookRecord
         /\ RunbookClaims
BY DEF Books!RunbookInv, Books!RunbookTypeOK, RunbookRecord, RunbookClaims

LEMMA RunbookRestingIsHandler ==
  /\ Books!Resting \in Books!HandlerRecord /\ Books!Resting.at = "idle" /\ Books!Resting.left = {}
  /\ Books!Resting.steps = {}
  /\ Books!Resting.run = 0 /\ Books!Resting.read = 0
<1>1. (CHOOSE k \in AlertKeys : TRUE) \in AlertKeys
  BY RunbookBounds
<1>2. 0 \in 0..MaxRepairTime
  BY RunbookBounds
<1> QED BY <1>1, <1>2 DEF Books!Resting, Books!HandlerRecord

LEMMA RunbookAppendedAt ==
  ASSUME NEW S, NEW q \in Seq(S), NEW x \in S
  PROVE  /\ Append(q, x) \in Seq(S) /\ Len(Append(q, x)) = Len(q) + 1 /\ Append(q, x)[Len(q) + 1] = x
         /\ Append(q, x) # <<>> /\ \A i \in 1..Len(q) : Append(q, x)[i] = q[i]
BY AppendProperties

LEMMA RunbookNoPlaces == \A k \in DOMAIN <<>> : FALSE
<1>1. <<>> \in Seq({}) /\ Len(<<>>) = 0
  BY EmptySeq
<1>2. DOMAIN <<>> = 1..0
  BY <1>1, LenProperties
<1> QED BY <1>2

LEMMA RunbookInitInv == Books!RunbookInit => Books!RunbookInv
<1> SUFFICES ASSUME Books!RunbookInit PROVE Books!RunbookInv
  OBVIOUS
<1>1. /\ v1 = 1 /\ v9 = MaxRepairEvents /\ v10 = 0
      /\ v2 = [k \in AlertKeys |-> 0] /\ v8 = [k \in AlertKeys |-> <<>>] /\ v7 = 0
      /\ v3 = [h \in Workers |-> Books!Resting] /\ v4 = {} /\ v5 = {} /\ v6 = {}
  BY DEF Books!RunbookInit
<1>2. \A k \in AlertKeys : v8[k] = <<>>
  BY <1>1
<1>3. \A h \in Workers : v3[h] = Books!Resting
  BY <1>1
<1>4. Books!RunbookTypeOK
  BY <1>1, RunbookRestingIsHandler, RunbookBounds DEF Books!RunbookTypeOK
<1>5. Books!AsksAreSpaced /\ Books!ClaimIsLast
  BY <1>1, <1>2, RunbookNoPlaces DEF Books!AsksAreSpaced, Books!ClaimIsLast
<1>6. Books!CardsHaveARunbook /\ Books!CardsAreExplained
  BY <1>1 DEF Books!CardsHaveARunbook, Books!CardsAreExplained
<1>7. \A h \in Workers : Books!HandlerIsSound(h)
  BY <1>3, RunbookRestingIsHandler DEF Books!HandlerIsSound
<1> QED BY <1>4, <1>5, <1>6, <1>7 DEF Books!RunbookInv

\* One handler goes on.
RunbookTurnIs(h) ==
  /\ v1' \in 1..MaxRepairTime /\ v9' \in 0..MaxRepairEvents /\ v10' \in 0..MaxRepairRestarts
  /\ v3' \in [Workers -> Books!HandlerRecord] /\ \A g \in Workers : g # h => v3'[g] = v3[g]
  /\ v4 \subseteq v4' /\ v5 \subseteq v5'
  /\ v4' \subseteq Nat \X Books!Steps /\ v6' \subseteq Nat /\ v5' \subseteq RunbookRecord
  /\ \A c \in v4' : c \in v4 \/ /\ c[1] = v3'[h].run /\ v3'[h].at = "filing"
                                /\ c[2] \in v3'[h].steps
  /\ v3[h].at = "filing" =>
       \/ v3'[h].at = "filing" /\ v3'[h].run = v3[h].run /\ v3'[h].steps = v3[h].steps
       \/ \E b \in v5' : b.run = v3[h].run /\ b.steps = v3[h].steps
  /\ \A b \in v5' : b \in v5 \/
       /\ "script" \in b.steps => b.high
       /\ \A s \in Books!Steps \ {"malformed"} : s \in b.steps => <<b.run, s>> \in v4'
  /\ \A x \in v6' : x \in v6 \/ \E b \in v5' : b.run = x

LEMMA RunbookTurn ==
  ASSUME Books!RunbookInv, NEW h \in Workers, RunbookTurnIs(h), Books!HandlerIsSound(h)', RunbookClaims'
  PROVE  Books!RunbookInv'
<1> USE DEF RunbookTurnIs
<1>1. Books!RunbookTypeOK'
  BY DEF Books!RunbookTypeOK, RunbookRecord, RunbookClaims
<1>2. \A b \in v5, s \in Books!Steps \ {"malformed"} : s \in b.steps => <<b.run, s>> \in v4
  BY DEF Books!RunbookInv, Books!CardsHaveARunbook
<1>3. \A b \in v5 : "script" \in b.steps => b.high
  BY DEF Books!RunbookInv, Books!CardsHaveARunbook
<1>4. \A x \in v6 : \E b \in v5 : b.run = x
  BY DEF Books!RunbookInv, Books!CardsHaveARunbook
<1>5. ASSUME NEW g \in Workers PROVE Books!HandlerIsSound(g)'
  <2>1. CASE g # h
    <3>1. v3'[g] = v3[g] /\ Books!HandlerIsSound(g)
      BY <2>1 DEF Books!RunbookInv
    <3> QED BY <3>1 DEF Books!HandlerIsSound
  <2> QED BY <2>1
<1>6. ASSUME NEW c \in v4'
      PROVE  \/ \E b \in v5' : b.run = c[1] /\ c[2] \in b.steps
             \/ \E g \in Workers : v3'[g].run = c[1] /\ v3'[g].at = "filing" /\ c[2] \in v3'[g].steps
  <2>1. CASE c \notin v4
    BY <2>1
  <2>2. CASE c \in v4
    <3>1. \/ \E b \in v5 : b.run = c[1] /\ c[2] \in b.steps
          \/ \E g \in Workers : v3[g].run = c[1] /\ v3[g].at = "filing" /\ c[2] \in v3[g].steps
      BY <2>2 DEF Books!RunbookInv, Books!CardsAreExplained
    <3>2. CASE \E b \in v5 : b.run = c[1] /\ c[2] \in b.steps
      BY <3>2
    <3>3. ASSUME NEW g \in Workers, v3[g].run = c[1] /\ v3[g].at = "filing" /\ c[2] \in v3[g].steps
          PROVE  \/ \E b \in v5' : b.run = c[1] /\ c[2] \in b.steps
                 \/ v3'[g].run = c[1] /\ v3'[g].at = "filing" /\ c[2] \in v3'[g].steps
      BY <3>3
    <3> QED BY <3>1, <3>2, <3>3
  <2> QED BY <2>1, <2>2
<1>7. Books!CardsAreExplained'
  BY <1>6 DEF Books!CardsAreExplained
<1>8. Books!CardsHaveARunbook'
  <2>1. \A c \in v4' : \/ \E b \in v5' : b.run = c[1] /\ c[2] \in b.steps
                       \/ \E g \in Workers : v3'[g].run = c[1] /\ v3'[g].at = "filing"
    BY <1>6
  <2>2. \A b \in v5', s \in Books!Steps \ {"malformed"} : s \in b.steps => <<b.run, s>> \in v4'
    BY <1>2
  <2>3. \A b \in v5' : "script" \in b.steps => b.high
    BY <1>3
  <2>4. v6' \subseteq {b.run : b \in v5'}
    BY <1>4
  <2> QED BY <2>1, <2>2, <2>3, <2>4 DEF Books!CardsHaveARunbook
<1> QED BY <1>1, <1>5, <1>7, <1>8 DEF Books!RunbookInv, RunbookClaims

\* A handler goes on with a record r; the queue stays.
LEMMA RunbookHandlerGoes ==
  ASSUME Books!RunbookInv, NEW h \in Workers, NEW r \in Books!HandlerRecord,
         v3' \in [Workers -> Books!HandlerRecord], v3'[h] = r,
         \A g \in Workers : g # h => v3'[g] = v3[g],
         UNCHANGED <<v4, v5, v6>>, v3[h].at # "filing",
         v1' \in 1..MaxRepairTime, v9' \in 0..MaxRepairEvents, v10' \in 0..MaxRepairRestarts
  PROVE  RunbookTurnIs(h)
BY RunbookTypes DEF RunbookTurnIs

LEMMA RunbookClaimsStay == ASSUME Books!RunbookInv, UNCHANGED <<v2, v8, v7>> PROVE RunbookClaims'
BY RunbookTypes DEF RunbookClaims, Books!AsksAreSpaced, Books!ClaimIsLast

LEMMA RunbookTryClaimInv ==
  ASSUME Books!RunbookInv, NEW h \in Workers, Books!TryClaim(h)
  PROVE  Books!RunbookInv'
<1> DEFINE r == v3[h]
           k == r.key
<1>0. /\ v3 \in [Workers -> Books!HandlerRecord] /\ r \in Books!HandlerRecord /\ k \in AlertKeys
      /\ r.read \in 0..MaxRepairTime /\ RunbookClaims
  BY RunbookTypes DEF Books!HandlerRecord
<1>1. r.at = "claiming" /\ UNCHANGED <<v1, v4, v5, v6, v9, v10>>
  BY DEF Books!TryClaim, Books!queue, Books!bounds
<1>2. r.read # 0 /\ r.left \subseteq r.steps
  BY <1>1 DEF Books!RunbookInv, Books!HandlerIsSound
<1>3. CASE Books!Throttled(h)
  <2>1. v3' = [v3 EXCEPT ![h] = Books!Resting] /\ UNCHANGED <<v2, v7, v8>>
    BY <1>3 DEF Books!TryClaim
  <2>2. /\ v3' \in [Workers -> Books!HandlerRecord] /\ v3'[h] = Books!Resting
        /\ \A g \in Workers : g # h => v3'[g] = v3[g]
    BY <1>0, <2>1, RunbookRestingIsHandler
  <2>3. Books!HandlerIsSound(h)'
    BY <2>2, RunbookRestingIsHandler DEF Books!HandlerIsSound
  <2>4. RunbookTurnIs(h)
    BY <1>1, <2>2, RunbookRestingIsHandler, RunbookTypes, RunbookHandlerGoes
  <2> QED BY <2>1, <2>3, <2>4, RunbookClaimsStay, RunbookTurn
<1>4. CASE ~Books!Throttled(h)
  <2> DEFINE q == [r EXCEPT !.at = "proposing"]
             t == [v3 EXCEPT ![h] = q]
             m == [q EXCEPT !.run = v7 + 1]
  <2>1. /\ v2' = [v2 EXCEPT ![k] = r.read] /\ v8' = [v8 EXCEPT ![k] = Append(@, r.read)]
        /\ v7' = v7 + 1 /\ v3' = [v3 EXCEPT ![h].at = "proposing", ![h].run = v7 + 1]
    BY <1>4 DEF Books!TryClaim
  <2>2. q \in Books!HandlerRecord /\ q.at = "proposing" /\ q.left = r.left /\ q.steps = r.steps /\ v7 \in Nat
    BY <1>0 DEF Books!HandlerRecord, RunbookClaims
  <2>3. v3' = [t EXCEPT ![h].run = v7 + 1] /\ t[h] = q /\ DOMAIN t = Workers
        /\ \A g \in Workers : g # h => t[g] = v3[g]
    BY <1>0, <2>1
  <2> HIDE DEF q
  <2>4. m \in Books!HandlerRecord /\ m.at = "proposing" /\ m.left = r.left /\ m.steps = r.steps
    BY <2>2 DEF Books!HandlerRecord
  <2> HIDE DEF t
  <2>5. v3' = [t EXCEPT ![h] = m]
    BY <2>3
  <2> HIDE DEF m
  <2>6. /\ v3' \in [Workers -> Books!HandlerRecord] /\ v3'[h] = m
        /\ \A g \in Workers : g # h => v3'[g] = v3[g]
    <3>1. t \in [Workers -> Books!HandlerRecord]
      <4>1. t = [v3 EXCEPT ![h] = q]
        BY DEF t
      <4> QED BY <1>0, <2>2, <4>1
    <3> QED BY <2>3, <2>4, <2>5, <3>1
  <2>7. Books!HandlerIsSound(h)'
    BY <1>2, <2>4, <2>6 DEF Books!HandlerIsSound
  <2>8. RunbookTurnIs(h)
    BY <1>1, <2>4, <2>6, RunbookTypes, RunbookHandlerGoes
  <2> DEFINE s == v8[k]
             n == Append(s, r.read)
  <2>9. /\ s \in Seq(1..MaxRepairTime) /\ r.read \in 1..MaxRepairTime /\ v2[k] \in 0..MaxRepairTime
        /\ v2 \in [AlertKeys -> 0..MaxRepairTime] /\ v8 \in [AlertKeys -> Seq(1..MaxRepairTime)]
    BY <1>0, <1>2, RunbookBounds DEF RunbookClaims
  <2>10. /\ n \in Seq(1..MaxRepairTime) /\ Len(n) = Len(s) + 1 /\ n[Len(s) + 1] = r.read /\ Len(s) \in Nat
         /\ n # <<>> /\ DOMAIN n = 1..(Len(s) + 1) /\ DOMAIN s = 1..Len(s)
         /\ \A i \in 1..Len(s) : n[i] = s[i] /\ s[i] \in 1..MaxRepairTime
    <3> DEFINE x == r.read
    <3>0. n = Append(s, x) /\ s \in Seq(1..MaxRepairTime) /\ x \in 1..MaxRepairTime
      BY <2>9
    <3> HIDE DEF s, n, x
    <3>1. n \in Seq(1..MaxRepairTime) /\ Len(n) = Len(s) + 1 /\ n[Len(s) + 1] = x /\ n # <<>>
          /\ \A i \in 1..Len(s) : n[i] = s[i]
      BY <3>0, RunbookAppendedAt
    <3>2. Len(s) \in Nat /\ DOMAIN s = 1..Len(s) /\ DOMAIN n = 1..Len(n)
      BY <3>0, <3>1, LenProperties
    <3>3. \A i \in 1..Len(s) : s[i] \in 1..MaxRepairTime
      BY <3>0, <3>2, ElementOfSeq
    <3> QED BY <3>1, <3>2, <3>3 DEF x
  <2>11. v2[k] = IF s = <<>> THEN 0 ELSE s[Len(s)]
    BY <1>0 DEF RunbookClaims, Books!ClaimIsLast
  <2>12. \A i, j \in 1..Len(s) : i < j => s[j] >= s[i] + RepairWindow
    BY <1>0, <2>10 DEF RunbookClaims, Books!AsksAreSpaced
  <2>13. ~(v2[k] > 0 /\ r.read < v2[k] + RepairWindow)
    BY <1>4 DEF Books!Throttled
  <2>14. \A i \in 1..Len(s) : r.read >= s[i] + RepairWindow
    <3> SUFFICES ASSUME NEW i \in 1..Len(s) PROVE r.read >= s[i] + RepairWindow
      OBVIOUS
    <3>1. s # <<>> /\ Len(s) \in 1..Len(s)
      BY <2>10, EmptySeq
    <3>2. v2[k] = s[Len(s)] /\ s[Len(s)] > 0 /\ s[Len(s)] \in 1..MaxRepairTime /\ s[i] \in 1..MaxRepairTime
      BY <2>10, <2>11, <3>1, RunbookBounds
    <3>3. r.read >= s[Len(s)] + RepairWindow
      <4> DEFINE a == r.read
                 b == s[Len(s)]
                 c == v2[k]
      <4>1. /\ a \in Int /\ b \in Int /\ c = b /\ b > 0 /\ RepairWindow \in Int
            /\ ~(c > 0 /\ a < c + RepairWindow)
        BY <2>9, <2>13, <3>2, RunbookBounds
      <4> HIDE DEF a, b, c
      <4>2. a >= b + RepairWindow
        BY ONLY <4>1
      <4> QED BY <4>2 DEF a, b
    <3>4. i = Len(s) \/ s[Len(s)] >= s[i] + RepairWindow
      BY <2>10, <2>12, <3>1
    <3> DEFINE a == r.read
               b == s[Len(s)]
               c == s[i]
    <3>5. a \in Int /\ b \in Int /\ c \in Int /\ RepairWindow \in Nat /\ a >= b + RepairWindow
          /\ (b = c \/ b >= c + RepairWindow)
      BY <2>9, <3>2, <3>3, <3>4, RunbookBounds
    <3> HIDE DEF a, b, c
    <3>6. a >= c + RepairWindow
      BY ONLY <3>5
    <3> QED BY <3>6 DEF a, c
  <2> HIDE DEF s, n
  <2>15. \A i, j \in DOMAIN n : i < j => n[j] >= n[i] + RepairWindow
    <3> SUFFICES ASSUME NEW i \in 1..(Len(s) + 1), NEW j \in 1..(Len(s) + 1), i < j
                 PROVE  n[j] >= n[i] + RepairWindow
      BY <2>10
    <3>1. i \in 1..Len(s) /\ (j \in 1..Len(s) \/ j = Len(s) + 1)
      BY <2>10
    <3> QED BY <2>10, <2>12, <2>14, <3>1
  <2>16. v8' = [v8 EXCEPT ![k] = n] /\ v8[k] = s
    BY <2>1, <2>9 DEF n, s
  <2>17. \A x \in AlertKeys : /\ v8'[x] = IF x = k THEN n ELSE v8[x]
                             /\ v2'[x] = IF x = k THEN r.read ELSE v2[x]
    BY <1>0, <2>1, <2>9, <2>16
  <2> HIDE DEF k
  <2>18. Books!AsksAreSpaced'
    BY <1>0, <2>15, <2>17 DEF RunbookClaims, Books!AsksAreSpaced
  <2>19. Books!ClaimIsLast'
    BY <1>0, <2>10, <2>17 DEF RunbookClaims, Books!ClaimIsLast
  <2>20. /\ v8' \in [AlertKeys -> Seq(1..MaxRepairTime)] /\ v2' \in [AlertKeys -> 0..MaxRepairTime]
         /\ v7' \in Nat
    BY <1>0, <2>1, <2>2, <2>9, <2>10, <2>16
  <2>21. RunbookClaims'
    BY <2>18, <2>19, <2>20 DEF RunbookClaims
  <2> QED BY <2>7, <2>8, <2>21, RunbookTurn
<1> QED BY <1>3, <1>4

LEMMA RunbookStartsInv ==
  ASSUME Books!RunbookInv, NEW h \in Workers, NEW k \in AlertKeys,
         Books!AlertFires(h, k) \/ Books!HandleManual(h, k) \/ Books!ReadClock(h) \/ Books!ProposeFails(h)
  PROVE  Books!RunbookInv'
<1>0. /\ v3 \in [Workers -> Books!HandlerRecord] /\ RunbookClaims /\ v1 \in 1..MaxRepairTime
      /\ v9 \in 0..MaxRepairEvents
      /\ v10 \in 0..MaxRepairRestarts /\ v7 \in Nat
  BY RunbookTypes DEF RunbookClaims
<1>1. CASE Books!AlertFires(h, k)
  <2> DEFINE r == [Books!Resting EXCEPT !.at = "starting", !.key = k]
  <2>1. /\ v3[h].at = "idle" /\ v9 > 0 /\ v9' = v9 - 1 /\ v3' = [v3 EXCEPT ![h] = r]
        /\ UNCHANGED <<v1, v2, v8, v7, v4, v5, v6, v10>>
    BY <1>1 DEF Books!AlertFires, Books!claims, Books!queue
  <2>2. r \in Books!HandlerRecord /\ r.at = "starting" /\ r.left = {} /\ r.steps = {}
    BY RunbookRestingIsHandler DEF Books!HandlerRecord
  <2> HIDE DEF r
  <2>3. /\ v3' \in [Workers -> Books!HandlerRecord] /\ v3'[h] = r
        /\ \A g \in Workers : g # h => v3'[g] = v3[g]
    BY <1>0, <2>1, <2>2
  <2>4. Books!HandlerIsSound(h)'
    BY <2>2, <2>3 DEF Books!HandlerIsSound
  <2>5. v9' \in 0..MaxRepairEvents
    BY <1>0, <2>1, RunbookBounds
  <2>6. RunbookTurnIs(h)
    BY <1>0, <2>1, <2>2, <2>3, <2>5, RunbookHandlerGoes
  <2> QED BY <2>1, <2>4, <2>6, RunbookClaimsStay, RunbookTurn
<1>2. CASE Books!HandleManual(h, k)
  <2> DEFINE r == [Books!Resting EXCEPT !.at = "proposing", !.key = k, !.run = v7 + 1]
  <2>1. /\ v3[h].at = "idle" /\ v9 > 0 /\ v9' = v9 - 1 /\ v7' = v7 + 1
        /\ v3' = [v3 EXCEPT ![h] = r]
        /\ UNCHANGED <<v1, v2, v8, v4, v5, v6, v10>>
    BY <1>2 DEF Books!HandleManual, Books!queue
  <2>2. r \in Books!HandlerRecord /\ r.at = "proposing" /\ r.left = {} /\ r.steps = {}
    <3> DEFINE q == [Books!Resting EXCEPT !.at = "proposing", !.key = k]
               n == v7 + 1
    <3>1. n \in Nat
      BY <1>0
    <3>2. r = [q EXCEPT !.run = n]
      OBVIOUS
    <3>3. q \in Books!HandlerRecord /\ q.at = "proposing" /\ q.left = {} /\ q.steps = {}
      BY RunbookRestingIsHandler DEF Books!HandlerRecord
    <3> HIDE DEF q, r, n
    <3> QED BY <3>1, <3>2, <3>3 DEF Books!HandlerRecord
  <2> HIDE DEF r
  <2>3. /\ v3' \in [Workers -> Books!HandlerRecord] /\ v3'[h] = r
        /\ \A g \in Workers : g # h => v3'[g] = v3[g]
    BY <1>0, <2>1, <2>2
  <2>4. Books!HandlerIsSound(h)'
    BY <2>2, <2>3 DEF Books!HandlerIsSound
  <2>5. v9' \in 0..MaxRepairEvents
    BY <1>0, <2>1, RunbookBounds
  <2>6. RunbookTurnIs(h)
    BY <1>0, <2>1, <2>2, <2>3, <2>5, RunbookHandlerGoes
  <2>7. RunbookClaims'
    BY <1>0, <2>1 DEF RunbookClaims, Books!AsksAreSpaced, Books!ClaimIsLast
  <2> QED BY <2>4, <2>6, <2>7, RunbookTurn
<1>3. CASE Books!ReadClock(h)
  <2> DEFINE q == [v3[h] EXCEPT !.at = "claiming"]
             t == [v3 EXCEPT ![h] = q]
             m == [q EXCEPT !.read = v1]
  <2>1. /\ v3[h].at = "starting" /\ v3' = [v3 EXCEPT ![h].at = "claiming", ![h].read = v1]
        /\ UNCHANGED <<v1, v2, v8, v7, v4, v5, v6, v9, v10>>
    BY <1>3 DEF Books!ReadClock, Books!claims, Books!queue, Books!bounds
  <2>2. q \in Books!HandlerRecord /\ q.at = "claiming" /\ q.left = v3[h].left /\ q.steps = v3[h].steps
    BY <1>0 DEF Books!HandlerRecord
  <2>3. v3' = [t EXCEPT ![h].read = v1] /\ t[h] = q /\ DOMAIN t = Workers
        /\ \A g \in Workers : g # h => t[g] = v3[g]
    BY <1>0, <2>1
  <2> HIDE DEF q
  <2>4. m \in Books!HandlerRecord /\ m.at = "claiming" /\ m.left = v3[h].left /\ m.steps = v3[h].steps
        /\ m.read = v1 /\ v1 # 0
    BY <1>0, <2>2, RunbookBounds DEF Books!HandlerRecord
  <2> HIDE DEF t
  <2>5. v3' = [t EXCEPT ![h] = m]
    BY <2>3
  <2> HIDE DEF m
  <2>6. /\ v3' \in [Workers -> Books!HandlerRecord] /\ v3'[h] = m
        /\ \A g \in Workers : g # h => v3'[g] = v3[g]
    BY <1>0, <2>3, <2>4, <2>5
  <2>7. Books!HandlerIsSound(h)'
    <3>1. v3[h].left \subseteq v3[h].steps
      BY DEF Books!RunbookInv, Books!HandlerIsSound
    <3> QED BY <2>4, <2>6, <3>1 DEF Books!HandlerIsSound
  <2>8. RunbookTurnIs(h)
    BY <1>0, <2>1, <2>4, <2>6, RunbookHandlerGoes
  <2> QED BY <2>1, <2>7, <2>8, RunbookClaimsStay, RunbookTurn
<1>4. CASE Books!ProposeFails(h)
  <2>1. /\ v3[h].at = "proposing" /\ v3' = [v3 EXCEPT ![h] = Books!Resting]
        /\ UNCHANGED <<v1, v2, v8, v7, v4, v5, v6, v9, v10>>
    BY <1>4 DEF Books!ProposeFails, Books!claims, Books!queue, Books!bounds
  <2>2. /\ v3' \in [Workers -> Books!HandlerRecord] /\ v3'[h] = Books!Resting
        /\ \A g \in Workers : g # h => v3'[g] = v3[g]
    BY <1>0, <2>1, RunbookRestingIsHandler
  <2>3. Books!HandlerIsSound(h)'
    BY <2>2, RunbookRestingIsHandler DEF Books!HandlerIsSound
  <2>4. RunbookTurnIs(h)
    BY <1>0, <2>1, <2>2, RunbookRestingIsHandler, RunbookHandlerGoes
  <2> QED BY <2>1, <2>3, <2>4, RunbookClaimsStay, RunbookTurn
<1> QED BY <1>1, <1>2, <1>3, <1>4

LEMMA RunbookAnswersInv ==
  ASSUME Books!RunbookInv, NEW h \in Workers, NEW steps \in SUBSET Books!Steps, NEW told \in BOOLEAN,
         Books!ProposeAnswers(h, steps, told)
  PROVE  Books!RunbookInv'
<1> DEFINE at == IF steps = {} THEN "skipping" ELSE "filing"
           high == Books!RiskIsHigh(steps, told)
           q1 == [v3[h] EXCEPT !.at = at]
           q2 == [q1 EXCEPT !.left = steps]
           q3 == [q2 EXCEPT !.steps = steps]
           q4 == [q3 EXCEPT !.high = high]
<1>0. /\ v3 \in [Workers -> Books!HandlerRecord] /\ v1 \in 1..MaxRepairTime /\ v9 \in 0..MaxRepairEvents
      /\ v10 \in 0..MaxRepairRestarts
  BY RunbookTypes
<1>1. /\ v3[h].at = "proposing"
      /\ v3' = [v3 EXCEPT ![h].at = at, ![h].left = steps, ![h].steps = steps, ![h].high = high]
      /\ UNCHANGED <<v1, v2, v8, v7, v4, v5, v6, v9, v10>>
  BY DEF Books!ProposeAnswers, Books!claims, Books!queue, Books!bounds
<1>2. /\ high \in BOOLEAN /\ at \in {"skipping", "filing"} /\ ("script" \in steps => high)
      /\ (at = "skipping" => steps = {})
  BY DEF Books!RiskIsHigh
<1> HIDE DEF at, high
<1>3. q1 \in Books!HandlerRecord /\ q1.at = at
  BY <1>0, <1>2 DEF Books!HandlerRecord
<1> HIDE DEF q1
<1>4. q2 \in Books!HandlerRecord /\ q2.at = at /\ q2.left = steps
  BY <1>3 DEF Books!HandlerRecord
<1> HIDE DEF q2
<1>5. q3 \in Books!HandlerRecord /\ q3.at = at /\ q3.left = steps /\ q3.steps = steps
  BY <1>4 DEF Books!HandlerRecord
<1> HIDE DEF q3
<1>6. /\ q4 \in Books!HandlerRecord /\ q4.at = at /\ q4.left = steps /\ q4.steps = steps
      /\ ("script" \in steps => q4.high)
  BY <1>2, <1>5 DEF Books!HandlerRecord
<1> HIDE DEF q4
<1>7. v3'[h] = q4 /\ DOMAIN v3' = Workers /\ \A g \in Workers : g # h => v3'[g] = v3[g]
  <2> DEFINE f1 == [v3 EXCEPT ![h] = q1]
             f2 == [f1 EXCEPT ![h] = q2]
             f3 == [f2 EXCEPT ![h] = q3]
             f4 == [f3 EXCEPT ![h] = q4]
  <2>1. /\ f1 = [v3 EXCEPT ![h].at = at] /\ f1[h] = q1 /\ DOMAIN f1 = Workers
        /\ \A g \in Workers : g # h => f1[g] = v3[g]
    BY <1>0 DEF q1
  <2> DEFINE e1 == [v3 EXCEPT ![h].at = at]
  <2>2. /\ f2 = [f1 EXCEPT ![h].left = steps] /\ f2[h] = q2 /\ DOMAIN f2 = Workers
        /\ \A g \in Workers : g # h => f2[g] = v3[g]
    <3> HIDE DEF f1
    <3> QED BY <2>1 DEF q2
  <2>3. /\ f3 = [f2 EXCEPT ![h].steps = steps] /\ f3[h] = q3 /\ DOMAIN f3 = Workers
        /\ \A g \in Workers : g # h => f3[g] = v3[g]
    <3> HIDE DEF f2
    <3> QED BY <2>2 DEF q3
  <2>4. /\ f4 = [f3 EXCEPT ![h].high = high] /\ f4[h] = q4 /\ DOMAIN f4 = Workers
        /\ \A g \in Workers : g # h => f4[g] = v3[g]
    <3> HIDE DEF f3
    <3> QED BY <2>3 DEF q4
  <2>5. v3' = [[[[v3 EXCEPT ![h].at = at] EXCEPT ![h].left = steps] EXCEPT ![h].steps = steps] EXCEPT ![h].high = high]
    BY <1>1, Zenon
  <2> HIDE DEF f1, f2, f3, f4
  <2>6. v3' = f4
    BY <2>1, <2>2, <2>3, <2>4, <2>5
  <2> QED BY <2>4, <2>6
<1>8. v3' \in [Workers -> Books!HandlerRecord]
  <2> DEFINE f == [v3 EXCEPT ![h] = q4]
  <2>1. f \in [Workers -> Books!HandlerRecord]
    BY <1>0, <1>6
  <2>2. v3' = f
    BY <1>0, <1>1, <1>7
  <2> QED BY <2>1, <2>2
<1>9. Books!HandlerIsSound(h)'
  BY <1>2, <1>6, <1>7 DEF Books!HandlerIsSound
<1>10. RunbookTurnIs(h)
  BY <1>0, <1>1, <1>6, <1>7, <1>8, RunbookHandlerGoes
<1> QED BY <1>1, <1>9, <1>10, RunbookClaimsStay, RunbookTurn

LEMMA RunbookFilesInv ==
  ASSUME Books!RunbookInv, NEW h \in Workers, NEW s \in Books!Steps, Books!FileStep(h, s)
  PROVE  Books!RunbookInv'
<1> DEFINE made == {<<v3[h].run, s>>} \ {<<v3[h].run, "malformed">>}
           r == [v3[h] EXCEPT !.left = Books!AfterStep(h, s)]
<1>0. /\ v3 \in [Workers -> Books!HandlerRecord] /\ v3[h] \in Books!HandlerRecord /\ v3[h].run \in Nat
      /\ v1 \in 1..MaxRepairTime /\ v9 \in 0..MaxRepairEvents
      /\ v10 \in 0..MaxRepairRestarts /\ v4 \subseteq Nat \X Books!Steps /\ v6 \subseteq Nat
      /\ v5 \subseteq RunbookRecord
  BY RunbookTypes DEF Books!HandlerRecord
<1>1. /\ v3[h].at = "filing" /\ s \in v3[h].left /\ v4' = v4 \cup made
      /\ v3' = [v3 EXCEPT ![h] = r]
      /\ UNCHANGED <<v1, v2, v8, v7, v5, v6, v9, v10>>
  BY <1>0 DEF Books!FileStep, Books!claims, Books!bounds
<1>2. r \in Books!HandlerRecord /\ r.at = "filing" /\ r.left = v3[h].left \ {s} /\ r.steps = v3[h].steps
      /\ r.run = v3[h].run /\ r.high = v3[h].high
  BY <1>0, <1>1 DEF Books!HandlerRecord, Books!AfterStep
<1>3. /\ v3[h].left \subseteq v3[h].steps /\ ("script" \in v3[h].steps => v3[h].high)
      /\ \A x \in v3[h].steps \ v3[h].left : x # "malformed" => <<v3[h].run, x>> \in v4
  BY <1>1 DEF Books!RunbookInv, Books!HandlerIsSound
<1>4. made \subseteq Nat \X Books!Steps /\ \A c \in made : c[1] = v3[h].run /\ c[2] = s
  BY <1>0
<1>5. s # "malformed" => <<v3[h].run, s>> \in made
  OBVIOUS
<1> HIDE DEF made, r
<1>6. /\ v3' \in [Workers -> Books!HandlerRecord] /\ v3'[h] = r
      /\ \A g \in Workers : g # h => v3'[g] = v3[g]
  BY <1>0, <1>1, <1>2
<1>7. Books!HandlerIsSound(h)'
  <2>1. \A x \in r.steps \ r.left : x # "malformed" => <<r.run, x>> \in v4'
    BY <1>1, <1>2, <1>3, <1>5
  <2>2. "script" \in r.steps => r.high
    BY <1>2, <1>3
  <2> QED BY <1>2, <1>3, <1>6, <2>1, <2>2 DEF Books!HandlerIsSound
<1>8. RunbookTurnIs(h)
  <2>1. v4 \subseteq v4' /\ v4' \subseteq Nat \X Books!Steps
    BY <1>0, <1>1, <1>4
  <2>2. \A c \in v4' : c \in v4 \/ /\ c[1] = v3'[h].run /\ v3'[h].at = "filing"
                                   /\ c[2] \in v3'[h].steps
    BY <1>1, <1>2, <1>3, <1>4, <1>6
  <2> QED BY <1>0, <1>1, <1>2, <1>6, <2>1, <2>2 DEF RunbookTurnIs
<1> QED BY <1>1, <1>7, <1>8, RunbookClaimsStay, RunbookTurn

LEMMA RunbookStoresInv ==
  ASSUME Books!RunbookInv, NEW h \in Workers,
         Books!StoreSkipped(h) \/ Books!StoreRunbook(h) \/ Books!PublishRunbook(h)
  PROVE  Books!RunbookInv'
<1>0. /\ v3 \in [Workers -> Books!HandlerRecord] /\ v3[h] \in Books!HandlerRecord /\ v3[h].run \in Nat
      /\ v1 \in 1..MaxRepairTime /\ v9 \in 0..MaxRepairEvents
      /\ v10 \in 0..MaxRepairRestarts /\ v4 \subseteq Nat \X Books!Steps /\ v6 \subseteq Nat
      /\ v5 \subseteq RunbookRecord
  BY RunbookTypes DEF Books!HandlerRecord
<1>1. Books!HandlerIsSound(h)
  BY DEF Books!RunbookInv
<1> DEFINE b == Books!Stored(h)
<1>2. b \in RunbookRecord /\ b.run = v3[h].run /\ b.steps = v3[h].steps /\ b.high = v3[h].high
  BY <1>0 DEF Books!Stored, RunbookRecord, Books!HandlerRecord
<1>3. CASE Books!StoreSkipped(h)
  <2>1. /\ v3[h].at = "skipping" /\ v5' = v5 \cup {b} /\ v3' = [v3 EXCEPT ![h] = Books!Resting]
        /\ UNCHANGED <<v1, v2, v8, v7, v4, v6, v9, v10>>
    BY <1>3 DEF Books!StoreSkipped, Books!claims, Books!bounds
  <2>2. /\ v3' \in [Workers -> Books!HandlerRecord] /\ v3'[h] = Books!Resting
        /\ \A g \in Workers : g # h => v3'[g] = v3[g]
    BY <1>0, <2>1, RunbookRestingIsHandler
  <2>3. Books!HandlerIsSound(h)'
    BY <2>2, RunbookRestingIsHandler DEF Books!HandlerIsSound
  <2>4. b.steps = {}
    BY <1>1, <1>2, <2>1 DEF Books!HandlerIsSound
  <2> HIDE DEF b
  <2>5. RunbookTurnIs(h)
    BY <1>0, <1>2, <2>1, <2>2, <2>4 DEF RunbookTurnIs
  <2> QED BY <2>1, <2>3, <2>5, RunbookClaimsStay, RunbookTurn
<1>4. CASE Books!StoreRunbook(h)
  <2> DEFINE r == [v3[h] EXCEPT !.at = "stored"]
  <2>1. /\ v3[h].at = "filing" /\ v3[h].left = {} /\ v5' = v5 \cup {b}
        /\ v3' = [v3 EXCEPT ![h] = r]
        /\ UNCHANGED <<v1, v2, v8, v7, v4, v6, v9, v10>>
    BY <1>0, <1>4 DEF Books!StoreRunbook, Books!claims, Books!bounds
  <2>2. r \in Books!HandlerRecord /\ r.at = "stored" /\ r.left = v3[h].left /\ r.steps = v3[h].steps
        /\ r.run = v3[h].run
    BY <1>0 DEF Books!HandlerRecord
  <2> HIDE DEF r
  <2>3. /\ v3' \in [Workers -> Books!HandlerRecord] /\ v3'[h] = r
        /\ \A g \in Workers : g # h => v3'[g] = v3[g]
    BY <1>0, <2>1, <2>2
  <2>4. /\ ("script" \in v3[h].steps => v3[h].high)
        /\ \A x \in v3[h].steps : x # "malformed" => <<v3[h].run, x>> \in v4
    BY <1>1, <2>1 DEF Books!HandlerIsSound
  <2>5. Books!HandlerIsSound(h)'
    BY <1>2, <2>1, <2>2, <2>3 DEF Books!HandlerIsSound
  <2>6. /\ ("script" \in b.steps => b.high)
        /\ \A s \in Books!Steps \ {"malformed"} : s \in b.steps => <<b.run, s>> \in v4'
    BY <1>2, <2>1, <2>4
  <2> HIDE DEF b
  <2>7. RunbookTurnIs(h)
    BY <1>0, <1>2, <2>1, <2>2, <2>3, <2>6 DEF RunbookTurnIs
  <2> QED BY <2>1, <2>5, <2>7, RunbookClaimsStay, RunbookTurn
<1>5. CASE Books!PublishRunbook(h)
  <2>1. /\ v3[h].at = "stored" /\ v6' = v6 \cup {v3[h].run}
        /\ v3' = [v3 EXCEPT ![h] = Books!Resting]
        /\ UNCHANGED <<v1, v2, v8, v7, v4, v5, v9, v10>>
    BY <1>5 DEF Books!PublishRunbook, Books!claims, Books!bounds
  <2>2. /\ v3' \in [Workers -> Books!HandlerRecord] /\ v3'[h] = Books!Resting
        /\ \A g \in Workers : g # h => v3'[g] = v3[g]
    BY <1>0, <2>1, RunbookRestingIsHandler
  <2>3. Books!HandlerIsSound(h)'
    BY <2>2, RunbookRestingIsHandler DEF Books!HandlerIsSound
  <2>4. \E x \in v5 : x.run = v3[h].run
    BY <1>1, <2>1 DEF Books!HandlerIsSound
  <2>5. RunbookTurnIs(h)
    BY <1>0, <2>1, <2>2, <2>4 DEF RunbookTurnIs
  <2> QED BY <2>1, <2>3, <2>5, RunbookClaimsStay, RunbookTurn
<1> QED BY <1>3, <1>4, <1>5

LEMMA RunbookRestartInv == Books!RunbookInv /\ Books!Restart => Books!RunbookInv'
<1> SUFFICES ASSUME Books!RunbookInv, Books!Restart PROVE Books!RunbookInv'
  OBVIOUS
<1>1. /\ v10 < MaxRepairRestarts /\ v10' = v10 + 1
      /\ v2' = [k \in AlertKeys |-> 0] /\ v8' = [k \in AlertKeys |-> <<>>] /\ v7' = 0
      /\ v3' = [h \in Workers |-> Books!Resting] /\ v4' = {} /\ v5' = {} /\ v6' = {}
      /\ UNCHANGED <<v1, v9>>
  BY DEF Books!Restart
<1>2. \A k \in AlertKeys : v8'[k] = <<>>
  BY <1>1
<1>3. \A h \in Workers : v3'[h] = Books!Resting
  BY <1>1
<1>4. Books!RunbookTypeOK'
  BY <1>1, RunbookRestingIsHandler, RunbookTypes, RunbookBounds DEF Books!RunbookTypeOK
<1>5. Books!AsksAreSpaced' /\ Books!ClaimIsLast'
  BY <1>1, <1>2, RunbookNoPlaces DEF Books!AsksAreSpaced, Books!ClaimIsLast
<1>6. Books!CardsHaveARunbook' /\ Books!CardsAreExplained'
  BY <1>1 DEF Books!CardsHaveARunbook, Books!CardsAreExplained
<1>7. \A h \in Workers : Books!HandlerIsSound(h)'
  BY <1>3, RunbookRestingIsHandler DEF Books!HandlerIsSound
<1> QED BY <1>4, <1>5, <1>6, <1>7 DEF Books!RunbookInv

LEMMA RunbookTicksInv == Books!RunbookInv /\ Books!Ticks => Books!RunbookInv'
<1> SUFFICES ASSUME Books!RunbookInv, Books!Ticks PROVE Books!RunbookInv'
  OBVIOUS
<1>1. /\ v1 < MaxRepairTime /\ v1' = v1 + 1
      /\ UNCHANGED <<v2, v8, v7, v3, v4, v5, v6, v9, v10>>
  BY DEF Books!Ticks, Books!claims, Books!queue, Books!bounds
<1>2. v1' \in 1..MaxRepairTime
  BY <1>1, RunbookTypes, RunbookBounds
<1>3. Books!RunbookTypeOK'
  BY <1>1, <1>2 DEF Books!RunbookInv, Books!RunbookTypeOK
<1>4. Books!AsksAreSpaced' /\ Books!ClaimIsLast' /\ Books!CardsHaveARunbook' /\ Books!CardsAreExplained'
  BY <1>1 DEF Books!RunbookInv, Books!AsksAreSpaced, Books!ClaimIsLast, Books!CardsHaveARunbook,
     Books!CardsAreExplained
<1>5. \A h \in Workers : Books!HandlerIsSound(h)'
  BY <1>1 DEF Books!RunbookInv, Books!HandlerIsSound
<1> QED BY <1>3, <1>4, <1>5 DEF Books!RunbookInv

LEMMA RunbookNextInv == Books!RunbookInv /\ Books!RunbookNext => Books!RunbookInv'
<1> SUFFICES ASSUME Books!RunbookInv, Books!RunbookNext PROVE Books!RunbookInv'
  OBVIOUS
<1>1. ASSUME NEW h \in Workers, Books!ReadClock(h) \/ Books!ProposeFails(h) PROVE Books!RunbookInv'
  <2>1. \E k \in AlertKeys : TRUE
    BY RunbookBounds
  <2> QED BY <1>1, <2>1, RunbookStartsInv
<1>2. ASSUME NEW h \in Workers, NEW k \in AlertKeys,
             Books!AlertFires(h, k) \/ Books!HandleManual(h, k)
      PROVE  Books!RunbookInv'
  BY <1>2, RunbookStartsInv
<1> QED BY <1>1, <1>2, RunbookTryClaimInv, RunbookAnswersInv, RunbookFilesInv, RunbookStoresInv,
           RunbookRestartInv, RunbookTicksInv DEF Books!RunbookNext

LEMMA RunbookInvProps == Books!RunbookInv => Books!AsksAreSpaced /\ Books!CardsHaveARunbook
BY DEF Books!RunbookInv

LEMMA RunbookStutters == Books!RunbookInv /\ UNCHANGED shared => Books!RunbookInv'
BY DEF shared, Books!AsksAreSpaced, Books!CardsAreExplained, Books!CardsHaveARunbook, Books!ClaimIsLast,
   Books!HandlerIsSound, Books!HandlerRecord, Books!RunbookInv, Books!RunbookTypeOK

-----------------------------------------------------------------------------
(***************************************************************************)
(* PushDelivery, as Push: v1 subs, v2 fanout, v3 registered, v4            *)
(* uninstalled, v5 prefs, v6 failures, v7 events.                          *)
(* What a round still owes is on the list it goes through, or was never    *)
(* there.                                                                  *)
(***************************************************************************)

LEMMA PushBounds == MaxPushes \in Nat /\ IsFiniteSet(Items)
BY ServerBoundsAssumption

\* What is still owed by a round that has its list.
PushListed(f) == \A d \in f.due : \/ \E i \in DOMAIN f.list : f.list[i] = d
                                  \/ d \in v4 \ v3
PushFanoutIsSound(f) ==
  /\ f.at = "listing" => f.due \subseteq v3 \cup v4
  /\ f.at \in {"sending", "pruning"} => PushListed(f)
  /\ f.at = "pruning" => f.list # <<>> /\ Head(f.list) \in v4

\* FiniteSets counts alike inside the component.
LEMMA PushCounts == \A S : Push!Cardinality(S) = Cardinality(S)
BY DEF Push!Cardinality, Cardinality

LEMMA PushFanoutMeans == ASSUME NEW p PROVE Push!DueIsListed(p) <=> PushFanoutIsSound(v2[p])
BY DEF Push!DueIsListed, PushFanoutIsSound, PushListed

LEMMA PushTypes ==
  ASSUME Push!PushInv
  PROVE  /\ v1 \subseteq {"other", "push"} /\ v7 \in 0..MaxPushes
         /\ v2 \in [Workers -> Push!FanoutRecord]
         /\ v3 \subseteq Items /\ v4 \subseteq Items
         /\ v5 \in [Push!Kinds -> {"on", "off", "default"}] /\ v6 = {}
         /\ \A p \in Workers : PushFanoutIsSound(v2[p])
BY PushFanoutMeans DEF Push!PushInv, Push!PushTypeOK, Push!PhonesAreTold

LEMMA PushSilentIsFanout ==
  /\ Push!Silent \in Push!FanoutRecord /\ Push!Silent.at = "idle" /\ Push!Silent.due = {}
  /\ Push!Silent.list = <<>>
BY EmptySeq DEF Push!Silent, Push!FanoutRecord, Push!Kinds

LEMMA PushInitInv == Push!PushInit => Push!PushInv
<1> SUFFICES ASSUME Push!PushInit PROVE Push!PushInv
  OBVIOUS
<1>1. /\ v1 = {"other"} /\ v2 = [p \in Workers |-> Push!Silent] /\ v3 = Items /\ v4 = {}
      /\ v5 = [k \in Push!Kinds |-> "default"] /\ v6 = {} /\ v7 = MaxPushes
  BY DEF Push!PushInit
<1>2. Push!PushTypeOK
  BY <1>1, PushSilentIsFanout, PushBounds DEF Push!PushTypeOK
<1>3. \A p \in Workers : v2[p].at = "idle"
  BY <1>1, PushSilentIsFanout
<1>4. \A p \in Workers : Push!DueIsListed(p)
  BY <1>3 DEF Push!DueIsListed
<1> QED BY <1>1, <1>2, <1>4 DEF Push!PushInv, Push!PhonesAreTold

\* One publisher goes on with the record r.
PushRound(p, r) ==
  /\ v1' \subseteq {"other", "push"} /\ v7' \in 0..MaxPushes
  /\ r \in Push!FanoutRecord /\ v2' = [v2 EXCEPT ![p] = r]
  /\ v3' \subseteq v3 /\ v3 \ v3' \subseteq v4
  /\ UNCHANGED <<v4, v5>>
  /\ v6' = {}
  /\ PushFanoutIsSound(r)'

LEMMA PushRoundInv ==
  ASSUME Push!PushInv, NEW p \in Workers, NEW r, PushRound(p, r)
  PROVE  Push!PushInv'
<1> USE DEF PushRound
<1>1. /\ v2 \in [Workers -> Push!FanoutRecord] /\ v3 \subseteq Items /\ v4 \subseteq Items
      /\ v5 \in [Push!Kinds -> {"on", "off", "default"}]
      /\ \A q \in Workers : PushFanoutIsSound(v2[q])
  BY PushTypes
<1>2. v2' \in [Workers -> Push!FanoutRecord] /\ v2'[p] = r /\ \A q \in Workers : q # p => v2'[q] = v2[q]
  BY <1>1
<1>3. Push!PushTypeOK'
  BY <1>1, <1>2 DEF Push!PushTypeOK
<1>4. ASSUME NEW q \in Workers PROVE Push!DueIsListed(q)'
  <2>1. CASE q = p
    <3>1. v2'[q] = r
      BY <1>2, <2>1
    <3>2. PushFanoutIsSound(r)'
      OBVIOUS
    <3> QED BY <3>1, <3>2 DEF Push!DueIsListed, PushFanoutIsSound, PushListed
  <2>2. CASE q # p
    <3>1. v2'[q] = v2[q] /\ PushFanoutIsSound(v2[q])
      BY <1>1, <1>2, <2>2
    <3> QED BY <3>1 DEF Push!DueIsListed, PushFanoutIsSound, PushListed
  <2> QED BY <2>1, <2>2
<1> QED BY <1>3, <1>4 DEF Push!PushInv, Push!PhonesAreTold

LEMMA PushTailKeeps ==
  ASSUME NEW S, NEW q \in Seq(S), q # <<>>, NEW d, \E i \in DOMAIN q : q[i] = d, d # Head(q)
  PROVE  \E i \in DOMAIN Tail(q) : Tail(q)[i] = d
<1>1. PICK i \in DOMAIN q : q[i] = d
  OBVIOUS
<1>2. /\ Len(q) \in Nat /\ DOMAIN q = 1..Len(q) /\ Len(q) > 0
  BY LenProperties, EmptySeq
<1>3. Tail(q) \in Seq(S) /\ Len(Tail(q)) = Len(q) - 1 /\ \A j \in 1..Len(Tail(q)) : Tail(q)[j] = q[j + 1]
  BY HeadTailProperties
<1>4. DOMAIN Tail(q) = 1..(Len(q) - 1)
  BY <1>3, LenProperties
<1>5. Head(q) = q[1]
  BY <1>2
<1>6. i \in 1..Len(q) /\ i # 1
  BY <1>1, <1>2, <1>5
<1>7. i - 1 \in 1..(Len(q) - 1) /\ (i - 1) + 1 = i
  BY <1>2, <1>6
<1>8. Tail(q)[i - 1] = q[(i - 1) + 1]
  BY <1>2, <1>3, <1>7
<1> QED BY <1>1, <1>4, <1>7, <1>8

LEMMA PushToldKeeps ==
  ASSUME Push!PushInv, NEW p \in Workers, v2[p].at \in {"sending", "pruning"}, v2[p].list # <<>>
  PROVE  /\ Push!Told(v2[p]) \in Push!FanoutRecord /\ Push!Told(v2[p]).at = v2[p].at
         /\ Push!Told(v2[p]).due = v2[p].due \ {Head(v2[p].list)}
         /\ PushListed(Push!Told(v2[p])) /\ Head(v2[p].list) \in Items
         /\ Push!Told(v2[p]).list = Tail(v2[p].list)
<1> DEFINE f == v2[p]
<1>1. f \in Push!FanoutRecord /\ PushFanoutIsSound(f)
  BY PushTypes
<1>2. PushListed(f) /\ f.at \in {"sending", "pruning"} /\ f.list # <<>>
  BY <1>1 DEF PushFanoutIsSound
<1> HIDE DEF f
<1> DEFINE l == f.list
           u == f.due \ {Head(l)}
           q == [f EXCEPT !.list = Tail(l)]
           g == [q EXCEPT !.due = u]
<1>3. l \in Seq(Items) /\ f.due \in SUBSET Items
  BY <1>1 DEF Push!FanoutRecord
<1>4. Tail(l) \in Seq(Items) /\ Head(l) \in Items
  BY <1>2, <1>3, HeadTailProperties
<1>5. Push!Told(f) = g
  BY DEF Push!Told
<1>6. q \in Push!FanoutRecord /\ q.at = f.at /\ q.list = Tail(l) /\ q.due = f.due
  BY <1>1, <1>4 DEF Push!FanoutRecord
<1>7. u \in SUBSET Items
  BY <1>3
<1> HIDE DEF q, u
<1>8. g \in Push!FanoutRecord /\ g.at = f.at /\ g.list = Tail(l) /\ g.due = u
  BY <1>6, <1>7 DEF Push!FanoutRecord
<1> HIDE DEF g, l
<1>9. PushListed(g)
  <2> SUFFICES ASSUME NEW d \in u
               PROVE  (\E i \in DOMAIN Tail(l) : Tail(l)[i] = d) \/ d \in v4 \ v3
    BY <1>8 DEF PushListed
  <2>1. d \in f.due /\ d # Head(l)
    BY DEF u
  <2>2. (\E i \in DOMAIN l : l[i] = d) \/ d \in v4 \ v3
    BY <1>2, <2>1 DEF PushListed, l
  <2>3. l # <<>>
    BY <1>2 DEF l
  <2> QED BY <1>3, <2>1, <2>2, <2>3, PushTailKeeps
<1> QED BY <1>4, <1>5, <1>8, <1>9 DEF f, l, u

LEMMA PushCallsInv ==
  ASSUME Push!PushInv, NEW p \in Workers,
         (\E kind \in Push!Kinds : Push!Publish(p, kind)) \/ Push!CallOther(p) \/ Push!FanoutEnds(p)
  PROVE  Push!PushInv'
<1>0. /\ v1 \subseteq {"other", "push"} /\ v7 \in 0..MaxPushes /\ v2 \in [Workers -> Push!FanoutRecord]
      /\ v6 = {} /\ v2[p] \in Push!FanoutRecord
  BY PushTypes
<1>1. CASE \E kind \in Push!Kinds : Push!Publish(p, kind)
  <2>1. PICK kind \in Push!Kinds : Push!Publish(p, kind)
    BY <1>1
  <2> DEFINE a == [Push!Silent EXCEPT !.at = "calling"]
             b == [a EXCEPT !.note = kind]
             r == [b EXCEPT !.left = v1]
  <2>2. /\ v7 > 0 /\ v7' = v7 - 1 /\ v2' = [v2 EXCEPT ![p] = r]
        /\ UNCHANGED <<v1, v3, v4, v5, v6>>
    BY <2>1 DEF Push!Publish, Push!phoneVars
  <2>3. a \in Push!FanoutRecord /\ a.at = "calling"
    BY PushSilentIsFanout DEF Push!FanoutRecord
  <2> HIDE DEF a
  <2>4. b \in Push!FanoutRecord /\ b.at = "calling"
    BY <2>3 DEF Push!FanoutRecord
  <2> HIDE DEF b
  <2>5. r \in Push!FanoutRecord /\ r.at = "calling"
    BY <1>0, <2>4 DEF Push!FanoutRecord
  <2> HIDE DEF r
  <2>6. v7' \in 0..MaxPushes
    BY <1>0, <2>2, PushBounds
  <2>20. PICK g : g = r
    OBVIOUS
  <2>7. PushFanoutIsSound(g)'
    BY <2>5, <2>20 DEF PushFanoutIsSound
  <2>8. PushRound(p, g)
    BY <1>0, <2>2, <2>5, <2>6, <2>7, <2>20 DEF PushRound
  <2> QED BY <2>8, PushRoundInv
<1>2. CASE Push!CallOther(p)
  <2> DEFINE r == [v2[p] EXCEPT !.left = @ \ {"other"}]
  <2>1. /\ v2[p].at = "calling" /\ v2' = [v2 EXCEPT ![p] = r]
        /\ UNCHANGED <<v1, v3, v4, v5, v6, v7>>
    BY <1>0, <1>2 DEF Push!CallOther, Push!phoneVars
  <2>2. r \in Push!FanoutRecord /\ r.at = "calling"
    BY <1>0, <2>1 DEF Push!FanoutRecord
  <2> HIDE DEF r
  <2>20. PICK g : g = r
    OBVIOUS
  <2>3. PushFanoutIsSound(g)'
    BY <2>2, <2>20 DEF PushFanoutIsSound
  <2>4. PushRound(p, g)
    BY <1>0, <2>1, <2>2, <2>3, <2>20 DEF PushRound
  <2> QED BY <2>4, PushRoundInv
<1>3. CASE Push!FanoutEnds(p)
  <2>1. /\ v2' = [v2 EXCEPT ![p] = Push!Silent]
        /\ UNCHANGED <<v1, v3, v4, v5, v6, v7>>
    BY <1>3 DEF Push!FanoutEnds, Push!phoneVars
  <2>2. PushFanoutIsSound(Push!Silent)'
    BY PushSilentIsFanout DEF PushFanoutIsSound
  <2>20. PICK g : g = Push!Silent
    OBVIOUS
  <2>3. PushRound(p, g)
    BY <1>0, <2>1, <2>2, <2>20, PushSilentIsFanout DEF PushRound
  <2> QED BY <2>3, PushRoundInv
<1> QED BY <1>1, <1>2, <1>3

LEMMA PushListsInv ==
  ASSUME Push!PushInv, NEW p \in Workers, Push!ListPrefs(p) \/ Push!ListDevices(p) \/ Push!ListFails(p)
  PROVE  Push!PushInv'
<1>0. /\ v1 \subseteq {"other", "push"} /\ v7 \in 0..MaxPushes /\ v2 \in [Workers -> Push!FanoutRecord]
      /\ v6 = {} /\ v2[p] \in Push!FanoutRecord /\ v3 \subseteq Items /\ PushFanoutIsSound(v2[p])
  BY PushTypes
<1>1. CASE Push!ListPrefs(p)
  <2> DEFINE at == IF Push!Eligible(v2[p].note) THEN "listing" ELSE "calling"
             due == IF Push!Eligible(v2[p].note) THEN v3 ELSE {}
             r1 == [v2[p] EXCEPT !.left = @ \ {"push"}]
             r2 == [r1 EXCEPT !.at = at]
             r3 == [r2 EXCEPT !.due = due]
  <2>1. /\ v2' = [v2 EXCEPT ![p].left = @ \ {"push"}, ![p].at = at, ![p].due = due]
        /\ UNCHANGED <<v1, v3, v4, v5, v6, v7>>
    BY <1>1 DEF Push!ListPrefs, Push!phoneVars
  <2>2. at \in {"listing", "calling"} /\ due \subseteq v3 /\ due \in SUBSET Items
    BY <1>0
  <2> HIDE DEF at, due
  <2>3. v2' = [v2 EXCEPT ![p] = r3]
    BY <1>0, <2>1
  <2>4. r1 \in Push!FanoutRecord
    BY <1>0 DEF Push!FanoutRecord
  <2> HIDE DEF r1
  <2>5. r2 \in Push!FanoutRecord /\ r2.at = at
    BY <2>2, <2>4 DEF Push!FanoutRecord
  <2> HIDE DEF r2
  <2>6. r3 \in Push!FanoutRecord /\ r3.at = at /\ r3.due = due
    BY <2>2, <2>5 DEF Push!FanoutRecord
  <2> HIDE DEF r3
  <2>20. PICK g : g = r3
    OBVIOUS
  <2>7. PushFanoutIsSound(g)'
    BY <2>1, <2>2, <2>6, <2>20 DEF PushFanoutIsSound
  <2>8. PushRound(p, g)
    BY <1>0, <2>1, <2>3, <2>6, <2>7, <2>20 DEF PushRound
  <2> QED BY <2>8, PushRoundInv
<1>2. CASE Push!ListDevices(p)
  <2>1. PICK order \in [1..Cardinality(v3) -> v3] :
          /\ {order[i] : i \in DOMAIN order} = v3
          /\ v2' = [v2 EXCEPT ![p].at = "sending", ![p].list = order]
    BY <1>2, PushCounts DEF Push!ListDevices
  <2>2. v2[p].at = "listing" /\ UNCHANGED <<v1, v3, v4, v5, v6, v7>>
    BY <1>2 DEF Push!ListDevices, Push!phoneVars
  <2>3. Cardinality(v3) \in Nat
    BY <1>0, PushBounds, FS_Subset, FS_CardinalityType
  <2>4. order \in Seq(Items) /\ \A d \in v3 : \E i \in DOMAIN order : order[i] = d
    <3>1. order \in Seq(v3)
      BY <2>1, <2>3 DEF Seq
    <3>2. \A i \in 1..Len(order) : order[i] \in Items
      BY <1>0, <3>1, ElementOfSeq
    <3> QED BY <1>0, <2>1, <2>3 DEF Seq
  <2> DEFINE r1 == [v2[p] EXCEPT !.at = "sending"]
             r2 == [r1 EXCEPT !.list = order]
  <2>5. v2' = [v2 EXCEPT ![p] = r2]
    BY <1>0, <2>1
  <2>6. r1 \in Push!FanoutRecord /\ r1.at = "sending" /\ r1.due = v2[p].due
    BY <1>0 DEF Push!FanoutRecord
  <2> HIDE DEF r1
  <2>7. r2 \in Push!FanoutRecord /\ r2.at = "sending" /\ r2.due = v2[p].due /\ r2.list = order
    BY <2>4, <2>6 DEF Push!FanoutRecord
  <2> HIDE DEF r2
  <2>8. v2[p].due \subseteq v3 \cup v4
    BY <1>0, <2>2 DEF PushFanoutIsSound
  <2>9. PushListed(r2)
    BY <2>4, <2>7, <2>8 DEF PushListed
  <2>20. PICK g : g = r2
    OBVIOUS
  <2>10. PushFanoutIsSound(g)'
    BY <2>2, <2>7, <2>9, <2>20 DEF PushFanoutIsSound, PushListed
  <2>11. PushRound(p, g)
    BY <1>0, <2>2, <2>5, <2>7, <2>10, <2>20 DEF PushRound
  <2> QED BY <2>11, PushRoundInv
<1>3. CASE Push!ListFails(p)
  <2> DEFINE r1 == [v2[p] EXCEPT !.left = @ \ {"push"}]
             r2 == [r1 EXCEPT !.at = "calling"]
             r3 == [r2 EXCEPT !.due = {}]
  <2>1. /\ v2' = [v2 EXCEPT ![p].left = @ \ {"push"}, ![p].at = "calling", ![p].due = {}]
        /\ UNCHANGED <<v1, v3, v4, v5, v6, v7>>
    BY <1>3 DEF Push!ListFails, Push!phoneVars
  <2>3. v2' = [v2 EXCEPT ![p] = r3]
    BY <1>0, <2>1
  <2>4. r1 \in Push!FanoutRecord
    BY <1>0 DEF Push!FanoutRecord
  <2> HIDE DEF r1
  <2>5. r2 \in Push!FanoutRecord /\ r2.at = "calling"
    BY <2>4 DEF Push!FanoutRecord
  <2> HIDE DEF r2
  <2>6. r3 \in Push!FanoutRecord /\ r3.at = "calling"
    BY <2>5 DEF Push!FanoutRecord
  <2> HIDE DEF r3
  <2>20. PICK g : g = r3
    OBVIOUS
  <2>7. PushFanoutIsSound(g)'
    BY <2>6, <2>20 DEF PushFanoutIsSound
  <2>8. PushRound(p, g)
    BY <1>0, <2>1, <2>3, <2>6, <2>7, <2>20 DEF PushRound
  <2> QED BY <2>8, PushRoundInv
<1> QED BY <1>1, <1>2, <1>3

LEMMA PushSendsInv ==
  ASSUME Push!PushInv, NEW p \in Workers,
         Push!SendAnswered(p) \/ Push!SendRejected(p) \/ Push!DeletePushDevice(p) \/ Push!ForwardEnds(p)
  PROVE  Push!PushInv'
<1> DEFINE f == v2[p]
<1>0. /\ v1 \subseteq {"other", "push"} /\ v7 \in 0..MaxPushes /\ v2 \in [Workers -> Push!FanoutRecord]
      /\ v6 = {} /\ f \in Push!FanoutRecord /\ v3 \subseteq Items /\ PushFanoutIsSound(f)
  BY PushTypes
<1>1. CASE Push!SendAnswered(p)
  <2>1. /\ f.at = "sending" /\ f.list # <<>> /\ v2' = [v2 EXCEPT ![p] = Push!Told(f)]
        /\ UNCHANGED <<v1, v3, v4, v5, v6, v7>>
    BY <1>0, <1>1 DEF Push!SendAnswered, Push!phoneVars
  <2>2. Push!Told(f) \in Push!FanoutRecord /\ Push!Told(f).at = "sending" /\ PushListed(Push!Told(f))
    BY <2>1, PushToldKeeps
  <2> DEFINE r == Push!Told(f)
  <2>3. r \in Push!FanoutRecord /\ r.at = "sending" /\ PushListed(r) /\ v2' = [v2 EXCEPT ![p] = r]
    BY <2>1, <2>2
  <2> HIDE DEF r
  <2>4. PushFanoutIsSound(r) /\ UNCHANGED <<v3, v4>>
    BY <2>1, <2>3 DEF PushFanoutIsSound
  <2>5. \A g : PushFanoutIsSound(g) => PushFanoutIsSound(g)'
    BY <2>4 DEF PushFanoutIsSound, PushListed
  <2>6. PushFanoutIsSound(Push!Told(f))
    BY <2>4 DEF r
  <2> HIDE DEF f
  <2>7. PICK g : g = Push!Told(f)
    OBVIOUS
  <2>8. PushRound(p, g)
    BY <1>0, <2>1, <2>2, <2>5, <2>6, <2>7 DEF PushRound
  <2> QED BY <2>8, PushRoundInv
<1>2. CASE Push!SendRejected(p)
  <2>1. PICK g : g = [f EXCEPT !.at = "pruning"]
    OBVIOUS
  <2>2. /\ f.at = "sending" /\ f.list # <<>> /\ v2' = [v2 EXCEPT ![p] = g]
        /\ Head(f.list) \in v4
        /\ UNCHANGED <<v1, v3, v4, v5, v6, v7>>
    BY <1>0, <1>2, <2>1 DEF Push!SendRejected, Push!phoneVars, Push!Unregistered
  <2>3. g \in Push!FanoutRecord /\ g.at = "pruning" /\ g.list = f.list /\ g.due = f.due
    BY <1>0, <2>1 DEF Push!FanoutRecord
  <2>4. PushListed(f)
    BY <1>0, <2>2 DEF PushFanoutIsSound
  <2>5. PushFanoutIsSound(g)'
    BY <2>2, <2>3, <2>4 DEF PushFanoutIsSound, PushListed
  <2>6. PushRound(p, g)
    BY <1>0, <2>2, <2>3, <2>5 DEF PushRound
  <2> QED BY <2>6, PushRoundInv
<1>3. CASE Push!DeletePushDevice(p)
  <2> DEFINE d == Head(f.list)
  <2>1. /\ f.at = "pruning" /\ v3' = v3 \ {d}
        /\ v6' = IF d \in v4 THEN v6 ELSE v6 \cup {d}
        /\ v2' = [v2 EXCEPT ![p] = Push!AfterPrune(f)]
        /\ UNCHANGED <<v1, v4, v5, v7>>
    BY <1>0, <1>3 DEF Push!DeletePushDevice
  <2>2. f.list # <<>> /\ d \in v4
    BY <1>0, <2>1 DEF PushFanoutIsSound
  <2>3. Push!Told(f) \in Push!FanoutRecord /\ PushListed(Push!Told(f))
    BY <2>1, <2>2, PushToldKeeps
  <2>4. PICK g : g = Push!AfterPrune(f)
    OBVIOUS
  <2>5. PICK t : t = Push!Told(f)
    OBVIOUS
  <2>6. g = [t EXCEPT !.at = "sending"] /\ t \in Push!FanoutRecord /\ PushListed(t)
    BY <2>3, <2>4, <2>5 DEF Push!AfterPrune
  <2>7. g \in Push!FanoutRecord /\ g.at = "sending" /\ g.due = t.due /\ g.list = t.list
    BY <2>6 DEF Push!FanoutRecord
  <2>8. PushFanoutIsSound(g)'
    BY <2>1, <2>6, <2>7 DEF PushFanoutIsSound, PushListed
  <2>9. v6' = {} /\ v2' = [v2 EXCEPT ![p] = g]
    BY <1>0, <2>1, <2>2, <2>4
  <2>10. v3' \subseteq v3 /\ v3 \ v3' \subseteq v4
    BY <2>1, <2>2
  <2>11. PushRound(p, g)
    BY <1>0, <2>1, <2>7, <2>8, <2>9, <2>10 DEF PushRound
  <2> QED BY <2>11, PushRoundInv
<1>4. CASE Push!ForwardEnds(p)
  <2> DEFINE r1 == [f EXCEPT !.at = "calling"]
             r2 == [r1 EXCEPT !.due = {}]
  <2>1. /\ f.at = "sending" /\ f.list = <<>> /\ v6' = v6 \cup (f.due \cap v3)
        /\ v2' = [v2 EXCEPT ![p].at = "calling", ![p].due = {}]
        /\ UNCHANGED <<v1, v3, v4, v5, v7>>
    BY <1>4 DEF Push!ForwardEnds, Push!phoneVars
  <2>2. v2' = [v2 EXCEPT ![p] = r2]
    BY <1>0, <2>1
  <2>3. r1 \in Push!FanoutRecord /\ r1.at = "calling"
    BY <1>0 DEF Push!FanoutRecord
  <2> HIDE DEF r1
  <2>4. r2 \in Push!FanoutRecord /\ r2.at = "calling"
    BY <2>3 DEF Push!FanoutRecord
  <2> HIDE DEF r2
  <2>5. PushListed(f)
    BY <1>0, <2>1 DEF PushFanoutIsSound
  <2>6. \A i \in DOMAIN f.list : FALSE
    BY <2>1, EmptySeq, LenProperties
  <2>7. v6' = {}
    BY <1>0, <2>1, <2>5, <2>6 DEF PushListed
  <2>20. PICK g : g = r2
    OBVIOUS
  <2>8. PushFanoutIsSound(g)'
    BY <2>4, <2>20 DEF PushFanoutIsSound
  <2>9. PushRound(p, g)
    BY <1>0, <2>1, <2>2, <2>4, <2>7, <2>8, <2>20 DEF PushRound
  <2> QED BY <2>9, PushRoundInv
<1> QED BY <1>1, <1>2, <1>3, <1>4

LEMMA PushPhonesInv ==
  ASSUME Push!PushInv, NEW d \in Items,
         Push!RegisterDevice(d) \/ Push!UnregisterDevice(d) \/ Push!Uninstall(d)
  PROVE  Push!PushInv'
<1>0. /\ v1 \subseteq {"other", "push"} /\ v7 \in 0..MaxPushes /\ v2 \in [Workers -> Push!FanoutRecord]
      /\ v6 = {} /\ v3 \subseteq Items /\ v4 \subseteq Items
      /\ v5 \in [Push!Kinds -> {"on", "off", "default"}]
      /\ \A p \in Workers : PushFanoutIsSound(v2[p])
  BY PushTypes
<1>1. CASE Push!RegisterDevice(d)
  <2>1. /\ d \notin v3 \cup v4 /\ v7 > 0 /\ v7' = v7 - 1
        /\ v3' = v3 \cup {d} /\ UNCHANGED <<v1, v2, v4, v5, v6>>
    BY <1>1 DEF Push!RegisterDevice
  <2>2. v7' \in 0..MaxPushes
    BY <1>0, <2>1, PushBounds
  <2>3. Push!PushTypeOK'
    BY <1>0, <2>1, <2>2 DEF Push!PushTypeOK
  <2>4. ASSUME NEW p \in Workers PROVE Push!DueIsListed(p)'
    <3>1. PushFanoutIsSound(v2[p]) /\ v2'[p] = v2[p]
      BY <1>0, <2>1
    <3> QED BY <2>1, <3>1 DEF Push!DueIsListed, PushFanoutIsSound, PushListed
  <2> QED BY <1>0, <2>1, <2>3, <2>4 DEF Push!PushInv, Push!PhonesAreTold
<1>2. CASE Push!UnregisterDevice(d)
  <2>1. /\ v7 > 0 /\ v7' = v7 - 1 /\ v3' = v3 \ {d}
        /\ v2' = [p \in Workers |-> [v2[p] EXCEPT !.due = @ \ {d}]]
        /\ UNCHANGED <<v1, v4, v5, v6>>
    BY <1>2 DEF Push!UnregisterDevice
  <2>2. v7' \in 0..MaxPushes
    BY <1>0, <2>1, PushBounds
  <2>3. ASSUME NEW p \in Workers
        PROVE  /\ v2'[p] \in Push!FanoutRecord /\ v2'[p].at = v2[p].at /\ v2'[p].list = v2[p].list
               /\ v2'[p].due = v2[p].due \ {d}
    <3>1. v2'[p] = [v2[p] EXCEPT !.due = @ \ {d}] /\ v2[p] \in Push!FanoutRecord
      BY <1>0, <2>1
    <3> QED BY <3>1 DEF Push!FanoutRecord
  <2>4. v2' \in [Workers -> Push!FanoutRecord]
    BY <2>1, <2>3
  <2>5. Push!PushTypeOK'
    BY <1>0, <2>1, <2>2, <2>4 DEF Push!PushTypeOK
  <2>6. ASSUME NEW p \in Workers PROVE Push!DueIsListed(p)'
    <3>1. PushFanoutIsSound(v2[p])
      BY <1>0
    <3> QED BY <2>1, <2>3, <3>1 DEF Push!DueIsListed, PushFanoutIsSound, PushListed
  <2> QED BY <1>0, <2>1, <2>5, <2>6 DEF Push!PushInv, Push!PhonesAreTold
<1>3. CASE Push!Uninstall(d)
  <2>1. /\ v4 = {} /\ v4' = {d}
        /\ UNCHANGED <<v1, v2, v3, v5, v6, v7>>
    BY <1>3 DEF Push!Uninstall
  <2>2. Push!PushTypeOK'
    BY <1>0, <2>1 DEF Push!PushTypeOK
  <2>3. ASSUME NEW p \in Workers PROVE Push!DueIsListed(p)'
    <3>1. PushFanoutIsSound(v2[p]) /\ v2'[p] = v2[p]
      BY <1>0, <2>1
    <3> QED BY <2>1, <3>1 DEF Push!DueIsListed, PushFanoutIsSound, PushListed
  <2> QED BY <1>0, <2>1, <2>2, <2>3 DEF Push!PushInv, Push!PhonesAreTold
<1> QED BY <1>1, <1>2, <1>3

LEMMA PushSettingsInv ==
  ASSUME Push!PushInv,
         (\E kind \in Push!Kinds, value \in {"on", "off", "default"} : Push!SetPref(kind, value)) \/ Push!PushSubscribes
  PROVE  Push!PushInv'
<1>0. /\ v1 \subseteq {"other", "push"} /\ v7 \in 0..MaxPushes /\ v2 \in [Workers -> Push!FanoutRecord]
      /\ v6 = {} /\ v3 \subseteq Items /\ v4 \subseteq Items
      /\ v5 \in [Push!Kinds -> {"on", "off", "default"}]
      /\ \A p \in Workers : Push!DueIsListed(p)
  BY PushTypes DEF Push!PushInv
<1>1. UNCHANGED <<v2, v3, v4, v6>>
  BY DEF Push!SetPref, Push!PushSubscribes, Push!phoneVars
<1>2. /\ v1' \subseteq {"other", "push"} /\ v5' \in [Push!Kinds -> {"on", "off", "default"}]
      /\ v7' \in 0..MaxPushes
  <2>1. CASE Push!PushSubscribes
    BY <1>0, <2>1 DEF Push!PushSubscribes, Push!phoneVars
  <2>2. ASSUME NEW kind \in Push!Kinds, NEW value \in {"on", "off", "default"}, Push!SetPref(kind, value)
        PROVE  /\ v1' \subseteq {"other", "push"} /\ v5' \in [Push!Kinds -> {"on", "off", "default"}]
               /\ v7' \in 0..MaxPushes
    <3>1. v7 > 0 /\ v7' = v7 - 1 /\ v5' = [v5 EXCEPT ![kind] = value] /\ v1' = v1
      BY <2>2 DEF Push!SetPref
    <3> QED BY <1>0, <3>1, PushBounds
  <2> QED BY <2>1, <2>2
<1>3. Push!PushTypeOK'
  BY <1>0, <1>1, <1>2 DEF Push!PushTypeOK
<1>4. \A p \in Workers : Push!DueIsListed(p)'
  BY <1>0, <1>1 DEF Push!DueIsListed
<1> QED BY <1>0, <1>1, <1>3, <1>4 DEF Push!PushInv, Push!PhonesAreTold

LEMMA PushNextInv == Push!PushInv /\ Push!PushNext => Push!PushInv'
BY PushCallsInv, PushListsInv, PushSendsInv, PushPhonesInv, PushSettingsInv DEF Push!PushNext

LEMMA PushStutters == Push!PushInv /\ UNCHANGED shared => Push!PushInv'
BY DEF shared, Push!DueIsListed, Push!FanoutRecord, Push!PhonesAreTold, Push!PushInv, Push!PushTypeOK

-----------------------------------------------------------------------------
(***************************************************************************)
(* ChangeReview, as Review: v1 work, v2 index, v3 head, v4 audit, v5       *)
(* tokens, v6 reviewer, v7 came.                                           *)
(* A check reads a file and finds it approved; until the file is added it  *)
(* is as it was read, or in the late files of the handler's record, as     *)
(* whoever writes it notes it there.                                       *)
(***************************************************************************)

LEMMA ReviewBounds == MaxAudit \in Nat /\ MaxRevision \in Nat \ {0}
BY ServerBoundsAssumption

\* What ReviewInv says of one handler, and of the index.
ReviewSound(c) ==
  /\ \A e \in c.entries : e \in Review!ToSet(v4) /\ e.decision = "approve"
  /\ c.at = "checking" => \A f \in c.listed \ (c.unread \cup c.late) : v1[f] = c.revisions[f]
  /\ c.at = "adding" => \A f \in c.files \ c.late : Review!Approved(f, v1[f])
  /\ c.at = "adding" => c.listed = c.files /\ c.unread = {}

ReviewIndexSound == \A f \in Review!Staged : v7[f] = "checked" => Review!Approved(f, v2[f])

LEMMA ReviewParts ==
  Review!ReviewInv <=> /\ Review!ReviewTypeOK
                       /\ \A r \in Reviewers : ReviewSound(v6[r])
                       /\ ReviewIndexSound
<1>1. ReviewIndexSound => Review!CommitsAreExplained
  BY DEF ReviewIndexSound, Review!CommitsAreExplained, Review!TakenIn
<1> QED BY <1>1 DEF Review!ReviewInv, ReviewSound, ReviewIndexSound

LEMMA ReviewPartsNext ==
  ASSUME Review!ReviewTypeOK', (\A r \in Reviewers : ReviewSound(v6[r]))', ReviewIndexSound'
  PROVE  Review!ReviewInv'
BY ReviewParts, PTL

LEMMA ReviewTypes ==
  ASSUME Review!ReviewTypeOK
  PROVE  /\ v1 \in Review!Trees /\ v2 \in Review!Trees /\ v3 \in Review!Trees
         /\ v4 \in Seq(Review!AuditRecord) /\ Len(v4) \in Nat /\ Len(v4) <= MaxAudit
         /\ v5 \subseteq Review!FileSets /\ v6 \in [Reviewers -> Review!Handler]
         /\ v7 \in [Items -> Review!Ways]
BY LenProperties DEF Review!ReviewTypeOK

LEMMA ReviewFree ==
  /\ Review!Free \in Review!Handler /\ Review!Free.entries = {} /\ Review!Free.at = "idle"
  /\ Review!Unread \in Review!Trees
<1>1. Review!Unread \in Review!Trees
  BY ReviewBounds DEF Review!Unread, Review!Trees, Review!Gone
<1> QED BY <1>1 DEF Review!Free, Review!Handler

\* A call that holds no approval and is not between its check and its add.
LEMMA ReviewResting ==
  ASSUME NEW c, c.entries = {}, c.at \notin {"checking", "adding"}
  PROVE  ReviewSound(c)
BY DEF ReviewSound

LEMMA ReviewClean == Review!Clean \in [Items -> Review!Ways]
BY DEF Review!Clean, Review!Ways

LEMMA ReviewInitInv == Review!ReviewInit => Review!ReviewInv
<1> SUFFICES ASSUME Review!ReviewInit PROVE Review!ReviewInv
  OBVIOUS
<1>1. /\ v1 = [f \in Items |-> 1] /\ v2 = v1 /\ v3 = v1 /\ v4 = <<>> /\ v5 = {}
      /\ v6 = [r \in Reviewers |-> Review!Free] /\ v7 = Review!Clean
  BY DEF Review!ReviewInit
<1>2. v1 \in Review!Trees
  BY <1>1, ReviewBounds DEF Review!Trees, Review!Gone
<1>3. v4 \in Seq(Review!AuditRecord) /\ Len(v4) <= MaxAudit
  BY <1>1, ReviewBounds
<1>4. Review!ReviewTypeOK
  BY <1>1, <1>2, <1>3, ReviewFree, ReviewClean DEF Review!ReviewTypeOK
<1>5. \A r \in Reviewers : ReviewSound(v6[r])
  BY <1>1, ReviewFree, ReviewResting
<1>6. ReviewIndexSound
  BY <1>1 DEF ReviewIndexSound, Review!Staged
<1> QED BY <1>4, <1>5, <1>6, ReviewParts

\* The trail only grows, and with it what is approved.
LEMMA ReviewTrailGrows ==
  ASSUME Review!ToSet(v4) \subseteq Review!ToSet(v4')
  PROVE  \A f, n : Review!Approved(f, n) => Review!Approved(f, n)'
<1>1. Review!Granted \subseteq Review!Granted'
  BY DEF Review!Granted
<1> QED BY <1>1 DEF Review!Approved

LEMMA ReviewAppends ==
  ASSUME v4 \in Seq(Review!AuditRecord), NEW e \in Review!AuditRecord, v4' = Append(v4, e)
  PROVE  /\ v4' \in Seq(Review!AuditRecord) /\ Len(v4') = Len(v4) + 1
         /\ Review!ToSet(v4) \subseteq Review!ToSet(v4')
<1>1. /\ v4' \in Seq(Review!AuditRecord) /\ Len(v4') = Len(v4) + 1 /\ Len(v4) \in Nat
      /\ \A i \in 1..Len(v4) : v4'[i] = v4[i]
  BY AppendProperties, LenProperties
<1>2. DOMAIN v4 = 1..Len(v4) /\ DOMAIN v4' = 1..Len(v4')
  BY <1>1, LenProperties
<1> QED BY <1>1, <1>2 DEF Review!ToSet

LEMMA ReviewEntry ==
  ASSUME v4 \in Seq(Review!AuditRecord), NEW i \in DOMAIN v4
  PROVE  v4[i] \in Review!AuditRecord /\ v4[i] \in Review!ToSet(v4)
BY ElementOfSeq, LenProperties DEF Review!ToSet

\* One handler takes a step, the others hold what they held.
LEMMA ReviewMoves ==
  ASSUME Review!ReviewInv, NEW r \in Reviewers, NEW next \in Review!Handler, Review!Goes(r, next),
         v1' = v1, v2' \in Review!Trees, v3' \in Review!Trees, v7' \in [Items -> Review!Ways],
         v4' \in Seq(Review!AuditRecord), Len(v4') <= MaxAudit, v5' \subseteq Review!FileSets,
         Review!ToSet(v4) \subseteq Review!ToSet(v4'),
         v6'[r] = next => ReviewSound(v6[r])', ReviewIndexSound'
  PROVE  Review!ReviewInv'
<1>1. Review!ReviewTypeOK /\ \A q \in Reviewers : ReviewSound(v6[q])
  BY ReviewParts
<1>2. v6' = [v6 EXCEPT ![r] = next] /\ v6 \in [Reviewers -> Review!Handler] /\ v1 \in Review!Trees
  BY <1>1, ReviewTypes DEF Review!Goes
<1>3. v6' \in [Reviewers -> Review!Handler] /\ v6'[r] = next /\ \A q \in Reviewers : q # r => v6'[q] = v6[q]
  BY <1>2
<1>4. Review!ReviewTypeOK'
  BY <1>2, <1>3 DEF Review!ReviewTypeOK
<1>5. ASSUME NEW q \in Reviewers PROVE ReviewSound(v6[q])'
  <2>1. CASE q = r
    BY <1>3, <2>1
  <2>2. CASE q # r
    BY <1>1, <1>3, <2>2, ReviewTrailGrows DEF ReviewSound
  <2> QED BY <2>1, <2>2
<1>6. (\A q \in Reviewers : ReviewSound(v6[q]))'
  BY <1>5
<1> QED BY <1>4, <1>6, ReviewPartsNext

\* One that leaves the tree, the index, HEAD and the trail alone.
LEMMA ReviewMovesAlone ==
  ASSUME Review!ReviewInv, NEW r \in Reviewers, NEW next \in Review!Handler, Review!Goes(r, next),
         UNCHANGED <<v1, v2, v3, v4, v7>>, v5' \subseteq Review!FileSets,
         v6'[r] = next => ReviewSound(v6[r])'
  PROVE  Review!ReviewInv'
<1>1. Review!ReviewTypeOK /\ ReviewIndexSound
  BY ReviewParts
<1>2. ReviewIndexSound'
  BY <1>1 DEF ReviewIndexSound, Review!Staged, Review!Approved, Review!Granted
<1> QED BY <1>1, <1>2, ReviewMoves, ReviewTypes

-----------------------------------------------------------------------------
(* Status, and the decisions *)

LEMMA ReviewStatusReads ==
  ASSUME Review!ReviewInv, NEW r \in Reviewers, NEW f \in Items, Review!StatusReads(r, f)
  PROVE  Review!ReviewInv'
<1> DEFINE c == v6[r]
           next == [c EXCEPT !.unread = @ \ {f}, !.revisions[f] = v1[f]]
<1>1. f \in c.unread /\ Review!Goes(r, next) /\ UNCHANGED <<v1, v2, v3, v4, v5, v7>>
  BY DEF Review!StatusReads, Review!git
<1>2. Review!ReviewTypeOK /\ c \in Review!Handler /\ v1 \in Review!Trees /\ v1[f] \in Review!Gone..MaxRevision
      /\ ReviewSound(c)
  BY ReviewParts, ReviewTypes DEF Review!Trees
<1>3. c.revisions \in Review!Trees
  BY <1>2 DEF Review!Handler
<1>4. [c.revisions EXCEPT ![f] = v1[f]] \in Review!Trees
  BY <1>2, <1>3 DEF Review!Trees
<1>5. /\ next \in Review!Handler /\ next.at = c.at /\ next.entries = c.entries /\ next.listed = c.listed
      /\ next.late = c.late /\ next.files = c.files /\ next.unread = c.unread \ {f}
      /\ next.revisions = [c.revisions EXCEPT ![f] = v1[f]]
  BY <1>2, <1>4 DEF Review!Handler
<1>6. \A g \in Items : next.revisions[g] = IF g = f THEN v1[f] ELSE c.revisions[g]
  BY <1>3, <1>5 DEF Review!Trees
<1>7. next.listed \subseteq Items
  BY <1>5 DEF Review!Handler
<1> HIDE DEF next
<1>8. v6'[r] = next => ReviewSound(v6[r])'
  BY <1>1, <1>2, <1>5, <1>6, <1>7 DEF ReviewSound
<1> QED BY <1>1, <1>2, <1>5, <1>8, ReviewTypes, ReviewMovesAlone

LEMMA ReviewConfirms ==
  ASSUME Review!ReviewInv, NEW fs \in Review!FileSets, Review!Confirm(fs)
  PROVE  Review!ReviewInv'
<1>1. v5' = v5 \cup {fs} /\ UNCHANGED <<v1, v2, v3, v4, v6, v7>>
  BY DEF Review!Confirm, Review!git
<1>2. Review!ReviewTypeOK'
  BY <1>1 DEF Review!ReviewInv, Review!ReviewTypeOK
<1> QED BY <1>1, <1>2 DEF Review!ReviewInv, Review!CommitsAreExplained, Review!TakenIn, Review!Staged,
           Review!Approved, Review!Granted

LEMMA ReviewBegins ==
  ASSUME Review!ReviewInv, NEW r \in Reviewers, NEW fs \in Review!FileSets,
         Review!ApproveConsumes(r, fs) \/ Review!Reject(r, fs)
  PROVE  Review!ReviewInv'
<1> DEFINE next == [Review!Free EXCEPT !.at = "deciding", !.files = fs]
           other == [Review!Free EXCEPT !.at = "deciding", !.decision = "reject", !.files = fs]
<1>1. Review!Goes(r, next) \/ Review!Goes(r, other)
  BY DEF Review!ApproveConsumes, Review!Reject
<1>2. v5' \subseteq v5 /\ UNCHANGED <<v1, v2, v3, v4, v7>>
  BY DEF Review!ApproveConsumes, Review!Reject, Review!git
<1>3. v5' \subseteq Review!FileSets
  BY <1>2, ReviewParts, ReviewTypes
<1>4. fs \subseteq Items
  BY DEF Review!FileSets
<1>5. /\ next \in Review!Handler /\ next.at = "deciding" /\ next.entries = {}
      /\ other \in Review!Handler /\ other.at = "deciding" /\ other.entries = {}
  BY <1>4, ReviewFree DEF Review!Handler
<1> HIDE DEF next, other
<1>6. v6'[r] = next \/ v6'[r] = other => ReviewSound(v6[r])'
  BY <1>5 DEF ReviewSound
<1> QED BY <1>1, <1>2, <1>3, <1>5, <1>6, ReviewMovesAlone

\* Status lists the changed files of a call, and has read none of them.
LEMMA ReviewLists ==
  ASSUME Review!ReviewInv, NEW r \in Reviewers, Review!DecisionLists(r) \/ Review!CommitStatus(r)
  PROVE  Review!ReviewInv'
<1>1. PICK at \in {"recording", "checking"} : Review!Goes(r, Review!Listed(v6[r], at))
  BY DEF Review!DecisionLists, Review!CommitStatus
<1>2. UNCHANGED <<v1, v2, v3, v4, v5, v7>>
  BY DEF Review!DecisionLists, Review!CommitStatus, Review!git
<1> DEFINE next == Review!Listed(v6[r], at)
<1>3. v6[r] \in Review!Handler /\ ReviewSound(v6[r]) /\ v5 \subseteq Review!FileSets
  BY ReviewParts, ReviewTypes
<1>4. v6[r].files \cap Review!Changed \subseteq Items
  BY DEF Review!Changed
<1>5. next \in Review!Handler /\ next.at = at /\ next.entries = v6[r].entries /\ next.unread = next.listed
  BY <1>3, <1>4 DEF Review!Listed, Review!Handler
<1>6. Review!Goes(r, next)
  BY <1>1
<1> HIDE DEF next
<1>7. v6'[r] = next => ReviewSound(v6[r])'
  BY <1>2, <1>3, <1>5 DEF ReviewSound
<1> QED BY <1>2, <1>3, <1>5, <1>6, <1>7, ReviewMovesAlone

LEMMA ReviewRecords ==
  ASSUME Review!ReviewInv, NEW r \in Reviewers, Review!DecisionRecords(r)
  PROVE  Review!ReviewInv'
<1> DEFINE c == v6[r]
           e == [decision |-> c.decision, files |-> c.files, listed |-> c.listed, revisions |-> c.revisions]
<1>1. /\ Len(v4) < MaxAudit /\ v4' = Append(v4, e) /\ Review!Goes(r, Review!Free)
      /\ UNCHANGED <<v1, v2, v3, v5, v7>>
  BY DEF Review!DecisionRecords, Review!git
<1>2. Review!ReviewTypeOK /\ c \in Review!Handler /\ ReviewIndexSound
  BY ReviewParts, ReviewTypes
<1>3. e \in Review!AuditRecord
  BY <1>2 DEF Review!Handler, Review!AuditRecord
<1> HIDE DEF e
<1>4. /\ v4' \in Seq(Review!AuditRecord) /\ Len(v4') = Len(v4) + 1 /\ Len(v4) \in Nat
      /\ Review!ToSet(v4) \subseteq Review!ToSet(v4')
  BY <1>1, <1>2, <1>3, ReviewTypes, ReviewAppends
<1>5. Len(v4') <= MaxAudit
  BY <1>1, <1>4, ReviewBounds
<1>6. v6'[r] = Review!Free => ReviewSound(v6[r])'
  BY ReviewFree DEF ReviewSound
<1>7. ReviewIndexSound'
  BY <1>1, <1>2, <1>4, ReviewTrailGrows DEF ReviewIndexSound, Review!Staged
<1> QED BY <1>1, <1>2, <1>4, <1>5, <1>6, <1>7, ReviewFree, ReviewTypes, ReviewMoves

-----------------------------------------------------------------------------
(* The commit *)

LEMMA ReviewCommitLists ==
  ASSUME Review!ReviewInv, NEW r \in Reviewers, NEW fs \in Review!FileSets, NEW wide \in SUBSET Items,
         Review!CommitLists(r, fs, wide)
  PROVE  Review!ReviewInv'
<1> DEFINE listed == {v4[i] : i \in Review!Newest}
           next == [Review!Free EXCEPT !.at = "requiring", !.files = fs, !.wide = wide \ fs, !.entries = listed]
<1>1. Review!Goes(r, next) /\ UNCHANGED <<v1, v2, v3, v4, v5, v7>>
  BY DEF Review!CommitLists, Review!git
<1>2. Review!ReviewTypeOK
  BY ReviewParts
<1>3. \A i \in Review!Newest : i \in DOMAIN v4 /\ v4[i].decision = "approve"
  BY DEF Review!Newest, Review!Approvals
<1>4. \A e \in listed : e \in Review!AuditRecord /\ e \in Review!ToSet(v4) /\ e.decision = "approve"
  BY <1>2, <1>3, ReviewTypes, ReviewEntry
<1>5. fs \subseteq Items
  BY DEF Review!FileSets
<1> HIDE DEF listed
<1>6. next \in Review!Handler /\ next.at = "requiring" /\ next.entries = listed
  BY <1>4, <1>5, ReviewFree DEF Review!Handler
<1> HIDE DEF next
<1>7. v6'[r] = next => ReviewSound(v6[r])'
  BY <1>1, <1>4, <1>6 DEF ReviewSound
<1> QED BY <1>1, <1>2, <1>6, <1>7, ReviewTypes, ReviewMovesAlone

\* What the check has read and nobody wrote since is what an approval says of it.
LEMMA ReviewCommitChecks ==
  ASSUME Review!ReviewInv, NEW r \in Reviewers, Review!CommitChecks(r)
  PROVE  Review!ReviewInv'
<1> DEFINE c == v6[r]
           next == [c EXCEPT !.at = "adding", !.entries = {}, !.revisions = Review!Unread]
<1>1. /\ c.at = "checking" /\ c.unread = {} /\ UNCHANGED <<v1, v2, v3, v4, v5, v7>>
  BY DEF Review!CommitChecks, Review!git
<1>2. Review!ReviewTypeOK /\ c \in Review!Handler /\ ReviewSound(c)
  BY ReviewParts, ReviewTypes
<1>3. CASE Review!Goes(r, Review!Free)
  <2>1. v6'[r] = Review!Free => ReviewSound(v6[r])'
    BY ReviewFree DEF ReviewSound
  <2> QED BY <1>1, <1>2, <1>3, <2>1, ReviewFree, ReviewTypes, ReviewMovesAlone
<1>4. CASE Review!Goes(r, next) /\ c.listed = c.files /\ \E e \in c.entries : Review!Approves(e, c)
  <2>1. PICK e \in c.entries : Review!Approves(e, c)
    BY <1>4
  <2>2. e \in Review!Granted
    BY <1>2, <2>1 DEF ReviewSound, Review!Granted, Review!Approves
  <2>3. \A f \in c.files \ c.late : Review!Approved(f, v1[f])
    BY <1>1, <1>2, <1>4, <2>1, <2>2 DEF ReviewSound, Review!Approves, Review!Approved
  <2>4. /\ next \in Review!Handler /\ next.at = "adding" /\ next.entries = {} /\ next.files = c.files
        /\ next.late = c.late /\ next.listed = c.listed /\ next.unread = c.unread
    BY <1>2, ReviewFree DEF Review!Handler
  <2>5. Review!Goes(r, next)
    BY <1>4
  <2> HIDE DEF next
  <2>6. \A f \in c.files \ c.late : Review!Approved(f, v1[f])'
    BY <1>1, <2>3 DEF Review!Approved, Review!Granted
  <2>7. v6'[r] = next => ReviewSound(v6[r])'
    BY <1>1, <1>4, <2>4, <2>6 DEF ReviewSound, Review!Approved
  <2> QED BY <1>1, <1>2, <2>4, <2>5, <2>7, ReviewTypes, ReviewMovesAlone
<1> QED BY <1>3, <1>4 DEF Review!CommitChecks

\* Only what came in by way of the check counts as checked.
LEMMA ReviewCommitAdds ==
  ASSUME Review!ReviewInv, NEW r \in Reviewers, Review!CommitAdds(r)
  PROVE  Review!ReviewInv'
<1> DEFINE c == v6[r]
           next == [Review!Free EXCEPT !.at = "committing"]
<1>1. c.at = "adding" /\ UNCHANGED <<v1, v3, v4, v5>>
  BY DEF Review!CommitAdds
<1>2. Review!ReviewTypeOK /\ c \in Review!Handler /\ ReviewSound(c) /\ ReviewIndexSound
  BY ReviewParts, ReviewTypes
<1>3. CASE Review!Goes(r, Review!Free) /\ UNCHANGED <<v2, v7>>
  <2>1. v6'[r] = Review!Free => ReviewSound(v6[r])'
    BY ReviewFree DEF ReviewSound
  <2> QED BY <1>1, <1>2, <1>3, <2>1, ReviewFree, ReviewTypes, ReviewMovesAlone
<1>4. CASE /\ v2' = [f \in Items |-> IF f \in c.files \cup c.wide THEN v1[f] ELSE v2[f]]
           /\ v7' = [f \in Items |-> IF f \in c.wide THEN "wide"
                                      ELSE IF f \notin c.files THEN v7[f]
                                      ELSE IF f \in c.late THEN "late" ELSE "checked"]
           /\ Review!Goes(r, next)
  <2>1. /\ v1 \in [Items -> Review!Gone..MaxRevision] /\ v2 \in [Items -> Review!Gone..MaxRevision]
        /\ v7 \in [Items -> Review!Ways] /\ v3 \in Review!Trees
    BY <1>2, ReviewTypes DEF Review!Trees
  <2>2. v2' \in Review!Trees
    BY <1>4, <2>1 DEF Review!Trees
  <2>3. v7' \in [Items -> Review!Ways]
    BY <1>4, <2>1 DEF Review!Ways
  <2>4. ASSUME NEW f \in Review!Staged', v7'[f] = "checked" PROVE Review!Approved(f, v2[f])'
    <3>1. f \in Items /\ v2'[f] # v3[f]
      BY <1>1, <2>4 DEF Review!Staged
    <3>2. CASE f \in c.files \ c.late
      <4>1. v2'[f] = v1[f] /\ Review!Approved(f, v1[f])
        BY <1>1, <1>2, <1>4, <3>1, <3>2 DEF ReviewSound
      <4> QED BY <1>1, <4>1 DEF Review!Approved, Review!Granted
    <3>3. CASE f \notin c.files \cup c.wide
      <4>1. v2'[f] = v2[f] /\ v7[f] = "checked"
        BY <1>4, <2>4, <3>1, <3>3
      <4>2. Review!Approved(f, v2[f])
        BY <1>2, <3>1, <4>1 DEF ReviewIndexSound, Review!Staged
      <4> QED BY <1>1, <4>1, <4>2 DEF Review!Approved, Review!Granted
    <3>4. f \in c.wide => v7'[f] = "wide"
      BY <1>4, <3>1
    <3>5. f \notin c.wide /\ f \in c.files \cap c.late => v7'[f] = "late"
      BY <1>4, <3>1
    <3> QED BY <2>4, <3>2, <3>3, <3>4, <3>5
  <2>5. ReviewIndexSound'
    BY <2>4 DEF ReviewIndexSound
  <2>6. next \in Review!Handler /\ next.at = "committing" /\ next.entries = {}
    BY ReviewFree DEF Review!Handler
  <2>7. Review!Goes(r, next)
    BY <1>4
  <2> HIDE DEF next
  <2>8. v6'[r] = next => ReviewSound(v6[r])'
    BY <2>6 DEF ReviewSound
  <2> QED BY <1>1, <1>2, <2>1, <2>2, <2>3, <2>5, <2>6, <2>7, <2>8, ReviewTypes, ReviewMoves
<1> QED BY <1>3, <1>4 DEF Review!CommitAdds

\* After a commit nothing is staged.
LEMMA ReviewCommits ==
  ASSUME Review!ReviewInv, NEW r \in Reviewers, Review!CommitCommits(r)
  PROVE  Review!ReviewInv'
<1>1. v3' = v2 /\ v7' = Review!Clean /\ Review!Goes(r, Review!Free) /\ UNCHANGED <<v1, v2, v4, v5>>
  BY DEF Review!CommitCommits
<1>2. Review!ReviewTypeOK
  BY ReviewParts
<1>3. ReviewIndexSound'
  BY <1>1 DEF ReviewIndexSound, Review!Staged
<1>4. v6'[r] = Review!Free => ReviewSound(v6[r])'
  BY ReviewFree DEF ReviewSound
<1>5. v2' \in Review!Trees /\ v3' \in Review!Trees /\ v7' \in [Items -> Review!Ways]
  BY <1>1, <1>2, ReviewTypes, ReviewClean
<1> QED BY <1>1, <1>2, <1>3, <1>4, <1>5, ReviewFree, ReviewTypes, ReviewMoves

-----------------------------------------------------------------------------
(* The agent *)

\* A file that a check has read and that is written then is late.
LEMMA ReviewAgentWrites ==
  ASSUME Review!ReviewInv, NEW f \in Items, NEW n \in Review!Gone..MaxRevision, Review!AgentWrites(f, n)
  PROVE  Review!ReviewInv'
<1> DEFINE next(r) == [v6[r] EXCEPT !.late = @ \cup {f}]
<1>1. /\ v1' = [v1 EXCEPT ![f] = n]
      /\ v6' = [r \in Reviewers |-> IF Review!UnderCommit(v6[r], f) THEN next(r) ELSE v6[r]]
      /\ UNCHANGED <<v2, v3, v4, v5, v7>>
  BY DEF Review!AgentWrites
<1>2. Review!ReviewTypeOK /\ (\A r \in Reviewers : ReviewSound(v6[r])) /\ ReviewIndexSound
  BY ReviewParts
<1>3. v1 \in [Items -> Review!Gone..MaxRevision] /\ v6 \in [Reviewers -> Review!Handler]
  BY <1>2, ReviewTypes DEF Review!Trees
<1>4. ASSUME NEW r \in Reviewers
      PROVE  /\ next(r) \in Review!Handler /\ next(r).at = v6[r].at /\ next(r).files = v6[r].files
             /\ next(r).entries = v6[r].entries /\ next(r).listed = v6[r].listed
             /\ next(r).unread = v6[r].unread /\ next(r).revisions = v6[r].revisions
             /\ next(r).late = v6[r].late \cup {f}
             /\ v6[r].files \subseteq Items /\ v6[r].listed \subseteq Items
  BY <1>3 DEF Review!Handler
<1> HIDE DEF next
<1>5. v1' \in Review!Trees /\ \A g \in Items : g # f => v1'[g] = v1[g]
  BY <1>1, <1>3 DEF Review!Trees
<1>6. v6' \in [Reviewers -> Review!Handler]
  BY <1>1, <1>3, <1>4
<1>7. Review!ReviewTypeOK'
  BY <1>1, <1>2, <1>5, <1>6 DEF Review!ReviewTypeOK
<1>8. ASSUME NEW r \in Reviewers PROVE ReviewSound(v6[r])'
  <2>1. ReviewSound(v6[r])
    BY <1>2
  <2>3. CASE Review!UnderCommit(v6[r], f)
    <3>1. v6'[r] = next(r)
      BY <1>1, <2>3
    <3>2. \A g \in Items \ next(r).late : v1'[g] = v1[g]
      BY <1>4, <1>5
    <3>3. next(r).at = "checking" =>
            \A g \in next(r).listed \ (next(r).unread \cup next(r).late) : v1'[g] = next(r).revisions[g]
      BY <1>4, <2>1, <3>2 DEF ReviewSound
    <3>4. next(r).at = "adding" => \A g \in next(r).files \ next(r).late : Review!Approved(g, v1'[g])
      BY <1>4, <2>1, <3>2 DEF ReviewSound
    <3>5. next(r).at = "adding" => \A g \in next(r).files \ next(r).late : Review!Approved(g, v1[g])'
      BY <1>1, <3>4 DEF Review!Approved, Review!Granted
    <3>6. /\ \A e \in next(r).entries : e \in Review!ToSet(v4') /\ e.decision = "approve"
          /\ next(r).at = "adding" => next(r).listed = next(r).files /\ next(r).unread = {}
      BY <1>1, <1>4, <2>1 DEF ReviewSound
    <3> QED BY <3>1, <3>3, <3>5, <3>6 DEF ReviewSound
  <2>4. CASE ~Review!UnderCommit(v6[r], f)
    <3>1. v6'[r] = v6[r]
      BY <1>1, <2>4
    <3>2. v6[r].at = "checking" => \A g \in v6[r].listed \ (v6[r].unread \cup v6[r].late) : v1'[g] = v1[g]
      BY <1>4, <1>5, <2>4 DEF Review!UnderCommit
    <3>3. v6[r].at = "adding" => \A g \in v6[r].files \ v6[r].late : v1'[g] = v1[g]
      BY <1>4, <1>5, <2>1, <2>4 DEF Review!UnderCommit, ReviewSound
    <3>4. v6[r].at = "adding" => \A g \in v6[r].files \ v6[r].late : Review!Approved(g, v1[g])'
      BY <1>1, <2>1, <3>3 DEF ReviewSound, Review!Approved, Review!Granted
    <3> QED BY <1>1, <2>1, <3>1, <3>2, <3>4 DEF ReviewSound
  <2> QED BY <2>3, <2>4
<1>9. ReviewIndexSound'
  BY <1>1, <1>2 DEF ReviewIndexSound, Review!Staged, Review!Approved, Review!Granted
<1>10. (\A r \in Reviewers : ReviewSound(v6[r]))'
  BY <1>8
<1> QED BY <1>7, <1>9, <1>10, ReviewPartsNext

\* What the agent stages or commits itself came in beside the check, or is in HEAD.
LEMMA ReviewAgentStages ==
  ASSUME Review!ReviewInv, Review!AgentCommits \/ \E f \in Items : Review!AgentStages(f)
  PROVE  Review!ReviewInv'
<1>1. UNCHANGED <<v1, v4, v5, v6>>
  BY DEF Review!AgentCommits, Review!AgentStages
<1>2. Review!ReviewTypeOK /\ (\A r \in Reviewers : ReviewSound(v6[r])) /\ ReviewIndexSound
  BY ReviewParts
<1>3. \A f, n : Review!Approved(f, n)' <=> Review!Approved(f, n)
  BY <1>1 DEF Review!Approved, Review!Granted
<1>4. (\A r \in Reviewers : ReviewSound(v6[r]))'
  BY <1>1, <1>2 DEF ReviewSound, Review!Approved, Review!Granted
<1>5. CASE Review!AgentCommits
  <2>1. v3' = v2 /\ v2' = v2 /\ v7' = Review!Clean
    BY <1>5 DEF Review!AgentCommits
  <2>2. ReviewIndexSound'
    BY <2>1 DEF ReviewIndexSound, Review!Staged
  <2>3. Review!ReviewTypeOK'
    BY <1>1, <1>2, <2>1, ReviewClean DEF Review!ReviewTypeOK
  <2> QED BY <1>4, <2>2, <2>3, ReviewPartsNext
<1>6. ASSUME NEW f \in Items, Review!AgentStages(f) PROVE Review!ReviewInv'
  <2>1. v2' = [v2 EXCEPT ![f] = v1[f]] /\ v7' = [v7 EXCEPT ![f] = "staged"] /\ v3' = v3
    BY <1>6 DEF Review!AgentStages
  <2>2. /\ v1 \in [Items -> Review!Gone..MaxRevision] /\ v2 \in [Items -> Review!Gone..MaxRevision]
        /\ v7 \in [Items -> Review!Ways]
    BY <1>2, ReviewTypes DEF Review!Trees
  <2>3. v2' \in Review!Trees /\ v7' \in [Items -> Review!Ways]
    BY <2>1, <2>2 DEF Review!Trees, Review!Ways
  <2>4. Review!ReviewTypeOK'
    BY <1>1, <1>2, <2>1, <2>3 DEF Review!ReviewTypeOK
  <2>5. ASSUME NEW g \in Review!Staged', v7'[g] = "checked" PROVE Review!Approved(g, v2[g])'
    <3>1. g \in Items /\ v2'[g] # v3[g] /\ g # f
      BY <2>1, <2>2, <2>5 DEF Review!Staged
    <3>2. v2'[g] = v2[g] /\ v7'[g] = v7[g]
      BY <2>1, <2>2, <3>1
    <3>3. Review!Approved(g, v2[g])
      BY <1>2, <2>5, <3>1, <3>2 DEF ReviewIndexSound, Review!Staged
    <3> QED BY <1>1, <3>2, <3>3 DEF Review!Approved, Review!Granted
  <2>6. ReviewIndexSound'
    BY <2>5 DEF ReviewIndexSound
  <2> QED BY <1>4, <2>4, <2>6, ReviewPartsNext
<1> QED BY <1>5, <1>6

LEMMA ReviewNextInv == Review!ReviewInv /\ Review!ReviewNext => Review!ReviewInv'
BY ReviewStatusReads, ReviewConfirms, ReviewBegins, ReviewLists, ReviewRecords, ReviewCommitLists,
   ReviewCommitChecks, ReviewCommitAdds, ReviewCommits, ReviewAgentWrites, ReviewAgentStages
   DEF Review!ReviewNext

LEMMA ReviewStutters == Review!ReviewInv /\ UNCHANGED shared => Review!ReviewInv'
BY DEF shared, Review!Approved, Review!Granted, Review!TakenIn, Review!Staged, Review!CommitsAreExplained,
   Review!ReviewInv, Review!ReviewTypeOK

-----------------------------------------------------------------------------
(***************************************************************************)
(* Projects, as Space: v1 project, v2 dir, v3 sessionRows, v4 agents, v5   *)
(* call, v6 left, v7 crashes.                                              *)
(* A directory without a project belongs to the call that makes it, or was *)
(* left.                                                                   *)
(***************************************************************************)

LEMMA ProjectsBounds == MaxProjectCrashes \in Nat
BY ServerBoundsAssumption

ProjectsCalls == [at : Space!Makes \cup Space!Uses \cup {"idle"}, id : Items \cup {NoProject}, wipe : BOOLEAN]
ProjectsStates == {"never", "listed", "gone"}
ProjectsDirs == {"none", "whole", "partial"}

LEMMA ProjectsTypes ==
  ASSUME Space!ProjectsInv
  PROVE  /\ v1 \in [Items -> ProjectsStates] /\ v2 \in [Items -> ProjectsDirs]
         /\ v3 \subseteq Items /\ v4 \subseteq Items /\ v6 \subseteq Items
         /\ v5 \in [Workers -> ProjectsCalls]
BY DEF Space!ProjectsInv, Space!ProjectsTypeOK, ProjectsCalls, ProjectsStates, ProjectsDirs

LEMMA ProjectsWaitingIsCall == Space!Waiting \in ProjectsCalls /\ Space!Waiting.at = "idle"
BY DEF Space!Waiting, ProjectsCalls

LEMMA ProjectsInitInv == Space!ProjectsInit => Space!ProjectsInv
<1> SUFFICES ASSUME Space!ProjectsInit PROVE Space!ProjectsInv
  OBVIOUS
<1>1. /\ v1 = [p \in Items |-> "never"] /\ v2 = [p \in Items |-> "none"]
      /\ v3 = {} /\ v4 = {} /\ v6 = {} /\ v5 = [c \in Workers |-> Space!Waiting]
  BY DEF Space!ProjectsInit
<1>2. \A c \in Workers : v5[c].at = "idle"
  BY <1>1, ProjectsWaitingIsCall
<1>3. Space!ProjectsTypeOK
  BY <1>1, ProjectsWaitingIsCall DEF Space!ProjectsTypeOK, ProjectsCalls
<1> QED BY <1>1, <1>2, <1>3 DEF Space!ProjectsInv, Space!Makes, Space!Uses

\* One call, about one project, goes on.
ProjectsMoveIs(c, p, r) ==
  /\ v5' = [v5 EXCEPT ![c] = r]
  /\ v5[c].at = "idle" \/ v5[c].id = p
  /\ r.at = "idle" \/ r.id = p
  /\ v1' \in [Items -> ProjectsStates] /\ v2' \in [Items -> ProjectsDirs]
  /\ v3' \subseteq Items /\ v4' \subseteq Items /\ v6' \subseteq Items
  /\ \A q \in Items : q # p => v1'[q] = v1[q] /\ v2'[q] = v2[q]
  /\ v6 \subseteq v6'
  /\ \A d \in Workers : d # c /\ v5[d].id = p => v5[d].at \notin Space!Makes
  /\ v2'[p] # "none" /\ p \notin v6'
       => v1'[p] # "gone" /\ (v1'[p] = "never" => r.at \in Space!Makes)
  /\ r.at \in Space!Makes => /\ v1'[p] = "never"
                             /\ \A d \in Workers \ {c} : v5[d].at # "idle" => v5[d].id # p
  /\ r.at \in Space!Uses => v1'[p] # "never"
  /\ r.at = "unlisting" /\ r.wipe => v2'[p] = "none" \/ p \in v6'
  /\ v1[p] # "never" => v1'[p] # "never"
  /\ v1[p] # "never" /\ (v2[p] = "none" \/ p \in v6) => v2'[p] = "none" \/ p \in v6'

LEMMA ProjectsMove ==
  ASSUME Space!ProjectsInv, NEW c \in Workers, NEW p \in Items, NEW r \in ProjectsCalls,
         ProjectsMoveIs(c, p, r)
  PROVE  Space!ProjectsInv'
<1> USE DEF ProjectsMoveIs
<1>1. Space!ProjectsTypeOK'
  BY ProjectsTypes DEF Space!ProjectsTypeOK, ProjectsCalls, ProjectsStates, ProjectsDirs
<1>2. \A d \in Workers : v5'[d] = IF d = c THEN r ELSE v5[d]
  BY ProjectsTypes
<1>3. /\ Space!Makes \cap Space!Uses = {} /\ "idle" \notin Space!Makes /\ "idle" \notin Space!Uses
      /\ "unlisting" \in Space!Uses
  BY DEF Space!Makes, Space!Uses
<1>4. \A d \in Workers :
       /\ v5[d].at # "idle" => v5[d].id \in Items
       /\ v5[d].at \in Space!Makes =>
            /\ v1[v5[d].id] = "never"
            /\ \A e \in Workers \ {d} : v5[e].at # "idle" => v5[e].id # v5[d].id
       /\ v5[d].at \in Space!Uses => v1[v5[d].id] # "never"
       /\ v5[d].at = "unlisting" /\ v5[d].wipe => v2[v5[d].id] = "none" \/ v5[d].id \in v6
  BY DEF Space!ProjectsInv
<1>5. ASSUME NEW q \in Items, v2'[q] # "none", q \notin v6'
      PROVE  /\ v1'[q] # "gone"
             /\ v1'[q] = "never" => \E d \in Workers : v5'[d].at \in Space!Makes /\ v5'[d].id = q
  <2>1. CASE q = p
    BY <1>2, <1>3, <1>5, <2>1
  <2>2. CASE q # p
    <3>1. /\ v1[q] # "gone"
          /\ v1[q] = "never" => \E d \in Workers : v5[d].at \in Space!Makes /\ v5[d].id = q
      BY <1>5, <2>2 DEF Space!ProjectsInv
    <3>2. \A d \in Workers : v5[d].at \in Space!Makes /\ v5[d].id = q => d # c
      BY <1>3, <2>2
    <3> QED BY <1>2, <2>2, <3>1, <3>2
  <2> QED BY <2>1, <2>2
<1>6. ASSUME NEW d \in Workers
      PROVE  /\ v5'[d].at # "idle" => v5'[d].id \in Items
             /\ v5'[d].at \in Space!Makes =>
                  /\ v1'[v5'[d].id] = "never"
                  /\ \A e \in Workers \ {d} : v5'[e].at # "idle" => v5'[e].id # v5'[d].id
             /\ v5'[d].at \in Space!Uses => v1'[v5'[d].id] # "never"
             /\ v5'[d].at = "unlisting" /\ v5'[d].wipe => v2'[v5'[d].id] = "none" \/ v5'[d].id \in v6'
  <2>1. CASE d = c
    <3>1. v5'[d] = r /\ \A e \in Workers \ {d} : v5'[e] = v5[e]
      BY <1>2, <2>1
    <3> QED BY <1>3, <2>1, <3>1
  <2>2. CASE d # c
    <3>1. v5'[d] = v5[d]
      BY <1>2, <2>2
    <3>2. CASE v5[d].id = p
      <4>1. v5[d].at \notin Space!Makes
        BY <2>2, <3>2
      <4> QED BY <1>3, <1>4, <3>1, <3>2, <4>1
    <3>3. CASE v5[d].id # p
      <4>1. v5[d].at # "idle" => v5[d].id \in Items /\ v1'[v5[d].id] = v1[v5[d].id] /\ v2'[v5[d].id] = v2[v5[d].id]
        BY <1>4, <3>3
      <4>2. v5[d].at \in Space!Makes => \A e \in Workers \ {d} : v5'[e].at # "idle" => v5'[e].id # v5[d].id
        <5> SUFFICES ASSUME v5[d].at \in Space!Makes, NEW e \in Workers \ {d}, v5'[e].at # "idle"
                     PROVE  v5'[e].id # v5[d].id
          OBVIOUS
        <5>1. CASE e = c
          BY <1>2, <3>3, <5>1
        <5>2. CASE e # c
          BY <1>2, <1>4, <5>2
        <5> QED BY <5>1, <5>2
      <4> QED BY <1>3, <1>4, <3>1, <4>1, <4>2
    <3> QED BY <3>2, <3>3
  <2> QED BY <2>1, <2>2
<1> QED BY <1>1, <1>5, <1>6 DEF Space!ProjectsInv

\* Two calls about one project that is being made are one.
LEMMA ProjectsOneMakes ==
  ASSUME Space!ProjectsInv, NEW c \in Workers, v5[c].at # "idle"
  PROVE  /\ v5[c].id \in Items
         /\ \A d \in Workers : d # c /\ v5[d].id = v5[c].id => v5[d].at \notin Space!Makes
BY DEF Space!ProjectsInv, Space!Makes

LEMMA ProjectsMakesInv ==
  ASSUME Space!ProjectsInv, NEW c \in Workers,
         \/ \E p \in Items : Space!MakeWorkspace(c, p)
         \/ Space!MakeFails(c) \/ Space!MakeEnds(c) \/ Space!InsertProject(c)
  PROVE  Space!ProjectsInv'
<1>0. /\ v1 \in [Items -> ProjectsStates] /\ v2 \in [Items -> ProjectsDirs]
      /\ v3 \subseteq Items /\ v4 \subseteq Items /\ v6 \subseteq Items
  BY ProjectsTypes
<1>a. /\ Space!Waiting \in ProjectsCalls /\ Space!Waiting.at = "idle"
      /\ "idle" \notin Space!Makes \cup Space!Uses
  BY ProjectsWaitingIsCall DEF Space!Makes, Space!Uses
<1>b. \A q \in Items : \A x \in ProjectsDirs :
        /\ [v2 EXCEPT ![q] = x] \in [Items -> ProjectsDirs]
        /\ [v2 EXCEPT ![q] = x][q] = x /\ \A y \in Items : y # q => [v2 EXCEPT ![q] = x][y] = v2[y]
  BY <1>0
<1>c. /\ "making" \in Space!Makes /\ "inserting" \in Space!Makes /\ Space!Makes \cap Space!Uses = {}
      /\ "unlisting" \notin Space!Makes
      /\ {"none", "partial", "whole"} \subseteq ProjectsDirs
  BY DEF Space!Makes, Space!Uses, ProjectsDirs
<1>1. ASSUME NEW p \in Items, Space!MakeWorkspace(c, p) PROVE Space!ProjectsInv'
  <2> DEFINE r == [at |-> "making", id |-> p, wipe |-> FALSE]
  <2>1. /\ v5[c].at = "idle" /\ v1[p] = "never" /\ \A d \in Workers : v5[d].id # p
        /\ v2' = [v2 EXCEPT ![p] = "partial"] /\ v5' = [v5 EXCEPT ![c] = r]
        /\ UNCHANGED <<v1, v3, v4, v6>>
    BY <1>1 DEF Space!MakeWorkspace, Space!Goes, Space!Working
  <2>2. r \in ProjectsCalls /\ r.at = "making" /\ r.id = p
    BY DEF ProjectsCalls, Space!Makes
  <2> HIDE DEF r
  <2>a. \A q \in Items : q # p => v1'[q] = v1[q] /\ v2'[q] = v2[q]
    BY <1>b, <1>c, <2>1
  <2>b. v6 \subseteq v6' /\ v2' \in [Items -> ProjectsDirs] /\ v1' \in [Items -> ProjectsStates]
    BY <1>0, <1>b, <1>c, <2>1
  <2>c. v3' \subseteq Items /\ v4' \subseteq Items /\ v6' \subseteq Items
    BY <1>0, <2>1
  <2>d. v2'[p] # "none" /\ p \notin v6' => v1'[p] # "gone" /\ (v1'[p] = "never" => r.at \in Space!Makes)
    BY <1>c, <2>1, <2>2
  <2>e. r.at \in Space!Makes => v1'[p] = "never" /\ \A d \in Workers \ {c} : v5[d].at # "idle" => v5[d].id # p
    BY <1>c, <2>1, <2>2
  <2>f. r.at \notin Space!Uses /\ r.at # "unlisting"
    BY <1>c, <2>1, <2>2
  <2>g. v1[p] = "never" /\ \A d \in Workers : d # c /\ v5[d].id = p => v5[d].at \notin Space!Makes
    BY <2>1
  <2>z. ProjectsMoveIs(c, p, r)
    BY <2>1, <2>2, <2>a, <2>b, <2>c, <2>d, <2>e, <2>f, <2>g DEF ProjectsMoveIs
  <2> QED BY <2>1, <2>2, <2>z, ProjectsMove
<1> DEFINE p == v5[c].id
<1>2. CASE Space!MakeFails(c)
  <2>1. /\ v5[c].at = "making" /\ v2' = [v2 EXCEPT ![p] = "none"] /\ v5' = [v5 EXCEPT ![c] = Space!Waiting]
        /\ UNCHANGED <<v1, v3, v4, v6>>
    BY <1>2 DEF Space!MakeFails, Space!Answers
  <2>2. /\ p \in Items /\ v1[p] = "never"
        /\ \A d \in Workers : d # c /\ v5[d].id = p => v5[d].at \notin Space!Makes
    BY <1>c, <2>1, ProjectsOneMakes DEF Space!ProjectsInv
  <2> HIDE DEF p
  <2>3. v5[c].id = p
    BY DEF p
  <2>a. \A q \in Items : q # p => v1'[q] = v1[q] /\ v2'[q] = v2[q]
    BY <1>0, <1>a, <1>b, <1>c, <2>1, <2>2
  <2>b. /\ v6 \subseteq v6' /\ v2' \in [Items -> ProjectsDirs] /\ v1' \in [Items -> ProjectsStates]
        /\ v3' \subseteq Items /\ v4' \subseteq Items /\ v6' \subseteq Items
    BY <1>0, <1>a, <1>b, <1>c, <2>1, <2>2
  <2>c. v2'[p] # "none" /\ p \notin v6' => v1'[p] # "gone" /\ (v1'[p] = "never" => Space!Waiting.at \in Space!Makes)
    BY <1>0, <1>a, <1>b, <1>c, <2>1, <2>2
  <2>d. /\ Space!Waiting.at \notin Space!Makes /\ Space!Waiting.at \notin Space!Uses
        /\ Space!Waiting.at # "unlisting"
    BY <1>0, <1>a, <1>b, <1>c, <2>1, <2>2
  <2>e. /\ v1[p] # "never" => v1'[p] # "never"
        /\ v1[p] # "never" /\ (v2[p] = "none" \/ p \in v6) => v2'[p] = "none" \/ p \in v6'
    BY <1>0, <1>a, <1>b, <1>c, <2>1, <2>2
  <2>f. \A d \in Workers : d # c /\ v5[d].id = p => v5[d].at \notin Space!Makes
    BY <1>0, <1>a, <1>b, <1>c, <2>1, <2>2
  <2>z. ProjectsMoveIs(c, p, Space!Waiting)
    BY <1>a, <2>1, <2>2, <2>3, <2>a, <2>b, <2>c, <2>d, <2>e, <2>f DEF ProjectsMoveIs
  <2> QED BY <1>a, <2>1, <2>2, <2>3, <2>z, ProjectsMove
<1>3. CASE Space!MakeEnds(c)
  <2> DEFINE r == [at |-> "inserting", id |-> p, wipe |-> FALSE]
  <2>1. /\ v5[c].at = "making" /\ v2' = [v2 EXCEPT ![p] = "whole"] /\ v5' = [v5 EXCEPT ![c] = r]
        /\ UNCHANGED <<v1, v3, v4, v6>>
    BY <1>3 DEF Space!MakeEnds, Space!Goes
  <2>2. /\ p \in Items /\ v1[p] = "never"
        /\ \A d \in Workers : d # c /\ v5[d].id = p => v5[d].at \notin Space!Makes
    BY <1>c, <2>1, ProjectsOneMakes DEF Space!ProjectsInv
  <2>3. \A d \in Workers \ {c} : v5[d].at # "idle" => v5[d].id # p
    BY <1>c, <2>1 DEF Space!ProjectsInv
  <2>4. r \in ProjectsCalls /\ r.at = "inserting" /\ r.id = p
    BY <2>2 DEF ProjectsCalls, Space!Makes
  <2>5. v5[c].id = p
    OBVIOUS
  <2> HIDE DEF r, p
  <2>a. \A q \in Items : q # p => v1'[q] = v1[q] /\ v2'[q] = v2[q]
    BY <1>0, <1>a, <1>b, <1>c, <2>1, <2>2, <2>3, <2>4
  <2>b. /\ v6 \subseteq v6' /\ v2' \in [Items -> ProjectsDirs] /\ v1' \in [Items -> ProjectsStates]
        /\ v3' \subseteq Items /\ v4' \subseteq Items /\ v6' \subseteq Items
    BY <1>0, <1>a, <1>b, <1>c, <2>1, <2>2, <2>3, <2>4
  <2>c. v2'[p] # "none" /\ p \notin v6' => v1'[p] # "gone" /\ (v1'[p] = "never" => r.at \in Space!Makes)
    BY <1>0, <1>a, <1>b, <1>c, <2>1, <2>2, <2>3, <2>4
  <2>d. r.at \in Space!Makes /\ r.at \notin Space!Uses /\ r.at # "unlisting" /\ v1'[p] = "never"
    BY <1>0, <1>a, <1>b, <1>c, <2>1, <2>2, <2>3, <2>4
  <2>e. /\ v1[p] # "never" => v1'[p] # "never"
        /\ v1[p] # "never" /\ (v2[p] = "none" \/ p \in v6) => v2'[p] = "none" \/ p \in v6'
    BY <1>0, <1>a, <1>b, <1>c, <2>1, <2>2, <2>3, <2>4
  <2>f. \A d \in Workers : d # c /\ v5[d].id = p => v5[d].at \notin Space!Makes
    BY <1>0, <1>a, <1>b, <1>c, <2>1, <2>2, <2>3, <2>4
  <2>z. ProjectsMoveIs(c, p, r)
    BY <2>1, <2>2, <2>3, <2>4, <2>5, <2>a, <2>b, <2>c, <2>d, <2>e, <2>f DEF ProjectsMoveIs
  <2> QED BY <2>1, <2>2, <2>3, <2>4, <2>z, ProjectsMove
<1>4. CASE Space!InsertProject(c)
  <2>1. /\ v5[c].at = "inserting" /\ v5' = [v5 EXCEPT ![c] = Space!Waiting]
        /\ \/ v1' = [v1 EXCEPT ![p] = "listed"] /\ v2' = v2
           \/ v2' = [v2 EXCEPT ![p] = "none"] /\ v1' = v1
        /\ UNCHANGED <<v3, v4, v6>>
    BY <1>4 DEF Space!InsertProject, Space!Answers
  <2>2. /\ p \in Items /\ v1[p] = "never"
        /\ \A d \in Workers : d # c /\ v5[d].id = p => v5[d].at \notin Space!Makes
    BY <1>c, <2>1, ProjectsOneMakes DEF Space!ProjectsInv
  <2>3. v5[c].id = p
    OBVIOUS
  <2> HIDE DEF p
  <2>4. CASE v1' = [v1 EXCEPT ![p] = "listed"] /\ v2' = v2
    <3>1. v1' \in [Items -> ProjectsStates] /\ v1'[p] = "listed" /\ \A q \in Items : q # p => v1'[q] = v1[q]
      BY <1>0, <2>2, <2>4 DEF ProjectsStates
    <3>a. \A q \in Items : q # p => v1'[q] = v1[q] /\ v2'[q] = v2[q]
      BY <1>0, <1>a, <1>c, <2>1, <2>2, <2>4, <3>1
    <3>b. /\ v6 \subseteq v6' /\ v2' \in [Items -> ProjectsDirs] /\ v1' \in [Items -> ProjectsStates]
          /\ v3' \subseteq Items /\ v4' \subseteq Items /\ v6' \subseteq Items
      BY <1>0, <1>a, <1>c, <2>1, <2>2, <2>4, <3>1
    <3>c. v2'[p] # "none" /\ p \notin v6' => v1'[p] # "gone" /\ (v1'[p] = "never" => Space!Waiting.at \in Space!Makes)
      BY <1>0, <1>a, <1>c, <2>1, <2>2, <2>4, <3>1
    <3>d. /\ Space!Waiting.at \notin Space!Makes /\ Space!Waiting.at \notin Space!Uses
          /\ Space!Waiting.at # "unlisting"
      BY <1>0, <1>a, <1>c, <2>1, <2>2, <2>4, <3>1
    <3>e. /\ v1[p] # "never" => v1'[p] # "never"
          /\ v1[p] # "never" /\ (v2[p] = "none" \/ p \in v6) => v2'[p] = "none" \/ p \in v6'
      BY <1>0, <1>a, <1>c, <2>1, <2>2, <2>4, <3>1
    <3>f. \A d \in Workers : d # c /\ v5[d].id = p => v5[d].at \notin Space!Makes
      BY <1>0, <1>a, <1>c, <2>1, <2>2, <2>4, <3>1
    <3>z. ProjectsMoveIs(c, p, Space!Waiting)
      BY <1>a, <2>1, <2>2, <2>3, <3>a, <3>b, <3>c, <3>d, <3>e, <3>f DEF ProjectsMoveIs
    <3> QED BY <1>a, <2>1, <2>2, <2>3, <3>z, ProjectsMove
  <2>5. CASE v2' = [v2 EXCEPT ![p] = "none"] /\ v1' = v1
    <3>a. \A q \in Items : q # p => v1'[q] = v1[q] /\ v2'[q] = v2[q]
      BY <1>0, <1>a, <1>b, <1>c, <2>1, <2>2, <2>5
    <3>b. /\ v6 \subseteq v6' /\ v2' \in [Items -> ProjectsDirs] /\ v1' \in [Items -> ProjectsStates]
          /\ v3' \subseteq Items /\ v4' \subseteq Items /\ v6' \subseteq Items
      BY <1>0, <1>a, <1>b, <1>c, <2>1, <2>2, <2>5
    <3>c. v2'[p] # "none" /\ p \notin v6' => v1'[p] # "gone" /\ (v1'[p] = "never" => Space!Waiting.at \in Space!Makes)
      BY <1>0, <1>a, <1>b, <1>c, <2>1, <2>2, <2>5
    <3>d. /\ Space!Waiting.at \notin Space!Makes /\ Space!Waiting.at \notin Space!Uses
          /\ Space!Waiting.at # "unlisting"
      BY <1>0, <1>a, <1>b, <1>c, <2>1, <2>2, <2>5
    <3>e. /\ v1[p] # "never" => v1'[p] # "never"
          /\ v1[p] # "never" /\ (v2[p] = "none" \/ p \in v6) => v2'[p] = "none" \/ p \in v6'
      BY <1>0, <1>a, <1>b, <1>c, <2>1, <2>2, <2>5
    <3>f. \A d \in Workers : d # c /\ v5[d].id = p => v5[d].at \notin Space!Makes
      BY <1>0, <1>a, <1>b, <1>c, <2>1, <2>2, <2>5
    <3>z. ProjectsMoveIs(c, p, Space!Waiting)
      BY <1>a, <2>1, <2>2, <2>3, <3>a, <3>b, <3>c, <3>d, <3>e, <3>f DEF ProjectsMoveIs
    <3> QED BY <1>a, <2>1, <2>2, <2>3, <3>z, ProjectsMove
  <2> QED BY <2>1, <2>4, <2>5
<1> QED BY <1>1, <1>2, <1>3, <1>4

LEMMA ProjectsUsesInv ==
  ASSUME Space!ProjectsInv, NEW c \in Workers,
         \/ \E p \in Items : Space!StartLooksUp(c, p) \/ \E wipe \in BOOLEAN : Space!DeleteLooksUp(c, p, wipe)
         \/ Space!WipeFails(c) \/ Space!WipeEnds(c) \/ Space!DeleteRow(c) \/ Space!StartInserts(c) \/ Space!StartSpawns(c)
  PROVE  Space!ProjectsInv'
<1>0. /\ v1 \in [Items -> ProjectsStates] /\ v2 \in [Items -> ProjectsDirs]
      /\ v3 \subseteq Items /\ v4 \subseteq Items /\ v6 \subseteq Items
  BY ProjectsTypes
<1>a. /\ Space!Waiting \in ProjectsCalls /\ Space!Waiting.at = "idle"
      /\ "idle" \notin Space!Makes \cup Space!Uses
  BY ProjectsWaitingIsCall DEF Space!Makes, Space!Uses
<1>b. \A q \in Items : \A x \in ProjectsDirs :
        /\ [v2 EXCEPT ![q] = x] \in [Items -> ProjectsDirs]
        /\ [v2 EXCEPT ![q] = x][q] = x /\ \A y \in Items : y # q => [v2 EXCEPT ![q] = x][y] = v2[y]
  BY <1>0
<1>c. /\ {"wiping", "unlisting", "starting", "spawning"} \subseteq Space!Uses
      /\ Space!Makes \cap Space!Uses = {}
      /\ {"none", "partial", "whole"} \subseteq ProjectsDirs
  BY DEF Space!Makes, Space!Uses, ProjectsDirs
\* A call about a project that was made.
<1>d. ASSUME NEW p \in Items, v1[p] # "never"
      PROVE  /\ \A d \in Workers : v5[d].id = p => v5[d].at \notin Space!Makes
             /\ v2[p] # "none" /\ p \notin v6 => v1[p] # "gone"
  BY <1>d DEF Space!ProjectsInv
<1>1. ASSUME NEW p \in Items, NEW at \in {"wiping", "unlisting", "starting"}, NEW wipe \in BOOLEAN,
             at = "unlisting" => ~wipe,
             v5[c].at = "idle", v1[p] = "listed", Space!Goes(c, at, p, wipe),
             UNCHANGED <<v1, v2, v3, v4, v6>>
      PROVE  Space!ProjectsInv'
  <2> DEFINE r == [at |-> at, id |-> p, wipe |-> wipe]
  <2>1. r \in ProjectsCalls /\ r.at = at /\ r.id = p /\ r.wipe = wipe /\ v5' = [v5 EXCEPT ![c] = r]
    BY <1>1 DEF ProjectsCalls, Space!Uses, Space!Goes
  <2>2. at \in Space!Uses /\ at \notin Space!Makes
    BY DEF Space!Makes, Space!Uses
  <2> HIDE DEF r
  <2>a. \A q \in Items : q # p => v1'[q] = v1[q] /\ v2'[q] = v2[q]
    BY <1>0, <1>1, <1>d, <2>1, <2>2
  <2>b. /\ v6 \subseteq v6' /\ v2' \in [Items -> ProjectsDirs] /\ v1' \in [Items -> ProjectsStates]
        /\ v3' \subseteq Items /\ v4' \subseteq Items /\ v6' \subseteq Items
    BY <1>0, <1>1, <1>d, <2>1, <2>2
  <2>c. v2'[p] # "none" /\ p \notin v6' => v1'[p] # "gone" /\ (v1'[p] = "never" => r.at \in Space!Makes)
    BY <1>0, <1>1, <1>d, <2>1, <2>2
  <2>d. (r.at = "unlisting" => ~r.wipe) /\ r.at \notin Space!Makes /\ r.at \in Space!Uses /\ v1'[p] # "never"
    BY <1>0, <1>1, <1>d, <2>1, <2>2
  <2>e. /\ v1[p] # "never" => v1'[p] # "never"
        /\ v1[p] # "never" /\ (v2[p] = "none" \/ p \in v6) => v2'[p] = "none" \/ p \in v6'
    BY <1>0, <1>1, <1>d, <2>1, <2>2
  <2>f. \A d \in Workers : d # c /\ v5[d].id = p => v5[d].at \notin Space!Makes
    BY <1>0, <1>1, <1>d, <2>1, <2>2
  <2>z. ProjectsMoveIs(c, p, r)
    BY <1>1, <2>1, <2>2, <2>a, <2>b, <2>c, <2>d, <2>e, <2>f DEF ProjectsMoveIs
  <2> QED BY <2>1, <2>2, <2>z, ProjectsMove
<1>2. ASSUME NEW p \in Items, NEW wipe \in BOOLEAN, Space!DeleteLooksUp(c, p, wipe) PROVE Space!ProjectsInv'
  <2>1. v5[c].at = "idle" /\ v1[p] = "listed" /\ Space!Goes(c, Space!AfterLookup(wipe), p, wipe)
        /\ UNCHANGED <<v1, v2, v3, v4, v6>>
    BY <1>2 DEF Space!DeleteLooksUp
  <2>2. /\ Space!AfterLookup(wipe) \in {"wiping", "unlisting"}
        /\ (Space!AfterLookup(wipe) = "unlisting" => ~wipe)
    BY DEF Space!AfterLookup
  <2> QED BY <1>1, <2>1, <2>2
<1>3. ASSUME NEW p \in Items, Space!StartLooksUp(c, p) PROVE Space!ProjectsInv'
  BY <1>1, <1>3 DEF Space!StartLooksUp
<1> DEFINE p == v5[c].id
<1>e. v5[c].at \in Space!Uses => p \in Items /\ v1[p] # "never"
  BY DEF Space!ProjectsInv, Space!Uses
<1>f. v5[c].id = p
  OBVIOUS
<1>4. CASE Space!WipeFails(c)
  <2>1. /\ v5[c].at = "wiping" /\ v2[p] # "none" /\ v2' = [v2 EXCEPT ![p] = "partial"]
        /\ v5' = [v5 EXCEPT ![c] = Space!Waiting] /\ UNCHANGED <<v1, v3, v4, v6>>
    BY <1>4 DEF Space!WipeFails, Space!Answers
  <2>2. p \in Items /\ v1[p] # "never"
    BY <1>c, <1>e, <2>1
  <2> HIDE DEF p
  <2>a. \A q \in Items : q # p => v1'[q] = v1[q] /\ v2'[q] = v2[q]
    BY <1>0, <1>a, <1>b, <1>c, <1>d, <2>1, <2>2
  <2>b. /\ v6 \subseteq v6' /\ v2' \in [Items -> ProjectsDirs] /\ v1' \in [Items -> ProjectsStates]
        /\ v3' \subseteq Items /\ v4' \subseteq Items /\ v6' \subseteq Items
    BY <1>0, <1>a, <1>b, <1>c, <1>d, <2>1, <2>2
  <2>c. v2'[p] # "none" /\ p \notin v6' => v1'[p] # "gone" /\ (v1'[p] = "never" => Space!Waiting.at \in Space!Makes)
    BY <1>0, <1>a, <1>b, <1>c, <1>d, <2>1, <2>2
  <2>d. /\ Space!Waiting.at \notin Space!Makes /\ Space!Waiting.at \notin Space!Uses
        /\ Space!Waiting.at # "unlisting"
    BY <1>0, <1>a, <1>b, <1>c, <1>d, <2>1, <2>2
  <2>e. /\ v1[p] # "never" => v1'[p] # "never"
        /\ v1[p] # "never" /\ (v2[p] = "none" \/ p \in v6) => v2'[p] = "none" \/ p \in v6'
    BY <1>0, <1>a, <1>b, <1>c, <1>d, <2>1, <2>2
  <2>f. \A d \in Workers : d # c /\ v5[d].id = p => v5[d].at \notin Space!Makes
    BY <1>0, <1>a, <1>b, <1>c, <1>d, <2>1, <2>2
  <2>z. ProjectsMoveIs(c, p, Space!Waiting)
    BY <1>a, <1>f, <2>1, <2>2, <2>a, <2>b, <2>c, <2>d, <2>e, <2>f DEF ProjectsMoveIs
  <2> QED BY <1>a, <2>1, <2>2, <2>z, ProjectsMove
<1>5. CASE Space!WipeEnds(c)
  <2> DEFINE r == [at |-> "unlisting", id |-> p, wipe |-> TRUE]
  <2>1. /\ v5[c].at = "wiping" /\ v2' = [v2 EXCEPT ![p] = "none"] /\ v5' = [v5 EXCEPT ![c] = r]
        /\ UNCHANGED <<v1, v3, v4, v6>>
    BY <1>5 DEF Space!WipeEnds, Space!Goes
  <2>2. p \in Items /\ v1[p] # "never"
    BY <1>c, <1>e, <2>1
  <2>3. r \in ProjectsCalls /\ r.at = "unlisting" /\ r.id = p
    BY <2>2 DEF ProjectsCalls, Space!Uses
  <2> HIDE DEF r, p
  <2>a. \A q \in Items : q # p => v1'[q] = v1[q] /\ v2'[q] = v2[q]
    BY <1>0, <1>a, <1>b, <1>c, <1>d, <2>1, <2>2, <2>3
  <2>b. /\ v6 \subseteq v6' /\ v2' \in [Items -> ProjectsDirs] /\ v1' \in [Items -> ProjectsStates]
        /\ v3' \subseteq Items /\ v4' \subseteq Items /\ v6' \subseteq Items
    BY <1>0, <1>a, <1>b, <1>c, <1>d, <2>1, <2>2, <2>3
  <2>c. v2'[p] # "none" /\ p \notin v6' => v1'[p] # "gone" /\ (v1'[p] = "never" => r.at \in Space!Makes)
    BY <1>0, <1>a, <1>b, <1>c, <1>d, <2>1, <2>2, <2>3
  <2>d. r.at \notin Space!Makes /\ v1'[p] # "never" /\ v2'[p] = "none"
    BY <1>0, <1>a, <1>b, <1>c, <1>d, <2>1, <2>2, <2>3
  <2>e. /\ v1[p] # "never" => v1'[p] # "never"
        /\ v1[p] # "never" /\ (v2[p] = "none" \/ p \in v6) => v2'[p] = "none" \/ p \in v6'
    BY <1>0, <1>a, <1>b, <1>c, <1>d, <2>1, <2>2, <2>3
  <2>f. \A d \in Workers : d # c /\ v5[d].id = p => v5[d].at \notin Space!Makes
    BY <1>0, <1>a, <1>b, <1>c, <1>d, <2>1, <2>2, <2>3
  <2>z. ProjectsMoveIs(c, p, r)
    BY <1>f, <2>1, <2>2, <2>3, <2>a, <2>b, <2>c, <2>d, <2>e, <2>f DEF ProjectsMoveIs
  <2> QED BY <2>1, <2>2, <2>3, <2>z, ProjectsMove
<1>6. CASE Space!DeleteRow(c)
  <2>1. /\ v5[c].at = "unlisting" /\ v1' = [v1 EXCEPT ![p] = "gone"]
        /\ v6' = IF v5[c].wipe THEN v6 ELSE v6 \cup {p}
        /\ v3' = v3 \ {p}
        /\ v5' = [v5 EXCEPT ![c] = Space!Waiting] /\ UNCHANGED <<v2, v4>>
    BY <1>6 DEF Space!DeleteRow, Space!Answers
  <2>2. p \in Items /\ v1[p] # "never"
    BY <1>c, <1>e, <2>1
  <2>3. v2[p] = "none" \/ p \in v6'
    BY <2>1 DEF Space!ProjectsInv
  <2> HIDE DEF p
  <2>4. v1' \in [Items -> ProjectsStates] /\ v1'[p] = "gone" /\ \A q \in Items : q # p => v1'[q] = v1[q]
    BY <1>0, <2>1, <2>2 DEF ProjectsStates
  <2>5. v6 \subseteq v6' /\ v6' \subseteq Items /\ v3' \subseteq Items
    BY <1>0, <2>1, <2>2
  <2>a. \A q \in Items : q # p => v1'[q] = v1[q] /\ v2'[q] = v2[q]
    BY <1>0, <1>a, <1>c, <1>d, <2>1, <2>2, <2>3, <2>4, <2>5
  <2>b. /\ v6 \subseteq v6' /\ v2' \in [Items -> ProjectsDirs] /\ v1' \in [Items -> ProjectsStates]
        /\ v3' \subseteq Items /\ v4' \subseteq Items /\ v6' \subseteq Items
    BY <1>0, <1>a, <1>c, <1>d, <2>1, <2>2, <2>3, <2>4, <2>5
  <2>c. v2'[p] # "none" /\ p \notin v6' => v1'[p] # "gone" /\ (v1'[p] = "never" => Space!Waiting.at \in Space!Makes)
    BY <1>0, <1>a, <1>c, <1>d, <2>1, <2>2, <2>3, <2>4, <2>5
  <2>d. /\ Space!Waiting.at \notin Space!Makes /\ Space!Waiting.at \notin Space!Uses
        /\ Space!Waiting.at # "unlisting"
    BY <1>0, <1>a, <1>c, <1>d, <2>1, <2>2, <2>3, <2>4, <2>5
  <2>e. /\ v1[p] # "never" => v1'[p] # "never"
        /\ v1[p] # "never" /\ (v2[p] = "none" \/ p \in v6) => v2'[p] = "none" \/ p \in v6'
    BY <1>0, <1>a, <1>c, <1>d, <2>1, <2>2, <2>3, <2>4, <2>5
  <2>f. \A d \in Workers : d # c /\ v5[d].id = p => v5[d].at \notin Space!Makes
    BY <1>0, <1>a, <1>c, <1>d, <2>1, <2>2, <2>3, <2>4, <2>5
  <2>z. ProjectsMoveIs(c, p, Space!Waiting)
    BY <1>a, <1>f, <2>1, <2>2, <2>a, <2>b, <2>c, <2>d, <2>e, <2>f DEF ProjectsMoveIs
  <2> QED BY <1>a, <2>1, <2>2, <2>z, ProjectsMove
<1>7. CASE Space!StartInserts(c)
  <2> DEFINE r == [at |-> "spawning", id |-> p, wipe |-> FALSE]
  <2>1. /\ v5[c].at = "starting" /\ \/ v3' = v3 \cup {p} /\ v5' = [v5 EXCEPT ![c] = r]
                                    \/ v3' = v3 /\ v5' = [v5 EXCEPT ![c] = Space!Waiting]
        /\ UNCHANGED <<v1, v2, v4, v6>>
    BY <1>7 DEF Space!StartInserts, Space!Answers, Space!Goes
  <2>2. p \in Items /\ v1[p] # "never"
    BY <1>c, <1>e, <2>1
  <2>3. r \in ProjectsCalls /\ r.at = "spawning" /\ r.id = p
    BY <2>2 DEF ProjectsCalls, Space!Uses
  <2>4. v3' \subseteq Items
    BY <1>0, <2>1, <2>2
  <2> HIDE DEF r, p
  <2>5. CASE v5' = [v5 EXCEPT ![c] = r]
    <3>a. \A q \in Items : q # p => v1'[q] = v1[q] /\ v2'[q] = v2[q]
      BY <1>0, <1>c, <1>d, <2>1, <2>2, <2>3, <2>4
    <3>b. /\ v6 \subseteq v6' /\ v2' \in [Items -> ProjectsDirs] /\ v1' \in [Items -> ProjectsStates]
          /\ v3' \subseteq Items /\ v4' \subseteq Items /\ v6' \subseteq Items
      BY <1>0, <1>c, <1>d, <2>1, <2>2, <2>3, <2>4
    <3>c. v2'[p] # "none" /\ p \notin v6' => v1'[p] # "gone" /\ (v1'[p] = "never" => r.at \in Space!Makes)
      BY <1>0, <1>c, <1>d, <2>1, <2>2, <2>3, <2>4
    <3>d. r.at \notin Space!Makes /\ r.at # "unlisting" /\ v1'[p] # "never"
      BY <1>0, <1>c, <1>d, <2>1, <2>2, <2>3, <2>4
    <3>e. /\ v1[p] # "never" => v1'[p] # "never"
          /\ v1[p] # "never" /\ (v2[p] = "none" \/ p \in v6) => v2'[p] = "none" \/ p \in v6'
      BY <1>0, <1>c, <1>d, <2>1, <2>2, <2>3, <2>4
    <3>f. \A d \in Workers : d # c /\ v5[d].id = p => v5[d].at \notin Space!Makes
      BY <1>0, <1>c, <1>d, <2>1, <2>2, <2>3, <2>4
    <3>z. ProjectsMoveIs(c, p, r)
      BY <1>f, <2>1, <2>2, <2>3, <2>5, <3>a, <3>b, <3>c, <3>d, <3>e, <3>f DEF ProjectsMoveIs
    <3> QED BY <2>1, <2>2, <2>3, <3>z, ProjectsMove
  <2>6. CASE v5' = [v5 EXCEPT ![c] = Space!Waiting]
    <3>a. \A q \in Items : q # p => v1'[q] = v1[q] /\ v2'[q] = v2[q]
      BY <1>0, <1>a, <1>c, <1>d, <2>1, <2>2, <2>4
    <3>b. /\ v6 \subseteq v6' /\ v2' \in [Items -> ProjectsDirs] /\ v1' \in [Items -> ProjectsStates]
          /\ v3' \subseteq Items /\ v4' \subseteq Items /\ v6' \subseteq Items
      BY <1>0, <1>a, <1>c, <1>d, <2>1, <2>2, <2>4
    <3>c. v2'[p] # "none" /\ p \notin v6' => v1'[p] # "gone" /\ (v1'[p] = "never" => Space!Waiting.at \in Space!Makes)
      BY <1>0, <1>a, <1>c, <1>d, <2>1, <2>2, <2>4
    <3>d. /\ Space!Waiting.at \notin Space!Makes /\ Space!Waiting.at \notin Space!Uses
          /\ Space!Waiting.at # "unlisting"
      BY <1>0, <1>a, <1>c, <1>d, <2>1, <2>2, <2>4
    <3>e. /\ v1[p] # "never" => v1'[p] # "never"
          /\ v1[p] # "never" /\ (v2[p] = "none" \/ p \in v6) => v2'[p] = "none" \/ p \in v6'
      BY <1>0, <1>a, <1>c, <1>d, <2>1, <2>2, <2>4
    <3>f. \A d \in Workers : d # c /\ v5[d].id = p => v5[d].at \notin Space!Makes
      BY <1>0, <1>a, <1>c, <1>d, <2>1, <2>2, <2>4
    <3>z. ProjectsMoveIs(c, p, Space!Waiting)
      BY <1>a, <1>f, <2>1, <2>2, <2>6, <3>a, <3>b, <3>c, <3>d, <3>e, <3>f DEF ProjectsMoveIs
    <3> QED BY <1>a, <2>1, <2>2, <3>z, ProjectsMove
  <2> QED BY <2>1, <2>5, <2>6
<1>8. CASE Space!StartSpawns(c)
  <2>1. /\ v5[c].at = "spawning" /\ v4' \subseteq v4 \cup {p} /\ v3' \subseteq v3
        /\ v5' = [v5 EXCEPT ![c] = Space!Waiting] /\ UNCHANGED <<v1, v2, v6>>
    BY <1>8 DEF Space!StartSpawns, Space!Answers
  <2>2. p \in Items /\ v1[p] # "never"
    BY <1>c, <1>e, <2>1
  <2>3. v4' \subseteq Items /\ v3' \subseteq Items
    BY <1>0, <2>1, <2>2
  <2> HIDE DEF p
  <2>a. \A q \in Items : q # p => v1'[q] = v1[q] /\ v2'[q] = v2[q]
    BY <1>0, <1>a, <1>c, <1>d, <2>1, <2>2, <2>3
  <2>b. /\ v6 \subseteq v6' /\ v2' \in [Items -> ProjectsDirs] /\ v1' \in [Items -> ProjectsStates]
        /\ v3' \subseteq Items /\ v4' \subseteq Items /\ v6' \subseteq Items
    BY <1>0, <1>a, <1>c, <1>d, <2>1, <2>2, <2>3
  <2>c. v2'[p] # "none" /\ p \notin v6' => v1'[p] # "gone" /\ (v1'[p] = "never" => Space!Waiting.at \in Space!Makes)
    BY <1>0, <1>a, <1>c, <1>d, <2>1, <2>2, <2>3
  <2>d. /\ Space!Waiting.at \notin Space!Makes /\ Space!Waiting.at \notin Space!Uses
        /\ Space!Waiting.at # "unlisting"
    BY <1>0, <1>a, <1>c, <1>d, <2>1, <2>2, <2>3
  <2>e. /\ v1[p] # "never" => v1'[p] # "never"
        /\ v1[p] # "never" /\ (v2[p] = "none" \/ p \in v6) => v2'[p] = "none" \/ p \in v6'
    BY <1>0, <1>a, <1>c, <1>d, <2>1, <2>2, <2>3
  <2>f. \A d \in Workers : d # c /\ v5[d].id = p => v5[d].at \notin Space!Makes
    BY <1>0, <1>a, <1>c, <1>d, <2>1, <2>2, <2>3
  <2>z. ProjectsMoveIs(c, p, Space!Waiting)
    BY <1>a, <1>f, <2>1, <2>2, <2>a, <2>b, <2>c, <2>d, <2>e, <2>f DEF ProjectsMoveIs
  <2> QED BY <1>a, <2>1, <2>2, <2>z, ProjectsMove
<1> QED BY <1>2, <1>3, <1>4, <1>5, <1>6, <1>7, <1>8

LEMMA ProjectsAgentWritesInv ==
  ASSUME Space!ProjectsInv, NEW p \in Items, Space!SessionEnds(p) \/ Space!AgentWrites(p)
  PROVE  Space!ProjectsInv'
<1>0. /\ v1 \in [Items -> ProjectsStates] /\ v2 \in [Items -> ProjectsDirs]
      /\ v3 \subseteq Items /\ v4 \subseteq Items /\ v6 \subseteq Items
  BY ProjectsTypes
<1>1. CASE Space!SessionEnds(p)
  <2>1. /\ v4' = v4 \ {p} /\ v3' = v3 \ {p}
        /\ UNCHANGED <<v1, v2, v5, v6>>
    BY <1>1 DEF Space!SessionEnds
  <2>2. Space!ProjectsTypeOK'
    BY <2>1 DEF Space!ProjectsInv, Space!ProjectsTypeOK
  <2> QED BY <2>1, <2>2 DEF Space!ProjectsInv
<1>2. CASE Space!AgentWrites(p)
  <2>1. /\ v2' = [v2 EXCEPT ![p] = "partial"] /\ v6' = v6 \cup {p}
        /\ UNCHANGED <<v1, v3, v4, v5>>
    BY <1>2 DEF Space!AgentWrites
  <2>2. /\ v2' \in [Items -> ProjectsDirs] /\ \A q \in Items : q # p => v2'[q] = v2[q]
        /\ v6 \subseteq v6' /\ p \in v6' /\ v6' \subseteq Items
    BY <1>0, <2>1 DEF ProjectsDirs
  <2>3. Space!ProjectsTypeOK'
    BY <2>1, <2>2 DEF Space!ProjectsInv, Space!ProjectsTypeOK, ProjectsDirs
  <2>4. \A q \in Items : q \notin v6' => v2'[q] = v2[q] /\ q \notin v6
    BY <2>2
  <2>5. \A d \in Workers : v5[d].at = "unlisting" /\ v5[d].wipe => v2'[v5[d].id] = "none" \/ v5[d].id \in v6'
    <3>1. \A d \in Workers : v5[d].at = "unlisting" => v5[d].id \in Items
      BY DEF Space!ProjectsInv
    <3>2. \A d \in Workers : v5[d].at = "unlisting" /\ v5[d].wipe => v2[v5[d].id] = "none" \/ v5[d].id \in v6
      BY DEF Space!ProjectsInv
    <3> QED BY <2>2, <2>4, <3>1, <3>2
  <2> QED BY <2>1, <2>3, <2>4, <2>5 DEF Space!ProjectsInv
<1> QED BY <1>1, <1>2

LEMMA ProjectsCrashInv == Space!ProjectsInv /\ Space!Crash => Space!ProjectsInv'
<1> SUFFICES ASSUME Space!ProjectsInv, Space!Crash PROVE Space!ProjectsInv'
  OBVIOUS
<1>1. /\ v6' = v6 \cup {p \in Items : \E c \in Workers : v5[c].id = p /\ v5[c].at \in Space!Makes}
      /\ v5' = [c \in Workers |-> Space!Waiting] /\ UNCHANGED <<v1, v2, v3, v4>>
  BY DEF Space!Crash, Space!Makes
<1>2. \A c \in Workers : v5'[c].at = "idle"
  BY <1>1, ProjectsWaitingIsCall
<1>3. v6' \subseteq Items /\ v6 \subseteq v6'
  BY <1>1, ProjectsTypes
<1>4. Space!ProjectsTypeOK'
  BY <1>1, <1>3, ProjectsWaitingIsCall DEF Space!ProjectsInv, Space!ProjectsTypeOK, ProjectsCalls
<1>5. \A p \in Items : p \notin v6' => p \notin v6 /\ ~\E c \in Workers : v5[c].at \in Space!Makes /\ v5[c].id = p
  BY <1>1
<1> QED BY <1>1, <1>2, <1>4, <1>5 DEF Space!ProjectsInv, Space!Makes, Space!Uses

LEMMA ProjectsNextInv == Space!ProjectsInv /\ Space!ProjectsNext => Space!ProjectsInv'
BY ProjectsMakesInv, ProjectsUsesInv, ProjectsAgentWritesInv, ProjectsCrashInv DEF Space!ProjectsNext

LEMMA ProjectsInvProps == Space!ProjectsInv => Space!WipeCanBeRetried
<1> SUFFICES ASSUME Space!ProjectsInv, NEW p \in Items, v2[p] # "none", ~Space!Working(p)
             PROVE  v1[p] = "listed" \/ p \in v6
  BY DEF Space!WipeCanBeRetried
<1>1. p \notin v6 => v1[p] # "gone" /\ v1[p] # "never"
  BY DEF Space!ProjectsInv, Space!Working
<1> QED BY <1>1, ProjectsTypes DEF ProjectsStates

LEMMA ProjectsStutters == Space!ProjectsInv /\ UNCHANGED shared => Space!ProjectsInv'
BY DEF shared, Space!ProjectsInv, Space!ProjectsTypeOK

-----------------------------------------------------------------------------
(***************************************************************************)
(* Journal, as Pages: v1 journal, v2 cursor, v3 pages, v4 begun.           *)
(* A reader has read every entry newer than its cursor, and that was there *)
(* when it began; a page carries on where the cursor stands.               *)
(***************************************************************************)

LEMMA JournalBounds == PageSize \in Nat \ {0} /\ MaxEntries \in Nat /\ MaxOccurred \in Nat
BY ServerBoundsAssumption

JournalCursorPairs == (0..MaxOccurred + 1) \X (0..MaxEntries + 1)

\* FiniteSets counts alike inside the component.
LEMMA JournalCounts == \A S : Pages!Cardinality(S) = Cardinality(S)
BY DEF Pages!Cardinality, Cardinality

LEMMA JournalTypes ==
  ASSUME Pages!JournalInv
  PROVE  /\ v1 \in Seq(1..MaxOccurred) /\ Len(v1) <= MaxEntries /\ Len(v1) \in Nat
         /\ v2 \in [Reviewers -> JournalCursorPairs] /\ v3 \in [Reviewers -> Seq(Pages!EntryIds)]
         /\ v4 \in [Reviewers -> SUBSET Pages!EntryIds]
         /\ \A r \in Reviewers : Pages!InOrder(v3[r]) /\ Pages!WalkIsSound(r)
         /\ \A id \in Pages!EntryIds : id \in 1..MaxEntries /\ v1[id] \in 1..MaxOccurred
<1>1. v1 \in Seq(1..MaxOccurred) /\ Len(v1) <= MaxEntries
  BY DEF Pages!JournalInv, Pages!JournalTypeOK
<1>2. Len(v1) \in Nat /\ DOMAIN v1 = 1..Len(v1)
  BY <1>1, LenProperties
<1>3. \A id \in 1..Len(v1) : v1[id] \in 1..MaxOccurred
  BY <1>1, <1>2, ElementOfSeq
<1>4. \A id \in Pages!EntryIds : id \in 1..MaxEntries
  BY <1>1, <1>2, JournalBounds DEF Pages!EntryIds
<1>5. Pages!EntryIds = 1..Len(v1)
  BY DEF Pages!EntryIds
<1>6. /\ v2 \in [Reviewers -> JournalCursorPairs] /\ v3 \in [Reviewers -> Seq(Pages!EntryIds)]
      /\ v4 \in [Reviewers -> SUBSET Pages!EntryIds]
      /\ \A r \in Reviewers : Pages!InOrder(v3[r]) /\ Pages!WalkIsSound(r)
  BY DEF Pages!JournalInv, Pages!JournalTypeOK, Pages!PagesAreComplete, JournalCursorPairs
<1> QED BY <1>1, <1>2, <1>3, <1>4, <1>5, <1>6

LEMMA JournalSentinels ==
  /\ Pages!Top \in JournalCursorPairs /\ Pages!NoMore \in JournalCursorPairs /\ Pages!Top # Pages!NoMore
  /\ Pages!Top[1] = MaxOccurred + 1 /\ Pages!NoMore[1] = 0 /\ Pages!NoMore[2] = 0
BY JournalBounds DEF Pages!Top, Pages!NoMore, JournalCursorPairs

LEMMA JournalNothingRead ==
  ASSUME NEW S
  PROVE  /\ <<>> \in Seq(S) /\ Pages!Given(<<>>) = {} /\ Pages!InOrder(<<>>)
<1>1. <<>> \in Seq(S) /\ Len(<<>>) = 0
  BY EmptySeq
<1>2. DOMAIN <<>> = 1..0
  BY <1>1, LenProperties
<1>3. \A i \in 1..0 : FALSE
  OBVIOUS
<1>4. Pages!Given(<<>>) = {}
  BY <1>2, <1>3 DEF Pages!Given
<1>5. Pages!InOrder(<<>>)
  <2>1. \A i \in 1..(0 - 1) : FALSE
    OBVIOUS
  <2> QED BY <1>1, <2>1 DEF Pages!InOrder
<1> QED BY <1>1, <1>4, <1>5

LEMMA JournalInitInv == Pages!JournalInit => Pages!JournalInv
<1> SUFFICES ASSUME Pages!JournalInit PROVE Pages!JournalInv
  OBVIOUS
<1>1. /\ v1 = <<>> /\ v2 = [r \in Reviewers |-> Pages!Top] /\ v3 = [r \in Reviewers |-> <<>>]
      /\ v4 = [r \in Reviewers |-> {}]
  BY DEF Pages!JournalInit
<1>2. v1 \in Seq(1..MaxOccurred) /\ Len(v1) = 0
  BY <1>1, EmptySeq
<1>3. Pages!JournalTypeOK
  <2>1. <<>> \in Seq(Pages!EntryIds)
    BY JournalNothingRead
  <2> QED BY <1>1, <1>2, <2>1, JournalSentinels, JournalBounds DEF Pages!JournalTypeOK, JournalCursorPairs
<1>4. \A r \in Reviewers : v3[r] = <<>> /\ v4[r] = {} /\ v2[r] = Pages!Top
  BY <1>1
<1>5. Pages!PagesAreComplete
  BY <1>4, JournalNothingRead DEF Pages!PagesAreComplete
<1>6. \A r \in Reviewers : Pages!WalkIsSound(r)
  BY <1>4 DEF Pages!WalkIsSound
<1> QED BY <1>3, <1>5, <1>6 DEF Pages!JournalInv

LEMMA JournalConcatParts ==
  ASSUME NEW S, NEW p \in Seq(S), NEW q \in Seq(S)
  PROVE  /\ p \o q \in Seq(S) /\ Len(p \o q) = Len(p) + Len(q) /\ Len(p) \in Nat /\ Len(q) \in Nat
         /\ \A i \in 1..Len(p) : (p \o q)[i] = p[i]
         /\ \A i \in 1..Len(q) : (p \o q)[Len(p) + i] = q[i]
         /\ DOMAIN p = 1..Len(p) /\ DOMAIN q = 1..Len(q) /\ DOMAIN (p \o q) = 1..(Len(p) + Len(q))
<1>1. p \o q \in Seq(S) /\ Len(p \o q) = Len(p) + Len(q) /\ Len(p) \in Nat /\ Len(q) \in Nat
  BY ConcatProperties, LenProperties
<1>2. \A i \in 1..(Len(p) + Len(q)) : (p \o q)[i] = IF i <= Len(p) THEN p[i] ELSE q[i - Len(p)]
  BY <1>1, ConcatProperties
<1>3. \A i \in 1..Len(p) : (p \o q)[i] = p[i]
  BY <1>1, <1>2
<1>4. ASSUME NEW i \in 1..Len(q) PROVE (p \o q)[Len(p) + i] = q[i]
  <2>1. Len(p) + i \in 1..(Len(p) + Len(q)) /\ ~(Len(p) + i <= Len(p)) /\ (Len(p) + i) - Len(p) = i
    BY <1>1
  <2> QED BY <1>2, <2>1
<1>5. DOMAIN p = 1..Len(p) /\ DOMAIN q = 1..Len(q) /\ DOMAIN (p \o q) = 1..(Len(p) + Len(q))
  BY <1>1, LenProperties
<1> QED BY <1>1, <1>3, <1>4, <1>5

LEMMA JournalNewestIsAPage ==
  ASSUME Pages!JournalInv, NEW rows \in SUBSET Pages!EntryIds, NEW page \in Pages!Newest(rows)
  PROVE  /\ page \in Seq(Pages!EntryIds) /\ Pages!InOrder(page) /\ DOMAIN page = 1..Len(page)
         /\ Len(page) \in Nat
         /\ \A i \in 1..Len(page) : page[i] \in rows
         /\ \A id \in Pages!Given(page), older \in rows \ Pages!Given(page) : Pages!NewerFirst(id, older)
         /\ (Pages!Given(page) # rows => Len(page) > 0)
<1> DEFINE n == IF PageSize < Cardinality(rows) THEN PageSize ELSE Cardinality(rows)
<1>1. page \in [1..n -> rows] /\ Pages!InOrder(page)
      /\ \A id \in Pages!Given(page), older \in rows \ Pages!Given(page) : Pages!NewerFirst(id, older)
  BY JournalCounts DEF Pages!Newest
<1>2. IsFiniteSet(rows)
  <2>1. 1 \in Int /\ Len(v1) \in Int
    BY JournalTypes
  <2>2. IsFiniteSet(1..Len(v1))
    BY <2>1, FS_Interval
  <2> QED BY <2>2, FS_Subset DEF Pages!EntryIds
<1>3. Cardinality(rows) \in Nat /\ (rows # {} => Cardinality(rows) > 0)
  <2>1. Cardinality(rows) \in Nat /\ (Cardinality(rows) = 0 <=> rows = {})
    BY <1>2, FS_CardinalityType, FS_EmptySet
  <2> QED BY <2>1
<1>4. n \in Nat /\ (rows # {} => n > 0)
  BY <1>3, JournalBounds
<1> HIDE DEF n
<1>5. page \in Seq(Pages!EntryIds) /\ Len(page) = n
  <2>1. page \in [1..n -> Pages!EntryIds]
    BY <1>1
  <2>2. page \in Seq(Pages!EntryIds)
    BY <1>4, <2>1 DEF Seq
  <2> QED BY <1>4, <2>1, <2>2, LenProperties
<1>6. DOMAIN page = 1..n /\ \A i \in 1..n : page[i] \in rows
  BY <1>1
<1>7. rows = {} => Pages!Given(page) = rows
  BY <1>6 DEF Pages!Given
<1> QED BY <1>1, <1>4, <1>5, <1>6, <1>7

LEMMA JournalAppendEntryInv ==
  ASSUME Pages!JournalInv, NEW o \in 1..MaxOccurred, Pages!AppendJournalEntry(o)
  PROVE  Pages!JournalInv'
<1>1. Len(v1) < MaxEntries /\ v1' = Append(v1, o) /\ UNCHANGED <<v2, v3, v4>>
  BY DEF Pages!AppendJournalEntry
<1>2. /\ v1 \in Seq(1..MaxOccurred) /\ Len(v1) \in Nat
      /\ v2 \in [Reviewers -> JournalCursorPairs] /\ v3 \in [Reviewers -> Seq(Pages!EntryIds)]
      /\ v4 \in [Reviewers -> SUBSET Pages!EntryIds]
  BY JournalTypes
<1>3. /\ v1' \in Seq(1..MaxOccurred) /\ Len(v1') = Len(v1) + 1
      /\ \A i \in 1..Len(v1) : v1'[i] = v1[i]
  BY <1>1, <1>2, AppendProperties
<1>4. Pages!EntryIds \subseteq Pages!EntryIds' /\ \A id \in Pages!EntryIds : v1'[id] = v1[id]
  BY <1>2, <1>3 DEF Pages!EntryIds
<1>5. Seq(Pages!EntryIds) \subseteq Seq(Pages!EntryIds')
  BY <1>4 DEF Seq
<1>6. Pages!JournalTypeOK'
  <2>1. Len(v1') <= MaxEntries
    BY <1>1, <1>2, <1>3, JournalBounds
  <2>2. v3' \in [Reviewers -> Seq(Pages!EntryIds')] /\ v4' \in [Reviewers -> SUBSET Pages!EntryIds']
    BY <1>1, <1>2, <1>4, <1>5
  <2>3. v2' \in [Reviewers -> JournalCursorPairs]
    BY <1>1, <1>2
  <2> QED BY <1>3, <2>1, <2>2, <2>3 DEF Pages!JournalTypeOK, JournalCursorPairs
<1>7. ASSUME NEW r \in Reviewers PROVE Pages!InOrder(v3[r])' /\ Pages!WalkIsSound(r)'
  <2> DEFINE p == v3[r]
  <2>1. /\ p \in Seq(Pages!EntryIds) /\ v4[r] \subseteq Pages!EntryIds /\ Pages!InOrder(p)
        /\ Pages!WalkIsSound(r)
        /\ v3'[r] = p /\ v4'[r] = v4[r] /\ v2'[r] = v2[r]
    BY <1>1, <1>2, JournalTypes
  <2>2. Len(p) \in Nat /\ DOMAIN p = 1..Len(p) /\ \A i \in 1..Len(p) : p[i] \in Pages!EntryIds
    BY <2>1, LenProperties, ElementOfSeq
  <2> HIDE DEF p
  <2>3. Pages!InOrder(v3[r])'
    <3>1. PICK g : g = p
      OBVIOUS
    <3>2. ASSUME NEW i \in 1..(Len(g) - 1) PROVE Pages!NewerFirst(g[i], g[i + 1])'
      <4>1. i \in 1..Len(p) /\ i + 1 \in 1..Len(p) /\ Pages!NewerFirst(g[i], g[i + 1])
        BY <2>1, <2>2, <3>1 DEF Pages!InOrder
      <4>2. g[i] \in Pages!EntryIds /\ g[i + 1] \in Pages!EntryIds
        BY <2>2, <3>1, <4>1
      <4> QED BY <1>4, <4>1, <4>2 DEF Pages!NewerFirst
    <3>3. v3'[r] = g
      BY <2>1, <3>1
    <3> QED BY <3>2, <3>3 DEF Pages!InOrder, Pages!NewerFirst
  <2>4. p # <<>> => p[Len(p)] \in Pages!EntryIds
    <3>1. p # <<>> => Len(p) \in 1..Len(p)
      BY <2>1, <2>2, EmptySeq
    <3> QED BY <2>2, <3>1
  <2>5. v2[r] \notin {Pages!Top, Pages!NoMore} => p # <<>> /\ v2[r] = <<v1'[p[Len(p)]], p[Len(p)]>>
    <3>1. v2[r] \notin {Pages!Top, Pages!NoMore} => p # <<>> /\ v2[r] = <<v1[p[Len(p)]], p[Len(p)]>>
      BY <2>1 DEF Pages!WalkIsSound, Pages!EncodeCursor, p
    <3> QED BY <1>4, <2>4, <3>1
  <2>6. \A id \in v4[r] \ Pages!Given(p) : v1'[id] < v2[r][1] \/ (v1'[id] = v2[r][1] /\ id < v2[r][2])
    BY <1>4, <2>1 DEF Pages!WalkIsSound, Pages!Below, p
  <2>7. v2[r] = Pages!Top => p = <<>> /\ v4[r] = {}
    BY <2>1 DEF Pages!WalkIsSound, p
  <2>8. Pages!WalkIsSound(r)'
    BY <2>1, <2>5, <2>6, <2>7 DEF Pages!WalkIsSound, Pages!EncodeCursor, Pages!Below, Pages!Given,
       Pages!Top, Pages!NoMore
  <2> QED BY <2>3, <2>8
<1>8. Pages!PagesAreComplete'
  <2>1. ASSUME NEW r \in Reviewers, v2'[r] = Pages!NoMore PROVE v4'[r] \subseteq Pages!Given(v3'[r])
    <3>1. v4[r] \subseteq Pages!Given(v3[r])
      BY <1>1, <2>1 DEF Pages!JournalInv, Pages!PagesAreComplete, Pages!NoMore
    <3> QED BY <1>1, <3>1
  <2>2. \A r \in Reviewers : (v2[r])' = Pages!NoMore' => v4'[r] \subseteq (Pages!Given(v3[r]))'
    BY <2>1 DEF Pages!NoMore, Pages!Given
  <2> QED BY <1>7, <2>2 DEF Pages!PagesAreComplete
<1> QED BY <1>6, <1>7, <1>8 DEF Pages!JournalInv

\* What a page does to its reader.
JournalPaged(r, page, rows) ==
  LET read == v3[r] \o page IN
  /\ read \in Seq(Pages!EntryIds) /\ Pages!InOrder(read)
  /\ (Pages!Given(page) # rows) => /\ read # <<>> /\ read[Len(read)] = page[Len(page)]
                                   /\ page[Len(page)] \in Pages!Given(page)
                                   /\ page[Len(page)] \in Pages!EntryIds
  /\ Pages!Given(read) = Pages!Given(v3[r]) \cup Pages!Given(page)

LEMMA JournalPageFollows ==
  ASSUME Pages!JournalInv, NEW r \in Reviewers, v2[r] # Pages!NoMore,
         NEW page \in Pages!Newest({id \in Pages!EntryIds : Pages!Below(id, v2[r])})
  PROVE  JournalPaged(r, page, {id \in Pages!EntryIds : Pages!Below(id, v2[r])})
<1> DEFINE rows == {id \in Pages!EntryIds : Pages!Below(id, v2[r])}
           p == v3[r]
           read == p \o page
<1>1. /\ page \in Seq(Pages!EntryIds) /\ Pages!InOrder(page) /\ DOMAIN page = 1..Len(page)
      /\ Len(page) \in Nat
      /\ \A i \in 1..Len(page) : page[i] \in rows
      /\ (Pages!Given(page) # rows => Len(page) > 0)
  <2>1. rows \in SUBSET Pages!EntryIds /\ page \in Pages!Newest(rows)
    OBVIOUS
  <2> HIDE DEF rows
  <2> QED BY <2>1, JournalNewestIsAPage
<1>2. p \in Seq(Pages!EntryIds) /\ Pages!InOrder(p) /\ Pages!WalkIsSound(r)
  BY JournalTypes
<1>3. \A id \in rows : id \in Pages!EntryIds /\ Pages!Below(id, v2[r])
  OBVIOUS
<1>4. p # <<>> => v2[r] = <<v1[p[Len(p)]], p[Len(p)]>>
  BY <1>2 DEF Pages!WalkIsSound, Pages!EncodeCursor
<1>5. p = <<>> <=> Len(p) = 0
  BY <1>2, EmptySeq
<1> HIDE DEF rows, p
<1>6. /\ read \in Seq(Pages!EntryIds) /\ Len(read) = Len(p) + Len(page) /\ Len(p) \in Nat
      /\ \A i \in 1..Len(p) : read[i] = p[i]
      /\ \A i \in 1..Len(page) : read[Len(p) + i] = page[i]
      /\ DOMAIN p = 1..Len(p) /\ DOMAIN read = 1..(Len(p) + Len(page))
  BY <1>1, <1>2, JournalConcatParts
<1> HIDE DEF read
<1>7. ASSUME NEW i \in 1..(Len(read) - 1) PROVE Pages!NewerFirst(read[i], read[i + 1])
  <2>1. CASE i + 1 <= Len(p)
    <3>1. i \in 1..(Len(p) - 1) /\ i \in 1..Len(p) /\ i + 1 \in 1..Len(p)
      BY <1>6, <2>1
    <3> QED BY <1>2, <1>6, <3>1 DEF Pages!InOrder
  <2>2. CASE i = Len(p)
    <3>1. i \in 1..Len(p) /\ 1 \in 1..Len(page) /\ p # <<>>
      BY <1>1, <1>5, <1>6, <2>2
    <3>2. read[i] = p[Len(p)] /\ read[i + 1] = page[1]
      BY <1>6, <2>2, <3>1
    <3>3. Pages!Below(page[1], <<v1[p[Len(p)]], p[Len(p)]>>)
      BY <1>1, <1>3, <1>4, <3>1
    <3>4. p[Len(p)] \in Pages!EntryIds /\ page[1] \in Pages!EntryIds
      BY <1>1, <1>2, <1>3, <1>6, <2>2, <3>1, ElementOfSeq
    <3>5. p[Len(p)] \in Int /\ page[1] \in Int /\ v1[p[Len(p)]] \in Int /\ v1[page[1]] \in Int
      BY <3>4, JournalTypes
    <3> QED BY <3>2, <3>3, <3>5 DEF Pages!Below, Pages!NewerFirst
  <2>3. CASE i > Len(p)
    <3> DEFINE j == i - Len(p)
    <3>1. j \in 1..(Len(page) - 1) /\ j \in 1..Len(page) /\ j + 1 \in 1..Len(page)
          /\ i = Len(p) + j /\ i + 1 = Len(p) + (j + 1)
      BY <1>1, <1>6, <2>3
    <3> HIDE DEF j
    <3>2. read[i] = page[j] /\ read[i + 1] = page[j + 1]
      BY <1>6, <3>1
    <3> QED BY <1>1, <3>1, <3>2 DEF Pages!InOrder
  <2> QED BY <1>6, <2>1, <2>2, <2>3
<1>8. Pages!InOrder(read)
  BY <1>7 DEF Pages!InOrder
<1>9. Pages!Given(page) # rows => /\ read # <<>> /\ read[Len(read)] = page[Len(page)]
                                  /\ page[Len(page)] \in Pages!Given(page)
                                  /\ page[Len(page)] \in Pages!EntryIds
  <2> SUFFICES ASSUME Pages!Given(page) # rows
               PROVE  /\ read # <<>> /\ read[Len(read)] = page[Len(page)]
                      /\ page[Len(page)] \in Pages!Given(page) /\ page[Len(page)] \in Pages!EntryIds
    OBVIOUS
  <2>1. Len(page) \in 1..Len(page) /\ Len(read) > 0
    BY <1>1, <1>6
  <2>2. read # <<>>
    BY <1>6, <2>1, EmptySeq
  <2> QED BY <1>1, <1>3, <1>6, <2>1, <2>2 DEF Pages!Given
<1>10. Pages!Given(read) = Pages!Given(p) \cup Pages!Given(page)
  <2>1. ASSUME NEW x \in Pages!Given(read) PROVE x \in Pages!Given(p) \cup Pages!Given(page)
    <3>1. PICK i \in 1..(Len(p) + Len(page)) : read[i] = x
      BY <1>6, <2>1 DEF Pages!Given
    <3>2. CASE i <= Len(p)
      <4>1. i \in 1..Len(p)
        BY <3>2
      <4> QED BY <1>6, <3>1, <4>1 DEF Pages!Given
    <3>3. CASE i > Len(p)
      <4> DEFINE j == i - Len(p)
      <4>1. j \in 1..Len(page) /\ i = Len(p) + j
        BY <1>1, <1>6, <3>1, <3>3
      <4> HIDE DEF j
      <4> QED BY <1>1, <1>6, <3>1, <4>1 DEF Pages!Given
    <3> QED BY <1>6, <3>1, <3>2, <3>3
  <2>2. ASSUME NEW x \in Pages!Given(p) PROVE x \in Pages!Given(read)
    <3>1. PICK i \in 1..Len(p) : p[i] = x
      BY <1>6, <2>2 DEF Pages!Given
    <3>2. i \in 1..(Len(p) + Len(page))
      BY <1>1, <1>6, <3>1
    <3> QED BY <1>6, <3>1, <3>2 DEF Pages!Given
  <2>3. ASSUME NEW x \in Pages!Given(page) PROVE x \in Pages!Given(read)
    <3>1. PICK i \in 1..Len(page) : page[i] = x
      BY <1>1, <2>3 DEF Pages!Given
    <3>2. Len(p) + i \in 1..(Len(p) + Len(page))
      BY <1>1, <1>6, <3>1
    <3> QED BY <1>6, <3>1, <3>2 DEF Pages!Given
  <2> QED BY <2>1, <2>2, <2>3
<1> QED BY <1>6, <1>8, <1>9, <1>10 DEF JournalPaged, p, read, rows

LEMMA JournalListJournalInv ==
  ASSUME Pages!JournalInv, NEW r \in Reviewers, Pages!ListJournal(r)
  PROVE  Pages!JournalInv'
<1> DEFINE rows == {id \in Pages!EntryIds : Pages!Below(id, v2[r])}
           seen == IF v2[r] = Pages!Top THEN Pages!EntryIds ELSE v4[r]
<1>1. /\ v2[r] # Pages!NoMore /\ UNCHANGED v1 /\ v4' = [v4 EXCEPT ![r] = seen]
      /\ \E page \in Pages!Newest(rows) :
           /\ v3' = [v3 EXCEPT ![r] = v3[r] \o page]
           /\ v2' = [v2 EXCEPT ![r] =
                       IF Pages!Given(page) = rows THEN Pages!NoMore ELSE Pages!EncodeCursor(page[Len(page)])]
  BY DEF Pages!ListJournal
<1>2. PICK page \in Pages!Newest(rows) :
           /\ v3' = [v3 EXCEPT ![r] = v3[r] \o page]
           /\ v2' = [v2 EXCEPT ![r] =
                       IF Pages!Given(page) = rows THEN Pages!NoMore ELSE Pages!EncodeCursor(page[Len(page)])]
  BY <1>1
<1>3. PICK read : read = v3[r] \o page
  OBVIOUS
<1>4. PICK c : c = IF Pages!Given(page) = rows THEN Pages!NoMore ELSE Pages!EncodeCursor(page[Len(page)])
  OBVIOUS
<1>5. PICK b : b = seen
  OBVIOUS
<1>6. /\ read \in Seq(Pages!EntryIds) /\ Pages!InOrder(read)
      /\ (Pages!Given(page) # rows) => /\ read # <<>> /\ read[Len(read)] = page[Len(page)]
                                       /\ page[Len(page)] \in Pages!Given(page)
                                       /\ page[Len(page)] \in Pages!EntryIds
      /\ Pages!Given(read) = Pages!Given(v3[r]) \cup Pages!Given(page)
  BY <1>1, <1>3, JournalPageFollows DEF JournalPaged
<1>7. /\ v2 \in [Reviewers -> JournalCursorPairs] /\ v3 \in [Reviewers -> Seq(Pages!EntryIds)]
      /\ v4 \in [Reviewers -> SUBSET Pages!EntryIds] /\ Pages!WalkIsSound(r)
  BY JournalTypes
<1>8. Pages!EntryIds' = Pages!EntryIds
  BY <1>1 DEF Pages!EntryIds
<1>9. b \in SUBSET Pages!EntryIds
  BY <1>5, <1>7
<1>10. ASSUME NEW id \in b \ Pages!Given(v3[r]) PROVE id \in rows
  <2>1. CASE v2[r] = Pages!Top
    <3>1. id \in Pages!EntryIds /\ v1[id] \in 1..MaxOccurred
      BY <1>9, <1>10, JournalTypes
    <3> QED BY <2>1, <3>1, JournalSentinels, JournalBounds DEF Pages!Below
  <2>2. CASE v2[r] # Pages!Top
    <3>1. id \in v4[r] \ Pages!Given(v3[r])
      BY <1>5, <1>10, <2>2
    <3> QED BY <1>7, <3>1 DEF Pages!WalkIsSound
  <2> QED BY <2>1, <2>2
<1>11. \A id \in Pages!Given(page), older \in rows \ Pages!Given(page) : Pages!NewerFirst(id, older)
  BY DEF Pages!Newest
<1> HIDE DEF rows, seen
<1>12. /\ v3' = [v3 EXCEPT ![r] = read] /\ v2' = [v2 EXCEPT ![r] = c] /\ v4' = [v4 EXCEPT ![r] = b]
  BY <1>1, <1>2, <1>3, <1>4, <1>5
<1>13. c # Pages!Top /\ c \in JournalCursorPairs
       /\ (c # Pages!NoMore => Pages!Given(page) # rows /\ c = Pages!EncodeCursor(read[Len(read)]) /\ read # <<>>)
       /\ (Pages!Given(page) # rows => c = <<v1[page[Len(page)]], page[Len(page)]>>)
  <2>1. CASE Pages!Given(page) = rows
    BY <1>4, <2>1, JournalSentinels
  <2>2. CASE Pages!Given(page) # rows
    <3>1. c = <<v1[page[Len(page)]], page[Len(page)]>> /\ read # <<>> /\ read[Len(read)] = page[Len(page)]
      BY <1>4, <1>6, <2>2 DEF Pages!EncodeCursor
    <3>2. page[Len(page)] \in 1..MaxEntries /\ v1[page[Len(page)]] \in 1..MaxOccurred
      BY <1>6, <2>2, JournalTypes
    <3> QED BY <2>2, <3>1, <3>2, JournalBounds DEF JournalCursorPairs, Pages!Top, Pages!EncodeCursor
  <2> QED BY <2>1, <2>2
<1>14. ASSUME NEW id \in b \ Pages!Given(read) PROVE Pages!Below(id, c)
  <2>1. id \in rows \ Pages!Given(page)
    BY <1>6, <1>10, <1>14
  <2>2. Pages!Given(page) # rows
    BY <2>1
  <2>3. Pages!NewerFirst(page[Len(page)], id) /\ c = <<v1[page[Len(page)]], page[Len(page)]>>
    BY <1>6, <1>11, <1>13, <2>1, <2>2
  <2>4. id \in Pages!EntryIds /\ page[Len(page)] \in Pages!EntryIds
    BY <1>6, <1>9, <2>2
  <2>5. /\ id \in Int /\ v1[id] \in Int /\ page[Len(page)] \in Int /\ v1[page[Len(page)]] \in Int
    BY <2>4, JournalTypes
  <2> QED BY <2>3, <2>5 DEF Pages!NewerFirst, Pages!Below
<1>15. /\ v3' \in [Reviewers -> Seq(Pages!EntryIds)] /\ v2' \in [Reviewers -> JournalCursorPairs]
       /\ v4' \in [Reviewers -> SUBSET Pages!EntryIds]
       /\ v3'[r] = read /\ v2'[r] = c /\ v4'[r] = b
       /\ \A q \in Reviewers : q # r => v3'[q] = v3[q] /\ v2'[q] = v2[q] /\ v4'[q] = v4[q]
  BY <1>6, <1>7, <1>9, <1>12, <1>13
<1>16. Pages!JournalTypeOK'
  BY <1>1, <1>8, <1>15 DEF Pages!JournalInv, Pages!JournalTypeOK, JournalCursorPairs
<1>17. v1' = v1
  BY <1>1
<1>18. ASSUME NEW q \in Reviewers PROVE Pages!WalkIsSound(q)' /\ Pages!InOrder(v3'[q])
  <2>1. CASE q = r
    <3>1. v3'[q] = read /\ v2'[q] = c /\ v4'[q] = b
      BY <1>15, <2>1
    <3>2. Pages!WalkIsSound(q)'
      BY <1>1, <1>13, <1>14, <3>1 DEF Pages!WalkIsSound, Pages!EncodeCursor, Pages!Below, Pages!Given,
         Pages!Top, Pages!NoMore
    <3> QED BY <1>6, <3>1, <3>2
  <2>2. CASE q # r
    <3>1. v3'[q] = v3[q] /\ v2'[q] = v2[q] /\ v4'[q] = v4[q]
      BY <1>15, <2>2
    <3>2. Pages!WalkIsSound(q) /\ Pages!InOrder(v3[q])
      BY JournalTypes
    <3>3. Pages!WalkIsSound(q)'
      BY ONLY <1>17, <3>1, <3>2 DEF Pages!WalkIsSound, Pages!EncodeCursor, Pages!Below, Pages!Given,
         Pages!Top, Pages!NoMore
    <3> QED BY <3>1, <3>2, <3>3
  <2> QED BY <2>1, <2>2
<1>19. Pages!PagesAreComplete'
  <2>1. ASSUME NEW q \in Reviewers, v2'[q] = Pages!NoMore PROVE v4'[q] \subseteq Pages!Given(v3'[q])
    <3>1. v4'[q] \subseteq Pages!EntryIds
      BY <1>15
    <3>2. ASSUME NEW id \in v4'[q] \ Pages!Given(v3'[q]) PROVE FALSE
      <4>1. Pages!WalkIsSound(q)'
        BY <1>18
      <4>2. v1[id] < 0 \/ (v1[id] = 0 /\ id < 0)
        BY <1>17, <2>1, <3>2, <4>1 DEF Pages!WalkIsSound, Pages!Below, Pages!Given, Pages!NoMore
      <4>3. v1[id] \in 1..MaxOccurred
        BY <3>1, <3>2, JournalTypes
      <4> QED BY <4>2, <4>3, JournalBounds
    <3> QED BY <3>2
  <2>2. ASSUME NEW q \in Reviewers PROVE Pages!InOrder(v3[q])'
    BY <1>1, <1>18 DEF Pages!InOrder, Pages!NewerFirst
  <2>3. \A q \in Reviewers : (v2[q])' = Pages!NoMore' => v4'[q] \subseteq (Pages!Given(v3[q]))'
    BY <2>1 DEF Pages!NoMore, Pages!Given
  <2> QED BY <2>2, <2>3 DEF Pages!PagesAreComplete
<1> QED BY <1>16, <1>18, <1>19 DEF Pages!JournalInv

LEMMA JournalStartsOverInv ==
  ASSUME Pages!JournalInv, NEW r \in Reviewers, Pages!StartsOver(r)
  PROVE  Pages!JournalInv'
<1>1. /\ v2' = [v2 EXCEPT ![r] = Pages!Top] /\ v3' = [v3 EXCEPT ![r] = <<>>]
      /\ v4' = [v4 EXCEPT ![r] = {}] /\ UNCHANGED v1
  BY DEF Pages!StartsOver
<1>2. /\ v2 \in [Reviewers -> JournalCursorPairs] /\ v3 \in [Reviewers -> Seq(Pages!EntryIds)]
      /\ v4 \in [Reviewers -> SUBSET Pages!EntryIds]
  BY JournalTypes
<1>3. Pages!EntryIds' = Pages!EntryIds /\ <<>> \in Seq(Pages!EntryIds)
  BY <1>1, JournalNothingRead DEF Pages!EntryIds
<1>4. /\ v3' \in [Reviewers -> Seq(Pages!EntryIds)] /\ v2' \in [Reviewers -> JournalCursorPairs]
      /\ v4' \in [Reviewers -> SUBSET Pages!EntryIds]
      /\ v3'[r] = <<>> /\ v2'[r] = Pages!Top /\ v4'[r] = {}
      /\ \A q \in Reviewers : q # r => v3'[q] = v3[q] /\ v2'[q] = v2[q] /\ v4'[q] = v4[q]
  BY <1>1, <1>2, <1>3, JournalSentinels
<1>5. Pages!JournalTypeOK'
  BY <1>1, <1>3, <1>4 DEF Pages!JournalInv, Pages!JournalTypeOK, JournalCursorPairs
<1>6. ASSUME NEW q \in Reviewers
      PROVE  /\ Pages!WalkIsSound(q)' /\ Pages!InOrder(v3'[q])
             /\ (v2'[q] = Pages!NoMore => v4'[q] \subseteq Pages!Given(v3'[q]))
  <2>1. CASE q = r
    <3>1. v3'[q] = <<>> /\ v2'[q] = Pages!Top /\ v4'[q] = {}
      BY <1>4, <2>1
    <3>2. Pages!WalkIsSound(q)'
      BY <3>1 DEF Pages!WalkIsSound, Pages!Top, Pages!NoMore
    <3> QED BY <3>1, <3>2, JournalNothingRead, JournalSentinels
  <2>2. CASE q # r
    <3>1. v3'[q] = v3[q] /\ v2'[q] = v2[q] /\ v4'[q] = v4[q]
      BY <1>4, <2>2
    <3>2. /\ Pages!WalkIsSound(q) /\ Pages!InOrder(v3[q])
          /\ (v2[q] = Pages!NoMore => v4[q] \subseteq Pages!Given(v3[q]))
      BY JournalTypes DEF Pages!JournalInv, Pages!PagesAreComplete
    <3>3. Pages!WalkIsSound(q)'
      BY <1>1, <3>1, <3>2 DEF Pages!WalkIsSound, Pages!EncodeCursor, Pages!Below, Pages!Given, Pages!Top,
         Pages!NoMore
    <3> QED BY <3>1, <3>2, <3>3
  <2> QED BY <2>1, <2>2
<1>7. Pages!PagesAreComplete'
  <2>1. ASSUME NEW q \in Reviewers PROVE Pages!InOrder(v3[q])'
    BY <1>1, <1>6 DEF Pages!InOrder, Pages!NewerFirst
  <2>2. \A q \in Reviewers : (v2[q])' = Pages!NoMore' => v4'[q] \subseteq (Pages!Given(v3[q]))'
    BY <1>6 DEF Pages!NoMore, Pages!Given
  <2> QED BY <2>1, <2>2 DEF Pages!PagesAreComplete
<1> QED BY <1>5, <1>6, <1>7 DEF Pages!JournalInv

LEMMA JournalNextInv == Pages!JournalInv /\ Pages!JournalNext => Pages!JournalInv'
BY JournalAppendEntryInv, JournalListJournalInv, JournalStartsOverInv DEF Pages!JournalNext

LEMMA JournalStutters == Pages!JournalInv /\ UNCHANGED shared => Pages!JournalInv'
BY DEF shared, Pages!Below, Pages!EncodeCursor, Pages!EntryIds, Pages!InOrder, Pages!JournalInv,
   Pages!JournalTypeOK, Pages!NewerFirst, Pages!PagesAreComplete, Pages!WalkIsSound

-----------------------------------------------------------------------------
(* The server *)

\* The inductive invariant: each component's, while it is at work.
ServerInv ==
  /\ IInv
  /\ part = "firewall" => Wall!FirewallInv
  /\ part = "process" => Kill!ProcessInv
  /\ part = "replay" => Replays!GuardInv
  /\ part = "streams" => Streams!StreamsInv
  /\ part = "auth" => Auth!AuthInv
  /\ part = "metrics" => Metrics!MetricsInv
  /\ part = "storage" => Disk!StorageInv
  /\ part = "runbooks" => Books!RunbookInv
  /\ part = "push" => Push!PushInv
  /\ part = "review" => Review!ReviewInv
  /\ part = "projects" => Space!ProjectsInv
  /\ part = "journal" => Pages!JournalInv
  /\ part = "install" => Tools!InstallInv

Parts == {"host", "firewall", "process", "replay", "streams", "auth", "metrics", "storage", "runbooks",
          "push", "review", "projects", "journal", "install"}

LEMMA ServerInitInv == ServerInit => ServerInv
<1> SUFFICES ASSUME ServerInit PROVE ServerInv
  OBVIOUS
<1>1. IInv
  BY InitIInv DEF ServerInit, HostIdle
<1>2. CASE part = "host"
  BY <1>1, <1>2 DEF ServerInv
<1>3. CASE part # "host" /\ OtherInit
  <2>1. /\ part = "firewall" => Wall!FirewallInv
        /\ part = "process" => Kill!ProcessInv
        /\ part = "replay" => Replays!GuardInv
        /\ part = "streams" => Streams!StreamsInv
        /\ part = "auth" => Auth!AuthInv
    BY <1>3, FirewallInitInv, ProcessInitInv, GuardInitInv, StreamsInitInv, AuthInitInv DEF OtherInit
  <2>2. /\ part = "metrics" => Metrics!MetricsInv
        /\ part = "storage" => Disk!StorageInv
        /\ part = "runbooks" => Books!RunbookInv
        /\ part = "push" => Push!PushInv
    BY <1>3, MetricsInitInv, StorageInitInv, RunbookInitInv, PushInitInv DEF OtherInit
  <2>3. /\ part = "review" => Review!ReviewInv
        /\ part = "projects" => Space!ProjectsInv
        /\ part = "journal" => Pages!JournalInv
        /\ part = "install" => Tools!InstallInv
    BY <1>3, ReviewInitInv, ProjectsInitInv, JournalInitInv, InstallInitInv DEF OtherInit
  <2> QED BY <1>1, <2>1, <2>2, <2>3 DEF ServerInv
<1> QED BY <1>2, <1>3 DEF ServerInit

\* A step of the server is one of the component that is at work.
LEMMA StepIsOfItsPart ==
  ASSUME ServerNext
  PROVE  /\ part' = part /\ [HostNext]_hostVars
         /\ part = "firewall" => Wall!FirewallNext
         /\ part = "process" => Kill!ProcessNext
         /\ part = "replay" => Replays!GuardNext
         /\ part = "streams" => Streams!StreamsNext
         /\ part = "auth" => Auth!AuthNext
         /\ part = "metrics" => Metrics!MetricsNext
         /\ part = "storage" => Disk!StorageNext
         /\ part = "runbooks" => Books!RunbookNext
         /\ part = "push" => Push!PushNext
         /\ part = "review" => Review!ReviewNext
         /\ part = "projects" => Space!ProjectsNext
         /\ part = "journal" => Pages!JournalNext
         /\ part = "install" => Tools!InstallNext
<1>1. CASE part = "host" /\ HostNext /\ UNCHANGED <<part, shared>>
  BY <1>1
<1>2. CASE UNCHANGED hostVars /\ OtherNext
  BY <1>2 DEF OtherNext
<1> QED BY <1>1, <1>2 DEF ServerNext

LEMMA ServerNextInv == ServerInv /\ ServerNext => ServerInv'
<1> SUFFICES ASSUME ServerInv, ServerNext PROVE ServerInv'
  OBVIOUS
<1>1. IInv' /\ part' = part
  BY StepIsOfItsPart, NextIInv DEF ServerInv
<1>2. /\ part = "firewall" => Wall!FirewallInv'
      /\ part = "process" => Kill!ProcessInv'
      /\ part = "replay" => Replays!GuardInv'
      /\ part = "streams" => Streams!StreamsInv'
      /\ part = "auth" => Auth!AuthInv'
  BY StepIsOfItsPart, FirewallNextInv, ProcessNextInv, GuardNextInv, StreamsNextInv, AuthNextInv
     DEF ServerInv
<1>3. /\ part = "metrics" => Metrics!MetricsInv'
      /\ part = "storage" => Disk!StorageInv'
      /\ part = "runbooks" => Books!RunbookInv'
      /\ part = "push" => Push!PushInv'
  BY StepIsOfItsPart, MetricsNextInv, StorageNextInv, RunbookNextInv, PushNextInv DEF ServerInv
<1>4. /\ part = "review" => Review!ReviewInv'
      /\ part = "projects" => Space!ProjectsInv'
      /\ part = "journal" => Pages!JournalInv'
      /\ part = "install" => Tools!InstallInv'
  BY StepIsOfItsPart, ReviewNextInv, ProjectsNextInv, JournalNextInv, InstallNextInv DEF ServerInv
<1> QED BY <1>1, <1>2, <1>3, <1>4 DEF ServerInv

LEMMA ServerStutters == ServerInv /\ UNCHANGED serverVars => ServerInv'
<1> SUFFICES ASSUME ServerInv, UNCHANGED serverVars PROVE ServerInv'
  OBVIOUS
<1>1. part' = part /\ UNCHANGED shared /\ UNCHANGED hostVars
  BY DEF serverVars
<1>2. IInv'
  BY <1>1, NextIInv DEF ServerInv
<1>3. /\ part = "firewall" => Wall!FirewallInv'
      /\ part = "process" => Kill!ProcessInv'
      /\ part = "replay" => Replays!GuardInv'
      /\ part = "streams" => Streams!StreamsInv'
      /\ part = "auth" => Auth!AuthInv'
  BY <1>1, FirewallStutters, ProcessStutters, GuardStutters, StreamsStutters, AuthStutters DEF ServerInv
<1>4. /\ part = "metrics" => Metrics!MetricsInv'
      /\ part = "storage" => Disk!StorageInv'
      /\ part = "runbooks" => Books!RunbookInv'
      /\ part = "push" => Push!PushInv'
  BY <1>1, MetricsStutters, StorageStutters, RunbookStutters, PushStutters DEF ServerInv
<1>5. /\ part = "review" => Review!ReviewInv'
      /\ part = "projects" => Space!ProjectsInv'
      /\ part = "journal" => Pages!JournalInv'
      /\ part = "install" => Tools!InstallInv'
  BY <1>1, ReviewStutters, ProjectsStutters, JournalStutters, InstallStutters DEF ServerInv
<1> QED BY <1>1, <1>2, <1>3, <1>4, <1>5 DEF ServerInv

-----------------------------------------------------------------------------
(* The theorems *)

\* Every component keeps its invariant while it is at work.
THEOREM ServerInvariant == ServerSpec => []ServerInv
<1>1. ServerInv /\ [ServerNext]_serverVars => ServerInv'
  BY ServerNextInv, ServerStutters
<1> QED BY ServerInitInv, <1>1, PTL DEF ServerSpec

\* Whichever component is at work, every variable of it keeps its type.
THEOREM ServerTypesCorrect == ServerSpec => []TypesOK
<1>1. ServerInv => TypesOK
  BY InstallInvProps DEF ServerInv, TypesOK, IInv, Wall!FirewallInv, Kill!ProcessInv, Replays!GuardInv,
     Streams!StreamsInv, Auth!AuthInv, Metrics!MetricsInv, Disk!StorageInv, Books!RunbookInv, Push!PushInv,
     Review!ReviewInv, Space!ProjectsInv, Pages!JournalInv
<1> QED BY ServerInvariant, <1>1, PTL

\* No step shuts a port that sshd listened on when the guard of the firewall
\* looked, unless a deny rule of firewalld's was in the way; no frame is executed
\* again while the replay guard remembers it; and a protected path goes only with
\* a directory over it that somebody deleted.
THEOREM GuardsHoldAlways == ServerSpec => GuardsHold
<1>1. ASSUME ServerInv, ServerNext
      PROVE  /\ part = "firewall" => Wall!KeepsSSH
             /\ part = "replay" => Replays!RunsRarely
             /\ part = "storage" => Disk!TakesFromAbove
  BY <1>1, StepIsOfItsPart, FirewallKeepsSSH, GuardRunsRarely, StorageTakes DEF ServerInv
<1> QED BY ServerInvariant, <1>1, PTL DEF ServerSpec, GuardsHold

\* What security.fix closed is not reported while the firewall is enabled, a kill
\* that is reported done ended the process it was asked to end and no other, a
\* cleanup takes of the temporary directory only what was old when it was listed,
\* and an install that is done left its CLI there.
THEOREM ChangesAreAsked == ServerSpec => []ChangesAreAsAsked
<1>1. ServerInv => ChangesAreAsAsked
  BY FirewallClears, InstallInvProps
     DEF ServerInv, ChangesAreAsAsked, Kill!ProcessInv, Disk!StorageInv
<1> QED BY ServerInvariant, <1>1, PTL

\* A stream that runs can be stopped by its owner, a captive CLI belongs to the
\* login that is running, and no login succeeds on a credential of an earlier one.
THEOREM OwnersAlwaysReachTheirs == ServerSpec => []OwnersReachTheirs
<1>1. ServerInv => OwnersReachTheirs
  BY AuthInvProps DEF ServerInv, OwnersReachTheirs, Streams!StreamsInv
<1> QED BY ServerInvariant, <1>1, PTL

\* No sample invents traffic, a sample that was not overtaken tells of its own span,
\* and a walk through the journal's pages misses nothing and repeats nothing.
THEOREM ReportsAreAlwaysTrue == ServerSpec => []ReportsAreTrue
<1>1. ServerInv => ReportsAreTrue
  BY DEF ServerInv, ReportsAreTrue, Metrics!MetricsInv, Pages!JournalInv
<1> QED BY ServerInvariant, <1>1, PTL

\* A repair is asked for once in a window, its cards tell of a runbook that is
\* stored, and every phone that should hear of something is tried.
THEOREM PeopleAreAlwaysTold == ServerSpec => []PeopleAreTold
<1>1. ServerInv => PeopleAreTold
  BY RunbookInvProps DEF ServerInv, PeopleAreTold, Push!PushInv
<1> QED BY ServerInvariant, <1>1, PTL

\* What a commit takes in by way of its check was approved as it is, and a
\* workspace without a project was left on purpose or by a crash.
THEOREM WorkIsAlwaysExplained == ServerSpec => []WorkIsExplained
<1>1. ServerInv => WorkIsExplained
  BY ProjectsInvProps DEF ServerInv, WorkIsExplained, Review!ReviewInv
<1> QED BY ServerInvariant, <1>1, PTL
=============================================================================
