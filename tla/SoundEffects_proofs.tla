------------------------ MODULE SoundEffects_proofs -------------------------
(***************************************************************************)
(* Theorems about Doom's sound effects, for every number of channels,      *)
(* effects and pitches, every size of the cache and of the heap, and any   *)
(* interleaving with the mixer task: a sound that is held is cached and    *)
(* locked, and the cache passes its limit only when nothing in it could    *)
(* be freed.                                                               *)
(*                                                                         *)
(* For the first, each step that takes a hold away takes away as many      *)
(* locks, and each that adds a hold adds a lock; what is freed has no lock *)
(* and so no hold.  For the second, the list of sounds is an order, and    *)
(* the unused sound nearest to the tail is freed when any is.              *)
(***************************************************************************)
EXTENDS SoundEffects, FiniteSetTheorems, TLAPS

(* The channels that Doom holds a sound for.                               *)
On(s) == {c \in Channels : playing[c] = s}
Holds(s) == Cardinality(On(s)) + (IF Starting(s) THEN 1 ELSE 0)

Requests ==
  [sfx : Effects \cup {NoEffect}, origin : Origins \cup {NoOrigin}, pitch : Pitches,
   channel : Channels]

TableTypes ==
  /\ cache \subseteq Chunks /\ IsFiniteSet(cache)
  /\ uses \in [Chunks -> Nat]
  /\ playing \in [Channels -> Chunks \cup {NoChunk}]
  /\ req \in Requests /\ (pc \notin {"tic", "update"} => req.sfx \in Effects)

(* The list has an order.                                                  *)
ListOrder ==
  /\ newer \subseteq cache \X cache
  /\ \A s \in cache : <<s, s>> \notin newer
  /\ \A s, t, u \in cache : <<s, t>> \in newer /\ <<t, u>> \in newer => <<s, u>> \in newer

SoundInv == TableTypes /\ ListOrder /\ HeldIsLocked

LEMMA HeldByHolds ==
  HeldIsLocked <=> \A s \in Chunks : Holds(s) > 0 => s \in cache /\ uses[s] >= Holds(s)
BY DEF HeldIsLocked, Holds, On, Cached

LEMMA HeldByHoldsNext ==
  ASSUME \A s \in Chunks : Holds(s)' > 0 => s \in cache' /\ uses'[s] >= Holds(s)'
  PROVE  HeldIsLocked'
BY DEF HeldIsLocked, Holds, On, Cached

-----------------------------------------------------------------------------
(* Counting.                                                               *)
LEMMA ChannelsFinite == IsFiniteSet(Channels) /\ 0 \in Channels
BY ChannelAssumption, FS_Interval DEF Channels

LEMMA HoldsType ==
  ASSUME NEW s
  PROVE  /\ IsFiniteSet(On(s)) /\ Cardinality(On(s)) \in Nat
         /\ Holds(s) \in Nat
<1>1. On(s) \in SUBSET Channels
  BY DEF On
<1>2. IsFiniteSet(On(s))
  BY <1>1, ChannelsFinite, FS_Subset
<1>3. Cardinality(On(s)) \in Nat
  BY <1>2, FS_CardinalityType
<1>4. QED
  BY <1>2, <1>3 DEF Holds

(* The least of some channels is one of them.                              *)
LEMMA LeastChannel ==
  ASSUME NEW C \in SUBSET Channels, C # {}
  PROVE  Min(C) \in C
<1>1. IsWellFoundedOn(OpToRel(<, Nat), Nat)
  BY NatLessThanWellFounded
<1>2. C \subseteq Nat
  BY ChannelAssumption DEF Channels
<1>3. \E m \in C : \A c \in C : <<c, m>> \notin OpToRel(<, Nat)
  BY <1>1, <1>2, WFMin
<1>4. PICK m \in C : \A c \in C : <<c, m>> \notin OpToRel(<, Nat)
  BY <1>3
<1>5. \A c \in C : ~(c < m)
  BY <1>2, <1>4 DEF OpToRel
<1>6. \A c \in C : m <= c
  BY <1>2, <1>5
<1>7. QED
  BY <1>6 DEF Min

(* An unused sound of the list has none nearer to the tail, if there is    *)
(* any.                                                                    *)
LEMMA LastOfList ==
  ASSUME ListOrder, IsFiniteSet(cache), NEW U \in SUBSET cache, U # {}
  PROVE  \E s \in U : {t \in U : <<s, t>> \in newer} = {}
<1> DEFINE Behind(s) == {t \in U : <<s, t>> \in newer}
           F == {Behind(s) : s \in U}
<1>1. IsFiniteSet(U)
  BY FS_Subset
<1>2. IsWellFoundedOn(StrictSubsetOrdering(U), SUBSET U)
  BY <1>1, FS_StrictSubsetOrderingWellFounded, FS_FiniteSubsetsOfFinite
<1>3. F \subseteq SUBSET U /\ F # {}
  OBVIOUS
<1>4. \E x \in F : \A y \in F : <<y, x>> \notin StrictSubsetOrdering(U)
  <2> HIDE DEF F
  <2>1. QED
    BY <1>2, <1>3, WFMin
<1>5. PICK s \in U : \A t \in U : <<Behind(t), Behind(s)>> \notin StrictSubsetOrdering(U)
  BY <1>4
<1>6. ASSUME NEW t \in Behind(s) PROVE FALSE
  <2>1. t \in U /\ Behind(t) \subseteq Behind(s) /\ t \notin Behind(t)
    BY <1>6 DEF ListOrder
  <2>2. Behind(t) # Behind(s)
    BY <1>6, <2>1
  <2>3. <<Behind(t), Behind(s)>> \in StrictSubsetOrdering(U)
    BY <2>1, <2>2 DEF StrictSubsetOrdering
  <2>4. QED
    BY <1>5, <2>1, <2>3
<1>7. QED
  BY <1>6

-----------------------------------------------------------------------------
(* The list.                                                               *)
LEMMA KeptKeepsOrder ==
  ASSUME ListOrder, NEW S \in SUBSET cache, Kept(S)
  PROVE  ListOrder'
BY DEF Kept, ListOrder

LEMMA ToHeadKeepsOrder ==
  ASSUME ListOrder, NEW S \in SUBSET cache, NEW s, ToHead(S, s)
  PROVE  ListOrder'
BY DEF ToHead, ListOrder

LEMMA EvictedUnused ==
  /\ Reserved \subseteq cache /\ Remaining \subseteq cache
  /\ \A s \in Reserved : uses[s] = 0
  /\ \A s \in cache : uses[s] # 0 => s \in Remaining
BY DEF Reserved, Remaining, Evicted

-----------------------------------------------------------------------------
(* The steps that give sounds back.                                        *)
NotStarting == pc \notin {"shift", "play"}

LEMMA ReleaseKeeps ==
  ASSUME SoundInv, NEW C \in SUBSET Channels, Release(C), NotStarting, NotStarting',
         req' \in Requests, pc' \notin {"tic", "update"} => req'.sfx \in Effects
  PROVE  SoundInv'
<1> DEFINE given(s) == Cardinality({c \in C : playing[c] = s})
           left == [s \in Chunks |-> uses[s] - given(s)]
           shifted(s) == s.pitch # NORM_PITCH /\ given(s) > 0 /\ left[s] <= 0
<1>1. /\ playing' = [c \in Channels |-> IF c \in C THEN NoChunk ELSE playing[c]]
      /\ uses' = left
      /\ Kept({s \in cache : ~shifted(s)})
  BY DEF Release
<1>2. ASSUME NEW s \in Chunks
      PROVE  /\ given(s) \in Nat /\ uses[s] - given(s) \in Nat
             /\ Holds(s)' = Holds(s) - given(s)
             /\ Holds(s) > 0 => s \in cache /\ uses[s] >= Holds(s)
  <2>1. {c \in C : playing[c] = s} = On(s) \cap C
    BY DEF On
  <2>2. On(s)' = On(s) \ C
    BY <1>1, ChannelAssumption DEF On
  <2>3. /\ given(s) \in Nat /\ given(s) <= Cardinality(On(s))
        /\ Cardinality(On(s)') = Cardinality(On(s)) - given(s)
    BY <2>1, <2>2, HoldsType, FS_Difference, FS_Intersection, FS_CardinalityType
  <2>4. Holds(s) = Cardinality(On(s)) /\ Holds(s)' = Cardinality(On(s)')
    BY HoldsType, <2>2, <2>3 DEF Holds, Starting, NotStarting
  <2>5. Holds(s) > 0 => s \in cache /\ uses[s] >= Holds(s)
    BY HeldByHolds DEF SoundInv
  <2>6. uses[s] \in Nat
    BY DEF SoundInv, TableTypes
  <2>7. QED
    BY <2>3, <2>4, <2>5, <2>6, HoldsType
<1>3. TableTypes'
  <2>1. cache' \subseteq cache
    BY <1>1 DEF Kept
  <2>2. IsFiniteSet(cache')
    BY <2>1, FS_Subset DEF SoundInv, TableTypes
  <2>3. uses' \in [Chunks -> Nat]
    BY <1>1, <1>2
  <2>4. playing' \in [Channels -> Chunks \cup {NoChunk}]
    BY <1>1 DEF SoundInv, TableTypes
  <2>5. QED
    BY <2>1, <2>2, <2>3, <2>4 DEF SoundInv, TableTypes
<1>4. ListOrder'
  BY <1>1, KeptKeepsOrder DEF SoundInv
<1>5. HeldIsLocked'
  <2>1. ASSUME NEW s \in Chunks, Holds(s)' > 0
        PROVE  s \in cache' /\ uses'[s] >= Holds(s)'
    <3>1. Holds(s) \in Nat /\ uses[s] \in Nat
      BY HoldsType DEF SoundInv, TableTypes
    <3>2. s \in cache /\ uses[s] >= Holds(s)
      <4>1. given(s) \in Nat /\ Holds(s)' = Holds(s) - given(s)
        BY <1>2
      <4>2. Holds(s) > 0
        BY <2>1, <3>1, <4>1
      <4>3. QED
        BY <1>2, <4>2
    <3>3. uses'[s] = uses[s] - given(s) /\ left[s] >= Holds(s)' /\ left[s] > 0
      BY <1>1, <1>2, <2>1, <3>1, <3>2
    <3>4. ~shifted(s)
      BY <1>2, <3>1, <3>3
    <3>5. QED
      BY <1>1, <3>2, <3>3, <3>4 DEF Kept
  <2> QED
    BY <2>1, HeldByHoldsNext
<1>6. QED
  BY <1>3, <1>4, <1>5 DEF SoundInv

-----------------------------------------------------------------------------
(* The steps that lock sounds.  The sound being started is held by these.  *)
Started == IF pc = "shift" THEN {Base} ELSE IF pc = "play" THEN {Shifted} ELSE {}

LEMMA HoldsOf ==
  ASSUME NEW s
  PROVE  /\ Holds(s) = Cardinality(On(s)) + (IF s \in Started THEN 1 ELSE 0)
         /\ Holds(s)' = Cardinality(On(s)') + (IF s \in Started' THEN 1 ELSE 0)
BY DEF Holds, Starting, Started

LEMMA RequestSounds ==
  ASSUME TableTypes, pc \in {"lock", "shift", "play"}
  PROVE  Base \in Chunks /\ Shifted \in Chunks
BY EffectsAssumption DEF TableTypes, Requests, Base, Shifted, Sound

LEMMA FoundType ==
  ASSUME SoundInv, NEW s \in Chunks
  PROVE  /\ Found(s) \in SUBSET cache /\ IsFiniteSet(Found(s) \cup {s})
         /\ \A t \in cache : uses[t] > 0 => t \in Found(s)
         /\ s \in cache => s \in Found(s)
<1>1. Found(s) \in SUBSET cache
  BY EvictedUnused DEF Found
<1>2. IsFiniteSet(Found(s) \cup {s})
  BY <1>1, FS_Subset, FS_AddElement DEF SoundInv, TableTypes
<1>3. QED
  BY <1>1, <1>2, EvictedUnused DEF Found, Cached, SoundInv, TableTypes

(* A sound is moved to the head, and the holds are no more than the locks. *)
LEMMA LockKeeps ==
  ASSUME SoundInv, NEW b \in Chunks, ToHead(Found(b), b),
         playing' = playing, uses' \in [Chunks -> Nat],
         \A s \in Chunks : uses'[s] >= Holds(s)',
         \A s \in Chunks : s # b /\ Holds(s)' > 0 => Holds(s) > 0,
         req' \in Requests, pc' \notin {"tic", "update"} => req'.sfx \in Effects
  PROVE  SoundInv'
<1>1. cache' = Found(b) \cup {b}
  BY DEF ToHead
<1>2. TableTypes'
  BY <1>1, FoundType DEF SoundInv, TableTypes
<1>3. ListOrder'
  BY FoundType, ToHeadKeepsOrder DEF SoundInv
<1>4. HeldIsLocked'
  <2>1. ASSUME NEW s \in Chunks, Holds(s)' > 0
        PROVE  s \in cache' /\ uses'[s] >= Holds(s)'
    <3>1. CASE s = b
      BY <1>1, <2>1, <3>1
    <3>2. CASE s # b
      <4>1. s \in cache /\ uses[s] >= Holds(s) /\ Holds(s) > 0
        BY <2>1, <3>2, HeldByHolds DEF SoundInv
      <4>2. uses[s] > 0
        BY <4>1, HoldsType DEF SoundInv, TableTypes
      <4>3. QED
        BY <1>1, <4>1, <4>2, FoundType
    <3>3. QED
      BY <3>1, <3>2
  <2> QED
    BY <2>1, HeldByHoldsNext
<1>5. QED
  BY <1>2, <1>3, <1>4 DEF SoundInv

LEMMA LockSoundKeeps == ASSUME SoundInv, LockSound PROVE SoundInv'
<1>1. /\ pc = "lock" /\ pc' = "shift" /\ req' = req /\ playing' = playing
      /\ uses' = [uses EXCEPT ![Base] = @ + 1] /\ ToHead(Found(Base), Base)
  BY DEF LockSound, Lock
<1>2. Base \in Chunks /\ uses \in [Chunks -> Nat]
  BY <1>1, RequestSounds DEF SoundInv, TableTypes
<1>3. Started = {} /\ Started' = {Base}
  BY <1>1 DEF Started, Base
<1>4. ASSUME NEW s \in Chunks
      PROVE  /\ Holds(s)' = Holds(s) + (IF s = Base THEN 1 ELSE 0)
             /\ Holds(s) \in Nat /\ uses[s] >= Holds(s)
  <2>1. On(s)' = On(s)
    BY <1>1 DEF On
  <2>2. Holds(s) > 0 => uses[s] >= Holds(s)
    BY HeldByHolds DEF SoundInv
  <2>3. QED
    BY <1>2, <1>3, <2>1, <2>2, HoldsOf, HoldsType
<1>5. \A s \in Chunks : uses'[s] >= Holds(s)'
  BY <1>1, <1>2, <1>4
<1>6. \A s \in Chunks : s # Base /\ Holds(s)' > 0 => Holds(s) > 0
  BY <1>4
<1>7. req' \in Requests /\ req'.sfx \in Effects /\ uses' \in [Chunks -> Nat]
  BY <1>1, <1>2 DEF SoundInv, TableTypes
<1>8. QED
  BY <1>1, <1>2, <1>5, <1>6, <1>7, LockKeeps

LEMMA ShiftFoundKeeps == ASSUME SoundInv, ShiftFound PROVE SoundInv'
<1>1. /\ pc = "shift" /\ pc' = "play" /\ playing' = playing /\ Shifted \in cache
      /\ req' = [req EXCEPT !.pitch = Shifted.pitch]
      /\ uses' = [uses EXCEPT ![Shifted] = @ + 1] /\ ToHead(cache, Shifted)
  BY DEF ShiftFound, Lock, Cached
<1>2. Base \in Chunks /\ Shifted \in Chunks /\ uses \in [Chunks -> Nat]
  BY <1>1, RequestSounds DEF SoundInv, TableTypes
<1>3. /\ req' = req
      /\ Started = {Base} /\ Started' = {Shifted} /\ ToHead(Found(Shifted), Shifted)
  BY <1>1 DEF Started, Base, Shifted, Sound, Found, Cached, SoundInv, TableTypes, Requests
<1>4. ASSUME NEW s \in Chunks
      PROVE  /\ Holds(s)' <= Holds(s) + (IF s = Shifted THEN 1 ELSE 0)
             /\ Holds(s) \in Nat /\ Holds(s)' \in Nat /\ uses[s] >= Holds(s)
  <2>1. On(s)' = On(s)
    BY <1>1 DEF On
  <2>2. Holds(s) > 0 => uses[s] >= Holds(s)
    BY HeldByHolds DEF SoundInv
  <2>3. QED
    BY <1>2, <1>3, <2>1, <2>2, HoldsOf, HoldsType
<1>5. \A s \in Chunks : uses'[s] >= Holds(s)'
  BY <1>1, <1>2, <1>4
<1>6. \A s \in Chunks : s # Shifted /\ Holds(s)' > 0 => Holds(s) > 0
  BY <1>4
<1>7. req' \in Requests /\ req'.sfx \in Effects /\ uses' \in [Chunks -> Nat]
  BY <1>1, <1>2, <1>3 DEF SoundInv, TableTypes
<1>8. QED
  BY <1>1, <1>2, <1>3, <1>5, <1>6, <1>7, LockKeeps

(* The base sound stays locked, and so in the cache, while the shifted one *)
(* is made; it is another one, as it was not cached.                       *)
LEMMA PitchShiftKeeps == ASSUME SoundInv, PitchShift PROVE SoundInv'
<1>1. /\ pc = "shift" /\ pc' = "play" /\ playing' = playing /\ Shifted \notin cache
  BY DEF PitchShift, Cached
<1>2. /\ Base \in Chunks /\ Shifted \in Chunks /\ uses \in [Chunks -> Nat]
      /\ Started = {Base}
  BY <1>1, RequestSounds DEF SoundInv, TableTypes, Started
<1>3. ASSUME NEW s \in Chunks
      PROVE  /\ On(s)' = On(s) /\ Holds(s) \in Nat /\ uses[s] >= Holds(s)
             /\ Holds(s) > 0 => s \in cache
             /\ Holds(s) = Cardinality(On(s)) + (IF s = Base THEN 1 ELSE 0)
             /\ Cardinality(On(s)) \in Nat
  <2>1. On(s)' = On(s)
    BY <1>1 DEF On
  <2>2. Holds(s) > 0 => s \in cache /\ uses[s] >= Holds(s)
    BY HeldByHolds DEF SoundInv
  <2>3. QED
    BY <1>2, <2>1, <2>2, HoldsOf, HoldsType
<1>4. Base \in cache /\ uses[Base] >= 1 /\ Base # Shifted /\ Holds(Shifted) = 0
  BY <1>1, <1>2, <1>3
<1>5. CASE MallocOk
  <2>1. /\ uses' = [uses EXCEPT ![Shifted] = @ + 1, ![Base] = @ - 1] /\ req' = req
        /\ ToHead(Found(Shifted), Shifted)
    BY <1>1, <1>5 DEF PitchShift, Found, Cached
  <2>2. Started' = {Shifted}
    BY <1>1, <2>1 DEF Started, Shifted
  <2>3. ASSUME NEW s \in Chunks
        PROVE  Holds(s)' = Holds(s) + (IF s = Shifted THEN 1 ELSE IF s = Base THEN -1 ELSE 0)
    BY <1>3, <1>4, <2>2, HoldsOf
  <2>4. /\ uses'[Shifted] = uses[Shifted] + 1 /\ uses'[Base] = uses[Base] - 1
        /\ \A s \in Chunks : s \notin {Shifted, Base} => uses'[s] = uses[s]
    BY <1>2, <1>4, <2>1
  <2>5. \A s \in Chunks : uses'[s] >= Holds(s)'
    BY <1>2, <1>3, <2>3, <2>4
  <2>6. \A s \in Chunks : s # Shifted /\ Holds(s)' > 0 => Holds(s) > 0
    BY <1>3, <2>3
  <2>7. uses' \in [Chunks -> Nat]
    BY <1>2, <1>4, <2>1
  <2>8. req' \in Requests /\ req'.sfx \in Effects
    BY <1>1, <2>1 DEF SoundInv, TableTypes
  <2>9. QED
    BY <1>1, <1>2, <2>1, <2>5, <2>6, <2>7, <2>8, LockKeeps
<1>6. CASE ~MallocOk
  <2>1. uses' = uses /\ req' = [req EXCEPT !.pitch = NORM_PITCH] /\ Kept(Remaining)
    BY <1>6 DEF PitchShift
  <2>2. Base = Shifted' /\ Started' = {Base}
    BY <1>1, <2>1 DEF Started, Base, Shifted, Sound, SoundInv, TableTypes, Requests
  <2>3. TableTypes'
    <3>1. IsFiniteSet(Remaining) /\ Remaining \subseteq Chunks
      BY EvictedUnused, FS_Subset DEF SoundInv, TableTypes
    <3>2. req' \in Requests /\ req'.sfx \in Effects
      BY <1>1, <2>1, EffectsAssumption DEF SoundInv, TableTypes, Requests
    <3>3. QED
      BY <1>1, <2>1, <3>1, <3>2 DEF SoundInv, TableTypes, Kept
  <2>4. ListOrder'
    BY <2>1, EvictedUnused, KeptKeepsOrder DEF SoundInv
  <2>5. ASSUME NEW s \in Chunks, Holds(s)' > 0
        PROVE  s \in cache' /\ uses'[s] >= Holds(s)'
    <3>1. Holds(s)' = Holds(s)
      BY <1>3, <2>2, HoldsOf
    <3>2. s \in cache /\ uses[s] >= Holds(s) /\ uses[s] # 0
      BY <1>2, <1>3, <2>5, <3>1
    <3>3. QED
      BY <2>1, <3>1, <3>2, EvictedUnused DEF Kept
  <2>6. QED
    BY <2>3, <2>4, <2>5, HeldByHoldsNext DEF SoundInv
<1>7. QED
  BY <1>5, <1>6

(* Without a shifted sound the base sound is the one that is played.       *)
LEMMA NotShiftedKeeps == ASSUME SoundInv, NotShifted PROVE SoundInv'
<1>1. /\ pc = "shift" /\ pc' = "play" /\ UNCHANGED <<cache, newer, uses, playing>>
      /\ req' = [req EXCEPT !.pitch = NORM_PITCH]
  BY DEF NotShifted
<1>2. Started = {Base} /\ Started' = {Base}
  BY <1>1 DEF Started, Base, Shifted, Sound, SoundInv, TableTypes, Requests
<1>3. TableTypes'
  BY <1>1, EffectsAssumption DEF SoundInv, TableTypes, Requests
<1>4. ListOrder'
  BY <1>1 DEF SoundInv, ListOrder
<1>5. ASSUME NEW s \in Chunks, Holds(s)' > 0
      PROVE  s \in cache' /\ uses'[s] >= Holds(s)'
  <2>1. On(s)' = On(s)
    BY <1>1 DEF On
  <2>2. Holds(s)' = Holds(s)
    BY <1>2, <2>1, HoldsOf
  <2>3. QED
    BY <1>1, <1>5, <2>2, HeldByHolds DEF SoundInv
<1>6. QED
  BY <1>3, <1>4, <1>5, HeldByHoldsNext DEF SoundInv

(* The channel takes over the hold of the start.                           *)
LEMMA PlaySoundKeeps == ASSUME SoundInv, PlaySound PROVE SoundInv'
<1>1. /\ pc = "play" /\ pc' = "tic" /\ UNCHANGED <<cache, newer, uses, req>>
      /\ playing' = [playing EXCEPT ![req.channel] = Shifted]
  BY DEF PlaySound
<1>2. Started = {Shifted} /\ Started' = {} /\ Shifted \in Chunks /\ req.channel \in Channels
  BY <1>1, RequestSounds DEF Started, SoundInv, TableTypes, Requests
<1>3. TableTypes'
  BY <1>1, <1>2 DEF SoundInv, TableTypes
<1>4. ListOrder'
  BY <1>1 DEF SoundInv, ListOrder
<1>5. ASSUME NEW s \in Chunks, Holds(s)' > 0
      PROVE  s \in cache' /\ uses'[s] >= Holds(s)'
  <2>1. On(s)' \in SUBSET (On(s) \cup (IF s = Shifted THEN {req.channel} ELSE {}))
    BY <1>1, <1>2 DEF On, SoundInv, TableTypes
  <2>2. Cardinality(On(s)') <= Cardinality(On(s)) + (IF s = Shifted THEN 1 ELSE 0)
    <3>1. CASE s = Shifted
      <4>1. /\ IsFiniteSet(On(s) \cup {req.channel})
            /\ Cardinality(On(s) \cup {req.channel}) <= Cardinality(On(s)) + 1
        BY HoldsType, FS_AddElement
      <4>2. Cardinality(On(s)') <= Cardinality(On(s) \cup {req.channel})
        BY <2>1, <3>1, <4>1, FS_Subset
      <4>3. Cardinality(On(s)') \in Nat /\ Cardinality(On(s) \cup {req.channel}) \in Nat
        BY <2>1, <3>1, <4>1, FS_Subset, FS_CardinalityType
      <4>4. QED
        BY <3>1, <4>1, <4>2, <4>3, HoldsType
    <3>2. CASE s # Shifted
      <4>1. Cardinality(On(s)') <= Cardinality(On(s))
        BY <2>1, <3>2, HoldsType, FS_Subset
      <4>2. QED
        BY <3>2, <4>1, HoldsType
    <3>3. QED
      BY <3>1, <3>2
  <2>3. IsFiniteSet(On(s)') /\ Cardinality(On(s)') \in Nat
    <3>1. IsFiniteSet(On(s) \cup {req.channel})
      BY HoldsType, FS_AddElement
    <3>2. On(s)' \in SUBSET (On(s) \cup {req.channel})
      BY <2>1
    <3>3. QED
      BY <3>1, <3>2, FS_Subset, FS_CardinalityType
  <2>4. Holds(s)' <= Holds(s) /\ Holds(s)' \in Nat
    BY <1>2, <2>2, <2>3, HoldsOf, HoldsType
  <2>5. Holds(s) > 0 /\ uses[s] \in Nat
    BY <1>5, <2>4, HoldsType DEF SoundInv, TableTypes
  <2>6. QED
    BY <1>1, <2>4, <2>5, HeldByHolds, HoldsType DEF SoundInv
<1>6. QED
  BY <1>3, <1>4, <1>5, HeldByHoldsNext DEF SoundInv

LEMMA LockFailsKeeps == ASSUME SoundInv, LockFails PROVE SoundInv'
<1>1. /\ pc = "lock" /\ pc' = "tic" /\ UNCHANGED <<uses, playing, req>> /\ Kept(Remaining)
  BY DEF LockFails
<1>2. Started = {} /\ Started' = {}
  BY <1>1 DEF Started
<1>3. TableTypes'
  <2>1. IsFiniteSet(Remaining) /\ Remaining \subseteq Chunks
    BY EvictedUnused, FS_Subset DEF SoundInv, TableTypes
  <2>2. QED
    BY <1>1, <2>1 DEF SoundInv, TableTypes, Kept
<1>4. ListOrder'
  BY <1>1, EvictedUnused, KeptKeepsOrder DEF SoundInv
<1>5. ASSUME NEW s \in Chunks, Holds(s)' > 0
      PROVE  s \in cache' /\ uses'[s] >= Holds(s)'
  <2>1. On(s)' = On(s)
    BY <1>1 DEF On
  <2>2. Holds(s)' = Holds(s)
    BY <1>2, <2>1, HoldsOf
  <2>3. s \in cache /\ uses[s] >= Holds(s) /\ uses[s] # 0
    BY <1>5, <2>2, HeldByHolds, HoldsType DEF SoundInv, TableTypes
  <2>4. QED
    BY <1>1, <2>2, <2>3, EvictedUnused DEF Kept
<1>6. QED
  BY <1>3, <1>4, <1>5, HeldByHoldsNext DEF SoundInv

-----------------------------------------------------------------------------
(* The other steps.                                                        *)
LEMMA SilentKeeps ==
  ASSUME SoundInv, UNCHANGED <<cache, newer, uses, playing, req>>, NotStarting, NotStarting',
         pc' \notin {"tic", "update"} => pc \notin {"tic", "update"}
  PROVE  SoundInv'
<1>1. TableTypes' /\ ListOrder'
  BY DEF SoundInv, TableTypes, ListOrder
<1>2. HeldIsLocked'
  BY DEF SoundInv, HeldIsLocked, Cached, Starting, NotStarting
<1>3. QED
  BY <1>1, <1>2 DEF SoundInv

LEMMA TableStepsKeep ==
  ASSUME SoundInv,
         \/ \E sfx \in Effects, o \in Origins \cup {NoOrigin}, p \in Pitches :
              StartSound(sfx, o, p)
         \/ GetChannel \/ ReleaseOld \/ UpdateSound \/ UpdateChannels \/ LevelStart
  PROVE  SoundInv'
<1> USE DEF NotStarting
<1>0. req \in Requests /\ (pc \notin {"tic", "update"} => req.sfx \in Effects)
  BY DEF SoundInv, TableTypes
<1>1. ASSUME NEW C, StopSounds(C), NotStarting, NotStarting', C \subseteq Channels,
             req' \in Requests, pc' \notin {"tic", "update"} => req'.sfx \in Effects
      PROVE  SoundInv'
  <2>1. {c \in C : IsPlaying(doom[c].handle)} \in SUBSET Channels
    BY <1>1
  <2>2. Release({c \in C : IsPlaying(doom[c].handle)})
    BY <1>1 DEF StopSounds
  <2>3. QED
    BY <1>1, <2>1, <2>2, ReleaseKeeps
<1>2. ASSUME NEW sfx \in Effects, NEW o \in Origins \cup {NoOrigin}, NEW p \in Pitches,
             StartSound(sfx, o, p)
      PROVE  SoundInv'
  <2> DEFINE same == {c \in Channels : doom[c].sfx # NoEffect /\ doom[c].origin = o}
             stop == IF same = {} THEN {} ELSE {Min(same)}
  <2>1. stop \subseteq Channels
    <3>1. same \in SUBSET Channels
      OBVIOUS
    <3>2. QED
      BY <3>1, LeastChannel
  <2>2. /\ StopSounds(stop) /\ pc = "tic" /\ pc' = "get"
        /\ req' = Request(sfx, o, p, 0)
    BY <1>2 DEF StartSound
  <2>3. req' \in Requests /\ req'.sfx \in Effects
    BY <2>2, ChannelsFinite DEF Request, Requests
  <2>4. QED
    BY <1>1, <2>1, <2>2, <2>3
<1>3. ASSUME NEW c \in Channels, TakeChannel(c), pc = "get"
      PROVE  SoundInv'
  <2>1. /\ StopSounds({c} \ {d \in Channels : doom[d].sfx = NoEffect})
        /\ req' = [req EXCEPT !.channel = c] /\ pc' = "release"
    BY <1>3 DEF TakeChannel
  <2>2. req' \in Requests /\ req'.sfx \in Effects
    BY <1>0, <1>3, <2>1 DEF Requests
  <2>3. QED
    BY <1>1, <1>3, <2>1, <2>2
<1>4. CASE GetChannel
  <2>1. CASE Open # {} /\ TakeChannel(Min(Open))
    <3>1. Min(Open) \in Channels
      BY <2>1, LeastChannel DEF Open
    <3>2. QED
      BY <1>3, <1>4, <2>1, <3>1 DEF GetChannel
  <2>2. CASE Lower # {} /\ TakeChannel(Min(Lower))
    <3>1. Min(Lower) \in Channels
      BY <2>2, LeastChannel DEF Lower
    <3>2. QED
      BY <1>3, <1>4, <2>2, <3>1 DEF GetChannel
  <2>3. CASE pc' = "tic" /\ UNCHANGED <<cache, newer, uses, playing, req>>
    BY <1>4, <2>3, SilentKeeps DEF GetChannel
  <2>4. QED
    BY <1>4, <2>1, <2>2, <2>3 DEF GetChannel
<1>5. CASE ReleaseOld
  <2>1. {req.channel} \in SUBSET Channels
    BY <1>0 DEF Requests
  <2>2. QED
    BY <1>0, <1>5, <2>1, ReleaseKeeps DEF ReleaseOld
<1>6. CASE UpdateSound
  <2>1. {c \in Channels : playing[c] # NoChunk /\ ~IsPlaying(c)} \in SUBSET Channels
    OBVIOUS
  <2>2. QED
    BY <1>0, <1>6, <2>1, ReleaseKeeps DEF UpdateSound
<1>7. CASE UpdateChannels
  <2>1. PICK far \in SUBSET {c \in Channels : doom[c].origin # NoOrigin} :
          StopSounds({c \in {d \in Channels : doom[d].sfx # NoEffect} :
                        IsPlaying(doom[c].handle) => c \in far})
    BY <1>7 DEF UpdateChannels
  <2>2. pc = "update" /\ pc' = "tic" /\ req' = req
    BY <1>7 DEF UpdateChannels
  <2>3. QED
    BY <1>0, <1>1, <2>1, <2>2
<1>8. CASE LevelStart
  <2>1. {c \in Channels : doom[c].sfx # NoEffect} \subseteq Channels
    OBVIOUS
  <2>2. QED
    BY <1>0, <1>1, <1>8, <2>1 DEF LevelStart
<1>9. QED
  BY <1>2, <1>4, <1>5, <1>6, <1>7, <1>8

LEMMA SoundStep == SoundInv /\ [SoundNext]_vars => SoundInv'
<1> SUFFICES ASSUME SoundInv, [SoundNext]_vars PROVE SoundInv'
  OBVIOUS
<1>1. CASE Mix \/ UNCHANGED vars
  <2>1. UNCHANGED <<cache, newer, uses, playing, pc, req>>
    BY <1>1 DEF Mix, vars
  <2>2. QED
    BY <2>1 DEF SoundInv, TableTypes, ListOrder, HeldIsLocked, Cached, Starting, Base, Shifted
<1>2. QED
  BY <1>1, TableStepsKeep, LockSoundKeeps, LockFailsKeeps, ShiftFoundKeeps, PitchShiftKeeps,
     NotShiftedKeeps, PlaySoundKeeps DEF SoundNext

LEMMA SoundStart == SoundInit => SoundInv
<1> SUFFICES ASSUME SoundInit PROVE SoundInv
  OBVIOUS
<1>1. TableTypes
  BY EffectsAssumption, ChannelsFinite, FS_EmptySet
     DEF SoundInit, TableTypes, Requests, Request
<1>2. ListOrder
  BY DEF SoundInit, ListOrder
<1>3. ASSUME NEW s \in Chunks PROVE Holds(s) = 0
  <2>1. On(s) = {}
    BY ChannelAssumption DEF SoundInit, On
  <2>2. QED
    BY <2>1, FS_EmptySet DEF Holds, Starting, SoundInit
<1>4. QED
  BY <1>1, <1>2, <1>3, HeldByHolds DEF SoundInv

(* A sound that Doom holds for a channel, or is starting, is in the cache  *)
(* and locked as often as it is held (LockAllocatedSound,                  *)
(* ReleaseSoundOnChannel): HeldIsLocked is an invariant.                   *)
THEOREM HeldSoundsAreLocked == SoundSpec => []HeldIsLocked
<1>1. SoundInv => HeldIsLocked
  BY DEF SoundInv
<1>2. QED
  BY <1>1, SoundStart, SoundStep, PTL DEF SoundSpec

-----------------------------------------------------------------------------
(* The limit of the cache.                                                 *)

(* A list that is longer after a sound came to it has lost none, and if    *)
(* room was to be made for it, there was none to lose.                     *)
LEMMA NewSoundGrows ==
  ASSUME SoundInv, NEW s, cache' = Remaining \cup {s},
         Cardinality(cache') > Cardinality(cache), Cardinality(cache') > CacheSize
  PROVE  \A t \in cache : uses[t] > 0
<1> DEFINE unused == {t \in cache : uses[t] = 0}
           n == Cardinality(cache) + 1 - CacheSize
<1>1. IsFiniteSet(cache) /\ Cardinality(cache) \in Nat /\ CacheSize \in Nat
  BY FS_CardinalityType, EffectsAssumption DEF SoundInv, TableTypes
<1>2. /\ IsFiniteSet(Remaining) /\ Cardinality(Remaining) \in Nat
      /\ Cardinality(cache') \in Nat /\ Cardinality(cache') <= Cardinality(Remaining) + 1
  <2>1. IsFiniteSet(Remaining)
    BY <1>1, EvictedUnused, FS_Subset
  <2>2. QED
    BY <2>1, FS_CardinalityType, FS_AddElement
<1>3. Cardinality(Remaining) <= Cardinality(cache)
  BY <1>1, EvictedUnused, FS_Subset
<1>4. n > 0
  BY <1>1, <1>2, <1>3
<1>5. ASSUME unused # {} PROVE FALSE
  <2>1. PICK t \in unused : {u \in unused : <<t, u>> \in newer} = {}
    BY <1>1, <1>5, LastOfList DEF SoundInv
  <2>2. t \in Reserved
    BY <1>4, <2>1, FS_EmptySet DEF Reserved, Evicted
  <2>3. Remaining \in SUBSET (cache \ {t})
    BY <2>2 DEF Remaining
  <2>4. /\ IsFiniteSet(cache \ {t})
        /\ Cardinality(cache \ {t}) = Cardinality(cache) - 1
    BY <1>1, <2>1, FS_RemoveElement
  <2>5. Cardinality(Remaining) <= Cardinality(cache) - 1
    BY <2>3, <2>4, FS_Subset
  <2>6. QED
    BY <1>1, <1>2, <2>5
<1>6. QED
  BY <1>5 DEF SoundInv, TableTypes

LEMMA GrowsByNewSound ==
  ASSUME SoundInv, [SoundNext]_vars, Cardinality(cache') > Cardinality(cache)
  PROVE  \E s : cache' = Remaining \cup {s}
<1>1. IsFiniteSet(cache) /\ Cardinality(cache) \in Nat
  BY FS_CardinalityType DEF SoundInv, TableTypes
<1>2. ~(cache' \subseteq cache)
  <2>1. ASSUME cache' \in SUBSET cache PROVE FALSE
    <3>1. IsFiniteSet(cache') /\ Cardinality(cache') <= Cardinality(cache)
      BY <1>1, <2>1, FS_Subset
    <3>2. Cardinality(cache') \in Nat
      BY <3>1, FS_CardinalityType
    <3>3. QED
      BY <1>1, <3>1, <3>2
  <2>2. QED
    BY <2>1
<1>3. \A C : ~Release(C)
  BY <1>2 DEF Release, Kept
<1>4. ~Kept(Remaining)
  BY <1>2, EvictedUnused DEF Kept
<1>5. LockSound \/ ShiftFound \/ PitchShift
  <2>1. ~GetChannel
    BY <1>2, <1>3 DEF GetChannel, TakeChannel, StopSounds
  <2>2. /\ ~ReleaseOld /\ ~UpdateSound /\ ~UpdateChannels /\ ~LevelStart
        /\ \A sfx, o, p : ~StartSound(sfx, o, p)
    BY <1>3 DEF ReleaseOld, UpdateSound, UpdateChannels, LevelStart, StartSound, StopSounds
  <2>3. ~LockFails /\ ~NotShifted /\ ~PlaySound /\ ~Mix /\ ~UNCHANGED vars
    BY <1>2, <1>4 DEF LockFails, NotShifted, PlaySound, Mix, vars
  <2>4. QED
    BY <2>1, <2>2, <2>3 DEF SoundNext
<1>6. QED
  BY <1>2, <1>4, <1>5
     DEF LockSound, ShiftFound, PitchShift, ToHead, Found, Cached

(* ReserveCacheSpace lets the cache grow past snd_cachesize only when all  *)
(* sounds that stay in it are in use: GrowsWhenFull holds.                 *)
THEOREM CacheGrowsOnlyWhenFull == SoundSpec => GrowsWhenFull
<1>1. SoundInv /\ [SoundNext]_vars
        => [Cardinality(cache') > Cardinality(cache) /\ Cardinality(cache') > CacheSize
              => \A s \in cache : uses[s] > 0]_vars
  BY GrowsByNewSound, NewSoundGrows
<1>2. QED
  BY <1>1, SoundStart, SoundStep, PTL DEF SoundSpec, GrowsWhenFull
=============================================================================
