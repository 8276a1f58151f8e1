---------------------------- MODULE SoundEffects ----------------------------
(***************************************************************************)
(* Doom's sound effects over the mixer's channels: the channel table of    *)
(* src/chocolate-doom-3.0.1/src/doom/s_sound.c and the sound cache of      *)
(* src/chocolate-doom-3.0.1/src/i_sdlsound.c, both run by the Doom task,   *)
(* against MixSound, run by the mixer task at any moment between two of    *)
(* their steps.                                                            *)
(*                                                                         *)
(* A cached sound is a sound effect at a pitch; all have the size 1.       *)
(***************************************************************************)
EXTENDS SoundChannels

CONSTANTS
  Effects,      (* sfxinfo_t entries                                       *)
  Priority,     (* their priorities                                        *)
  NoEffect,
  Origins,      (* the map objects sounds come from, but for the player    *)
  NoOrigin,     (* the player, or no object: always audible                *)
  Pitches,      (* what the random variation of S_StartSound gives         *)
  NORM_PITCH,
  CacheSize,    (* snd_cachesize                                           *)
  HeapSize,     (* sounds for which malloc finds room                      *)
  MaxUse        (* bound on a use count                                    *)

Sound(sfx, pitch) == [sfx |-> sfx, pitch |-> pitch]

ASSUME EffectsAssumption ==
  /\ Chunks = [sfx: Effects, pitch: Pitches]
  /\ NORM_PITCH \in Pitches
  /\ Priority \in [Effects -> Nat]
  /\ NoEffect \notin Effects
  /\ NoOrigin \notin Origins
  /\ CacheSize \in Nat \ {0}
  /\ HeapSize \in Nat /\ HeapSize >= CacheSize
  /\ MaxUse \in Nat \ {0}

VARIABLES
  cache,    (* the sounds of the allocated_sounds list                     *)
  newer,    (* their order in it: <<s, t>> when s is nearer to the head    *)
  uses,     (* use_count                                                   *)
  playing,  (* channels_playing                                            *)
  doom,     (* s_sound.c: channels                                         *)
  snd_pitchshift, (* the setting of that name, read at the start           *)
  pc,       (* where the Doom task is                                      *)
  req       (* the sound it is starting                                    *)

vars == <<chan, cache, newer, uses, playing, doom, snd_pitchshift, pc, req>>

Request(sfx, origin, pitch, c) ==
  [sfx |-> sfx, origin |-> origin, pitch |-> pitch, channel |-> c]
FreeEntry == [sfx |-> NoEffect, origin |-> NoOrigin, handle |-> -1]

SoundInit ==
  /\ ChannelsInit
  /\ cache = {} /\ newer = {}
  /\ uses = [s \in Chunks |-> 0]
  /\ playing = [c \in Channels |-> NoChunk]
  /\ doom = [c \in Channels |-> FreeEntry]
  /\ snd_pitchshift \in BOOLEAN
  /\ pc = "tic"
  /\ req = Request(NoEffect, NoOrigin, NORM_PITCH, 0)

----------------------------------------------------------------------------
(* The cache.                                                              *)

Cached(s) == s \in cache

(* The list of the sounds of S, in the order they are in, and with s moved *)
(* to the head.                                                            *)
Kept(S) == cache' = S /\ newer' = newer \cap (S \X S)
ToHead(S, s) ==
  /\ cache' = S \cup {s}
  /\ newer' = ({s} \X (S \ {s})) \cup (newer \cap ((S \ {s}) \X (S \ {s})))

(* The n unused sounds nearest to the tail, or all there are: what         *)
(* FindAndFreeSound frees when it is called until n are gone.              *)
Evicted(n) ==
  LET unused == {s \in cache : uses[s] = 0}
  IN  {s \in unused : Cardinality({t \in unused : <<s, t>> \in newer}) < n}

(* Mutant: makes room for what is there, not for the sound to come.        *)
ReservedLate == Evicted(Cardinality(cache) - CacheSize)

(* ReserveCacheSpace                                                       *)
Reserved == Evicted(Cardinality(cache) + 1 - CacheSize)

(* AllocateSound: ReserveCacheSpace has freed all it could, so that no     *)
(* sound is left to free when malloc fails.                                *)
Remaining == cache \ Reserved
MallocOk == Cardinality(Remaining) < HeapSize

(* LockAllocatedSound                                                      *)
Lock(s) == uses' = [uses EXCEPT ![s] = @ + 1]

(* Mutant: the sound stays in channels_playing.                            *)
ReleaseTwice(C) ==
  LET given(s) == Cardinality({c \in C : playing[c] = s})
  IN  /\ Mix_HaltChannels(C)
      /\ uses' = [s \in Chunks |-> Max({0, uses[s] - given(s)})]
      /\ UNCHANGED <<playing, cache, newer>>

(* ReleaseSoundOnChannel, for the channels of C in turn.                   *)
Release(C) ==
  LET given(s) == Cardinality({c \in C : playing[c] = s})
      left == [s \in Chunks |-> uses[s] - given(s)]
      shifted(s) == s.pitch # NORM_PITCH /\ given(s) > 0 /\ left[s] <= 0
  IN  /\ Mix_HaltChannels(C)
      /\ playing' = [c \in Channels |-> IF c \in C THEN NoChunk ELSE playing[c]]
      /\ uses' = left
      /\ Kept({s \in cache : ~shifted(s)})

(* I_SoundIsPlaying                                                        *)
IsPlaying(handle) == handle # -1 /\ Mix_Playing(handle)

(* I_StopSound, as S_StopChannel calls it: for channels that play.         *)
StopSounds(C) == Release({c \in C : IsPlaying(doom[c].handle)})

----------------------------------------------------------------------------
(* S_StartSound: S_StopSound of the first channel with that origin ...     *)
StartSound(sfx, origin, pitch) ==
  LET same == {c \in Channels : doom[c].sfx # NoEffect /\ doom[c].origin = origin}
      stop == IF same = {} THEN {} ELSE {Min(same)}
  IN  /\ pc = "tic"
      /\ \A s \in Chunks : uses[s] + 2 <= MaxUse
      /\ StopSounds(stop)
      /\ doom' = [c \in Channels |-> IF c \in stop THEN FreeEntry ELSE doom[c]]
      /\ req' = Request(sfx, origin, pitch, 0)
      /\ pc' = "get"
      /\ UNCHANGED snd_pitchshift

(* ... S_GetChannel: an open channel, or else the first one with a sound   *)
(* that matters no more ...                                                *)
Open == {c \in Channels : \/ doom[c].sfx = NoEffect
                          \/ req.origin # NoOrigin /\ doom[c].origin = req.origin}
Lower == {c \in Channels : Priority[doom[c].sfx] >= Priority[req.sfx]}

TakeChannel(c) ==
  /\ StopSounds({c} \ {d \in Channels : doom[d].sfx = NoEffect})
  /\ doom' = [doom EXCEPT ![c] = [@ EXCEPT !.sfx = req.sfx, !.origin = req.origin]]
  /\ req' = [req EXCEPT !.channel = c]
  /\ pc' = "release"
  /\ UNCHANGED snd_pitchshift

GetChannel ==
  /\ pc = "get"
  /\ \/ Open # {} /\ TakeChannel(Min(Open))
     \/ Open = {} /\ Lower # {} /\ TakeChannel(Min(Lower))
     \/ /\ Open = {} /\ Lower = {}
        /\ pc' = "tic"
        /\ UNCHANGED <<chan, cache, newer, uses, playing, doom, snd_pitchshift, req>>

(* ... I_SDL_StartSound: release what the channel had ...                  *)
ReleaseOld ==
  /\ pc = "release"
  /\ Release({req.channel})
  /\ pc' = "lock"
  /\ UNCHANGED <<doom, snd_pitchshift, req>>

(* ... LockSound ...                                                       *)
Base == Sound(req.sfx, NORM_PITCH)
Found(s) == IF Cached(s) THEN cache ELSE Remaining

LockSound ==
  /\ pc = "lock"
  /\ Cached(Base) \/ MallocOk
  /\ ToHead(Found(Base), Base)
  /\ Lock(Base)
  /\ pc' = "shift"
  /\ UNCHANGED <<chan, playing, doom, snd_pitchshift, req>>

LockFails ==
  /\ pc = "lock"
  /\ ~Cached(Base) /\ ~MallocOk
  /\ Kept(Remaining)
  /\ doom' = [doom EXCEPT ![req.channel].handle = -1]
  /\ pc' = "tic"
  /\ UNCHANGED <<chan, uses, playing, snd_pitchshift, req>>

(* ... the sound at the pitch asked for, if it is there or can be made ... *)
Shifted == Sound(req.sfx, req.pitch)

ShiftFound ==
  /\ pc = "shift"
  /\ Cached(Shifted)
  /\ ToHead(cache, Shifted)
  /\ Lock(Shifted)
  /\ req' = [req EXCEPT !.pitch = Shifted.pitch]
  /\ pc' = "play"
  /\ UNCHANGED <<chan, playing, doom, snd_pitchshift>>

PitchShift ==
  /\ pc = "shift"
  /\ ~Cached(Shifted) /\ snd_pitchshift
  /\ IF MallocOk
     THEN /\ ToHead(Remaining, Shifted)
          /\ uses' = [uses EXCEPT ![Shifted] = @ + 1, ![Base] = @ - 1]
          /\ UNCHANGED req
     ELSE /\ Kept(Remaining)
          /\ req' = [req EXCEPT !.pitch = NORM_PITCH]
          /\ UNCHANGED uses
  /\ pc' = "play"
  /\ UNCHANGED <<chan, playing, doom, snd_pitchshift>>

NotShifted ==
  /\ pc = "shift"
  /\ ~Cached(Shifted) /\ ~snd_pitchshift
  /\ req' = [req EXCEPT !.pitch = NORM_PITCH]
  /\ pc' = "play"
  /\ UNCHANGED <<chan, cache, newer, uses, playing, doom, snd_pitchshift>>

(* ... and Mix_PlayChannel.                                                *)
PlaySound ==
  /\ pc = "play"
  /\ Mix_PlayChannel(req.channel, Shifted)
  /\ playing' = [playing EXCEPT ![req.channel] = Shifted]
  /\ doom' = [doom EXCEPT ![req.channel].handle = req.channel]
  /\ pc' = "tic"
  /\ UNCHANGED <<cache, newer, uses, snd_pitchshift, req>>

----------------------------------------------------------------------------
(* S_UpdateSounds: I_SDL_UpdateSound for all channels ...                  *)
UpdateSound ==
  /\ pc = "tic"
  /\ Release({c \in Channels : playing[c] # NoChunk /\ ~IsPlaying(c)})
  /\ pc' = "update"
  /\ UNCHANGED <<doom, snd_pitchshift, req>>

(* ... then each channel in use is followed, or given up when its sound is *)
(* inaudible (far) or not playing.                                         *)
UpdateChannels ==
  /\ pc = "update"
  /\ \E far \in SUBSET {c \in Channels : doom[c].origin # NoOrigin} :
       LET used == {c \in Channels : doom[c].sfx # NoEffect}
           stop == {c \in used : IsPlaying(doom[c].handle) => c \in far}
       IN  /\ StopSounds(stop)
           /\ doom' = [c \in Channels |-> IF c \in stop THEN FreeEntry ELSE doom[c]]
  /\ pc' = "tic"
  /\ UNCHANGED <<snd_pitchshift, req>>

(* S_Start, at the start of a level.                                       *)
LevelStart ==
  /\ pc = "tic"
  /\ StopSounds({c \in Channels : doom[c].sfx # NoEffect})
  /\ doom' = [c \in Channels |-> FreeEntry]
  /\ UNCHANGED <<snd_pitchshift, pc, req>>

Mix == MixFrame /\ UNCHANGED <<cache, newer, uses, playing, doom, snd_pitchshift, pc, req>>

SoundNext ==
  \/ \E sfx \in Effects, o \in Origins \cup {NoOrigin}, p \in Pitches :
       StartSound(sfx, o, p)
  \/ GetChannel \/ ReleaseOld
  \/ LockSound \/ LockFails \/ ShiftFound \/ PitchShift \/ NotShifted \/ PlaySound
  \/ UpdateSound \/ UpdateChannels \/ LevelStart
  \/ Mix

SoundSpec == SoundInit /\ [][SoundNext]_vars /\ WF_vars(Mix)

----------------------------------------------------------------------------
(* Types; the sounds of the cache fit in the heap and are in one order.    *)
SoundTypeOK ==
  /\ ChannelsTypeOK
  /\ cache \subseteq Chunks /\ Cardinality(cache) <= HeapSize
  /\ newer \subseteq cache \X cache
  /\ \A s, t \in cache : s # t => (<<s, t>> \in newer) # (<<t, s>> \in newer)
  /\ uses \in [Chunks -> 0 .. MaxUse]
  /\ playing \in [Channels -> Chunks \cup {NoChunk}]
  /\ \A c \in Channels : doom[c].handle \in {-1, c}
  /\ pc \in {"tic", "get", "release", "lock", "shift", "play", "update"}

Starting(s) == pc \in {"shift", "play"} /\ s = (IF pc = "shift" THEN Base ELSE Shifted)

(* A sound that Doom holds for a channel, or has locked to start it, is in *)
(* the cache and locked as often as it is held: UnlockAllocatedSound never *)
(* ends the game with "Sound effect released more times than it was        *)
(* locked", and no channel is given a sound that was freed meanwhile.      *)
HeldIsLocked ==
  \A s \in Chunks :
    LET holds == Cardinality({c \in Channels : playing[c] = s})
                   + (IF Starting(s) THEN 1 ELSE 0)
    IN  holds > 0 => Cached(s) /\ uses[s] >= holds

(* ReserveCacheSpace lets the cache grow past snd_cachesize only when      *)
(* every sound that stays in it is in use.                                 *)
GrowsWhenFull ==
  [][Cardinality(cache') > Cardinality(cache) /\ Cardinality(cache') > CacheSize
       => \A s \in cache : uses[s] > 0]_vars

(* "Keep freeing sound effects that aren't currently being played"         *)
(* (i_sdlsound.c:186): no sound leaves the cache while MixSound still      *)
(* reads its samples.                                                      *)
FreesOnlySilent ==
  [][\A s \in cache \ cache' :
       ~\E c \in Channels : Sounding(c) /\ chan[c].chunk = s]_vars

(* A channel that sounds ends, unless Doom keeps starting it again: the    *)
(* end of one sound cuts the loop over the channels short and must not     *)
(* hold up the others for ever.                                            *)
SoundEnds ==
  \A c \in Channels : \/ []<>~Sounding(c)
                      \/ []<>(pc = "play" /\ req.channel = c)
=============================================================================
