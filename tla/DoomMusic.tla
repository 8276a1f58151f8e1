----------------------------- MODULE DoomMusic ------------------------------
(***************************************************************************)
(* Doom as the client of the mixer task (S_ChangeMusic and S_StopMusic of  *)
(* src/chocolate-doom-3.0.1/src/doom/s_sound.c over i_sdlmusic.c): a song  *)
(* is halted before the next one is played, level songs loop for ever and  *)
(* the title song plays once.  Doom runs below the mixer and reader tasks, *)
(* so that they may run between the halt and the play request.             *)
(***************************************************************************)
EXTENDS MixPlayer

CONSTANTS Changes    (* bound: number of song changes in a behaviour       *)

ASSUME ChangesAssumption == Changes \in Nat

VARIABLES
  mus_playing,   (* the song Doom has asked for, or NoSong                 *)
  mus_loops,     (* it was asked to loop                                   *)
  next_song,     (* MIX_PLAY still to be put by the call in progress       *)
  changes        (* song changes so far                                    *)

doomVars == <<mus_playing, mus_loops, next_song, changes>>
songVars == <<flacVars, mixVars, doomVars>>

NoPlay == Command("none")

DoomInit ==
  /\ MixInit
  /\ mus_playing = NoSong
  /\ mus_loops = FALSE
  /\ next_song = NoPlay
  /\ changes = 0

Change ==
  /\ ClientTurn
  /\ next_song = NoPlay
  /\ changes < Changes
  /\ changes' = changes + 1

(* S_ChangeMusic: the song that plays is halted first; asking for it again *)
(* does nothing.                                                           *)
ChangeMusic(s, looping) ==
  /\ Change
  /\ s # mus_playing
  /\ mus_playing' = s
  /\ mus_loops' = looping
  /\ IF mus_playing = NoSong
     THEN Post(Play(s, IF looping THEN -1 ELSE 1)) /\ UNCHANGED next_song
     ELSE /\ Post(Command("MIX_HALT"))
          /\ next_song' = Play(s, IF looping THEN -1 ELSE 1)

PlaySong ==
  /\ ClientTurn
  /\ next_song # NoPlay
  /\ Post(next_song)
  /\ next_song' = NoPlay
  /\ UNCHANGED <<mus_playing, mus_loops, changes>>

StopMusic ==
  /\ Change
  /\ mus_playing # NoSong
  /\ mus_playing' = NoSong
  /\ Post(Command("MIX_HALT"))
  /\ UNCHANGED <<mus_loops, next_song>>

Doom ==
  \/ \E s \in Songs, looping \in BOOLEAN : ChangeMusic(s, looping)
  \/ PlaySong
  \/ StopMusic

DoomNext ==
  \/ Mixer /\ UNCHANGED doomVars
  \/ ReaderStep /\ UNCHANGED doomVars
  \/ DmaInterrupt /\ UNCHANGED doomVars
  \/ Doom

(* The tasks keep running and the DMA keeps going; Doom finishes a call it *)
(* has begun and need not begin one.                                       *)
DoomFairness ==
  /\ WF_songVars(Mixer /\ UNCHANGED doomVars)
  /\ WF_songVars(ReaderStep /\ UNCHANGED doomVars)
  /\ WF_songVars(DmaInterrupt /\ UNCHANGED doomVars)
  /\ WF_songVars(PlaySong)

DoomSpec == DoomInit /\ [][DoomNext]_songVars /\ DoomFairness

-----------------------------------------------------------------------------
(* Properties.                                                             *)

(* Types of the whole composition.                                         *)
DoomTypeOK ==
  /\ MixTypeOK
  /\ mus_loops \in BOOLEAN
  /\ mus_playing \in Songs \cup {NoSong}
  /\ next_song \in {NoPlay} \cup {Play(s, n) : s \in Songs, n \in {-1, 1}}
  /\ changes \in 0 .. Changes

DoomSettled ==
  /\ next_song = NoPlay
  /\ mixpc \in {"get", "refill"}
  /\ \A i \in DOMAIN mixevq : mixevq[i].event = "MIX_DATA_REQ"

(* Once its requests have been handled, the mixer task plays the song Doom *)
(* asked for last, and nothing after a stop.                               *)
PlaysSongAsked ==
  (DoomSettled /\ state # "IDLE") => pflac = mus_playing /\ pflac # NoSong

(* A song that loops for ever is never over: the player does not go idle   *)
(* by itself.                                                              *)
LoopNeverEnds ==
  (DoomSettled /\ mus_playing # NoSong /\ mus_loops) => state # "IDLE"
=============================================================================
