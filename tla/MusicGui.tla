------------------------------ MODULE MusicGui ------------------------------
(***************************************************************************)
(* The music player screen (src/App/app_music_main.c, app_music_list.c) as *)
(* the client of the mixer task: play/pause button, next/previous, a click *)
(* in the track list, and the pause between two tracks when a song has     *)
(* finished.  The screen runs in the LVGL task, below the mixer and reader *)
(* tasks, so that they may run between two Mix_... calls.                  *)
(***************************************************************************)
EXTENDS MixPlayer

CONSTANTS Clicks    (* bound: number of user actions in a behaviour        *)

ASSUME ClicksAssumption == Clicks \in Nat

VARIABLES
  playing,   (* the screen's flag, shown by the play/pause button          *)
  track,     (* track_id                                                   *)
  mstate,    (* curMusic->state                                            *)
  pending,   (* MIX_PLAY still to be put by the call in progress           *)
  finish,    (* a GUIEV_MUSIC_FINISH is queued for the screen              *)
  timer,     (* inter_pause_timer is running                               *)
  clicks     (* user actions so far                                        *)

guiVars == <<playing, track, mstate, pending, finish, timer, clicks>>
vars == <<flacVars, mixVars, guiVars>>

GuiInit ==
  /\ MixInit
  /\ playing = FALSE
  /\ track \in Songs
  /\ mstate = "LOADED"
  /\ pending = FALSE
  /\ finish = FALSE
  /\ timer = FALSE
  /\ clicks = 0

(* track_load: the track on screen keeps its Mix_Music, another one gets a *)
(* new one.                                                                *)
TrackLoad(id) ==
  /\ track' = id
  /\ mstate' = IF id = track THEN mstate ELSE "LOADED"

(* _lv_demo_music_play: a playing track is halted first.                   *)
MusicPlay(id) ==
  IF playing
  THEN /\ Post(Command("MIX_HALT"))
       /\ TrackLoad(id)
       /\ playing' = TRUE
       /\ pending' = TRUE
  ELSE /\ Post(Play(id, 0))
       /\ track' = id
       /\ mstate' = "PLAYING"
       /\ playing' = TRUE
       /\ UNCHANGED pending

(* The second half of MusicPlay, after the halt: Mix_PlayMusic.            *)
PutPlay ==
  /\ ClientTurn
  /\ pending
  /\ Post(Play(track, 0))
  /\ mstate' = "PLAYING"
  /\ pending' = FALSE
  /\ UNCHANGED <<playing, track, finish, timer, clicks>>

Click == /\ ClientTurn
         /\ ~pending
         /\ clicks < Clicks
         /\ clicks' = clicks + 1

(* btn_click_event_cb of the track list.                                   *)
ListClick(id) ==
  /\ Click
  /\ MusicPlay(id)
  /\ UNCHANGED <<finish, timer>>

(* _lv_demo_music_album_next.                                              *)
AlbumNext(id) ==
  /\ timer' = FALSE
  /\ IF playing
     THEN MusicPlay(id)
     ELSE /\ Post(Command("MIX_HALT"))
          /\ TrackLoad(id)
          /\ UNCHANGED <<playing, pending>>

NextClick(id) ==
  /\ Click
  /\ id # track
  /\ AlbumNext(id)
  /\ UNCHANGED finish

(* Mix_ResumeMusic: what it puts in mixevq for a music in state m.         *)
Nothing == Command("none")
ResumeOnlyLoaded(m) == IF m = "LOADED" THEN Play(track, 0) ELSE Nothing
ResumeEvent(m) ==
  CASE m = "LOADED" -> Play(track, 0)
    [] m = "PAUSED" -> Command("MIX_RESUME")
    [] m = "PLAYING" -> Nothing

(* play_event_click_cb: the button toggles, then resumes or pauses.        *)
ResumeClick ==
  /\ Click
  /\ ~playing
  /\ playing' = TRUE
  /\ mstate' = "PLAYING"
  /\ IF ResumeEvent(mstate) = Nothing
     THEN UNCHANGED <<flacVars, mixVars>>
     ELSE Post(ResumeEvent(mstate))
  /\ UNCHANGED <<track, pending, finish, timer>>

PauseClick ==
  /\ Click
  /\ playing
  /\ playing' = FALSE
  /\ mstate' = "PAUSED"
  /\ Post(Command("MIX_PAUSE"))
  /\ UNCHANGED <<track, pending, finish, timer>>

(* GUIEV_MUSIC_FINISH starts the pause between two tracks; when it is over *)
(* the next track is taken.                                                *)
FinishEvent ==
  /\ ClientTurn
  /\ ~pending
  /\ finish
  /\ finish' = FALSE
  /\ timer' = TRUE
  /\ UNCHANGED <<flacVars, mixVars, playing, track, mstate, pending, clicks>>

InterPause(id) ==
  /\ ClientTurn
  /\ ~pending
  /\ timer
  /\ id # track
  /\ AlbumNext(id)
  /\ UNCHANGED <<finish, clicks>>

User ==
  \/ \E id \in Songs : ListClick(id)
  \/ \E id \in Songs : NextClick(id)
  \/ ResumeClick
  \/ PauseClick

Gui ==
  \/ PutPlay
  \/ FinishEvent
  \/ \E id \in Songs : InterPause(id)

(* The mixer task posts GUIEV_MUSIC_FINISH when a song ends.               *)
MixerStep ==
  /\ Mixer
  /\ finish' = (finish \/ (RefillEnd /\ loop_count = 0))
  /\ UNCHANGED <<playing, track, mstate, pending, timer, clicks>>

GuiNext ==
  \/ MixerStep
  \/ ReaderStep /\ UNCHANGED guiVars
  \/ DmaInterrupt /\ UNCHANGED guiVars
  \/ User
  \/ Gui

(* The tasks keep running and the DMA keeps going; the user need not click.*)
GuiFairness ==
  /\ WF_vars(MixerStep)
  /\ WF_vars(ReaderStep /\ UNCHANGED guiVars)
  /\ WF_vars(DmaInterrupt /\ UNCHANGED guiVars)
  /\ WF_vars(Gui)

GuiSpec == GuiInit /\ [][GuiNext]_vars /\ GuiFairness

-----------------------------------------------------------------------------
(* Properties.                                                             *)

(* Types of the whole composition.                                         *)
GuiTypeOK ==
  /\ MixTypeOK
  /\ playing \in BOOLEAN
  /\ track \in Songs
  /\ mstate \in {"LOADED", "PLAYING", "PAUSED"}
  /\ {pending, finish, timer} \subseteq BOOLEAN
  /\ clicks \in 0 .. Clicks

ClientEvents == {"MIX_PLAY", "MIX_HALT", "MIX_PAUSE", "MIX_RESUME"}
Settled ==
  /\ ~pending /\ ~finish /\ ~timer
  /\ mixpc \in {"get", "refill"}
  /\ \A i \in DOMAIN mixevq : mixevq[i].event \notin ClientEvents

(* Once all commands have been handled the play/pause button tells what    *)
(* the mixer task does.                                                    *)
ButtonTellsTruth == Settled => (playing <=> state # "IDLE")
=============================================================================
