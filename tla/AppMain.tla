------------------------------ MODULE AppMain ------------------------------
(***************************************************************************)
(* The program from its start to the end of a game: the start and the      *)
(* copying of games (GameCopy), then a game with screenshots (Screenshot), *)
(* whose end has the default task (src/App/app_main.c) wait until nothing  *)
(* more is written to the card, and reset the board.                       *)
(*                                                                         *)
(* Time is counted in ticks: the wait after the end of the game, the       *)
(* shorter one after each step of a screenshot, and the time a step may    *)
(* take.                                                                   *)
(***************************************************************************)
EXTENDS Screenshot, GameCopy, FiniteSets

CONSTANTS
  REQCMD_DEPTH,
  EndWait,          (* 3000 ms                                             *)
  DummyWait,        (* 500 ms                                              *)
  StepTime          (* what a step of a screenshot takes at most           *)

ASSUME AppAssumption ==
  /\ {REQCMD_DEPTH, EndWait, DummyWait, StepTime} \subseteq Nat \ {0}
  /\ StepTime < DummyWait /\ DummyWait <= EndWait

VARIABLES
  reqcmdq,
  ended,            (* SDL_Quit has been called                            *)
  wait_time,        (* of the default task; 0 is osWaitForever             *)
  clock,            (* since its last request                              *)
  step,             (* since the last step of the screenshots              *)
  before            (* screenshots begun before the end of the game        *)

endVars == <<reqcmdq, ended, wait_time, clock, step, before>>
vars == <<shotVars, copyVars, endVars>>

Init ==
  /\ ShotInit /\ CopyInit
  /\ reqcmdq = << >> /\ ended = FALSE
  /\ wait_time = 0 /\ clock = 0 /\ step = 0 /\ before = 0

(* Mutant: the steps of a screenshot are not told.                         *)
Silent(cmd) == IF cmd = "DUMMY" THEN reqcmdq ELSE Append(reqcmdq, cmd)

(* postMainRequest                                                         *)
Requested(cmd) ==
  IF Len(reqcmdq) < REQCMD_DEPTH THEN Append(reqcmdq, cmd) ELSE reqcmdq

----------------------------------------------------------------------------
(* The output waits for the GUI task, which has left the loop that gives   *)
(* the buffer back: this screenshot never ends.                            *)
StuckInTail == gui = "tail" /\ hal.on /\ hal.pauseOut

(* A screenshot has something to do.                                       *)
Busy == (gui # "idle" \/ hal.on \/ shotq # << >> \/ writing) /\ ~StuckInTail

(* The GUI task and the codec; a screenshot that begins while the one      *)
(* before is still written does not give that one more time.               *)
Encoding ==
  /\ main = "game"
  /\ GuiStep \/ Codec
  /\ step' = IF Busy THEN step ELSE 0
  /\ UNCHANGED <<copyVars, reqcmdq, ended, wait_time, clock, before>>

(* StartShotTask: REQ_DUMMY after SCREENSHOT_CREATE and SCREENSHOT_WRITE   *)
Saving ==
  /\ main = "game"
  /\ \/ Create /\ reqcmdq' = Requested("DUMMY") /\ step' = 0
     \/ Write /\ UNCHANGED <<reqcmdq, step>>
     \/ WriteDone /\ reqcmdq' = Requested("DUMMY") /\ step' = 0
     \/ Close /\ UNCHANGED <<reqcmdq, step>>
  /\ UNCHANGED <<copyVars, ended, wait_time, clock, before>>

(* SDL_Quit                                                                *)
EndDoom ==
  /\ main = "game" /\ ~ended
  /\ ended' = TRUE /\ before' = shots
  /\ reqcmdq' = Requested("END_DOOM")
  /\ UNCHANGED <<shotVars, copyVars, wait_time, clock, step>>

(* Mutant: the end of a game sets no wait.                                 *)
ForeverWait(cmd) == IF cmd = "DUMMY" /\ wait_time # 0 THEN DummyWait ELSE wait_time

(* StartDefaultTask: a request is taken, and the wait for the next begins. *)
NextWait(cmd) ==
  CASE cmd = "END_DOOM" -> EndWait
    [] cmd = "DUMMY" /\ wait_time # 0 -> DummyWait
    [] OTHER -> wait_time

TakeRequest ==
  /\ main = "game" /\ reqcmdq # << >>
  /\ reqcmdq' = Tail(reqcmdq)
  /\ wait_time' = NextWait(Head(reqcmdq))
  /\ clock' = 0
  /\ UNCHANGED <<shotVars, copyVars, ended, step, before>>

(* Once the game has ended the default task gets the processor in time.    *)
Tick ==
  /\ main = "game" /\ wait_time # 0 /\ reqcmdq = << >>
  /\ clock < wait_time
  /\ Busy => step < StepTime
  /\ clock' = clock + 1
  /\ step' = IF Busy THEN step + 1 ELSE 0
  /\ UNCHANGED <<shotVars, copyVars, reqcmdq, ended, wait_time, before>>

(* NVIC_SystemReset                                                        *)
TimeOut ==
  /\ main = "game" /\ reqcmdq = << >>
  /\ wait_time # 0 /\ clock = wait_time
  /\ main' = "reset"
  /\ UNCHANGED <<shotVars, at, cwd, copies, flashVars, box, erased, reported,
                 unerased, copyFaults, endVars>>

Starting == CopyNext /\ UNCHANGED <<shotVars, endVars>>
Next ==
  \/ Starting \/ Encoding \/ Saving
  \/ EndDoom \/ TakeRequest \/ Tick \/ TimeOut

(* The tasks run, the codec goes on, time passes.                          *)
Spec ==
  /\ Init /\ [][Next]_vars
  /\ WF_vars(Encoding /\ GuiWork) /\ WF_vars(Encoding /\ GetData)
  /\ WF_vars(Encoding /\ EncodeCplt) /\ WF_vars(Saving)
  /\ WF_vars(TakeRequest) /\ WF_vars(Tick) /\ WF_vars(TimeOut)

----------------------------------------------------------------------------
(* Properties                                                              *)

(* A screenshot ends, or is stuck in one way: the last words of the image  *)
(* wait for a page that was handed over; or the board is reset under it.   *)
ScreenshotEnds ==
  gui # "idle" ~> gui = "idle" \/ StuckInTail \/ main = "reset"

(* The board is reset only after the game has ended, and not in the middle *)
(* of a screenshot that was begun before, however many pages it has: its   *)
(* requests hold the reset off, as long as a step takes less time than the *)
(* wait after it.                                                          *)
SavedDespiteEnd ==
  main = "reset" =>
    ended /\ (file.open => file.shot > before \/ StuckInTail)

(* The end of a game resets the board, unless its request found a full     *)
(* queue.                                                                  *)
EndRequested == \E i \in DOMAIN reqcmdq : reqcmdq[i] = "END_DOOM"
GameEndsInReset == EndRequested ~> main = "reset"
=============================================================================
