------------------------------ MODULE UsbHost ------------------------------
(***************************************************************************)
(* The USB host stack (src/USB/usbh_core.c, usbh_ctlreq.c, usbh_pipes.c)   *)
(* with the tasks of its HID and audio classes (usbh_hid.c, usbh_audio.c)  *)
(* up to where they wait for reports and for music.                        *)
(*                                                                         *)
(* One control pipe serves everybody: the host task during enumeration,    *)
(* where it polls by sending events to itself, and then the class tasks,   *)
(* one at a time, which sleep until a thread flag.  A flag comes from the  *)
(* end of a transfer, or from the host task for an event in its queue.     *)
(*                                                                         *)
(* Events carry no data, so the queue is a count.  The controller retries  *)
(* IN tokens itself.  The reports, and the samples, are left out, and so   *)
(* is what follows a class request that is given up: the host enumerates   *)
(* again under the running class tasks (bound: the model stops there).     *)
(***************************************************************************)
EXTENDS Integers, Sequences, FiniteSets, FiniteSetsExt

CONSTANTS
  MSGQUEUE_OBJECTS,
  USBH_MAX_ERROR_COUNT,
  USBH_MAX_PIPES_NBR,
  Retries,        (* limit of EnumCnt and RstCnt                           *)
  Timeouts,       (* rounds to USBH_DEV_RESET_TIMEOUT                      *)
  Devices,        (* kinds of device, as their descriptors tell            *)
  Plugs           (* bound: times a device is plugged in                   *)

ASSUME UsbAssumption ==
  /\ {MSGQUEUE_OBJECTS, USBH_MAX_ERROR_COUNT, Retries} \subseteq Nat \ {0}
  /\ USBH_MAX_PIPES_NBR \in Nat /\ USBH_MAX_PIPES_NBR >= 6
  /\ Devices \subseteq {"pad", "keyboard", "headset", "speaker", "mouse", "composite"}
  /\ Devices # {}
  /\ {Timeouts, Plugs} \subseteq Nat

VARIABLES
  dev,                               (* the kind of the device, when known *)
  plugged, plugs,                    (* is it there                        *)
  is_connected, is_disconnected,
  PortEnabled, resetting,            (* resetting: a reset is under way    *)
  gState, EnumState, EnumCnt, RstCnt, Timeout,
  address,                           (* has it been assigned               *)
  delay,                             (* the osDelay the host task is in    *)
  events,                            (* messages in os_event               *)
  ctl,                               (* Control.state, "SEND" in CMD_SEND  *)
  errorcount,
  urb,                               (* the control transfer               *)
  Pipes, pipe_out, pipe_in,
  PipeEvq,                           (* channels that report to a class    *)
  control_sem, urb_thread,
  ip, waiting, flag                  (* of each class task                 *)

portVars == <<plugged, plugs, is_connected, is_disconnected, PortEnabled>>
enumVars == <<EnumState, EnumCnt, RstCnt, Timeout, address, resetting>>
ctlVars == <<ctl, errorcount, urb>>
pipeVars == <<Pipes, pipe_out, pipe_in>>
taskVars == <<control_sem, urb_thread, ip, waiting>>
vars == <<portVars, dev, enumVars, ctlVars, pipeVars, taskVars, gState, delay,
          events, PipeEvq, flag>>

Tasks == {"HID", "AUDIO"}
Requests == {"in", "none", "out"}

(* What a class task does, from its start.                                 *)
Script == [
  HID   |-> <<"grab", "in", "none", "queue", "in", "ungrab">>,
  AUDIO |-> <<"grab", "none", "ungrab", "grab", "in", "out", "ungrab", "ungrab",
              "play", "grab", "out", "ungrab", "ungrab">>]
Running(t) == ip[t] \in 1 .. Len(Script[t])
Op(t) == IF Running(t) THEN Script[t][ip[t]] ELSE "done"

UsbInit ==
  /\ dev = "unknown" /\ plugged = FALSE /\ plugs = 0
  /\ is_connected = FALSE /\ is_disconnected = FALSE
  /\ PortEnabled = FALSE /\ resetting = FALSE
  /\ gState = "IDLE" /\ EnumState = "IDLE"
  /\ EnumCnt = 0 /\ RstCnt = 0 /\ Timeout = 0
  /\ address = FALSE
  /\ delay = "none" /\ events = 0
  /\ ctl = "SEND" /\ errorcount = 0 /\ urb = "IDLE"
  /\ Pipes = {} /\ pipe_out = 0 /\ pipe_in = 0 /\ PipeEvq = {}
  /\ control_sem = 1 /\ urb_thread = "none"
  /\ ip = [t \in Tasks |-> 0]
  /\ waiting = [t \in Tasks |-> FALSE] /\ flag = [t \in Tasks |-> FALSE]

(* osMessageQueuePut with time-out 0.                                      *)
Put(q, n) == Min({q + n, MSGQUEUE_OBJECTS})

-----------------------------------------------------------------------------
(* A control request.  It is driven by calls of USBH_CtlReq.               *)

DataStage == [in |-> "DATA_IN", out |-> "DATA_OUT", none |-> "STATUS_IN"]

(* The states that start a transfer, with those that wait for its end.     *)
Wait == [SETUP |-> "SETUP_WAIT", DATA_IN |-> "DATA_IN_WAIT",
         DATA_OUT |-> "DATA_OUT_WAIT", STATUS_IN |-> "STATUS_IN_WAIT",
         STATUS_OUT |-> "STATUS_OUT_WAIT"]

(* How a waiting state leaves at the end of the transfer: to another state *)
(* or out of the request.  It stays for an end that is not listed.         *)
OnUrb(shape) == [
  SETUP_WAIT |-> [DONE |-> DataStage[shape], ERROR |-> "ERROR", NOTREADY |-> "ERROR"],
  DATA_IN_WAIT |-> [DONE |-> "STATUS_OUT", STALL |-> "NOT_SUPPORTED", ERROR |-> "ERROR"],
  DATA_OUT_WAIT |-> [DONE |-> "STATUS_IN", STALL |-> "NOT_SUPPORTED",
                     NOTREADY |-> "DATA_OUT", ERROR |-> "FAIL"],
  STATUS_IN_WAIT |-> [DONE |-> "OK", ERROR |-> "ERROR", STALL |-> "NOT_SUPPORTED"],
  STATUS_OUT_WAIT |-> [DONE |-> "OK", NOTREADY |-> "STATUS_OUT", ERROR |-> "ERROR"]]

Ended == {"OK", "NOT_SUPPORTED", "FAIL"}

(* Mutant: the poll is left to the end of the transfer.                    *)
PollNever == 0

(* CtlReq, CMD_WAIT: outside HOST_CLASS the host task polls.               *)
Poll == IF gState = "CLASS" THEN 0 ELSE 1

(* USBH_CtlReq, USBH_HandleControl: the next state of the request, its     *)
(* status, the events put, and what happens to the transfer.               *)
Result(next, puts) ==
  [ctl |-> IF next \in Ended THEN "SEND" ELSE next,
   status |-> IF next \in Ended THEN next ELSE "BUSY",
   puts |-> puts, urb |-> urb, errors |-> errorcount, givenup |-> FALSE]

Begin == Result("SETUP", 1)
Submit == [Result(Wait[ctl], Poll) EXCEPT !.urb = "BUSY"]

(* Mutant: the next state is entered and nobody is told.                   *)
ProceedQuietly(shape) == Result(OnUrb(shape)[ctl][urb], Poll)

Proceed(shape) == Result(OnUrb(shape)[ctl][urb], 1 + Poll)
StillWaiting == Result(ctl, Poll)
Retry == [Result("SEND", Poll) EXCEPT !.errors = errorcount + 1]
GiveUp == [Result("FAIL", 1) EXCEPT !.errors = 0, !.givenup = TRUE]

Request(shape) ==
  CASE ctl = "SEND" -> Begin
    [] ctl \in DOMAIN Wait -> Submit
    [] ctl = "ERROR" -> IF errorcount < USBH_MAX_ERROR_COUNT THEN Retry ELSE GiveUp
    [] OTHER -> IF urb \in DOMAIN OnUrb(shape)[ctl]
                THEN Proceed(shape) ELSE StillWaiting

(* Mutant: only one of the control pipes is freed.                         *)
FreeOutPipe == Pipes \ {pipe_out}

(* USBH_FreePipe of both control pipes.                                    *)
FreeControlPipes == Pipes \ {pipe_out, pipe_in}

Control(r) ==
  /\ ctl' = r.ctl /\ urb' = r.urb /\ errorcount' = r.errors

-----------------------------------------------------------------------------
(* Interrupts.                                                             *)

(* The port is safe to replug only when the host task is sure to see both  *)
(* changes or is asleep: a plug takes longer than any of its other steps.  *)
HostAsleep == delay # "none" \/ events = 0

(* USBH_LL_Connect                                                         *)
Connect ==
  /\ ~plugged /\ plugs < Plugs /\ HostAsleep
  /\ plugged' = TRUE /\ plugs' = plugs + 1
  /\ is_connected' = TRUE /\ is_disconnected' = FALSE
  /\ events' = Put(events, 1)
  /\ UNCHANGED <<dev, PortEnabled, enumVars, ctlVars, pipeVars, taskVars, gState,
                 delay, PipeEvq, flag>>

(* USBH_LL_Disconnect                                                      *)
Disconnect ==
  /\ plugged
  /\ plugged' = FALSE
  /\ is_connected' = FALSE /\ is_disconnected' = TRUE
  /\ PortEnabled' = FALSE /\ resetting' = FALSE
  /\ Pipes' = FreeControlPipes
  /\ events' = Put(events, 1)
  /\ UNCHANGED <<dev, plugs, EnumState, EnumCnt, RstCnt, Timeout, address,
                 ctlVars, pipe_out, pipe_in, taskVars, gState, delay, PipeEvq,
                 flag>>

(* USBH_LL_PortEnabled, at the end of a reset the device answers.          *)
PortEnable ==
  /\ plugged /\ resetting
  /\ resetting' = FALSE /\ PortEnabled' = TRUE
  /\ events' = Put(events, 1)
  /\ UNCHANGED <<dev, plugged, plugs, is_connected, is_disconnected, EnumState,
                 EnumCnt, RstCnt, Timeout, address, ctlVars, pipeVars, taskVars,
                 gState, delay, PipeEvq, flag>>

Channel == IF ctl \in {"DATA_IN_WAIT", "STATUS_IN_WAIT"} THEN pipe_in ELSE pipe_out

(* URBChangeCallback, for a channel with no class queue or with one.       *)
Notify ==
  flag' = IF Channel \notin PipeEvq /\ urb_thread # "none"
          THEN [flag EXCEPT ![urb_thread] = TRUE] ELSE flag

(* The transfer ends, as often in a failure as the device likes.  It       *)
(* answers a SETUP packet, and refuses or puts off only what comes after.  *)
Failures == IF ctl = "SETUP_WAIT" \/ ~PortEnabled THEN {"ERROR"}
            ELSE IF Channel = pipe_in THEN {"ERROR", "STALL"}
            ELSE {"ERROR", "STALL", "NOTREADY"}

UrbEnds(end) ==
  /\ urb = "BUSY"
  /\ urb' = end
  /\ Notify
  /\ UNCHANGED <<portVars, dev, enumVars, ctl, errorcount, pipeVars, taskVars,
                 gState, delay, events, PipeEvq>>

UrbDone == plugged /\ PortEnabled /\ UrbEnds("DONE")

UrbFails == \E end \in Failures : UrbEnds(end)

-----------------------------------------------------------------------------
(* The host task (osPriorityHigh, as the HID task; the audio task has a    *)
(* higher priority).                                                       *)

(* Mutant: the audio task at the priority of the others.                   *)
AudioNever == FALSE

(* The audio task can go on.                                               *)
AudioReady ==
  \/ Op("AUDIO") = "ungrab"
  \/ Op("AUDIO") = "grab" /\ control_sem = 1
  \/ Op("AUDIO") \in Requests /\ (waiting["AUDIO"] => flag["AUDIO"])

GaveUpClass == gState = "IDLE" /\ \E t \in Tasks : ip[t] > 0

(* An event arrives in state g.                                            *)
Current == IF is_disconnected THEN "DISCONNECTED" ELSE gState
Handling(g) ==
  /\ delay = "none" /\ events > 0 /\ Current = g
  /\ ~AudioReady /\ ~GaveUpClass
Handled(puts) == events' = Put(events - 1, puts)
AfterDelay(d, puts) ==
  /\ delay = d /\ delay' = "none" /\ ~AudioReady
  /\ events' = Put(events, puts)

UnchangedByClass == UNCHANGED <<dev, PipeEvq, taskVars, flag>>
UnchangedByHost == UNCHANGED portVars /\ UnchangedByClass

Connected ==
  /\ Handling("IDLE")
  /\ IF is_connected THEN gState' = "WAIT" /\ delay' = "connected"
                     ELSE UNCHANGED <<gState, delay>>
  /\ Handled(0)
  /\ UnchangedByHost
  /\ UNCHANGED <<enumVars, ctlVars, pipeVars>>

(* The reset disables an enabled port (USBH_LL_PortDisabled), and the      *)
(* device's answer may come while it lasts.                                *)
ResetPort ==
  /\ AfterDelay("connected", 1)
  /\ resetting' = plugged
  /\ PortEnabled' \in {FALSE, PortEnabled}
  /\ address' = FALSE /\ Timeout' = 0
  /\ UnchangedByClass
  /\ UNCHANGED <<plugged, plugs, is_connected, is_disconnected, gState, EnumState,
                 EnumCnt, RstCnt, ctlVars, pipeVars>>

WaitForAttachment ==
  /\ Handling("WAIT")
  /\ delay' = "attachment"
  /\ Handled(0)
  /\ UnchangedByHost
  /\ UNCHANGED <<gState, enumVars, ctlVars, pipeVars>>

(* Mutant: the resets are not counted.                                     *)
RstCntKept == RstCnt

NextRstCnt == RstCnt + 1

Attachment ==
  /\ AfterDelay("attachment", 1)
  /\ \/ /\ PortEnabled
        /\ RstCnt' = 0 /\ gState' = "ATTACHED"
        /\ UNCHANGED Timeout
     \/ /\ ~PortEnabled /\ Timeout > Timeouts
        /\ RstCnt' = NextRstCnt
        /\ gState' = IF RstCnt' > Retries THEN "ABORT" ELSE "IDLE"
        /\ UNCHANGED Timeout
     \/ /\ ~PortEnabled /\ Timeout <= Timeouts
        /\ Timeout' = Timeout + 1
        /\ UNCHANGED <<RstCnt, gState>>
  /\ UnchangedByHost
  /\ UNCHANGED <<EnumState, EnumCnt, address, resetting, ctlVars, pipeVars>>

Attached ==
  /\ Handling("ATTACHED")
  /\ delay' = "attached"
  /\ Handled(0)
  /\ UnchangedByHost
  /\ UNCHANGED <<gState, enumVars, ctlVars, pipeVars>>

(* USBH_AllocPipe: the free pipe with the smallest number.                 *)
FreePipe(used) == Min(0 .. USBH_MAX_PIPES_NBR - 1 \ used)

OpenControlPipes ==
  /\ AfterDelay("attached", 1)
  /\ gState' = "ENUMERATION"
  /\ pipe_out' = FreePipe(Pipes)
  /\ pipe_in' = FreePipe(Pipes \cup {pipe_out'})
  /\ Pipes' = Pipes \cup {pipe_out', pipe_in'}
  /\ UnchangedByHost
  /\ UNCHANGED <<enumVars, ctlVars>>

-----------------------------------------------------------------------------
(* USBH_HandleEnum, one call for one event.                                *)

NextEnum == [
  IDLE |-> "FULL_DEV", FULL_DEV |-> "SET_ADDR", SET_ADDR |-> "CFG",
  CFG |-> "FULL_CFG", FULL_CFG |-> "MFC", MFC |-> "PRODUCT",
  PRODUCT |-> "SERIAL", SERIAL |-> "SERIAL"]
Strings == {"MFC", "PRODUCT", "SERIAL"}
EnumShape == IF EnumState = "SET_ADDR" THEN "none" ELSE "in"

(* HOST_INPUT is for a device of several configurations.                   *)
EnumDone ==
  /\ EnumState' = NextEnum[EnumState]
  /\ IF EnumState = "SERIAL" THEN gState' \in {"SET_CONFIGURATION", "INPUT"}
                             ELSE UNCHANGED gState
  /\ address' = (address \/ EnumState = "SET_ADDR")
  /\ UNCHANGED <<EnumCnt, Pipes>>

(* A descriptor was refused: reset the device and start again.             *)
EnumAgain ==
  /\ EnumCnt' = EnumCnt + 1
  /\ IF EnumCnt' > Retries
     THEN gState' = "ABORT" /\ UNCHANGED <<EnumState, Pipes>>
     ELSE /\ gState' = "IDLE" /\ EnumState' = "IDLE"
          /\ Pipes' = FreeControlPipes
  /\ UNCHANGED address

EnumRefused ==
  CASE EnumState \in Strings -> EnumDone
    [] EnumState = "SET_ADDR" ->
         /\ gState' = "ABORT" /\ EnumState' = "IDLE"
         /\ UNCHANGED <<EnumCnt, address, Pipes>>
    [] OTHER -> EnumAgain

Unanswered(r) ==
  /\ gState' = IF r.givenup THEN "IDLE" ELSE gState
  /\ Pipes' = IF r.givenup THEN FreeControlPipes ELSE Pipes

StateChanged(status) ==
  \/ EnumState \in {"MFC", "SERIAL"} /\ status \in {"OK", "NOT_SUPPORTED"}
  \/ EnumState = "PRODUCT" /\ status = "NOT_SUPPORTED"

Enumerate ==
  /\ Handling("ENUMERATION")
  /\ LET r == Request(EnumShape) IN
     /\ Control(r)
     /\ Handled(r.puts + (IF StateChanged(r.status) THEN 1 ELSE 0))
     /\ CASE r.status = "OK" -> EnumDone
          [] r.status = "NOT_SUPPORTED" -> EnumRefused
          [] OTHER -> Unanswered(r) /\ UNCHANGED <<EnumState, EnumCnt, address>>
  /\ UnchangedByHost
  /\ UNCHANGED <<delay, RstCnt, Timeout, resetting, pipe_out, pipe_in>>

(* The device has no such string.                                          *)
SkipString ==
  /\ Handling("ENUMERATION")
  /\ EnumState \in Strings /\ ctl = "SEND"
  /\ EnumDone
  /\ Handled(1)
  /\ UnchangedByHost
  /\ UNCHANGED <<delay, RstCnt, Timeout, resetting, pipe_out, pipe_in, ctlVars>>

(* HOST_SET_CONFIGURATION and HOST_SET_WAKEUP_FEATURE.                     *)
Configure(g, next, done) ==
  /\ Handling(g)
  /\ LET r == Request("none") IN
     /\ Control(r)
     /\ Handled(r.puts + 1)
     /\ IF r.status \in done
        THEN gState' = next /\ UNCHANGED Pipes ELSE Unanswered(r)
  /\ UnchangedByHost
  /\ UNCHANGED <<delay, enumVars, pipe_out, pipe_in>>

SetConfiguration == Configure("SET_CONFIGURATION", "SET_WAKEUP", {"OK"})
SetWakeup == Configure("SET_WAKEUP", "CHECK_CLASS", {"OK", "NOT_SUPPORTED"})

(* The device has no remote wakeup.                                        *)
SkipWakeup ==
  /\ Handling("SET_WAKEUP") /\ ctl = "SEND"
  /\ gState' = "CHECK_CLASS"
  /\ Handled(1)
  /\ UnchangedByHost
  /\ UNCHANGED <<delay, enumVars, ctlVars, pipeVars>>

-----------------------------------------------------------------------------
(* HOST_CHECK_CLASS: Init of the classes of the device, HID first.         *)

(* The last Init decides: of a composite, the HID class starts its task    *)
(* and the audio class fails, and the board is reset before the task runs. *)
HasHid(d) == d \in {"pad", "keyboard"}      (* with a driver               *)
HasAudio(d) == d \in {"pad", "headset", "speaker"}
HidPipes(d) ==
  CASE d \in {"pad", "composite"} -> 2 [] d = "keyboard" -> 1 [] OTHER -> 0
AudioPipes(d) == CASE d = "speaker" -> 1 [] HasAudio(d) -> 2 [] OTHER -> 0

(* The next n pipes.  Control pipes were taken in order, so these are too. *)
Take(used, n) == {FreePipe(used) + k : k \in 0 .. n - 1}

(* USBH_AUDIO_InterfaceInit: a device with no HID interface has no control *)
(* pipe, and control.Pipe is 0.                                            *)
AudioChannels(d) == Take(Pipes \cup Take(Pipes, HidPipes(d)), AudioPipes(d))
                      \cup (IF d = "speaker" THEN {0} ELSE {})

Starts(d) == [HID   |-> IF HasHid(d) THEN 1 ELSE 0,
              AUDIO |-> IF HasAudio(d) THEN 1 ELSE 0]

CheckClass ==
  /\ Handling("CHECK_CLASS")
  /\ dev' \in Devices
  /\ gState' = IF HasHid(dev') \/ HasAudio(dev') THEN "CLASS" ELSE "ABORT"
  /\ Pipes' = Pipes \cup Take(Pipes, HidPipes(dev') + AudioPipes(dev'))
  /\ PipeEvq' = IF HasAudio(dev') THEN PipeEvq \cup AudioChannels(dev') ELSE PipeEvq
  /\ ip' = Starts(dev')
  /\ Handled(1)
  /\ UNCHANGED <<portVars, control_sem, urb_thread, waiting, flag,
                 delay, enumVars, ctlVars, pipe_out, pipe_in>>

(* HOST_CLASS: the event is handed on to the task with the control pipe.   *)
Forward ==
  /\ Handling("CLASS")
  /\ flag' = IF urb_thread = "none" THEN flag ELSE [flag EXCEPT ![urb_thread] = TRUE]
  /\ Handled(0)
  /\ UNCHANGED <<portVars, dev, PipeEvq, taskVars, gState, delay, enumVars,
                 ctlVars, pipeVars>>

(* HOST_DEV_DISCONNECTED is never left.                                    *)
Disconnected ==
  /\ Handling("DISCONNECTED")
  /\ gState' = "DISCONNECTED"
  /\ Handled(0)
  /\ UnchangedByHost
  /\ UNCHANGED <<delay, enumVars, ctlVars, pipeVars>>

(* NVIC_SystemReset, in the default branch too, where HOST_INPUT is.       *)
Abort ==
  /\ Handling("ABORT") \/ Handling("INPUT")
  /\ gState' = "RESET"
  /\ Handled(0)
  /\ UnchangedByHost
  /\ UNCHANGED <<delay, enumVars, ctlVars, pipeVars>>

Host ==
  \/ Connected \/ ResetPort \/ WaitForAttachment \/ Attachment
  \/ Attached \/ OpenControlPipes
  \/ Enumerate \/ SkipString \/ SetConfiguration \/ SetWakeup \/ SkipWakeup
  \/ CheckClass \/ Forward \/ Disconnected \/ Abort

-----------------------------------------------------------------------------
(* The class tasks.                                                        *)

Turn(t) == t = "HID" => ~AudioReady

UnchangedByTask == UNCHANGED <<portVars, dev, enumVars, delay>>
UnchangedByStep == UNCHANGED <<ctlVars, pipeVars, gState, events, flag, waiting>>

Step(t, n) == ip' = [ip EXCEPT ![t] = @ + n]

GrabUrb(t) ==
  /\ Turn(t) /\ Op(t) = "grab" /\ control_sem = 1
  /\ control_sem' = 0 /\ urb_thread' = t
  /\ Step(t, 1)
  /\ UnchangedByTask /\ UnchangedByStep
  /\ UNCHANGED PipeEvq

UngrabUrb(t) ==
  /\ Turn(t) /\ Op(t) = "ungrab"
  /\ control_sem' = 1 /\ urb_thread' = "none"
  /\ Step(t, 1)
  /\ UnchangedByTask /\ UnchangedByStep
  /\ UNCHANGED PipeEvq

(* The HID task skips the idle request when it has no report descriptor.   *)
Advance(t, status) ==
  IF t = "HID" /\ ip[t] = 2 /\ status # "OK" THEN 2 ELSE 1

(* One call of USBH_CtlReq, after the flag it waits for.                   *)
ClassRequest(t) ==
  /\ Turn(t) /\ Op(t) \in Requests
  /\ waiting[t] => flag[t]
  /\ flag' = [flag EXCEPT ![t] = @ /\ ~waiting[t]]
  /\ LET r == Request(Op(t)) IN
     /\ Control(r)
     /\ events' = Put(events, r.puts)
     /\ Unanswered(r)
     /\ waiting' = [waiting EXCEPT ![t] = r.status = "BUSY"]
     /\ IF r.status = "BUSY" THEN UNCHANGED ip ELSE Step(t, Advance(t, r.status))
  /\ UnchangedByTask
  /\ UNCHANGED <<pipe_out, pipe_in, PipeEvq, control_sem, urb_thread>>

(* The event queue of the HID class; OutPipe is 0 for a keyboard, and only *)
(* a pad has requests of its own.                                          *)
HidQueue ==
  /\ Turn("HID") /\ Op("HID") = "queue"
  /\ PipeEvq' = PipeEvq \cup (IF dev = "keyboard" THEN {0, 2} ELSE {2, 3})
  /\ Step("HID", IF dev = "keyboard" THEN 2 ELSE 1)
  /\ UnchangedByTask /\ UnchangedByStep
  /\ UNCHANGED <<control_sem, urb_thread>>

(* UsbAudio_Output_Start                                                   *)
Play ==
  /\ Op("AUDIO") = "play"
  /\ Step("AUDIO", 1)
  /\ UnchangedByTask /\ UnchangedByStep
  /\ UNCHANGED <<control_sem, urb_thread, PipeEvq>>

Task(t) ==
  \/ GrabUrb(t) \/ UngrabUrb(t) \/ ClassRequest(t)
  \/ t = "HID" /\ HidQueue

UsbNext ==
  \/ Connect \/ Disconnect \/ PortEnable \/ UrbDone \/ UrbFails
  \/ Host
  \/ \E t \in Tasks : Task(t)
  \/ Play

(* The tasks run, and a device that is there ends its transfers.  Nothing  *)
(* makes the port enabled, a device come or go, or music start.            *)
UsbSpec ==
  /\ UsbInit /\ [][UsbNext]_vars
  /\ WF_vars(Host)
  /\ \A t \in Tasks : WF_vars(Task(t))
  /\ WF_vars(UrbDone)

-----------------------------------------------------------------------------
UsbTypeOK ==
  /\ gState \in {"IDLE", "WAIT", "ATTACHED", "ENUMERATION", "INPUT",
                 "SET_CONFIGURATION", "SET_WAKEUP", "CHECK_CLASS", "CLASS",
                 "DISCONNECTED", "ABORT", "RESET"}
  /\ EnumState \in DOMAIN NextEnum
  /\ events \in 0 .. MSGQUEUE_OBJECTS
  /\ ctl \in {"SEND", "ERROR"} \cup DOMAIN Wait \cup DOMAIN OnUrb("in")
  /\ errorcount \in 0 .. USBH_MAX_ERROR_COUNT
  /\ Pipes \subseteq 0 .. USBH_MAX_PIPES_NBR - 1
  /\ urb_thread \in Tasks \cup {"none"}

Driving == {"ENUMERATION", "SET_CONFIGURATION", "SET_WAKEUP", "CHECK_CLASS"}

(* The host task never falls asleep in the middle of an enumeration: it    *)
(* polls through a queue that drops events when it is full, and there is   *)
(* always one left for the next step (the puts of usbh_core.c and          *)
(* USBH_CtlReq).                                                           *)
EnumerationDriven ==
  delay = "none" /\ gState \in Driving \cup {"WAIT", "ATTACHED", "INPUT", "ABORT"} =>
    events > 0

(* The control pipes are held while a device is enumerated and used, and   *)
(* given back on every way back to HOST_IDLE, so that repeated failures    *)
(* do not use up the pipes (USBH_AllocPipe, USBH_FreePipe).                *)
PipesHeld ==
  /\ gState \in {"IDLE", "WAIT", "ATTACHED"} /\ ~GaveUpClass => Pipes = {}
  /\ gState \in Driving \cup {"CLASS"} /\ ~is_disconnected =>
       pipe_out # pipe_in /\ {pipe_out, pipe_in} \subseteq Pipes

(* A class task that waits in a control request is the one that flags are  *)
(* sent to, although the audio task releases the control pipe twice        *)
(* (GrabUrb, UngrabUrb, usbh_audio.c:355 and 363).                         *)
WaiterIsOwner ==
  \A t \in Tasks : waiting[t] => urb_thread = t /\ control_sem = 0

(* A device whose port the host resets ends in use, in a disconnection     *)
(* the host has seen, or in a reset of the board: the retries end, after a *)
(* port that is never enabled and after refused descriptors, which RstCnt  *)
(* and EnumCnt count.  The exceptions: a device that stalls the status     *)
(* stage of a request, which nothing handles; one that takes the place of  *)
(* another in the delay before enumeration, whose port was never reset;    *)
(* and one that for ever makes the host repeat what it does not count      *)
(* (USBH_HandleControl, StartHostTask).                                    *)
Ignored == ctl = "STATUS_OUT_WAIT" /\ urb = "STALL"

Replaced == plugged /\ ~PortEnabled /\ gState \in Driving

(* The host gives up the device after USBH_MAX_ERROR_COUNT errors, which   *)
(* resets errorcount, and enumerates it again (usbh_ctlreq.c:1013), with   *)
(* RstCnt back at 0 (usbh_core.c:66).                                      *)
GivesUp == errorcount' < errorcount

(* It submits again what the device puts off.                              *)
PutOff == urb = "BUSY" /\ urb' = "NOTREADY"

(* It sends again a SET_CONFIGURATION that was refused (usbh_core.c:148).  *)
RefusesConfiguration ==
  gState = "SET_CONFIGURATION" /\ urb = "BUSY" /\ urb' = "STALL"

EnumerationEnds ==
  \/ (gState = "WAIT") ~>
       (gState \in {"CLASS", "DISCONNECTED", "RESET"} \/ Ignored \/ Replaced)
  \/ []<><<GivesUp \/ PutOff \/ RefusesConfiguration>>_vars

(* A request of a class ends.  The exceptions, all of which the code has:  *)
(* the retry after an error, for which no event is put; the stalled status *)
(* stage; a control pipe whose ends of transfer are sent to the queue of a *)
(* class; a device that is gone; and one that puts off a stage for ever.   *)
Abandoned ==
  \/ ctl = "SEND" /\ errorcount > 0
  \/ Ignored
  \/ pipe_out \in PipeEvq
  \/ is_disconnected \/ gState # "CLASS"

ClassRequestEnds ==
  \/ \A t \in Tasks : waiting[t] ~> (~waiting[t] \/ Abandoned)
  \/ []<><<PutOff>>_vars
=============================================================================
