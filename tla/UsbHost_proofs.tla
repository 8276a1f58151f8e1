--------------------------- MODULE UsbHost_proofs ---------------------------
(***************************************************************************)
(* Theorems about UsbHost, for every set of devices, number of retries and *)
(* size of the queue, however transfers fail: a class task that waits in a *)
(* control request is the one that flags are sent to, and the host task    *)
(* never falls asleep in the middle of an enumeration.                     *)
(*                                                                         *)
(* For the first the semaphore alone is not enough: the audio task         *)
(* releases it twice.  It comes out right because the audio task, of the   *)
(* highest priority, lets nobody else run between the two.  For the second *)
(* every step of the host task but a delay puts an event, into a queue     *)
(* from which it has just taken one.                                       *)
(***************************************************************************)
EXTENDS UsbHost, TLAPS

(* Where a task is, between the grab and the first ungrab after it, and    *)
(* where the audio task is to ungrab once more.                            *)
Inside(t) == IF t = "HID" THEN ip[t] \in 2 .. 6 ELSE ip[t] \in {2, 3, 5, 6, 7, 11, 12}
Twice == ip["AUDIO"] \in {8, 13}
Asking(t) == IF t = "HID" THEN ip[t] \in {2, 3, 5} ELSE ip[t] \in {2, 5, 6, 11}

PlaceOK ==
  /\ ip \in [Tasks -> Nat] /\ DOMAIN waiting = Tasks
  /\ control_sem \in {0, 1}

(* Who is inside owns the control pipe, and nobody owns it while the audio *)
(* task is about to release what it has released.                          *)
OwnerInv ==
  /\ \A t \in Tasks : Inside(t) => urb_thread = t /\ control_sem = 0
  /\ Twice => control_sem = 1
  /\ \A t \in Tasks : waiting[t] => Asking(t)

(* The class tasks are started once, and at a time when none runs.         *)
StartInv ==
  delay # "none" \/ gState \notin {"CLASS", "DISCONNECTED", "IDLE"} =>
    \A t \in Tasks : ip[t] = 0

UsbInv == PlaceOK /\ OwnerInv /\ StartInv

----------------------------------------------------------------------------
(* The steps of the class tasks, by their numbers.                         *)
LEMMA HidScript ==
  /\ Op("HID") = "grab" => ip["HID"] = 1
  /\ Op("HID") \in Requests => ip["HID"] \in {2, 3, 5}
  /\ Op("HID") = "queue" => ip["HID"] = 4
  /\ Op("HID") = "ungrab" => ip["HID"] = 6
BY DEF Op, Running, Script, Requests

LEMMA AudioScript ==
  /\ Op("AUDIO") = "grab" => ip["AUDIO"] \in {1, 4, 10}
  /\ Op("AUDIO") \in Requests => ip["AUDIO"] \in {2, 5, 6, 11}
  /\ Op("AUDIO") = "play" => ip["AUDIO"] = 9
  /\ Op("AUDIO") = "ungrab" => ip["AUDIO"] \in {3, 7, 8, 12, 13}
  /\ ip["AUDIO"] \in {8, 13} => Op("AUDIO") = "ungrab"
BY DEF Op, Running, Script, Requests

(* The HID task does not run while the audio task is to ungrab.            *)
LEMMA HidYields == Turn("HID") => ~Twice
BY AudioScript DEF Turn, AudioReady, Twice

----------------------------------------------------------------------------
LEMMA UsbStarts == UsbInit => UsbInv
BY DEF UsbInit, UsbInv, PlaceOK, OwnerInv, StartInv, Inside, Twice, Asking, Tasks

(* Steps that leave the class tasks where they are.                        *)
LEMMA TasksUntouched ==
  ASSUME UsbInv, UNCHANGED taskVars,
         delay' # "none" \/ gState' \notin {"CLASS", "DISCONNECTED", "IDLE"} =>
           \A t \in Tasks : ip[t] = 0
  PROVE  UsbInv'
BY DEF taskVars, UsbInv, PlaceOK, OwnerInv, StartInv, Inside, Twice, Asking

(* Before the classes are started no task runs.                            *)
LEMMA NoTaskYet ==
  ASSUME UsbInv, NEW g, Handling(g), g \notin {"CLASS", "DISCONNECTED"}
  PROVE  \A t \in Tasks : ip[t] = 0
<1>1. CASE g = "IDLE"
  <2>1. gState = "IDLE" /\ ~GaveUpClass
    BY <1>1 DEF Handling, Current
  <2>2. \A t \in Tasks : ~(ip[t] > 0) /\ ip[t] \in Nat
    BY <2>1 DEF GaveUpClass, UsbInv, PlaceOK
  <2>3. QED
    BY <2>2
<1>2. CASE g # "IDLE"
  <2>1. gState = g
    BY DEF Handling, Current
  <2>2. QED
    BY <1>2, <2>1 DEF UsbInv, StartInv
<1>3. QED
  BY <1>1, <1>2

LEMMA InterruptKeeps ==
  UsbInv /\ (Connect \/ Disconnect \/ PortEnable \/ UrbDone \/ UrbFails) => UsbInv'
<1> SUFFICES ASSUME UsbInv, Connect \/ Disconnect \/ PortEnable \/ UrbDone \/ UrbFails
             PROVE  UsbInv'
  OBVIOUS
<1>1. UNCHANGED <<taskVars, delay, gState>>
  BY DEF Connect, Disconnect, PortEnable, UrbDone, UrbFails, UrbEnds
<1>2. QED
  BY <1>1, TasksUntouched DEF UsbInv, StartInv

(* The states of StartHostTask before the classes are started.             *)
LEMMA EnumerationKeeps ==
  ASSUME UsbInv,
         \/ Connected \/ ResetPort \/ WaitForAttachment \/ Attachment
         \/ Attached \/ OpenControlPipes
         \/ Enumerate \/ SkipString \/ SetConfiguration \/ SetWakeup \/ SkipWakeup
         \/ Abort
  PROVE  UsbInv'
<1>1. UNCHANGED taskVars
  BY DEF Connected, ResetPort, WaitForAttachment, Attachment, Attached, OpenControlPipes,
         Enumerate, SkipString, SetConfiguration, SetWakeup, Configure, SkipWakeup, Abort,
         UnchangedByHost, UnchangedByClass
<1>2. \A t \in Tasks : ip[t] = 0
  <2>1. CASE Connected
    BY <2>1, NoTaskYet DEF Connected
  <2>2. CASE ResetPort \/ Attachment \/ OpenControlPipes
    BY <2>2 DEF ResetPort, Attachment, OpenControlPipes, AfterDelay, UsbInv, StartInv
  <2>3. CASE WaitForAttachment \/ Attached
    BY <2>3, NoTaskYet DEF WaitForAttachment, Attached
  <2>4. CASE Enumerate \/ SkipString
    BY <2>4, NoTaskYet DEF Enumerate, SkipString
  <2>5. CASE SetConfiguration \/ SetWakeup \/ SkipWakeup
    BY <2>5, NoTaskYet DEF SetConfiguration, SetWakeup, Configure, SkipWakeup
  <2>6. CASE Abort
    BY <2>6, NoTaskYet DEF Abort
  <2>7. QED
    BY <2>1, <2>2, <2>3, <2>4, <2>5, <2>6
<1>3. QED
  BY <1>1, <1>2, TasksUntouched

LEMMA CheckClassKeeps == UsbInv /\ CheckClass => UsbInv'
<1> SUFFICES ASSUME UsbInv, CheckClass PROVE UsbInv'
  OBVIOUS
<1>1. \A t \in Tasks : ip[t] = 0
  BY NoTaskYet DEF CheckClass
<1>2. /\ ip' = [HID   |-> IF HasHid(dev') THEN 1 ELSE 0,
                AUDIO |-> IF HasAudio(dev') THEN 1 ELSE 0]
      /\ gState' = IF HasHid(dev') \/ HasAudio(dev') THEN "CLASS" ELSE "ABORT"
      /\ delay = "none" /\ delay' = delay
      /\ UNCHANGED <<control_sem, urb_thread, waiting>>
  BY DEF CheckClass, Starts, Handling
<1>3. ip' \in [Tasks -> Nat] /\ \A t \in Tasks : ip'[t] \in {0, 1}
  BY <1>2 DEF Tasks
<1>4. \A t \in Tasks : ~waiting[t]
  BY <1>1 DEF UsbInv, OwnerInv, Asking
<1>5. PlaceOK'
  BY <1>2, <1>3 DEF UsbInv, PlaceOK
<1>6. OwnerInv'
  BY <1>2, <1>3, <1>4 DEF OwnerInv, Inside, Twice, Tasks
<1>7. StartInv'
  BY <1>2 DEF StartInv, Tasks
<1>8. QED
  BY <1>5, <1>6, <1>7 DEF UsbInv

LEMMA HostKeeps == UsbInv /\ Host => UsbInv'
<1> SUFFICES ASSUME UsbInv, Host PROVE UsbInv'
  OBVIOUS
<1>1. CASE Forward \/ Disconnected
  <2>1. UNCHANGED <<taskVars, delay>> /\ delay = "none"
    BY <1>1 DEF Forward, Disconnected, UnchangedByHost, UnchangedByClass, Handling
  <2>2. gState' \in {"CLASS", "DISCONNECTED"}
    BY <1>1 DEF Forward, Disconnected, Handling, Current
  <2>3. QED
    BY <2>1, <2>2, TasksUntouched
<1>2. CASE CheckClass
  BY <1>2, CheckClassKeeps
<1>3. QED
  BY <1>1, <1>2, EnumerationKeeps DEF Host

----------------------------------------------------------------------------
(* A task that moves is started, and nothing else starts a task.           *)
LEMMA RunningIsStarted ==
  ASSUME UsbInv, NEW t \in Tasks, ip[t] # 0
  PROVE  delay = "none" /\ gState \in {"CLASS", "DISCONNECTED", "IDLE"}
BY DEF UsbInv, StartInv

LEMMA GrabKeeps ==
  ASSUME UsbInv, NEW t \in Tasks, GrabUrb(t) PROVE UsbInv'
<1>1. /\ Op(t) = "grab" /\ control_sem = 1 /\ control_sem' = 0 /\ urb_thread' = t
      /\ ip' = [ip EXCEPT ![t] = @ + 1]
      /\ UNCHANGED <<waiting, delay, gState>>
  BY DEF GrabUrb, Step, UnchangedByTask, UnchangedByStep
<1>2. IF t = "HID" THEN ip[t] = 1 /\ ~Twice ELSE ip[t] \in {1, 4, 10}
  BY <1>1, HidScript, AudioScript, HidYields DEF Tasks, GrabUrb
<1>3. ip \in [Tasks -> Nat] /\ DOMAIN waiting = Tasks
  BY DEF UsbInv, PlaceOK
<1>4. \A u \in Tasks : ~Inside(u)
  BY <1>1 DEF UsbInv, OwnerInv
<1>5. ip'[t] = ip[t] + 1 /\ (\A u \in Tasks : u # t => ip'[u] = ip[u])
      /\ ip' \in [Tasks -> Nat]
  BY <1>1, <1>3
<1>6. OwnerInv'
  <2>1. \A u \in Tasks : Inside(u)' => u = t
    BY <1>4, <1>5 DEF Inside
  <2>2. ~Twice'
    BY <1>1, <1>2, <1>5 DEF Twice, Tasks, UsbInv, OwnerInv
  <2>3. \A u \in Tasks : waiting'[u] => Asking(u)'
    BY <1>1, <1>2, <1>5 DEF UsbInv, OwnerInv, Asking, Tasks
  <2>4. QED
    BY <1>1, <2>1, <2>2, <2>3 DEF OwnerInv
<1>7. StartInv'
  BY <1>1, <1>2, RunningIsStarted DEF StartInv
<1>8. QED
  BY <1>1, <1>3, <1>5, <1>6, <1>7 DEF UsbInv, PlaceOK

LEMMA UngrabKeeps ==
  ASSUME UsbInv, NEW t \in Tasks, UngrabUrb(t) PROVE UsbInv'
<1>1. /\ Op(t) = "ungrab" /\ control_sem' = 1
      /\ ip' = [ip EXCEPT ![t] = @ + 1]
      /\ UNCHANGED <<waiting, delay, gState>>
  BY DEF UngrabUrb, Step, UnchangedByTask, UnchangedByStep
<1>2. IF t = "HID" THEN ip[t] = 6 ELSE ip[t] \in {3, 7, 8, 12, 13}
  BY <1>1, HidScript, AudioScript DEF Tasks
<1>3. ip \in [Tasks -> Nat] /\ DOMAIN waiting = Tasks
  BY DEF UsbInv, PlaceOK
<1>4. ip'[t] = ip[t] + 1 /\ (\A u \in Tasks : u # t => ip'[u] = ip[u])
      /\ ip' \in [Tasks -> Nat]
  BY <1>1, <1>3
<1>5. \A u \in Tasks : u # t => ~Inside(u)
  <2>1. CASE Inside(t)
    BY <2>1 DEF UsbInv, OwnerInv
  <2>2. CASE ~Inside(t)
    <3>1. Twice
      BY <2>2, <1>2 DEF Inside, Twice, Tasks
    <3>2. QED
      BY <3>1 DEF UsbInv, OwnerInv
  <2>3. QED
    BY <2>1, <2>2
<1>6. OwnerInv'
  <2>1. \A u \in Tasks : ~Inside(u)'
    BY <1>2, <1>4, <1>5 DEF Inside, Tasks
  <2>2. \A u \in Tasks : waiting'[u] => Asking(u)'
    BY <1>1, <1>2, <1>4 DEF UsbInv, OwnerInv, Asking, Tasks
  <2>3. QED
    BY <1>1, <2>1, <2>2 DEF OwnerInv
<1>7. StartInv'
  BY <1>1, <1>2, RunningIsStarted DEF StartInv
<1>8. QED
  BY <1>1, <1>3, <1>4, <1>6, <1>7 DEF UsbInv, PlaceOK

LEMMA RequestKeeps ==
  ASSUME UsbInv, NEW t \in Tasks, ClassRequest(t) PROVE UsbInv'
<1> DEFINE r == Request(Op(t))
<1>1. /\ Op(t) \in Requests
      /\ waiting' = [waiting EXCEPT ![t] = r.status = "BUSY"]
      /\ \/ r.status = "BUSY" /\ ip' = ip
         \/ r.status # "BUSY" /\ ip' = [ip EXCEPT ![t] = @ + Advance(t, r.status)]
      /\ gState' \in {gState, "IDLE"}
      /\ UNCHANGED <<delay, control_sem, urb_thread>>
  BY DEF ClassRequest, Unanswered, Step, UnchangedByTask
<1> HIDE DEF r
<1>2. Asking(t) /\ Inside(t) /\ ip[t] # 0
  BY <1>1, HidScript, AudioScript DEF Tasks, Asking, Inside
<1>3. ip \in [Tasks -> Nat] /\ DOMAIN waiting = Tasks
  BY DEF UsbInv, PlaceOK
<1>4. /\ \A u \in Tasks : u # t => ip'[u] = ip[u] /\ waiting'[u] = waiting[u]
      /\ ip' \in [Tasks -> Nat] /\ DOMAIN waiting' = Tasks
      /\ ip'[t] = ip[t] \/ ip'[t] = ip[t] + Advance(t, r.status)
      /\ waiting'[t] => ip'[t] = ip[t]
  <2>1. Advance(t, r.status) \in Nat
    BY DEF Advance
  <2>2. /\ DOMAIN waiting' = Tasks /\ waiting'[t] = (r.status = "BUSY")
        /\ \A u \in Tasks : u # t => waiting'[u] = waiting[u]
    BY <1>1, <1>3
  <2>3. CASE r.status = "BUSY" /\ ip' = ip
    BY <1>3, <2>2, <2>3
  <2>4. CASE r.status # "BUSY" /\ ip' = [ip EXCEPT ![t] = @ + Advance(t, r.status)]
    <3>1. ip' \in [Tasks -> Nat] /\ ip'[t] = ip[t] + Advance(t, r.status)
          /\ \A u \in Tasks : u # t => ip'[u] = ip[u]
      BY <1>3, <2>1, <2>4
    <3>2. QED
      BY <2>2, <2>4, <3>1
  <2>5. QED
    BY <1>1, <2>3, <2>4
<1>5. Inside(t)' /\ (waiting'[t] => Asking(t)')
  <2>1. CASE t = "HID"
    BY <2>1, <1>2, <1>4 DEF Inside, Asking, Advance
  <2>2. CASE t = "AUDIO"
    BY <2>2, <1>2, <1>4 DEF Inside, Asking, Advance
  <2>3. QED
    BY <2>1, <2>2 DEF Tasks
<1>6. control_sem = 0 /\ urb_thread = t
  BY <1>2 DEF UsbInv, OwnerInv
<1>7. OwnerInv'
  <2>1. \A u \in Tasks : u # t => ~Inside(u)
    BY <1>6 DEF UsbInv, OwnerInv
  <2>2. \A u \in Tasks : Inside(u)' => u = t
    BY <2>1, <1>4 DEF Inside
  <2>3. ~Twice'
    <3>1. CASE t = "AUDIO"
      BY <3>1, <1>5 DEF Twice, Inside
    <3>2. CASE t # "AUDIO"
      BY <3>2, <1>4, <1>6 DEF Twice, Tasks, UsbInv, OwnerInv
    <3>3. QED
      BY <3>1, <3>2
  <2>4. \A u \in Tasks : waiting'[u] => Asking(u)'
    BY <1>4, <1>5 DEF UsbInv, OwnerInv, Asking
  <2>5. QED
    BY <1>1, <1>6, <2>2, <2>3, <2>4 DEF OwnerInv
<1>8. StartInv'
  BY <1>1, <1>2, RunningIsStarted DEF StartInv
<1>9. QED
  BY <1>1, <1>4, <1>6, <1>7, <1>8 DEF UsbInv, PlaceOK

LEMMA QueueKeeps == UsbInv /\ HidQueue => UsbInv'
<1> SUFFICES ASSUME UsbInv, HidQueue PROVE UsbInv'
  OBVIOUS
<1>1. /\ Op("HID") = "queue"
      /\ ip' = [ip EXCEPT !["HID"] = @ + (IF dev = "keyboard" THEN 2 ELSE 1)]
      /\ UNCHANGED <<control_sem, urb_thread, waiting, delay, gState>>
  BY DEF HidQueue, Step, UnchangedByTask, UnchangedByStep
<1>2. ip["HID"] = 4
  BY <1>1, HidScript
<1>3. ip \in [Tasks -> Nat] /\ DOMAIN waiting = Tasks /\ control_sem \in {0, 1}
  BY DEF UsbInv, PlaceOK
<1>4. ip'["HID"] \in {5, 6} /\ ip'["AUDIO"] = ip["AUDIO"] /\ ip' \in [Tasks -> Nat]
  BY <1>1, <1>2, <1>3 DEF Tasks
<1>5. OwnerInv'
  <2>1. urb_thread = "HID" /\ control_sem = 0 /\ ~waiting["HID"]
    BY <1>2 DEF UsbInv, OwnerInv, Inside, Asking, Tasks
  <2>2. QED
    BY <1>1, <1>4, <2>1 DEF UsbInv, OwnerInv, Inside, Twice, Asking, Tasks
<1>6. StartInv'
  BY <1>1, <1>2, RunningIsStarted DEF StartInv, Tasks
<1>7. QED
  BY <1>1, <1>3, <1>4, <1>5, <1>6 DEF UsbInv, PlaceOK

LEMMA PlayKeeps == UsbInv /\ Play => UsbInv'
<1> SUFFICES ASSUME UsbInv, Play PROVE UsbInv'
  OBVIOUS
<1>1. /\ ip["AUDIO"] = 9
      /\ ip' = [ip EXCEPT !["AUDIO"] = @ + 1]
      /\ UNCHANGED <<control_sem, urb_thread, waiting, delay, gState>>
  BY AudioScript DEF Play, Step, UnchangedByTask, UnchangedByStep
<1>2. ip \in [Tasks -> Nat] /\ DOMAIN waiting = Tasks /\ control_sem \in {0, 1}
  BY DEF UsbInv, PlaceOK
<1>3. ip'["AUDIO"] = 10 /\ ip'["HID"] = ip["HID"] /\ ip' \in [Tasks -> Nat]
  BY <1>1, <1>2 DEF Tasks
<1>4. OwnerInv'
  BY <1>1, <1>3 DEF UsbInv, OwnerInv, Inside, Twice, Asking, Tasks
<1>5. StartInv'
  BY <1>1, RunningIsStarted DEF StartInv, Tasks
<1>6. QED
  BY <1>1, <1>2, <1>3, <1>4, <1>5 DEF UsbInv, PlaceOK

LEMMA UsbStep == UsbInv /\ [UsbNext]_vars => UsbInv'
<1> SUFFICES ASSUME UsbInv, [UsbNext]_vars PROVE UsbInv'
  OBVIOUS
<1>1. CASE Connect \/ Disconnect \/ PortEnable \/ UrbDone \/ UrbFails
  BY <1>1, InterruptKeeps
<1>2. CASE Host
  BY <1>2, HostKeeps
<1>3. ASSUME NEW t \in Tasks, Task(t) PROVE UsbInv'
  BY <1>3, GrabKeeps, UngrabKeeps, RequestKeeps, QueueKeeps DEF Task
<1>4. CASE Play
  BY <1>4, PlayKeeps
<1>5. CASE UNCHANGED vars
  BY <1>5, TasksUntouched DEF vars, UsbInv, StartInv
<1>6. QED
  BY <1>1, <1>2, <1>3, <1>4, <1>5 DEF UsbNext

----------------------------------------------------------------------------
(* A class task that waits in USBH_CtlReq is the one that the interrupts   *)
(* and the host task wake, and it holds the control pipe (GrabUrb,         *)
(* UngrabUrb).                                                             *)
THEOREM WaiterOwnsPipe == UsbSpec => []WaiterIsOwner
<1>1. UsbInv => WaiterIsOwner
  <2> SUFFICES ASSUME UsbInv, NEW t \in Tasks, waiting[t]
               PROVE  urb_thread = t /\ control_sem = 0
    BY DEF WaiterIsOwner
  <2>1. Inside(t)
    BY DEF UsbInv, OwnerInv, Asking, Inside
  <2>2. QED
    BY <2>1 DEF UsbInv, OwnerInv
<1>2. QED
  BY <1>1, UsbStarts, UsbStep, PTL DEF UsbSpec

----------------------------------------------------------------------------
(* A put that finds the queue full leaves it as full as it was.            *)
LEMMA PutLeavesEvents ==
  ASSUME NEW q \in Nat, NEW n \in Nat
  PROVE  Put(q, n) \in Nat /\ (q + n > 0 => Put(q, n) > 0)
<1> DEFINE S == {q + n, MSGQUEUE_OBJECTS}
<1>1. MSGQUEUE_OBJECTS \in Nat \ {0}
  BY UsbAssumption
<1>2. \E x \in S : \A y \in S : x <= y
  BY <1>1
<1>3. Min(S) \in S
  BY <1>2 DEF Min
<1>4. QED
  BY <1>1, <1>3 DEF Put

(* Outside HOST_CLASS each call of USBH_CtlReq puts an event.              *)
LEMMA RequestPuts ==
  ASSUME NEW shape
  PROVE  /\ Request(shape).puts \in Nat
         /\ gState # "CLASS" => Request(shape).puts > 0
<1>1. Poll \in {0, 1} /\ (gState # "CLASS" => Poll = 1)
  BY DEF Poll
<1>0. DOMAIN Wait = {"SETUP", "DATA_IN", "DATA_OUT", "STATUS_IN", "STATUS_OUT"}
  BY DEF Wait
<1>2. Request(shape).puts \in {1, Poll, 1 + Poll}
  <2>1. CASE ctl = "SEND"
    <3>1. Request(shape) = Begin
      BY <1>0, <2>1 DEF Request
    <3>2. Begin.puts = 1
      BY DEF Begin, Result
    <3>3. QED
      BY <3>1, <3>2
  <2>2. CASE ctl # "SEND" /\ ctl \in DOMAIN Wait
    <3>1. Request(shape) = Submit
      BY <1>0, <2>2 DEF Request
    <3>2. Submit.puts = Poll
      BY DEF Submit, Result
    <3>3. QED
      BY <3>1, <3>2
  <2>3. CASE ctl # "SEND" /\ ctl \notin DOMAIN Wait /\ ctl = "ERROR"
    <3>1. Request(shape) = IF errorcount < USBH_MAX_ERROR_COUNT THEN Retry ELSE GiveUp
      BY <2>3 DEF Request
    <3>2. Retry.puts = Poll /\ GiveUp.puts = 1
      BY DEF Retry, GiveUp, Result
    <3>3. QED
      BY <3>1, <3>2
  <2>4. CASE ctl # "SEND" /\ ctl \notin DOMAIN Wait /\ ctl # "ERROR"
    <3>1. Request(shape) = IF urb \in DOMAIN OnUrb(shape)[ctl]
                           THEN Proceed(shape) ELSE StillWaiting
      BY <2>4 DEF Request
    <3>2. Proceed(shape).puts = 1 + Poll /\ StillWaiting.puts = Poll
      BY DEF Proceed, StillWaiting, Result
    <3>3. QED
      BY <3>1, <3>2
  <2>5. QED
    BY <2>1, <2>2, <2>3, <2>4
<1>3. QED
  BY <1>1, <1>2

(* What Handled leaves in the queue.                                       *)
LEMMA HandledPuts ==
  ASSUME events \in Nat, NEW g, Handling(g), NEW n \in Nat, Handled(n)
  PROVE  events' \in Nat /\ (n > 0 => events' > 0)
<1>1. events - 1 \in Nat /\ events' = Put(events - 1, n)
  BY DEF Handling, Handled
<1>2. QED
  BY <1>1, PutLeavesEvents

Awake == events \in Nat /\ EnumerationDriven

LEMMA AwakeKept == Awake /\ [UsbNext]_vars => Awake'
<1> SUFFICES ASSUME Awake, [UsbNext]_vars PROVE Awake'
  OBVIOUS
<1>0. events \in Nat
  BY DEF Awake
<1>1. ASSUME events' \in Nat, events' > 0 PROVE Awake'
  BY <1>1 DEF Awake, EnumerationDriven
<1>2. ASSUME events' \in Nat, delay' # "none" PROVE Awake'
  BY <1>2 DEF Awake, EnumerationDriven
<1>3. ASSUME events' \in Nat, gState' \in {"IDLE", "CLASS", "DISCONNECTED", "RESET"}
      PROVE  Awake'
  BY <1>3 DEF Awake, EnumerationDriven, Driving
<1>4. ASSUME events' \in Nat, events > 0 => events' > 0, delay' = delay, gState' = gState
      PROVE  Awake'
  BY <1>4 DEF Awake, EnumerationDriven
<1>5. CASE Connect \/ Disconnect \/ PortEnable
  <2>1. events' = Put(events, 1)
    BY <1>5 DEF Connect, Disconnect, PortEnable
  <2>2. QED
    BY <1>0, <1>1, <2>1, PutLeavesEvents
<1>6. CASE UrbDone \/ UrbFails \/ UNCHANGED vars
  BY <1>0, <1>4, <1>6 DEF UrbDone, UrbFails, UrbEnds, vars
<1>7. CASE ResetPort \/ Attachment \/ OpenControlPipes
  <2>1. events' = Put(events, 1)
    BY <1>7 DEF ResetPort, Attachment, OpenControlPipes, AfterDelay
  <2>2. QED
    BY <1>0, <1>1, <2>1, PutLeavesEvents
<1>8. CASE Connected
  <2>1. events' \in Nat
    BY <1>0, <1>8, HandledPuts DEF Connected
  <2>2. delay' = "connected" \/ gState' = "IDLE" \/ gState' = "DISCONNECTED"
    BY <1>8 DEF Connected, Handling, Current
  <2>3. QED
    BY <1>2, <1>3, <2>1, <2>2
<1>9. CASE WaitForAttachment \/ Attached
  <2>1. events' \in Nat /\ delay' # "none"
    BY <1>0, <1>9, HandledPuts DEF WaitForAttachment, Attached
  <2>2. QED
    BY <1>2, <2>1
<1>10. CASE Enumerate
  <2> DEFINE r == Request(EnumShape)
             n == r.puts + (IF StateChanged(r.status) THEN 1 ELSE 0)
  <2>1. Handling("ENUMERATION") /\ Handled(n)
    BY <1>10 DEF Enumerate
  <2>2. gState # "CLASS"
    BY <2>1 DEF Handling, Current
  <2>3. n \in Nat /\ n > 0
    BY <2>2, RequestPuts
  <2> HIDE DEF n
  <2>4. QED
    BY <1>0, <1>1, <2>1, <2>3, HandledPuts
<1>11. CASE SetConfiguration \/ SetWakeup
  <2>1. PICK g : Handling(g) /\ Handled(Request("none").puts + 1)
    BY <1>11 DEF SetConfiguration, SetWakeup, Configure
  <2>2. Request("none").puts + 1 \in Nat /\ Request("none").puts + 1 > 0
    BY RequestPuts
  <2>3. QED
    BY <1>0, <1>1, <2>1, <2>2, HandledPuts
<1>12. CASE SkipString \/ SkipWakeup \/ CheckClass
  <2>1. PICK g : Handling(g) /\ Handled(1)
    BY <1>12 DEF SkipString, SkipWakeup, CheckClass
  <2>2. QED
    BY <1>0, <1>1, <2>1, HandledPuts
<1>13. CASE Forward \/ Disconnected \/ Abort
  <2>1. PICK g : Handling(g) /\ Handled(0)
    BY <1>13 DEF Forward, Disconnected, Abort
  <2>2. gState' \in {"CLASS", "DISCONNECTED", "RESET"}
    BY <1>13 DEF Forward, Disconnected, Abort, Handling, Current
  <2>3. QED
    BY <1>0, <1>3, <2>1, <2>2, HandledPuts
<1>14. ASSUME NEW t \in Tasks, Task(t) PROVE Awake'
  <2>1. CASE GrabUrb(t) \/ UngrabUrb(t) \/ HidQueue
    BY <1>0, <1>4, <2>1 DEF GrabUrb, UngrabUrb, HidQueue, UnchangedByTask, UnchangedByStep
  <2>2. CASE ClassRequest(t)
    <3>1. events' = Put(events, Request(Op(t)).puts) /\ delay' = delay
          /\ gState' \in {gState, "IDLE"}
      BY <2>2 DEF ClassRequest, Unanswered, UnchangedByTask
    <3> DEFINE n == Request(Op(t)).puts
    <3>2. events' \in Nat /\ (events > 0 => events' > 0)
      <4>1. n \in Nat
        BY RequestPuts
      <4>2. events' = Put(events, n)
        BY <3>1
      <4> HIDE DEF n
      <4>3. Put(events, n) \in Nat /\ (events + n > 0 => Put(events, n) > 0)
        BY <1>0, <4>1, PutLeavesEvents
      <4>4. QED
        BY <1>0, <4>1, <4>2, <4>3
    <3>3. QED
      BY <1>3, <1>4, <3>1, <3>2
  <2>3. QED
    BY <1>14, <2>1, <2>2 DEF Task
<1>15. CASE Play
  BY <1>0, <1>4, <1>15 DEF Play, UnchangedByTask, UnchangedByStep
<1>16. QED
  BY <1>5, <1>6, <1>7, <1>8, <1>9, <1>10, <1>11, <1>12, <1>13, <1>14, <1>15
  DEF UsbNext, Host

(* The host task, which drives an enumeration with events that it sends    *)
(* itself, always has one left (StartHostTask, USBH_CtlReq).               *)
THEOREM HostStaysAwake == UsbSpec => []EnumerationDriven
<1>1. UsbInit => Awake
  BY DEF UsbInit, Awake, EnumerationDriven, Driving
<1>2. Awake => EnumerationDriven
  BY DEF Awake
<1>3. QED
  BY <1>1, <1>2, AwakeKept, PTL DEF UsbSpec

----------------------------------------------------------------------------
Holding == Driving \cup {"CLASS"}

(* The control pipes are taken and given back with the states of the host  *)
(* task.  A device that goes away frees them where the host task holds     *)
(* them; a new one cannot come before the host task has seen that.         *)
PipeInv ==
  /\ delay \in {"connected", "attachment"} => gState = "WAIT"
  /\ delay = "attached" => gState = "ATTACHED"
  /\ gState \in {"IDLE", "WAIT", "ATTACHED"} /\ ~GaveUpClass => Pipes = {}
  /\ gState \in Driving => Pipes \subseteq {pipe_out, pipe_in}
  /\ gState \in Holding => pipe_out # pipe_in /\ delay = "none"
  /\ gState \in Holding /\ ~is_disconnected => {pipe_out, pipe_in} \subseteq Pipes
  /\ gState \in Holding /\ is_disconnected => events > 0

(* Of no pipe the free one is pipe 0, and then pipe 1.                     *)
LEMMA FirstPipes == FreePipe({}) = 0 /\ FreePipe({0}) = 1
<1> DEFINE N == USBH_MAX_PIPES_NBR
<1>1. N \in Int /\ N >= 6
  BY UsbAssumption
<1>2. ASSUME NEW x \in 0 .. N - 1
      PROVE  Min(x .. N - 1) = x
  <2>1. x \in x .. N - 1 /\ \A y \in x .. N - 1 : x <= y
    BY <1>1
  <2>2. \A z \in x .. N - 1 : (\A y \in x .. N - 1 : z <= y) => z = x
    BY <1>1
  <2>3. QED
    BY <2>1, <2>2 DEF Min
<1>3. (0 .. N - 1) \ {} = 0 .. N - 1 /\ (0 .. N - 1) \ {0} = 1 .. N - 1
  BY <1>1
<1>4. Min(0 .. N - 1) = 0 /\ Min(1 .. N - 1) = 1
  BY <1>1, <1>2
<1>5. FreePipe({}) = Min(0 .. N - 1) /\ FreePipe({0}) = Min(1 .. N - 1)
  BY <1>3 DEF FreePipe
<1>6. QED
  BY <1>4, <1>5

LEMMA ConnectKeepsPipes == Awake /\ PipeInv /\ Connect => PipeInv'
<1> SUFFICES ASSUME Awake, PipeInv, Connect PROVE PipeInv'
  OBVIOUS
<1>1. UNCHANGED <<Pipes, pipe_out, pipe_in, gState, delay, ip>>
      /\ ~is_disconnected' /\ HostAsleep
  BY DEF Connect, pipeVars, taskVars
<1>2. gState \in Holding => ~is_disconnected
  BY <1>1 DEF PipeInv, HostAsleep, Awake
<1>3. QED
  BY <1>1, <1>2 DEF PipeInv, GaveUpClass

LEMMA DisconnectKeepsPipes == Awake /\ PipeInv /\ Disconnect => PipeInv'
<1> SUFFICES ASSUME Awake, PipeInv, Disconnect PROVE PipeInv'
  OBVIOUS
<1>1. /\ UNCHANGED <<pipe_out, pipe_in, gState, delay, ip>>
      /\ Pipes' = Pipes \ {pipe_out, pipe_in}
      /\ is_disconnected' /\ events' = Put(events, 1)
  BY DEF Disconnect, FreeControlPipes, taskVars
<1>2. events' > 0
  BY <1>1, PutLeavesEvents DEF Awake
<1>3. QED
  BY <1>1, <1>2 DEF PipeInv, GaveUpClass

(* Steps that leave the pipes and the state of the host task alone.        *)
LEMMA PipesUntouched ==
  ASSUME PipeInv, UNCHANGED <<Pipes, pipe_out, pipe_in, gState, delay, is_disconnected>>,
         events > 0 => events' > 0, GaveUpClass => GaveUpClass'
  PROVE  PipeInv'
BY DEF PipeInv

(* What an event that is not a disconnection finds.                        *)
LEMMA HandlingHolds ==
  ASSUME NEW g, Handling(g), g # "DISCONNECTED"
  PROVE  delay = "none" /\ gState = g /\ ~is_disconnected /\ ~GaveUpClass
BY DEF Handling, Current

(* Request gives up or not, and the pipes follow.                          *)
LEMMA AnsweredKeepsPipes ==
  ASSUME PipeInv, gState \in Driving, ~is_disconnected,
         \/ gState' \in Driving /\ Pipes' = Pipes
         \/ gState' = "IDLE" /\ Pipes' = FreeControlPipes
         \/ gState' \in {"ABORT", "INPUT"},
         UNCHANGED <<pipe_out, pipe_in, delay, is_disconnected>>
  PROVE  PipeInv'
<1>1. delay' = "none" /\ gState \in Holding /\ ~is_disconnected'
  BY DEF PipeInv, Holding
<1>2. CASE gState' \in Driving /\ Pipes' = Pipes
  BY <1>1, <1>2 DEF PipeInv, Driving, Holding
<1>3. CASE gState' = "IDLE" /\ Pipes' = FreeControlPipes
  BY <1>1, <1>3 DEF PipeInv, Driving, Holding, FreeControlPipes
<1>4. CASE gState' \in {"ABORT", "INPUT"}
  BY <1>1, <1>4 DEF PipeInv, Driving, Holding
<1>5. QED
  BY <1>2, <1>3, <1>4

LEMMA AttachKeepsPipes ==
  ASSUME UsbInv, Awake, PipeInv,
         Connected \/ ResetPort \/ WaitForAttachment \/ Attachment \/ Attached
  PROVE  PipeInv'
<1>1. /\ UNCHANGED <<Pipes, pipe_out, pipe_in, is_disconnected, ip>>
      /\ Pipes = {}
      /\ gState' \in {"IDLE", "WAIT", "ATTACHED", "ABORT"}
      /\ delay' \in {"connected", "attachment"} => gState' = "WAIT"
      /\ delay' = "attached" => gState' = "ATTACHED"
  <2>1. CASE Connected
    <3>1. gState = "IDLE" /\ ~GaveUpClass /\ delay = "none"
      BY <2>1, HandlingHolds DEF Connected
    <3>2. QED
      BY <2>1, <3>1 DEF Connected, UnchangedByHost, UnchangedByClass, pipeVars, portVars, taskVars, PipeInv
  <2>2. CASE ResetPort \/ Attachment
    <3>1. delay # "none" /\ delay' = "none" /\ gState = "WAIT"
      BY <2>2 DEF ResetPort, Attachment, AfterDelay, PipeInv
    <3>2. gState' \in {"IDLE", "WAIT", "ATTACHED", "ABORT"}
          /\ UNCHANGED <<Pipes, pipe_out, pipe_in, is_disconnected, ip>>
      BY <2>2, <3>1 DEF ResetPort, Attachment, UnchangedByHost, UnchangedByClass,
         pipeVars, portVars, taskVars
    <3>3. QED
      BY <3>1, <3>2 DEF PipeInv, GaveUpClass
  <2>3. CASE WaitForAttachment \/ Attached
    <3>1. /\ ~GaveUpClass
          /\ \/ gState = "WAIT" /\ delay' = "attachment"
             \/ gState = "ATTACHED" /\ delay' = "attached"
      <4>1. CASE WaitForAttachment
        BY <4>1, HandlingHolds DEF WaitForAttachment
      <4>2. CASE Attached
        BY <4>2, HandlingHolds DEF Attached
      <4>3. QED
        BY <2>3, <4>1, <4>2
    <3>2. UNCHANGED <<Pipes, pipe_out, pipe_in, is_disconnected, ip, gState>>
      BY <2>3 DEF WaitForAttachment, Attached, UnchangedByHost, UnchangedByClass,
         pipeVars, portVars, taskVars
    <3>3. QED
      BY <3>1, <3>2 DEF PipeInv
  <2>4. QED
    BY <2>1, <2>2, <2>3
<1>2. gState' \notin Holding
  BY <1>1 DEF Holding, Driving
<1>3. QED
  BY <1>1, <1>2 DEF PipeInv, Holding

LEMMA OpenKeepsPipes == UsbInv /\ Awake /\ PipeInv /\ OpenControlPipes => PipeInv'
<1> SUFFICES ASSUME UsbInv, Awake, PipeInv, OpenControlPipes PROVE PipeInv'
  OBVIOUS
<1>1. gState = "ATTACHED" /\ delay' = "none" /\ gState' = "ENUMERATION"
      /\ events' = Put(events, 1) /\ is_disconnected' = is_disconnected
  BY DEF OpenControlPipes, AfterDelay, PipeInv, UnchangedByHost, portVars
<1>2. Pipes = {}
  BY <1>1 DEF PipeInv, GaveUpClass
<1>3. pipe_out' = 0 /\ pipe_in' = 1 /\ Pipes' = {0, 1}
  <2>1. pipe_out' = FreePipe({})
    BY <1>2 DEF OpenControlPipes
  <2>2. pipe_in' = FreePipe({} \cup {pipe_out'})
    BY <1>2 DEF OpenControlPipes
  <2>3. Pipes' = {} \cup {pipe_out', pipe_in'}
    BY <1>2 DEF OpenControlPipes
  <2>4. {} \cup {0} = {0}
    OBVIOUS
  <2>5. QED
    BY <2>1, <2>2, <2>3, <2>4, FirstPipes
<1>4. events' > 0
  BY <1>1, PutLeavesEvents DEF Awake
<1>5. QED
  BY <1>1, <1>3, <1>4 DEF PipeInv, Holding, Driving

LEMMA EnumerateKeepsPipes == PipeInv /\ (Enumerate \/ SkipString) => PipeInv'
<1> SUFFICES ASSUME PipeInv, Enumerate \/ SkipString PROVE PipeInv'
  OBVIOUS
<1>1. gState = "ENUMERATION" /\ ~is_disconnected
      /\ UNCHANGED <<pipe_out, pipe_in, delay, is_disconnected>>
  BY HandlingHolds DEF Enumerate, SkipString, UnchangedByHost, portVars
<1>2. EnumDone \/ EnumRefused \/ \E r : Unanswered(r)
  <2>1. CASE Enumerate
    BY <2>1 DEF Enumerate
  <2>2. CASE SkipString
    BY <2>2 DEF SkipString
  <2>3. QED
    BY <2>1, <2>2
<1>3. \/ gState' \in Driving /\ Pipes' = Pipes
      \/ gState' = "IDLE" /\ Pipes' = FreeControlPipes
      \/ gState' \in {"ABORT", "INPUT"}
  <2>1. EnumDone => \/ gState' \in Driving /\ Pipes' = Pipes
                    \/ gState' = "INPUT"
    BY <1>1 DEF EnumDone, Driving
  <2>2. EnumAgain => \/ gState' = "ABORT"
                     \/ gState' = "IDLE" /\ Pipes' = FreeControlPipes
    BY DEF EnumAgain
  <2>3. EnumRefused => EnumDone \/ EnumAgain \/ gState' = "ABORT"
    BY DEF EnumRefused
  <2>4. ASSUME NEW r, Unanswered(r)
        PROVE  \/ gState' = gState /\ Pipes' = Pipes
               \/ gState' = "IDLE" /\ Pipes' = FreeControlPipes
    BY <2>4 DEF Unanswered
  <2>5. QED
    BY <1>1, <1>2, <2>1, <2>2, <2>3, <2>4 DEF Driving
<1>4. gState \in Driving
  BY <1>1 DEF Driving
<1>5. QED
  BY <1>1, <1>3, <1>4, AnsweredKeepsPipes

LEMMA ConfigureKeepsPipes ==
  PipeInv /\ (SetConfiguration \/ SetWakeup \/ SkipWakeup) => PipeInv'
<1> SUFFICES ASSUME PipeInv, SetConfiguration \/ SetWakeup \/ SkipWakeup PROVE PipeInv'
  OBVIOUS
<1>1. gState \in Driving /\ ~is_disconnected
      /\ UNCHANGED <<pipe_out, pipe_in, delay, is_disconnected>>
  BY HandlingHolds
  DEF SetConfiguration, SetWakeup, Configure, SkipWakeup, UnchangedByHost, portVars,
      pipeVars, Driving
<1>2. \/ gState' \in Driving /\ Pipes' = Pipes
      \/ gState' = "IDLE" /\ Pipes' = FreeControlPipes
  <2>1. CASE SkipWakeup
    BY <2>1 DEF SkipWakeup, pipeVars, Driving
  <2>2. ASSUME NEW g, NEW next \in Driving, NEW done, Configure(g, next, done)
        PROVE  \/ gState' \in Driving /\ Pipes' = Pipes
               \/ gState' = "IDLE" /\ Pipes' = FreeControlPipes
    BY <1>1, <2>2 DEF Configure, Unanswered
  <2>3. "SET_WAKEUP" \in Driving /\ "CHECK_CLASS" \in Driving
    BY DEF Driving
  <2>4. QED
    BY <2>1, <2>2, <2>3 DEF SetConfiguration, SetWakeup
<1>3. QED
  BY <1>1, <1>2, AnsweredKeepsPipes

LEMMA CheckClassKeepsPipes == PipeInv /\ CheckClass => PipeInv'
<1> SUFFICES ASSUME PipeInv, CheckClass PROVE PipeInv'
  OBVIOUS
<1>1. gState = "CHECK_CLASS" /\ delay = "none" /\ ~is_disconnected
  BY HandlingHolds DEF CheckClass
<1>2. pipe_out # pipe_in /\ {pipe_out, pipe_in} \subseteq Pipes
  BY <1>1 DEF PipeInv, Holding, Driving
<1>3. gState' \in {"CLASS", "ABORT"} /\ Pipes \subseteq Pipes'
      /\ UNCHANGED <<pipe_out, pipe_in, delay, is_disconnected>>
  BY DEF CheckClass, portVars
<1>4. QED
  BY <1>1, <1>2, <1>3 DEF PipeInv, Holding, Driving

LEMMA HostKeepsPipes == UsbInv /\ Awake /\ PipeInv /\ Host => PipeInv'
<1> SUFFICES ASSUME UsbInv, Awake, PipeInv, Host PROVE PipeInv'
  OBVIOUS
<1>1. CASE Forward
  <2>1. ~is_disconnected
    BY <1>1, HandlingHolds DEF Forward
  <2>2. UNCHANGED <<Pipes, pipe_out, pipe_in, gState, delay, is_disconnected, ip>>
    BY <1>1 DEF Forward, portVars, pipeVars, taskVars
  <2>3. QED
    BY <2>1, <2>2 DEF PipeInv, GaveUpClass
<1>2. CASE Disconnected \/ Abort
  <2>1. gState' \in {"DISCONNECTED", "RESET"} /\ delay' = delay /\ delay = "none"
    BY <1>2 DEF Disconnected, Abort, Handling
  <2>2. QED
    BY <2>1 DEF PipeInv, Holding, Driving
<1>3. QED
  BY <1>1, <1>2, AttachKeepsPipes, OpenKeepsPipes, EnumerateKeepsPipes,
     ConfigureKeepsPipes, CheckClassKeepsPipes DEF Host

LEMMA TaskKeepsPipes ==
  ASSUME UsbInv, Awake, PipeInv, NEW t \in Tasks, Task(t) PROVE PipeInv'
<1> DEFINE Quiet == UNCHANGED <<Pipes, pipe_out, pipe_in, gState, delay, is_disconnected>>
<1>1. CASE GrabUrb(t) \/ UngrabUrb(t) \/ HidQueue
  <2>1. Quiet /\ events' = events
    BY <1>1 DEF GrabUrb, UngrabUrb, HidQueue, UnchangedByTask, UnchangedByStep,
       portVars, pipeVars
  <2>2. \E u \in Tasks : ip' = [ip EXCEPT ![u] = @ + 1] \/ ip' = [ip EXCEPT ![u] = @ + 2]
    BY <1>1 DEF GrabUrb, UngrabUrb, HidQueue, Step, Tasks
  <2>3. \A u \in Tasks : ip[u] > 0 => ip'[u] > 0
    BY <2>2 DEF UsbInv, PlaceOK
  <2>4. QED
    BY <2>1, <2>3, PipesUntouched DEF GaveUpClass
<1>2. CASE ClassRequest(t)
  <2> DEFINE r == Request(Op(t))
  <2>1. /\ gState' = (IF r.givenup THEN "IDLE" ELSE gState)
        /\ Pipes' = (IF r.givenup THEN FreeControlPipes ELSE Pipes)
        /\ events' = Put(events, r.puts)
        /\ UNCHANGED <<pipe_out, pipe_in, delay, is_disconnected>>
        /\ Op(t) \in Requests
    BY <1>2 DEF ClassRequest, Unanswered, UnchangedByTask, portVars
  <2>2. ip[t] > 0
    BY <2>1, HidScript, AudioScript DEF Tasks
  <2>3. ip'[t] > 0 /\ delay = "none" /\ gState \in {"CLASS", "DISCONNECTED", "IDLE"}
    <3>1. ip' = ip \/ \E n \in {1, 2} : ip' = [ip EXCEPT ![t] = @ + n]
      BY <1>2 DEF ClassRequest, Step, Advance
    <3>2. ip \in [Tasks -> Nat]
      BY DEF UsbInv, PlaceOK
    <3>3. QED
      BY <2>2, <3>1, <3>2, RunningIsStarted
  <2>4. events > 0 => events' > 0
    <3> DEFINE n == r.puts
    <3>1. n \in Nat
      BY RequestPuts
    <3>2. events' = Put(events, n) /\ events \in Nat
      BY <2>1 DEF Awake
    <3> HIDE DEF n
    <3>3. Put(events, n) \in Nat /\ (events + n > 0 => Put(events, n) > 0)
      BY <3>1, <3>2, PutLeavesEvents
    <3>4. QED
      BY <3>1, <3>2, <3>3
  <2> HIDE DEF r
  <2>5. CASE gState' = "IDLE"
    <3>1. GaveUpClass'
      BY <2>3, <2>5 DEF GaveUpClass
    <3>2. QED
      BY <2>1, <2>3, <2>5, <3>1 DEF PipeInv, Holding, Driving
  <2>6. CASE gState' # "IDLE"
    <3>1. Quiet
      BY <2>1, <2>6
    <3>2. QED
      BY <2>4, <2>6, <3>1, PipesUntouched DEF GaveUpClass
  <2>7. QED
    BY <2>5, <2>6
<1>3. QED
  BY <1>1, <1>2 DEF Task

LEMMA PipesKept == UsbInv /\ Awake /\ PipeInv /\ [UsbNext]_vars => PipeInv'
<1> SUFFICES ASSUME UsbInv, Awake, PipeInv, [UsbNext]_vars PROVE PipeInv'
  OBVIOUS
<1>1. CASE PortEnable
  <2>1. UNCHANGED <<Pipes, pipe_out, pipe_in, gState, delay, is_disconnected, ip>>
        /\ events' = Put(events, 1)
    BY <1>1 DEF PortEnable, pipeVars, taskVars
  <2>2. QED
    BY <2>1, PutLeavesEvents, PipesUntouched DEF Awake, GaveUpClass
<1>2. CASE UrbDone \/ UrbFails \/ UNCHANGED vars
  <2>1. UNCHANGED <<Pipes, pipe_out, pipe_in, gState, delay, is_disconnected, ip, events>>
    BY <1>2 DEF UrbDone, UrbFails, UrbEnds, vars, pipeVars, taskVars, portVars
  <2>2. QED
    BY <2>1, PipesUntouched DEF GaveUpClass
<1>3. CASE Play
  <2>1. UNCHANGED <<Pipes, pipe_out, pipe_in, gState, delay, is_disconnected, events>>
        /\ ip' = [ip EXCEPT !["AUDIO"] = @ + 1]
    BY <1>3 DEF Play, Step, UnchangedByTask, UnchangedByStep, portVars, pipeVars
  <2>2. \A u \in Tasks : ip[u] > 0 => ip'[u] > 0
    BY <2>1 DEF UsbInv, PlaceOK
  <2>3. QED
    BY <2>1, <2>2, PipesUntouched DEF GaveUpClass
<1>4. QED
  BY <1>1, <1>2, <1>3, ConnectKeepsPipes, DisconnectKeepsPipes, HostKeepsPipes,
     TaskKeepsPipes DEF UsbNext

(* The control pipes are held while a device is enumerated and used, and   *)
(* are given back on every way back to HOST_IDLE, however often a device   *)
(* comes and goes, is refused, or fails (USBH_AllocPipe, USBH_FreePipe).   *)
THEOREM PipesGivenBack == UsbSpec => []PipesHeld
<1>1. UsbInit => PipeInv /\ Awake
  BY DEF UsbInit, PipeInv, Holding, Driving, Awake, EnumerationDriven
<1>2. PipeInv => PipesHeld
  BY DEF PipeInv, PipesHeld, Holding
<1>3. QED
  BY <1>1, <1>2, UsbStarts, UsbStep, AwakeKept, PipesKept, PTL DEF UsbSpec
=============================================================================
