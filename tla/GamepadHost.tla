---------------------------- MODULE GamepadHost ----------------------------
(***************************************************************************)
(* The Bluetooth side of the gamepads: the application part of the         *)
(* btstack task (src/btstack/hid_gamepad.c), the buffers in which the      *)
(* DualSense driver sends its output reports (src/USB/dualsense.c), and    *)
(* the requests the GUI makes of both.                                     *)
(*                                                                         *)
(* One task runs everything but the GUI's two requests: the packet         *)
(* handler, with the drivers it calls, for every queued packet, and then   *)
(* process_btapi_request.  The state of the handler (INIT, ACTIVE,         *)
(* CONNECT) decides which events are heard, so the properties are about    *)
(* events that arrive when nobody listens, requests that are made when     *)
(* they cannot be served, and a task that waits for itself.                *)
(*                                                                         *)
(* External, from how the code uses it: btstack and the radio.  Left out:  *)
(* the DualShock driver, which has no buffer pool, the names that come     *)
(* with an inquiry result (btstack asks for none), a table with more       *)
(* devices than MAX_DEVICES.                                               *)
(***************************************************************************)
EXTENDS Integers, Sequences, SequencesExt

CONSTANTS
  Remotes,          (* the devices in the neighbourhood                    *)
  Peripherals,      (* those whose class of device is 0x2508               *)
  Controllers,      (* those that are called "Wireless Controller"         *)
  BTREQ_DEPTH,
  BTREPQ_DEPTH,
  InitialReports,   (* 4 in the code                                       *)
  Failures          (* bound: names and connections that fail              *)

ASSUME GamepadAssumption ==
  /\ Controllers \subseteq Peripherals /\ Peripherals \subseteq Remotes
  /\ "nobody" \notin Remotes
  /\ {BTREQ_DEPTH, BTREPQ_DEPTH} \subseteq Nat \ {0}
  /\ {InitialReports, Failures} \subseteq Nat

VARIABLES
  state,            (* of the packet handler                               *)
  devices,          (* the table: sequence of an address and a state       *)
  inquiry, naming,  (* what the radio is busy with                         *)
  link,             (* the connection, as the radio knows it               *)
  con_handle, hid_host_cid,
  padDriver,        (* the DualSense driver has been chosen                *)
  calibrated,       (* the pad has been asked for its calibration          *)
  initial_report,
  btreportq,        (* free buffers                                        *)
  btreqq,           (* reports to send                                     *)
  requests,         (* the event flags                                     *)
  box,              (* the pairing box, and has it been told to close      *)
  blocked,          (* the task waits for a buffer                         *)
  burst,            (* reports handled since process_btapi_request         *)
  rescanned,        (* the scan was asked for again under a connection     *)
  scanning,         (* a scan was asked for, and nobody has connected      *)
  failures

tableVars == <<devices, naming>>
linkVars == <<link, con_handle, hid_host_cid>>
padVars == <<padDriver, calibrated, initial_report, btreportq, btreqq>>
historyVars == <<rescanned, scanning>>
vars == <<state, tableVars, inquiry, linkVars, padVars, requests, box,
          blocked, burst, historyVars, failures>>

Nobody == "nobody"
NoBox == [open |-> FALSE, close |-> FALSE]

Init ==
  /\ state = "INIT"
  /\ devices = << >> /\ naming = Nobody /\ inquiry = "idle"
  /\ link = "none"
  /\ con_handle = "stale" /\ hid_host_cid = "zero"
  /\ padDriver = FALSE /\ calibrated = "no"
  /\ initial_report = 0 /\ btreportq = 0 /\ btreqq = 0
  /\ requests = {} /\ box = NoBox
  /\ blocked = FALSE /\ burst = 0
  /\ rescanned = FALSE /\ scanning = FALSE
  /\ failures = 0

----------------------------------------------------------------------------
(* What the handler asks of the radio                                      *)

StartScan(inq) == IF inq = "idle" THEN "active" ELSE inq
StopScan(inq) == IF inq = "active" THEN "cancelled" ELSE inq

getDeviceIndexForAddress(r) ==
  SelectInSeq(devices, LAMBDA d : d.address = r)

(* continue_remote_names: ask for the first name that is missing, or scan  *)
(* on.  A second request is refused while one is under way; the table does *)
(* not know.                                                               *)
ContinueRemoteNames(table, asked, inq) ==
  LET i == SelectInSeq(table, LAMBDA d : d.state = "REQUEST")
  IN  IF i = 0
      THEN /\ inquiry' = StartScan(inq)
           /\ devices' = table /\ naming' = asked
      ELSE /\ inquiry' = inq
           /\ devices' = [table EXCEPT ![i].state = "INQUIRED"]
           /\ naming' = IF asked = Nobody THEN table[i].address ELSE asked

(* Mutant: ACTIVE is left when the pad is found, not when it connects.      *)
StayActive(handle) ==
  /\ con_handle' = handle
  /\ inquiry' = StopScan(inquiry)
  /\ rescanned' = FALSE /\ scanning' = FALSE
  /\ UNCHANGED state

(* HCI_EVENT_CONNECTION_COMPLETE: its status is not looked at.             *)
ConnectionComplete(handle) ==
  IF state = "ACTIVE"
  THEN /\ state' = "CONNECT" /\ con_handle' = handle
       /\ inquiry' = StopScan(inquiry)
       /\ rescanned' = FALSE /\ scanning' = FALSE
  ELSE UNCHANGED <<state, con_handle, inquiry, historyVars>>

(* hid_host forgets a connection, with the event that says so, or without. *)
Forgotten == IF state = "CONNECT" THEN "zero"
             ELSE IF hid_host_cid = "current" THEN "stale" ELSE hid_host_cid

----------------------------------------------------------------------------
(* Scanning and naming                                                     *)

(* The controller works, and the other handler has the GUI offer to scan,  *)
(* which it does unless a reboot is pending.                               *)
StateWorking ==
  /\ state = "INIT"
  /\ state' = "ACTIVE"
  /\ \E open \in BOOLEAN : box' = [box EXCEPT !.open = open]
  /\ UNCHANGED <<tableVars, inquiry, linkVars, padVars, requests, blocked,
                 burst, historyVars, failures>>

InquiryResult(r) ==
  /\ inquiry = "active" /\ state = "ACTIVE" /\ ~blocked
  /\ getDeviceIndexForAddress(r) = 0
  /\ devices' = Append(devices,
       [address |-> r,
        state |-> IF r \in Peripherals THEN "REQUEST" ELSE "INIT"])
  /\ UNCHANGED <<state, naming, inquiry, linkVars, padVars, requests, box,
                 blocked, burst, historyVars, failures>>

(* Mutant: a name that could not be had is not asked for again.            *)
NamesKept == devices

RetryNames ==
  [i \in DOMAIN devices |->
     IF devices[i].state = "INQUIRED" /\ devices[i].address \in Peripherals
     THEN [devices[i] EXCEPT !.state = "REQUEST"] ELSE devices[i]]

(* The end of an inquiry, also of one that was cancelled                   *)
InquiryComplete ==
  /\ inquiry # "idle" /\ ~blocked
  /\ IF state = "ACTIVE" THEN ContinueRemoteNames(RetryNames, naming, "idle")
     ELSE inquiry' = "idle" /\ UNCHANGED tableVars
  /\ UNCHANGED <<state, linkVars, padVars, requests, box, blocked, burst,
                 historyVars, failures>>

(* gap_inquiry_stop and hid_host_connect, which refuses a second           *)
(* connection to the same pad.                                             *)
Connect ==
  /\ inquiry' = StopScan(inquiry)
  /\ CASE link = "none" -> link' = "paging" /\ hid_host_cid' = "current"
       [] link = "down" -> link' = "up" /\ hid_host_cid' = "current"
       [] OTHER -> UNCHANGED <<link, hid_host_cid>>

NameComplete(ok) ==
  /\ naming # Nobody /\ ~blocked
  /\ ok \/ failures < Failures
  /\ failures' = IF ok THEN failures ELSE failures + 1
  /\ IF state # "ACTIVE"
     THEN naming' = Nobody /\ UNCHANGED <<devices, inquiry, linkVars>>
     ELSE LET i == getDeviceIndexForAddress(naming)
              named == IF ok THEN [devices EXCEPT ![i].state = "FETCHED"]
                             ELSE devices
          IN  IF ok /\ naming \in Controllers
              THEN /\ devices' = named /\ naming' = Nobody
                   /\ Connect /\ UNCHANGED con_handle
              ELSE /\ ContinueRemoteNames(named, Nobody, inquiry)
                   /\ UNCHANGED linkVars
  /\ UNCHANGED <<state, padVars, requests, box, blocked, burst, historyVars>>

----------------------------------------------------------------------------
(* The connection                                                          *)

PageSucceeds ==
  /\ link = "paging" /\ ~blocked
  /\ link' = "up"
  /\ ConnectionComplete("current")
  /\ UNCHANGED <<tableVars, hid_host_cid, padVars, requests, box,
                 blocked, burst, failures>>

(* The query for the product fails first, and hid_host pages again; when   *)
(* its own query fails it tells so, before or after the handler is told.   *)
PageFails ==
  /\ link = "paging" /\ failures < Failures /\ ~blocked
  /\ failures' = failures + 1
  /\ ConnectionComplete("stale")
  /\ \/ UNCHANGED <<link, hid_host_cid>>
     \/ /\ link' = "none"
        /\ hid_host_cid' \in {Forgotten, "zero"}
  /\ UNCHANGED <<tableVars, padVars, requests, box, blocked, burst>>

(* A pad that knows the dongle connects by itself.                         *)
Incoming ==
  /\ link = "none" /\ state # "INIT" /\ ~blocked
  /\ link' = "asking"
  /\ ConnectionComplete("current")
  /\ UNCHANGED <<tableVars, hid_host_cid, padVars, requests, box, blocked,
                 burst, failures>>

IncomingConnection ==
  /\ link = "asking" /\ ~blocked
  /\ link' = IF state = "CONNECT" THEN "up" ELSE "down"
  /\ UNCHANGED <<state, tableVars, inquiry, con_handle, hid_host_cid,
                 padVars, requests, box, blocked, burst, historyVars, failures>>

(* Mutant: only hid_host_connect sets the cid.                             *)
CidOfConnect == hid_host_cid

CidOfEvent == "current"

ConnectionOpened ==
  /\ link = "up" /\ ~blocked
  /\ link' = "open"
  /\ IF state = "CONNECT"
     THEN /\ hid_host_cid' = CidOfEvent
          /\ box' = [box EXCEPT !.close = box.open]
          /\ padDriver' \in {padDriver, TRUE}
     ELSE UNCHANGED <<hid_host_cid, box, padDriver>>
  /\ UNCHANGED <<state, tableVars, inquiry, con_handle, calibrated,
                 initial_report, btreportq, btreqq, requests, blocked, burst,
                 historyVars, failures>>

(* DualSenseBtSetup makes a new queue of free buffers, whatever is still   *)
(* to be sent.                                                             *)
DescriptorAvailable ==
  /\ link = "open" /\ ~blocked
  /\ link' = "ready"
  /\ IF state = "CONNECT" /\ padDriver
     THEN calibrated' = "asked" /\ btreportq' = BTREPQ_DEPTH
     ELSE UNCHANGED <<calibrated, btreportq>>
  /\ UNCHANGED <<state, tableVars, inquiry, con_handle, hid_host_cid,
                 padDriver, initial_report, btreqq, requests, box, blocked,
                 burst, historyVars, failures>>

(* DualSenseProcessCalibReport                                             *)
GetReportResponse ==
  /\ link = "ready" /\ calibrated = "asked" /\ ~blocked
  /\ calibrated' = "told"
  /\ initial_report' = IF state = "CONNECT" THEN 0 ELSE initial_report
  /\ UNCHANGED <<state, tableVars, inquiry, linkVars, padDriver, btreportq,
                 btreqq, requests, box, blocked, burst, historyVars, failures>>

(* A full report, which a DualSense sends once it has been asked for its   *)
(* calibration: process_bt_reports takes a buffer for the next of the      *)
(* first reports, waiting for ever, and one for the light bar if there is  *)
(* one.                                                                    *)
Report ==
  LET first == initial_report < InitialReports
      wanted == IF first THEN 2 ELSE 1
      taken == IF wanted <= btreportq THEN wanted ELSE btreportq
      queued == btreqq + taken
  IN
  /\ link = "ready" /\ calibrated # "no" /\ ~blocked
  /\ state = "CONNECT" /\ padDriver
  /\ burst' = IF burst < 2 THEN burst + 1 ELSE burst
  /\ blocked' = (first /\ btreportq = 0)
  /\ initial_report' = IF first /\ ~blocked' THEN initial_report + 1
                       ELSE initial_report
  /\ btreportq' = btreportq - taken
  /\ btreqq' = IF queued <= BTREQ_DEPTH THEN queued ELSE BTREQ_DEPTH
  /\ requests' = IF taken = 0 THEN requests ELSE requests \cup {"PUSH_REPORT"}
  /\ UNCHANGED <<state, tableVars, inquiry, linkVars, padDriver, calibrated,
                 box, historyVars, failures>>

(* The pad closes the connection.                                          *)
PadCloses ==
  /\ link \in {"open", "ready"} /\ ~blocked
  /\ link' = "closing"
  /\ UNCHANGED <<state, tableVars, inquiry, con_handle, hid_host_cid,
                 padVars, requests, box, blocked, burst, historyVars, failures>>

(* HID_SUBEVENT_CONNECTION_CLOSED, with gap_disconnect                     *)
ConnectionClosed ==
  /\ link = "closing" /\ ~blocked
  /\ link' = IF state = "CONNECT" /\ con_handle = "current"
             THEN "dropping" ELSE "down"
  /\ hid_host_cid' = Forgotten
  /\ UNCHANGED <<state, tableVars, inquiry, con_handle, padVars,
                 requests, box, blocked, burst, historyVars, failures>>

(* HCI_EVENT_DISCONNECTION_COMPLETE; when the link is lost hid_host closes *)
(* its connection, or fails to open it, first.                             *)
DisconnectionComplete ==
  /\ link \in {"asking", "up", "open", "ready", "closing", "dropping", "down"}
  /\ ~blocked
  /\ link' = "none"
  /\ con_handle' = "stale"
  /\ hid_host_cid' = IF link \in {"up", "open", "ready", "closing"}
                     THEN Forgotten ELSE hid_host_cid
  /\ state' = "ACTIVE"
  /\ calibrated' = "no"
  /\ rescanned' = FALSE
  /\ UNCHANGED <<tableVars, inquiry, padDriver, initial_report, btreportq,
                 btreqq, requests, box, blocked, burst, scanning, failures>>

----------------------------------------------------------------------------
(* The requests                                                            *)

(* hid_host_disconnect does nothing while there is no channel to close.    *)
HidHostDisconnect ==
  CASE hid_host_cid # "current" -> {link}
    [] link \in {"open", "ready"} -> {"closing"}
    [] link = "up" -> {"up", "closing"}
    [] OTHER -> {link}

(* Mutant: the buffer of a report that was sent is not given back.         *)
BufferKept == btreportq

(* btReleaseBuffer: a full queue takes no more.                            *)
Released ==
  IF padDriver /\ btreportq < BTREPQ_DEPTH THEN btreportq + 1 ELSE btreportq

(* The flags are read once, and served in this order.                      *)
process_btapi_request ==
  LET scan == "START_SCAN" \in requests
      serve == /\ "DISCONNECT" \in requests
               /\ ~scan /\ state = "CONNECT" /\ hid_host_cid # "zero"
      send == "PUSH_REPORT" \in requests /\ btreqq > 0
  IN
  /\ ~blocked /\ (requests # {} \/ burst > 0)
  /\ burst' = 0
  /\ state' = IF scan THEN "ACTIVE" ELSE state
  /\ inquiry' = IF scan THEN StartScan(inquiry) ELSE inquiry
  /\ scanning' = (scanning \/ scan)
  /\ rescanned' = (rescanned \/ (scan /\ link # "none"))
  /\ IF serve THEN link' \in HidHostDisconnect ELSE UNCHANGED link
  /\ btreqq' = IF send THEN btreqq - 1 ELSE btreqq
  /\ btreportq' = IF send THEN Released ELSE btreportq
  /\ requests' = requests \ ({"START_SCAN", "PUSH_REPORT"} \cup
                             (IF serve THEN {"DISCONNECT"} ELSE {}))
  /\ UNCHANGED <<tableVars, con_handle, hid_host_cid, padDriver,
                 calibrated, initial_report, box, blocked, failures>>

(* The pairing box of the GUI, and its answer                              *)
ClickPairing ==
  /\ box.open
  /\ requests' \in {requests, requests \cup {"START_SCAN"}}
  /\ box' = [box EXCEPT !.close = TRUE]
  /\ UNCHANGED <<state, tableVars, inquiry, linkVars, padVars, blocked, burst,
                 historyVars, failures>>

PairingClose ==
  /\ box.close
  /\ box' = NoBox
  /\ UNCHANGED <<state, tableVars, inquiry, linkVars, padVars, requests,
                 blocked, burst, historyVars, failures>>

(* The Bluetooth button, the end of a game, a reboot                       *)
btapi_disconnect ==
  /\ requests' = requests \cup {"DISCONNECT"}
  /\ UNCHANGED <<state, tableVars, inquiry, linkVars, padVars, box, blocked,
                 burst, historyVars, failures>>

Scanning ==
  \/ StateWorking
  \/ \E r \in Remotes : InquiryResult(r)
  \/ InquiryComplete
  \/ \E ok \in BOOLEAN : NameComplete(ok)
Connecting ==
  \/ PageSucceeds \/ PageFails \/ Incoming \/ IncomingConnection
  \/ ConnectionOpened \/ DescriptorAvailable
Connected ==
  \/ GetReportResponse \/ Report
  \/ PadCloses \/ ConnectionClosed \/ DisconnectionComplete
Requesting ==
  \/ process_btapi_request \/ ClickPairing \/ PairingClose \/ btapi_disconnect
Next == Scanning \/ Connecting \/ Connected \/ Requesting

(* The task runs; what the radio has begun ends; a pad that is there is    *)
(* heard in one of the inquiries.                                          *)
Fairness ==
  /\ WF_vars(process_btapi_request)
  /\ WF_vars(InquiryComplete)
  /\ WF_vars(\E ok \in BOOLEAN : NameComplete(ok))
  /\ WF_vars(PageSucceeds) /\ WF_vars(ConnectionClosed)
  /\ \A r \in Controllers : SF_vars(InquiryResult(r))

Spec == Init /\ [][Next]_vars /\ Fairness

----------------------------------------------------------------------------
(* Properties                                                              *)

GamepadTypeOK ==
  /\ state \in {"INIT", "ACTIVE", "CONNECT"}
  /\ devices \in Seq([address : Remotes,
                      state : {"INIT", "REQUEST", "INQUIRED", "FETCHED"}])
  /\ inquiry \in {"idle", "active", "cancelled"}
  /\ naming \in Remotes \cup {Nobody}
  /\ link \in {"none", "paging", "asking", "up", "open", "ready", "closing",
               "dropping", "down"}
  /\ con_handle \in {"current", "stale"}
  /\ hid_host_cid \in {"zero", "current", "stale"}
  /\ calibrated \in {"no", "asked", "told"}
  /\ {padDriver, blocked, rescanned, scanning} \subseteq BOOLEAN
  /\ initial_report \in 0 .. InitialReports
  /\ btreportq \in 0 .. BTREPQ_DEPTH /\ btreqq \in 0 .. BTREQ_DEPTH
  /\ requests \subseteq {"START_SCAN", "DISCONNECT", "PUSH_REPORT"}
  /\ box \in [open : BOOLEAN, close : BOOLEAN]
  /\ burst \in 0 .. 2 /\ failures \in 0 .. Failures

(* An open connection is heard: the handler is in CONNECT and knows the    *)
(* connection, whoever opened it and whatever failed before; only a scan   *)
(* that was asked for under the connection makes it deaf.                  *)
HeardUnlessScan ==
  link \in {"open", "ready"} /\ ~rescanned =>
    state = "CONNECT" /\ hid_host_cid = "current"

(* The task waits for ever for a buffer (osWaitForever, although only this *)
(* task frees one) only if two reports came without process_btapi_request  *)
(* between them.                                                           *)
StallsOnlyInBurst == blocked => burst = 2

(* A disconnect that is asked for while a pad is connected is served,      *)
(* also if it was asked for before the pad was there.                      *)
DisconnectServed ==
  ("DISCONNECT" \in requests /\ link \in {"open", "ready"}) ~>
    (link \notin {"open", "ready"} \/ rescanned \/ blocked)

(* Once the user has asked for a scan, every controller there is will be   *)
(* connected to, or was once: names that fail are asked for again, and     *)
(* requests that the radio refuses are made up for.  (One whose name is    *)
(* known is not tried a second time.)                                      *)
Known(r) == \E i \in DOMAIN devices : devices[i] = [address |-> r, state |-> "FETCHED"]
PadTried ==
  \A r \in Controllers : scanning ~> (Known(r) \/ ~scanning \/ blocked)
============================================================================
