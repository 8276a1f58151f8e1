------------------------- MODULE GamepadHost_proofs -------------------------
(***************************************************************************)
(* Theorems about GamepadHost, for every set of devices, every number of   *)
(* first reports and of failures, and every size of the two queues: an     *)
(* open connection is heard unless a scan was asked for under it, and the  *)
(* Bluetooth task waits for one of its own buffers only in a burst.        *)
(***************************************************************************)
EXTENDS GamepadHost, TLAPS

(* The types of what the arguments look into.                              *)
PadTypeOK ==
  /\ state \in {"INIT", "ACTIVE", "CONNECT"}
  /\ rescanned \in BOOLEAN
  /\ burst \in 0 .. 2
  /\ btreportq \in Nat /\ btreqq \in Nat

----------------------------------------------------------------------------
(* Why a connection is heard.  The handler is in CONNECT from the page or  *)
(* the request that begins a connection to its end, and it learns the cid  *)
(* when the connection is opened.                                          *)
HeardInv ==
  /\ link # "none" => state # "INIT"
  /\ link \notin {"none", "paging"} /\ ~rescanned => state = "CONNECT"
  /\ link \in {"open", "ready"} /\ ~rescanned => hid_host_cid = "current"

(* Why a burst is needed.  A pad whose reports are heard finds a free      *)
(* buffer after each process_btapi_request, and while there is none a      *)
(* report is queued that the next process_btapi_request sends.             *)
Reporting ==
  link = "ready" /\ calibrated # "no" /\ state = "CONNECT" /\ padDriver
BufferInv ==
  /\ Reporting /\ burst = 0 => btreportq > 0
  /\ Reporting /\ btreportq = 0 => "PUSH_REPORT" \in requests /\ btreqq > 0
  /\ blocked => burst = 2

PadInv == PadTypeOK /\ HeardInv /\ BufferInv

----------------------------------------------------------------------------
LEMMA PadInit == Init => PadInv
<1> SUFFICES ASSUME Init PROVE PadInv
  OBVIOUS
<1>1. PadTypeOK
  <2>1. rescanned \in BOOLEAN
    BY Zenon DEF Init
  <2>2. state = "INIT" /\ burst = 0 /\ btreportq = 0 /\ btreqq = 0
    BY DEF Init
  <2>3. QED
    BY <2>1, <2>2 DEF PadTypeOK
<1>2. HeardInv
  BY DEF Init, HeardInv
<1>3. BufferInv
  BY DEF Init, BufferInv, Reporting
<1>4. QED
  BY <1>1, <1>2, <1>3 DEF PadInv

(* Inquiries and names change no connection, but for the page they end in. *)
LEMMA ScanningKeeps == PadInv /\ Scanning => PadInv'
<1> SUFFICES ASSUME PadInv, Scanning PROVE PadInv'
  OBVIOUS
<1>1. CASE StateWorking
  BY <1>1 DEF StateWorking, linkVars, padVars, historyVars, PadInv, PadTypeOK, HeardInv,
              BufferInv, Reporting
<1>2. CASE (\E r \in Remotes : InquiryResult(r)) \/ InquiryComplete
  <2>1. UNCHANGED <<state, linkVars, padVars, requests, blocked, burst, historyVars>>
    BY <1>2 DEF InquiryResult, InquiryComplete
  <2>2. QED
    BY <2>1 DEF linkVars, padVars, historyVars, PadInv, PadTypeOK, HeardInv, BufferInv,
                Reporting
<1>3. ASSUME NEW ok \in BOOLEAN, NameComplete(ok) PROVE PadInv'
  <2>1. UNCHANGED <<state, padVars, requests, blocked, burst, historyVars>>
    BY <1>3 DEF NameComplete
  <2>2. UNCHANGED linkVars \/ (state = "ACTIVE" /\ Connect)
    <3>1. state \in {"INIT", "ACTIVE", "CONNECT"}
      BY DEF PadInv, PadTypeOK
    <3>2. QED
      BY <1>3, <3>1 DEF NameComplete
  <2>3. CASE UNCHANGED linkVars
    BY <2>1, <2>3 DEF linkVars, padVars, historyVars, PadInv, PadTypeOK, HeardInv,
                      BufferInv, Reporting
  <2>4. CASE state = "ACTIVE" /\ Connect
    <3>1. \/ link = "none" /\ link' = "paging"
          \/ link = "down" /\ link' = "up"
          \/ UNCHANGED <<link, hid_host_cid>>
      BY <2>4 DEF Connect
    <3>2. QED
      BY <2>1, <2>4, <3>1 DEF padVars, historyVars, PadInv, PadTypeOK, HeardInv,
                              BufferInv, Reporting
  <2>5. QED
    BY <2>2, <2>3, <2>4
<1>4. QED
  BY <1>1, <1>2, <1>3 DEF Scanning

(* A connection begins: the handler is in CONNECT from here on.            *)
LEMMA Entered ==
  ASSUME PadInv, NEW handle, ConnectionComplete(handle)
  PROVE  /\ state' \in {"INIT", "CONNECT"}
         /\ state # "INIT" => state' = "CONNECT"
         /\ rescanned' \in BOOLEAN
BY DEF PadInv, PadTypeOK, ConnectionComplete, historyVars

LEMMA ConnectingKeeps == PadInv /\ Connecting => PadInv'
<1> SUFFICES ASSUME PadInv, Connecting PROVE PadInv'
  OBVIOUS
<1>1. CASE PageSucceeds \/ PageFails \/ Incoming
  <2>1. \E handle : ConnectionComplete(handle)
    BY <1>1 DEF PageSucceeds, PageFails, Incoming
  <2>2. /\ state' = "CONNECT" /\ rescanned' \in BOOLEAN
    <3>1. state # "INIT"
      BY <1>1 DEF PageSucceeds, PageFails, Incoming, PadInv, HeardInv
    <3>2. QED
      BY <2>1, <3>1, Entered
  <2>3. /\ link' \in {"up", "paging", "none", "asking"}
        /\ UNCHANGED <<padVars, requests, blocked, burst>>
    BY <1>1 DEF PageSucceeds, PageFails, Incoming
  <2>4. QED
    BY <2>2, <2>3 DEF padVars, PadInv, PadTypeOK, HeardInv, BufferInv, Reporting
<1>2. CASE IncomingConnection
  BY <1>2 DEF IncomingConnection, padVars, historyVars, PadInv, PadTypeOK, HeardInv,
              BufferInv, Reporting
<1>3. CASE ConnectionOpened
  <2>1. /\ link = "up" /\ link' = "open"
        /\ UNCHANGED <<state, btreportq, btreqq, requests, blocked, burst, rescanned>>
        /\ state = "CONNECT" => hid_host_cid' = "current"
    BY <1>3 DEF ConnectionOpened, historyVars, CidOfEvent
  <2>2. QED
    BY <2>1 DEF PadInv, PadTypeOK, HeardInv, BufferInv, Reporting
<1>4. CASE DescriptorAvailable
  <2>1. /\ link = "open" /\ link' = "ready" /\ ~blocked
        /\ UNCHANGED <<state, hid_host_cid, padDriver, btreqq, requests, blocked, burst,
                       rescanned>>
        /\ \/ btreportq' = BTREPQ_DEPTH
           \/ ~(state = "CONNECT" /\ padDriver) /\ btreportq' = btreportq
    BY <1>4 DEF DescriptorAvailable, historyVars
  <2>2. BTREPQ_DEPTH \in Nat \ {0}
    BY GamepadAssumption
  <2>3. QED
    BY <2>1, <2>2 DEF PadInv, PadTypeOK, HeardInv, BufferInv, Reporting
<1>5. QED
  BY <1>1, <1>2, <1>3, <1>4 DEF Connecting

(* A report takes one buffer or two, if there are any, and whatever it     *)
(* takes is queued.                                                        *)
LEMMA ReportKeeps == PadInv /\ Report => PadInv'
<1> SUFFICES ASSUME PadInv, Report PROVE PadInv'
  OBVIOUS
<1> DEFINE first == initial_report < InitialReports
           wanted == IF first THEN 2 ELSE 1
           taken == IF wanted <= btreportq THEN wanted ELSE btreportq
           queued == btreqq + taken
<1>1. /\ Reporting /\ ~blocked
      /\ UNCHANGED <<link, state, hid_host_cid, padDriver, calibrated, rescanned>>
      /\ burst' = IF burst < 2 THEN burst + 1 ELSE burst
      /\ blocked' = (first /\ btreportq = 0)
      /\ btreportq' = btreportq - taken
      /\ btreqq' = IF queued <= BTREQ_DEPTH THEN queued ELSE BTREQ_DEPTH
      /\ requests' = IF taken = 0 THEN requests ELSE requests \cup {"PUSH_REPORT"}
  BY DEF Report, Reporting, linkVars, historyVars
<1>2. BTREQ_DEPTH \in Nat \ {0}
  BY GamepadAssumption
<1>3. burst \in 0 .. 2 /\ btreportq \in Nat /\ btreqq \in Nat
  BY DEF PadInv, PadTypeOK
<1>4. taken \in Nat /\ taken <= btreportq /\ (taken = 0 => btreportq = 0)
  BY <1>3
<1>5. burst = 0 => btreportq > 0
  BY <1>1 DEF PadInv, BufferInv
<1>6. btreportq = 0 => "PUSH_REPORT" \in requests /\ btreqq > 0
  BY <1>1 DEF PadInv, BufferInv
<1> HIDE DEF first, taken
<1>7. burst' \in 1 .. 2 /\ btreportq' \in Nat /\ btreqq' \in Nat
  BY <1>1, <1>2, <1>3, <1>4
<1>8. blocked' => burst' = 2
  <2>1. ASSUME blocked' PROVE burst # 0
    <3>1. btreportq = 0
      BY <2>1, <1>1
    <3>2. QED
      BY <3>1, <1>5
  <2>2. QED
    BY <2>1, <1>1, <1>3
<1>9. "PUSH_REPORT" \in requests' /\ btreqq' > 0
  <2>1. CASE taken = 0
    BY <2>1, <1>1, <1>2, <1>3, <1>4, <1>6
  <2>2. CASE taken # 0
    BY <2>2, <1>1, <1>2, <1>3, <1>4
  <2>3. QED
    BY <2>1, <2>2
<1>10. PadTypeOK' /\ HeardInv'
  BY <1>1, <1>7 DEF PadInv, PadTypeOK, HeardInv
<1>11. BufferInv'
  BY <1>7, <1>8, <1>9 DEF BufferInv
<1>12. QED
  BY <1>10, <1>11 DEF PadInv

LEMMA ConnectedKeeps == PadInv /\ Connected => PadInv'
<1> SUFFICES ASSUME PadInv, Connected PROVE PadInv'
  OBVIOUS
<1>1. CASE GetReportResponse
  BY <1>1 DEF GetReportResponse, linkVars, historyVars, PadInv, PadTypeOK, HeardInv,
              BufferInv, Reporting
<1>2. CASE Report
  BY <1>2, ReportKeeps
<1>3. CASE PadCloses
  BY <1>3 DEF PadCloses, padVars, historyVars, PadInv, PadTypeOK, HeardInv, BufferInv,
              Reporting
<1>4. CASE ConnectionClosed
  BY <1>4 DEF ConnectionClosed, padVars, historyVars, PadInv, PadTypeOK, HeardInv,
              BufferInv, Reporting
<1>5. CASE DisconnectionComplete
  BY <1>5 DEF DisconnectionComplete, PadInv, PadTypeOK, HeardInv, BufferInv, Reporting
<1>6. QED
  BY <1>1, <1>2, <1>3, <1>4, <1>5 DEF Connected

(* One report is sent and its buffer freed; a scan ends the hearing.       *)
LEMMA ServingKeeps == PadInv /\ process_btapi_request => PadInv'
<1> SUFFICES ASSUME PadInv, process_btapi_request PROVE PadInv'
  OBVIOUS
<1> DEFINE scan == "START_SCAN" \in requests
           send == "PUSH_REPORT" \in requests /\ btreqq > 0
<1>1. /\ ~blocked /\ blocked' = blocked /\ burst' = 0
      /\ state' = IF scan THEN "ACTIVE" ELSE state
      /\ rescanned' = (rescanned \/ (scan /\ link # "none"))
      /\ btreqq' = IF send THEN btreqq - 1 ELSE btreqq
      /\ btreportq' = IF send THEN Released ELSE btreportq
      /\ UNCHANGED <<hid_host_cid, padDriver, calibrated>>
  BY DEF process_btapi_request
<1>2. \/ link' = link
      \/ link \in {"open", "ready"} /\ link' = "closing"
      \/ link = "up" /\ link' \in {"up", "closing"}
  BY DEF process_btapi_request, HidHostDisconnect
<1>3. BTREPQ_DEPTH \in Nat \ {0}
  BY GamepadAssumption
<1>4. btreportq \in Nat /\ btreqq \in Nat /\ rescanned \in BOOLEAN
  BY DEF PadInv, PadTypeOK
<1>5. btreportq' \in Nat /\ btreqq' \in Nat
  BY <1>1, <1>3, <1>4 DEF Released
<1>6. PadTypeOK'
  BY <1>1, <1>4, <1>5 DEF PadInv, PadTypeOK
<1>7. HeardInv'
  BY <1>1, <1>2 DEF PadInv, PadTypeOK, HeardInv
<1>8. Reporting' => btreportq' > 0
  <2> SUFFICES ASSUME Reporting' PROVE btreportq' > 0
    OBVIOUS
  <2>1. Reporting
    BY <1>1, <1>2 DEF Reporting
  <2>2. CASE btreportq > 0
    BY <2>2, <1>1, <1>3, <1>4 DEF Released
  <2>3. CASE btreportq = 0
    <3>1. send /\ padDriver
      BY <2>1, <2>3 DEF PadInv, BufferInv, Reporting
    <3>2. QED
      BY <3>1, <2>3, <1>1, <1>3 DEF Released
  <2>4. QED
    BY <2>2, <2>3, <1>4
<1>9. BufferInv'
  BY <1>1, <1>5, <1>8 DEF BufferInv
<1>10. QED
  BY <1>6, <1>7, <1>9 DEF PadInv

LEMMA RequestingKeeps == PadInv /\ Requesting => PadInv'
<1> SUFFICES ASSUME PadInv, Requesting PROVE PadInv'
  OBVIOUS
<1>1. CASE process_btapi_request
  BY <1>1, ServingKeeps
<1>2. CASE ClickPairing \/ PairingClose \/ btapi_disconnect
  <2>1. /\ UNCHANGED <<state, linkVars, padVars, blocked, burst, historyVars>>
        /\ requests \subseteq requests'
    BY <1>2 DEF ClickPairing, PairingClose, btapi_disconnect
  <2>2. QED
    BY <2>1 DEF linkVars, padVars, historyVars, PadInv, PadTypeOK, HeardInv, BufferInv,
                Reporting
<1>3. QED
  BY <1>1, <1>2 DEF Requesting

LEMMA PadStep == PadInv /\ [Next]_vars => PadInv'
<1> SUFFICES ASSUME PadInv, [Next]_vars PROVE PadInv'
  OBVIOUS
<1>1. CASE Next
  BY <1>1, ScanningKeeps, ConnectingKeeps, ConnectedKeeps, RequestingKeeps DEF Next
<1>2. CASE UNCHANGED vars
  BY <1>2 DEF vars, linkVars, padVars, historyVars, PadInv, PadTypeOK, HeardInv,
              BufferInv, Reporting
<1>3. QED
  BY <1>1, <1>2

----------------------------------------------------------------------------
(* An open connection is heard, whoever opened it and whatever failed      *)
(* before, unless a scan was asked for under it (packet_handler,           *)
(* process_btapi_request).                                                 *)
THEOREM ConnectionHeard == Spec => []HeardUnlessScan
<1>1. PadInv => HeardUnlessScan
  BY DEF PadInv, HeardInv, HeardUnlessScan
<1>2. QED
  BY <1>1, PadInit, PadStep, PTL DEF Spec

(* The Bluetooth task waits for a buffer only after two reports without    *)
(* process_btapi_request between them (process_bt_reports): one buffer     *)
(* given back for each is enough, also with the light bar's in the queue.  *)
THEOREM StallNeedsBurst == Spec => []StallsOnlyInBurst
<1>1. PadInv => StallsOnlyInBurst
  BY DEF PadInv, BufferInv, StallsOnlyInBurst
<1>2. QED
  BY <1>1, PadInit, PadStep, PTL DEF Spec
=============================================================================
