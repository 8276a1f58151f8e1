------------------------------ MODULE BtDongle ------------------------------
(***************************************************************************)
(* The transport between btstack and a Bluetooth dongle on the USB host    *)
(* (src/USB/usbh_bluetooth.c, src/btstack/btstack_port.c).  The dongle     *)
(* task starts transfers at start-of-frame events and takes the ends of    *)
(* transfers out of the same queue, which interrupts fill; the btstack     *)
(* task, of a higher priority, gets packets by pointer, and sends.         *)
(*                                                                         *)
(* Packets come and go in parts (one USB transfer each); the first one     *)
(* holds the length.  Of the control pipes only the outgoing one reports   *)
(* to the task.  The ends of transfers are those the HAL driver knows;     *)
(* errors on the bus and the removal of the dongle are left out.  Assumed: *)
(* the first part of an event holds at least its two bytes of header (the  *)
(* break of usbh_bluetooth.c:477 is not reached), and a transfer from the  *)
(* dongle ends once.                                                       *)
(***************************************************************************)
EXTENDS Integers, Sequences, FiniteSets

CONSTANTS
  EVMSGQ_DEPTH,   (* classEventQueue                                       *)
  HCIEVQ_DEPTH,
  BUFFQ_DEPTH,    (* buffers for events, and for ACL packets               *)
  MaxParts,       (* parts of a packet, at most                            *)
  Packets         (* bound: packets that come in or are sent               *)

ASSUME BtAssumption ==
  /\ EVMSGQ_DEPTH \in Nat /\ EVMSGQ_DEPTH >= 3
  /\ HCIEVQ_DEPTH \in Nat \ {0}
  /\ BUFFQ_DEPTH \in Nat \ {0}
  /\ MaxParts \in Nat \ {0}
  /\ Packets \in Nat

VARIABLES
  evmsgq,     (* classEventQueue                                           *)
  hcievq,     (* packets for btstack                                       *)
  buffq,      (* evbuffq and aclbuffq: free buffers                        *)
  mem,        (* what the buffers hold                                     *)
  dma_flag,   (* pipes the task believes busy                              *)
  cur,        (* ev_buffer, acl_buffer                                     *)
  offset,     (* evb_offset, acl_offset, acl_out_offset, in parts          *)
  xfer,       (* the transfer of each pipe: is it on, and its size         *)
  ctl,        (* stages of the control transfer still to come              *)
  pc,         (* where the dongle task is                                  *)
  req_flags, dongle_flag, usbh_out_state, control_sem,
  can_send,   (* hci_acl_can_send_now                                      *)
  outgoing,   (* the packet btstack sends, which keeps its only buffer     *)
  source,     (* the last part each input pipe has sent                    *)
  delivered,  (* packets of each input pipe btstack has got                *)
  arrived,    (* the last part the dongle has got                          *)
  untold      (* history: transfers whose end the task was not told, or    *)
              (* told in a way it ignores                                  *)

taskVars == <<dma_flag, cur, offset, pc, req_flags, usbh_out_state>>
wireVars == <<xfer, ctl, mem, source, arrived, untold>>
hostVars == <<can_send, outgoing, delivered>>
vars == <<evmsgq, hcievq, buffq, dongle_flag, control_sem, taskVars, wireVars,
          hostVars>>

Inputs == {"ev", "acl"}
Pipes == Inputs \cup {"out"}
Bufs == 1 .. BUFFQ_DEPTH
Part(id, k, len) == [id |-> id, k |-> k, len |-> len]
NoPart == Part(0, 0, 0)
Blank == [k \in 1 .. MaxParts |-> NoPart]
Off == [on |-> FALSE, size |-> 0]
On == [on |-> TRUE, size |-> 0]
Nobody == [kind |-> "none", id |-> 0, len |-> 0]

Channels == Pipes \cup {"ctl"}
Ev(channel, st) == [channel |-> channel, state |-> st]
HciPacket(p, b, size) == [type |-> p, buffer |-> b, size |-> size]
Psent == HciPacket("psent", 0, 0)
SOF == Ev("sof", "SOF")

BtInit ==
  /\ evmsgq = <<>> /\ hcievq = <<>>
  /\ buffq = [p \in Inputs |-> [b \in Bufs |-> b]]
  /\ mem = [p \in Inputs |-> [b \in Bufs |-> Blank]]
  /\ dma_flag = {}
  /\ cur = [p \in Inputs |-> 1]
  /\ offset = [p \in Pipes |-> 0]
  /\ xfer = [p \in Pipes |-> Off]
  /\ ctl = <<>>
  /\ pc = "get"
  /\ req_flags = {} /\ dongle_flag = {}
  /\ usbh_out_state = "IDLE" /\ control_sem = 1
  /\ can_send = TRUE
  /\ outgoing = Nobody
  /\ source = [p \in Inputs |-> NoPart]
  /\ delivered = [p \in Inputs |-> 0]
  /\ arrived = NoPart
  /\ untold = {}

(* Mutant: a pool that takes any number.                                   *)
PutBufferTwice(q, b) == Append(q, b)

(* osMessageQueuePut with time-out 0 into a pool.                          *)
PutBuffer(q, b) == IF Len(q) < BUFFQ_DEPTH THEN Append(q, b) ELSE q

-----------------------------------------------------------------------------
(* Interrupts.                                                             *)

(* URBChangeCallback: the event is dropped when the queue is full.         *)
Notify(transfer, channel, st) ==
  IF Len(evmsgq) < EVMSGQ_DEPTH
  THEN evmsgq' = Append(evmsgq, Ev(channel, st)) /\ UNCHANGED untold
  ELSE UNCHANGED evmsgq /\ untold' = untold \cup {transfer}

UnchangedByUsb ==
  UNCHANGED <<hcievq, buffq, dongle_flag, control_sem, taskVars, hostVars>>

(* USBH_Bluetooth_SOFProcess                                               *)
Sof ==
  /\ EVMSGQ_DEPTH - Len(evmsgq) >= 3
  /\ evmsgq' = Append(evmsgq, SOF)
  /\ UnchangedByUsb
  /\ UNCHANGED wireVars

Begun == source["ev"].id + source["acl"].id
           + (IF outgoing = Nobody THEN arrived.id ELSE outgoing.id)

NextPart(p) ==
  IF source[p].k < source[p].len
  THEN {Part(source[p].id, source[p].k + 1, source[p].len)}
  ELSE {Part(source[p].id + 1, 1, len) : len \in 1 .. MaxParts}

(* A part arrives in the buffer of the transfer.                           *)
Receive(p) ==
  /\ xfer[p].on
  /\ \E part \in NextPart(p) :
       /\ part.k = 1 => Begun < Packets
       /\ source' = [source EXCEPT ![p] = part]
       /\ mem' = [mem EXCEPT ![p][cur[p]][offset[p] + 1] = part]
  /\ xfer' = [xfer EXCEPT ![p] = [on |-> FALSE, size |-> 1]]
  /\ Notify(p, p, "DONE")
  /\ UnchangedByUsb
  /\ UNCHANGED <<ctl, arrived>>

(* The dongle has nothing to send.  An interrupt transfer ends with no     *)
(* data, a bulk transfer is given up.                                      *)
NothingThere(p, st) ==
  /\ xfer[p].on
  /\ xfer' = [xfer EXCEPT ![p] = Off]
  /\ Notify(p, p, st)
  /\ UnchangedByUsb
  /\ UNCHANGED <<ctl, mem, source, arrived>>

InputEnds(p) ==
  \/ Receive(p)
  \/ p = "ev" /\ NothingThere(p, "DONE")
  \/ p = "acl" /\ NothingThere(p, "NOTREADY")

(* The dongle ends an ACL packet with an empty transfer.  (Bound: this or  *)
(* a refusal happens only while nothing has gone wrong.)                   *)
AclEmpty ==
  /\ untold = {}
  /\ xfer["acl"].on
  /\ offset["acl"] = 0
  /\ xfer' = [xfer EXCEPT !["acl"] = Off]
  /\ Len(evmsgq) < EVMSGQ_DEPTH
  /\ evmsgq' = Append(evmsgq, Ev("acl", "DONE"))
  /\ untold' = untold \cup {"empty"}
  /\ UnchangedByUsb
  /\ UNCHANGED <<ctl, mem, source, arrived>>

(* A part of the packet has gone out, ...                                  *)
OutDone ==
  /\ xfer["out"].on
  /\ xfer' = [xfer EXCEPT !["out"] = Off]
  /\ arrived' = Part(outgoing.id, offset["out"] + 1, outgoing.len)
  /\ Notify("out", "out", "DONE")
  /\ UnchangedByUsb
  /\ UNCHANGED <<ctl, mem, source>>

(* ... or the dongle was busy: the driver stops the transfer.              *)
OutRefused ==
  /\ untold = {}
  /\ xfer["out"].on
  /\ xfer' = [xfer EXCEPT !["out"] = Off]
  /\ evmsgq' = IF Len(evmsgq) < EVMSGQ_DEPTH
               THEN Append(evmsgq, Ev("out", "NOTREADY")) ELSE evmsgq
  /\ untold' = untold \cup {"out"}
  /\ UnchangedByUsb
  /\ UNCHANGED <<ctl, mem, source, arrived>>

(* A stage of the control transfer ends.  The last one, by the control     *)
(* pipe that has no queue, is part of CmdOver.                             *)
CtlStage ==
  /\ ctl # <<>>
  /\ ctl' = Tail(ctl)
  /\ Notify(Head(ctl), "ctl", "DONE")
  /\ arrived' = IF Head(ctl) = "data"
                THEN Part(outgoing.id, 1, outgoing.len) ELSE arrived
  /\ UnchangedByUsb
  /\ UNCHANGED <<xfer, mem, source>>

-----------------------------------------------------------------------------
(* The dongle task (StartBTDongleTask).                                    *)

(* postHCIEvent wakes the btstack task, which is above this one.           *)
DongleTurn == hcievq = <<>>

PostHCIEvent(ev) ==
  /\ Len(hcievq) < HCIEVQ_DEPTH
  /\ hcievq' = Append(hcievq, ev)

Take(channel, st) ==
  /\ DongleTurn
  /\ pc = "get"
  /\ evmsgq # <<>>
  /\ Head(evmsgq) = Ev(channel, st)
  /\ evmsgq' = Tail(evmsgq)

(* Start of frame, nothing being transferred: both input pipes are started *)
(* into a free buffer, or after what there is of a packet.                 *)
Started == {p \in Inputs : offset[p] > 0 \/ buffq[p] # <<>>}

(* Mutant: the rest of a packet goes into a new buffer.                    *)
BufferForRest(p) ==
  IF p \in Started /\ buffq[p] # <<>> THEN Head(buffq[p]) ELSE cur[p]

BufferFor(p) ==
  IF p \in Started /\ offset[p] = 0 THEN Head(buffq[p]) ELSE cur[p]

(* Mutant: the rest is sent only if nothing else is transferred.           *)
MoreWhenIdle(begun) == dma_flag \cup begun = {} /\ offset["out"] > 0

(* The rest of an outgoing packet is sent at any start of frame.           *)
MoreToSend(begun) == "out" \notin dma_flag /\ offset["out"] > 0

HandleSof ==
  /\ Take("sof", "SOF")
  /\ LET begun == IF dma_flag = {} THEN Started ELSE {}
         on == begun \cup (IF MoreToSend(begun) THEN {"out"} ELSE {})
     IN  /\ dma_flag' = dma_flag \cup on
         /\ xfer' = [p \in Pipes |-> IF p \in on THEN On ELSE xfer[p]]
         /\ cur' = [p \in Inputs |-> IF p \in begun THEN BufferFor(p) ELSE cur[p]]
         /\ buffq' = [p \in Inputs |-> IF p \in begun /\ offset[p] = 0
                                       THEN Tail(buffq[p]) ELSE buffq[p]]
  /\ pc' = "flags"
  /\ UNCHANGED <<hcievq, dongle_flag, control_sem, offset, req_flags,
                 usbh_out_state, ctl, mem, source, arrived, untold, hostVars>>

(* Mutant: NOTREADY is ignored.                                            *)
FreedNever(p) == FALSE

(* NOTREADY matters for the ACL input only.                                *)
Freed(p) == p = "acl"

HandleNotReady ==
  /\ \E p \in Pipes :
       /\ Take(p, "NOTREADY")
       /\ IF Freed(p)
          THEN /\ dma_flag' = dma_flag \ {p}
               /\ buffq' = [buffq EXCEPT ![p] = PutBuffer(@, cur[p])]
          ELSE UNCHANGED <<dma_flag, buffq>>
  /\ pc' = "flags"
  /\ UNCHANGED <<hcievq, dongle_flag, control_sem, cur, offset, req_flags,
                 usbh_out_state, wireVars, hostVars>>

Complete(p) == offset[p] + 1 >= mem[p][cur[p]][1].len

(* The size of a transfer (USBH_LL_GetLastXferSize) is read once.          *)
ReadSize(p) == xfer' = [xfer EXCEPT ![p] = Off]

(* A part of an event, or none.  The buffer goes back in any case.         *)
HandleEvDone ==
  /\ Take("ev", "DONE")
  /\ ReadSize("ev")
  /\ LET got == xfer["ev"].size = 1 /\ "ev" \in dma_flag
     IN  /\ IF got /\ Complete("ev")
            THEN PostHCIEvent(HciPacket("ev", cur["ev"], mem["ev"][cur["ev"]][1].len))
            ELSE UNCHANGED hcievq
         /\ offset' = [offset EXCEPT !["ev"] =
                         IF ~got THEN @ ELSE IF Complete("ev") THEN 0 ELSE @ + 1]
  /\ dma_flag' = dma_flag \ {"ev"}
  /\ buffq' = [buffq EXCEPT !["ev"] = PutBuffer(@, cur["ev"])]
  /\ pc' = "flags"
  /\ UNCHANGED <<dongle_flag, control_sem, cur, req_flags, usbh_out_state, ctl,
                 mem, source, arrived, untold, hostVars>>

(* A part of an ACL packet, or none.  The buffer goes back with the last.  *)
HandleAclDone ==
  /\ Take("acl", "DONE")
  /\ ReadSize("acl")
  /\ LET got == xfer["acl"].size = 1 /\ "acl" \in dma_flag
     IN  IF got /\ Complete("acl")
         THEN /\ PostHCIEvent(HciPacket("acl", cur["acl"], mem["acl"][cur["acl"]][1].len))
              /\ buffq' = [buffq EXCEPT !["acl"] = PutBuffer(@, cur["acl"])]
              /\ offset' = [offset EXCEPT !["acl"] = 0]
         ELSE /\ offset' = [offset EXCEPT !["acl"] = IF got THEN @ + 1 ELSE @]
              /\ UNCHANGED <<hcievq, buffq>>
  /\ dma_flag' = dma_flag \ {"acl"}
  /\ pc' = "flags"
  /\ UNCHANGED <<dongle_flag, control_sem, cur, req_flags, usbh_out_state, ctl,
                 mem, source, arrived, untold, hostVars>>

(* Mutant: every part is taken for the last one.                           *)
LastPartAny == TRUE
LastPart == offset["out"] + 1 >= outgoing.len

(* A part of the outgoing packet is out.                                   *)
HandleOutDone ==
  /\ Take("out", "DONE")
  /\ dma_flag' = dma_flag \ {"out"}
  /\ IF LastPart
     THEN /\ offset' = [offset EXCEPT !["out"] = 0]
          /\ PostHCIEvent(Psent)
          /\ pc' = "psent"
     ELSE /\ offset' = [offset EXCEPT !["out"] = @ + 1]
          /\ UNCHANGED hcievq
          /\ pc' = "flags"
  /\ UNCHANGED <<buffq, dongle_flag, control_sem, cur, req_flags,
                 usbh_out_state, wireVars, hostVars>>

(* A stage of a command is over, the last of which the task has waited for.*)
HandleCtlDone ==
  /\ Take("ctl", "DONE")
  /\ IF usbh_out_state = "CMD"
     THEN /\ control_sem' = 1      \* UngrabUrb
          /\ PostHCIEvent(Psent)
          /\ pc' = "csent"
     ELSE UNCHANGED <<hcievq, control_sem>> /\ pc' = "flags"
  /\ UNCHANGED <<buffq, dongle_flag, dma_flag, cur, offset, req_flags,
                 usbh_out_state, wireVars, hostVars>>

(* The packet has been answered: btstack may send again.                   *)
NextOutState(answered) == IF answered = "csent" THEN "IDLE" ELSE usbh_out_state

SendNow ==
  /\ DongleTurn
  /\ pc \in {"psent", "csent"}
  /\ can_send' = TRUE
  /\ usbh_out_state' = NextOutState(pc)
  /\ pc' = "flags"
  /\ UNCHANGED <<evmsgq, hcievq, buffq, dongle_flag, control_sem, dma_flag, cur,
                 offset, req_flags, wireVars, outgoing, delivered>>

(* What btstack wants to send is looked at after each event.  A command:   *)
(* USBH_CtlReq is called until the transfer is over.                       *)
SendCmd ==
  /\ DongleTurn
  /\ pc = "flags"
  /\ "CMD" \in dongle_flag
  /\ control_sem = 1               \* GrabUrb
  /\ control_sem' = 0
  /\ req_flags' = dongle_flag
  /\ can_send' = FALSE
  /\ usbh_out_state' = "CMD"
  /\ ctl' = <<"setup", "data">>
  /\ pc' = "ctl"
  /\ UNCHANGED <<evmsgq, hcievq, buffq, dongle_flag, dma_flag, cur, offset,
                 xfer, mem, source, arrived, untold, outgoing, delivered>>

(* An ACL packet, then, if flags ask for one: its first part.              *)
SendAclIn(flags, left) ==
  /\ IF "ACL" \in flags /\ "out" \notin dma_flag
     THEN /\ can_send' = FALSE
          /\ offset' = [offset EXCEPT !["out"] = 0]
          /\ dma_flag' = dma_flag \cup {"out"}
          /\ xfer' = [xfer EXCEPT !["out"] = On]
          /\ dongle_flag' = left \ {"ACL"}
     ELSE dongle_flag' = left /\ UNCHANGED <<can_send, offset, dma_flag, xfer>>
  /\ req_flags' = {}
  /\ pc' = "get"
  /\ UNCHANGED <<evmsgq, hcievq, buffq, control_sem, cur, usbh_out_state, ctl,
                 mem, source, arrived, untold, outgoing, delivered>>

CmdOver ==
  /\ DongleTurn
  /\ pc = "ctl"
  /\ ctl = <<>>
  /\ SendAclIn(req_flags, dongle_flag \ {"CMD"})

SendAcl ==
  /\ DongleTurn
  /\ pc = "flags"
  /\ "CMD" \notin dongle_flag
  /\ SendAclIn(dongle_flag, dongle_flag)

-----------------------------------------------------------------------------
(* btstack.                                                                *)

(* transport_deliver_hci_packets: by pointer.  What has been delivered may *)
(* be overwritten, and is forgotten here.                                  *)
Deliver ==
  /\ hcievq # <<>>
  /\ hcievq' = Tail(hcievq)
  /\ LET type == Head(hcievq).type
     IN  IF type = "psent"
         THEN outgoing' = Nobody /\ UNCHANGED <<delivered, mem>>
         ELSE /\ delivered' = [delivered EXCEPT ![type] = @ + 1]
              /\ mem' = [mem EXCEPT ![type][Head(hcievq).buffer] = Blank]
              /\ UNCHANGED outgoing
  /\ UNCHANGED <<evmsgq, buffq, dongle_flag, control_sem, taskVars, xfer, ctl,
                 source, arrived, untold, can_send>>

(* transport_send_packet; btstack has one outgoing packet.                 *)
Send(kind, len) ==
  /\ outgoing = Nobody
  /\ can_send
  /\ Begun < Packets
  /\ outgoing' = [kind |-> kind, id |-> arrived.id + 1, len |-> len]
  /\ dongle_flag' = dongle_flag \cup {kind}
  /\ UNCHANGED <<evmsgq, hcievq, buffq, control_sem, taskVars, wireVars,
                 can_send, delivered>>

-----------------------------------------------------------------------------
Dongle ==
  \/ HandleSof \/ HandleNotReady \/ HandleEvDone \/ HandleAclDone
  \/ HandleOutDone \/ HandleCtlDone \/ SendNow
  \/ SendCmd \/ CmdOver \/ SendAcl

Next ==
  \/ Sof
  \/ \E p \in Inputs : InputEnds(p)
  \/ AclEmpty
  \/ OutDone \/ OutRefused
  \/ CtlStage
  \/ Dongle
  \/ Deliver
  \/ Send("CMD", 1)
  \/ \E len \in 1 .. MaxParts : Send("ACL", len)

(* Frames go on, what is being sent (one packet) ends, and the two tasks   *)
(* run, of which one at a time can.                                        *)
Fairness ==
  /\ WF_vars(Sof)
  /\ WF_vars(OutDone \/ OutRefused \/ CtlStage)
  /\ WF_vars(Dongle \/ Deliver)

BtSpec == BtInit /\ [][Next]_vars /\ Fairness

-----------------------------------------------------------------------------
Parts == [id : 0 .. Packets, k : 0 .. MaxParts, len : 0 .. MaxParts]

(* The state has the shape of the code's variables; no queue holds more    *)
(* than it has room for, and a command has the control pipe to itself.     *)
BtTypeOK ==
  /\ Len(evmsgq) <= EVMSGQ_DEPTH
  /\ \A i \in DOMAIN evmsgq :
       evmsgq[i] = SOF \/ (evmsgq[i].channel \in Channels
                          /\ evmsgq[i].state \in {"DONE", "NOTREADY"})
  /\ Len(hcievq) <= HCIEVQ_DEPTH
  /\ \A p \in Inputs : Len(buffq[p]) <= BUFFQ_DEPTH /\ cur[p] \in Bufs
  /\ dma_flag \subseteq Pipes
  /\ \A p \in Pipes : offset[p] \in 0 .. MaxParts - 1
  /\ pc \in {"get", "flags", "psent", "csent", "ctl"}
  /\ req_flags \subseteq {"CMD", "ACL"} /\ dongle_flag \subseteq {"CMD", "ACL"}
  /\ control_sem = (IF usbh_out_state = "CMD" /\ pc # "csent" THEN 0 ELSE 1)
  /\ outgoing.kind \in {"none", "CMD", "ACL"}
  /\ \A p \in Inputs : source[p] \in Parts
  /\ arrived \in Parts

(* A packet that waits for btstack is in its buffer whole, in one piece,   *)
(* and the next one of its pipe, though packets of several transfers go on *)
(* in a buffer the task has already put back among the free ones.          *)
DeliveredIntact ==
  \A i \in DOMAIN hcievq :
    LET e == hcievq[i] IN
    e.type \in Inputs =>
      e.size > 0 /\ \A k \in 1 .. e.size :
        mem[e.type][e.buffer][k] = Part(delivered[e.type] + 1, k, e.size)

(* What the dongle gets is the sequence of the parts of the packets sent:  *)
(* none is lost, sent twice or sent after btstack has its buffer back.     *)
SentIntact ==
  [][ arrived' # arrived =>
        \/ /\ arrived.k = arrived.len
           /\ arrived'.id = arrived.id + 1 /\ arrived'.k = 1
        \/ /\ arrived.k < arrived.len
           /\ arrived' = [arrived EXCEPT !.k = @ + 1] ]_vars

(* Though they are put back more often than they are taken, no buffer is   *)
(* free twice, and while nothing of a packet is being received all of them *)
(* are free.  An empty ACL transfer costs a buffer, and then another one   *)
(* may take its place a second time.                                       *)
PoolSound ==
  \A p \in Inputs : (p = "acl" => "empty" \notin untold) =>
    /\ \A i, j \in DOMAIN buffq[p] : i # j => buffq[p][i] # buffq[p][j]
    /\ p \notin dma_flag /\ offset[p] = 0 => Len(buffq[p]) = BUFFQ_DEPTH

(* A pipe the task believes busy has a transfer on, or an event of its end *)
(* to come: else the task, deaf, would begin none ever again.  Only an     *)
(* event that found the queue full, or a refused packet, does that.  And   *)
(* no transfer is on by a pipe the task believes free.                     *)
ListensUnlessLost ==
  /\ \A p \in dma_flag :
       \/ xfer[p].on
       \/ \E i \in DOMAIN evmsgq : evmsgq[i].channel = p
       \/ p \in untold
  /\ \A p \in Pipes : xfer[p].on => p \in dma_flag

(* btstack gets its outgoing packet back, unless a part was refused, its   *)
(* end found the queue full, or both ends a command has did.               *)
SendAnswered ==
  outgoing # Nobody ~>
    (outgoing = Nobody \/ "out" \in untold \/ {"setup", "data"} \subseteq untold)
=============================================================================
