--------------------------- MODULE BtDongle_proofs ---------------------------
(***************************************************************************)
(* Theorems about BtDongle, for every length of packets, every number of   *)
(* them and of buffers, and every size of the queues: no buffer is lost or *)
(* free twice, the task is deaf to a pipe only after an event of it was    *)
(* lost, or a packet refused, and packets are whole and in order, those    *)
(* that come in and those that go out.                                     *)
(*                                                                         *)
(* All rest on one transfer and one event of its end at a time: a transfer *)
(* begins at a pipe the task believes free, of which no event is left.     *)
(* For the pools: a buffer that is put back twice finds its pool full the  *)
(* second time, for at most one buffer of it is ever missing.  For the     *)
(* packets that come in: the task, of the lower priority, does nothing     *)
(* while one waits, so no transfer is on into its buffer.  For the packet  *)
(* that goes out: btstack has one, asks for it once, and gets it back only *)
(* when its last part is out.                                              *)
(***************************************************************************)
EXTENDS BtDongle, TLAPS

Events == [channel : Channels \cup {"sof"}, state : {"SOF", "DONE", "NOTREADY"}]

(* The queue holds an event of a pipe; it holds one at most.               *)
Told(q, p) == \E i \in DOMAIN q : q[i].channel = p
Says(q, ev) == \E i \in DOMAIN q : q[i] = ev
Once(q, p) == \A i, j \in DOMAIN q : q[i].channel = p /\ q[j].channel = p => i = j

(* A pool from which nothing, or the buffer b, is missing.                 *)
Different(q) == \A i, j \in DOMAIN q : i # j => q[i] # q[j]
Full(q) == Len(q) = BUFFQ_DEPTH
Lacks(q, b) == Len(q) + 1 = BUFFQ_DEPTH /\ \A i \in DOMAIN q : q[i] # b

LinkTypes ==
  /\ evmsgq \in Seq(Events)
  /\ dma_flag \subseteq Pipes
  /\ xfer \in [Pipes -> [on : BOOLEAN, size : Nat]]
  /\ offset \in [Pipes -> Nat]
  /\ buffq \in [Inputs -> Seq(Bufs)] /\ cur \in [Inputs -> Bufs]

(* One transfer of a pipe at a time, and one event of its end.             *)
OneTransfer(p) ==
  /\ xfer[p].on => p \in dma_flag /\ ~Told(evmsgq, p)
  /\ Told(evmsgq, p) => p \in dma_flag
  /\ Once(evmsgq, p)
  /\ p \in dma_flag => xfer[p].on \/ Told(evmsgq, p) \/ p \in untold

(* What the events of an end mean.                                         *)
EventsMean ==
  /\ ~Says(evmsgq, Ev("ev", "NOTREADY"))
  /\ Says(evmsgq, Ev("out", "NOTREADY")) => "out" \in untold
  /\ Says(evmsgq, Ev("acl", "DONE")) /\ "empty" \notin untold => xfer["acl"].size = 1

PoolInv(p) ==
  /\ Different(buffq[p])
  /\ offset[p] = 0 /\ p \in dma_flag => Lacks(buffq[p], cur[p])
  /\ offset[p] = 0 /\ p \notin dma_flag => Full(buffq[p])
  /\ Full(buffq[p]) \/ Lacks(buffq[p], cur[p])

(* The inductive invariant.                                                *)
LinkInv == LinkTypes /\ (\A p \in Pipes : OneTransfer(p)) /\ EventsMean
PoolsInv == \A p \in Inputs : (p = "acl" => "empty" \notin untold) => PoolInv(p)

----------------------------------------------------------------------------
(* The queue of events, and the pools.                                     *)

LEMMA AppendTells ==
  ASSUME NEW q \in Seq(Events), NEW ev \in Events
  PROVE  /\ Append(q, ev) \in Seq(Events)
         /\ \A p : Told(Append(q, ev), p) <=> Told(q, p) \/ ev.channel = p
         /\ \A e : Says(Append(q, ev), e) <=> Says(q, e) \/ ev = e
         /\ \A p : Once(q, p) /\ (ev.channel # p \/ ~Told(q, p)) => Once(Append(q, ev), p)
<1> DEFINE r == Append(q, ev)
<1>1. /\ r \in Seq(Events) /\ Len(q) \in Nat
      /\ DOMAIN q = 1 .. Len(q) /\ DOMAIN r = 1 .. Len(q) + 1
      /\ r[Len(q) + 1] = ev /\ \A i \in 1 .. Len(q) : r[i] = q[i]
  OBVIOUS
<1> HIDE DEF r
<1>2. \A p : Told(r, p) <=> Told(q, p) \/ ev.channel = p
  BY <1>1 DEF Told
<1>3. \A e : Says(r, e) <=> Says(q, e) \/ ev = e
  BY <1>1 DEF Says
<1>4. \A p : Once(q, p) /\ (ev.channel # p \/ ~Told(q, p)) => Once(r, p)
  BY <1>1 DEF Once, Told
<1>5. QED
  BY <1>1, <1>2, <1>3, <1>4 DEF r

LEMMA TailTells ==
  ASSUME NEW q \in Seq(Events), q # <<>>
  PROVE  /\ Tail(q) \in Seq(Events)
         /\ Told(q, Head(q).channel) /\ Says(q, Head(q))
         /\ \A p : Told(Tail(q), p) => Told(q, p)
         /\ \A p : Told(q, p) /\ Head(q).channel # p => Told(Tail(q), p)
         /\ \A e : Says(Tail(q), e) => Says(q, e)
         /\ \A p : Once(q, p) => Once(Tail(q), p)
         /\ \A p : Once(q, p) /\ Head(q).channel = p => ~Told(Tail(q), p)
<1> DEFINE t == Tail(q)
<1>1. /\ t \in Seq(Events) /\ Len(q) \in Nat \ {0} /\ Head(q) = q[1]
      /\ DOMAIN q = 1 .. Len(q) /\ DOMAIN t = 1 .. Len(q) - 1
      /\ \A i \in 1 .. Len(q) - 1 : t[i] = q[i + 1]
  OBVIOUS
<1> HIDE DEF t
<1>2. /\ 1 \in DOMAIN q
      /\ \A i \in DOMAIN t : i + 1 \in DOMAIN q /\ t[i] = q[i + 1] /\ i + 1 # 1
      /\ \A i \in DOMAIN q : i # 1 => i - 1 \in DOMAIN t /\ t[i - 1] = q[i]
  BY <1>1
<1>3. Told(q, q[1].channel) /\ Says(q, q[1])
  BY <1>2 DEF Told, Says
<1>4. \A p : Told(t, p) => Told(q, p)
  BY <1>2 DEF Told
<1>5. \A p : Told(q, p) /\ q[1].channel # p => Told(t, p)
  BY <1>2 DEF Told
<1>6. \A e : Says(t, e) => Says(q, e)
  BY <1>2 DEF Says
<1>7. \A p : Once(q, p) => Once(t, p)
  BY <1>1, <1>2 DEF Once
<1>8. \A p : Once(q, p) /\ q[1].channel = p => ~Told(t, p)
  BY <1>2 DEF Once, Told
<1>9. QED
  BY <1>1, <1>3, <1>4, <1>5, <1>6, <1>7, <1>8 DEF t

(* What the task has taken out of the queue is not in it any more.         *)
LEMMA TakeTells ==
  ASSUME LinkInv, NEW c \in Channels \cup {"sof"}, NEW st \in {"SOF", "DONE", "NOTREADY"},
         Take(c, st)
  PROVE  /\ evmsgq' \in Seq(Events)
         /\ Told(evmsgq, c) /\ Says(evmsgq, Ev(c, st))
         /\ \A p : Told(evmsgq', p) => Told(evmsgq, p)
         /\ \A p : Told(evmsgq, p) /\ c # p => Told(evmsgq', p)
         /\ \A e : Says(evmsgq', e) => Says(evmsgq, e)
         /\ \A p : Once(evmsgq, p) => Once(evmsgq', p)
         /\ Once(evmsgq, c) => ~Told(evmsgq', c)
<1>1. evmsgq \in Seq(Events) /\ evmsgq # <<>>
  BY DEF LinkInv, LinkTypes, Take
<1>2. Head(evmsgq) = Ev(c, st) /\ Ev(c, st).channel = c /\ evmsgq' = Tail(evmsgq)
  BY DEF Take, Ev
<1>3. QED
  BY <1>1, <1>2, TailTells

(* A buffer is put back: the one that is missing, or one too many.         *)
LEMMA PutBack ==
  ASSUME NEW q \in Seq(Bufs), NEW b \in Bufs, Different(q), Full(q) \/ Lacks(q, b)
  PROVE  PutBuffer(q, b) \in Seq(Bufs) /\ Different(PutBuffer(q, b)) /\ Full(PutBuffer(q, b))
<1>0. BUFFQ_DEPTH \in Nat
  BY BtAssumption
<1>1. CASE Full(q)
  BY <1>0, <1>1 DEF PutBuffer, Full
<1>2. CASE Lacks(q, b)
  <2> DEFINE r == Append(q, b)
  <2>1. PutBuffer(q, b) = r
    BY <1>0, <1>2 DEF PutBuffer, Lacks
  <2>2. /\ r \in Seq(Bufs) /\ Len(q) \in Nat /\ Len(r) = Len(q) + 1
        /\ DOMAIN q = 1 .. Len(q) /\ DOMAIN r = 1 .. Len(q) + 1
        /\ r[Len(q) + 1] = b /\ \A i \in 1 .. Len(q) : r[i] = q[i]
    OBVIOUS
  <2> HIDE DEF r
  <2>3. Full(r)
    BY <1>2, <2>2 DEF Full, Lacks
  <2>4. Different(r)
    BY <1>2, <2>2 DEF Different, Lacks
  <2>5. QED
    BY <2>1, <2>2, <2>3, <2>4
<1>3. QED
  BY <1>1, <1>2

LEMMA TakeBuffer ==
  ASSUME NEW q \in Seq(Bufs), Different(q), Full(q)
  PROVE  /\ q # <<>> /\ Head(q) \in Bufs /\ Tail(q) \in Seq(Bufs)
         /\ Different(Tail(q)) /\ Lacks(Tail(q), Head(q))
<1>1. Len(q) = BUFFQ_DEPTH /\ BUFFQ_DEPTH \in Nat \ {0} /\ q # <<>>
  BY BtAssumption DEF Full
<1> DEFINE t == Tail(q)
<1>2. /\ t \in Seq(Bufs) /\ Head(q) = q[1] /\ Head(q) \in Bufs /\ Len(t) = Len(q) - 1
      /\ DOMAIN q = 1 .. Len(q) /\ DOMAIN t = 1 .. Len(q) - 1
      /\ \A i \in 1 .. Len(q) - 1 : t[i] = q[i + 1]
  BY <1>1
<1> HIDE DEF t
<1>3. Different(t)
  <2>1. \A i, j \in DOMAIN t : i # j =>
          i + 1 \in DOMAIN q /\ j + 1 \in DOMAIN q /\ i + 1 # j + 1
    BY <1>1, <1>2
  <2>2. \A i \in DOMAIN t : t[i] = q[i + 1]
    BY <1>2
  <2>3. QED
    BY <2>1, <2>2 DEF Different
<1>4. Lacks(t, q[1])
  <2>1. \A i \in DOMAIN t : i + 1 \in DOMAIN q /\ 1 \in DOMAIN q /\ i + 1 # 1
    BY <1>1, <1>2
  <2>2. \A i \in DOMAIN t : t[i] # q[1]
    BY <1>2, <2>1 DEF Different
  <2>3. Len(t) + 1 = BUFFQ_DEPTH
    BY <1>1, <1>2
  <2>4. QED
    BY <2>2, <2>3 DEF Lacks
<1>5. QED
  BY <1>1, <1>2, <1>3, <1>4 DEF t

(* A pool is as it was when nothing that concerns it has changed.          *)
LEMMA PoolSame ==
  ASSUME NEW p, PoolInv(p), buffq'[p] = buffq[p], cur'[p] = cur[p],
         offset'[p] = offset[p], p \in dma_flag' <=> p \in dma_flag
  PROVE  PoolInv(p)'
BY DEF PoolInv

LEMMA PoolsUntouched ==
  PoolsInv /\ UNCHANGED <<buffq, cur, offset, dma_flag>> /\ untold \subseteq untold'
    => PoolsInv'
BY PoolSame DEF PoolsInv

----------------------------------------------------------------------------
LEMMA BtStarts == BtInit => LinkInv /\ PoolsInv
<1> SUFFICES ASSUME BtInit PROVE LinkInv /\ PoolsInv
  OBVIOUS
<1>1. evmsgq = <<>> /\ dma_flag = {} /\ xfer = [p \in Pipes |-> Off]
      /\ offset = [p \in Pipes |-> 0]
  BY DEF BtInit
<1>2. BUFFQ_DEPTH \in Nat \ {0}
  BY BtAssumption
<1>3. evmsgq \in Seq(Events) /\ DOMAIN evmsgq = {}
  BY <1>1
<1>4. buffq = [p \in Inputs |-> [b \in Bufs |-> b]] /\ cur = [p \in Inputs |-> 1]
  BY DEF BtInit
<1>5. [b \in Bufs |-> b] \in Seq(Bufs) /\ Len([b \in Bufs |-> b]) = BUFFQ_DEPTH
      /\ Different([b \in Bufs |-> b])
  BY <1>2 DEF Bufs, Different
<1>6. LinkTypes
  BY <1>1, <1>2, <1>3, <1>4, <1>5 DEF LinkTypes, Off, Bufs, Inputs, Pipes
<1>7. (\A p \in Pipes : OneTransfer(p)) /\ EventsMean
  BY <1>1, <1>3 DEF OneTransfer, EventsMean, Told, Says, Once, Off
<1>8. PoolsInv
  BY <1>1, <1>4, <1>5 DEF PoolsInv, PoolInv, Full, Inputs, Pipes
<1>9. QED
  BY <1>6, <1>7, <1>8 DEF LinkInv

----------------------------------------------------------------------------
(* The end of a transfer is told, or lost.                                 *)
LEMMA EndKeeps ==
  ASSUME LinkInv, PoolsInv, NEW p \in Pipes, NEW st \in {"DONE", "NOTREADY"},
         NEW n \in {0, 1},
         xfer[p].on, xfer' = [xfer EXCEPT ![p] = [on |-> FALSE, size |-> n]],
         \/ evmsgq' = Append(evmsgq, Ev(p, st))
         \/ evmsgq' = evmsgq /\ p \in untold',
         untold \subseteq untold', UNCHANGED <<dma_flag, offset, buffq, cur>>,
         p = "ev" => st = "DONE",
         p = "out" /\ st = "NOTREADY" => "out" \in untold',
         p = "acl" /\ st = "DONE" => n = 1 \/ "empty" \in untold'
  PROVE  LinkInv' /\ PoolsInv'
<1>1. evmsgq \in Seq(Events) /\ Ev(p, st) \in Events /\ Ev(p, st).channel = p
  BY DEF LinkInv, LinkTypes, Events, Ev, Channels
<1>2. ~Told(evmsgq, p) /\ p \in dma_flag
  BY DEF LinkInv, OneTransfer
<1>3. /\ evmsgq' \in Seq(Events)
      /\ \A q : q # p => (Told(evmsgq', q) <=> Told(evmsgq, q))
      /\ \A q : Once(evmsgq, q) => Once(evmsgq', q)
      /\ \A e : Says(evmsgq', e) => Says(evmsgq, e) \/ e = Ev(p, st)
      /\ Told(evmsgq', p) \/ p \in untold'
  <2>1. CASE evmsgq' = evmsgq /\ p \in untold'
    BY <1>1, <2>1
  <2>2. CASE evmsgq' = Append(evmsgq, Ev(p, st))
    <3> DEFINE q0 == evmsgq
               q1 == evmsgq'
               ev == Ev(p, st)
    <3>1. q0 \in Seq(Events) /\ ev \in Events /\ ev.channel = p /\ q1 = Append(q0, ev)
          /\ ~Told(q0, p)
      BY <1>1, <1>2, <2>2
    <3> HIDE DEF q0, q1, ev
    <3>2. /\ q1 \in Seq(Events)
          /\ \A q : Told(q1, q) <=> Told(q0, q) \/ p = q
          /\ \A e : Says(q1, e) <=> Says(q0, e) \/ ev = e
          /\ \A q : Once(q0, q) => Once(q1, q)
      BY <3>1, AppendTells
    <3>3. QED
      BY <3>2 DEF q0, q1, ev
  <2>3. QED
    BY <2>1, <2>2
<1>4. ~xfer'[p].on /\ xfer'[p].size = n /\ \A q \in Pipes : q # p => xfer'[q] = xfer[q]
  BY DEF LinkInv, LinkTypes
<1>5. LinkTypes'
  BY <1>3 DEF LinkInv, LinkTypes
<1>6. ASSUME NEW q \in Pipes PROVE OneTransfer(q)'
  <2>1. OneTransfer(q)
    BY DEF LinkInv
  <2>2. CASE q = p
    BY <1>2, <1>3, <1>4, <2>1, <2>2 DEF OneTransfer
  <2>3. CASE q # p
    BY <1>3, <1>4, <2>1, <2>3 DEF OneTransfer
  <2>4. QED
    BY <2>2, <2>3
<1>7. EventsMean'
  <2>1. EventsMean
    BY DEF LinkInv
  <2>2. ~Says(evmsgq', Ev("ev", "NOTREADY"))
    BY <1>3, <2>1 DEF EventsMean, Ev
  <2>3. Says(evmsgq', Ev("out", "NOTREADY")) => "out" \in untold'
    BY <1>3, <2>1 DEF EventsMean, Ev
  <2>4. Says(evmsgq', Ev("acl", "DONE")) /\ "empty" \notin untold' => xfer'["acl"].size = 1
    <3>1. CASE p = "acl"
      <4>1. ~Says(evmsgq, Ev("acl", "DONE"))
        BY <1>2, <3>1 DEF Says, Told, Ev
      <4>2. QED
        BY <1>3, <1>4, <3>1, <4>1 DEF Ev
    <3>2. CASE p # "acl"
      BY <1>3, <1>4, <2>1, <3>2 DEF EventsMean, Ev, Pipes, Inputs
    <3>3. QED
      BY <3>1, <3>2
  <2>5. QED
    BY <2>2, <2>3, <2>4 DEF EventsMean
<1>8. PoolsInv'
  BY PoolsUntouched
<1>9. QED
  BY <1>5, <1>6, <1>7, <1>8 DEF LinkInv

(* Events that are not about one of the pipes.                             *)
LEMMA OthersKeep ==
  ASSUME LinkInv, PoolsInv, NEW c \in {"ctl", "sof"}, NEW st \in {"SOF", "DONE"},
         evmsgq' \in {evmsgq, Append(evmsgq, Ev(c, st))},
         untold \subseteq untold', UNCHANGED <<dma_flag, offset, buffq, cur, xfer>>
  PROVE  LinkInv' /\ PoolsInv'
<1>1. evmsgq \in Seq(Events) /\ Ev(c, st) \in Events /\ Ev(c, st).channel = c
      /\ c \notin Pipes
  BY DEF LinkInv, LinkTypes, Events, Ev, Channels, Pipes, Inputs
<1>2. /\ evmsgq' \in Seq(Events)
      /\ \A q \in Pipes : Told(evmsgq', q) <=> Told(evmsgq, q)
      /\ \A q \in Pipes : Once(evmsgq, q) => Once(evmsgq', q)
      /\ \A e : Says(evmsgq', e) => Says(evmsgq, e) \/ e = Ev(c, st)
  <2>1. CASE evmsgq' = evmsgq
    BY <1>1, <2>1
  <2>2. CASE evmsgq' = Append(evmsgq, Ev(c, st))
    <3> DEFINE q0 == evmsgq
               q1 == evmsgq'
               ev == Ev(c, st)
    <3>1. q0 \in Seq(Events) /\ ev \in Events /\ ev.channel = c /\ c \notin Pipes
          /\ q1 = Append(q0, ev)
      BY <1>1, <2>2
    <3> HIDE DEF q0, q1, ev
    <3>2. /\ q1 \in Seq(Events)
          /\ \A q : Told(q1, q) <=> Told(q0, q) \/ c = q
          /\ \A e : Says(q1, e) <=> Says(q0, e) \/ ev = e
          /\ \A q : Once(q0, q) /\ q # c => Once(q1, q)
      BY <3>1, AppendTells
    <3>3. QED
      BY <1>1, <3>2 DEF q0, q1, ev
  <2>3. QED
    BY <2>1, <2>2
<1>3. LinkTypes'
  BY <1>2 DEF LinkInv, LinkTypes
<1>4. \A q \in Pipes : OneTransfer(q)'
  BY <1>2 DEF LinkInv, OneTransfer
<1>5. EventsMean'
  BY <1>2 DEF LinkInv, EventsMean, Ev
<1>6. QED
  BY <1>3, <1>4, <1>5, PoolsUntouched DEF LinkInv

LEMMA InterruptKeeps ==
  ASSUME LinkInv, PoolsInv,
         Sof \/ (\E p \in Inputs : InputEnds(p)) \/ AclEmpty \/ OutDone \/ OutRefused \/ CtlStage
  PROVE  LinkInv' /\ PoolsInv'
<1>1. CASE Sof
  BY <1>1, OthersKeep DEF Sof, SOF, UnchangedByUsb, taskVars, wireVars
<1>2. ASSUME NEW p \in Inputs, Receive(p) PROVE LinkInv' /\ PoolsInv'
  BY <1>2, EndKeeps DEF Receive, Notify, UnchangedByUsb, taskVars, Pipes, Inputs
<1>3. CASE NothingThere("ev", "DONE") \/ NothingThere("acl", "NOTREADY")
  BY <1>3, EndKeeps DEF NothingThere, Notify, Off, UnchangedByUsb, taskVars, Pipes, Inputs
<1>4. CASE AclEmpty
  BY <1>4, EndKeeps DEF AclEmpty, Off, UnchangedByUsb, taskVars, Pipes, Inputs
<1>5. CASE OutDone
  BY <1>5, EndKeeps DEF OutDone, Notify, Off, UnchangedByUsb, taskVars, Pipes, Inputs
<1>6. CASE OutRefused
  BY <1>6, EndKeeps DEF OutRefused, Off, UnchangedByUsb, taskVars, Pipes, Inputs
<1>7. CASE CtlStage
  BY <1>7, OthersKeep DEF CtlStage, Notify, UnchangedByUsb, taskVars
<1>8. ASSUME NEW p \in Inputs, InputEnds(p) PROVE LinkInv' /\ PoolsInv'
  <2>1. CASE Receive(p)
    BY <1>2, <2>1
  <2>2. CASE (p = "ev" /\ NothingThere(p, "DONE")) \/ (p = "acl" /\ NothingThere(p, "NOTREADY"))
    BY <1>3, <2>2
  <2>3. QED
    BY <1>8, <2>1, <2>2 DEF InputEnds
<1>9. QED
  BY <1>1, <1>4, <1>5, <1>6, <1>7, <1>8

----------------------------------------------------------------------------
(* Start of frame: transfers begin at pipes that are free.                 *)
LEMMA SofKeeps == LinkInv /\ PoolsInv /\ HandleSof => LinkInv' /\ PoolsInv'
<1> SUFFICES ASSUME LinkInv, PoolsInv, HandleSof PROVE LinkInv' /\ PoolsInv'
  OBVIOUS
<1>1. PICK begun, on :
        /\ begun = (IF dma_flag = {} THEN Started ELSE {})
        /\ on = begun \cup (IF MoreToSend(begun) THEN {"out"} ELSE {})
        /\ dma_flag' = dma_flag \cup on
        /\ xfer' = [p \in Pipes |-> IF p \in on THEN On ELSE xfer[p]]
        /\ cur' = [p \in Inputs |-> IF p \in begun THEN BufferFor(p) ELSE cur[p]]
        /\ buffq' = [p \in Inputs |-> IF p \in begun /\ offset[p] = 0
                                      THEN Tail(buffq[p]) ELSE buffq[p]]
  BY DEF HandleSof
<1>2. Take("sof", "SOF") /\ UNCHANGED <<offset, untold>>
  BY DEF HandleSof
<1>3. /\ evmsgq' \in Seq(Events)
      /\ \A q \in Pipes : Told(evmsgq', q) <=> Told(evmsgq, q)
      /\ \A q \in Pipes : Once(evmsgq, q) => Once(evmsgq', q)
      /\ \A e : Says(evmsgq', e) => Says(evmsgq, e)
  BY <1>2, TakeTells DEF Pipes, Inputs
<1>4. /\ begun \subseteq Inputs /\ on \subseteq Pipes
      /\ \A p \in on : p \notin dma_flag
      /\ \A p \in Inputs : p \in on <=> p \in begun
      /\ begun # {} => dma_flag = {}
  BY <1>1 DEF Started, MoreToSend, Pipes, Inputs
<1>5. \A p \in begun : BufferFor(p) = (IF offset[p] = 0 THEN Head(buffq[p]) ELSE cur[p])
  BY <1>1 DEF BufferFor
<1>6. \A p \in begun : offset[p] = 0 => buffq[p] # <<>>
  BY <1>1, <1>4 DEF Started, LinkInv, LinkTypes, Pipes, Inputs
<1>7. LinkTypes'
  <2>1. xfer' \in [Pipes -> [on : BOOLEAN, size : Nat]]
    BY <1>1 DEF LinkInv, LinkTypes, On
  <2>2. ASSUME NEW p \in Inputs PROVE cur'[p] \in Bufs /\ buffq'[p] \in Seq(Bufs)
    <3>1. buffq[p] \in Seq(Bufs) /\ cur[p] \in Bufs
      BY DEF LinkInv, LinkTypes
    <3>2. CASE p \in begun /\ offset[p] = 0
      <4>1. cur'[p] = Head(buffq[p]) /\ buffq'[p] = Tail(buffq[p]) /\ buffq[p] # <<>>
        BY <1>1, <1>5, <1>6, <3>2
      <4>2. QED
        BY <3>1, <4>1
    <3>3. CASE ~(p \in begun /\ offset[p] = 0)
      BY <1>1, <1>5, <3>1, <3>3
    <3>4. QED
      BY <3>2, <3>3
  <2>3. cur' \in [Inputs -> Bufs] /\ buffq' \in [Inputs -> Seq(Bufs)]
    BY <1>1, <2>2
  <2>4. QED
    BY <1>1, <1>2, <1>3, <1>4, <2>1, <2>3 DEF LinkInv, LinkTypes
<1>8. ASSUME NEW p \in Pipes PROVE OneTransfer(p)'
  <2>1. OneTransfer(p)
    BY DEF LinkInv
  <2>2. CASE p \in on
    BY <1>1, <1>2, <1>3, <1>4, <2>1, <2>2 DEF OneTransfer, On
  <2>3. CASE p \notin on
    BY <1>1, <1>2, <1>3, <1>4, <2>1, <2>3 DEF OneTransfer
  <2>4. QED
    BY <2>2, <2>3
<1>9. EventsMean'
  <2>1. EventsMean /\ OneTransfer("acl")
    BY DEF LinkInv, Pipes, Inputs
  <2>2. Says(evmsgq, Ev("acl", "DONE")) => Told(evmsgq, "acl")
    BY DEF Says, Told, Ev
  <2>3. Says(evmsgq, Ev("acl", "DONE")) => xfer'["acl"] = xfer["acl"]
    BY <1>1, <1>4, <2>1, <2>2 DEF OneTransfer, Pipes, Inputs
  <2>4. QED
    BY <1>2, <1>3, <2>1, <2>3 DEF EventsMean
<1>10. PoolsInv'
  <2> SUFFICES ASSUME NEW p \in Inputs, p = "acl" => "empty" \notin untold
               PROVE  PoolInv(p)'
    BY <1>2 DEF PoolsInv
  <2>1. PoolInv(p)
    BY DEF PoolsInv
  <2>2. CASE p \in begun /\ offset[p] = 0
    <3>1. buffq[p] \in Seq(Bufs) /\ Different(buffq[p]) /\ Full(buffq[p])
      BY <1>4, <2>1, <2>2 DEF PoolInv, LinkInv, LinkTypes
    <3>2. cur'[p] = Head(buffq[p]) /\ buffq'[p] = Tail(buffq[p])
      BY <1>1, <1>5, <2>2
    <3>3. Different(buffq'[p]) /\ Lacks(buffq'[p], cur'[p])
      BY <3>1, <3>2, TakeBuffer
    <3>4. p \in dma_flag' /\ offset'[p] = 0
      BY <1>1, <1>2, <1>4, <2>2
    <3>5. QED
      BY <3>3, <3>4 DEF PoolInv
  <2>3. CASE p \in begun /\ offset[p] # 0
    <3>1. cur'[p] = cur[p] /\ buffq'[p] = buffq[p] /\ offset'[p] = offset[p]
      BY <1>1, <1>2, <1>5, <2>3
    <3>2. QED
      BY <2>1, <2>3, <3>1 DEF PoolInv
  <2>4. CASE p \notin begun
    <3>1. cur'[p] = cur[p] /\ buffq'[p] = buffq[p] /\ offset'[p] = offset[p]
          /\ (p \in dma_flag' <=> p \in dma_flag)
      BY <1>1, <1>2, <1>4, <2>4
    <3>2. QED
      BY <2>1, <3>1, PoolSame
  <2>5. QED
    BY <2>2, <2>3, <2>4
<1>11. QED
  BY <1>7, <1>8, <1>9, <1>10 DEF LinkInv

----------------------------------------------------------------------------
(* The task has handled the end of a transfer of p, which is now free.     *)
LEMMA HandledKeeps ==
  ASSUME LinkInv, NEW p \in Pipes, NEW st \in {"DONE", "NOTREADY"}, Take(p, st),
         dma_flag' = dma_flag \ {p},
         NEW x, x \in [on : BOOLEAN, size : Nat],
         xfer' = [xfer EXCEPT ![p] = x], x = xfer[p] \/ x = Off,
         UNCHANGED untold, LinkTypes'
  PROVE  LinkInv'
<1>1. OneTransfer(p) /\ EventsMean
  BY DEF LinkInv
<1>2. /\ Told(evmsgq, p)
      /\ \A q : Told(evmsgq', q) => Told(evmsgq, q)
      /\ \A q : Told(evmsgq, q) /\ p # q => Told(evmsgq', q)
      /\ \A e : Says(evmsgq', e) => Says(evmsgq, e)
      /\ \A q : Once(evmsgq, q) => Once(evmsgq', q)
      /\ Once(evmsgq, p) => ~Told(evmsgq', p)
  BY TakeTells DEF Channels
<1>3. xfer'[p] = x /\ ~x.on /\ \A q \in Pipes : q # p => xfer'[q] = xfer[q]
  BY <1>1, <1>2 DEF LinkInv, LinkTypes, OneTransfer, Off
<1>4. ASSUME NEW q \in Pipes PROVE OneTransfer(q)'
  <2>1. OneTransfer(q)
    BY DEF LinkInv
  <2>2. CASE q = p
    BY <1>1, <1>2, <1>3, <2>2 DEF OneTransfer
  <2>3. CASE q # p
    BY <1>2, <1>3, <2>1, <2>3 DEF OneTransfer
  <2>4. QED
    BY <2>2, <2>3
<1>5. EventsMean'
  <2>1. Says(evmsgq', Ev("acl", "DONE")) => Told(evmsgq', "acl")
    BY DEF Says, Told, Ev
  <2>2. Says(evmsgq', Ev("acl", "DONE")) => xfer'["acl"] = xfer["acl"]
    BY <1>1, <1>2, <1>3, <2>1 DEF OneTransfer, Pipes, Inputs
  <2>3. QED
    BY <1>1, <1>2, <2>2 DEF EventsMean
<1>6. QED
  BY <1>4, <1>5 DEF LinkInv

(* The buffer goes back: the pool is full.                                 *)
LEMMA PutBackKeeps ==
  ASSUME LinkInv, NEW p \in Inputs, PoolInv(p),
         buffq' = [buffq EXCEPT ![p] = PutBuffer(@, cur[p])], p \notin dma_flag'
  PROVE  buffq' \in [Inputs -> Seq(Bufs)] /\ PoolInv(p)'
         /\ \A q \in Inputs : q # p => buffq'[q] = buffq[q]
<1>1. buffq[p] \in Seq(Bufs) /\ cur[p] \in Bufs
  BY DEF LinkInv, LinkTypes
<1>2. Different(buffq[p]) /\ (Full(buffq[p]) \/ Lacks(buffq[p], cur[p]))
  BY DEF PoolInv
<1> DEFINE b == PutBuffer(buffq[p], cur[p])
<1>3. b \in Seq(Bufs) /\ Different(b) /\ Full(b)
  BY <1>1, <1>2, PutBack
<1> HIDE DEF b
<1>4. buffq' = [buffq EXCEPT ![p] = b] /\ buffq \in [Inputs -> Seq(Bufs)]
  BY DEF b, LinkInv, LinkTypes
<1>5. buffq' \in [Inputs -> Seq(Bufs)] /\ buffq'[p] = b
      /\ \A q \in Inputs : q # p => buffq'[q] = buffq[q]
  BY <1>3, <1>4
<1>6. QED
  BY <1>3, <1>5 DEF PoolInv

LEMMA NotReadyKeeps == LinkInv /\ PoolsInv /\ HandleNotReady => LinkInv' /\ PoolsInv'
<1> SUFFICES ASSUME LinkInv, PoolsInv, HandleNotReady PROVE LinkInv' /\ PoolsInv'
  OBVIOUS
<1>1. PICK p \in Pipes :
        /\ Take(p, "NOTREADY")
        /\ IF Freed(p)
           THEN /\ dma_flag' = dma_flag \ {p}
                /\ buffq' = [buffq EXCEPT ![p] = PutBuffer(@, cur[p])]
           ELSE UNCHANGED <<dma_flag, buffq>>
  BY DEF HandleNotReady
<1>2. UNCHANGED <<cur, offset, xfer, untold>>
  BY DEF HandleNotReady, wireVars
<1>3. /\ evmsgq' \in Seq(Events)
      /\ Told(evmsgq, p) /\ Says(evmsgq, Ev(p, "NOTREADY"))
      /\ \A q : Told(evmsgq', q) => Told(evmsgq, q)
      /\ \A q : Told(evmsgq, q) /\ p # q => Told(evmsgq', q)
      /\ \A e : Says(evmsgq', e) => Says(evmsgq, e)
      /\ \A q : Once(evmsgq, q) => Once(evmsgq', q)
      /\ Once(evmsgq, p) => ~Told(evmsgq', p)
  BY <1>1, TakeTells DEF Channels
<1>4. CASE p = "acl"
  <2>1. /\ dma_flag' = dma_flag \ {"acl"}
        /\ buffq' = [buffq EXCEPT !["acl"] = PutBuffer(@, cur["acl"])]
    BY <1>1, <1>4 DEF Freed
  <2>2. buffq' \in [Inputs -> Seq(Bufs)] /\ PoolsInv'
    <3>1. CASE "empty" \in untold
      <4>1. buffq' \in [Inputs -> Seq(Bufs)]
        BY <2>1 DEF PutBuffer, LinkInv, LinkTypes, Inputs
      <4>2. buffq'["ev"] = buffq["ev"] /\ ("ev" \in dma_flag' <=> "ev" \in dma_flag)
        BY <2>1 DEF LinkInv, LinkTypes, Inputs
      <4>3. QED
        BY <1>2, <3>1, <4>1, <4>2, PoolSame DEF PoolsInv, Inputs
    <3>2. CASE "empty" \notin untold
      <4>1. PoolInv("acl") /\ PoolInv("ev")
        BY <3>2 DEF PoolsInv, Inputs
      <4>2. buffq' \in [Inputs -> Seq(Bufs)] /\ PoolInv("acl")' /\ buffq'["ev"] = buffq["ev"]
        BY <2>1, <4>1, PutBackKeeps DEF Inputs
      <4>3. PoolInv("ev")'
        BY <1>2, <2>1, <4>1, <4>2, PoolSame
      <4>4. QED
        BY <4>2, <4>3 DEF PoolsInv, Inputs
    <3>3. QED
      BY <3>1, <3>2
  <2>3. LinkTypes'
    BY <1>2, <1>3, <2>1, <2>2 DEF LinkInv, LinkTypes
  <2>4. xfer["acl"] \in [on : BOOLEAN, size : Nat] /\ xfer' = [xfer EXCEPT !["acl"] = xfer["acl"]]
    BY <1>2 DEF LinkInv, LinkTypes, Pipes, Inputs
  <2>5. LinkInv'
    BY <1>1, <1>2, <1>4, <2>1, <2>3, <2>4, HandledKeeps
  <2>6. QED
    BY <2>2, <2>5
<1>5. CASE p # "acl"
  <2>1. UNCHANGED <<dma_flag, buffq>>
    BY <1>1, <1>5 DEF Freed
  <2>2. p = "out" /\ "out" \in untold
    BY <1>3, <1>5 DEF LinkInv, EventsMean, Pipes, Inputs
  <2>3. LinkTypes'
    BY <1>2, <1>3, <2>1 DEF LinkInv, LinkTypes
  <2>4. \A q \in Pipes : OneTransfer(q)'
    BY <1>2, <1>3, <2>1, <2>2 DEF LinkInv, OneTransfer
  <2>5. EventsMean'
    BY <1>2, <1>3 DEF LinkInv, EventsMean
  <2>6. PoolsInv'
    BY <1>2, <2>1, PoolsUntouched
  <2>7. QED
    BY <2>3, <2>4, <2>5, <2>6 DEF LinkInv
<1>6. QED
  BY <1>4, <1>5

LEMMA EvDoneKeeps == LinkInv /\ PoolsInv /\ HandleEvDone => LinkInv' /\ PoolsInv'
<1> SUFFICES ASSUME LinkInv, PoolsInv, HandleEvDone PROVE LinkInv' /\ PoolsInv'
  OBVIOUS
<1>1. /\ Take("ev", "DONE") /\ xfer' = [xfer EXCEPT !["ev"] = Off]
      /\ dma_flag' = dma_flag \ {"ev"}
      /\ buffq' = [buffq EXCEPT !["ev"] = PutBuffer(@, cur["ev"])]
      /\ UNCHANGED <<cur, untold>>
  BY DEF HandleEvDone, ReadSize
<1>2. PICK n : offset' = [offset EXCEPT !["ev"] = n] /\ n \in {offset["ev"], 0, offset["ev"] + 1}
  BY DEF HandleEvDone
<1>3. n \in Nat
  BY <1>2 DEF LinkInv, LinkTypes, Pipes, Inputs
<1>4. PoolInv("ev")
  BY DEF PoolsInv, Inputs
<1>5. /\ buffq' \in [Inputs -> Seq(Bufs)] /\ PoolInv("ev")' /\ buffq'["acl"] = buffq["acl"]
  BY <1>1, <1>4, PutBackKeeps DEF Inputs
<1>6. offset' \in [Pipes -> Nat] /\ offset'["acl"] = offset["acl"]
      /\ ("acl" \in dma_flag' <=> "acl" \in dma_flag)
  BY <1>1, <1>2, <1>3 DEF LinkInv, LinkTypes, Pipes, Inputs
<1>7. PoolsInv'
  BY <1>1, <1>5, <1>6, PoolSame DEF PoolsInv, Inputs
<1>8. Off \in [on : BOOLEAN, size : Nat] /\ evmsgq' \in Seq(Events)
  BY <1>1, TakeTells DEF Off, Channels, Pipes, Inputs
<1>9. LinkTypes'
  BY <1>1, <1>5, <1>6, <1>8 DEF LinkInv, LinkTypes
<1>10. LinkInv'
  BY <1>1, <1>8, <1>9, HandledKeeps DEF Pipes, Inputs
<1>11. QED
  BY <1>7, <1>10

LEMMA AclDoneKeeps == LinkInv /\ PoolsInv /\ HandleAclDone => LinkInv' /\ PoolsInv'
<1> SUFFICES ASSUME LinkInv, PoolsInv, HandleAclDone PROVE LinkInv' /\ PoolsInv'
  OBVIOUS
<1>1. /\ Take("acl", "DONE") /\ xfer' = [xfer EXCEPT !["acl"] = Off]
      /\ dma_flag' = dma_flag \ {"acl"}
      /\ UNCHANGED <<cur, untold>>
  BY DEF HandleAclDone, ReadSize
<1>2. PICK got \in BOOLEAN :
        /\ got = (xfer["acl"].size = 1 /\ "acl" \in dma_flag)
        /\ \/ /\ buffq' = [buffq EXCEPT !["acl"] = PutBuffer(@, cur["acl"])]
              /\ offset' = [offset EXCEPT !["acl"] = 0]
           \/ /\ buffq' = buffq
              /\ offset' = [offset EXCEPT !["acl"] = IF got THEN @ + 1 ELSE @]
  BY DEF HandleAclDone
<1>3. Told(evmsgq, "acl") /\ Says(evmsgq, Ev("acl", "DONE")) /\ evmsgq' \in Seq(Events)
  BY <1>1, TakeTells DEF Channels, Pipes, Inputs
<1>4. "empty" \notin untold => got
  BY <1>2, <1>3 DEF LinkInv, OneTransfer, EventsMean, Pipes, Inputs
<1>5. /\ offset' \in [Pipes -> Nat] /\ offset'["ev"] = offset["ev"]
      /\ ("ev" \in dma_flag' <=> "ev" \in dma_flag)
  BY <1>1, <1>2 DEF LinkInv, LinkTypes, Pipes, Inputs
<1>6. buffq' \in [Inputs -> Seq(Bufs)] /\ buffq'["ev"] = buffq["ev"]
  <2>1. buffq \in [Inputs -> Seq(Bufs)] /\ buffq["acl"] \in Seq(Bufs) /\ cur["acl"] \in Bufs
    BY DEF LinkInv, LinkTypes, Inputs
  <2>2. PutBuffer(buffq["acl"], cur["acl"]) \in Seq(Bufs)
    BY <2>1 DEF PutBuffer
  <2>3. QED
    BY <1>2, <2>1, <2>2 DEF Inputs
<1>7. ASSUME "empty" \notin untold PROVE PoolInv("acl")'
  <2>1. PoolInv("acl") /\ got
    BY <1>4, <1>7 DEF PoolsInv, Inputs
  <2>2. CASE /\ buffq' = [buffq EXCEPT !["acl"] = PutBuffer(@, cur["acl"])]
             /\ offset' = [offset EXCEPT !["acl"] = 0]
    BY <1>1, <2>1, <2>2, PutBackKeeps DEF Inputs
  <2>3. CASE buffq' = buffq /\ offset' = [offset EXCEPT !["acl"] = @ + 1]
    <3>1. offset["acl"] \in Nat /\ offset'["acl"] = offset["acl"] + 1
      BY <2>3 DEF LinkInv, LinkTypes, Pipes, Inputs
    <3>2. offset'["acl"] # 0
      BY <3>1
    <3>3. QED
      BY <1>1, <2>1, <2>3, <3>2 DEF PoolInv
  <2>4. QED
    BY <1>2, <2>1, <2>2, <2>3
<1>8. PoolsInv'
  BY <1>1, <1>5, <1>6, <1>7, PoolSame DEF PoolsInv, Inputs
<1>9. Off \in [on : BOOLEAN, size : Nat]
  BY DEF Off
<1>10. LinkTypes'
  BY <1>1, <1>3, <1>5, <1>6, <1>9 DEF LinkInv, LinkTypes
<1>11. LinkInv'
  BY <1>1, <1>9, <1>10, HandledKeeps DEF Pipes, Inputs
<1>12. QED
  BY <1>8, <1>11

LEMMA OutDoneKeeps == LinkInv /\ PoolsInv /\ HandleOutDone => LinkInv' /\ PoolsInv'
<1> SUFFICES ASSUME LinkInv, PoolsInv, HandleOutDone PROVE LinkInv' /\ PoolsInv'
  OBVIOUS
<1>1. /\ Take("out", "DONE") /\ UNCHANGED <<xfer, untold, buffq, cur>>
      /\ dma_flag' = dma_flag \ {"out"}
  BY DEF HandleOutDone, wireVars
<1>2. PICK n : offset' = [offset EXCEPT !["out"] = n] /\ n \in {0, offset["out"] + 1}
  BY DEF HandleOutDone
<1>3. offset' \in [Pipes -> Nat] /\ \A p \in Inputs : offset'[p] = offset[p]
  BY <1>2 DEF LinkInv, LinkTypes, Pipes, Inputs
<1>4. evmsgq' \in Seq(Events)
  BY <1>1, TakeTells DEF Channels, Pipes, Inputs
<1>5. LinkTypes'
  BY <1>1, <1>3, <1>4 DEF LinkInv, LinkTypes
<1>6. xfer["out"] \in [on : BOOLEAN, size : Nat] /\ xfer' = [xfer EXCEPT !["out"] = xfer["out"]]
  BY <1>1 DEF LinkInv, LinkTypes, Pipes
<1>7. LinkInv'
  BY <1>1, <1>5, <1>6, HandledKeeps DEF Pipes
<1>8. \A p \in Inputs : p \in dma_flag' <=> p \in dma_flag
  BY <1>1 DEF Inputs
<1>9. PoolsInv'
  BY <1>1, <1>3, <1>8, PoolSame DEF PoolsInv
<1>10. QED
  BY <1>7, <1>9

LEMMA CtlDoneKeeps == LinkInv /\ PoolsInv /\ HandleCtlDone => LinkInv' /\ PoolsInv'
<1> SUFFICES ASSUME LinkInv, PoolsInv, HandleCtlDone PROVE LinkInv' /\ PoolsInv'
  OBVIOUS
<1>1. Take("ctl", "DONE") /\ UNCHANGED <<xfer, untold, buffq, cur, offset, dma_flag>>
  BY DEF HandleCtlDone, wireVars
<1>2. /\ evmsgq' \in Seq(Events)
      /\ \A q \in Pipes : Told(evmsgq', q) <=> Told(evmsgq, q)
      /\ \A q \in Pipes : Once(evmsgq, q) => Once(evmsgq', q)
      /\ \A e : Says(evmsgq', e) => Says(evmsgq, e)
  BY <1>1, TakeTells DEF Channels, Pipes, Inputs
<1>3. LinkTypes' /\ (\A q \in Pipes : OneTransfer(q)')
  BY <1>1, <1>2 DEF LinkInv, LinkTypes, OneTransfer
<1>4. EventsMean'
  BY <1>1, <1>2 DEF LinkInv, EventsMean
<1>5. QED
  BY <1>1, <1>3, <1>4, PoolsUntouched DEF LinkInv

(* A packet begins to go out, at a pipe that is free.                      *)
LEMMA SendAclKeeps ==
  ASSUME LinkInv, PoolsInv, NEW flags, NEW left, SendAclIn(flags, left)
  PROVE  LinkInv' /\ PoolsInv'
<1>1. UNCHANGED <<evmsgq, buffq, cur, untold>>
  BY DEF SendAclIn
<1>2. CASE UNCHANGED <<offset, dma_flag, xfer>>
  BY <1>1, <1>2, PoolsUntouched DEF LinkInv, LinkTypes, OneTransfer, EventsMean
<1>3. CASE /\ "out" \notin dma_flag
           /\ offset' = [offset EXCEPT !["out"] = 0]
           /\ dma_flag' = dma_flag \cup {"out"}
           /\ xfer' = [xfer EXCEPT !["out"] = On]
  <2>1. LinkTypes'
    BY <1>1, <1>3 DEF LinkInv, LinkTypes, On, Pipes
  <2>2. xfer'["out"].on /\ \A q \in Pipes : q # "out" => xfer'[q] = xfer[q]
    BY <1>3 DEF LinkInv, LinkTypes, On, Pipes
  <2>3. ASSUME NEW q \in Pipes PROVE OneTransfer(q)'
    BY <1>1, <1>3, <2>2 DEF LinkInv, OneTransfer
  <2>4. EventsMean'
    BY <1>1, <2>2 DEF LinkInv, EventsMean, Pipes, Inputs
  <2>5. \A p \in Inputs : offset'[p] = offset[p] /\ (p \in dma_flag' <=> p \in dma_flag)
    BY <1>3 DEF LinkInv, LinkTypes, Pipes, Inputs
  <2>6. PoolsInv'
    BY <1>1, <2>5, PoolSame DEF PoolsInv
  <2>7. QED
    BY <2>1, <2>3, <2>4, <2>6 DEF LinkInv
<1>4. QED
  BY <1>2, <1>3 DEF SendAclIn

LEMMA RestKeeps ==
  LinkInv /\ PoolsInv
    /\ UNCHANGED <<evmsgq, buffq, cur, untold, offset, dma_flag, xfer>>
  => LinkInv' /\ PoolsInv'
BY PoolsUntouched DEF LinkInv, LinkTypes, OneTransfer, EventsMean

LEMMA BtStep == LinkInv /\ PoolsInv /\ [Next]_vars => LinkInv' /\ PoolsInv'
<1> SUFFICES ASSUME LinkInv, PoolsInv, [Next]_vars PROVE LinkInv' /\ PoolsInv'
  OBVIOUS
<1>1. CASE Sof \/ (\E p \in Inputs : InputEnds(p)) \/ AclEmpty \/ OutDone \/ OutRefused \/ CtlStage
  BY <1>1, InterruptKeeps
<1>2. CASE HandleSof \/ HandleNotReady \/ HandleEvDone \/ HandleAclDone \/ HandleOutDone
           \/ HandleCtlDone
  BY <1>2, SofKeeps, NotReadyKeeps, EvDoneKeeps, AclDoneKeeps, OutDoneKeeps, CtlDoneKeeps
<1>3. CASE CmdOver \/ SendAcl
  BY <1>3, SendAclKeeps DEF CmdOver, SendAcl
<1>4. CASE SendNow \/ SendCmd \/ Deliver \/ (\E kind, len : Send(kind, len)) \/ UNCHANGED vars
  <2>1. UNCHANGED <<evmsgq, buffq, cur, untold, offset, dma_flag, xfer>>
    BY <1>4 DEF SendNow, SendCmd, Deliver, Send, vars, taskVars, wireVars
  <2>2. QED
    BY <2>1, RestKeeps
<1>5. QED
  BY <1>1, <1>2, <1>3, <1>4 DEF Next, Dongle

----------------------------------------------------------------------------
(* Though buffers are put back more often than they are taken (the task's  *)
(* handling of the ends of transfers), none is free twice, and all are     *)
(* free when no packet is being received, but after an empty ACL transfer. *)
THEOREM PoolsNeverCorrupt == BtSpec => []PoolSound
<1>1. PoolsInv => PoolSound
  BY DEF PoolsInv, PoolInv, PoolSound, Different, Full
<1>2. QED
  BY <1>1, BtStarts, BtStep, PTL DEF BtSpec

(* The task believes a pipe busy only while a transfer is on or its end is *)
(* to come, or for ever when that event was lost (URBChangeCallback,       *)
(* StartBTDongleTask).                                                     *)
THEOREM DeafOnlyIfLost == BtSpec => []ListensUnlessLost
<1>1. LinkInv => ListensUnlessLost
  BY DEF LinkInv, LinkTypes, OneTransfer, ListensUnlessLost, Told
<1>2. QED
  BY <1>1, BtStarts, BtStep, PTL DEF BtSpec

----------------------------------------------------------------------------
(* Packets that come in.  One waits for btstack, at most; it is whole, and *)
(* what is received goes into a buffer from its first part on, while no    *)
(* packet of the pipe waits.                                               *)

HciPackets == [type : Inputs \cup {"psent"}, buffer : Nat, size : Nat]
Waits(p) == hcievq # <<>> /\ Head(hcievq).type = p
OneWaits == hcievq # <<>> => hcievq = <<Head(hcievq)>> /\ Head(hcievq) \in HciPackets

PacketTypes ==
  /\ OneWaits
  /\ delivered \in [Inputs -> Nat]
  /\ source \in [Inputs -> [id : Nat, k : Nat, len : 0 .. MaxParts]]
  /\ mem \in [Inputs -> [Bufs -> [1 .. MaxParts -> [id : Nat, k : Nat, len : Nat]]]]

(* The buffer b holds the first n parts of the packet being received.      *)
Intact(p, b, n) == \A k \in 1 .. n : mem[p][b][k] = Part(source[p].id, k, source[p].len)

(* Parts received, the one of which the task has not yet read the size     *)
(* included.                                                               *)
Received(p) == offset[p] + xfer[p].size

WaitsWhole(p, e) ==
  /\ Received(p) = 0 /\ p \notin dma_flag
  /\ e.size = source[p].len /\ e.size > 0
  /\ e.buffer \in Bufs /\ Intact(p, e.buffer, e.size)

PacketInv(p) ==
  /\ xfer[p].size \in {0, 1}
  /\ xfer[p].size = 1 => ~xfer[p].on /\ p \in dma_flag /\ ~Says(evmsgq, Ev(p, "NOTREADY"))
  /\ source[p].k <= source[p].len
  /\ offset[p] > 0 => offset[p] < source[p].len
  /\ source[p].id = delivered[p] + (IF Received(p) > 0 \/ Waits(p) THEN 1 ELSE 0)
  /\ Received(p) = 0 => source[p].k = source[p].len
  /\ Received(p) > 0 => source[p].k = Received(p) /\ Intact(p, cur[p], Received(p))
  /\ Waits(p) => WaitsWhole(p, Head(hcievq))

PacketsInv == PacketTypes /\ \A p \in Inputs : PacketInv(p)

----------------------------------------------------------------------------
(* The packet that goes out.                                               *)

Whole == arrived.k = arrived.len
Sent(k) == arrived = Part(outgoing.id, k, outgoing.len)
NotBegun == Whole /\ outgoing.id = arrived.id + 1
GoneOut == offset["out"]

OutTypes ==
  /\ arrived \in [id : Nat, k : Nat, len : Nat]
  /\ outgoing = Nobody \/ outgoing \in [kind : {"CMD", "ACL"}, id : Nat, len : Nat \ {0}]
  /\ outgoing.kind = "CMD" => outgoing.len = 1

(* How far an ACL packet is.                                               *)
AclInv ==
  /\ xfer["out"].on => GoneOut < outgoing.len /\ (IF GoneOut = 0 THEN NotBegun ELSE Sent(GoneOut))
  /\ Says(evmsgq, Ev("out", "DONE")) => GoneOut < outgoing.len /\ Sent(GoneOut + 1)
  /\ GoneOut > 0 /\ "out" \notin dma_flag => GoneOut < outgoing.len /\ Sent(GoneOut)
  /\ "out" \in dma_flag \/ GoneOut > 0 =>
       outgoing.kind = "ACL" /\ dongle_flag = {} /\ ~Waits("psent") /\ ~can_send

(* How far a command is: its transfer, and its answer to come.             *)
CmdInv ==
  /\ pc = "ctl" =>
       /\ outgoing.kind = "CMD" /\ usbh_out_state = "CMD"
       /\ dongle_flag = {"CMD"} /\ req_flags = {"CMD"}
       /\ ctl \in {<<"setup", "data">>, <<"data">>, <<>>}
       /\ IF ctl = <<>> THEN Sent(1) ELSE NotBegun
  /\ pc # "ctl" => ctl = <<>>
  /\ usbh_out_state = "CMD" => ~can_send /\ pc # "psent"
  /\ usbh_out_state = "CMD" /\ pc \notin {"ctl", "csent"} =>
       outgoing.kind = "CMD" /\ dongle_flag = {} /\ Sent(1)

(* btstack asks for its packet once, and has it back before it may send    *)
(* another.                                                                *)
TurnInv ==
  /\ dongle_flag \subseteq {outgoing.kind}
  /\ dongle_flag # {} /\ pc # "ctl" => NotBegun
  /\ outgoing = Nobody => Whole /\ dongle_flag = {}
  /\ pc \in {"psent", "csent"} => ~can_send /\ (outgoing = Nobody \/ Waits("psent"))
  /\ Waits("psent") => pc \in {"psent", "csent"} /\ outgoing # Nobody /\ Whole /\ dongle_flag = {}

OutInv == OutTypes /\ AclInv /\ CmdInv /\ TurnInv

(* A pipe by which nothing happens.                                        *)
LEMMA PacketSame ==
  ASSUME NEW p, PacketInv(p), offset'[p] = offset[p], xfer'[p].size = xfer[p].size,
         xfer'[p].on => xfer[p].on \/ xfer[p].size = 0,
         xfer[p].size = 1 => p \in dma_flag',
         Waits(p) => p \notin dma_flag',
         Says(evmsgq', Ev(p, "NOTREADY")) => Says(evmsgq, Ev(p, "NOTREADY")),
         source'[p] = source[p], delivered'[p] = delivered[p], mem'[p] = mem[p],
         Received(p) > 0 => cur'[p] = cur[p],
         Waits(p)' <=> Waits(p), Waits(p) => Head(hcievq') = Head(hcievq)
  PROVE  PacketInv(p)'
<1>1. Received(p)' = Received(p)
  BY DEF Received
<1>2. Received(p) > 0 => (Intact(p, cur[p], Received(p))' <=> Intact(p, cur[p], Received(p)))
  BY <1>1 DEF Intact
<1>3. ASSUME NEW e PROVE WaitsWhole(p, e) /\ p \notin dma_flag' => WaitsWhole(p, e)'
  BY <1>1 DEF WaitsWhole, Intact
<1>4. Waits(p)' => WaitsWhole(p, Head(hcievq))'
  BY <1>3 DEF PacketInv
<1>5. QED
  BY <1>1, <1>2, <1>4 DEF PacketInv

(* Nothing happens to the packets.                                         *)
LEMMA PacketsSame ==
  ASSUME PacketsInv, UNCHANGED <<source, delivered, mem, cur>>,
         \A p \in Inputs : /\ offset'[p] = offset[p] /\ xfer'[p] = xfer[p]
                           /\ p \in dma_flag' <=> p \in dma_flag
                           /\ Says(evmsgq', Ev(p, "NOTREADY")) => Says(evmsgq, Ev(p, "NOTREADY")),
         \/ UNCHANGED hcievq
         \/ ~(\E p \in Inputs : Waits(p) \/ Waits(p)') /\ OneWaits'
  PROVE  PacketsInv'
<1>1. PacketTypes'
  BY DEF PacketsInv, PacketTypes, OneWaits
<1>2. ASSUME NEW p \in Inputs PROVE PacketInv(p)'
  <2>1. PacketInv(p)
    BY DEF PacketsInv
  <2>2. (Waits(p)' <=> Waits(p)) /\ (Waits(p) => Head(hcievq') = Head(hcievq) /\ p \notin dma_flag')
    BY <2>1 DEF Waits, PacketInv, WaitsWhole
  <2>3. xfer[p].size = 1 => p \in dma_flag'
    BY <2>1 DEF PacketInv
  <2>4. QED
    BY <2>1, <2>2, <2>3, PacketSame
<1>3. QED
  BY <1>1, <1>2 DEF PacketsInv

LEMMA PacketsStart == BtInit => PacketsInv
<1> SUFFICES ASSUME BtInit PROVE PacketsInv
  OBVIOUS
<1>1. /\ hcievq = <<>> /\ evmsgq = <<>> /\ offset = [p \in Pipes |-> 0]
      /\ xfer = [p \in Pipes |-> Off] /\ source = [p \in Inputs |-> NoPart]
      /\ delivered = [p \in Inputs |-> 0]
      /\ mem = [p \in Inputs |-> [b \in Bufs |-> Blank]]
  BY DEF BtInit
<1>2. MaxParts \in Nat
  BY BtAssumption
<1>3. NoPart \in [id : Nat, k : Nat, len : Nat] /\ NoPart \in [id : Nat, k : Nat, len : 0 .. MaxParts]
  BY <1>2 DEF NoPart, Part
<1>4. Blank \in [1 .. MaxParts -> [id : Nat, k : Nat, len : Nat]]
  BY <1>3 DEF Blank
<1>5. PacketTypes
  BY <1>1, <1>3, <1>4 DEF PacketTypes, OneWaits
<1>6. ASSUME NEW p \in Inputs PROVE PacketInv(p)
  <2>1. offset[p] = 0 /\ xfer[p].size = 0 /\ source[p].k = 0 /\ source[p].len = 0 /\ source[p].id = 0
        /\ delivered[p] = 0
    BY <1>1 DEF Off, NoPart, Part, Pipes
  <2>2. ~Waits(p) /\ Received(p) = 0
    BY <1>1, <2>1 DEF Waits, Received
  <2>3. QED
    BY <2>1, <2>2 DEF PacketInv
<1>7. QED
  BY <1>5, <1>6 DEF PacketsInv

(* What an event that is told changes in the queue.                        *)
LEMMA NotifySays ==
  ASSUME LinkInv, NEW t, NEW c \in Channels, NEW st \in {"DONE", "NOTREADY"}, Notify(t, c, st),
         NEW e, e # Ev(c, st), Says(evmsgq', e)
  PROVE  Says(evmsgq, e)
<1>1. evmsgq \in Seq(Events) /\ Ev(c, st) \in Events
  BY DEF LinkInv, LinkTypes, Events, Ev
<1> DEFINE q0 == evmsgq
           q1 == evmsgq'
           ev == Ev(c, st)
<1>2. q0 \in Seq(Events) /\ ev \in Events /\ (q1 = q0 \/ q1 = Append(q0, ev)) /\ e # ev /\ Says(q1, e)
  BY <1>1 DEF Notify
<1> HIDE DEF q0, q1, ev
<1>3. Says(q0, e)
  BY <1>2, AppendTells
<1>4. QED
  BY <1>3 DEF q0

(* A part arrives: in the buffer of its packet, after the part before it.  *)
LEMMA ReceiveKeepsPackets ==
  ASSUME LinkInv, PacketsInv, NEW p \in Inputs, Receive(p)
  PROVE  PacketsInv'
<1>1. PICK part \in NextPart(p) :
        /\ source' = [source EXCEPT ![p] = part]
        /\ mem' = [mem EXCEPT ![p][cur[p]][offset[p] + 1] = part]
  BY DEF Receive
<1>2. /\ xfer[p].on /\ xfer' = [xfer EXCEPT ![p] = [on |-> FALSE, size |-> 1]]
      /\ UNCHANGED <<hcievq, delivered, cur, offset, dma_flag>>
      /\ Notify(p, p, "DONE")
  BY DEF Receive, UnchangedByUsb, taskVars, hostVars
<1>3. /\ offset[p] \in Nat /\ cur[p] \in Bufs /\ delivered[p] \in Nat /\ MaxParts \in Nat
      /\ source[p] \in [id : Nat, k : Nat, len : 0 .. MaxParts]
      /\ xfer[p] \in [on : BOOLEAN, size : Nat]
  BY BtAssumption DEF LinkInv, LinkTypes, PacketsInv, PacketTypes, Pipes, Inputs
<1>4. PacketInv(p) /\ OneTransfer(p) /\ p \in dma_flag /\ ~Told(evmsgq, p)
  BY <1>2 DEF PacketsInv, LinkInv, OneTransfer, Pipes
<1>5. xfer[p].size = 0 /\ ~Waits(p) /\ Received(p) = offset[p]
  BY <1>2, <1>3, <1>4 DEF PacketInv, WaitsWhole, Received
<1>6. /\ part \in [id : Nat, k : Nat, len : 1 .. MaxParts]
      /\ part = Part(delivered[p] + 1, offset[p] + 1, part.len) /\ offset[p] + 1 <= part.len
      /\ offset[p] > 0 => part.id = source[p].id /\ part.len = source[p].len
  <2>1. CASE offset[p] = 0
    <3>1. source[p].k = source[p].len /\ source[p].id = delivered[p]
      BY <1>3, <1>4, <1>5, <2>1 DEF PacketInv
    <3>2. PICK len \in 1 .. MaxParts : part = Part(source[p].id + 1, 1, len)
      BY <1>3, <3>1 DEF NextPart
    <3>3. QED
      BY <1>3, <2>1, <3>1, <3>2 DEF Part
  <2>2. CASE offset[p] > 0
    <3>1. source[p].k = offset[p] /\ source[p].id = delivered[p] + 1 /\ offset[p] < source[p].len
      BY <1>3, <1>4, <1>5, <2>2 DEF PacketInv
    <3>2. part = Part(source[p].id, source[p].k + 1, source[p].len)
      BY <1>3, <3>1 DEF NextPart
    <3>3. QED
      BY <1>3, <2>2, <3>1, <3>2 DEF Part
  <2>3. QED
    BY <1>3, <2>1, <2>2
<1>7. offset[p] + 1 \in 1 .. MaxParts
  BY <1>3, <1>6
<1>8. /\ source'[p] = part
      /\ mem'[p][cur[p]] = [mem[p][cur[p]] EXCEPT ![offset[p] + 1] = part]
      /\ mem[p][cur[p]] \in [1 .. MaxParts -> [id : Nat, k : Nat, len : Nat]]
      /\ xfer'[p] = [on |-> FALSE, size |-> 1]
  <2>1. source'[p] = part /\ xfer'[p] = [on |-> FALSE, size |-> 1]
    BY <1>1, <1>2 DEF PacketsInv, PacketTypes, LinkInv, LinkTypes, Pipes
  <2>2. mem[p] \in [Bufs -> [1 .. MaxParts -> [id : Nat, k : Nat, len : Nat]]]
    BY DEF PacketsInv, PacketTypes
  <2>3. mem'[p] = [mem[p] EXCEPT ![cur[p]] = [mem[p][cur[p]] EXCEPT ![offset[p] + 1] = part]]
    BY <1>1 DEF PacketsInv, PacketTypes
  <2>4. QED
    BY <1>3, <2>1, <2>2, <2>3
<1>9. PacketTypes'
  <2>1. part \in [id : Nat, k : Nat, len : Nat] /\ part \in [id : Nat, k : Nat, len : 0 .. MaxParts]
    BY <1>3, <1>6
  <2>2. [mem[p][cur[p]] EXCEPT ![offset[p] + 1] = part]
          \in [1 .. MaxParts -> [id : Nat, k : Nat, len : Nat]]
    BY <1>7, <1>8, <2>1
  <2>3. mem' = [mem EXCEPT ![p] = [mem[p] EXCEPT ![cur[p]] =
                  [mem[p][cur[p]] EXCEPT ![offset[p] + 1] = part]]]
    BY <1>1
  <2>4. mem' \in [Inputs -> [Bufs -> [1 .. MaxParts -> [id : Nat, k : Nat, len : Nat]]]]
    BY <1>3, <2>2, <2>3 DEF PacketsInv, PacketTypes
  <2>5. source' \in [Inputs -> [id : Nat, k : Nat, len : 0 .. MaxParts]]
    BY <1>1, <2>1 DEF PacketsInv, PacketTypes
  <2>6. QED
    BY <1>2, <2>4, <2>5 DEF PacketsInv, PacketTypes, OneWaits
<1>10. PacketInv(p)'
  <2>1. ~Says(evmsgq', Ev(p, "NOTREADY"))
    <3>1. ~Says(evmsgq, Ev(p, "NOTREADY"))
      BY <1>4 DEF Told, Says, Ev
    <3>2. Ev(p, "NOTREADY") # Ev(p, "DONE") /\ p \in Channels
      BY DEF Ev, Channels, Pipes
    <3>3. QED
      BY <1>2, <3>1, <3>2, NotifySays
  <2>2. Received(p)' = offset[p] + 1 /\ ~Waits(p)'
    BY <1>2, <1>5, <1>8 DEF Received, Waits
  <2>3. Intact(p, cur[p], offset[p] + 1)'
    <3>1. ASSUME NEW k \in 1 .. offset[p] + 1
          PROVE  mem'[p][cur[p]][k] = Part(part.id, k, part.len)
      <4>1. CASE k = offset[p] + 1
        <5>1. part = Part(part.id, k, part.len)
          BY <1>6, <4>1 DEF Part
        <5>2. mem'[p][cur[p]][k] = part
          BY <1>7, <1>8, <4>1
        <5>3. QED
          BY <5>1, <5>2
      <4>2. CASE k # offset[p] + 1
        <5>1. k \in 1 .. offset[p] /\ offset[p] > 0 /\ k \in 1 .. MaxParts
          BY <1>3, <1>7, <4>2
        <5>2. mem[p][cur[p]][k] = Part(source[p].id, k, source[p].len)
          BY <1>3, <1>4, <1>5, <5>1 DEF PacketInv, Intact
        <5>3. QED
          BY <1>6, <1>8, <4>2, <5>1, <5>2
      <4>3. QED
        BY <4>1, <4>2
    <3>2. QED
      BY <1>2, <1>8, <3>1 DEF Intact
  <2>4. part.k = offset[p] + 1 /\ part.id = delivered[p] + 1
    BY <1>6 DEF Part
  <2>5. source'[p].k = Received(p)' /\ Received(p)' > 0 /\ source'[p].id = delivered'[p] + 1
    BY <1>2, <1>3, <1>8, <2>2, <2>4
  <2>6. source'[p].k <= source'[p].len /\ (offset'[p] > 0 => offset'[p] < source'[p].len)
    BY <1>2, <1>3, <1>6, <1>8, <2>4
  <2>7. Intact(p, cur[p], Received(p))'
    BY <1>2, <2>2, <2>3
  <2>8. xfer'[p].size = 1 /\ ~xfer'[p].on /\ p \in dma_flag'
    BY <1>2, <1>4, <1>8
  <2>9. QED
    BY <2>1, <2>2, <2>5, <2>6, <2>7, <2>8 DEF PacketInv
<1>11. ASSUME NEW q \in Inputs, q # p PROVE PacketInv(q)'
  <2>1. PacketInv(q) /\ source'[q] = source[q] /\ mem'[q] = mem[q] /\ xfer'[q] = xfer[q]
    BY <1>1, <1>2, <1>11 DEF PacketsInv, PacketTypes, LinkInv, LinkTypes, Pipes
  <2>2. Says(evmsgq', Ev(q, "NOTREADY")) => Says(evmsgq, Ev(q, "NOTREADY"))
    <3>1. Ev(q, "NOTREADY") # Ev(p, "DONE") /\ p \in Channels
      BY DEF Ev, Channels, Pipes
    <3>2. QED
      BY <1>2, <3>1, NotifySays
  <2>3. (Waits(q)' <=> Waits(q)) /\ (Waits(q) => q \notin dma_flag) /\ (xfer[q].size = 1 => q \in dma_flag)
    BY <1>2, <2>1 DEF Waits, PacketInv, WaitsWhole
  <2>4. QED
    BY <1>2, <2>1, <2>2, <2>3, PacketSame
<1>12. QED
  BY <1>9, <1>10, <1>11 DEF PacketsInv

(* A transfer of an input ends with no data.                               *)
LEMMA NoDataKeepsPackets ==
  ASSUME LinkInv, PacketsInv, NEW p \in Inputs, xfer[p].on, xfer' = [xfer EXCEPT ![p] = Off],
         \A q \in Inputs : q # p /\ Says(evmsgq', Ev(q, "NOTREADY"))
                             => Says(evmsgq, Ev(q, "NOTREADY")),
         UNCHANGED <<hcievq, delivered, source, mem, cur, offset, dma_flag>>
  PROVE  PacketsInv'
<1>1. PacketTypes'
  BY DEF PacketsInv, PacketTypes, OneWaits
<1>2. ASSUME NEW q \in Inputs PROVE PacketInv(q)'
  <2>1. PacketInv(q) /\ xfer[q] \in [on : BOOLEAN, size : Nat] /\ offset[q] \in Nat
    BY DEF PacketsInv, LinkInv, LinkTypes, Pipes
  <2>2. CASE q # p
    <3>1. xfer'[q] = xfer[q] /\ (xfer[q].size = 1 => q \in dma_flag) /\ (Waits(q)' <=> Waits(q))
          /\ (Waits(q) => q \notin dma_flag)
      BY <2>1, <2>2 DEF PacketInv, LinkInv, LinkTypes, Pipes, Waits, WaitsWhole
    <3>2. QED
      BY <2>1, <2>2, <3>1, PacketSame
  <2>3. CASE q = p
    <3>1. xfer[p].size = 0
      BY <2>1, <2>3 DEF PacketInv
    <3>2. xfer'[p].size = 0 /\ ~xfer'[p].on
      BY <2>3 DEF LinkInv, LinkTypes, Off, Pipes
    <3>3. Received(p)' = Received(p) /\ (Waits(p)' <=> Waits(p))
      BY <3>1, <3>2 DEF Received, Waits
    <3>4. QED
      BY <2>1, <2>3, <3>2, <3>3 DEF PacketInv, WaitsWhole, Intact
  <2>4. QED
    BY <2>2, <2>3
<1>3. QED
  BY <1>1, <1>2 DEF PacketsInv

LEMMA InterruptKeepsPackets ==
  ASSUME LinkInv, PacketsInv,
         Sof \/ (\E p \in Inputs : InputEnds(p)) \/ AclEmpty \/ OutDone \/ OutRefused \/ CtlStage
  PROVE  PacketsInv'
<1>0. evmsgq \in Seq(Events)
  BY DEF LinkInv, LinkTypes
<1>1. CASE Sof
  <2>1. SOF \in Events /\ \A p : Ev(p, "NOTREADY") # SOF
    BY DEF SOF, Ev, Events
  <2>2. \A p : Says(evmsgq', Ev(p, "NOTREADY")) => Says(evmsgq, Ev(p, "NOTREADY"))
    BY <1>0, <1>1, <2>1, AppendTells DEF Sof
  <2>3. QED
    BY <1>1, <2>2, PacketsSame DEF Sof, UnchangedByUsb, taskVars, wireVars, hostVars
<1>2. ASSUME NEW p \in Inputs, InputEnds(p) PROVE PacketsInv'
  <2>1. CASE Receive(p)
    BY <2>1, ReceiveKeepsPackets
  <2>2. ASSUME NEW st \in {"DONE", "NOTREADY"}, NothingThere(p, st) PROVE PacketsInv'
    <3>1. p \in Channels /\ Notify(p, p, st)
      BY <2>2 DEF NothingThere, Channels, Pipes
    <3>2. \A q \in Inputs : q # p /\ Says(evmsgq', Ev(q, "NOTREADY"))
                              => Says(evmsgq, Ev(q, "NOTREADY"))
      BY <3>1, NotifySays DEF Ev
    <3>3. QED
      BY <2>2, <3>2, NoDataKeepsPackets DEF NothingThere, UnchangedByUsb, taskVars, hostVars
  <2>3. QED
    BY <1>2, <2>1, <2>2 DEF InputEnds
<1>3. CASE AclEmpty
  <2>1. Ev("acl", "DONE") \in Events /\ \A p : Ev(p, "NOTREADY") # Ev("acl", "DONE")
    BY DEF Ev, Events, Channels, Pipes, Inputs
  <2>2. \A p : Says(evmsgq', Ev(p, "NOTREADY")) => Says(evmsgq, Ev(p, "NOTREADY"))
    BY <1>0, <1>3, <2>1, AppendTells DEF AclEmpty
  <2>3. QED
    BY <1>3, <2>2, NoDataKeepsPackets DEF AclEmpty, UnchangedByUsb, taskVars, hostVars, Inputs
<1>4. CASE OutDone \/ OutRefused
  <2>1. Ev("out", "NOTREADY") \in Events /\ "out" \in Channels
        /\ \A p \in Inputs : Ev(p, "NOTREADY") \notin {Ev("out", "NOTREADY"), Ev("out", "DONE")}
    BY DEF Ev, Events, Channels, Pipes, Inputs
  <2>2. \A p \in Inputs : Says(evmsgq', Ev(p, "NOTREADY")) => Says(evmsgq, Ev(p, "NOTREADY"))
    <3>1. CASE OutDone
      BY <2>1, <3>1, NotifySays DEF OutDone
    <3>2. CASE OutRefused
      BY <1>0, <2>1, <3>2, AppendTells DEF OutRefused
    <3>3. QED
      BY <1>4, <3>1, <3>2
  <2>3. \A p \in Inputs : xfer'[p] = xfer[p]
    BY <1>4 DEF OutDone, OutRefused, LinkInv, LinkTypes, Inputs, Pipes
  <2>4. QED
    BY <1>4, <2>2, <2>3, PacketsSame
      DEF OutDone, OutRefused, UnchangedByUsb, taskVars, hostVars
<1>5. CASE CtlStage
  <2>1. Notify(Head(ctl), "ctl", "DONE") /\ "ctl" \in Channels
        /\ \A p : Ev(p, "NOTREADY") # Ev("ctl", "DONE")
    BY <1>5 DEF CtlStage, Channels, Ev
  <2>2. \A p : Says(evmsgq', Ev(p, "NOTREADY")) => Says(evmsgq, Ev(p, "NOTREADY"))
    BY <2>1, NotifySays
  <2>3. QED
    BY <1>5, <2>2, PacketsSame DEF CtlStage, UnchangedByUsb, taskVars, hostVars
<1>6. QED
  BY <1>1, <1>2, <1>3, <1>4, <1>5

(* The buffer is another one only where nothing has been received.         *)
LEMMA SofKeepsPackets ==
  ASSUME LinkInv, PacketsInv, HandleSof
  PROVE  PacketsInv'
<1>1. PICK begun, on :
        /\ begun \subseteq Inputs
        /\ begun # {} => dma_flag = {}
        /\ \A p \in on \cap Inputs : p \in begun
        /\ dma_flag' = dma_flag \cup on
        /\ xfer' = [p \in Pipes |-> IF p \in on THEN On ELSE xfer[p]]
        /\ cur' = [p \in Inputs |-> IF p \in begun THEN BufferFor(p) ELSE cur[p]]
  <2> DEFINE b == IF dma_flag = {} THEN Started ELSE {}
             o == b \cup (IF MoreToSend(b) THEN {"out"} ELSE {})
  <2>1. /\ dma_flag' = dma_flag \cup o
        /\ xfer' = [p \in Pipes |-> IF p \in o THEN On ELSE xfer[p]]
        /\ cur' = [p \in Inputs |-> IF p \in b THEN BufferFor(p) ELSE cur[p]]
    BY DEF HandleSof
  <2>2. b \subseteq Inputs /\ (b # {} => dma_flag = {}) /\ \A p \in o \cap Inputs : p \in b
    BY DEF Started, Inputs
  <2> HIDE DEF b, o
  <2>3. QED
    BY <2>1, <2>2
<1>2. /\ Take("sof", "SOF") /\ hcievq = <<>>
      /\ UNCHANGED <<hcievq, delivered, source, mem, offset>>
  BY DEF HandleSof, Take, DongleTurn, hostVars
<1>3. \A e : Says(evmsgq', e) => Says(evmsgq, e)
  BY <1>2, TakeTells
<1>4. PacketTypes'
  BY <1>2 DEF PacketsInv, PacketTypes, OneWaits
<1>5. ASSUME NEW p \in Inputs PROVE PacketInv(p)'
  <2>1. /\ PacketInv(p) /\ p \in Pipes /\ ~Waits(p) /\ ~Waits(p)'
        /\ xfer[p] \in [on : BOOLEAN, size : Nat] /\ offset[p] \in Nat
    BY <1>2 DEF PacketsInv, LinkInv, LinkTypes, Pipes, Waits
  <2>2. CASE p \in on
    <3>1. p \in begun /\ p \notin dma_flag /\ xfer[p].size = 0
      BY <1>1, <2>1, <2>2 DEF PacketInv
    <3>2. xfer'[p].size = 0 /\ Received(p) = offset[p]
      BY <1>1, <2>1, <2>2, <3>1 DEF On, Received
    <3>3. offset[p] > 0 => cur'[p] = cur[p]
      BY <1>1, <2>1, <3>1 DEF BufferFor
    <3>4. QED
      BY <1>2, <1>3, <2>1, <3>1, <3>2, <3>3, PacketSame
  <2>3. CASE p \notin on /\ p \notin begun
    <3>1. xfer'[p] = xfer[p] /\ cur'[p] = cur[p]
      BY <1>1, <2>1, <2>3
    <3>2. xfer[p].size = 1 => p \in dma_flag'
      BY <1>1, <2>1 DEF PacketInv
    <3>3. QED
      BY <1>2, <1>3, <2>1, <3>1, <3>2, PacketSame
  <2>4. CASE p \notin on /\ p \in begun
    <3>1. xfer'[p] = xfer[p] /\ xfer[p].size = 0 /\ Received(p) = offset[p]
      BY <1>1, <2>1, <2>4 DEF PacketInv, Received
    <3>2. offset[p] > 0 => cur'[p] = cur[p]
      BY <1>1, <2>1, <2>4 DEF BufferFor
    <3>3. QED
      BY <1>2, <1>3, <2>1, <3>1, <3>2, PacketSame
  <2>5. QED
    BY <2>2, <2>3, <2>4
<1>6. QED
  BY <1>4, <1>5 DEF PacketsInv

(* The end of a transfer of p has been handled: the packet goes to btstack *)
(* if it is complete, and the offset counts the part if not.               *)
LEMMA DoneKeepsPackets ==
  ASSUME LinkInv, PacketsInv, NEW p \in Inputs, Take(p, "DONE"),
         xfer' = [xfer EXCEPT ![p] = Off], dma_flag' = dma_flag \ {p},
         NEW got \in BOOLEAN, got = (xfer[p].size = 1 /\ p \in dma_flag),
         IF got /\ Complete(p)
         THEN PostHCIEvent(HciPacket(p, cur[p], mem[p][cur[p]][1].len))
         ELSE UNCHANGED hcievq,
         offset' = [offset EXCEPT ![p] = IF ~got THEN @ ELSE IF Complete(p) THEN 0 ELSE @ + 1],
         UNCHANGED <<delivered, source, mem, cur>>
  PROVE  PacketsInv'
<1>1. /\ hcievq = <<>> /\ \A q : ~Waits(q)
      /\ \A e : Says(evmsgq', e) => Says(evmsgq, e)
  BY TakeTells DEF Take, DongleTurn, Waits, Channels, Pipes
<1>2. /\ PacketInv(p) /\ offset[p] \in Nat /\ cur[p] \in Bufs /\ xfer[p].size \in {0, 1}
      /\ source[p] \in [id : Nat, k : Nat, len : 0 .. MaxParts] /\ MaxParts \in Nat
      /\ delivered[p] \in Nat
  BY BtAssumption DEF PacketsInv, PacketTypes, PacketInv, LinkInv, LinkTypes, Pipes
<1>3. got <=> xfer[p].size = 1
  BY <1>2 DEF PacketInv
<1>4. /\ xfer'[p].size = 0 /\ ~xfer'[p].on /\ p \notin dma_flag'
      /\ offset'[p] = (IF ~got THEN offset[p] ELSE IF Complete(p) THEN 0 ELSE offset[p] + 1)
  BY DEF LinkInv, LinkTypes, Off, Pipes
<1>5. Received(p)' = offset'[p] /\ Received(p) = offset[p] + xfer[p].size
  BY <1>2, <1>4 DEF Received
(* What the length in the buffer says.                                     *)
<1>6. ASSUME got
      PROVE  /\ source[p].k = offset[p] + 1 /\ source[p].id = delivered[p] + 1
             /\ Intact(p, cur[p], offset[p] + 1)
             /\ mem[p][cur[p]][1].len = source[p].len
             /\ Complete(p) <=> source[p].k = source[p].len
  <2>1. Received(p) = offset[p] + 1 /\ Received(p) > 0
    BY <1>2, <1>3, <1>5, <1>6
  <2>2. source[p].k = offset[p] + 1 /\ source[p].id = delivered[p] + 1 /\ source[p].k <= source[p].len
        /\ Intact(p, cur[p], offset[p] + 1)
    BY <1>2, <2>1 DEF PacketInv
  <2>3. mem[p][cur[p]][1] = Part(source[p].id, 1, source[p].len)
    BY <1>2, <2>2 DEF Intact
  <2>4. mem[p][cur[p]][1].len = source[p].len
    BY <2>3 DEF Part
  <2>5. QED
    BY <1>2, <2>2, <2>4 DEF Complete
<1>7. CASE got /\ Complete(p)
  <2>0. PICK e : e = HciPacket(p, cur[p], source[p].len)
    OBVIOUS
  <2>1. hcievq' = <<e>> /\ e \in HciPackets /\ e.type = p
    BY <1>1, <1>2, <1>6, <1>7, <2>0 DEF PostHCIEvent, HciPacket, HciPackets, Bufs
  <2>2. e.size = source[p].len /\ e.buffer = cur[p]
    BY <2>0 DEF HciPacket
  <2>3. Head(hcievq') = e /\ hcievq' # <<>> /\ hcievq' = <<Head(hcievq')>>
    BY <2>1
  <2>4. offset'[p] = 0 /\ Received(p)' = 0
    BY <1>4, <1>5, <1>7
  <2>5. WaitsWhole(p, e)'
    <3>1. Intact(p, e.buffer, e.size)
      BY <1>2, <1>6, <1>7, <2>2
    <3>2. QED
      BY <1>2, <1>4, <1>6, <1>7, <2>2, <2>4, <3>1 DEF WaitsWhole, Intact
  <2>6. Waits(p)' /\ source'[p].id = delivered'[p] + 1 /\ source'[p].k = source'[p].len
    BY <1>6, <1>7, <2>1, <2>3 DEF Waits
  <2>7. PacketInv(p)'
    BY <1>2, <1>4, <2>3, <2>4, <2>5, <2>6 DEF PacketInv
  <2>8. PacketTypes'
    BY <2>1, <2>3 DEF PacketsInv, PacketTypes, OneWaits
  <2>9. ASSUME NEW q \in Inputs, q # p PROVE PacketInv(q)'
    <3>1. PacketInv(q) /\ xfer'[q] = xfer[q] /\ offset'[q] = offset[q] /\ ~Waits(q)'
          /\ (q \in dma_flag' <=> q \in dma_flag)
      BY <2>1, <2>3, <2>9 DEF PacketsInv, LinkInv, LinkTypes, Pipes, Waits
    <3>2. xfer[q].size = 1 => q \in dma_flag'
      BY <3>1 DEF PacketInv
    <3>3. QED
      BY <1>1, <3>1, <3>2, PacketSame
  <2>10. QED
    BY <2>7, <2>8, <2>9 DEF PacketsInv
<1>8. CASE ~(got /\ Complete(p))
  <2>1. hcievq' = hcievq /\ \A q : ~Waits(q)'
    BY <1>1, <1>8 DEF Waits
  <2>2. Received(p)' = Received(p) /\ offset'[p] = Received(p)
    BY <1>2, <1>3, <1>4, <1>5, <1>8
  <2>3. offset'[p] > 0 => offset'[p] < source[p].len
    BY <1>2, <1>3, <1>4, <1>6, <1>8 DEF PacketInv
  <2>4. PacketInv(p)'
    BY <1>1, <1>2, <1>4, <2>1, <2>2, <2>3 DEF PacketInv, Intact
  <2>5. PacketTypes'
    BY <1>1, <2>1 DEF PacketsInv, PacketTypes, OneWaits
  <2>6. ASSUME NEW q \in Inputs, q # p PROVE PacketInv(q)'
    <3>1. PacketInv(q) /\ xfer'[q] = xfer[q] /\ offset'[q] = offset[q]
          /\ (q \in dma_flag' <=> q \in dma_flag)
      BY <2>6 DEF PacketsInv, LinkInv, LinkTypes, Pipes
    <3>2. xfer[q].size = 1 => q \in dma_flag'
      BY <3>1 DEF PacketInv
    <3>3. QED
      BY <1>1, <2>1, <3>1, <3>2, PacketSame
  <2>7. QED
    BY <2>4, <2>5, <2>6 DEF PacketsInv
<1>9. QED
  BY <1>7, <1>8

LEMMA NotReadyKeepsPackets ==
  ASSUME LinkInv, PacketsInv, HandleNotReady
  PROVE  PacketsInv'
<1>1. PICK p \in Pipes : Take(p, "NOTREADY") /\ dma_flag' \in {dma_flag, dma_flag \ {p}}
  BY DEF HandleNotReady
<1>2. /\ hcievq = <<>> /\ Says(evmsgq, Ev(p, "NOTREADY"))
      /\ \A e : Says(evmsgq', e) => Says(evmsgq, e)
      /\ UNCHANGED <<hcievq, cur, offset, xfer, mem, source, delivered>>
  BY <1>1, TakeTells DEF HandleNotReady, wireVars, hostVars, Take, DongleTurn, Channels
<1>3. PacketTypes'
  BY <1>2 DEF PacketsInv, PacketTypes, OneWaits
<1>4. ASSUME NEW q \in Inputs PROVE PacketInv(q)'
  <2>1. PacketInv(q) /\ ~Waits(q) /\ ~Waits(q)'
    BY <1>2 DEF PacketsInv, Waits
  <2>2. xfer[q].size = 1 => q \in dma_flag'
    BY <1>1, <1>2, <2>1 DEF PacketInv
  <2>3. QED
    BY <1>2, <2>1, <2>2, PacketSame
<1>5. QED
  BY <1>3, <1>4 DEF PacketsInv

LEMMA TaskKeepsPackets ==
  ASSUME LinkInv, PacketsInv, HandleOutDone \/ HandleCtlDone \/ SendNow \/ SendCmd \/ CmdOver
                                \/ SendAcl \/ (\E kind, len : Send(kind, len))
  PROVE  PacketsInv'
<1>1. /\ UNCHANGED <<source, delivered, mem, cur>>
      /\ \A p \in Inputs : offset'[p] = offset[p] /\ xfer'[p] = xfer[p]
                             /\ (p \in dma_flag' <=> p \in dma_flag)
  <2>1. CASE HandleOutDone \/ HandleCtlDone \/ SendNow \/ SendCmd \/ (\E kind, len : Send(kind, len))
    BY <2>1 DEF HandleOutDone, HandleCtlDone, SendNow, SendCmd, Send, hostVars, wireVars,
                taskVars, LinkInv, LinkTypes, Pipes, Inputs
  <2>2. ASSUME NEW flags, NEW left, SendAclIn(flags, left)
        PROVE  /\ UNCHANGED <<source, delivered, mem, cur>>
               /\ \A p \in Inputs : offset'[p] = offset[p] /\ xfer'[p] = xfer[p]
                                      /\ (p \in dma_flag' <=> p \in dma_flag)
    BY <2>2 DEF SendAclIn, LinkInv, LinkTypes, Pipes, Inputs
  <2>3. QED
    BY <2>1, <2>2 DEF CmdOver, SendAcl
<1>2. \A e : Says(evmsgq', e) => Says(evmsgq, e)
  <2>1. CASE HandleOutDone
    BY <2>1, TakeTells DEF HandleOutDone, Channels, Pipes
  <2>2. CASE HandleCtlDone
    BY <2>2, TakeTells DEF HandleCtlDone, Channels, Pipes
  <2>3. CASE SendNow \/ SendCmd \/ CmdOver \/ SendAcl \/ (\E kind, len : Send(kind, len))
    BY <2>3 DEF SendNow, SendCmd, CmdOver, SendAcl, SendAclIn, Send
  <2>4. QED
    BY <2>1, <2>2, <2>3
<1>3. UNCHANGED hcievq \/ (hcievq = <<>> /\ hcievq' = <<Psent>>)
  <2>1. CASE HandleOutDone \/ HandleCtlDone
    <3>1. hcievq = <<>> /\ hcievq' \in {hcievq, Append(hcievq, Psent)}
      BY <2>1 DEF HandleOutDone, HandleCtlDone, Take, DongleTurn, PostHCIEvent
    <3>2. QED
      BY <3>1
  <2>2. CASE SendNow \/ SendCmd \/ CmdOver \/ SendAcl \/ (\E kind, len : Send(kind, len))
    BY <2>2 DEF SendNow, SendCmd, CmdOver, SendAcl, SendAclIn, Send
  <2>3. QED
    BY <2>1, <2>2
<1>4. ASSUME hcievq = <<>>, hcievq' = <<Psent>>
      PROVE  ~(\E p \in Inputs : Waits(p) \/ Waits(p)') /\ OneWaits'
  <2>1. Psent.type = "psent" /\ Psent \in HciPackets
    BY DEF Psent, HciPacket, HciPackets
  <2>2. Head(hcievq') = Psent
    BY <1>4
  <2>3. QED
    BY <1>4, <2>1, <2>2 DEF Waits, OneWaits, Inputs
<1>5. QED
  BY <1>1, <1>2, <1>3, <1>4, PacketsSame

(* btstack has the packet; its buffer is forgotten.                        *)
LEMMA DeliverKeepsPackets ==
  ASSUME LinkInv, PacketsInv, Deliver
  PROVE  PacketsInv'
<1>0. PICK e : e = Head(hcievq)
  OBVIOUS
<1>1. /\ hcievq = <<e>> /\ e \in HciPackets
      /\ UNCHANGED <<evmsgq, cur, offset, xfer, source, dma_flag>>
  BY <1>0 DEF Deliver, PacketsInv, PacketTypes, OneWaits, taskVars
<1>2. hcievq' = <<>> /\ \A q : ~Waits(q)'
  BY <1>1 DEF Deliver, Waits
<1>3. \A q : Waits(q) <=> e.type = q
  BY <1>0, <1>1 DEF Waits
<1>4. CASE e.type = "psent"
  <2>1. UNCHANGED <<delivered, mem>>
    BY <1>0, <1>4 DEF Deliver
  <2>2. \A q \in Inputs : ~Waits(q)
    BY <1>3, <1>4 DEF Inputs
  <2>3. QED
    BY <1>1, <1>2, <2>1, <2>2, PacketsSame DEF OneWaits
<1>5. CASE e.type \in Inputs
  <2>0. PICK p \in Inputs : p = e.type
    BY <1>5
  <2>1. /\ delivered' = [delivered EXCEPT ![p] = @ + 1]
        /\ mem' = [mem EXCEPT ![p][e.buffer] = Blank]
    BY <1>0, <2>0 DEF Deliver, Inputs
  <2>2. p \in Inputs /\ PacketInv(p) /\ Waits(p) /\ WaitsWhole(p, e)
    BY <1>0, <1>3, <2>0 DEF PacketsInv, PacketInv
  <2>3. /\ delivered[p] \in Nat /\ e.buffer \in Bufs /\ MaxParts \in Nat
        /\ Received(p) = 0
    BY <2>2, BtAssumption DEF PacketsInv, PacketTypes, WaitsWhole
  <2>4. PacketTypes'
    <3>1. Blank \in [1 .. MaxParts -> [id : Nat, k : Nat, len : Nat]]
      BY DEF Blank, NoPart, Part
    <3>2. mem' = [mem EXCEPT ![p] = [mem[p] EXCEPT ![e.buffer] = Blank]]
      BY <2>1
    <3>3. mem' \in [Inputs -> [Bufs -> [1 .. MaxParts -> [id : Nat, k : Nat, len : Nat]]]]
      BY <2>2, <2>3, <3>1, <3>2 DEF PacketsInv, PacketTypes
    <3>4. delivered' \in [Inputs -> Nat]
      BY <2>1, <2>2, <2>3 DEF PacketsInv, PacketTypes
    <3>5. QED
      BY <1>1, <1>2, <3>3, <3>4 DEF PacketsInv, PacketTypes, OneWaits
  <2>5. PacketInv(p)'
    <3>1. Received(p)' = 0
      BY <1>1, <2>3 DEF Received
    <3>2. delivered'[p] = delivered[p] + 1 /\ source'[p] = source[p] /\ ~Waits(p)'
      BY <1>1, <1>2, <2>1, <2>2 DEF PacketsInv, PacketTypes
    <3>3. source[p].id = delivered[p] + 1
      BY <2>2, <2>3 DEF PacketInv
    <3>4. QED
      BY <1>1, <2>2, <2>3, <3>1, <3>2, <3>3 DEF PacketInv
  <2>6. ASSUME NEW q \in Inputs, q # p PROVE PacketInv(q)'
    <3>1. PacketInv(q) /\ ~Waits(q) /\ mem'[q] = mem[q] /\ delivered'[q] = delivered[q]
      BY <1>3, <2>0, <2>1, <2>6 DEF PacketsInv, PacketTypes
    <3>2. xfer[q].size = 1 => q \in dma_flag
      BY <3>1 DEF PacketInv
    <3>3. QED
      BY <1>1, <1>2, <3>1, <3>2, PacketSame
  <2>7. QED
    BY <2>4, <2>5, <2>6 DEF PacketsInv
<1>6. QED
  BY <1>1, <1>4, <1>5 DEF HciPackets

LEMMA PacketsStep == LinkInv /\ PacketsInv /\ [Next]_vars => PacketsInv'
<1> SUFFICES ASSUME LinkInv, PacketsInv, [Next]_vars PROVE PacketsInv'
  OBVIOUS
<1>1. CASE Sof \/ (\E p \in Inputs : InputEnds(p)) \/ AclEmpty \/ OutDone \/ OutRefused \/ CtlStage
  BY <1>1, InterruptKeepsPackets
<1>2. CASE HandleEvDone
  <2> DEFINE got == xfer["ev"].size = 1 /\ "ev" \in dma_flag
  <2>1. /\ got \in BOOLEAN /\ "ev" \in Inputs /\ Take("ev", "DONE")
        /\ xfer' = [xfer EXCEPT !["ev"] = Off] /\ dma_flag' = dma_flag \ {"ev"}
        /\ UNCHANGED <<delivered, source, mem, cur>>
    BY <1>2 DEF HandleEvDone, ReadSize, hostVars, Inputs
  <2>2. /\ IF got /\ Complete("ev")
           THEN PostHCIEvent(HciPacket("ev", cur["ev"], mem["ev"][cur["ev"]][1].len))
           ELSE UNCHANGED hcievq
        /\ offset' = [offset EXCEPT !["ev"] =
                         IF ~got THEN @ ELSE IF Complete("ev") THEN 0 ELSE @ + 1]
    BY <1>2 DEF HandleEvDone
  <2>3. QED
    BY <2>1, <2>2, DoneKeepsPackets
<1>3. CASE HandleAclDone
  <2> DEFINE got == xfer["acl"].size = 1 /\ "acl" \in dma_flag
  <2>1. /\ got \in BOOLEAN /\ "acl" \in Inputs /\ Take("acl", "DONE")
        /\ xfer' = [xfer EXCEPT !["acl"] = Off] /\ dma_flag' = dma_flag \ {"acl"}
        /\ UNCHANGED <<delivered, source, mem, cur>>
    BY <1>3 DEF HandleAclDone, ReadSize, hostVars, Inputs
  <2>2. /\ IF got /\ Complete("acl")
           THEN PostHCIEvent(HciPacket("acl", cur["acl"], mem["acl"][cur["acl"]][1].len))
           ELSE UNCHANGED hcievq
        /\ offset' = [offset EXCEPT !["acl"] =
                         IF ~got THEN @ ELSE IF Complete("acl") THEN 0 ELSE @ + 1]
    BY <1>3 DEF HandleAclDone
  <2>3. QED
    BY <2>1, <2>2, DoneKeepsPackets
<1>4. CASE HandleSof \/ HandleNotReady \/ Deliver
  BY <1>4, SofKeepsPackets, NotReadyKeepsPackets, DeliverKeepsPackets
<1>5. CASE HandleOutDone \/ HandleCtlDone \/ SendNow \/ SendCmd \/ CmdOver \/ SendAcl
             \/ (\E kind, len : Send(kind, len))
  BY <1>5, TaskKeepsPackets
<1>6. CASE UNCHANGED vars
  BY <1>6, PacketsSame DEF vars, taskVars, wireVars, hostVars
<1>7. QED
  BY <1>1, <1>2, <1>3, <1>4, <1>5, <1>6 DEF Next, Dongle

----------------------------------------------------------------------------
LEMMA OutStarts == BtInit => OutInv
<1> SUFFICES ASSUME BtInit PROVE OutInv
  OBVIOUS
<1>1. /\ hcievq = <<>> /\ evmsgq = <<>> /\ dma_flag = {} /\ dongle_flag = {} /\ ctl = <<>>
      /\ pc = "get" /\ usbh_out_state = "IDLE" /\ outgoing = Nobody /\ arrived = NoPart
      /\ offset["out"] = 0 /\ ~xfer["out"].on
  BY DEF BtInit, Off, Pipes
<1>2. arrived \in [id : Nat, k : Nat, len : Nat] /\ Whole /\ outgoing.kind = "none"
  BY <1>1 DEF NoPart, Part, Whole, Nobody
<1>3. ~Says(evmsgq, Ev("out", "DONE")) /\ ~Waits("psent")
  BY <1>1 DEF Says, Waits
<1>4. QED
  BY <1>1, <1>2, <1>3 DEF OutInv, OutTypes, AclInv, CmdInv, TurnInv, GoneOut

(* A step that is not about the packet going out; the task may have taken  *)
(* an event and looks for what btstack asks for.                           *)
LEMMA OutSame ==
  ASSUME OutInv,
         UNCHANGED <<arrived, outgoing, dongle_flag, can_send, ctl, req_flags, usbh_out_state>>,
         offset'["out"] = offset["out"], xfer'["out"].on => xfer["out"].on,
         "out" \in dma_flag' <=> "out" \in dma_flag,
         Says(evmsgq', Ev("out", "DONE")) => Says(evmsgq, Ev("out", "DONE")),
         \/ pc' = pc /\ (Waits("psent")' <=> Waits("psent"))
         \/ pc = "get" /\ pc' = "flags" /\ ~Waits("psent") /\ ~Waits("psent")'
  PROVE  OutInv'
<1>1. OutTypes' /\ GoneOut' = GoneOut /\ (Whole' <=> Whole) /\ (NotBegun' <=> NotBegun)
      /\ \A k : Sent(k)' <=> Sent(k)
  BY DEF OutInv, OutTypes, GoneOut, Whole, NotBegun, Sent
<1>2. AclInv'
  <2>1. Waits("psent")' => Waits("psent")
    OBVIOUS
  <2>2. Sent(GoneOut)' <=> Sent(GoneOut)
    BY DEF Sent, GoneOut
  <2>3. Sent(GoneOut + 1)' <=> Sent(GoneOut + 1)
    BY DEF Sent, GoneOut
  <2>4. QED
    BY <1>1, <2>1, <2>2, <2>3 DEF OutInv, AclInv
<1>3. CmdInv' /\ TurnInv'
  BY <1>1 DEF OutInv, CmdInv, TurnInv
<1>4. QED
  BY <1>1, <1>2, <1>3 DEF OutInv

(* A part is out: the transfer was on, of the part after those sent.       *)
LEMMA OutDoneKeepsOut ==
  ASSUME LinkInv, OutInv, OutDone
  PROVE  /\ OutInv' /\ GoneOut < outgoing.len
         /\ IF GoneOut = 0 THEN NotBegun ELSE Sent(GoneOut)
         /\ arrived' = Part(outgoing.id, GoneOut + 1, outgoing.len)
<1>1. /\ xfer["out"].on /\ "out" \in dma_flag /\ GoneOut \in Nat
      /\ xfer' = [xfer EXCEPT !["out"] = Off]
      /\ arrived' = Part(outgoing.id, GoneOut + 1, outgoing.len)
      /\ UNCHANGED <<hcievq, dongle_flag, pc, req_flags, usbh_out_state, ctl, can_send,
                     outgoing, offset, dma_flag>>
  BY DEF OutDone, UnchangedByUsb, taskVars, hostVars, GoneOut, LinkInv, LinkTypes,
         OneTransfer, Pipes
<1>2. ~xfer'["out"].on
  BY <1>1 DEF LinkInv, LinkTypes, Off, Pipes
<1>3. /\ GoneOut < outgoing.len /\ (IF GoneOut = 0 THEN NotBegun ELSE Sent(GoneOut))
      /\ outgoing.kind = "ACL" /\ dongle_flag = {} /\ ~Waits("psent") /\ ~can_send
  BY <1>1 DEF OutInv, AclInv
<1>4. /\ outgoing \in [kind : {"CMD", "ACL"}, id : Nat, len : Nat \ {0}] /\ outgoing # Nobody
      /\ pc # "ctl" /\ (usbh_out_state = "CMD" => pc = "csent") /\ pc \notin {"psent", "csent"}
  BY <1>3 DEF OutInv, OutTypes, CmdInv, TurnInv, Nobody
<1>5. OutTypes'
  BY <1>1, <1>4 DEF OutInv, OutTypes, Part
<1>6. AclInv'
  <2>1. Sent(GoneOut + 1)' /\ GoneOut' = GoneOut /\ ~Waits("psent")'
    BY <1>1, <1>3 DEF Sent, GoneOut, Waits
  <2>2. QED
    BY <1>1, <1>2, <1>3, <2>1 DEF AclInv
<1>7. CmdInv' /\ TurnInv'
  <2>1. ~Waits("psent")'
    BY <1>1, <1>3 DEF Waits
  <2>2. QED
    BY <1>1, <1>3, <1>4, <2>1 DEF OutInv, CmdInv, TurnInv
<1>8. QED
  BY <1>1, <1>3, <1>5, <1>6, <1>7 DEF OutInv

(* A stage of a command is over.                                           *)
LEMMA CtlStageKeepsOut ==
  ASSUME LinkInv, OutInv, CtlStage
  PROVE  /\ OutInv'
         /\ arrived' # arrived =>
              NotBegun /\ arrived' = Part(outgoing.id, 1, outgoing.len)
<1>1. /\ ctl # <<>> /\ ctl' = Tail(ctl) /\ Notify(Head(ctl), "ctl", "DONE")
      /\ arrived' = (IF Head(ctl) = "data" THEN Part(outgoing.id, 1, outgoing.len) ELSE arrived)
      /\ UNCHANGED <<hcievq, dongle_flag, pc, req_flags, usbh_out_state, can_send, outgoing,
                     offset, dma_flag, xfer>>
  BY DEF CtlStage, UnchangedByUsb, taskVars, hostVars
<1>2. /\ pc = "ctl" /\ NotBegun /\ outgoing.kind = "CMD" /\ usbh_out_state = "CMD"
      /\ dongle_flag = {"CMD"} /\ req_flags = {"CMD"} /\ ~can_send
      /\ ctl = <<"setup", "data">> \/ ctl = <<"data">>
  BY <1>1 DEF OutInv, CmdInv
<1>3. \/ ctl' = <<"data">> /\ arrived' = arrived
      \/ ctl' = <<>> /\ arrived' = Part(outgoing.id, 1, outgoing.len)
  <2>1. CASE ctl = <<"setup", "data">>
    <3>1. Head(ctl) = "setup" /\ Tail(ctl) = <<"data">>
      BY <2>1
    <3>2. QED
      BY <1>1, <3>1
  <2>2. CASE ctl = <<"data">>
    <3>1. Head(ctl) = "data" /\ Tail(ctl) = <<>>
      BY <2>2
    <3>2. QED
      BY <1>1, <3>1
  <2>3. QED
    BY <1>2, <2>1, <2>2
<1>4. /\ outgoing \in [kind : {"CMD", "ACL"}, id : Nat, len : Nat \ {0}] /\ outgoing # Nobody
      /\ outgoing.len = 1
  BY <1>2 DEF OutInv, OutTypes, Nobody
<1>5. /\ "out" \notin dma_flag /\ ~(GoneOut > 0) /\ ~xfer["out"].on /\ ~Waits("psent")
      /\ ~Says(evmsgq, Ev("out", "DONE"))
  <2>1. "out" \notin dma_flag /\ ~(GoneOut > 0) /\ ~Waits("psent")
    BY <1>2 DEF OutInv, AclInv, TurnInv
  <2>2. ~Told(evmsgq, "out") /\ ~xfer["out"].on
    BY <2>1 DEF LinkInv, OneTransfer, Pipes
  <2>3. QED
    BY <2>1, <2>2 DEF Told, Says, Ev
<1>6. ~Says(evmsgq', Ev("out", "DONE"))
  <2>1. Ev("out", "DONE") # Ev("ctl", "DONE") /\ "ctl" \in Channels
    BY DEF Ev, Channels
  <2>2. QED
    BY <1>1, <1>5, <2>1, NotifySays
<1>7. OutTypes'
  BY <1>1, <1>3, <1>4 DEF OutInv, OutTypes, Part
<1>8. ~Waits("psent")' /\ GoneOut' = GoneOut
  BY <1>1, <1>5 DEF Waits, GoneOut
<1>9. AclInv'
  BY <1>1, <1>5, <1>6, <1>8 DEF AclInv
<1>10. CmdInv' /\ TurnInv'
  <2>1. ctl' = <<>> => Sent(1)'
    BY <1>1, <1>3 DEF Sent
  <2>2. ctl' # <<>> => ctl' = <<"data">> /\ NotBegun'
    BY <1>1, <1>2, <1>3 DEF NotBegun, Whole
  <2>3. ctl' \in {<<"setup", "data">>, <<"data">>, <<>>}
    BY <1>3
  <2>4. CmdInv'
    BY <1>1, <1>2, <2>1, <2>2, <2>3 DEF CmdInv
  <2>5. TurnInv'
    BY <1>1, <1>2, <1>4, <1>8 DEF TurnInv
  <2>6. QED
    BY <2>4, <2>5
<1>11. QED
  BY <1>2, <1>3, <1>7, <1>9, <1>10 DEF OutInv

LEMMA InterruptKeepsOut ==
  ASSUME LinkInv, OutInv, Sof \/ (\E p \in Inputs : InputEnds(p)) \/ AclEmpty \/ OutRefused
  PROVE  OutInv' /\ arrived' = arrived
<1>1. /\ UNCHANGED <<arrived, outgoing, dongle_flag, can_send, ctl, req_flags, usbh_out_state,
                     offset, dma_flag, pc, hcievq>>
      /\ xfer'["out"].on => xfer["out"].on
  BY DEF Sof, InputEnds, Receive, NothingThere, AclEmpty, OutRefused, UnchangedByUsb, taskVars,
         hostVars, wireVars, LinkInv, LinkTypes, Off, Pipes, Inputs
<1>2. Says(evmsgq', Ev("out", "DONE")) => Says(evmsgq, Ev("out", "DONE"))
  <2> DEFINE o == Ev("out", "DONE")
  <2>1. /\ SOF \in Events /\ Ev("acl", "DONE") \in Events /\ Ev("out", "NOTREADY") \in Events
        /\ o \notin {SOF, Ev("acl", "DONE"), Ev("out", "NOTREADY")}
        /\ \A p \in Inputs : p \in Channels /\ \A st : Ev(p, st) # o
    BY DEF SOF, Ev, Events, Channels, Pipes, Inputs
  <2>2. evmsgq \in Seq(Events)
    BY DEF LinkInv, LinkTypes
  <2>3. CASE Sof \/ AclEmpty \/ OutRefused
    <3>1. PICK ev \in {SOF, Ev("acl", "DONE"), Ev("out", "NOTREADY")} :
            evmsgq' \in {evmsgq, Append(evmsgq, ev)}
      BY <2>3 DEF Sof, AclEmpty, OutRefused
    <3>2. ev \in Events /\ ev # o
      BY <2>1
    <3>3. Says(Append(evmsgq, ev), o) <=> Says(evmsgq, o)
      BY <2>2, <3>2, AppendTells
    <3>4. QED
      BY <3>1, <3>3
  <2>4. ASSUME NEW p \in Inputs, InputEnds(p) PROVE Says(evmsgq', o) => Says(evmsgq, o)
    <3>1. PICK st \in {"DONE", "NOTREADY"} : Notify(p, p, st)
      BY <2>4 DEF InputEnds, Receive, NothingThere
    <3>2. p \in Channels /\ o # Ev(p, st)
      BY <2>1
    <3>3. QED
      BY <3>1, <3>2, NotifySays
  <2>5. QED
    BY <2>3, <2>4
<1>3. Waits("psent")' <=> Waits("psent")
  BY <1>1 DEF Waits
<1>4. QED
  BY <1>1, <1>2, <1>3, OutSame

(* The rest goes out, after what has been sent.                            *)
LEMMA SofKeepsOut == LinkInv /\ OutInv /\ HandleSof => OutInv'
<1> SUFFICES ASSUME LinkInv, OutInv, HandleSof PROVE OutInv'
  OBVIOUS
<1>1. PICK begun, on :
        /\ begun \subseteq Inputs /\ on = begun \cup (IF MoreToSend(begun) THEN {"out"} ELSE {})
        /\ dma_flag' = dma_flag \cup on
        /\ xfer' = [p \in Pipes |-> IF p \in on THEN On ELSE xfer[p]]
  BY DEF HandleSof, Started
<1>2. /\ Take("sof", "SOF") /\ hcievq = <<>> /\ pc = "get" /\ pc' = "flags"
      /\ UNCHANGED <<arrived, outgoing, dongle_flag, can_send, ctl, req_flags, usbh_out_state,
                     offset, hcievq>>
  BY DEF HandleSof, Take, DongleTurn, hostVars
<1>3. \A e : Says(evmsgq', e) => Says(evmsgq, e)
  BY <1>2, TakeTells
<1>4. ~Waits("psent") /\ ~Waits("psent")'
  BY <1>2 DEF Waits
<1>5. CASE ~MoreToSend(begun)
  <2>1. "out" \notin on
    BY <1>1, <1>5 DEF Inputs
  <2>2. xfer'["out"] = xfer["out"] /\ ("out" \in dma_flag' <=> "out" \in dma_flag)
    BY <1>1, <2>1 DEF Pipes
  <2>3. QED
    BY <1>2, <1>3, <1>4, <2>2, OutSame
<1>6. CASE MoreToSend(begun)
  <2>1. "out" \notin dma_flag /\ GoneOut > 0
    BY <1>6 DEF MoreToSend, GoneOut
  <2>2. GoneOut < outgoing.len /\ Sent(GoneOut) /\ outgoing.kind = "ACL" /\ dongle_flag = {}
        /\ ~can_send
    BY <2>1 DEF OutInv, AclInv
  <2>3. ~Says(evmsgq', Ev("out", "DONE"))
    <3>1. ~Told(evmsgq, "out")
      BY <2>1 DEF LinkInv, OneTransfer, Pipes
    <3>2. QED
      BY <1>3, <3>1 DEF Says, Told, Ev
  <2>4. OutTypes' /\ GoneOut' = GoneOut /\ Sent(GoneOut)'
    BY <1>2, <2>2 DEF OutInv, OutTypes, GoneOut, Sent
  <2>5. AclInv'
    BY <1>2, <1>4, <2>1, <2>2, <2>3, <2>4 DEF AclInv, LinkInv, LinkTypes
  <2>6. CmdInv' /\ TurnInv'
    BY <1>2, <1>4 DEF OutInv, CmdInv, TurnInv, Whole, NotBegun, Sent
  <2>7. QED
    BY <2>4, <2>5, <2>6 DEF OutInv
<1>7. QED
  BY <1>5, <1>6

LEMMA InputHandledKeepsOut ==
  LinkInv /\ OutInv /\ (HandleNotReady \/ HandleEvDone \/ HandleAclDone) => OutInv'
<1> SUFFICES ASSUME LinkInv, OutInv, HandleNotReady \/ HandleEvDone \/ HandleAclDone
             PROVE  OutInv'
  OBVIOUS
<1>1. /\ UNCHANGED <<arrived, outgoing, dongle_flag, can_send, ctl, req_flags, usbh_out_state>>
      /\ pc' = "flags"
  BY DEF HandleNotReady, HandleEvDone, HandleAclDone, hostVars, wireVars
<1>2. PICK p \in Pipes, st \in {"DONE", "NOTREADY"} : Take(p, st)
  BY DEF HandleNotReady, HandleEvDone, HandleAclDone, Pipes, Inputs
<1>3. hcievq = <<>> /\ pc = "get" /\ ~Waits("psent") /\ \A e : Says(evmsgq', e) => Says(evmsgq, e)
  BY <1>2, TakeTells DEF Take, DongleTurn, Waits, Channels
<1>4. offset'["out"] = offset["out"] /\ xfer'["out"] = xfer["out"]
      /\ ("out" \in dma_flag' <=> "out" \in dma_flag)
  <2>1. CASE HandleNotReady
    BY <2>1 DEF HandleNotReady, Freed, wireVars
  <2>2. CASE HandleEvDone
    BY <2>2 DEF HandleEvDone, ReadSize, LinkInv, LinkTypes, Pipes
  <2>3. CASE HandleAclDone
    BY <2>3 DEF HandleAclDone, ReadSize, LinkInv, LinkTypes, Pipes
  <2>4. QED
    BY <2>1, <2>2, <2>3
<1>5. ~Waits("psent")'
  <2>1. \/ hcievq' = <<>>
        \/ \E b, n : \E q \in Inputs : hcievq' = Append(<<>>, HciPacket(q, b, n))
    BY <1>3 DEF HandleNotReady, HandleEvDone, HandleAclDone, PostHCIEvent, Inputs
  <2>2. ASSUME NEW b, NEW n, NEW q \in Inputs, hcievq' = Append(<<>>, HciPacket(q, b, n))
        PROVE  ~Waits("psent")'
    <3>1. Head(hcievq') = HciPacket(q, b, n)
      BY <2>2
    <3>2. HciPacket(q, b, n).type = q
      BY DEF HciPacket
    <3>3. QED
      BY <3>1, <3>2 DEF Waits, Inputs
  <2>3. QED
    BY <2>1, <2>2 DEF Waits
<1>6. QED
  BY <1>1, <1>3, <1>4, <1>5, OutSame

(* The last part is out: btstack is told.  Or there is more to send.       *)
LEMMA OutHandledKeepsOut == LinkInv /\ OutInv /\ HandleOutDone => OutInv'
<1> SUFFICES ASSUME LinkInv, OutInv, HandleOutDone PROVE OutInv'
  OBVIOUS
<1>1. /\ Take("out", "DONE") /\ hcievq = <<>> /\ pc = "get" /\ dma_flag' = dma_flag \ {"out"}
      /\ UNCHANGED <<arrived, outgoing, dongle_flag, can_send, ctl, req_flags, usbh_out_state,
                     xfer>>
  BY DEF HandleOutDone, Take, DongleTurn, wireVars, hostVars
<1>2. OneTransfer("out") /\ GoneOut \in Nat
  BY DEF LinkInv, LinkTypes, Pipes, GoneOut
<1>3. Told(evmsgq, "out") /\ Says(evmsgq, Ev("out", "DONE")) /\ ~Told(evmsgq', "out")
  BY <1>1, <1>2, TakeTells DEF OneTransfer, Channels, Pipes
<1>4. "out" \in dma_flag /\ ~xfer["out"].on /\ ~Says(evmsgq', Ev("out", "DONE"))
  BY <1>2, <1>3 DEF OneTransfer, Says, Told, Ev
<1>5. /\ GoneOut < outgoing.len /\ Sent(GoneOut + 1)
      /\ outgoing.kind = "ACL" /\ dongle_flag = {} /\ ~can_send
  BY <1>3, <1>4 DEF OutInv, AclInv
<1>6. /\ outgoing \in [kind : {"CMD", "ACL"}, id : Nat, len : Nat \ {0}] /\ outgoing # Nobody
      /\ usbh_out_state # "CMD" /\ ctl = <<>>
  BY <1>1, <1>5 DEF OutInv, OutTypes, CmdInv, Nobody
<1>7. OutTypes'
  BY <1>1 DEF OutInv, OutTypes
<1>8. CASE LastPart
  <2>1. offset' = [offset EXCEPT !["out"] = 0] /\ hcievq' = <<Psent>> /\ pc' = "psent"
    BY <1>1, <1>8 DEF HandleOutDone, PostHCIEvent
  <2>2. GoneOut' = 0 /\ Waits("psent")'
    <3>1. Head(hcievq') = Psent /\ Psent.type = "psent"
      BY <2>1 DEF Psent, HciPacket
    <3>2. GoneOut' = 0
      BY <2>1 DEF GoneOut, LinkInv, LinkTypes, Pipes
    <3>3. QED
      BY <2>1, <3>1, <3>2 DEF Waits
  <2>3. Whole'
    BY <1>1, <1>2, <1>5, <1>6, <1>8 DEF Whole, Sent, Part, LastPart, GoneOut
  <2>4. AclInv'
    BY <1>1, <1>4, <2>2 DEF AclInv
  <2>5. CmdInv' /\ TurnInv'
    BY <1>1, <1>5, <1>6, <2>1, <2>2, <2>3 DEF CmdInv, TurnInv
  <2>6. QED
    BY <1>7, <2>4, <2>5 DEF OutInv
<1>9. CASE ~LastPart
  <2>1. offset' = [offset EXCEPT !["out"] = @ + 1] /\ hcievq' = hcievq /\ pc' = "flags"
    BY <1>9 DEF HandleOutDone
  <2>2. GoneOut' = GoneOut + 1 /\ ~Waits("psent")'
    BY <1>1, <2>1 DEF GoneOut, LinkInv, LinkTypes, Pipes, Waits
  <2>3. GoneOut' < outgoing'.len /\ Sent(GoneOut)' /\ GoneOut' # 0
    BY <1>1, <1>2, <1>5, <1>6, <1>9, <2>2 DEF Sent, LastPart, GoneOut
  <2>4. AclInv'
    BY <1>1, <1>4, <1>5, <2>2, <2>3 DEF AclInv
  <2>5. CmdInv' /\ TurnInv'
    BY <1>1, <1>5, <1>6, <2>1, <2>2 DEF CmdInv, TurnInv
  <2>6. QED
    BY <1>7, <2>4, <2>5 DEF OutInv
<1>10. QED
  BY <1>8, <1>9

(* The answer to a command.                                                *)
LEMMA CtlHandledKeepsOut == LinkInv /\ OutInv /\ HandleCtlDone => OutInv'
<1> SUFFICES ASSUME LinkInv, OutInv, HandleCtlDone PROVE OutInv'
  OBVIOUS
<1>1. /\ Take("ctl", "DONE") /\ hcievq = <<>> /\ pc = "get"
      /\ UNCHANGED <<arrived, outgoing, dongle_flag, can_send, ctl, req_flags, usbh_out_state,
                     xfer, offset, dma_flag>>
  BY DEF HandleCtlDone, Take, DongleTurn, wireVars, hostVars
<1>2. /\ \A e : Says(evmsgq', e) => Says(evmsgq, e)
      /\ ~Waits("psent")
  BY <1>1, TakeTells DEF Channels, Waits
<1>3. CASE usbh_out_state # "CMD"
  <2>1. hcievq' = hcievq /\ pc' = "flags" /\ ~Waits("psent")'
    BY <1>1, <1>3 DEF HandleCtlDone, Waits
  <2>2. QED
    BY <1>1, <1>2, <2>1, OutSame
<1>4. CASE usbh_out_state = "CMD"
  <2>1. hcievq' = <<Psent>> /\ pc' = "csent"
    BY <1>1, <1>4 DEF HandleCtlDone, PostHCIEvent
  <2>2. Waits("psent")'
    <3>1. Head(hcievq') = Psent /\ Psent.type = "psent"
      BY <2>1 DEF Psent, HciPacket
    <3>2. QED
      BY <2>1, <3>1 DEF Waits
  <2>3. outgoing.kind = "CMD" /\ dongle_flag = {} /\ Sent(1) /\ ~can_send /\ ctl = <<>>
    BY <1>1, <1>4 DEF OutInv, CmdInv
  <2>4. Whole' /\ outgoing # Nobody
    BY <1>1, <2>3 DEF OutInv, OutTypes, Whole, Sent, Part, Nobody
  <2>5. OutTypes' /\ GoneOut' = GoneOut
    BY <1>1 DEF OutInv, OutTypes, GoneOut
  <2>6. "out" \notin dma_flag /\ ~(GoneOut > 0) /\ ~xfer["out"].on
        /\ ~Says(evmsgq, Ev("out", "DONE"))
    <3>1. "out" \notin dma_flag /\ ~(GoneOut > 0)
      BY <2>3 DEF OutInv, AclInv
    <3>2. ~Told(evmsgq, "out") /\ ~xfer["out"].on
      BY <3>1 DEF LinkInv, OneTransfer, Pipes
    <3>3. QED
      BY <3>1, <3>2 DEF Told, Says, Ev
  <2>7. AclInv'
    BY <1>1, <1>2, <2>5, <2>6 DEF AclInv
  <2>8. CmdInv' /\ TurnInv'
    BY <1>1, <2>1, <2>2, <2>3, <2>4 DEF CmdInv, TurnInv
  <2>9. QED
    BY <2>5, <2>7, <2>8 DEF OutInv
<1>5. QED
  BY <1>3, <1>4

(* The answer has been given, and the packet is back.                      *)
LEMMA SendNowKeepsOut == LinkInv /\ OutInv /\ SendNow => OutInv'
<1> SUFFICES ASSUME LinkInv, OutInv, SendNow PROVE OutInv'
  OBVIOUS
<1>1. /\ hcievq = <<>> /\ pc \in {"psent", "csent"} /\ can_send' = TRUE /\ pc' = "flags"
      /\ usbh_out_state' = NextOutState(pc)
      /\ UNCHANGED <<arrived, outgoing, dongle_flag, ctl, req_flags, offset, xfer, dma_flag,
                     evmsgq, hcievq>>
  BY DEF SendNow, DongleTurn, wireVars
<1>2. ~Waits("psent") /\ ~Waits("psent")'
  BY <1>1 DEF Waits
<1>3. outgoing = Nobody /\ outgoing.kind = "none" /\ Whole /\ dongle_flag = {} /\ ctl = <<>>
  BY <1>1, <1>2 DEF OutInv, TurnInv, CmdInv, Nobody
<1>4. "out" \notin dma_flag /\ ~(GoneOut > 0) /\ ~xfer["out"].on
      /\ ~Says(evmsgq, Ev("out", "DONE"))
  <2>1. "out" \notin dma_flag /\ ~(GoneOut > 0)
    BY <1>3 DEF OutInv, AclInv
  <2>2. ~Told(evmsgq, "out") /\ ~xfer["out"].on
    BY <2>1 DEF LinkInv, OneTransfer, Pipes
  <2>3. QED
    BY <2>1, <2>2 DEF Told, Says, Ev
<1>5. usbh_out_state' # "CMD"
  BY <1>1 DEF NextOutState, OutInv, CmdInv
<1>6. OutTypes' /\ GoneOut' = GoneOut
  BY <1>1 DEF OutInv, OutTypes, GoneOut
<1>7. AclInv'
  BY <1>1, <1>4, <1>6 DEF AclInv
<1>8. Whole'
  BY <1>1, <1>3 DEF Whole
<1>9. CmdInv' /\ TurnInv'
  BY <1>1, <1>2, <1>3, <1>5, <1>8 DEF CmdInv, TurnInv
<1>10. QED
  BY <1>6, <1>7, <1>9 DEF OutInv

(* A command is begun: nothing else is being sent.                         *)
LEMMA SendCmdKeepsOut == LinkInv /\ OutInv /\ SendCmd => OutInv'
<1> SUFFICES ASSUME LinkInv, OutInv, SendCmd PROVE OutInv'
  OBVIOUS
<1>1. /\ hcievq = <<>> /\ pc = "flags" /\ pc' = "ctl" /\ can_send' = FALSE
      /\ usbh_out_state' = "CMD" /\ ctl' = <<"setup", "data">> /\ req_flags' = dongle_flag
      /\ "CMD" \in dongle_flag
      /\ UNCHANGED <<arrived, outgoing, dongle_flag, offset, xfer, dma_flag, evmsgq, hcievq>>
  BY DEF SendCmd, DongleTurn
<1>2. outgoing.kind = "CMD" /\ dongle_flag = {"CMD"} /\ NotBegun
  BY <1>1 DEF OutInv, TurnInv
<1>3. ~Waits("psent")'
  BY <1>1 DEF Waits
<1>4. NotBegun' /\ outgoing' # Nobody
  BY <1>1, <1>2 DEF NotBegun, Whole, Nobody
<1>5. OutTypes'
  BY <1>1 DEF OutInv, OutTypes
<1>6. AclInv'
  BY <1>1, <1>2, <1>3 DEF OutInv, AclInv, GoneOut, NotBegun, Whole, Sent
<1>7. CmdInv'
  BY <1>1, <1>2, <1>4 DEF CmdInv
<1>8. TurnInv'
  BY <1>1, <1>2, <1>3, <1>4 DEF TurnInv
<1>9. QED
  BY <1>5, <1>6, <1>7, <1>8 DEF OutInv

(* The command is out; there is no ACL packet with it.                     *)
LEMMA CmdOverKeepsOut == LinkInv /\ OutInv /\ CmdOver => OutInv'
<1> SUFFICES ASSUME LinkInv, OutInv, CmdOver PROVE OutInv'
  OBVIOUS
<1>1. /\ hcievq = <<>> /\ pc = "ctl" /\ ctl = <<>> /\ pc' = "get"
      /\ UNCHANGED <<arrived, outgoing, usbh_out_state, ctl, evmsgq, hcievq>>
  BY DEF CmdOver, DongleTurn, SendAclIn
<1>2. /\ outgoing.kind = "CMD" /\ usbh_out_state = "CMD" /\ Sent(1) /\ ~can_send
      /\ dongle_flag = {"CMD"} /\ "ACL" \notin req_flags
  BY <1>1 DEF OutInv, CmdInv
<1>3. dongle_flag' = {} /\ UNCHANGED <<can_send, offset, dma_flag, xfer>>
  BY <1>2 DEF CmdOver, SendAclIn
<1>4. ~Waits("psent")' /\ outgoing' # Nobody
  BY <1>1, <1>2 DEF Waits, Nobody
<1>5. OutTypes'
  BY <1>1 DEF OutInv, OutTypes
<1>6. Sent(1)'
  BY <1>1, <1>2 DEF Sent
<1>7. "out" \notin dma_flag /\ ~(GoneOut > 0) /\ GoneOut' = GoneOut
  BY <1>2, <1>3 DEF OutInv, AclInv, GoneOut
<1>8. ~Told(evmsgq, "out") /\ ~xfer["out"].on /\ ~Says(evmsgq, Ev("out", "DONE"))
  BY <1>7 DEF LinkInv, OneTransfer, Pipes, Told, Says, Ev
<1>9. AclInv'
  BY <1>1, <1>3, <1>7, <1>8 DEF AclInv
<1>10. CmdInv' /\ TurnInv'
  BY <1>1, <1>2, <1>3, <1>4, <1>6 DEF CmdInv, TurnInv
<1>11. QED
  BY <1>5, <1>9, <1>10 DEF OutInv

(* The first part of an ACL packet, if there is one and no other goes out. *)
LEMMA SendAclKeepsOut == LinkInv /\ OutInv /\ SendAcl => OutInv'
<1> SUFFICES ASSUME LinkInv, OutInv, SendAcl PROVE OutInv'
  OBVIOUS
<1>1. /\ hcievq = <<>> /\ pc = "flags" /\ pc' = "get"
      /\ UNCHANGED <<arrived, outgoing, usbh_out_state, ctl, evmsgq, hcievq>>
  BY DEF SendAcl, DongleTurn, SendAclIn
<1>2. ~Waits("psent") /\ ~Waits("psent")'
  BY <1>1 DEF Waits
<1>3. OutTypes'
  BY <1>1 DEF OutInv, OutTypes
<1>4. CASE ~("ACL" \in dongle_flag /\ "out" \notin dma_flag)
  <2>1. UNCHANGED <<dongle_flag, can_send, offset, dma_flag, xfer>>
    BY <1>4 DEF SendAcl, SendAclIn
  <2>2. AclInv'
    BY <1>1, <1>2, <2>1 DEF OutInv, AclInv, GoneOut, NotBegun, Whole, Sent
  <2>3. CmdInv' /\ TurnInv'
    BY <1>1, <1>2, <2>1 DEF OutInv, CmdInv, TurnInv, NotBegun, Whole, Sent
  <2>4. QED
    BY <1>3, <2>2, <2>3 DEF OutInv
<1>5. CASE "ACL" \in dongle_flag /\ "out" \notin dma_flag
  <2>1. /\ can_send' = FALSE /\ offset' = [offset EXCEPT !["out"] = 0]
        /\ dma_flag' = dma_flag \cup {"out"} /\ xfer' = [xfer EXCEPT !["out"] = On]
        /\ dongle_flag' = dongle_flag \ {"ACL"}
    BY <1>5 DEF SendAcl, SendAclIn
  <2>2. outgoing.kind = "ACL" /\ dongle_flag = {"ACL"} /\ NotBegun /\ outgoing # Nobody
    BY <1>1, <1>5 DEF OutInv, TurnInv, Nobody
  <2>3. outgoing.len > 0 /\ usbh_out_state # "CMD" /\ ctl = <<>>
    BY <1>1, <2>2 DEF OutInv, OutTypes, CmdInv
  <2>4. GoneOut' = 0
    BY <2>1 DEF GoneOut, LinkInv, LinkTypes, Pipes
  <2>5. ~Says(evmsgq, Ev("out", "DONE"))
    BY <1>5 DEF LinkInv, OneTransfer, Pipes, Told, Says, Ev
  <2>6. NotBegun'
    BY <1>1, <2>2 DEF NotBegun, Whole
  <2>7. AclInv'
    BY <1>1, <1>2, <2>1, <2>2, <2>3, <2>4, <2>5, <2>6 DEF AclInv
  <2>8. CmdInv' /\ TurnInv'
    BY <1>1, <1>2, <2>1, <2>2, <2>3 DEF CmdInv, TurnInv
  <2>9. QED
    BY <1>3, <2>7, <2>8 DEF OutInv
<1>6. QED
  BY <1>4, <1>5

LEMMA DeliverKeepsOut == LinkInv /\ PacketsInv /\ OutInv /\ Deliver => OutInv'
<1> SUFFICES ASSUME LinkInv, PacketsInv, OutInv, Deliver PROVE OutInv'
  OBVIOUS
<1>1. /\ hcievq # <<>> /\ hcievq' = Tail(hcievq) /\ hcievq = <<Head(hcievq)>>
      /\ outgoing' = (IF Waits("psent") THEN Nobody ELSE outgoing)
      /\ UNCHANGED <<arrived, dongle_flag, can_send, ctl, req_flags, usbh_out_state, offset,
                     xfer, dma_flag, evmsgq, pc>>
  BY DEF Deliver, taskVars, PacketsInv, PacketTypes, OneWaits, Waits
<1>2. hcievq' = <<>>
  <2>1. \A x : Tail(<<x>>) = <<>>
    OBVIOUS
  <2>2. QED
    BY <1>1, <2>1
<1>3. ~Waits("psent")'
  BY <1>2 DEF Waits
<1>4. CASE ~Waits("psent")
  BY <1>1, <1>3, <1>4, OutSame
<1>5. CASE Waits("psent")
  <2>1. outgoing' = Nobody /\ outgoing'.kind = "none"
    BY <1>1, <1>5 DEF Nobody
  <2>2. Whole /\ dongle_flag = {} /\ pc \in {"psent", "csent"} /\ ~can_send
    BY <1>5 DEF OutInv, TurnInv
  <2>3. "out" \notin dma_flag /\ ~(GoneOut > 0) /\ GoneOut' = GoneOut
    BY <1>1, <1>5 DEF OutInv, AclInv, GoneOut
  <2>4. ~xfer["out"].on /\ ~Says(evmsgq, Ev("out", "DONE"))
    BY <2>3 DEF LinkInv, OneTransfer, Pipes, Told, Says, Ev
  <2>5. OutTypes' /\ Whole'
    BY <1>1, <2>1, <2>2 DEF OutInv, OutTypes, Whole
  <2>6. AclInv'
    BY <1>1, <2>3, <2>4 DEF AclInv
  <2>7. CmdInv' /\ TurnInv'
    BY <1>1, <1>3, <2>1, <2>2, <2>5 DEF OutInv, CmdInv, TurnInv
  <2>8. QED
    BY <2>5, <2>6, <2>7 DEF OutInv
<1>6. QED
  BY <1>4, <1>5

(* btstack sends: the packet before has been sent, and answered.           *)
LEMMA SendKeepsOut ==
  ASSUME LinkInv, OutInv, NEW kind \in {"CMD", "ACL"}, NEW len \in Nat \ {0},
         kind = "CMD" => len = 1, Send(kind, len)
  PROVE  OutInv'
<1>1. /\ outgoing = Nobody /\ can_send
      /\ outgoing' = [kind |-> kind, id |-> arrived.id + 1, len |-> len]
      /\ dongle_flag' = dongle_flag \cup {kind}
      /\ UNCHANGED <<arrived, can_send, ctl, req_flags, usbh_out_state, offset, xfer, dma_flag,
                     evmsgq, pc, hcievq>>
  BY DEF Send, taskVars, wireVars
<1>2. outgoing.kind = "none" /\ Whole /\ dongle_flag = {}
  BY <1>1 DEF Nobody, OutInv, TurnInv
<1>3. /\ "out" \notin dma_flag /\ ~(GoneOut > 0) /\ GoneOut' = GoneOut
      /\ pc \notin {"ctl", "psent", "csent"} /\ usbh_out_state # "CMD" /\ ctl = <<>>
  BY <1>1, <1>2 DEF OutInv, AclInv, CmdInv, TurnInv, GoneOut
<1>4. ~xfer["out"].on /\ ~Says(evmsgq, Ev("out", "DONE"))
  BY <1>3 DEF LinkInv, OneTransfer, Pipes, Told, Says, Ev
<1>5. ~Waits("psent")'
  BY <1>1 DEF OutInv, TurnInv, Waits
<1>6. OutTypes' /\ NotBegun' /\ outgoing' # Nobody
  <2>1. arrived.id + 1 \in Nat
    BY DEF OutInv, OutTypes
  <2>2. QED
    BY <1>1, <1>2, <2>1 DEF OutInv, OutTypes, NotBegun, Whole, Nobody
<1>7. AclInv'
  BY <1>1, <1>3, <1>4 DEF AclInv
<1>8. CmdInv' /\ TurnInv'
  BY <1>1, <1>2, <1>3, <1>5, <1>6 DEF CmdInv, TurnInv
<1>9. QED
  BY <1>6, <1>7, <1>8 DEF OutInv

LEMMA SendsKeepOut ==
  ASSUME LinkInv, OutInv, Send("CMD", 1) \/ (\E len \in 1 .. MaxParts : Send("ACL", len))
  PROVE  OutInv'
<1>1. CASE Send("CMD", 1)
  BY <1>1, SendKeepsOut
<1>2. ASSUME NEW len \in 1 .. MaxParts, Send("ACL", len) PROVE OutInv'
  <2>1. len \in Nat \ {0}
    BY BtAssumption
  <2>2. QED
    BY <1>2, <2>1, SendKeepsOut
<1>3. QED
  BY <1>1, <1>2

LEMMA OutStep == LinkInv /\ PacketsInv /\ OutInv /\ [Next]_vars => OutInv'
<1> SUFFICES ASSUME LinkInv, PacketsInv, OutInv, [Next]_vars PROVE OutInv'
  OBVIOUS
<1>1. CASE Sof \/ (\E p \in Inputs : InputEnds(p)) \/ AclEmpty \/ OutRefused
  BY <1>1, InterruptKeepsOut
<1>2. CASE OutDone \/ CtlStage
  BY <1>2, OutDoneKeepsOut, CtlStageKeepsOut
<1>3. CASE HandleSof \/ HandleNotReady \/ HandleEvDone \/ HandleAclDone
  BY <1>3, SofKeepsOut, InputHandledKeepsOut
<1>4. CASE HandleOutDone \/ HandleCtlDone \/ SendNow \/ SendCmd \/ CmdOver \/ SendAcl
  BY <1>4, OutHandledKeepsOut, CtlHandledKeepsOut, SendNowKeepsOut, SendCmdKeepsOut,
     CmdOverKeepsOut, SendAclKeepsOut
<1>5. CASE Deliver
  BY <1>5, DeliverKeepsOut
<1>6. CASE Send("CMD", 1) \/ (\E len \in 1 .. MaxParts : Send("ACL", len))
  BY <1>6, SendsKeepOut
<1>7. CASE UNCHANGED vars
  <2>1. /\ UNCHANGED <<arrived, outgoing, dongle_flag, can_send, ctl, req_flags, usbh_out_state,
                       offset, xfer, dma_flag, evmsgq, pc, hcievq>>
    BY <1>7 DEF vars, taskVars, wireVars, hostVars
  <2>2. Waits("psent")' <=> Waits("psent")
    BY <2>1 DEF Waits
  <2>3. QED
    BY <2>1, <2>2, OutSame
<1>8. QED
  BY <1>1, <1>2, <1>3, <1>4, <1>5, <1>6, <1>7 DEF Next, Dongle

(* Only the end of a part changes what the dongle has got.                 *)
LEMMA ArrivedStep ==
  LinkInv /\ OutInv /\ [Next]_vars =>
    (arrived' # arrived =>
        \/ /\ arrived.k = arrived.len
           /\ arrived'.id = arrived.id + 1 /\ arrived'.k = 1
        \/ /\ arrived.k < arrived.len
           /\ arrived' = [arrived EXCEPT !.k = @ + 1])
<1> SUFFICES ASSUME LinkInv, OutInv, [Next]_vars, arrived' # arrived
             PROVE  \/ /\ arrived.k = arrived.len
                       /\ arrived'.id = arrived.id + 1 /\ arrived'.k = 1
                    \/ /\ arrived.k < arrived.len
                       /\ arrived' = [arrived EXCEPT !.k = @ + 1]
  OBVIOUS
<1>1. OutDone \/ CtlStage
  <2>1. CASE Sof \/ (\E p \in Inputs : InputEnds(p)) \/ AclEmpty \/ OutRefused
    BY <2>1, InterruptKeepsOut
  <2>2. CASE HandleSof \/ HandleNotReady \/ HandleEvDone \/ HandleAclDone \/ HandleOutDone
               \/ HandleCtlDone \/ SendNow \/ SendCmd \/ CmdOver \/ SendAcl
    BY <2>2 DEF HandleSof, HandleNotReady, HandleEvDone, HandleAclDone, HandleOutDone,
                HandleCtlDone, SendNow, SendCmd, CmdOver, SendAcl, SendAclIn, wireVars
  <2>3. CASE Deliver \/ (\E kind, len : Send(kind, len)) \/ UNCHANGED vars
    BY <2>3 DEF Deliver, Send, vars, wireVars
  <2>4. QED
    BY <2>1, <2>2, <2>3 DEF Next, Dongle
<1>2. GoneOut \in Nat
  BY DEF GoneOut, LinkInv, LinkTypes, Pipes
<1>3. CASE OutDone
  <2>1. /\ GoneOut < outgoing.len /\ (IF GoneOut = 0 THEN NotBegun ELSE Sent(GoneOut))
        /\ arrived' = Part(outgoing.id, GoneOut + 1, outgoing.len)
    BY <1>3, OutDoneKeepsOut
  <2>2. QED
    BY <1>2, <2>1 DEF NotBegun, Whole, Sent, Part
<1>4. CASE CtlStage
  BY <1>4, CtlStageKeepsOut DEF NotBegun, Whole, Part
<1>5. QED
  BY <1>1, <1>3, <1>4

(* What the task hands over to btstack by pointer stays in its buffer,     *)
(* whole, until btstack has looked at it, though the buffer may have been  *)
(* put back among the free ones (HandleEvDone).                            *)
THEOREM PacketsWaitIntact == BtSpec => []DeliveredIntact
<1>1. PacketsInv => DeliveredIntact
  <2> SUFFICES ASSUME PacketsInv, NEW i \in DOMAIN hcievq, hcievq[i].type \in Inputs
               PROVE  /\ hcievq[i].size > 0
                      /\ \A k \in 1 .. hcievq[i].size :
                           mem[hcievq[i].type][hcievq[i].buffer][k]
                             = Part(delivered[hcievq[i].type] + 1, k, hcievq[i].size)
    BY DEF DeliveredIntact
  <2> DEFINE e == Head(hcievq)
  <2>1. hcievq # <<>> /\ hcievq = <<e>>
    <3>1. hcievq # <<>>
      OBVIOUS
    <3>2. QED
      BY <3>1 DEF PacketsInv, PacketTypes, OneWaits
  <2>2. hcievq[i] = e
    <3>1. DOMAIN hcievq = {1}
      BY <2>1
    <3>2. QED
      BY <3>1
  <2>3. e.type \in Inputs /\ Waits(e.type)
    BY <2>1, <2>2 DEF Waits
  <2>4. WaitsWhole(e.type, e) /\ PacketInv(e.type)
    BY <2>3 DEF PacketsInv, PacketInv
  <2>5. source[e.type].id = delivered[e.type] + 1 /\ e.size = source[e.type].len
    BY <2>3, <2>4 DEF PacketInv, WaitsWhole
  <2>6. QED
    BY <2>2, <2>4, <2>5 DEF WaitsWhole, Intact
<1>2. QED
  BY <1>1, BtStarts, BtStep, PacketsStart, PacketsStep, PTL DEF BtSpec

(* The parts of the packets btstack sends reach the dongle in order, each  *)
(* once, and before btstack has its only buffer back.                      *)
THEOREM PartsGoInOrder == BtSpec => SentIntact
<1>1. LinkInv /\ OutInv /\ [Next]_vars =>
        [ arrived' # arrived =>
            \/ /\ arrived.k = arrived.len
               /\ arrived'.id = arrived.id + 1 /\ arrived'.k = 1
            \/ /\ arrived.k < arrived.len
               /\ arrived' = [arrived EXCEPT !.k = @ + 1] ]_vars
  BY ArrivedStep
<1>2. QED
  BY <1>1, BtStarts, BtStep, PacketsStart, PacketsStep, OutStarts, OutStep, PTL
    DEF BtSpec, SentIntact
=============================================================================
