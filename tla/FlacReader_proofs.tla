-------------------------- MODULE FlacReader_proofs --------------------------
(***************************************************************************)
(* Proofs about FlacReader for every number of files, blocks and buffers,  *)
(* every queue depth of at least two, and with or without card errors.     *)
(***************************************************************************)
EXTENDS FlacReader, TLAPS

-----------------------------------------------------------------------------
(* The operators the model is built from.                                  *)

LEMMA PutCmdType ==
  ASSUME NEW q \in Seq(Commands), Len(q) <= MIXREADQ_DEPTH, NEW cmd \in Commands
  PROVE  /\ PutCmd(q, cmd) \in Seq(Commands)
         /\ Len(PutCmd(q, cmd)) <= MIXREADQ_DEPTH
  BY DepthAssumption DEF PutCmd

LEMMA TailType ==
  ASSUME NEW q \in Seq(Commands), Len(q) <= MIXREADQ_DEPTH, q # <<>>
  PROVE  /\ Tail(q) \in Seq(Commands)
         /\ Len(Tail(q)) <= MIXREADQ_DEPTH
  BY DepthAssumption

LEMMA TailShape ==
  ASSUME NEW q \in Seq(Commands), q # <<>>
  PROVE  /\ Len(q) \in Nat /\ Len(q) >= 1
         /\ Head(q) = q[1]
         /\ Len(Tail(q)) = Len(q) - 1
         /\ \A i \in 1 .. Len(q) - 1 : Tail(q)[i] = q[i + 1]
  OBVIOUS

LEMMA NonemptyByLen ==
  ASSUME NEW q \in Seq(Commands), Len(q) > 0
  PROVE  q # <<>>
  OBVIOUS

LEMMA PutCmdNonempty ==
  ASSUME NEW q \in Seq(Commands), NEW cmd \in Commands
  PROVE  PutCmd(q, cmd) # <<>>
  BY DepthAssumption DEF PutCmd

(* r is q with cmd put in it, unless it was full.                          *)
IsPut(r, q, cmd) ==
  \/ r = q /\ Len(q) >= MIXREADQ_DEPTH
  \/ /\ Len(r) = Len(q) + 1
     /\ \A i \in 1 .. Len(q) : r[i] = q[i]
     /\ r[Len(q) + 1] = cmd

LEMMA PutCmdShape ==
  ASSUME NEW q \in Seq(Commands), NEW cmd \in Commands
  PROVE  IsPut(PutCmd(q, cmd), q, cmd) /\ Len(q) \in Nat
  BY DepthAssumption DEF PutCmd, IsPut

LEMMA AdvanceType ==
  ASSUME NEW i \in Slots \cup {-1}
  PROVE  Advance(i) \in Slots
  BY FactorAssumption DEF Advance, Slots

LEMMA ReleaseType ==
  ASSUME NEW c \in 0 .. READB_FACTOR
  PROVE  Release(c) \in 0 .. READB_FACTOR
  BY FactorAssumption DEF Release

-----------------------------------------------------------------------------
(* Type correctness.  It needs that a decoder that waits for a buffer or   *)
(* copies one has a slot to take it from.                                  *)

WaitIndexed == mpc \in {"wait", "copy"} => send_index \in Slots
TInv == TypeOK /\ WaitIndexed

LEMMA TInvInit == Init => TInv
  <1> SUFFICES ASSUME Init PROVE TInv
    OBVIOUS
  <1> USE FactorAssumption, NBlocksAssumption, DepthAssumption
        DEF Init, TInv, TypeOK, WaitIndexed, Slots, NoBlock
  <1>1. readq \in Seq(Commands) /\ Len(readq) <= MIXREADQ_DEPTH
    OBVIOUS
  <1>2. buffer \in [Slots -> [song : Songs \cup {NoSong}, blk : 0 .. NBlocks]]
    OBVIOUS
  <1> QED BY <1>1, <1>2

LEMMA TInvStep == TInv /\ [Next]_flacVars => TInv'
  <1> SUFFICES ASSUME TInv, [Next]_flacVars PROVE TInv'
    OBVIOUS
  <1> USE FactorAssumption, NBlocksAssumption
        DEF TInv, TypeOK, WaitIndexed, readerVars, decoderVars, flacVars
  <1>1. CASE ReaderStart
    <2>1. 0 \in Slots
      BY DEF Slots
    <2>2. Tail(readq) \in Seq(Commands) /\ Len(Tail(readq)) <= MIXREADQ_DEPTH
      BY <1>1, TailType DEF ReaderStart
    <2>3. readq' \in Seq(Commands) /\ Len(readq') <= MIXREADQ_DEPTH
      BY <1>1, <2>2, PutCmdType DEF ReaderStart, Commands
    <2> QED BY <1>1, <2>1, <2>3 DEF ReaderStart
  <1>2. CASE ReaderTake
    BY <1>2, TailType DEF ReaderTake, MayRead
  <1>3. CASE ReaderFill
    <2>1. Advance(read_index) \in Slots /\ Release(sendsem) \in 0 .. READB_FACTOR
      BY AdvanceType, ReleaseType
    <2>2. Block(pfile.song, pfile.pos) \in [song : Songs \cup {NoSong}, blk : 0 .. NBlocks]
      BY DEF Block
    <2>3. buffer' \in [Slots -> [song : Songs \cup {NoSong}, blk : 0 .. NBlocks]]
      BY <1>3, <2>2 DEF ReaderFill
    <2>4. pfile' \in [open : BOOLEAN, song : Songs \cup {NoSong}, pos : 0 .. NBlocks]
      <3>1. (IF pfile.pos < NBlocks THEN pfile.pos + 1 ELSE pfile.pos) \in 0 .. NBlocks
        OBVIOUS
      <3> QED BY <1>3, <3>1 DEF ReaderFill
    <2> QED BY <1>3, <2>1, <2>3, <2>4 DEF ReaderFill
  <1>4. CASE ReaderError
    BY <1>4 DEF ReaderError
  <1>5. CASE ReaderMore
    <2>1. readq' \in Seq(Commands) /\ Len(readq') <= MIXREADQ_DEPTH
      BY <1>5, PutCmdType DEF ReaderMore, Commands
    <2> QED BY <1>5, <2>1 DEF ReaderMore
  <1>6. CASE ReaderStop
    BY <1>6, TailType DEF ReaderStop, FreeAfterStop, FilledAfterStop, Slots
  <1>7. ASSUME NEW s \in Songs, OpenOk(s) PROVE TInv'
    BY <1>7 DEF OpenOk
  <1>8. CASE OpenFail
    BY <1>8 DEF OpenFail
  <1>9. CASE OnReadEnd
    BY <1>9 DEF OnReadEnd, EndOf, Block
  <1>10. CASE OnRead
    <2>1. readq' \in Seq(Commands) /\ Len(readq') <= MIXREADQ_DEPTH
      BY <1>10, PutCmdType DEF OnRead, StartOrGoOn, Commands
    <2>2. send_index \in Slots
      BY <1>10 DEF OnRead, Slots
    <2> QED BY <1>10, <2>1, <2>2 DEF OnRead
  <1>11. CASE OnReadAcquire
    BY <1>11 DEF OnReadAcquire
  <1>12. CASE OnReadCopy
    <2>1. send_index \in Slots
      BY <1>12 DEF OnReadCopy
    <2>2. Advance(send_index) \in Slots /\ Release(readsem) \in 0 .. READB_FACTOR
      BY <2>1, AdvanceType, ReleaseType
    <2> QED BY <1>12, <2>1, <2>2 DEF OnReadCopy
  <1>13. ASSUME NEW t \in SeekTargets, OnSeek(t) PROVE TInv'
    <2>1. pfile' \in [open : BOOLEAN, song : Songs \cup {NoSong}, pos : 0 .. NBlocks]
      BY <1>13, SeekAssumption DEF OnSeek
    <2> QED BY <1>13, <2>1, SeekAssumption DEF OnSeek
  <1>14. CASE CloseSend
    <2>1. readq' \in Seq(Commands) /\ Len(readq') <= MIXREADQ_DEPTH
      BY <1>14, PutCmdType DEF CloseSend, Commands
    <2> QED BY <1>14, <2>1 DEF CloseSend
  <1>15. CASE CloseFile
    BY <1>15 DEF CloseFile
  <1>16. CASE UNCHANGED flacVars
    BY <1>16
  <1> QED
    BY <1>1, <1>2, <1>3, <1>4, <1>5, <1>6, <1>7, <1>8, <1>9, <1>10, <1>11,
       <1>12, <1>13, <1>14, <1>15, <1>16 DEF Next, Reader, Decoder

(* Every variable keeps its type; in particular the two semaphores stay    *)
(* within the ring and the queue within its depth, whatever the mixer task *)
(* and the reader task do.                                                 *)
THEOREM TypeCorrect == Spec => []TypeOK
  <1>1. TInv => TypeOK
    BY DEF TInv
  <1> QED BY <1>1, TInvInit, TInvStep, PTL DEF Spec

-----------------------------------------------------------------------------
(* The pipeline: modes, queue, counters and ring together are inductive.   *)

LEMMA PipelineInit == Init => PipelineInv
  <1> SUFFICES ASSUME Init PROVE PipelineInv
    OBVIOUS
  <1>1. TypeOK
    BY TInvInit DEF TInv
  <1>2. ModesAgree
    BY DEF Init, ModesAgree, Session
  <1>3. QueueInOrder
    BY DepthAssumption DEF Init, QueueInOrder
  <1>4. NoOvercommit /\ NoBufferLost /\ RingInOrder /\ NoLostWakeup
    BY FactorAssumption
       DEF Init, NoOvercommit, NoBufferLost, RingInOrder, NoLostWakeup,
           Claimed, Filled, Held, Session
  <1> QED BY <1>1, <1>2, <1>3, <1>4 DEF PipelineInv

LEMMA PipelineIsTyped == PipelineInv => TInv
  BY DEF PipelineInv, ModesAgree, TInv, WaitIndexed

LEMMA ReaderKeepsPipeline == PipelineInv /\ Reader => PipelineInv'
  <1> SUFFICES ASSUME PipelineInv, Reader PROVE PipelineInv'
    OBVIOUS
  <1>0. TypeOK /\ TypeOK'
    BY PipelineIsTyped, TInvStep DEF TInv, Next
  <1> USE FactorAssumption, DepthAssumption, CardAssumption, <1>0
        DEF PipelineInv, Slots, Session, Claimed, Filled, Held, Commands,
            decoderVars
  <1>1. CASE ReaderStart
    <2>1. /\ reader_status = "STOPPED" /\ mpc = "wait" /\ Len(readq) = 1
          /\ readsem = READB_FACTOR /\ sendsem = 0 /\ send_index = 0 /\ rpc = "get"
      <3>1. readq # <<>> /\ readq[1] = "READER_START"
        BY <1>1, TailShape DEF ReaderStart, TypeOK
      <3>2. Len(readq) \in Nat /\ Len(readq) >= 1
        BY <3>1, TailShape DEF TypeOK
      <3>3. \A i \in 1 .. Len(readq) : readq[i] = "READER_START" =>
               i = Len(readq) /\ mpc = "wait" /\ reader_status = "STOPPED"
        BY DEF QueueInOrder
      <3>4. Len(readq) = 1 /\ mpc = "wait" /\ reader_status = "STOPPED"
        <4>1. 1 \in 1 .. Len(readq)
          BY <3>2
        <4>2. 1 = Len(readq) /\ mpc = "wait" /\ reader_status = "STOPPED"
          BY <3>1, <3>3, <4>1
        <4> QED BY <4>2
      <3> QED BY <3>4 DEF ModesAgree
    <2>2. readq' = <<"READ_BUFFER">>
      BY <1>1, <2>1 DEF ReaderStart, PutCmd, TypeOK
    <2>3. ModesAgree'
      BY <1>1, <2>1 DEF ReaderStart, ModesAgree
    <2>4. QueueInOrder'
      BY <1>1, <2>1, <2>2 DEF ReaderStart, QueueInOrder
    <2>5. NoOvercommit' /\ NoBufferLost' /\ RingInOrder' /\ NoLostWakeup'
      BY <1>1, <2>1, <2>2
         DEF ReaderStart, NoOvercommit, NoBufferLost, RingInOrder, NoLostWakeup, Ahead
    <2> QED BY <2>3, <2>4, <2>5
  <1>2. CASE ReaderTake
    <2>1. ModesAgree'
      BY <1>2 DEF ReaderTake, MayRead, ModesAgree
    <2>2. QueueInOrder'
      <3>1. /\ readq # <<>> /\ readq' = Tail(readq) /\ readq[1] = "READ_BUFFER"
            /\ UNCHANGED <<reader_status, mpc, pflac>>
        BY <1>2, TailShape DEF ReaderTake, TypeOK
      <3>2. Len(readq') = Len(readq) - 1 /\ \A i \in 1 .. Len(readq') : readq'[i] = readq[i + 1]
        BY <3>1, TailShape DEF TypeOK
      <3>3. Len(readq) \in Nat /\ Len(readq) >= 1
        BY <3>1, TailShape DEF TypeOK
      <3>4. \A i \in 1 .. Len(readq') : i + 1 \in 1 .. Len(readq)
        BY <3>2, <3>3
      <3>5. \A i \in 1 .. Len(readq') : readq'[i] = "READER_START" =>
               i = Len(readq') /\ mpc = "wait" /\ reader_status = "STOPPED"
        BY <3>2, <3>3, <3>4 DEF QueueInOrder
      <3>6. \A i \in 1 .. Len(readq') : readq'[i] = "READER_STOP" =>
               /\ reader_status = "RUNNING"
               /\ mpc = "close" \/ pflac = NoSong
               /\ \A j \in 1 .. Len(readq') : readq'[j] = "READER_STOP" => j = i
        BY <3>2, <3>3, <3>4 DEF QueueInOrder
      <3>7. ASSUME reader_status = "STOPPED", mpc = "wait"
            PROVE  readq' # <<>> /\ readq'[Len(readq')] = "READER_START"
        <4>1. readq[Len(readq)] = "READER_START" /\ Len(readq) > 1
          BY <3>1, <3>3, <3>7 DEF QueueInOrder
        <4>2. readq'[Len(readq')] = "READER_START"
          BY <3>2, <4>1, <3>3
        <4>3. Len(readq') > 0
          BY <3>2, <4>1, <3>3
        <4> QED BY <4>2, <4>3, NonemptyByLen DEF TypeOK
      <3>8. reader_status = "STOPPED" /\ mpc # "wait" => Len(readq') < MIXREADQ_DEPTH
        BY <3>2, <3>3 DEF QueueInOrder
      <3> QED BY <3>1, <3>5, <3>6, <3>7, <3>8 DEF QueueInOrder
    <2>3. NoOvercommit' /\ NoBufferLost'
      <3>1. (readsem + Claimed)' = readsem + Claimed
        <4>1. CASE MayRead
          BY <1>2, <4>1 DEF ReaderTake, TypeOK
        <4>2. CASE ~MayRead
          BY <1>2, <4>2 DEF ReaderTake
        <4> QED BY <4>1, <4>2
      <3>2. Session' = Session
        BY <1>2 DEF ReaderTake
      <3> HIDE DEF Claimed, Session
      <3> QED BY <3>1, <3>2 DEF NoOvercommit, NoBufferLost
    <2>4. RingInOrder'
      BY <1>2 DEF ReaderTake, MayRead, RingInOrder, TypeOK
    <2>5. NoLostWakeup'
      <3> SUFFICES ASSUME mpc = "wait", sendsem = 0, ~CardErrors, ~MayRead
                   PROVE  readq' # <<>>
        BY <1>2 DEF ReaderTake, NoLostWakeup
      <3>1. readsem > 0
        BY <1>2 DEF NoBufferLost, ModesAgree, TypeOK, ReaderTake
      <3>2. reader_status = "STOPPED" /\ readq[Len(readq)] = "READER_START" /\ readq # <<>>
        BY <3>1 DEF MayRead, TypeOK, QueueInOrder
      <3>3. readq[1] = "READ_BUFFER"
        BY <1>2, TailShape DEF ReaderTake, TypeOK
      <3>4. Len(readq) > 1
        BY <3>2, <3>3, TailShape DEF TypeOK
      <3>5. Len(readq') = Len(readq) - 1
        BY <1>2, TailShape DEF ReaderTake, TypeOK
      <3> QED BY <3>4, <3>5
    <2> QED BY <2>1, <2>2, <2>3, <2>4, <2>5
  <1>3. CASE ReaderFill
    <2>1. sendsem < READB_FACTOR /\ sendsem' = sendsem + 1
      BY <1>3 DEF ReaderFill, Release, NoOvercommit, TypeOK
    <2>2. reader_status = "RUNNING" /\ read_index \in Slots
      BY <1>3 DEF ReaderFill, ModesAgree, TypeOK
    <2>3. ModesAgree'
      BY <1>3, <2>2, AdvanceType DEF ReaderFill, ModesAgree
    <2>4. QueueInOrder'
      BY <1>3, <2>2 DEF ReaderFill, QueueInOrder
    <2>5. NoOvercommit' /\ NoBufferLost' /\ NoLostWakeup'
      BY <1>3, <2>1 DEF ReaderFill, NoOvercommit, NoBufferLost, NoLostWakeup, TypeOK
    <2>6. RingInOrder'
      <3>1. Filled' = Filled + 1 /\ Filled \in Nat /\ Filled < READB_FACTOR
        BY <1>3, <2>1 DEF ReaderFill, NoOvercommit, TypeOK
      <3> SUFFICES ASSUME send_index \in Slots
                   PROVE  Advance(read_index) = Ahead(send_index, Filled + 1)
        BY <1>3, <2>2, <3>1 DEF ReaderFill, RingInOrder
      <3>2. read_index = Ahead(send_index, Filled)
        BY <2>2 DEF RingInOrder
      <3> HIDE DEF Filled
      <3> QED BY <3>1, <3>2 DEF Advance, Ahead
    <2> QED BY <2>3, <2>4, <2>5, <2>6
  <1>4. CASE ReaderError
    <2>1. ModesAgree'
      BY <1>4 DEF ReaderError, ModesAgree
    <2>2. QueueInOrder'
      BY <1>4 DEF ReaderError, QueueInOrder
    <2>3. NoOvercommit' /\ RingInOrder'
      BY <1>4 DEF ReaderError, NoOvercommit, RingInOrder, TypeOK
    <2>4. NoBufferLost' /\ NoLostWakeup'
      BY <1>4 DEF ReaderError, NoBufferLost, NoLostWakeup, ModesAgree
    <2> QED BY <2>1, <2>2, <2>3, <2>4
  <1>5. CASE ReaderMore
    <2>1. reader_status = "RUNNING"
      BY <1>5 DEF ReaderMore, ModesAgree, TypeOK
    <2>2. ModesAgree'
      BY <1>5 DEF ReaderMore, ModesAgree
    <2>3. QueueInOrder'
      BY <1>5, <2>1 DEF ReaderMore, QueueInOrder, PutCmd, TypeOK
    <2>4. NoOvercommit' /\ RingInOrder' /\ NoBufferLost'
      BY <1>5 DEF ReaderMore, NoOvercommit, RingInOrder, NoBufferLost, TypeOK
    <2>5. NoLostWakeup'
      <3> SUFFICES ASSUME mpc = "wait", sendsem = 0, ~CardErrors
                   PROVE  readq' # <<>>
        BY <1>5 DEF ReaderMore, NoLostWakeup
      <3>1. readsem > 0
        BY <1>5 DEF NoBufferLost, ModesAgree, TypeOK, ReaderMore
      <3> QED BY <1>5, <3>1, PutCmdNonempty DEF ReaderMore, TypeOK
    <2> QED BY <2>2, <2>3, <2>4, <2>5
  <1>6. CASE ReaderStop
    <2>1. mpc = "close" \/ pflac = NoSong
      BY <1>6 DEF ReaderStop, QueueInOrder, TypeOK
    <2>2. mpc \in {"close", "run"} /\ (mpc = "run" => pflac = NoSong)
      BY <2>1 DEF ModesAgree
    <2>3. ModesAgree'
      BY <1>6, <2>2 DEF ReaderStop, ModesAgree, FreeAfterStop, FilledAfterStop
    <2>4. QueueInOrder'
      BY <1>6, <2>2 DEF ReaderStop, QueueInOrder, TypeOK
    <2>5. NoOvercommit' /\ NoBufferLost' /\ RingInOrder' /\ NoLostWakeup'
      BY <1>6, <2>2
         DEF ReaderStop, FreeAfterStop, FilledAfterStop, NoOvercommit,
             NoBufferLost, RingInOrder, NoLostWakeup
    <2> QED BY <2>3, <2>4, <2>5
  <1> QED BY <1>1, <1>2, <1>3, <1>4, <1>5, <1>6 DEF Reader

LEMMA DecoderKeepsPipeline == PipelineInv /\ Decoder => PipelineInv'
  <1> SUFFICES ASSUME PipelineInv, Decoder PROVE PipelineInv'
    OBVIOUS
  <1>0. TypeOK /\ TypeOK'
    BY PipelineIsTyped, TInvStep DEF TInv, Next
  <1> USE FactorAssumption, DepthAssumption, CardAssumption, SongAssumption, <1>0
        DEF PipelineInv, Slots, Session, Claimed, Filled, Held, Commands,
            readerVars
  <1>1. ASSUME NEW s \in Songs, OpenOk(s) PROVE PipelineInv'
    <2>1. ModesAgree' /\ QueueInOrder'
      BY <1>1 DEF OpenOk, ReadyToOpen, ModesAgree, QueueInOrder
    <2>2. NoOvercommit' /\ NoBufferLost' /\ RingInOrder' /\ NoLostWakeup'
      BY <1>1 DEF OpenOk, ReadyToOpen, ModesAgree, NoOvercommit, NoBufferLost,
                  RingInOrder, NoLostWakeup
    <2> QED BY <2>1, <2>2
  <1>2. CASE OpenFail
    <2>1. ModesAgree' /\ QueueInOrder'
      BY <1>2 DEF OpenFail, ReadyToOpen, ModesAgree, QueueInOrder
    <2>2. NoOvercommit' /\ NoBufferLost' /\ RingInOrder' /\ NoLostWakeup'
      BY <1>2 DEF OpenFail, ReadyToOpen, ModesAgree, NoOvercommit, NoBufferLost,
                  RingInOrder, NoLostWakeup
    <2> QED BY <2>1, <2>2
  <1>3. CASE OnReadEnd
    <2>1. reader_status = "RUNNING" /\ mpc = "run"
      BY <1>3 DEF OnReadEnd, ModesAgree, TypeOK
    <2>2. ModesAgree' /\ QueueInOrder'
      BY <1>3, <2>1 DEF OnReadEnd, ModesAgree, QueueInOrder
    <2>3. NoOvercommit' /\ NoBufferLost' /\ RingInOrder' /\ NoLostWakeup'
      BY <1>3, <2>1 DEF OnReadEnd, NoOvercommit, NoBufferLost, RingInOrder, NoLostWakeup
    <2> QED BY <2>2, <2>3
  <1>4. CASE OnRead
    <2>1. /\ mpc = "run" => reader_status = "RUNNING" /\ StartOrGoOn = "READ_BUFFER"
          /\ mpc = "opened" => reader_status = "STOPPED" /\ StartOrGoOn = "READER_START"
      BY <1>4 DEF OnRead, ModesAgree, TypeOK, StartOrGoOn
    <2>2. readq' = PutCmd(readq, StartOrGoOn) /\ mpc' = "wait" /\ pflac # NoSong
          /\ mpc \in {"run", "opened"}
          /\ UNCHANGED <<reader_status, pflac>>
      BY <1>4 DEF OnRead
    <2>3. ModesAgree'
      BY <1>4, <2>1 DEF OnRead, ModesAgree, TypeOK
    <2>4. QueueInOrder'
      <3>1. CASE mpc = "run"
        <4>1. \A i \in 1 .. Len(readq) : readq[i] = "READ_BUFFER"
          BY <2>1, <2>2, <3>1 DEF QueueInOrder, TypeOK
        <4>2. \A i \in 1 .. Len(readq') : readq'[i] = "READ_BUFFER"
          <5>1. IsPut(readq', readq, "READ_BUFFER") /\ Len(readq) \in Nat
            BY <2>1, <2>2, <3>1, PutCmdShape DEF TypeOK
          <5> QED BY <4>1, <5>1 DEF IsPut
        <4> QED BY <2>1, <2>2, <3>1, <4>2 DEF QueueInOrder
      <3>2. CASE mpc = "opened"
        <4>1. \A i \in 1 .. Len(readq) : readq[i] = "READ_BUFFER"
          BY <2>1, <2>2, <3>2 DEF QueueInOrder, TypeOK
        <4>2. Len(readq) < MIXREADQ_DEPTH
          BY <2>1, <3>2 DEF QueueInOrder
        <4>3. /\ Len(readq') = Len(readq) + 1 /\ Len(readq) \in Nat
              /\ \A i \in 1 .. Len(readq) : readq'[i] = "READ_BUFFER"
              /\ readq'[Len(readq) + 1] = "READER_START"
          <5>1. IsPut(readq', readq, "READER_START") /\ Len(readq) \in Nat
            BY <2>1, <2>2, <3>2, PutCmdShape DEF TypeOK
          <5> QED BY <4>1, <4>2, <5>1 DEF IsPut
        <4>4. \A i \in 1 .. Len(readq') : readq'[i] # "READER_START" => readq'[i] = "READ_BUFFER"
          BY <4>3
        <4>5. \A i \in 1 .. Len(readq') : readq'[i] = "READER_START" => i = Len(readq')
          BY <4>3
        <4>6. readq' # <<>>
          BY <4>3, NonemptyByLen DEF TypeOK
        <4> QED BY <2>1, <2>2, <3>2, <4>3, <4>4, <4>5, <4>6 DEF QueueInOrder
      <3> QED BY <2>2, <3>1, <3>2
    <2>5. NoOvercommit' /\ NoBufferLost' /\ RingInOrder'
      BY <1>4 DEF OnRead, NoOvercommit, NoBufferLost, RingInOrder
    <2>6. NoLostWakeup'
      <3>1. PutCmd(readq, StartOrGoOn) # <<>>
        BY PutCmdNonempty DEF StartOrGoOn, TypeOK
      <3> QED BY <2>2, <3>1 DEF NoLostWakeup
    <2> QED BY <2>3, <2>4, <2>5, <2>6
  <1>5. CASE OnReadAcquire
    <2>1. reader_status = "RUNNING"
      BY <1>5 DEF OnReadAcquire, ModesAgree, TypeOK
    <2>2. ModesAgree' /\ QueueInOrder'
      BY <1>5, <2>1 DEF OnReadAcquire, ModesAgree, QueueInOrder
    <2>3. NoOvercommit' /\ NoBufferLost' /\ RingInOrder' /\ NoLostWakeup'
      BY <1>5 DEF OnReadAcquire, NoOvercommit, NoBufferLost, RingInOrder, NoLostWakeup, TypeOK
    <2> QED BY <2>2, <2>3
  <1>6. CASE OnReadCopy
    <2>1. reader_status = "RUNNING" /\ send_index \in Slots /\ pflac # NoSong
      BY <1>6 DEF OnReadCopy, ModesAgree, TypeOK
    <2>2. readsem < READB_FACTOR /\ readsem' = readsem + 1
      BY <1>6 DEF OnReadCopy, Release, NoOvercommit, TypeOK
    <2>3. send_index' = Advance(send_index) \/ send_index' = -1
      BY <1>6 DEF OnReadCopy
    <2>4. ModesAgree' /\ QueueInOrder'
      BY <1>6, <2>1, <2>3 DEF OnReadCopy, ModesAgree, QueueInOrder
    <2>5. NoOvercommit' /\ NoBufferLost' /\ NoLostWakeup'
      BY <1>6, <2>2 DEF OnReadCopy, NoOvercommit, NoBufferLost, NoLostWakeup, TypeOK
    <2>6. RingInOrder'
      <3>1. Filled' = Filled - 1 /\ Filled \in 1 .. READB_FACTOR
        BY <1>6 DEF OnReadCopy, NoOvercommit, TypeOK
      <3>2. read_index = Ahead(send_index, Filled) /\ read_index' = read_index
        BY <1>6, <2>1 DEF OnReadCopy, RingInOrder
      <3> SUFFICES ASSUME send_index' \in Slots
                   PROVE  read_index = Ahead(Advance(send_index), Filled - 1)
        BY <2>3, <3>1, <3>2 DEF RingInOrder
      <3> HIDE DEF Filled
      <3> QED BY <2>1, <3>1, <3>2 DEF Advance, Ahead
    <2> QED BY <2>4, <2>5, <2>6
  <1>7. ASSUME NEW t \in SeekTargets, OnSeek(t) PROVE PipelineInv'
    <2>1. ModesAgree' /\ QueueInOrder'
      BY <1>7 DEF OnSeek, ModesAgree, QueueInOrder, TypeOK
    <2>2. NoOvercommit' /\ NoBufferLost' /\ RingInOrder' /\ NoLostWakeup'
      BY <1>7 DEF OnSeek, NoOvercommit, NoBufferLost, RingInOrder, NoLostWakeup
    <2> QED BY <2>1, <2>2
  <1>8. CASE CloseSend
    <2>1. reader_status = "RUNNING"
      BY <1>8 DEF CloseSend, ModesAgree, TypeOK
    <2>2. \A i \in 1 .. Len(readq) : readq[i] = "READ_BUFFER"
      BY <1>8, <2>1 DEF CloseSend, QueueInOrder, TypeOK
    <2>3. ModesAgree'
      BY <1>8, <2>1 DEF CloseSend, ModesAgree
    <2>4. QueueInOrder'
      <3>1. readq' = PutCmd(readq, "READER_STOP") /\ UNCHANGED reader_status /\ mpc' = "close"
        BY <1>8 DEF CloseSend
      <3>2. \A i \in 1 .. Len(readq') :
               \/ readq'[i] = "READ_BUFFER"
               \/ readq'[i] = "READER_STOP" /\ i = Len(readq) + 1
        <4>1. IsPut(readq', readq, "READER_STOP") /\ Len(readq) \in Nat
          BY <3>1, PutCmdShape DEF TypeOK
        <4> QED BY <2>2, <4>1 DEF IsPut
      <3> QED BY <2>1, <3>1, <3>2 DEF QueueInOrder
    <2>5. NoOvercommit' /\ NoBufferLost' /\ RingInOrder' /\ NoLostWakeup'
      BY <1>8 DEF CloseSend, NoOvercommit, NoBufferLost, RingInOrder, NoLostWakeup
    <2> QED BY <2>3, <2>4, <2>5
  <1>9. CASE CloseFile
    <2>1. ModesAgree' /\ QueueInOrder'
      BY <1>9 DEF CloseFile, ModesAgree, QueueInOrder
    <2>2. NoOvercommit' /\ NoBufferLost' /\ RingInOrder' /\ NoLostWakeup'
      BY <1>9 DEF CloseFile, NoOvercommit, NoBufferLost, RingInOrder, NoLostWakeup
    <2> QED BY <2>1, <2>2
  <1> QED BY <1>1, <1>2, <1>3, <1>4, <1>5, <1>6, <1>7, <1>8, <1>9 DEF Decoder

LEMMA PipelineStep == PipelineInv /\ [Next]_flacVars => PipelineInv'
  <1> SUFFICES ASSUME PipelineInv, UNCHANGED flacVars PROVE PipelineInv'
    BY ReaderKeepsPipeline, DecoderKeepsPipeline DEF Next
  <1> QED
    BY DEF PipelineInv, TypeOK, ModesAgree, QueueInOrder, NoOvercommit,
           NoBufferLost, RingInOrder, NoLostWakeup, Claimed, Filled, Held,
           Session, flacVars, readerVars, decoderVars

(* The inductive invariant: modes, queue, counters and ring agree in every *)
(* reachable state.                                                        *)
THEOREM PipelineAgrees == Spec => []PipelineInv
  BY PipelineInit, PipelineStep, PTL DEF Spec

(* The two semaphores never promise more buffers than the ring has, also   *)
(* when the card fails: the resets of READER_STOP and the tokens of the    *)
(* two tasks never add up to more.                                         *)
THEOREM BuffersNotOvercommitted == Spec => []NoOvercommit
  <1>1. PipelineInv => NoOvercommit
    BY DEF PipelineInv
  <1> QED BY <1>1, PipelineAgrees, PTL

(* While a file is decoded from a card that does not fail, every buffer is *)
(* accounted for.                                                          *)
THEOREM BuffersNotLost == Spec => []NoBufferLost
  <1>1. PipelineInv => NoBufferLost
    BY DEF PipelineInv
  <1> QED BY <1>1, PipelineAgrees, PTL

(* flac_reader_buffer needs no lock: the slot the reader fills is never    *)
(* the slot the decoder copies.                                            *)
THEOREM SlotsNotShared == Spec => []NoSlotRace
  <1>1. PipelineInv => NoSlotRace
    <2> SUFFICES ASSUME PipelineInv, rpc = "read", mpc = "copy"
                 PROVE  read_index # send_index
      BY DEF NoSlotRace
    <2>1. reader_status = "RUNNING" /\ send_index \in Slots
      BY DEF PipelineInv, TypeOK, ModesAgree
    <2>2. Filled \in 1 .. READB_FACTOR - 1
      BY FactorAssumption
         DEF PipelineInv, TypeOK, NoOvercommit, Claimed, Filled, Held
    <2>3. read_index = Ahead(send_index, Filled)
      BY <2>1 DEF PipelineInv, RingInOrder
    <2> QED BY <2>1, <2>2, <2>3, FactorAssumption DEF Ahead, Slots
  <1> QED BY <1>1, PipelineAgrees, PTL

(* The reader works for a started session only, with a valid slot.         *)
THEOREM ReaderWorksForSession == Spec => []ReaderIndexed
  <1>1. PipelineInv => ReaderIndexed
    BY DEF PipelineInv, TypeOK, ModesAgree, ReaderIndexed
  <1> QED BY <1>1, PipelineAgrees, PTL

(* A decoder that waits without a time-out is never left without a reader  *)
(* that will fill a buffer: messages dropped by a full flacreadq do not    *)
(* matter to it.                                                           *)
THEOREM WakeupNotLost == Spec => []NoLostWakeup
  <1>1. PipelineInv => NoLostWakeup
    BY DEF PipelineInv
  <1> QED BY <1>1, PipelineAgrees, PTL

-----------------------------------------------------------------------------
(* Without seeks the pipeline implements the byte stream of FlacStream.    *)

LEMMA SoonerType ==
  ASSUME NEW k \in Nat
  PROVE  /\ Sooner(k) \in 0 .. NBlocks
         /\ Sooner(k) < NBlocks <=> k < NBlocks
         /\ (IF Sooner(k) < NBlocks THEN Sooner(k) + 1 ELSE Sooner(k)) = Sooner(k + 1)
  BY NBlocksAssumption DEF Sooner

LEMMA ReaderKeepsContents ==
  ASSUME PipelineInv, ContentsInOrder, Reader
  PROVE  ContentsInOrder'
  <1>0. TypeOK /\ TypeOK' /\ PipelineInv'
    BY PipelineIsTyped, TInvStep, ReaderKeepsPipeline DEF TInv, Next
  <1> USE <1>0 DEF Session, Held, decoderVars
  <1>1. CASE ReaderStart
    <2>1. (send_index = 0 /\ send_index' = 0) \/ UNCHANGED send_index
      BY <1>1 DEF ReaderStart, PipelineInv, ModesAgree
    <2> QED BY <1>1, <2>1 DEF ReaderStart, ContentsInOrder, Filled
  <1>2. CASE ReaderTake
    BY <1>2 DEF ReaderTake, ContentsInOrder, Filled
  <1>3. CASE ReaderFill
    <2> SUFFICES ASSUME Session, send_index \in Slots
                 PROVE  /\ pfile'.pos = Sooner(expect + Filled')
                        /\ \A k \in 0 .. Filled' - 1 :
                             buffer'[Ahead(send_index, k)] = Block(pflac, Sooner(expect + k))
      BY <1>3 DEF ReaderFill, ContentsInOrder, Filled, TypeOK
    <2>1. Filled' = Filled + 1 /\ Filled \in Nat /\ Filled < READB_FACTOR
      BY <1>3, FactorAssumption
         DEF ReaderFill, Release, PipelineInv, NoOvercommit, Claimed, Filled, TypeOK
    <2>2. read_index = Ahead(send_index, Filled) /\ read_index \in Slots
      BY <1>3 DEF ReaderFill, PipelineInv, RingInOrder, ModesAgree, TypeOK
    <2>3. pfile.pos = Sooner(expect + Filled) /\ pfile.song = pflac
      BY DEF ContentsInOrder
    <2>4. pfile'.pos = Sooner(expect + Filled + 1)
      <3>1. expect + Filled \in Nat /\ expect + Filled + 1 \in Nat
        BY <2>1, NBlocksAssumption DEF TypeOK
      <3>2. pfile'.pos = IF pfile.pos < NBlocks THEN pfile.pos + 1 ELSE pfile.pos
        BY <1>3 DEF ReaderFill, TypeOK
      <3> QED BY <2>3, <3>1, <3>2, SoonerType
    <2>5. buffer' = [buffer EXCEPT ![read_index] = Block(pflac, Sooner(expect + Filled))]
      BY <1>3, <2>3 DEF ReaderFill
    <2>6. ASSUME NEW k \in 0 .. Filled
          PROVE  buffer'[Ahead(send_index, k)] = Block(pflac, Sooner(expect + k))
      <3>1. Ahead(send_index, k) \in Slots
        BY <2>1, FactorAssumption DEF Ahead, Slots
      <3>2. CASE k = Filled
        BY <2>2, <2>5, <3>2 DEF TypeOK
      <3>3. CASE k # Filled
        <4>1. Ahead(send_index, k) # read_index
          BY <2>1, <2>2, <3>3, FactorAssumption DEF Ahead, Slots
        <4>2. buffer[Ahead(send_index, k)] = Block(pflac, Sooner(expect + k))
          BY <2>1, <3>3 DEF ContentsInOrder
        <4> QED BY <2>5, <3>1, <4>1, <4>2 DEF TypeOK
      <3> QED BY <3>2, <3>3
    <2> QED BY <2>1, <2>4, <2>6, NBlocksAssumption DEF TypeOK
  <1>4. CASE ReaderError
    BY <1>4 DEF ReaderError, ContentsInOrder, Filled
  <1>5. CASE ReaderMore
    BY <1>5 DEF ReaderMore, ContentsInOrder, Filled
  <1>6. CASE ReaderStop
    <2>1. ~Session
      BY <1>6, TailShape DEF ReaderStop, PipelineInv, QueueInOrder, TypeOK
    <2> QED BY <1>6, <2>1 DEF ReaderStop, ContentsInOrder
  <1> QED BY <1>1, <1>2, <1>3, <1>4, <1>5, <1>6 DEF Reader

(* What the decoder calls when it seeks nothing.                           *)
StreamCalls ==
  \/ \E s \in Songs : OpenOk(s)
  \/ OpenFail \/ OnReadEnd \/ OnRead \/ OnReadAcquire \/ OnReadCopy
  \/ CloseSend \/ CloseFile

LEMMA StreamCallsKeepContents ==
  ASSUME PipelineInv, ContentsInOrder, StreamCalls
  PROVE  ContentsInOrder'
  <1>0. TypeOK /\ TypeOK' /\ PipelineInv'
    BY PipelineIsTyped, TInvStep, DecoderKeepsPipeline DEF TInv, Next, Decoder, StreamCalls
  <1> USE <1>0 DEF Session, Held, readerVars
  <1>1. ASSUME NEW s \in Songs, OpenOk(s) PROVE ContentsInOrder'
    <2>1. /\ sendsem = 0 /\ send_index = 0 /\ UNCHANGED <<sendsem, send_index>>
          /\ mpc' = "opened" /\ expect' = 0 /\ pflac' = s
          /\ pfile' = [open |-> TRUE, song |-> s, pos |-> 0]
      BY <1>1 DEF OpenOk, ReadyToOpen, PipelineInv, ModesAgree
    <2> QED BY <2>1, NBlocksAssumption DEF ContentsInOrder, Filled, Sooner
  <1>2. CASE OpenFail
    BY <1>2 DEF OpenFail, ContentsInOrder
  <1>3. CASE OnReadEnd
    BY <1>3 DEF OnReadEnd, ContentsInOrder, Filled
  <1>4. CASE OnRead
    BY <1>4 DEF OnRead, ContentsInOrder, Filled
  <1>5. CASE OnReadAcquire
    <2>1. Filled' = Filled
      BY <1>5 DEF OnReadAcquire, Filled, TypeOK
    <2> QED BY <1>5, <2>1 DEF OnReadAcquire, ContentsInOrder
  <1>6. CASE OnReadCopy
    <2>1. Filled' = Filled - 1 /\ Filled \in 1 .. READB_FACTOR
      BY <1>6, FactorAssumption
         DEF OnReadCopy, Filled, PipelineInv, NoOvercommit, Claimed, TypeOK
    <2>2. send_index \in Slots /\ Session
      BY <1>6, SongAssumption DEF OnReadCopy, PipelineInv, ModesAgree
    <2>3. buffer[send_index] = Block(pflac, Sooner(expect))
      <3>1. Ahead(send_index, 0) = send_index /\ expect + 0 = expect
        BY <2>2, FactorAssumption DEF Ahead, Slots, TypeOK
      <3> QED BY <2>1, <2>2, <3>1 DEF ContentsInOrder
    <2>4. expect \in 0 .. NBlocks /\ Sooner(expect) = expect
      BY NBlocksAssumption DEF TypeOK, Sooner
    <2>5. CASE expect < NBlocks
      <3>1. send_index' = Advance(send_index) /\ expect' = expect + 1
        BY <1>6, <2>3, <2>4, <2>5 DEF OnReadCopy, IsData, Block
      <3>2. pfile'.pos = Sooner(expect' + Filled')
        <4>1. expect' + Filled' = expect + Filled
          BY <2>1, <2>4, <3>1, NBlocksAssumption
        <4>2. pfile'.pos = pfile.pos
          BY <1>6 DEF OnReadCopy
        <4> QED BY <2>2, <4>1, <4>2 DEF ContentsInOrder
      <3>3. ASSUME NEW k \in 0 .. Filled' - 1
            PROVE  buffer'[Ahead(send_index', k)] = Block(pflac, Sooner(expect' + k))
        <4>1. Ahead(send_index', k) = Ahead(send_index, k + 1)
          BY <2>1, <2>2, <3>1, FactorAssumption DEF Ahead, Advance, Slots
        <4>2. k + 1 \in 0 .. Filled - 1 /\ expect' + k = expect + (k + 1)
          BY <2>1, <2>4, <3>1, NBlocksAssumption
        <4>3. buffer[Ahead(send_index, k + 1)] = Block(pflac, Sooner(expect + (k + 1)))
          BY <2>2, <4>2 DEF ContentsInOrder
        <4> QED BY <1>6, <4>1, <4>2, <4>3 DEF OnReadCopy
      <3>4. send_index' \in Slots
        BY <2>2, <3>1, AdvanceType
      <3> QED BY <1>6, <2>2, <3>2, <3>3, <3>4 DEF OnReadCopy, ContentsInOrder, Slots
    <2>6. CASE ~(expect < NBlocks)
      <3>1. send_index' = -1 /\ expect' = expect /\ expect = NBlocks
        BY <1>6, <2>3, <2>4, <2>6, NBlocksAssumption DEF OnReadCopy, IsData, Block
      <3> QED BY <1>6, <2>2, <3>1 DEF OnReadCopy, ContentsInOrder, Slots
    <2> QED BY <2>5, <2>6
  <1>7. CASE CloseSend
    BY <1>7 DEF CloseSend, ContentsInOrder
  <1>8. CASE CloseFile
    BY <1>8 DEF CloseFile, ContentsInOrder
  <1> QED BY <1>1, <1>2, <1>3, <1>4, <1>5, <1>6, <1>7, <1>8 DEF StreamCalls

LEMMA ContentsStep ==
  ASSUME PipelineInv, ContentsInOrder, [Next]_flacVars, SeekTargets = {}
  PROVE  ContentsInOrder'
  <1> SUFFICES ASSUME UNCHANGED flacVars PROVE ContentsInOrder'
    BY ReaderKeepsContents, StreamCallsKeepContents DEF Next, Decoder, StreamCalls
  <1> QED
    BY DEF ContentsInOrder, Session, Filled, Held, flacVars, readerVars, decoderVars

LEMMA StreamStep ==
  ASSUME PipelineInv, ContentsInOrder, [Next]_flacVars, SeekTargets = {}
  PROVE  [Stream!StreamNext]_<<pflac, expect, got>>
  <1> USE DEF Stream!StreamNext
  <1>1. CASE Reader
    BY <1>1 DEF Reader, ReaderStart, ReaderTake, ReaderFill, ReaderError,
                ReaderMore, ReaderStop, decoderVars
  <1>2. ASSUME NEW s \in Songs, OpenOk(s)
        PROVE  [Stream!StreamNext]_<<pflac, expect, got>>
    BY <1>2 DEF OpenOk, Stream!StreamOpen
  <1>3. CASE OpenFail
    BY <1>3 DEF OpenFail, Stream!StreamClose
  <1>4. CASE OnReadEnd
    <2>1. expect = NBlocks
      BY <1>4 DEF OnReadEnd, ContentsInOrder, Session, PipelineInv, TypeOK, Slots
    <2> QED BY <1>4, <2>1, NBlocksAssumption
            DEF OnReadEnd, EndOf, Block, Stream!StreamRead, Stream!Block
  <1>5. CASE OnReadCopy
    <2>1. send_index \in Slots /\ Session
      BY <1>5, SongAssumption DEF OnReadCopy, PipelineInv, ModesAgree, Session
    <2>2. Filled \in Nat /\ Filled >= 1
      BY <1>5 DEF OnReadCopy, Filled, Held, PipelineInv, TypeOK
    <2>3. Ahead(send_index, 0) = send_index /\ expect + 0 = expect /\ Sooner(expect) = expect
      BY <2>1, NBlocksAssumption, FactorAssumption
         DEF Ahead, Slots, Sooner, PipelineInv, TypeOK
    <2>4. buffer[send_index] = Block(pflac, expect)
      BY <2>1, <2>2, <2>3 DEF ContentsInOrder
    <2> QED BY <1>5, <2>1, <2>4
            DEF OnReadCopy, Session, Block, Stream!StreamRead, Stream!Block
  <1>6. CASE OnRead \/ OnReadAcquire \/ CloseSend
    BY <1>6 DEF OnRead, OnReadAcquire, CloseSend
  <1>7. CASE CloseFile
    BY <1>7 DEF CloseFile, Stream!StreamClose
  <1>8. CASE UNCHANGED flacVars
    BY <1>8 DEF flacVars, decoderVars
  <1> QED
    BY <1>1, <1>2, <1>3, <1>4, <1>5, <1>6, <1>7, <1>8 DEF Next, Decoder

(* As long as nobody seeks, what the decoder reads is the open file, block *)
(* after block, with its end where the file ends: ring, semaphores and     *)
(* commands implement the byte stream the decoder is promised, with or     *)
(* without errors of the card.                                             *)
THEOREM PipelineIsStream ==
  ASSUME SeekTargets = {}
  PROVE  Spec => ReadsTheStream
  <1>1. Init => Stream!StreamInit
    BY DEF Init, NoBlock, Stream!StreamInit, Stream!NoBlock
  <1>2. Init => ContentsInOrder
    BY DEF Init, ContentsInOrder, Session
  <1>3. PipelineInv /\ ContentsInOrder /\ [Next]_flacVars => ContentsInOrder'
    BY ContentsStep
  <1>4. PipelineInv /\ ContentsInOrder /\ [Next]_flacVars
          => [Stream!StreamNext]_<<pflac, expect, got>>
    BY StreamStep
  <1>5. Stream!streamVars = <<pflac, expect, got>>
    BY DEF Stream!streamVars
  <1> QED
    BY <1>1, <1>2, <1>3, <1>4, <1>5, PipelineAgrees, PTL
    DEF Spec, ReadsTheStream, Stream!StreamSpec, Stream!streamVars
=============================================================================
