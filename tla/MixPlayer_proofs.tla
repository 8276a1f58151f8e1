-------------------------- MODULE MixPlayer_proofs ---------------------------
(***************************************************************************)
(* Theorems about the music player with either of its clients, for every   *)
(* number of songs, blocks, buffers and client calls, every depth of       *)
(* either queue, with or without card errors and priorities.               *)
(*                                                                         *)
(* In a game, what is mixed was decoded from the file that is open.  The   *)
(* rings of the two tasks are never emptied of the song before.  It does   *)
(* no harm because a song is opened only when the reader has been stopped, *)
(* and a reader that is stopped while the player waits for it has no file: *)
(* so the player is idle, with nothing decoded (PlayOpen).                 *)
(*                                                                         *)
(* On the music screen, a song is mixed without a gap from its third half  *)
(* on: what is decoded is one stream, and no step but the decoding of a    *)
(* half comes between two halves that are mixed.                           *)
(*                                                                         *)
(* With either client the output stays in phase with the DMA, a play       *)
(* request finds the player idle, and the song the game asked for last, or *)
(* what the button of the screen shows, is what the player does: as long   *)
(* as events are put in a queue that has room, which is proved for short   *)
(* games and for short visits to the screen.                               *)
(***************************************************************************)
EXTENDS DoomMusic, MusicGui, FlacReader_proofs, FiniteSetTheorems, TLAPS

-----------------------------------------------------------------------------
(* A game.  What its events for the mixer task are: no pause, no resume.   *)
Plays == {Play(s, n) : s \in Songs, n \in {-1, 1}}
Events == {DataReq(0), DataReq(1), Command("MIX_HALT")} \cup Plays

-----------------------------------------------------------------------------
(* The inductive invariant, beside PipelineInv.                            *)

(* The filled slots hold blocks of the open file, wherever it was sought.  *)
RingHolds ==
  Session =>
    /\ pfile.song = pflac
    /\ send_index \in Slots =>
         \A k \in 0 .. Filled - 1 : buffer[Ahead(send_index, k)].song = pflac

MixerTypes ==
  /\ mixevq \in Seq(Events)
  /\ dma \in {0, 1}
  /\ state \in {"IDLE", "PLAY_REQ", "PLAY"}
  /\ mixpc \in {"get", "stopwait", "fill", "refill", "halt"}
  /\ cached \in Nat /\ num_read \in 0 .. 2 /\ eof \in BOOLEAN
  /\ music = [h \in {0, 1} |-> music[h]]
  /\ mixpc = "stopwait" => ctrl.song \in Songs
  /\ mixpc = "refill" => ctrl.option \in {0, 1}

(* The callbacks run where the mixer task decodes, or halts.               *)
CallsAgree ==
  /\ mixpc = "halt" <=> mpc = "close"
  /\ mpc = "opened" => mixpc = "fill" /\ num_read = 0 /\ ~eof /\ cached = 0
  /\ mpc \in {"wait", "copy"} => Decoding /\ cached = 0

(* A player that is not idle has a file, and what is decoded is of it.     *)
SongInv ==
  /\ state # "IDLE" => pflac # NoSong
  /\ mixpc = "fill" => state = "IDLE" /\ pflac # NoSong
  /\ mixpc = "refill" => state = "PLAY"
  /\ cached > 0 /\ pflac # NoSong => got.song = pflac
  /\ state = "PLAY_REQ" => music[0].song = pflac
  /\ mixpc = "fill" /\ num_read > 0 => music[0].song = pflac
  /\ mixpc = "refill" /\ num_read > 0 => music[ctrl.option].song = pflac

MixerInv == MixerTypes /\ CallsAgree /\ SongInv

PlayerInv ==
  PipelineInv /\ RingHolds /\ MixerInv /\ next_song \in {NoPlay} \cup Plays

-----------------------------------------------------------------------------
(* The steps of the pipeline that the player takes: those of FlacReader,   *)
(* with any target of a seek.                                              *)
Sought == \E t \in 0 .. NBlocks : OnSeek(t)

LEMMA SeekKeepsPipeline == PipelineInv /\ Sought => PipelineInv'
<1> SUFFICES ASSUME PipelineInv, NEW t \in 0 .. NBlocks, OnSeek(t) PROVE PipelineInv'
  BY DEF Sought
<1>1. /\ UNCHANGED <<readq, readsem, sendsem, buffer, read_index, send_index, reader_status,
                      rpc, mpc, pflac, got>>
      /\ mpc = "run" /\ pfile' = [pfile EXCEPT !.pos = t] /\ expect' = t
  BY DEF OnSeek
<1>2. TypeOK'
  <2>1. pfile' \in [open : BOOLEAN, song : Songs \cup {NoSong}, pos : 0 .. NBlocks]
    BY <1>1 DEF PipelineInv, TypeOK
  <2>2. QED
    BY <1>1, <2>1 DEF PipelineInv, TypeOK
<1>3. ModesAgree' /\ QueueInOrder'
  BY <1>1 DEF PipelineInv, TypeOK, ModesAgree, QueueInOrder, Session
<1>4. NoOvercommit' /\ NoBufferLost' /\ RingInOrder' /\ NoLostWakeup'
  BY <1>1 DEF PipelineInv, NoOvercommit, NoBufferLost, RingInOrder, NoLostWakeup, Session,
              Claimed, Filled, Held
<1>5. QED
  BY <1>2, <1>3, <1>4 DEF PipelineInv

LEMMA SameFlac == PipelineInv /\ UNCHANGED flacVars => PipelineInv'
BY PipelineStep

-----------------------------------------------------------------------------
(* The ring.                                                               *)
LEMMA ReaderKeepsRing == PipelineInv /\ RingHolds /\ Reader => RingHolds'
<1> SUFFICES ASSUME PipelineInv, RingHolds, Reader, Session' PROVE RingHolds'
  BY DEF RingHolds
<1>1. TypeOK /\ UNCHANGED <<mpc, pflac>> /\ Session
  BY DEF PipelineInv, Reader, ReaderStart, ReaderTake, ReaderFill, ReaderError, ReaderMore,
         ReaderStop, decoderVars, Session
<1>2. CASE ReaderStart
  <2>1. send_index' = send_index \/ (send_index = 0 /\ send_index' = 0)
    BY <1>2 DEF ReaderStart, PipelineInv, ModesAgree
  <2>2. QED
    BY <1>1, <1>2, <2>1 DEF ReaderStart, RingHolds, Filled, Held
<1>3. CASE ReaderFill
  <2> SUFFICES ASSUME send_index \in Slots, NEW k \in 0 .. Filled' - 1
               PROVE  buffer'[Ahead(send_index, k)].song = pflac
    BY <1>1, <1>3 DEF ReaderFill, RingHolds, TypeOK
  <2>1. Filled' = Filled + 1 /\ Filled \in Nat /\ Filled < READB_FACTOR
    BY <1>1, <1>3, FactorAssumption
       DEF ReaderFill, Release, PipelineInv, NoOvercommit, Claimed, Filled, Held, TypeOK
  <2>2. read_index = Ahead(send_index, Filled) /\ read_index \in Slots
    BY <1>1, <1>3 DEF ReaderFill, PipelineInv, RingInOrder, ModesAgree, TypeOK
  <2>3. /\ buffer' = [buffer EXCEPT ![read_index] = Block(pfile.song, pfile.pos)]
        /\ pfile.song = pflac
    BY <1>1, <1>3 DEF ReaderFill, RingHolds
  <2>4. Ahead(send_index, k) \in Slots
    BY <2>1, FactorAssumption DEF Ahead, Slots
  <2>5. CASE k = Filled
    BY <1>1, <2>2, <2>3, <2>5 DEF TypeOK, Block
  <2>6. CASE k # Filled
    <3>1. Ahead(send_index, k) # read_index
      BY <2>1, <2>2, <2>6, FactorAssumption DEF Ahead, Slots
    <3>2. buffer[Ahead(send_index, k)].song = pflac
      BY <1>1, <2>1, <2>6 DEF RingHolds
    <3>3. QED
      BY <1>1, <2>3, <2>4, <3>1, <3>2 DEF TypeOK
  <2>7. QED
    BY <2>5, <2>6
<1>4. CASE ReaderStop
  <2>1. FALSE
    BY <1>1, <1>4, TailShape DEF ReaderStop, PipelineInv, QueueInOrder, TypeOK, Session
  <2>2. QED
    BY <2>1
<1>5. CASE ReaderTake \/ ReaderError \/ ReaderMore
  BY <1>1, <1>5 DEF ReaderTake, ReaderError, ReaderMore, RingHolds, Filled, Held
<1>6. QED
  BY <1>2, <1>3, <1>4, <1>5 DEF Reader

LEMMA CopyKeepsRing ==
  ASSUME PipelineInv, RingHolds, OnReadCopy
  PROVE  RingHolds' /\ got'.song = pflac
<1>1. TypeOK /\ mpc = "copy" /\ send_index \in Slots /\ Session
  BY SongAssumption DEF OnReadCopy, PipelineInv, ModesAgree, Session
<1>2. /\ Filled' = Filled - 1 /\ Filled \in 1 .. READB_FACTOR
      /\ UNCHANGED <<pflac, buffer, pfile>>
  BY <1>1, FactorAssumption
     DEF OnReadCopy, Filled, Held, PipelineInv, NoOvercommit, Claimed, TypeOK
<1>3. got'.song = pflac
  <2>1. Ahead(send_index, 0) = send_index
    BY <1>1, FactorAssumption DEF Ahead, Slots
  <2>2. QED
    BY <1>1, <1>2, <2>1 DEF RingHolds, OnReadCopy
<1>4. ASSUME send_index' \in Slots, NEW k \in 0 .. Filled' - 1
      PROVE  buffer[Ahead(send_index', k)].song = pflac
  <2>1. send_index' = Advance(send_index)
    BY <1>4 DEF OnReadCopy, Slots
  <2>2. Ahead(send_index', k) = Ahead(send_index, k + 1)
    BY <1>1, <1>2, <2>1, FactorAssumption DEF Ahead, Advance, Slots
  <2>3. k + 1 \in 0 .. Filled - 1
    BY <1>2
  <2>4. QED
    BY <1>1, <2>2, <2>3 DEF RingHolds
<1>5. QED
  BY <1>1, <1>2, <1>3, <1>4 DEF RingHolds

LEMMA DecoderKeepsRing ==
  ASSUME PipelineInv, RingHolds,
         \/ \E s \in Songs : OpenOk(s)
         \/ OpenFail \/ OnReadEnd \/ OnRead \/ OnReadAcquire \/ OnReadCopy
         \/ Sought \/ CloseSend \/ CloseFile \/ UNCHANGED flacVars
  PROVE  RingHolds'
<1>0. TypeOK
  BY DEF PipelineInv
<1>1. ASSUME NEW s \in Songs, OpenOk(s) PROVE RingHolds'
  <2>1. /\ sendsem = 0 /\ UNCHANGED <<sendsem, send_index>>
        /\ mpc' = "opened" /\ pflac' = s /\ pfile'.song = s
    BY <1>1 DEF OpenOk, ReadyToOpen, PipelineInv, ModesAgree
  <2>2. QED
    BY <2>1 DEF RingHolds, Filled, Held
<1>2. CASE OpenFail \/ CloseFile
  BY <1>2 DEF OpenFail, CloseFile, RingHolds, Session
<1>3. CASE OnReadEnd \/ OnRead \/ CloseSend
  BY <1>3 DEF OnReadEnd, OnRead, CloseSend, RingHolds, Session, Filled, Held, readerVars
<1>4. CASE OnReadAcquire
  <2>1. Filled' = Filled /\ Session
    BY <1>0, <1>4, SongAssumption
       DEF OnReadAcquire, Filled, Held, TypeOK, Session, PipelineInv, ModesAgree
  <2>2. QED
    BY <1>4, <2>1 DEF OnReadAcquire, RingHolds
<1>5. CASE Sought
  <2>1. /\ UNCHANGED <<sendsem, buffer, send_index, mpc, pflac>> /\ pfile'.song = pfile.song
    BY <1>0, <1>5 DEF Sought, OnSeek, TypeOK
  <2>2. QED
    BY <2>1 DEF RingHolds, Session, Filled, Held
<1>6. CASE UNCHANGED flacVars
  BY <1>6 DEF flacVars, readerVars, decoderVars, RingHolds, Session, Filled, Held
<1>7. QED
  BY <1>1, <1>2, <1>3, <1>4, <1>5, <1>6, CopyKeepsRing

-----------------------------------------------------------------------------
(* The mixer task: its calls of the pipeline, and its events.              *)
Calls ==
  \/ \E s \in Songs : OpenOk(s)
  \/ OpenFail \/ OnReadEnd \/ OnRead \/ OnReadAcquire \/ OnReadCopy
  \/ Sought \/ CloseSend \/ CloseFile \/ UNCHANGED flacVars

LEMMA LoopIsSought ==
  SeekTo(LoopStart) => Sought \/ UNCHANGED flacVars
BY MixAssumption DEF SeekTo, Sought, flacVars

LEMMA MixerCalls == MixerTypes /\ Mixer => Calls
<1> SUFFICES ASSUME MixerTypes, Mixer PROVE Calls
  OBVIOUS
<1>1. CASE PlayOpen
  BY <1>1 DEF PlayOpen, MixerTypes, Calls
<1>2. CASE RequestPlay \/ RefillEnd
  BY <1>2, LoopIsSought DEF RequestPlay, RefillEnd, Calls, flacVars
<1>3. CASE TakePlay \/ RequestPending \/ RequestIdle \/ TakePause \/ TakeResume
             \/ DecodeHalf \/ FillDone \/ RefillMix
  BY <1>3 DEF TakePlay, RequestPending, RequestIdle, TakePause, TakeResume, DecodeHalf,
              FillDone, RefillMix, Calls
<1>4. CASE PlayOpenFail \/ TakeHalt \/ HaltDone \/ DecodeRead \/ DecodeEnd \/ DecodeAcquire
             \/ DecodeBlock
  BY <1>4 DEF PlayOpenFail, TakeHalt, HaltDone, DecodeRead, DecodeEnd, DecodeAcquire,
              DecodeBlock, Calls
<1>5. QED
  BY <1>1, <1>2, <1>3, <1>4 DEF Mixer

LEMMA CallsKeepPipeline ==
  ASSUME PipelineInv, RingHolds, Calls
  PROVE  PipelineInv' /\ RingHolds'
<1>1. RingHolds'
  BY DecoderKeepsRing DEF Calls
<1>2. CASE Sought \/ UNCHANGED flacVars
  BY <1>1, <1>2, SeekKeepsPipeline, SameFlac
<1>3. CASE ~(Sought \/ UNCHANGED flacVars)
  <2>1. Decoder
    BY <1>3 DEF Calls, Decoder
  <2>2. QED
    BY <1>1, <2>1, DecoderKeepsPipeline
<1>4. QED
  BY <1>2, <1>3

LEMMA PutEvType ==
  ASSUME NEW q \in Seq(Events), NEW ev \in Events
  PROVE  PutEv(q, ev) \in Seq(Events)
BY DEF PutEv

LEMMA TakeTypes ==
  ASSUME MixerTypes, NEW ev, TakeEvent(ev)
  PROVE  /\ mixpc = "get" /\ mixevq' \in Seq(Events) /\ ctrl' \in Events /\ ctrl'.event = ev
         /\ ev = "MIX_PLAY" => ctrl'.song \in Songs
         /\ ev = "MIX_DATA_REQ" => ctrl'.option \in {0, 1}
         /\ ev \notin {"MIX_PAUSE", "MIX_RESUME"}
<1>1. mixpc = "get" /\ mixevq' \in Seq(Events) /\ ctrl' \in Events /\ ctrl'.event = ev
  BY DEF MixerTypes, TakeEvent
<1>2. QED
  BY <1>1 DEF Events, Plays, Play, DataReq, Command

(* Where the mixer task is not decoding, the callbacks are at rest.        *)
LEMMA AtRest ==
  ASSUME PipelineInv, CallsAgree, ~Decoding, mixpc # "halt"
  PROVE  mpc = "run"
BY DEF PipelineInv, TypeOK, CallsAgree, Decoding, Wanted

-----------------------------------------------------------------------------
(* The steps of the mixer task.                                            *)
LEMMA TakesKeepMixer ==
  ASSUME PlayerInv, TakePlay \/ RequestPending \/ RequestIdle \/ TakeHalt
  PROVE  MixerInv'
<1> USE DEF PlayerInv, MixerInv, MixerTypes, CallsAgree, SongInv, Decoding
<1>1. mixpc = "get" /\ mpc = "run"
  BY AtRest DEF TakePlay, RequestPending, RequestIdle, TakeHalt, TakeEvent
<1>2. CASE TakePlay
  <2>1. TakeEvent("MIX_PLAY")
    BY <1>2 DEF TakePlay
  <2>2. MixerTypes'
    BY <1>2, <2>1, TakeTypes DEF TakePlay
  <2>3. QED
    BY <1>1, <1>2, <2>2 DEF TakePlay, flacVars, decoderVars
<1>3. CASE RequestPending \/ RequestIdle
  <2>1. TakeEvent("MIX_DATA_REQ")
    BY <1>3 DEF RequestPending, RequestIdle
  <2>2. MixerTypes'
    BY <1>3, <2>1, TakeTypes DEF RequestPending, RequestIdle, MixSound
  <2>3. QED
    BY <1>1, <1>3, <2>2 DEF RequestPending, RequestIdle, flacVars, decoderVars
<1>4. CASE TakeHalt
  <2>1. TakeEvent("MIX_HALT")
    BY <1>4 DEF TakeHalt
  <2>2. MixerTypes'
    BY <1>4, <2>1, <1>1, TakeTypes DEF TakeHalt, AfterHalt
  <2>3. QED
    BY <1>1, <1>4, <2>2
       DEF TakeHalt, AfterHalt, FileToClose, CloseSend, flacVars, decoderVars
<1>5. QED
  BY <1>2, <1>3, <1>4

(* Sought or not, the decoder holds nothing more than before.              *)
LEMMA SeekEffect ==
  ASSUME PipelineInv, cached \in Nat, SeekTo(LoopStart)
  PROVE  /\ UNCHANGED <<mpc, pflac, got>>
         /\ cached' \in Nat /\ (cached' = 0 \/ cached' = cached)
BY DEF SeekTo, OnSeek, decoderVars

LEMMA RequestKeepsMixer ==
  ASSUME PlayerInv, RequestPlay
  PROVE  MixerInv'
<1> USE DEF PlayerInv, MixerInv, MixerTypes, CallsAgree, SongInv, Decoding
<1>1. mixpc = "get" /\ mpc = "run"
  BY AtRest DEF RequestPlay, TakeEvent
<1>2. /\ UNCHANGED <<mpc, pflac, got>>
      /\ cached' \in Nat /\ (cached' = 0 \/ cached' = cached)
  BY SeekEffect DEF RequestPlay, flacVars, decoderVars
<1>3. MixerTypes'
  <2>1. TakeEvent("MIX_DATA_REQ")
    BY DEF RequestPlay
  <2>2. mixevq' \in Seq(Events) /\ ctrl'.option \in {0, 1}
    BY <2>1, TakeTypes
  <2>3. UNCHANGED <<state, music, dma>> /\ mixpc' = "refill" /\ num_read' = 0 /\ eof' = FALSE
    BY DEF RequestPlay
  <2>4. music' = [h \in {0, 1} |-> music'[h]]
    BY <2>3
  <2>5. num_read' \in 0 .. 2 /\ eof' \in BOOLEAN
    BY <2>3
  <2>6. QED
    BY <1>2, <2>2, <2>3, <2>4, <2>5
<1>4. QED
  BY <1>1, <1>2, <1>3 DEF RequestPlay

(* A song is opened by a player that is idle: the reader is stopped, and   *)
(* the player waits for it outside the callbacks, so that it has no file.  *)
LEMMA OpenKeepsMixer ==
  ASSUME PlayerInv, PlayOpen \/ PlayOpenFail \/ HaltDone
  PROVE  MixerInv'
<1> USE DEF PlayerInv, MixerInv, MixerTypes, CallsAgree, SongInv, Decoding, Wanted
<1>1. CASE PlayOpen
  <2>1. /\ reader_status = "STOPPED" /\ mpc = "run" /\ mixpc = "stopwait"
        /\ mpc' = "opened" /\ pflac' = ctrl.song
    BY <1>1 DEF PlayOpen, OpenOk, ReadyToOpen
  <2>2. state = "IDLE"
    BY <2>1 DEF PipelineInv, ModesAgree
  <2>3. MixerTypes'
    <3>1. /\ UNCHANGED <<mixevq, state, ctrl, music, dma>>
          /\ mixpc' = "fill" /\ cached' = 0 /\ num_read' = 0 /\ eof' = FALSE
      BY <1>1 DEF PlayOpen
    <3>2. music' = [h \in {0, 1} |-> music'[h]]
      BY <3>1
    <3>3. num_read' \in 0 .. 2
      BY <3>1
    <3>4. cached' \in Nat
      BY <3>1
    <3>5. QED
      BY <3>1, <3>2, <3>3, <3>4
  <2>4. CallsAgree'
    BY <1>1, <2>1 DEF PlayOpen
  <2>5. SongInv'
    BY <1>1, <2>1, <2>2, SongAssumption DEF PlayOpen
  <2>6. QED
    BY <2>3, <2>4, <2>5
<1>2. CASE PlayOpenFail
  <2>1. /\ reader_status = "STOPPED" /\ mpc = "run" /\ mixpc = "stopwait"
        /\ mpc' = "run" /\ pflac' = NoSong
    BY <1>2 DEF PlayOpenFail, OpenFail, ReadyToOpen
  <2>2. state = "IDLE"
    BY <2>1 DEF PipelineInv, ModesAgree
  <2>3. QED
    BY <1>2, <2>1, <2>2 DEF PlayOpenFail
<1>3. CASE HaltDone
  BY <1>3 DEF HaltDone, CloseFile, AfterHalt
<1>4. QED
  BY <1>1, <1>2, <1>3

LEMMA DecodeKeepsMixer ==
  ASSUME PlayerInv, DecodeRead \/ DecodeEnd \/ DecodeAcquire \/ DecodeBlock
  PROVE  MixerInv'
<1> USE DEF PlayerInv, MixerInv, MixerTypes, CallsAgree, SongInv, Decoding, Wanted, UnchangedMix
<1>1. pflac # NoSong
  BY DEF DecodeRead, DecodeEnd, DecodeAcquire, DecodeBlock
<1>2. CASE DecodeRead
  BY <1>1, <1>2 DEF DecodeRead, OnRead
<1>3. CASE DecodeEnd
  BY <1>1, <1>3 DEF DecodeEnd, OnReadEnd
<1>4. CASE DecodeAcquire
  BY <1>1, <1>4 DEF DecodeAcquire, OnReadAcquire
<1>5. CASE DecodeBlock
  <2>1. mpc = "copy" /\ mpc' = "run" /\ pflac' = pflac /\ got'.song = pflac
    BY <1>5, CopyKeepsRing DEF DecodeBlock, OnReadCopy
  <2>2. cached' \in Nat
    BY <1>5, MixAssumption DEF DecodeBlock
  <2>3. MixerTypes'
    BY <1>5, <2>2 DEF DecodeBlock
  <2>4. CallsAgree'
    BY <1>5, <2>1 DEF DecodeBlock
  <2>5. SongInv'
    BY <1>5, <2>1 DEF DecodeBlock
  <2>6. QED
    BY <2>3, <2>4, <2>5
<1>6. QED
  BY <1>2, <1>3, <1>4, <1>5

(* One more half of the open song goes into its place.                     *)
LEMMA HalfKeepsMixer ==
  ASSUME PlayerInv, DecodeHalf
  PROVE  MixerInv'
<1> USE DEF PlayerInv, MixerInv, MixerTypes, CallsAgree, SongInv, Decoding, Wanted, UnchangedMix
<1>1. /\ UNCHANGED <<mpc, pflac, got, mixpc, state, ctrl, eof>>
      /\ num_read' = num_read + 1 /\ cached' = cached - 1 /\ cached > 0
      /\ mixpc \in {"fill", "refill"} /\ num_read < Wanted /\ ~eof
  BY DEF DecodeHalf, flacVars, decoderVars
<1>2. /\ mpc \notin {"opened", "wait", "copy", "close"}
      /\ pflac # NoSong /\ state # "PLAY_REQ" /\ got.song = pflac
  BY <1>1
<1>3. Place \in {0, 1} /\ Half(got.song, NextHalf).song = pflac
  BY <1>1, <1>2 DEF Place, Half
<1>4. music' = [music EXCEPT ![Place] = Half(got.song, NextHalf)]
  BY DEF DecodeHalf
<1>5. /\ music' = [h \in {0, 1} |-> music'[h]]
      /\ music'[Place].song = pflac
      /\ \A h \in {0, 1} : h # Place => music'[h] = music[h]
  BY <1>3, <1>4
<1>6. MixerTypes'
  <2>1. num_read' \in 0 .. 2 /\ cached' \in Nat
    BY <1>1
  <2>2. QED
    BY <1>1, <1>5, <2>1 DEF DecodeHalf
<1>7. CallsAgree'
  BY <1>1, <1>2
<1>8. SongInv'
  <2>1. CASE mixpc = "fill"
    BY <1>1, <1>2, <1>5, <2>1 DEF Place
  <2>2. CASE mixpc = "refill"
    BY <1>1, <1>2, <1>5, <2>2 DEF Place
  <2>3. QED
    BY <1>1, <2>1, <2>2
<1>9. QED
  BY <1>6, <1>7, <1>8

LEMMA EndKeepsMixer ==
  ASSUME PlayerInv, FillDone \/ RefillMix \/ RefillEnd
  PROVE  MixerInv'
<1> USE DEF PlayerInv, MixerInv, MixerTypes, CallsAgree, SongInv
<1>1. ~Decoding
  BY DEF FillDone, RefillMix, RefillEnd, Decoding, Wanted
<1>2. mpc = "run" /\ mixpc' = "get"
  BY <1>1, AtRest DEF FillDone, RefillMix, RefillEnd
<1>3. CASE FillDone
  BY <1>2, <1>3 DEF FillDone, flacVars, decoderVars
<1>4. CASE RefillMix
  BY <1>2, <1>4 DEF RefillMix, MixSound, flacVars, decoderVars
<1>5. CASE RefillEnd
  <2>1. /\ UNCHANGED <<mpc, pflac, got>>
        /\ cached' \in Nat /\ (cached' = 0 \/ cached' = cached)
    BY <1>5, SeekEffect DEF RefillEnd, flacVars, decoderVars
  <2>2. QED
    BY <1>2, <1>5, <2>1 DEF RefillEnd, MixSound
<1>6. QED
  BY <1>3, <1>4, <1>5

LEMMA MixerKeepsPlayer ==
  ASSUME PlayerInv, Mixer, UNCHANGED doomVars
  PROVE  PlayerInv'
<1>1. PipelineInv' /\ RingHolds'
  BY MixerCalls, CallsKeepPipeline DEF PlayerInv, MixerInv
<1>2. ~TakePause /\ ~TakeResume
  BY TakeTypes DEF PlayerInv, MixerInv, TakePause, TakeResume
<1>3. MixerInv'
  BY <1>2, TakesKeepMixer, RequestKeepsMixer, OpenKeepsMixer, DecodeKeepsMixer, HalfKeepsMixer,
     EndKeepsMixer DEF Mixer
<1>4. QED
  BY <1>1, <1>3 DEF PlayerInv, doomVars

-----------------------------------------------------------------------------
(* The steps of the others.                                                *)
LEMMA ReaderKeepsPlayer ==
  ASSUME PlayerInv, ReaderStep, UNCHANGED doomVars
  PROVE  PlayerInv'
<1>1. PipelineInv' /\ RingHolds'
  BY ReaderKeepsPipeline, ReaderKeepsRing DEF PlayerInv, ReaderStep
<1>2. UNCHANGED <<mpc, pflac, got>>
  BY DEF ReaderStep, Reader, ReaderStart, ReaderTake, ReaderFill, ReaderError, ReaderMore,
         ReaderStop, decoderVars
<1>3. MixerInv'
  BY <1>2 DEF PlayerInv, MixerInv, MixerTypes, CallsAgree, SongInv, Decoding, Wanted, ReaderStep,
              mixVars
<1>4. QED
  BY <1>1, <1>3 DEF PlayerInv, doomVars

(* An event is put in the queue, and nothing else of the player changes.   *)
LEMMA EventKeepsPlayer ==
  ASSUME PlayerInv, NEW ev \in Events, mixevq' = PutEv(mixevq, ev), dma' \in {0, 1},
         next_song' \in {NoPlay} \cup Plays,
         UNCHANGED <<flacVars, state, mixpc, ctrl, loop_count, pcm_pos, cached,
                     frame, num_read, eof, music, freehalf, lastmix>>
  PROVE  PlayerInv'
<1>1. PipelineInv' /\ RingHolds'
  BY CallsKeepPipeline DEF PlayerInv, Calls
<1>2. mixevq' \in Seq(Events)
  BY PutEvType DEF PlayerInv, MixerInv, MixerTypes
<1>3. MixerInv'
  BY <1>2 DEF PlayerInv, MixerInv, MixerTypes, CallsAgree, SongInv, Decoding, Wanted, flacVars,
              decoderVars
<1>4. QED
  BY <1>1, <1>3 DEF PlayerInv

LEMMA DmaKeepsPlayer ==
  ASSUME PlayerInv, DmaInterrupt, UNCHANGED doomVars
  PROVE  PlayerInv'
<1>1. DataReq(dma) \in Events /\ 1 - dma \in {0, 1}
  BY DEF PlayerInv, MixerInv, MixerTypes, Events
<1>2. QED
  BY <1>1, EventKeepsPlayer DEF DmaInterrupt, doomVars, PlayerInv

LEMMA DoomKeepsPlayer ==
  ASSUME PlayerInv, Doom
  PROVE  PlayerInv'
<1>1. Command("MIX_HALT") \in Events
  BY DEF Events
<1>2. ASSUME NEW s \in Songs, NEW looping \in BOOLEAN, ChangeMusic(s, looping)
      PROVE  PlayerInv'
  <2>1. Play(s, IF looping THEN -1 ELSE 1) \in Plays /\ Plays \subseteq Events
    BY DEF Plays, Events
  <2>2. QED
    BY <1>1, <1>2, <2>1, EventKeepsPlayer DEF ChangeMusic, Post, PlayerInv, MixerInv, MixerTypes
<1>3. CASE PlaySong
  <2>1. next_song \in Events
    BY <1>3 DEF PlaySong, PlayerInv, Events
  <2>2. QED
    BY <1>3, <2>1, EventKeepsPlayer DEF PlaySong, Post, PlayerInv, MixerInv, MixerTypes
<1>4. CASE StopMusic
  BY <1>1, <1>4, EventKeepsPlayer DEF StopMusic, Post, PlayerInv, MixerInv, MixerTypes
<1>5. QED
  BY <1>2, <1>3, <1>4 DEF Doom

LEMMA PlayerStep == PlayerInv /\ [DoomNext]_songVars => PlayerInv'
<1> SUFFICES ASSUME PlayerInv, [DoomNext]_songVars PROVE PlayerInv'
  OBVIOUS
<1>1. CASE DoomNext
  BY <1>1, MixerKeepsPlayer, ReaderKeepsPlayer, DmaKeepsPlayer, DoomKeepsPlayer DEF DoomNext
<1>2. CASE UNCHANGED songVars
  <2>1. PipelineInv' /\ RingHolds'
    BY <1>2, CallsKeepPipeline DEF PlayerInv, Calls, songVars
  <2>2. MixerInv'
    BY <1>2 DEF PlayerInv, MixerInv, MixerTypes, CallsAgree, SongInv, Decoding, Wanted, songVars,
                mixVars, flacVars, decoderVars
  <2>3. QED
    BY <1>2, <2>1, <2>2 DEF PlayerInv, songVars, doomVars
<1>3. QED
  BY <1>1, <1>2

LEMMA PlayerInit == DoomInit => PlayerInv
<1> SUFFICES ASSUME DoomInit PROVE PlayerInv
  OBVIOUS
<1>1. PipelineInv /\ RingHolds
  BY PipelineInit DEF DoomInit, MixInit, Init, RingHolds, Session
<1>2. MixerTypes
  <2>1. mixevq \in Seq(Events)
    BY DEF DoomInit, MixInit
  <2>2. QED
    BY <2>1 DEF DoomInit, MixInit, MixerTypes
<1>3. CallsAgree /\ SongInv
  BY DEF DoomInit, MixInit, Init, CallsAgree, SongInv
<1>4. QED
  BY <1>1, <1>2, <1>3 DEF PlayerInv, MixerInv, DoomInit

-----------------------------------------------------------------------------
(* What a step of the mixer task mixes: while the player plays, a half of  *)
(* the song that is open.                                                  *)
LEMMA MixedIsOpen ==
  ASSUME PlayerInv, RefillMix \/ (RequestPending /\ state' = "PLAY")
  PROVE  music[ctrl'.option].song = pfile.song /\ pfile.open
<1> USE DEF PlayerInv, MixerInv, SongInv
<1>1. CASE RefillMix
  <2>1. ~Decoding /\ mixpc = "refill" /\ num_read > 0 /\ ctrl' = ctrl
    BY <1>1 DEF RefillMix, Decoding, Wanted, MixerTypes
  <2>2. Session
    BY <2>1, AtRest DEF Session
  <2>3. QED
    BY <2>1, <2>2 DEF RingHolds, PipelineInv, ModesAgree
<1>2. CASE RequestPending /\ state' = "PLAY"
  <2>1. state = "PLAY_REQ" /\ mixpc = "get" /\ ctrl'.option = 0
    BY <1>2 DEF RequestPending, TakeEvent
  <2>2. Session
    BY <2>1, AtRest DEF Session, Decoding
  <2>3. QED
    BY <2>1, <2>2 DEF RingHolds, PipelineInv, ModesAgree
<1>3. QED
  BY <1>1, <1>2

(* Music that is mixed was decoded from the file that is open, though the  *)
(* ring and MusicFrameBuffer keep what was fetched of the song before, and *)
(* whatever commands and events the two queues drop.                       *)
THEOREM MixedWasDecodedFromOpenFile == DoomSpec => MixesOpenSong
<1>1. PlayerInv /\ [DoomNext]_songVars
        => [RefillMix \/ (RequestPending /\ state' = "PLAY")
              => music[ctrl'.option].song = pfile.song /\ pfile.open]_mixVars
  BY MixedIsOpen
<1>2. QED
  BY <1>1, PlayerInit, PlayerStep, PTL DEF DoomSpec, MixesOpenSong
-----------------------------------------------------------------------------
(***************************************************************************)
(* The music screen.  It seeks nothing and its songs play once, so that    *)
(* the decoder reads each as one stream; how many halves of it have been   *)
(* decoded can be told from where the stream stands.                       *)
(***************************************************************************)
GuiEvents ==
  {DataReq(0), DataReq(1), Command("MIX_HALT"), Command("MIX_PAUSE"), Command("MIX_RESUME")}
    \cup {Play(s, 0) : s \in Songs}

(* The track on the screen, and the state of its music.                    *)
ScreenTypes == track \in Songs /\ mstate \in {"LOADED", "PLAYING", "PAUSED"}

GuiTypes ==
  /\ mixevq \in Seq(GuiEvents)
  /\ dma \in {0, 1}
  /\ mixpc \in {"get", "stopwait", "fill", "refill", "halt"}
  /\ cached \in Nat /\ frame \in Nat /\ num_read \in Nat /\ eof \in BOOLEAN
  /\ music \in [{0, 1} -> [song : Songs \cup {NoSong}, half : Int]]
  /\ mixpc = "stopwait" => ctrl.song \in Songs /\ ctrl.option = 0
  /\ mixpc = "refill" => ctrl.option \in {0, 1}
  /\ loop_count = 0 /\ lastmix \in Int
  /\ ScreenTypes

(* Halves of the song decoded so far.                                      *)
Position == (expect \div FRAME_BLOCKS) * FRAME_HALVES - cached

(* The decoder is at the end of the stream and holds nothing.              *)
Over == send_index = -1 /\ cached = 0

(* The half h may be the next one that is mixed.                           *)
Onward(h) == h = lastmix + 1 \/ (lastmix < 2 /\ h = 2)

(* What the decoder holds is the rest of the frame that was read last.     *)
FrameInv ==
  /\ pflac = NoSong => cached = 0
  /\ cached > 0 =>
       /\ frame = 0 /\ expect % FRAME_BLOCKS = 0
       /\ expect > 0 /\ got = Block(pflac, expect - 1)
  /\ Session /\ send_index # -1 => frame = expect % FRAME_BLOCKS

(* The half that is decoded next is the one to be mixed next, until the    *)
(* song is over.  The second half that MIX_PLAY decodes is never mixed: it *)
(* is overwritten by the third.                                            *)
FillInv ==
  mixpc = "fill" =>
    /\ pflac # NoSong /\ state # "PLAY_REQ"
    /\ lastmix = -1 /\ num_read = Position /\ num_read <= 2
    /\ eof => Over
    /\ num_read > 0 => music[0].half = 0

RefillInv ==
  mixpc = "refill" =>
    /\ state = "PLAY" /\ num_read <= 1
    /\ eof /\ pflac # NoSong => Over
    /\ num_read = 0 /\ pflac # NoSong => Over \/ Onward(Position)
    /\ num_read = 1 =>
         /\ pflac # NoSong
         /\ music[ctrl.option].song = pflac /\ Onward(music[ctrl.option].half)
         /\ Position = music[ctrl.option].half + 1

RestInv == mixpc \in {"get", "stopwait"} /\ pflac # NoSong => Over \/ Onward(Position)

PendingInv ==
  state = "PLAY_REQ" =>
    /\ pflac # NoSong
    /\ lastmix = -1 /\ music[0].half = 0
    /\ Session => Over \/ Position = 2

OnwardInv == FillInv /\ RefillInv /\ RestInv /\ PendingInv

GuiInv ==
  PipelineInv /\ ContentsInOrder /\ GuiTypes /\ CallsAgree /\ FrameInv /\ OnwardInv

-----------------------------------------------------------------------------
(* Blocks and frames.                                                      *)
LEMMA QuotientIs ==
  ASSUME NEW n \in Nat, NEW q \in Nat, NEW r \in Nat, r < FRAME_BLOCKS,
         n = q * FRAME_BLOCKS + r
  PROVE  n \div FRAME_BLOCKS = q /\ n % FRAME_BLOCKS = r
<1> DEFINE d == n \div FRAME_BLOCKS
           m == n % FRAME_BLOCKS
<1>1. /\ d \in Nat /\ m \in Nat /\ m < FRAME_BLOCKS
      /\ n = d * FRAME_BLOCKS + m
  BY MixAssumption
<1> HIDE DEF d, m
<1>2. CASE d < q
  <2>1. PICK k \in Nat : q = d + 1 + k
    BY <1>1, <1>2
  <2>2. q * FRAME_BLOCKS = d * FRAME_BLOCKS + FRAME_BLOCKS + k * FRAME_BLOCKS
    BY <1>1, <2>1, MixAssumption
  <2>3. k * FRAME_BLOCKS >= 0
    BY <2>1, MixAssumption
  <2>4. QED
    BY <1>1, <2>2, <2>3, MixAssumption
<1>3. CASE q < d
  <2>1. PICK k \in Nat : d = q + 1 + k
    BY <1>1, <1>3
  <2>2. d * FRAME_BLOCKS = q * FRAME_BLOCKS + FRAME_BLOCKS + k * FRAME_BLOCKS
    BY <1>1, <2>1, MixAssumption
  <2>3. k * FRAME_BLOCKS >= 0
    BY <2>1, MixAssumption
  <2>4. QED
    BY <1>1, <2>2, <2>3, MixAssumption
<1>4. CASE d = q
  BY <1>1, <1>4, MixAssumption DEF d, m
<1>5. QED
  BY <1>1, <1>2, <1>3, <1>4

LEMMA NextBlock ==
  ASSUME NEW n \in Nat
  PROVE  /\ (n % FRAME_BLOCKS) + 1 # FRAME_BLOCKS =>
              /\ (n + 1) % FRAME_BLOCKS = (n % FRAME_BLOCKS) + 1
              /\ (n + 1) \div FRAME_BLOCKS = n \div FRAME_BLOCKS
         /\ (n % FRAME_BLOCKS) + 1 = FRAME_BLOCKS =>
              /\ (n + 1) % FRAME_BLOCKS = 0
              /\ (n + 1) \div FRAME_BLOCKS = (n \div FRAME_BLOCKS) + 1
         /\ n % FRAME_BLOCKS \in Nat /\ n \div FRAME_BLOCKS \in Nat
<1> DEFINE d == n \div FRAME_BLOCKS
           m == n % FRAME_BLOCKS
<1>1. /\ d \in Nat /\ m \in Nat /\ m < FRAME_BLOCKS
      /\ n = d * FRAME_BLOCKS + m
  BY MixAssumption
<1> HIDE DEF d, m
<1>2. CASE m + 1 # FRAME_BLOCKS
  <2>1. n + 1 = d * FRAME_BLOCKS + (m + 1) /\ m + 1 < FRAME_BLOCKS
    BY <1>1, <1>2, MixAssumption
  <2>2. (n + 1) \div FRAME_BLOCKS = d /\ (n + 1) % FRAME_BLOCKS = m + 1
    BY <1>1, <2>1, QuotientIs
  <2>3. QED
    BY <1>1, <1>2, <2>2 DEF d, m
<1>3. CASE m + 1 = FRAME_BLOCKS
  <2>1. n + 1 = (d + 1) * FRAME_BLOCKS + 0
    BY <1>1, <1>3, MixAssumption
  <2>2. (n + 1) \div FRAME_BLOCKS = d + 1 /\ (n + 1) % FRAME_BLOCKS = 0
    <3>1. d + 1 \in Nat /\ 0 < FRAME_BLOCKS
      BY <1>1, MixAssumption
    <3>2. QED
      BY <2>1, <3>1, QuotientIs
  <2>3. QED
    BY <1>1, <1>3, <2>2 DEF d, m
<1>4. QED
  BY <1>2, <1>3

LEMMA PositionType ==
  ASSUME expect \in Nat, cached \in Nat
  PROVE  Position \in Int
<1>1. expect \div FRAME_BLOCKS \in Nat
  BY NextBlock
<1>2. QED
  BY <1>1, MixAssumption DEF Position

(* A step that leaves the stream alone.                                    *)
LEMMA StreamStays ==
  ASSUME FrameInv, UNCHANGED <<expect, cached, frame, got, pflac, mpc, send_index>>
  PROVE  /\ FrameInv'
         /\ Position' = Position /\ (Over' <=> Over) /\ (Session' <=> Session)
BY DEF FrameInv, Position, Over, Session

-----------------------------------------------------------------------------
(* The calls of the mixer task.                                            *)
LEMMA GuiCalls ==
  ASSUME GuiTypes, Mixer
  PROVE  StreamCalls \/ UNCHANGED flacVars
<1> USE DEF StreamCalls
<1>1. CASE PlayOpen
  BY <1>1 DEF PlayOpen, GuiTypes
<1>2. CASE RequestPlay \/ RefillEnd
  BY <1>2 DEF RequestPlay, RefillEnd, GuiTypes, flacVars
<1>3. CASE TakePlay \/ RequestPending \/ RequestIdle \/ TakePause \/ TakeResume
             \/ DecodeHalf \/ FillDone \/ RefillMix
  BY <1>3 DEF TakePlay, RequestPending, RequestIdle, TakePause, TakeResume, DecodeHalf,
              FillDone, RefillMix
<1>4. CASE PlayOpenFail \/ TakeHalt \/ HaltDone \/ DecodeRead \/ DecodeEnd \/ DecodeAcquire
             \/ DecodeBlock
  BY <1>4 DEF PlayOpenFail, TakeHalt, HaltDone, DecodeRead, DecodeEnd, DecodeAcquire,
              DecodeBlock
<1>5. QED
  BY <1>1, <1>2, <1>3, <1>4 DEF Mixer

LEMMA GuiCallsKeepStream ==
  ASSUME PipelineInv, ContentsInOrder, StreamCalls \/ UNCHANGED flacVars
  PROVE  PipelineInv' /\ ContentsInOrder'
<1>1. CASE StreamCalls
  BY <1>1, DecoderKeepsPipeline, StreamCallsKeepContents DEF StreamCalls, Decoder
<1>2. CASE UNCHANGED flacVars
  BY <1>2, SameFlac DEF ContentsInOrder, Session, Filled, Held, flacVars, readerVars, decoderVars
<1>3. QED
  BY <1>1, <1>2

LEMMA GuiTakeTypes ==
  ASSUME GuiTypes, NEW ev, TakeEvent(ev)
  PROVE  /\ mixpc = "get" /\ mixevq' \in Seq(GuiEvents)
         /\ ev = "MIX_PLAY" => ctrl'.song \in Songs /\ ctrl'.option = 0
         /\ ev = "MIX_DATA_REQ" => ctrl'.option \in {0, 1}
<1>1. mixpc = "get" /\ mixevq' \in Seq(GuiEvents) /\ ctrl' \in GuiEvents /\ ctrl'.event = ev
  BY DEF GuiTypes, TakeEvent
<1>2. QED
  BY <1>1 DEF GuiEvents, Play, DataReq, Command

-----------------------------------------------------------------------------
(* The steps of the mixer task.                                            *)
MusicInv == GuiTypes /\ CallsAgree /\ FrameInv /\ OnwardInv

LEMMA PlayTaken ==
  ASSUME GuiInv, TakePlay, ScreenTypes'
  PROVE  MusicInv'
<1>1. TakeEvent("MIX_PLAY") /\ mixpc = "get" /\ mixpc' = "stopwait"
  BY DEF TakePlay, TakeEvent
<1>2. UNCHANGED <<flacVars, state, loop_count, cached, frame, num_read, eof, music, dma,
                  lastmix>>
  BY DEF TakePlay
<1>3. GuiTypes'
  BY <1>1, <1>2, GuiTakeTypes DEF GuiInv, GuiTypes
<1>4. mpc = "run"
  BY <1>1, AtRest DEF GuiInv, Decoding
<1>5. CallsAgree'
  BY <1>1, <1>2, <1>4 DEF CallsAgree, flacVars, decoderVars
<1>6. /\ FrameInv'
      /\ Position' = Position /\ (Over' <=> Over) /\ (Session' <=> Session)
  BY <1>2, StreamStays DEF GuiInv, flacVars, readerVars, decoderVars
<1>7. OnwardInv'
  BY <1>1, <1>2, <1>6
     DEF GuiInv, OnwardInv, FillInv, RefillInv, RestInv, PendingInv, Onward, flacVars, decoderVars
<1>8. QED
  BY <1>3, <1>5, <1>6, <1>7 DEF MusicInv

(* A half is mixed without decoding one, or the state changes.             *)
LEMMA RequestTaken ==
  ASSUME GuiInv, RequestPending \/ RequestIdle \/ TakePause \/ TakeResume, ScreenTypes'
  PROVE  MusicInv'
<1>1. /\ mixpc = "get" /\ mixpc' = "get" /\ mixevq' \in Seq(GuiEvents)
  BY GuiTakeTypes DEF RequestPending, RequestIdle, TakePause, TakeResume, GuiInv, TakeEvent
<1>2. /\ UNCHANGED <<flacVars, loop_count, cached, frame, num_read, eof, music, dma>>
  BY DEF RequestPending, RequestIdle, TakePause, TakeResume
<1>3. /\ lastmix' # lastmix => state = "PLAY_REQ" /\ lastmix' = 0
      /\ state' = "PLAY_REQ" => state = "PLAY_REQ" /\ lastmix' = lastmix
  <2>1. CASE RequestPending
    <3>1. state = "PLAY_REQ" /\ music[0].half = 0
      BY <2>1 DEF RequestPending, GuiInv, OnwardInv, PendingInv
    <3>2. QED
      BY <2>1, <3>1 DEF RequestPending, MixSound
  <2>2. CASE RequestIdle \/ TakePause \/ TakeResume
    BY <2>2 DEF RequestIdle, TakePause, TakeResume, MixSound
  <2>3. QED
    BY <2>1, <2>2
<1>4. GuiTypes'
  BY <1>1, <1>2, <1>3 DEF GuiInv, GuiTypes
<1>5. mpc = "run"
  BY <1>1, AtRest DEF GuiInv, Decoding
<1>6. CallsAgree'
  BY <1>1, <1>2, <1>5 DEF CallsAgree, flacVars, decoderVars
<1>7. /\ FrameInv'
      /\ Position' = Position /\ (Over' <=> Over) /\ (Session' <=> Session)
  BY <1>2, StreamStays DEF GuiInv, flacVars, readerVars, decoderVars
<1>8. OnwardInv'
  <2>1. pflac' = pflac /\ music' = music
    BY <1>2 DEF flacVars, decoderVars
  <2>2. RestInv'
    <3>1. CASE lastmix' = lastmix
      BY <1>1, <1>7, <2>1, <3>1 DEF GuiInv, OnwardInv, RestInv, Onward
    <3>2. CASE lastmix' # lastmix
      <4>1. Session
        BY <1>3, <1>5, <3>2 DEF GuiInv, OnwardInv, PendingInv, Session
      <4>2. QED
        BY <1>3, <1>7, <3>2, <4>1 DEF GuiInv, OnwardInv, PendingInv, RestInv, Onward
    <3>3. QED
      BY <3>1, <3>2
  <2>3. QED
    BY <1>1, <1>3, <1>7, <2>1, <2>2 DEF GuiInv, OnwardInv, FillInv, RefillInv, PendingInv
<1>9. QED
  BY <1>4, <1>6, <1>7, <1>8 DEF MusicInv

LEMMA DecodingBegins ==
  ASSUME GuiInv, RequestPlay, ScreenTypes'
  PROVE  MusicInv'
<1>1. TakeEvent("MIX_DATA_REQ") /\ mixpc = "get" /\ mixpc' = "refill"
  BY DEF RequestPlay, TakeEvent
<1>2. /\ UNCHANGED <<flacVars, state, loop_count, cached, frame, music, dma, lastmix>>
      /\ num_read' = 0 /\ eof' = FALSE /\ state = "PLAY"
  BY DEF RequestPlay, GuiInv, GuiTypes
<1>3. GuiTypes'
  BY <1>1, <1>2, GuiTakeTypes DEF GuiInv, GuiTypes
<1>4. mpc = "run"
  BY <1>1, AtRest DEF GuiInv, Decoding
<1>5. CallsAgree'
  BY <1>1, <1>2, <1>4 DEF CallsAgree, flacVars, decoderVars
<1>6. /\ FrameInv'
      /\ Position' = Position /\ (Over' <=> Over) /\ (Session' <=> Session)
  BY <1>2, StreamStays DEF GuiInv, flacVars, readerVars, decoderVars
<1>7. OnwardInv'
  BY <1>1, <1>2, <1>6
     DEF GuiInv, OnwardInv, FillInv, RefillInv, RestInv, PendingInv, Onward, flacVars, decoderVars
<1>8. QED
  BY <1>3, <1>5, <1>6, <1>7 DEF MusicInv

LEMMA HaltTaken ==
  ASSUME GuiInv, TakeHalt, ScreenTypes'
  PROVE  MusicInv'
<1>1. TakeEvent("MIX_HALT") /\ mixpc = "get"
  BY DEF TakeHalt, TakeEvent
<1>2. /\ UNCHANGED <<expect, got, pflac, send_index, loop_count, cached, frame, num_read, eof,
                      music, dma, lastmix>>
      /\ \/ mpc' = "close" /\ mixpc' = "halt" /\ state' = state
         \/ mpc' = mpc /\ mixpc' = mixpc /\ state' = "IDLE"
  BY DEF TakeHalt, AfterHalt, CloseSend, flacVars, readerVars, decoderVars
<1>3. GuiTypes'
  BY <1>1, <1>2, GuiTakeTypes DEF GuiInv, GuiTypes
<1>4. mpc = "run"
  BY <1>1, AtRest DEF GuiInv, Decoding
<1>5. CallsAgree'
  BY <1>1, <1>2, <1>4 DEF CallsAgree
<1>6. Position' = Position /\ (Over' <=> Over) /\ (Session' => Session)
  BY <1>2, <1>4 DEF Position, Over, Session
<1>7. FrameInv'
  BY <1>2, <1>6 DEF GuiInv, FrameInv
<1>8. OnwardInv'
  BY <1>1, <1>2, <1>6
     DEF GuiInv, OnwardInv, FillInv, RefillInv, RestInv, PendingInv, Onward, Session
<1>9. QED
  BY <1>3, <1>5, <1>7, <1>8 DEF MusicInv

(* A song is opened only when none is open.                                *)
LEMMA SongOpened ==
  ASSUME GuiInv, PlayOpen, ScreenTypes'
  PROVE  MusicInv'
<1>1. /\ mixpc = "stopwait" /\ mpc = "run" /\ reader_status = "STOPPED"
      /\ mixpc' = "fill" /\ mpc' = "opened" /\ pflac' = ctrl.song /\ expect' = 0
      /\ UNCHANGED <<send_index, got>>
  BY DEF PlayOpen, OpenOk, ReadyToOpen
<1>2. /\ UNCHANGED <<mixevq, state, music, dma>> /\ loop_count' = Laps(ctrl.option)
      /\ cached' = 0 /\ frame' = 0 /\ num_read' = 0 /\ eof' = FALSE /\ lastmix' = -1
  BY DEF PlayOpen
<1>3. GuiTypes' /\ pflac' \in Songs
  <2>1. ctrl.song \in Songs /\ ctrl.option = 0
    BY <1>1 DEF GuiInv, GuiTypes
  <2>2. loop_count' = 0
    BY <1>2, <2>1 DEF Laps
  <2>3. cached' \in Nat /\ frame' \in Nat /\ num_read' \in Nat /\ lastmix' \in Int
    BY <1>2
  <2>4. music' \in [{0, 1} -> [song : Songs \cup {NoSong}, half : Int]]
    BY <1>2 DEF GuiInv, GuiTypes
  <2>5. mixevq' \in Seq(GuiEvents) /\ dma' \in {0, 1} /\ ScreenTypes' /\ eof' \in BOOLEAN
    BY <1>2 DEF GuiInv, GuiTypes
  <2>6. QED
    BY <1>1, <2>1, <2>2, <2>3, <2>4, <2>5 DEF GuiTypes
<1>4. CallsAgree'
  BY <1>1, <1>2 DEF CallsAgree, Decoding
<1>5. state # "PLAY_REQ"
  BY <1>1 DEF GuiInv, PipelineInv, ModesAgree, OnwardInv, PendingInv
<1>6. expect' % FRAME_BLOCKS = 0 /\ Position' = 0
  <2>1. 0 = 0 * FRAME_BLOCKS + 0 /\ 0 < FRAME_BLOCKS
    BY MixAssumption
  <2>2. 0 \div FRAME_BLOCKS = 0 /\ 0 % FRAME_BLOCKS = 0
    BY <2>1, QuotientIs
  <2>3. QED
    BY <1>1, <1>2, <2>2, MixAssumption DEF Position
<1>7. FrameInv'
  BY <1>1, <1>2, <1>6 DEF FrameInv
<1>8. OnwardInv'
  BY <1>1, <1>2, <1>3, <1>5, <1>6, SongAssumption
     DEF OnwardInv, FillInv, RefillInv, RestInv, PendingInv
<1>9. QED
  BY <1>3, <1>4, <1>7, <1>8 DEF MusicInv

LEMMA SongClosed ==
  ASSUME GuiInv, PlayOpenFail \/ HaltDone, ScreenTypes'
  PROVE  MusicInv'
<1>1. /\ mpc' = "run" /\ pflac' = NoSong /\ cached' = 0 /\ mixpc' = "get"
      /\ mpc # "close" => pflac = NoSong /\ UNCHANGED <<state, lastmix, music>>
      /\ mpc = "close" => state' = "IDLE"
  <2>1. CASE PlayOpenFail
    <3>1. reader_status = "STOPPED" /\ mpc = "run"
      BY <2>1 DEF PlayOpenFail, OpenFail, ReadyToOpen
    <3>2. pflac = NoSong
      BY <3>1 DEF GuiInv, PipelineInv, ModesAgree
    <3>3. QED
      BY <2>1, <3>1, <3>2 DEF PlayOpenFail, OpenFail, GuiInv, FrameInv
  <2>2. CASE HaltDone
    BY <2>2 DEF HaltDone, CloseFile, AfterHalt
  <2>3. QED
    BY <2>1, <2>2
<1>2. GuiTypes'
  <2>1. /\ UNCHANGED <<mixevq, music, dma, num_read, eof, lastmix, ctrl>>
        /\ loop_count' = 0 /\ frame' \in Nat
    BY DEF PlayOpenFail, HaltDone, GuiInv, GuiTypes, Laps
  <2>2. QED
    BY <1>1, <2>1 DEF GuiInv, GuiTypes
<1>3. CallsAgree'
  BY <1>1 DEF CallsAgree
<1>4. FrameInv'
  BY <1>1 DEF FrameInv, Session
<1>5. OnwardInv'
  BY <1>1 DEF GuiInv, OnwardInv, FillInv, RefillInv, RestInv, PendingInv
<1>6. QED
  BY <1>2, <1>3, <1>4, <1>5 DEF MusicInv

(* The reader is asked, or its answer is waited for.                       *)
LEMMA BlockAsked ==
  ASSUME GuiInv, DecodeRead \/ DecodeAcquire, ScreenTypes'
  PROVE  MusicInv'
<1>1. /\ Decoding /\ cached = 0 /\ mpc \in {"run", "opened", "wait"} /\ mpc' \in {"wait", "copy"}
      /\ UNCHANGED <<expect, cached, frame, got, pflac, send_index, music, num_read, eof>>
      /\ UnchangedMix
  BY DEF DecodeRead, DecodeAcquire, OnRead, OnReadAcquire, GuiInv, CallsAgree
<1>2. GuiTypes'
  BY <1>1 DEF GuiInv, GuiTypes, UnchangedMix
<1>3. CallsAgree'
  BY <1>1 DEF GuiInv, CallsAgree, Decoding, Wanted, UnchangedMix
<1>4. Position' = Position /\ (Over' <=> Over) /\ (Session' <=> Session)
  BY <1>1 DEF Position, Over, Session
<1>5. FrameInv'
  BY <1>1, <1>4 DEF GuiInv, FrameInv
<1>6. OnwardInv'
  BY <1>1, <1>4
     DEF GuiInv, OnwardInv, FillInv, RefillInv, RestInv, PendingInv, Onward, UnchangedMix
<1>7. QED
  BY <1>2, <1>3, <1>5, <1>6 DEF MusicInv

(* The call is over with less than was wanted.                             *)
LEMMA StreamEnded ==
  ASSUME GuiInv, DecodeEnd, ScreenTypes'
  PROVE  MusicInv'
<1>1. /\ Decoding /\ cached = 0 /\ mpc' = "run" /\ mpc \in {"run", "opened"}
      /\ UNCHANGED <<expect, cached, pflac, send_index, music, num_read>>
      /\ frame' = 0 /\ eof' = TRUE /\ UnchangedMix
  BY DEF DecodeEnd, OnReadEnd, GuiInv, PipelineInv, ModesAgree, flacVars, readerVars, decoderVars
<1>2. pflac # NoSong => send_index = -1
  BY DEF DecodeEnd, OnReadEnd, GuiInv, PipelineInv, TypeOK, Slots
<1>3. GuiTypes'
  BY <1>1 DEF GuiInv, GuiTypes, UnchangedMix
<1>4. CallsAgree'
  BY <1>1 DEF GuiInv, CallsAgree, Decoding, UnchangedMix
<1>5. Position' = Position /\ (Over' <=> Over) /\ (Session' <=> Session) /\ (pflac # NoSong => Over)
  BY <1>1, <1>2 DEF Position, Over, Session
<1>6. FrameInv'
  BY <1>1, <1>2 DEF FrameInv, Session
<1>7. OnwardInv'
  BY <1>1, <1>5
     DEF GuiInv, OnwardInv, FillInv, RefillInv, RestInv, PendingInv, Onward, UnchangedMix
<1>8. QED
  BY <1>3, <1>4, <1>6, <1>7 DEF MusicInv

(* The block that is copied is the next one of the stream, or the end.     *)
LEMMA CopyGives ==
  ASSUME PipelineInv, ContentsInOrder, OnReadCopy
  PROVE  /\ send_index \in Slots /\ Session /\ Session' /\ mpc' = "run" /\ pflac' = pflac
         /\ got' = Block(pflac, expect)
         /\ \/ expect < NBlocks /\ expect' = expect + 1 /\ send_index' \in Slots
            \/ expect = NBlocks /\ expect' = expect /\ send_index' = -1
<1>1. TypeOK /\ mpc = "copy" /\ send_index \in Slots /\ Session
  BY SongAssumption DEF OnReadCopy, PipelineInv, ModesAgree, Session
<1>2. 0 \in 0 .. Filled - 1
  BY <1>1, FactorAssumption DEF Filled, Held, TypeOK
<1>3. Ahead(send_index, 0) = send_index /\ expect + 0 = expect
  BY <1>1, FactorAssumption DEF Ahead, Slots, TypeOK
<1>4. expect \in 0 .. NBlocks /\ Sooner(expect) = expect
  BY <1>1, NBlocksAssumption DEF TypeOK, Sooner
<1>5. buffer[send_index] = Block(pflac, expect)
  BY <1>1, <1>2, <1>3, <1>4 DEF ContentsInOrder
<1>6. /\ mpc' = "run" /\ pflac' = pflac /\ got' = Block(pflac, expect)
      /\ send_index' = IF expect < NBlocks THEN Advance(send_index) ELSE -1
      /\ expect' = IF expect < NBlocks THEN expect + 1 ELSE expect
  BY <1>5 DEF OnReadCopy, IsData, Block
<1>7. Advance(send_index) \in Slots
  BY <1>1, AdvanceType
<1>8. QED
  BY <1>1, <1>4, <1>6, <1>7, NBlocksAssumption DEF Session

(* It is added to the frame, which it may complete; the end of the stream  *)
(* ends the call.                                                          *)
LEMMA BlockKeepsFrame ==
  ASSUME PipelineInv, ContentsInOrder, FrameInv, cached = 0, eof = FALSE, DecodeBlock
  PROVE  /\ FrameInv' /\ Position' = Position /\ (Over' <=> eof') /\ ~Over
         /\ cached' \in Nat /\ frame' \in Nat /\ eof' \in BOOLEAN
         /\ Session /\ Session' /\ mpc' = "run" /\ pflac' = pflac
<1>1. /\ send_index \in Slots /\ Session /\ Session' /\ mpc' = "run" /\ pflac' = pflac
      /\ got' = Block(pflac, expect)
      /\ \/ expect < NBlocks /\ expect' = expect + 1 /\ send_index' \in Slots
         \/ expect = NBlocks /\ expect' = expect /\ send_index' = -1
  BY CopyGives DEF DecodeBlock
<1>2. /\ expect \in Nat /\ -1 \notin Slots /\ pflac # NoSong
      /\ frame = expect % FRAME_BLOCKS /\ ~Over
  BY <1>1, NBlocksAssumption DEF PipelineInv, TypeOK, Slots, FrameInv, Session, Over
<1>3. CASE expect < NBlocks
  <2>1. /\ expect' = expect + 1 /\ send_index' \in Slots
        /\ frame' = IF frame + 1 = FRAME_BLOCKS THEN 0 ELSE frame + 1
        /\ cached' = IF frame + 1 = FRAME_BLOCKS THEN FRAME_HALVES ELSE 0
        /\ eof' = eof
    BY <1>1, <1>2, <1>3 DEF DecodeBlock, IsData, Block
  <2>2. frame' = expect' % FRAME_BLOCKS /\ frame' \in Nat
    BY <1>2, <2>1, NextBlock
  <2>3. Position' = Position
    <3> DEFINE d == expect \div FRAME_BLOCKS
    <3>1. /\ d \in Nat
          /\ (expect + 1) \div FRAME_BLOCKS = IF frame + 1 = FRAME_BLOCKS THEN d + 1 ELSE d
      BY <1>2, NextBlock
    <3>2. Position = d * FRAME_HALVES - 0
      BY DEF Position
    <3>3. Position' = (IF frame + 1 = FRAME_BLOCKS THEN d + 1 ELSE d) * FRAME_HALVES - cached'
      BY <2>1, <3>1 DEF Position
    <3> HIDE DEF d
    <3>4. QED
      BY <2>1, <3>1, <3>2, <3>3, MixAssumption
  <2>4. ~Over'
    BY <1>2, <2>1 DEF Over
  <2>5. cached' \in Nat
    BY <2>1, MixAssumption
  <2>6. FrameInv'
    <3>1. cached' > 0 => frame' = 0 /\ expect' - 1 = expect
      BY <1>2, <2>1
    <3>2. QED
      BY <1>1, <1>2, <2>1, <2>2, <3>1 DEF FrameInv
  <2>7. QED
    BY <1>1, <1>2, <2>1, <2>2, <2>3, <2>4, <2>5, <2>6
<1>4. CASE expect = NBlocks
  <2>1. expect' = expect /\ send_index' = -1 /\ frame' = 0 /\ eof' = TRUE /\ cached' = cached
    BY <1>1, <1>2, <1>4, NBlocksAssumption DEF DecodeBlock, IsData, Block
  <2>2. Position' = Position /\ Over'
    BY <2>1 DEF Position, Over
  <2>3. FrameInv'
    BY <2>1 DEF FrameInv
  <2>4. QED
    BY <1>1, <1>2, <2>1, <2>2, <2>3
<1>5. QED
  BY <1>1, <1>3, <1>4

LEMMA BlockDecoded ==
  ASSUME GuiInv, DecodeBlock, ScreenTypes'
  PROVE  MusicInv'
<1>1. /\ Decoding /\ cached = 0 /\ eof = FALSE /\ UNCHANGED <<num_read, music>> /\ UnchangedMix
  BY DEF DecodeBlock, OnReadCopy, GuiInv, GuiTypes, CallsAgree, Decoding
<1>2. /\ FrameInv' /\ Position' = Position /\ (Over' <=> eof') /\ ~Over
      /\ cached' \in Nat /\ frame' \in Nat /\ eof' \in BOOLEAN
      /\ Session /\ Session' /\ mpc' = "run" /\ pflac' = pflac
  BY <1>1, BlockKeepsFrame DEF GuiInv
<1>3. CallsAgree'
  BY <1>1, <1>2 DEF GuiInv, CallsAgree, Decoding, UnchangedMix, Session
<1>4. GuiTypes'
  BY <1>1, <1>2 DEF GuiInv, GuiTypes, UnchangedMix
<1>5. OnwardInv'
  BY <1>1, <1>2
     DEF GuiInv, OnwardInv, FillInv, RefillInv, RestInv, PendingInv, Onward, UnchangedMix
<1>6. QED
  BY <1>2, <1>3, <1>4, <1>5 DEF MusicInv

(* The half that is decoded is the one Position tells.                     *)
LEMMA NextIsPosition ==
  ASSUME PipelineInv, FrameInv, cached \in Nat, cached > 0
  PROVE  /\ NextHalf = Position /\ Position \in Int
         /\ got.song = pflac /\ pflac \in Songs
<1>1. /\ expect \in Nat /\ expect > 0 /\ expect % FRAME_BLOCKS = 0
      /\ got = Block(pflac, expect - 1) /\ pflac # NoSong
  BY NBlocksAssumption DEF FrameInv, PipelineInv, TypeOK
<1>2. PICK n \in Nat : expect = n + 1
  BY <1>1
<1>3. /\ n \div FRAME_BLOCKS \in Nat
      /\ expect \div FRAME_BLOCKS = (n \div FRAME_BLOCKS) + 1
  BY <1>1, <1>2, NextBlock
<1>4. got.blk = n /\ got.song = pflac
  BY <1>1, <1>2 DEF Block
<1>5. NextHalf = Position
  <2> DEFINE d == n \div FRAME_BLOCKS
  <2>1. NextHalf = d * FRAME_HALVES + (FRAME_HALVES - cached)
    BY <1>4 DEF NextHalf
  <2>2. Position = (d + 1) * FRAME_HALVES - cached
    BY <1>3 DEF Position
  <2>3. d \in Nat
    BY <1>3
  <2> HIDE DEF d
  <2>4. QED
    BY <1>1, <2>1, <2>2, <2>3, MixAssumption
<1>6. QED
  BY <1>1, <1>4, <1>5, PositionType DEF PipelineInv, TypeOK

LEMMA HalfKeepsFrame ==
  ASSUME PipelineInv, FrameInv, cached \in Nat, DecodeHalf
  PROVE  /\ FrameInv' /\ Position' = Position + 1 /\ Position \in Int /\ ~Over
         /\ (Session' <=> Session) /\ cached' \in Nat
<1>1. /\ cached > 0 /\ cached' = cached - 1 /\ UNCHANGED <<flacVars, frame>>
  BY DEF DecodeHalf
<1>2. UNCHANGED <<mpc, pflac, expect, got, send_index>> /\ pflac # NoSong
  BY <1>1 DEF flacVars, readerVars, decoderVars, FrameInv
<1>3. /\ (expect \div FRAME_BLOCKS) * FRAME_HALVES \in Int /\ cached \in Int
      /\ Position \in Int
  BY NextBlock, PositionType, NBlocksAssumption, MixAssumption DEF PipelineInv, TypeOK
<1>4. Position' = Position + 1 /\ (Session' <=> Session)
  BY <1>1, <1>2, <1>3 DEF Position, Session
<1>5. FrameInv'
  BY <1>1, <1>2, <1>4 DEF FrameInv
<1>6. QED
  BY <1>1, <1>3, <1>4, <1>5 DEF Over

LEMMA HalfDecoded ==
  ASSUME GuiInv, DecodeHalf, ScreenTypes'
  PROVE  MusicInv'
<1>1. /\ Decoding /\ cached > 0 /\ UnchangedMix /\ UNCHANGED <<flacVars, frame, eof>>
      /\ music' = [music EXCEPT ![Place] = Half(got.song, NextHalf)]
      /\ cached' = cached - 1 /\ num_read' = num_read + 1
  BY DEF DecodeHalf
<1>2. /\ NextHalf = Position /\ Position \in Int
      /\ got.song = pflac /\ pflac \in Songs /\ pflac # NoSong
  BY <1>1, NextIsPosition, SongAssumption DEF GuiInv, GuiTypes, FrameInv
<1>3. /\ ~Over /\ ~eof /\ mixpc \in {"fill", "refill"} /\ num_read < Wanted /\ num_read \in Nat
      /\ UNCHANGED <<mpc, pflac, expect, got, send_index, mixpc, ctrl, state, lastmix, loop_count>>
  BY <1>1 DEF Over, Decoding, UnchangedMix, flacVars, readerVars, decoderVars, GuiInv, GuiTypes
<1>4. mpc \notin {"opened", "wait", "copy", "close"}
  BY <1>1, <1>3 DEF GuiInv, CallsAgree
<1>5. /\ Place \in {0, 1}
      /\ mixpc = "fill" => Place = num_read
      /\ mixpc = "refill" => Place = ctrl.option
  BY <1>3 DEF Place, Wanted, GuiInv, GuiTypes
<1>6. /\ music' \in [{0, 1} -> [song : Songs \cup {NoSong}, half : Int]]
      /\ music'[Place].song = pflac /\ music'[Place].half = Position
      /\ \A h \in {0, 1} : h # Place => music'[h] = music[h]
  <2>1. /\ Half(pflac, Position) \in [song : Songs \cup {NoSong}, half : Int]
        /\ Half(pflac, Position).song = pflac /\ Half(pflac, Position).half = Position
    BY <1>2 DEF Half
  <2>2. QED
    BY <1>1, <1>2, <1>5, <2>1 DEF GuiInv, GuiTypes
<1>7. GuiTypes'
  <2>1. num_read' \in Nat /\ cached' \in Nat
    BY <1>1 DEF GuiInv, GuiTypes
  <2>2. QED
    BY <1>1, <1>6, <2>1 DEF GuiInv, GuiTypes, UnchangedMix
<1>8. CallsAgree'
  BY <1>3, <1>4 DEF GuiInv, CallsAgree
<1>9. Position' = Position + 1 /\ (Session' <=> Session) /\ FrameInv'
  BY HalfKeepsFrame DEF GuiInv, GuiTypes
<1>10. OnwardInv'
  <2>1. CASE mixpc = "fill"
    <3>1. num_read = Position /\ num_read < 2 /\ lastmix = -1 /\ state # "PLAY_REQ"
          /\ (num_read > 0 => music[0].half = 0)
      BY <1>3, <2>1 DEF GuiInv, OnwardInv, FillInv, Wanted
    <3>2. music'[0].half = 0
      BY <1>3, <1>5, <1>6, <2>1, <3>1
    <3>3. QED
      BY <1>1, <1>2, <1>3, <1>9, <2>1, <3>1, <3>2
         DEF OnwardInv, FillInv, RefillInv, RestInv, PendingInv
  <2>2. CASE mixpc = "refill"
    <3>1. num_read = 0 /\ Onward(Position) /\ state = "PLAY"
      BY <1>2, <1>3, <2>2 DEF GuiInv, OnwardInv, RefillInv, Wanted
    <3>2. music'[ctrl.option].song = pflac /\ music'[ctrl.option].half = Position
      BY <1>5, <1>6, <2>2
    <3>3. QED
      BY <1>1, <1>2, <1>3, <1>9, <2>2, <3>1, <3>2
         DEF OnwardInv, FillInv, RefillInv, RestInv, PendingInv, Onward
  <2>3. QED
    BY <1>3, <2>1, <2>2
<1>11. QED
  BY <1>7, <1>8, <1>9, <1>10 DEF MusicInv

LEMMA FillEnded ==
  ASSUME GuiInv, FillDone, ScreenTypes'
  PROVE  MusicInv'
<1>1. /\ mixpc = "fill" /\ ~Decoding /\ mixpc' = "get"
      /\ UNCHANGED <<flacVars, mixevq, ctrl, loop_count, cached, frame, num_read, eof, music, dma,
                     lastmix>>
      /\ state' = IF num_read > 0 THEN "PLAY_REQ" ELSE state
  BY DEF FillDone
<1>2. mpc = "run"
  BY <1>1, AtRest DEF GuiInv
<1>3. GuiTypes'
  BY <1>1 DEF GuiInv, GuiTypes
<1>4. CallsAgree'
  BY <1>1, <1>2 DEF CallsAgree, flacVars, decoderVars
<1>5. /\ FrameInv' /\ pflac' = pflac
      /\ Position' = Position /\ (Over' <=> Over) /\ (Session' <=> Session)
  BY <1>1, StreamStays DEF GuiInv, flacVars, readerVars, decoderVars
<1>6. Over \/ Position = 2
  BY <1>1 DEF GuiInv, GuiTypes, OnwardInv, FillInv, Decoding, Wanted
<1>7. OnwardInv'
  BY <1>1, <1>5, <1>6 DEF GuiInv, OnwardInv, FillInv, RefillInv, RestInv, PendingInv, Onward
<1>8. QED
  BY <1>3, <1>4, <1>5, <1>7 DEF MusicInv

(* What RefillMix mixes is the half decoded before.                        *)
LEMMA MixedOnward ==
  ASSUME GuiInv, RefillMix
  PROVE  /\ mixpc = "refill" /\ num_read = 1 /\ state = "PLAY" /\ lastmix' \in Int
         /\ Onward(lastmix') /\ Position = lastmix' + 1
<1>1. /\ mixpc = "refill" /\ num_read > 0 /\ MixSound(music[ctrl.option])
  BY DEF RefillMix
<1>2. /\ num_read = 1 /\ state = "PLAY" /\ pflac # NoSong
      /\ music[ctrl.option].song = pflac /\ Onward(music[ctrl.option].half)
      /\ Position = music[ctrl.option].half + 1 /\ music[ctrl.option].half \in Int
  BY <1>1 DEF GuiInv, GuiTypes, OnwardInv, RefillInv
<1>3. lastmix' = music[ctrl.option].half
  BY <1>1, <1>2 DEF MixSound, Silent, Half
<1>4. QED
  BY <1>1, <1>2, <1>3

LEMMA RefillEnded ==
  ASSUME GuiInv, RefillMix \/ RefillEnd, ScreenTypes'
  PROVE  MusicInv'
<1>1. /\ mixpc = "refill" /\ mixpc' = "get"
      /\ UNCHANGED <<flacVars, mixevq, ctrl, loop_count, cached, frame, num_read, eof, music, dma>>
      /\ RefillMix => state' = state
      /\ ~RefillMix => eof /\ state' = "IDLE" /\ MixSound(music[ctrl.option])
  BY DEF RefillMix, RefillEnd, GuiInv, GuiTypes
<1>2. ~Decoding
  BY DEF RefillMix, RefillEnd, Decoding, Wanted, GuiInv, OnwardInv, RefillInv, GuiTypes
<1>3. mpc = "run"
  BY <1>1, <1>2, AtRest DEF GuiInv
<1>4. lastmix' \in Int
  <2>1. CASE RefillMix
    BY <2>1, MixedOnward
  <2>2. CASE ~RefillMix
    BY <1>1, <2>2 DEF MixSound, GuiInv, GuiTypes
  <2>3. QED
    BY <2>1, <2>2
<1>5. GuiTypes'
  BY <1>1, <1>4 DEF GuiInv, GuiTypes
<1>6. CallsAgree'
  BY <1>1, <1>3 DEF CallsAgree, flacVars, decoderVars
<1>7. /\ FrameInv' /\ pflac' = pflac
      /\ Position' = Position /\ (Over' <=> Over) /\ (Session' <=> Session)
  BY <1>1, StreamStays DEF GuiInv, flacVars, readerVars, decoderVars
<1>8. pflac # NoSong => Over \/ Position = lastmix' + 1
  <2>1. CASE RefillMix
    BY <2>1, MixedOnward
  <2>2. CASE ~RefillMix
    BY <1>1, <2>2 DEF GuiInv, OnwardInv, RefillInv
  <2>3. QED
    BY <2>1, <2>2
<1>9. state' # "PLAY_REQ"
  <2>1. CASE RefillMix
    BY <1>1, <2>1, MixedOnward
  <2>2. QED
    BY <1>1, <2>1
<1>10. OnwardInv'
  BY <1>1, <1>7, <1>8, <1>9 DEF OnwardInv, FillInv, RefillInv, RestInv, PendingInv, Onward
<1>11. QED
  BY <1>5, <1>6, <1>7, <1>10 DEF MusicInv

LEMMA MixerKeepsMusic ==
  ASSUME GuiInv, Mixer, ScreenTypes'
  PROVE  GuiInv'
<1>1. PipelineInv' /\ ContentsInOrder'
  BY GuiCalls, GuiCallsKeepStream DEF GuiInv
<1>2. MusicInv'
  BY PlayTaken, RequestTaken, DecodingBegins, HaltTaken, SongOpened, SongClosed, BlockAsked,
     StreamEnded, BlockDecoded, HalfDecoded, FillEnded, RefillEnded DEF Mixer
<1>3. QED
  BY <1>1, <1>2 DEF GuiInv, MusicInv

-----------------------------------------------------------------------------
(* The steps of the others.                                                *)
LEMMA ReaderKeepsFrame ==
  ASSUME PipelineInv, FrameInv, Reader, UNCHANGED <<cached, frame>>
  PROVE  /\ UNCHANGED <<mpc, pflac, expect, got>>
         /\ FrameInv' /\ Position' = Position
         /\ (Session' <=> Session) /\ (Session => (Over' <=> Over))
<1>1. UNCHANGED <<mpc, pflac, expect, got>>
  BY DEF Reader, ReaderStart, ReaderTake, ReaderFill, ReaderError, ReaderMore, ReaderStop,
         decoderVars
<1>2. Session => send_index' = send_index
  <2>1. CASE ReaderStart
    BY <2>1 DEF ReaderStart, PipelineInv, ModesAgree
  <2>2. CASE ReaderStop
    BY <2>2, TailShape DEF ReaderStop, PipelineInv, QueueInOrder, TypeOK, Session
  <2>3. QED
    BY <2>1, <2>2 DEF Reader, ReaderTake, ReaderFill, ReaderError, ReaderMore
<1>3. Position' = Position /\ (Session' <=> Session) /\ (Session => (Over' <=> Over))
  BY <1>1, <1>2 DEF Position, Session, Over
<1>4. FrameInv'
  BY <1>1, <1>2, <1>3 DEF FrameInv
<1>5. QED
  BY <1>1, <1>3, <1>4

LEMMA ReaderKeepsMusic ==
  ASSUME GuiInv, ReaderStep, ScreenTypes'
  PROVE  GuiInv'
<1>1. PipelineInv' /\ ContentsInOrder'
  BY ReaderKeepsPipeline, ReaderKeepsContents DEF GuiInv, ReaderStep
<1>2. /\ UNCHANGED <<mpc, pflac, expect, got>>
      /\ UNCHANGED <<mixevq, dma, state, mixpc, ctrl, loop_count, cached, frame, num_read, eof,
                     music, lastmix>>
      /\ FrameInv' /\ Position' = Position
      /\ (Session' <=> Session) /\ (Session => (Over' <=> Over))
  BY ReaderKeepsFrame DEF ReaderStep, mixVars, GuiInv
<1>3. GuiTypes' /\ CallsAgree'
  BY <1>2 DEF GuiInv, GuiTypes, CallsAgree, Decoding, Wanted
<1>4. mixpc \in {"fill", "refill", "get", "stopwait"} /\ pflac # NoSong => Session
  BY DEF GuiInv, CallsAgree, Session
<1>5. OnwardInv'
  BY <1>2, <1>4 DEF GuiInv, OnwardInv, FillInv, RefillInv, RestInv, PendingInv, Onward
<1>6. QED
  BY <1>1, <1>2, <1>3, <1>5 DEF GuiInv

(* Nothing of the player changes but its queue of events.                  *)
LEMMA QueueKeepsMusic ==
  ASSUME GuiInv, mixevq' \in Seq(GuiEvents), dma' \in {0, 1}, ScreenTypes',
         UNCHANGED <<flacVars, state, mixpc, ctrl, loop_count, cached, frame, num_read, eof,
                     music, lastmix>>
  PROVE  GuiInv'
<1>1. PipelineInv' /\ ContentsInOrder'
  BY GuiCallsKeepStream DEF GuiInv
<1>2. GuiTypes' /\ CallsAgree'
  BY DEF GuiInv, GuiTypes, CallsAgree, Decoding, Wanted, flacVars, decoderVars
<1>3. /\ FrameInv' /\ pflac' = pflac
      /\ Position' = Position /\ (Over' <=> Over) /\ (Session' <=> Session)
  BY StreamStays DEF GuiInv, flacVars, readerVars, decoderVars
<1>4. OnwardInv'
  BY <1>3 DEF GuiInv, OnwardInv, FillInv, RefillInv, RestInv, PendingInv, Onward
<1>5. QED
  BY <1>1, <1>2, <1>3, <1>4 DEF GuiInv

LEMMA PostKeepsMusic ==
  ASSUME GuiInv, NEW ev \in GuiEvents, Post(ev), ScreenTypes'
  PROVE  GuiInv'
<1>1. PutEv(mixevq, ev) \in Seq(GuiEvents)
  BY DEF PutEv, GuiInv, GuiTypes
<1>2. QED
  BY <1>1, QueueKeepsMusic DEF Post, GuiInv, GuiTypes

LEMMA DmaKeepsMusic ==
  ASSUME GuiInv, DmaInterrupt, UNCHANGED guiVars
  PROVE  GuiInv'
<1>1. DataReq(dma) \in GuiEvents /\ 1 - dma \in {0, 1}
  BY DEF GuiInv, GuiTypes, GuiEvents
<1>2. PutEv(mixevq, DataReq(dma)) \in Seq(GuiEvents)
  BY <1>1 DEF PutEv, GuiInv, GuiTypes
<1>3. QED
  BY <1>1, <1>2, QueueKeepsMusic DEF DmaInterrupt, guiVars, GuiInv, GuiTypes, ScreenTypes

LEMMA ScreenKeepsMusic ==
  ASSUME GuiInv, User \/ Gui
  PROVE  GuiInv'
<1>1. /\ Command("MIX_HALT") \in GuiEvents /\ Command("MIX_PAUSE") \in GuiEvents
      /\ Command("MIX_RESUME") \in GuiEvents /\ \A s \in Songs : Play(s, 0) \in GuiEvents
  BY DEF GuiEvents
<1>2. ScreenTypes
  BY DEF GuiInv, GuiTypes
<1>3. ASSUME NEW id \in Songs, MusicPlay(id) \/ AlbumNext(id)
      PROVE  GuiInv'
  <2>1. ScreenTypes' /\ \E ev \in GuiEvents : Post(ev)
    BY <1>1, <1>2, <1>3 DEF MusicPlay, AlbumNext, TrackLoad, ScreenTypes
  <2>2. QED
    BY <2>1, PostKeepsMusic
<1>4. CASE PutPlay \/ PauseClick
  BY <1>1, <1>2, <1>4, PostKeepsMusic DEF PutPlay, PauseClick, ScreenTypes
<1>5. CASE ResumeClick
  <2>1. ScreenTypes'
    BY <1>2, <1>5 DEF ResumeClick, ScreenTypes
  <2>2. CASE ResumeEvent(mstate) = Nothing
    <3>1. UNCHANGED <<flacVars, mixVars>>
      BY <1>5, <2>2 DEF ResumeClick
    <3>2. QED
      BY <2>1, <3>1, QueueKeepsMusic DEF mixVars, GuiInv, GuiTypes
  <2>3. CASE ResumeEvent(mstate) # Nothing
    <3>1. Post(ResumeEvent(mstate))
      BY <1>5, <2>3 DEF ResumeClick
    <3>2. CASE ResumeEvent(mstate) \in GuiEvents
      BY <2>1, <3>1, <3>2, PostKeepsMusic
    <3>3. ResumeEvent(mstate) \in GuiEvents
      BY <1>1, <1>2, <2>3 DEF ResumeEvent, ScreenTypes
    <3>4. QED
      BY <3>2, <3>3
  <2>4. QED
    BY <2>2, <2>3
<1>6. CASE FinishEvent
  BY <1>2, <1>6, QueueKeepsMusic DEF FinishEvent, mixVars, GuiInv, GuiTypes, ScreenTypes
<1>7. QED
  BY <1>3, <1>4, <1>5, <1>6 DEF User, Gui, ListClick, NextClick, InterPause

LEMMA GuiStepKeeps == GuiInv /\ [GuiNext]_vars => GuiInv'
<1> SUFFICES ASSUME GuiInv, [GuiNext]_vars PROVE GuiInv'
  OBVIOUS
<1>1. CASE GuiNext
  BY <1>1, MixerKeepsMusic, ReaderKeepsMusic, DmaKeepsMusic, ScreenKeepsMusic
     DEF GuiNext, MixerStep, guiVars, GuiInv, GuiTypes, ScreenTypes
<1>2. CASE UNCHANGED vars
  BY <1>2, QueueKeepsMusic DEF vars, mixVars, guiVars, GuiInv, GuiTypes, ScreenTypes
<1>3. QED
  BY <1>1, <1>2

LEMMA GuiStarts == GuiInit => GuiInv
<1> SUFFICES ASSUME GuiInit PROVE GuiInv
  OBVIOUS
<1>1. PipelineInv /\ ContentsInOrder
  BY PipelineInit DEF GuiInit, MixInit, Init, ContentsInOrder, Session
<1>2. GuiTypes
  <2>1. mixevq \in Seq(GuiEvents) /\ Silent \in [song : Songs \cup {NoSong}, half : Int]
    BY DEF GuiInit, MixInit, Silent, Half
  <2>2. music \in [{0, 1} -> [song : Songs \cup {NoSong}, half : Int]]
    BY <2>1 DEF GuiInit, MixInit
  <2>3. QED
    BY <2>1, <2>2 DEF GuiInit, MixInit, GuiTypes, ScreenTypes
<1>3. CallsAgree /\ FrameInv
  BY DEF GuiInit, MixInit, Init, CallsAgree, FrameInv, Session
<1>4. OnwardInv
  BY DEF GuiInit, MixInit, Init, OnwardInv, FillInv, RefillInv, RestInv, PendingInv
<1>5. QED
  BY <1>1, <1>2, <1>3, <1>4 DEF GuiInv

(* What is decoded while a song plays is mixed without a gap, whatever the *)
(* user clicks and whatever events and commands the two queues drop: from  *)
(* the third half on each follows the one before.                          *)
THEOREM SongMixedWithoutGap == GuiSpec => MixesOnward
<1>1. GuiInv /\ [GuiNext]_vars
        => [RefillMix => lastmix' = lastmix + 1 \/ (lastmix < 2 /\ lastmix' = 2)]_mixVars
  BY MixedOnward DEF Onward
<1>2. QED
  BY <1>1, GuiStarts, GuiStepKeeps, PTL DEF GuiSpec, MixesOnward

-----------------------------------------------------------------------------
(***************************************************************************)
(* What the player does about the events it is sent.  A full mixevq drops  *)
(* an event without a word, and then nothing of what follows is true: the  *)
(* theorems below are about behaviours in which events are put only in a   *)
(* queue with room.  The sections on the short game and on the short visit *)
(* prove that theirs are such.                                             *)
(***************************************************************************)

(* The first n events of q are requests of the DMA.                        *)
OnlyRequests(q, n) == \A k \in 1 .. n : IsRequest(q[k])

(* The last event of a client among the first n of q is one of S.          *)
EndsIn(q, n, S) ==
  \E k \in 1 .. n : q[k] \in S /\ \A j \in k + 1 .. n : IsRequest(q[j])

LEMMA TailIs ==
  ASSUME NEW E, NEW q \in Seq(E), q # <<>>
  PROVE  /\ Len(q) \in Nat \ {0} /\ Tail(q) \in Seq(E) /\ Len(Tail(q)) = Len(q) - 1
         /\ Head(q) = q[1] /\ \A i \in 1 .. Len(q) - 1 : Tail(q)[i] = q[i + 1]
OBVIOUS

LEMMA AppendIs ==
  ASSUME NEW E, NEW q \in Seq(E), NEW e \in E
  PROVE  /\ Len(q) \in Nat /\ Append(q, e) \in Seq(E) /\ Len(Append(q, e)) = Len(q) + 1
         /\ Append(q, e)[Len(q) + 1] = e
         /\ \A i \in 1 .. Len(q) : Append(q, e)[i] = q[i]
OBVIOUS

LEMMA TailEnds ==
  ASSUME NEW E, NEW q \in Seq(E), q # <<>>, NEW S, NEW n \in 0 .. Len(q) - 1
  PROVE  /\ OnlyRequests(q, n + 1) => IsRequest(Head(q)) /\ OnlyRequests(Tail(q), n)
         /\ EndsIn(q, n + 1, S) =>
              EndsIn(Tail(q), n, S) \/ (Head(q) \in S /\ OnlyRequests(Tail(q), n))
<1>1. /\ Len(q) \in Nat \ {0} /\ Head(q) = q[1]
      /\ \A i \in 1 .. Len(q) - 1 : Tail(q)[i] = q[i + 1]
  BY TailIs
<1>2. ASSUME OnlyRequests(q, n + 1)
      PROVE  IsRequest(Head(q)) /\ OnlyRequests(Tail(q), n)
  <2>1. IsRequest(q[1])
    BY <1>1, <1>2 DEF OnlyRequests
  <2>2. ASSUME NEW k \in 1 .. n PROVE IsRequest(Tail(q)[k])
    BY <1>1, <1>2 DEF OnlyRequests
  <2>3. QED
    BY <1>1, <2>1, <2>2 DEF OnlyRequests
<1>3. ASSUME EndsIn(q, n + 1, S)
      PROVE  EndsIn(Tail(q), n, S) \/ (Head(q) \in S /\ OnlyRequests(Tail(q), n))
  <2>1. PICK k \in 1 .. n + 1 : q[k] \in S /\ \A j \in k + 1 .. n + 1 : IsRequest(q[j])
    BY <1>3 DEF EndsIn
  <2>2. CASE k = 1
    <3>1. ASSUME NEW j \in 1 .. n PROVE IsRequest(Tail(q)[j])
      BY <1>1, <2>1, <2>2
    <3>2. QED
      BY <1>1, <2>1, <2>2, <3>1 DEF OnlyRequests
  <2>3. CASE k # 1
    <3>1. k - 1 \in 1 .. n /\ Tail(q)[k - 1] = q[k]
      BY <1>1, <2>1, <2>3
    <3>2. ASSUME NEW j \in k .. n PROVE IsRequest(Tail(q)[j])
      BY <1>1, <2>1, <3>1
    <3>3. QED
      BY <2>1, <3>1, <3>2 DEF EndsIn
  <2>4. QED
    BY <2>2, <2>3
<1>4. QED
  BY <1>2, <1>3

LEMMA AppendEnds ==
  ASSUME NEW E, NEW q \in Seq(E), NEW e \in E, NEW S
  PROVE  /\ \A n \in 0 .. Len(q) :
              /\ OnlyRequests(Append(q, e), n) <=> OnlyRequests(q, n)
              /\ EndsIn(Append(q, e), n, S) <=> EndsIn(q, n, S)
         /\ IsRequest(e) /\ OnlyRequests(q, Len(q)) => OnlyRequests(Append(q, e), Len(q) + 1)
         /\ IsRequest(e) /\ EndsIn(q, Len(q), S) => EndsIn(Append(q, e), Len(q) + 1, S)
         /\ e \in S => EndsIn(Append(q, e), Len(q) + 1, S)
<1> DEFINE r == Append(q, e)
           l == Len(q)
<1>1. /\ l \in Nat /\ r[l + 1] = e
      /\ \A i \in 1 .. l : r[i] = q[i]
  BY AppendIs
<1> HIDE DEF r, l
<1>2. ASSUME NEW n \in 0 .. l
      PROVE  /\ OnlyRequests(r, n) <=> OnlyRequests(q, n)
             /\ EndsIn(r, n, S) <=> EndsIn(q, n, S)
  <2>1. \A k \in 1 .. n : r[k] = q[k]
    BY <1>1
  <2>2. OnlyRequests(r, n) <=> OnlyRequests(q, n)
    BY <2>1 DEF OnlyRequests
  <2>3. \A k \in 1 .. n : k + 1 .. n \subseteq 1 .. n
    OBVIOUS
  <2>4. EndsIn(r, n, S) <=> EndsIn(q, n, S)
    BY <2>1, <2>3 DEF EndsIn
  <2>5. QED
    BY <2>2, <2>4
<1>3. ASSUME IsRequest(e), OnlyRequests(q, l) PROVE OnlyRequests(r, l + 1)
  BY <1>1, <1>3 DEF OnlyRequests
<1>4. ASSUME IsRequest(e), EndsIn(q, l, S) PROVE EndsIn(r, l + 1, S)
  <2>1. PICK k \in 1 .. l : q[k] \in S /\ \A j \in k + 1 .. l : IsRequest(q[j])
    BY <1>4 DEF EndsIn
  <2>2. k \in 1 .. l + 1 /\ r[k] \in S
    BY <1>1, <2>1
  <2>3. ASSUME NEW j \in k + 1 .. l + 1 PROVE IsRequest(r[j])
    <3>1. CASE j = l + 1
      BY <1>1, <1>4, <3>1
    <3>2. CASE j # l + 1
      <4>1. j \in k + 1 .. l /\ j \in 1 .. l
        BY <1>1, <2>1, <3>2
      <4>2. QED
        BY <1>1, <2>1, <4>1
    <3>3. QED
      BY <3>1, <3>2
  <2>4. QED
    BY <2>2, <2>3 DEF EndsIn
<1>5. ASSUME e \in S PROVE EndsIn(r, l + 1, S)
  BY <1>1, <1>5 DEF EndsIn
<1>6. QED
  BY <1>2, <1>3, <1>4, <1>5 DEF r, l

-----------------------------------------------------------------------------
(* How many events of a kind a queue holds.                                *)
RequestsIn(q) == {i \in DOMAIN q : IsRequest(q[i])}
Places(q, S) == {i \in DOMAIN q : q[i] \in S}

LEMMA PlacesFinite ==
  ASSUME NEW E, NEW S, NEW q \in Seq(E)
  PROVE  IsFiniteSet(Places(q, S)) /\ Cardinality(Places(q, S)) \in Nat
<1>1. IsFiniteSet(1 .. Len(q)) /\ Places(q, S) \subseteq 1 .. Len(q)
  BY FS_Interval DEF Places
<1>2. QED
  BY <1>1, FS_Subset, FS_CardinalityType

LEMMA PlaceTaken ==
  ASSUME NEW E, NEW S, NEW q \in Seq(E), q # <<>>
  PROVE  Cardinality(Places(q, S)) =
           Cardinality(Places(Tail(q), S)) + IF Head(q) \in S THEN 1 ELSE 0
<1> DEFINE R == Places(q, S) \ {1}
           T == Places(Tail(q), S)
           f == [i \in R |-> i - 1]
<1>1. /\ Len(q) \in Nat \ {0} /\ Tail(q) \in Seq(E) /\ Len(Tail(q)) = Len(q) - 1
      /\ Head(q) = q[1] /\ \A i \in 1 .. Len(q) - 1 : Tail(q)[i] = q[i + 1]
  BY TailIs
<1>2. /\ \A i : i \in R <=> i \in 2 .. Len(q) /\ q[i] \in S
      /\ \A i : i \in T <=> i \in 1 .. Len(q) - 1 /\ q[i + 1] \in S
      /\ 1 \in Places(q, S) <=> Head(q) \in S
  BY <1>1 DEF Places
<1>3. IsFiniteSet(R) /\ IsFiniteSet(Places(q, S)) /\ Cardinality(Places(q, S)) \in Nat
      /\ Cardinality(R) = IF 1 \in Places(q, S) THEN Cardinality(Places(q, S)) - 1
                                                 ELSE Cardinality(Places(q, S))
  BY PlacesFinite, FS_RemoveElement
<1> HIDE DEF R, T
<1>4. f \in [R -> T]
  BY <1>1, <1>2
<1>5. \A i, j \in R : f[i] = f[j] => i = j
  BY <1>1, <1>2
<1>6. \A t \in T : \E i \in R : f[i] = t
  <2> SUFFICES ASSUME NEW t \in T PROVE \E i \in R : f[i] = t
    OBVIOUS
  <2>1. t + 1 \in R /\ (t + 1) - 1 = t
    BY <1>1, <1>2
  <2>2. QED
    BY <2>1
<1> HIDE DEF f
<1>7. ExistsBijection(R, T)
  <2>1. f \in Bijection(R, T)
    BY <1>4, <1>5, <1>6 DEF Bijection, Injection, Surjection, IsInjective
  <2>2. QED
    BY <2>1 DEF ExistsBijection
<1>8. Cardinality(T) = Cardinality(R)
  BY <1>3, <1>7, FS_Bijection
<1>9. QED
  BY <1>2, <1>3, <1>8 DEF T

LEMMA PlacePut ==
  ASSUME NEW E, NEW S, NEW q \in Seq(E), NEW e \in E
  PROVE  Cardinality(Places(Append(q, e), S)) =
           Cardinality(Places(q, S)) + IF e \in S THEN 1 ELSE 0
<1> DEFINE l == Len(q)
           r == Append(q, e)
<1>1. /\ l \in Nat /\ r \in Seq(E) /\ Len(r) = l + 1 /\ r[l + 1] = e
      /\ \A i \in 1 .. l : r[i] = q[i]
  BY AppendIs
<1>2. IsFiniteSet(Places(q, S)) /\ Cardinality(Places(q, S)) \in Nat
      /\ l + 1 \notin Places(q, S)
  <2>1. l + 1 \notin DOMAIN q
    OBVIOUS
  <2>2. QED
    BY <2>1, PlacesFinite DEF Places
<1>3. DOMAIN q = 1 .. l /\ DOMAIN r = 1 .. l + 1
  BY <1>1
<1> HIDE DEF r, l
<1>4. Places(r, S) = IF e \in S THEN Places(q, S) \cup {l + 1} ELSE Places(q, S)
  BY <1>1, <1>3 DEF Places
<1>5. Cardinality(Places(q, S) \cup {l + 1}) = Cardinality(Places(q, S)) + 1
  BY <1>2, FS_AddElement
<1>6. QED
  BY <1>2, <1>4, <1>5 DEF r

(* The requests of the DMA among the events of a queue.                    *)
LEMMA RequestPlaces ==
  ASSUME NEW E, NEW q \in Seq(E)
  PROVE  RequestsIn(q) = Places(q, {e \in E : IsRequest(e)})
BY DEF RequestsIn, Places

LEMMA RequestsFinite ==
  ASSUME NEW E, NEW q \in Seq(E)
  PROVE  IsFiniteSet(RequestsIn(q)) /\ Cardinality(RequestsIn(q)) \in Nat
<1> DEFINE S == {e \in E : IsRequest(e)}
<1>1. IsFiniteSet(Places(q, S)) /\ Cardinality(Places(q, S)) \in Nat
  BY PlacesFinite
<1>2. QED
  BY <1>1, RequestPlaces

LEMMA RequestTakenCounts ==
  ASSUME NEW E, NEW q \in Seq(E), q # <<>>
  PROVE  Cardinality(RequestsIn(q)) =
           Cardinality(RequestsIn(Tail(q))) + IF IsRequest(Head(q)) THEN 1 ELSE 0
<1> DEFINE S == {e \in E : IsRequest(e)}
<1>1. Tail(q) \in Seq(E) /\ Head(q) \in E
  OBVIOUS
<1>2. RequestsIn(q) = Places(q, S) /\ RequestsIn(Tail(q)) = Places(Tail(q), S)
  BY <1>1, RequestPlaces
<1>3. Head(q) \in S <=> IsRequest(Head(q))
  BY <1>1
<1> HIDE DEF S
<1>4. QED
  BY <1>2, <1>3, PlaceTaken

LEMMA RequestPutCounts ==
  ASSUME NEW E, NEW q \in Seq(E), NEW e \in E
  PROVE  Cardinality(RequestsIn(Append(q, e))) =
           Cardinality(RequestsIn(q)) + IF IsRequest(e) THEN 1 ELSE 0
<1> DEFINE S == {x \in E : IsRequest(x)}
<1>1. Append(q, e) \in Seq(E)
  OBVIOUS
<1>2. RequestsIn(q) = Places(q, S) /\ RequestsIn(Append(q, e)) = Places(Append(q, e), S)
  BY <1>1, RequestPlaces
<1>3. e \in S <=> IsRequest(e)
  OBVIOUS
<1> HIDE DEF S
<1>4. QED
  BY <1>2, <1>3, PlacePut

(* The events of the client.                                               *)
QueuedCalls == Len(mixevq) - Cardinality(RequestsIn(mixevq))

LEMMA CommandsType ==
  ASSUME NEW E, NEW q \in Seq(E)
  PROVE  Len(q) - Cardinality(RequestsIn(q)) \in Nat
<1>1. /\ Len(q) \in Nat /\ RequestsIn(q) \subseteq 1 .. Len(q) /\ IsFiniteSet(1 .. Len(q))
      /\ Cardinality(1 .. Len(q)) = Len(q)
  BY FS_Interval DEF RequestsIn
<1>2. Cardinality(RequestsIn(q)) \in Nat /\ Cardinality(RequestsIn(q)) <= Len(q)
  BY <1>1, RequestsFinite, FS_Subset
<1>3. QED
  BY <1>1, <1>2

LEMMA CommandTaken ==
  ASSUME NEW E, mixevq \in Seq(E), mixevq # <<>>, mixevq' = Tail(mixevq)
  PROVE  /\ QueuedCalls \in Nat /\ QueuedCalls' \in Nat
         /\ QueuedCalls' = QueuedCalls - IF IsRequest(Head(mixevq)) THEN 0 ELSE 1
<1>1. mixevq' \in Seq(E) /\ Len(mixevq) \in Nat /\ Len(mixevq') = Len(mixevq) - 1
  BY TailIs
<1>2. /\ Cardinality(RequestsIn(mixevq)) \in Nat /\ Cardinality(RequestsIn(mixevq')) \in Nat
      /\ Cardinality(RequestsIn(mixevq)) =
           Cardinality(RequestsIn(mixevq')) + IF IsRequest(Head(mixevq)) THEN 1 ELSE 0
  BY <1>1, RequestsFinite, RequestTakenCounts
<1>3. QueuedCalls' = Len(mixevq') - Cardinality(RequestsIn(mixevq'))
  BY DEF QueuedCalls, RequestsIn
<1>4. QueuedCalls \in Nat /\ QueuedCalls' \in Nat
  BY <1>1, <1>3, CommandsType DEF QueuedCalls
<1>5. QED
  BY <1>1, <1>2, <1>3, <1>4 DEF QueuedCalls

LEMMA CommandPut ==
  ASSUME NEW E, mixevq \in Seq(E), NEW ev \in E, mixevq' = Append(mixevq, ev)
  PROVE  QueuedCalls' = QueuedCalls + IF IsRequest(ev) THEN 0 ELSE 1
<1>1. Len(mixevq) \in Nat /\ Len(mixevq') = Len(mixevq) + 1
  BY AppendIs
<1>2. /\ Cardinality(RequestsIn(mixevq)) \in Nat
      /\ Cardinality(RequestsIn(mixevq')) =
           Cardinality(RequestsIn(mixevq)) + IF IsRequest(ev) THEN 1 ELSE 0
  BY RequestsFinite, RequestPutCounts
<1>3. QueuedCalls' = Len(mixevq') - Cardinality(RequestsIn(mixevq'))
  BY DEF QueuedCalls, RequestsIn
<1>4. QED
  BY <1>1, <1>2, <1>3 DEF QueuedCalls

-----------------------------------------------------------------------------
(* freebuffer_ptr and the DMA: whoever the client is, a request put moves  *)
(* the DMA on by a half and a request answered the pointer.                *)
PhaseInv ==
  {freehalf, dma} \subseteq {0, 1} /\ freehalf = (dma + OpenRequests) % 2

Refilling == IF mixpc = "refill" THEN 1 ELSE 0

LEMMA OpenRequestsAre == OpenRequests = Cardinality(RequestsIn(mixevq)) + Refilling
BY DEF OpenRequests, RequestsIn, Refilling

LEMMA PhaseType ==
  ASSUME NEW E, mixevq \in Seq(E)
  PROVE  OpenRequests \in Nat /\ Cardinality(RequestsIn(mixevq)) \in Nat /\ Refilling \in {0, 1}
BY OpenRequestsAre, RequestsFinite DEF Refilling

(* A request less or more, and the pointer or the DMA has moved.           *)
LEMMA PhaseMoves ==
  ASSUME NEW n \in Nat, NEW d \in {0, 1}, NEW f \in {0, 1}, f = (d + n) % 2
  PROVE  /\ n > 0 => 1 - f = (d + (n - 1)) % 2
         /\ f = ((1 - d) + (n + 1)) % 2
OBVIOUS

LEMMA TakenCounts ==
  ASSUME NEW E, mixevq \in Seq(E), NEW ev, TakeEvent(ev)
  PROVE  Cardinality(RequestsIn(mixevq)) =
           Cardinality(RequestsIn(mixevq')) + IF ev = "MIX_DATA_REQ" THEN 1 ELSE 0
BY RequestTakenCounts DEF TakeEvent, IsRequest

LEMMA MixerAnswers ==
  ASSUME NEW E, mixevq \in Seq(E), mixevq' \in Seq(E), Mixer
  PROVE  \/ OpenRequests' = OpenRequests /\ freehalf' = freehalf
         \/ /\ OpenRequests > 0 /\ OpenRequests' = OpenRequests - 1
            /\ freehalf' = 1 - freehalf
<1> DEFINE n == Cardinality(RequestsIn(mixevq))
           m == Cardinality(RequestsIn(mixevq'))
<1>1. /\ OpenRequests = n + Refilling /\ OpenRequests' = m + Refilling'
      /\ n \in Nat /\ m \in Nat
  <2>1. OpenRequests' = m + Refilling'
    BY DEF OpenRequests, RequestsIn, Refilling
  <2>2. QED
    BY <2>1, OpenRequestsAre, RequestsFinite
<1> HIDE DEF n, m
<1>2. CASE TakePlay \/ TakePause \/ TakeResume \/ TakeHalt
  <2>1. n = m
    BY <1>1, <1>2, TakenCounts DEF TakePlay, TakePause, TakeResume, TakeHalt, n, m
  <2>2. mixpc = "get" /\ mixpc' # "refill" /\ freehalf' = freehalf
    BY <1>2 DEF TakePlay, TakePause, TakeResume, TakeHalt, TakeEvent
  <2>3. QED
    BY <1>1, <2>1, <2>2 DEF Refilling
<1>3. CASE RequestPending \/ RequestIdle
  <2>1. n = m + 1
    BY <1>1, <1>3, TakenCounts DEF RequestPending, RequestIdle, n, m
  <2>2. mixpc = "get" /\ mixpc' # "refill" /\ freehalf' = 1 - freehalf
    BY <1>3 DEF RequestPending, RequestIdle, TakeEvent, MixSound
  <2>3. QED
    BY <1>1, <2>1, <2>2 DEF Refilling
<1>4. CASE RequestPlay
  <2>1. n = m + 1
    BY <1>1, <1>4, TakenCounts DEF RequestPlay, n, m
  <2>2. mixpc = "get" /\ mixpc' = "refill" /\ freehalf' = freehalf
    BY <1>4 DEF RequestPlay, TakeEvent
  <2>3. QED
    BY <1>1, <2>1, <2>2 DEF Refilling
<1>5. CASE RefillMix \/ RefillEnd
  <2>1. /\ mixpc = "refill" /\ mixpc' = "get" /\ freehalf' = 1 - freehalf
        /\ mixevq' = mixevq
    BY <1>5 DEF RefillMix, RefillEnd, MixSound
  <2>2. QED
    BY <1>1, <2>1 DEF Refilling, n, m
<1>6. CASE PlayOpen \/ PlayOpenFail \/ HaltDone \/ DecodeRead \/ DecodeEnd \/ DecodeAcquire
             \/ DecodeBlock \/ DecodeHalf \/ FillDone
  <2>1. /\ mixevq' = mixevq /\ freehalf' = freehalf
        /\ (mixpc = "refill") <=> (mixpc' = "refill")
    BY <1>6 DEF PlayOpen, PlayOpenFail, HaltDone, DecodeRead, DecodeEnd, DecodeAcquire,
                DecodeBlock, DecodeHalf, FillDone, UnchangedMix
  <2>2. QED
    BY <1>1, <2>1 DEF Refilling, n, m
<1>7. QED
  BY <1>2, <1>3, <1>4, <1>5, <1>6 DEF Mixer

LEMMA MixerKeepsPhase ==
  ASSUME NEW E, mixevq \in Seq(E), mixevq' \in Seq(E), PhaseInv, Mixer
  PROVE  PhaseInv'
<1>1. /\ freehalf \in {0, 1} /\ dma \in {0, 1} /\ freehalf = (dma + OpenRequests) % 2
      /\ dma' = dma
  BY DEF PhaseInv, Mixer, TakePlay, PlayOpen, PlayOpenFail, RequestPending, RequestIdle,
         RequestPlay, TakePause, TakeResume, TakeHalt, HaltDone, DecodeRead, DecodeEnd,
         DecodeAcquire, DecodeBlock, DecodeHalf, FillDone, RefillMix, RefillEnd, UnchangedMix
<1>2. CASE OpenRequests' = OpenRequests /\ freehalf' = freehalf
  BY <1>1, <1>2 DEF PhaseInv
<1>3. CASE /\ OpenRequests > 0 /\ OpenRequests' = OpenRequests - 1
           /\ freehalf' = 1 - freehalf
  <2>1. OpenRequests \in Nat
    BY PhaseType
  <2>2. freehalf' = (dma + OpenRequests') % 2
    BY <1>1, <1>3, <2>1, PhaseMoves
  <2>3. QED
    BY <1>1, <1>3, <2>2 DEF PhaseInv
<1>4. QED
  BY <1>2, <1>3, MixerAnswers

LEMMA PutCounts ==
  ASSUME NEW E, mixevq \in Seq(E), NEW ev \in E, mixevq' = PutEv(mixevq, ev),
         mixpc' = mixpc
  PROVE  /\ mixevq' \in Seq(E)
         /\ IsRequest(ev) /\ Len(mixevq) < MIX_EV_DEPTH => OpenRequests' = OpenRequests + 1
         /\ ~IsRequest(ev) => OpenRequests' = OpenRequests
<1>1. mixevq' \in Seq(E)
  BY DEF PutEv
<1>2. OpenRequests' = Cardinality(RequestsIn(mixevq')) + Refilling'
  BY DEF OpenRequests, RequestsIn, Refilling
<1>3. Refilling' = Refilling
  BY DEF Refilling
<1>4. OpenRequests = Cardinality(RequestsIn(mixevq)) + Refilling /\ OpenRequests \in Nat
      /\ Cardinality(RequestsIn(mixevq)) \in Nat /\ Refilling \in {0, 1}
  BY OpenRequestsAre, PhaseType
<1>5. CASE Len(mixevq) < MIX_EV_DEPTH
  <2>1. mixevq' = Append(mixevq, ev)
    BY <1>5 DEF PutEv
  <2>2. Cardinality(RequestsIn(mixevq')) =
          Cardinality(RequestsIn(mixevq)) + IF IsRequest(ev) THEN 1 ELSE 0
    BY <2>1, RequestPutCounts
  <2>3. QED
    BY <1>1, <1>2, <1>3, <1>4, <2>2
<1>6. CASE ~(Len(mixevq) < MIX_EV_DEPTH)
  <2>1. mixevq' = mixevq
    BY <1>6 DEF PutEv
  <2>2. QED
    BY <1>1, <1>2, <1>3, <1>4, <1>6, <2>1
<1>7. QED
  BY <1>5, <1>6

LEMMA RequestKeepsPhase ==
  ASSUME NEW E, mixevq \in Seq(E), DataReq(dma) \in E, PhaseInv, DmaInterrupt,
         Len(mixevq) < MIX_EV_DEPTH
  PROVE  PhaseInv'
<1>1. OpenRequests' = OpenRequests + 1 /\ OpenRequests \in Nat
  BY PutCounts, PhaseType DEF DmaInterrupt, DataReq, IsRequest
<1>2. dma' = 1 - dma /\ freehalf' = freehalf
  BY DEF DmaInterrupt
<1>3. QED
  BY <1>1, <1>2, PhaseMoves DEF PhaseInv

LEMMA OthersKeepPhase ==
  ASSUME PhaseInv, OpenRequests' = OpenRequests, UNCHANGED <<freehalf, dma>>
  PROVE  PhaseInv'
BY DEF PhaseInv

LEMMA StillPhase ==
  ASSUME PhaseInv, UNCHANGED <<mixevq, mixpc, freehalf, dma>>
  PROVE  PhaseInv'
BY DEF PhaseInv, OpenRequests

LEMMA PhaseStarts == MixInit => PhaseInv
<1> SUFFICES ASSUME MixInit PROVE PhaseInv
  OBVIOUS
<1>1. RequestsIn(mixevq) = {}
  BY DEF MixInit, RequestsIn
<1>2. OpenRequests = 0
  BY <1>1, OpenRequestsAre, FS_EmptySet DEF MixInit, Refilling
<1>3. QED
  BY <1>2 DEF MixInit, PhaseInv, FirstFree

-----------------------------------------------------------------------------
(* In a game and on the screen: every request of the DMA is put with room. *)
RequestsKept == DmaInterrupt => Len(mixevq) < MIX_EV_DEPTH

LEMMA DoomKeepsPhase ==
  PlayerInv /\ PhaseInv /\ [DoomNext]_songVars /\ [RequestsKept]_songVars => PhaseInv'
<1> SUFFICES ASSUME PlayerInv, PhaseInv, [DoomNext]_songVars, [RequestsKept]_songVars
             PROVE  PhaseInv'
  OBVIOUS
<1>1. /\ mixevq \in Seq(Events) /\ mixevq' \in Seq(Events) /\ DataReq(dma) \in Events
      /\ Command("MIX_HALT") \in Events /\ Plays \subseteq Events
  <2>1. PlayerInv'
    BY PlayerStep
  <2>2. QED
    BY <2>1 DEF PlayerInv, MixerInv, MixerTypes, Events
<1>2. CASE Mixer
  BY <1>1, <1>2, MixerKeepsPhase
<1>3. CASE ReaderStep \/ UNCHANGED songVars
  BY <1>3, StillPhase DEF ReaderStep, mixVars, songVars
<1>4. CASE DmaInterrupt /\ ~UNCHANGED songVars
  BY <1>1, <1>4, RequestKeepsPhase DEF RequestsKept
<1>5. CASE Doom
  <2>1. \E ev \in Events : ~IsRequest(ev) /\ Post(ev)
    <3>1. ASSUME NEW s \in Songs, NEW looping \in BOOLEAN, ChangeMusic(s, looping)
          PROVE  \E ev \in Events : ~IsRequest(ev) /\ Post(ev)
      <4>1. Play(s, IF looping THEN -1 ELSE 1) \in Plays
        BY DEF Plays
      <4>2. /\ ~IsRequest(Play(s, IF looping THEN -1 ELSE 1))
            /\ ~IsRequest(Command("MIX_HALT"))
        BY DEF IsRequest, Play, Command
      <4>3. QED
        BY <1>1, <3>1, <4>1, <4>2 DEF ChangeMusic
    <3>2. CASE PlaySong
      <4>1. next_song \in Plays /\ Post(next_song)
        BY <3>2 DEF PlaySong, PlayerInv
      <4>2. QED
        BY <1>1, <4>1 DEF Plays, Play, IsRequest
    <3>3. CASE StopMusic
      BY <1>1, <3>3 DEF StopMusic, IsRequest, Command
    <3>4. QED
      BY <1>5, <3>1, <3>2, <3>3 DEF Doom
  <2>2. QED
    BY <1>1, <2>1, PutCounts, OthersKeepPhase DEF Post
<1>6. QED
  BY <1>2, <1>3, <1>4, <1>5 DEF DoomNext

(* Each half that is filled is the one the DMA has just freed, in a game   *)
(* and whatever it plays, as long as no request of the DMA is dropped.     *)
THEOREM OutputInPhase ==
  DoomSpec /\ [][DmaInterrupt => Len(mixevq) < MIX_EV_DEPTH]_songVars => []InPhase
<1>1. DoomInit => PlayerInv /\ PhaseInv
  BY PlayerInit, PhaseStarts DEF DoomInit
<1>2. PlayerInv /\ PhaseInv /\ [DoomNext]_songVars
        /\ [DmaInterrupt => Len(mixevq) < MIX_EV_DEPTH]_songVars
        => PlayerInv' /\ PhaseInv'
  BY PlayerStep, DoomKeepsPhase DEF RequestsKept
<1>3. PhaseInv => InPhase
  BY DEF PhaseInv, InPhase
<1>4. QED
  BY <1>1, <1>2, <1>3, PTL DEF DoomSpec

LEMMA ScreenPosts ==
  ASSUME ScreenTypes, User \/ Gui
  PROVE  \/ \E ev \in GuiEvents : ~IsRequest(ev) /\ Post(ev)
         \/ UNCHANGED <<flacVars, mixVars>>
<1>1. /\ Command("MIX_HALT") \in GuiEvents /\ Command("MIX_PAUSE") \in GuiEvents
      /\ Command("MIX_RESUME") \in GuiEvents /\ \A s \in Songs : Play(s, 0) \in GuiEvents
  BY DEF GuiEvents
<1>2. /\ \A s \in Songs : ~IsRequest(Play(s, 0))
      /\ ~IsRequest(Command("MIX_HALT")) /\ ~IsRequest(Command("MIX_PAUSE"))
      /\ ~IsRequest(Command("MIX_RESUME"))
  BY DEF IsRequest, Play, Command
<1>3. ASSUME NEW id \in Songs, MusicPlay(id) \/ AlbumNext(id)
      PROVE  \E ev \in GuiEvents : ~IsRequest(ev) /\ Post(ev)
  BY <1>1, <1>2, <1>3 DEF MusicPlay, AlbumNext
<1>4. CASE PutPlay \/ PauseClick
  BY <1>1, <1>2, <1>4 DEF PutPlay, PauseClick, ScreenTypes
<1>5. CASE ResumeClick
  <2>1. CASE ResumeEvent(mstate) = Nothing
    BY <1>5, <2>1 DEF ResumeClick
  <2>2. CASE ResumeEvent(mstate) # Nothing
    <3>1. Post(ResumeEvent(mstate))
      BY <1>5, <2>2 DEF ResumeClick
    <3>2. ResumeEvent(mstate) \in {Play(track, 0), Command("MIX_RESUME")}
      BY <2>2 DEF ResumeEvent, ScreenTypes
    <3>3. QED
      BY <1>1, <1>2, <3>1, <3>2 DEF ScreenTypes
  <2>3. QED
    BY <2>1, <2>2
<1>6. CASE FinishEvent
  BY <1>6 DEF FinishEvent
<1>7. QED
  BY <1>3, <1>4, <1>5, <1>6 DEF User, Gui, ListClick, NextClick, InterPause

LEMMA GuiKeepsPhase ==
  GuiInv /\ PhaseInv /\ [GuiNext]_vars /\ [RequestsKept]_vars => PhaseInv'
<1> SUFFICES ASSUME GuiInv, PhaseInv, [GuiNext]_vars, [RequestsKept]_vars
             PROVE  PhaseInv'
  OBVIOUS
<1>1. /\ mixevq \in Seq(GuiEvents) /\ mixevq' \in Seq(GuiEvents) /\ DataReq(dma) \in GuiEvents
      /\ ScreenTypes
  <2>1. GuiInv'
    BY GuiStepKeeps
  <2>2. QED
    BY <2>1 DEF GuiInv, GuiTypes, GuiEvents
<1>2. CASE Mixer
  BY <1>1, <1>2, MixerKeepsPhase
<1>3. CASE ReaderStep \/ UNCHANGED vars
  BY <1>3, StillPhase DEF ReaderStep, mixVars, vars
<1>4. CASE DmaInterrupt /\ ~UNCHANGED vars
  BY <1>1, <1>4, RequestKeepsPhase DEF RequestsKept
<1>5. CASE User \/ Gui
  <2>1. CASE UNCHANGED <<flacVars, mixVars>>
    BY <2>1, StillPhase DEF mixVars
  <2>2. CASE \E ev \in GuiEvents : ~IsRequest(ev) /\ Post(ev)
    BY <1>1, <2>2, PutCounts, OthersKeepPhase DEF Post
  <2>3. QED
    BY <1>1, <1>5, <2>1, <2>2, ScreenPosts
<1>6. QED
  BY <1>2, <1>3, <1>4, <1>5 DEF GuiNext, MixerStep

(* So it is on the music screen.                                           *)
THEOREM ScreenOutputInPhase ==
  GuiSpec /\ [][DmaInterrupt => Len(mixevq) < MIX_EV_DEPTH]_vars => []InPhase
<1>1. GuiInit => GuiInv /\ PhaseInv
  BY GuiStarts, PhaseStarts DEF GuiInit
<1>2. GuiInv /\ PhaseInv /\ [GuiNext]_vars
        /\ [DmaInterrupt => Len(mixevq) < MIX_EV_DEPTH]_vars
        => GuiInv' /\ PhaseInv'
  BY GuiStepKeeps, GuiKeepsPhase DEF RequestsKept
<1>3. PhaseInv => InPhase
  BY DEF PhaseInv, InPhase
<1>4. QED
  BY <1>1, <1>2, <1>3, PTL DEF GuiSpec

-----------------------------------------------------------------------------
(***************************************************************************)
(* A song is played by an idle player.  Before every MIX_PLAY in the queue *)
(* a halt or a pause is the last that a client has put there; or there are *)
(* only requests of the DMA, and the player is idle already.               *)
(***************************************************************************)
Quiet == {Command("MIX_HALT"), Command("MIX_PAUSE")}
NowIdle == mixpc = "halt" \/ (mixpc = "get" /\ state = "IDLE")
QuietAfter(n) == EndsIn(mixevq, n, Quiet) \/ (OnlyRequests(mixevq, n) /\ NowIdle)
QuietEnd == QuietAfter(Len(mixevq))

PlaysQuietly ==
  /\ \A i \in 1 .. Len(mixevq) : mixevq[i].event = "MIX_PLAY" => QuietAfter(i - 1)
  /\ mixpc = "stopwait" => state = "IDLE"

(* A step of the mixer task takes the next event, or none; an idle player  *)
(* is idle still after a request, and idle after a halt or a pause.        *)
LEMMA MixerTakes ==
  ASSUME Mixer
  PROVE  \/ /\ mixevq' = mixevq
            /\ NowIdle => NowIdle'
            /\ mixpc' # "stopwait"
         \/ /\ mixevq # <<>> /\ mixevq' = Tail(mixevq) /\ ctrl' = Head(mixevq)
            /\ mixpc = "get"
            /\ IsRequest(Head(mixevq)) /\ NowIdle => NowIdle'
            /\ Head(mixevq) \in Quiet => NowIdle'
            /\ mixpc' = "stopwait" => TakePlay
<1>1. CASE TakePlay
  <2>1. TakeEvent("MIX_PLAY")
    BY <1>1 DEF TakePlay
  <2>2. ~IsRequest(Head(mixevq)) /\ Head(mixevq) \notin Quiet
    BY <2>1 DEF TakeEvent, IsRequest, Quiet, Command
  <2>3. QED
    BY <1>1, <2>1, <2>2 DEF TakeEvent
<1>2. CASE RequestPending \/ RequestIdle \/ RequestPlay \/ TakePause \/ TakeResume
  <2>1. /\ mixevq # <<>> /\ mixevq' = Tail(mixevq) /\ ctrl' = Head(mixevq) /\ mixpc = "get"
        /\ mixpc' \in {"get", "refill"}
    BY <1>2 DEF RequestPending, RequestIdle, RequestPlay, TakePause, TakeResume, TakeEvent
  <2>2. CASE RequestPending \/ RequestPlay
    <3>1. state # "IDLE" /\ Head(mixevq).event = "MIX_DATA_REQ"
      BY <2>2 DEF RequestPending, RequestPlay, TakeEvent
    <3>2. Head(mixevq) \notin Quiet
      BY <3>1 DEF Quiet, Command
    <3>3. QED
      BY <2>1, <3>1, <3>2 DEF NowIdle
  <2>3. CASE RequestIdle \/ TakePause
    BY <2>1, <2>3 DEF RequestIdle, TakePause, NowIdle
  <2>4. CASE TakeResume
    <3>1. Head(mixevq).event = "MIX_RESUME"
      BY <2>4 DEF TakeResume, TakeEvent
    <3>2. Head(mixevq) \notin Quiet /\ ~IsRequest(Head(mixevq))
      BY <3>1 DEF Quiet, Command, IsRequest
    <3>3. QED
      BY <2>1, <3>2
  <2>5. QED
    BY <1>2, <2>2, <2>3, <2>4
<1>3. CASE TakeHalt
  BY <1>3 DEF TakeHalt, TakeEvent, AfterHalt, NowIdle
<1>4. CASE PlayOpen \/ PlayOpenFail \/ HaltDone
  BY <1>4 DEF PlayOpen, PlayOpenFail, HaltDone, AfterHalt, NowIdle
<1>5. CASE DecodeRead \/ DecodeEnd \/ DecodeAcquire \/ DecodeBlock \/ DecodeHalf
  BY <1>5 DEF DecodeRead, DecodeEnd, DecodeAcquire, DecodeBlock, DecodeHalf, Decoding,
              UnchangedMix, NowIdle
<1>6. CASE FillDone \/ RefillMix \/ RefillEnd
  BY <1>6 DEF FillDone, RefillMix, RefillEnd, NowIdle
<1>7. QED
  BY <1>1, <1>2, <1>3, <1>4, <1>5, <1>6 DEF Mixer

(* An event has been taken: the rest of the queue is as quiet as it was.   *)
LEMMA QuietTaken ==
  ASSUME NEW E, mixevq \in Seq(E), mixevq # <<>>, mixevq' = Tail(mixevq),
         IsRequest(Head(mixevq)) /\ NowIdle => NowIdle',
         Head(mixevq) \in Quiet => NowIdle',
         NEW n \in 0 .. Len(mixevq) - 1, QuietAfter(n + 1)
  PROVE  QuietAfter(n)'
<1>1. /\ OnlyRequests(mixevq, n + 1) =>
           IsRequest(Head(mixevq)) /\ OnlyRequests(mixevq', n)
      /\ EndsIn(mixevq, n + 1, Quiet) =>
           EndsIn(mixevq', n, Quiet) \/ (Head(mixevq) \in Quiet /\ OnlyRequests(mixevq', n))
  BY TailEnds
<1>2. EndsIn(mixevq', n, Quiet) \/ (OnlyRequests(mixevq', n) /\ NowIdle')
  BY <1>1 DEF QuietAfter
<1>3. QED
  BY <1>2 DEF QuietAfter

LEMMA QuietStays ==
  ASSUME NEW n, QuietAfter(n), mixevq' = mixevq, NowIdle => NowIdle'
  PROVE  QuietAfter(n)'
BY DEF QuietAfter

LEMMA MixerKeepsQuiet ==
  ASSUME NEW E, mixevq \in Seq(E), PlaysQuietly, Mixer
  PROVE  PlaysQuietly' /\ (QuietEnd => QuietEnd')
<1>1. CASE /\ mixevq' = mixevq
           /\ NowIdle => NowIdle'
           /\ mixpc' # "stopwait"
  <2>1. ASSUME NEW i \in 1 .. Len(mixevq'), mixevq'[i].event = "MIX_PLAY"
        PROVE  QuietAfter(i - 1)'
    BY <1>1, <2>1, QuietStays DEF PlaysQuietly
  <2>2. QuietEnd => QuietEnd'
    BY <1>1 DEF QuietEnd, QuietAfter
  <2>3. QED
    BY <1>1, <2>1, <2>2 DEF PlaysQuietly
<1>2. CASE /\ mixevq # <<>> /\ mixevq' = Tail(mixevq) /\ ctrl' = Head(mixevq)
           /\ IsRequest(Head(mixevq)) /\ NowIdle => NowIdle'
           /\ Head(mixevq) \in Quiet => NowIdle'
           /\ mixpc' = "stopwait" => TakePlay
  <2>1. /\ Len(mixevq) \in Nat \ {0} /\ Len(mixevq') = Len(mixevq) - 1
        /\ Head(mixevq) = mixevq[1]
        /\ \A i \in 1 .. Len(mixevq) - 1 : mixevq'[i] = mixevq[i + 1]
    BY <1>2, TailIs
  <2>2. ASSUME NEW i \in 1 .. Len(mixevq'), mixevq'[i].event = "MIX_PLAY"
        PROVE  QuietAfter(i - 1)'
    <3>1. mixevq[i + 1].event = "MIX_PLAY" /\ i + 1 \in 1 .. Len(mixevq)
      BY <2>1, <2>2
    <3>2. QuietAfter((i - 1) + 1)
      <4>1. (i - 1) + 1 = (i + 1) - 1
        BY <2>1
      <4>2. QED
        BY <3>1, <4>1 DEF PlaysQuietly
    <3>3. i - 1 \in 0 .. Len(mixevq) - 1
      BY <2>1
    <3>4. QED
      BY <1>2, <3>2, <3>3, QuietTaken
  <2>3. ASSUME QuietEnd PROVE QuietEnd'
    <3> DEFINE n == Len(mixevq) - 1
    <3>1. n \in 0 .. Len(mixevq) - 1 /\ n + 1 = Len(mixevq) /\ Len(mixevq') = n
      BY <2>1
    <3>2. QuietAfter(n + 1)
      BY <2>3, <3>1 DEF QuietEnd
    <3>3. ASSUME NEW k, k = n PROVE QuietAfter(k)'
      BY <1>2, <3>1, <3>2, <3>3, QuietTaken
    <3>4. \A k : k = n => EndsIn(mixevq', k, Quiet) \/ (OnlyRequests(mixevq', k) /\ NowIdle')
      BY <3>3 DEF QuietAfter
    <3>5. QED
      BY <3>1, <3>4 DEF QuietEnd, QuietAfter
  <2>4. mixpc' = "stopwait" => state' = "IDLE"
    <3> SUFFICES ASSUME TakePlay PROVE state' = "IDLE"
      BY <1>2
    <3>1. mixpc = "get" /\ mixevq[1].event = "MIX_PLAY" /\ state' = state
      BY <2>1 DEF TakePlay, TakeEvent
    <3>2. QuietAfter(1 - 1)
      BY <2>1, <3>1 DEF PlaysQuietly
    <3>3. NowIdle
      BY <3>2 DEF QuietAfter, EndsIn
    <3>4. QED
      BY <3>1, <3>3 DEF NowIdle
  <2>5. QED
    BY <2>2, <2>3, <2>4 DEF PlaysQuietly
<1>3. QED
  BY <1>1, <1>2, MixerTakes

(* An event is put: a MIX_PLAY only where the queue ends quietly.          *)
LEMMA PutKeepsQuiet ==
  ASSUME NEW E, mixevq \in Seq(E), NEW ev \in E, mixevq' = PutEv(mixevq, ev),
         Len(mixevq) < MIX_EV_DEPTH, UNCHANGED <<mixpc, state>>, PlaysQuietly,
         ev.event = "MIX_PLAY" => QuietEnd
  PROVE  /\ PlaysQuietly'
         /\ IsRequest(ev) /\ QuietEnd => QuietEnd'
         /\ ev \in Quiet => QuietEnd'
<1>1. mixevq' = Append(mixevq, ev) /\ (NowIdle' <=> NowIdle)
  BY DEF PutEv, NowIdle
<1>2. /\ Len(mixevq) \in Nat /\ Len(mixevq') = Len(mixevq) + 1
      /\ mixevq'[Len(mixevq) + 1] = ev
      /\ \A i \in 1 .. Len(mixevq) : mixevq'[i] = mixevq[i]
  BY <1>1, AppendIs
<1>3. /\ \A n \in 0 .. Len(mixevq) :
           /\ OnlyRequests(mixevq', n) <=> OnlyRequests(mixevq, n)
           /\ EndsIn(mixevq', n, Quiet) <=> EndsIn(mixevq, n, Quiet)
      /\ IsRequest(ev) /\ OnlyRequests(mixevq, Len(mixevq)) => OnlyRequests(mixevq', Len(mixevq'))
      /\ IsRequest(ev) /\ EndsIn(mixevq, Len(mixevq), Quiet) => EndsIn(mixevq', Len(mixevq'), Quiet)
      /\ ev \in Quiet => EndsIn(mixevq', Len(mixevq'), Quiet)
  BY <1>1, <1>2, AppendEnds
<1>4. ASSUME NEW i \in 1 .. Len(mixevq'), mixevq'[i].event = "MIX_PLAY"
      PROVE  QuietAfter(i - 1)'
  <2>1. i - 1 \in 0 .. Len(mixevq)
    BY <1>2
  <2>2. QuietAfter(i - 1)
    <3>1. CASE i = Len(mixevq) + 1
      BY <1>2, <1>4, <3>1 DEF QuietEnd
    <3>2. CASE i # Len(mixevq) + 1
      BY <1>2, <1>4, <3>2 DEF PlaysQuietly
    <3>3. QED
      BY <3>1, <3>2
  <2>3. QED
    BY <1>1, <1>3, <2>1, <2>2 DEF QuietAfter
<1>5. QED
  BY <1>1, <1>3, <1>4 DEF PlaysQuietly, QuietEnd, QuietAfter

LEMMA StillQuiet ==
  ASSUME PlaysQuietly, UNCHANGED <<mixevq, mixpc, state>>
  PROVE  PlaysQuietly' /\ (QuietEnd' <=> QuietEnd)
BY DEF PlaysQuietly, QuietEnd, QuietAfter, NowIdle

LEMMA QuietStarts == MixInit => PlaysQuietly /\ QuietEnd
BY DEF MixInit, PlaysQuietly, QuietEnd, QuietAfter, OnlyRequests, NowIdle

-----------------------------------------------------------------------------
(* What MIX_PLAY decodes.  A file with a frame gives it some music.        *)
LEMMA FrameGivesHalves ==
  ASSUME NBlocks >= FRAME_BLOCKS
  PROVE  (NBlocks \div FRAME_BLOCKS) * FRAME_HALVES > 0
<1> DEFINE d == NBlocks \div FRAME_BLOCKS
           m == NBlocks % FRAME_BLOCKS
<1>1. /\ d \in Nat /\ m \in Nat /\ m < FRAME_BLOCKS
      /\ NBlocks = d * FRAME_BLOCKS + m
  BY NBlocksAssumption, MixAssumption
<1> HIDE DEF d, m
<1>2. d # 0
  BY <1>1, MixAssumption
<1>3. PICK k \in Nat : d = k + 1
  BY <1>1, <1>2
<1>4. d * FRAME_HALVES = k * FRAME_HALVES + FRAME_HALVES /\ k * FRAME_HALVES >= 0
  BY <1>3, MixAssumption
<1>5. QED
  BY <1>4, MixAssumption DEF d

LEMMA FillHasMusic ==
  ASSUME mixpc = "fill", ~Decoding, num_read \in Nat, num_read = Position, eof => Over,
         Session, ContentsInOrder, NBlocks >= FRAME_BLOCKS
  PROVE  num_read > 0
<1>1. CASE num_read >= 2
  BY <1>1
<1>2. CASE eof
  <2>1. expect = NBlocks /\ cached = 0
    BY <1>2 DEF Over, ContentsInOrder
  <2>2. Position = (NBlocks \div FRAME_BLOCKS) * FRAME_HALVES - 0
    BY <2>1 DEF Position
  <2>3. (NBlocks \div FRAME_BLOCKS) * FRAME_HALVES \in Nat
    BY NextBlock, NBlocksAssumption, MixAssumption
  <2>4. QED
    BY <2>2, <2>3, FrameGivesHalves
<1>3. QED
  BY <1>1, <1>2 DEF Decoding, Wanted

(* In a game, where songs are sought while they play, the decoder reads    *)
(* the file from its start as one stream at least until MIX_PLAY is done.  *)
FillStream ==
  mixpc = "fill" => /\ ContentsInOrder /\ FrameInv
                    /\ frame \in Nat /\ num_read = Position /\ (eof => Over)

LEMMA FillStarts ==
  ASSUME PlayerInv, PlayOpen
  PROVE  FillStream'
<1>1. /\ mixpc = "stopwait" /\ mpc = "run" /\ reader_status = "STOPPED"
      /\ mpc' = "opened" /\ pflac' = ctrl.song /\ expect' = 0
      /\ cached' = 0 /\ frame' = 0 /\ num_read' = 0 /\ eof' = FALSE
      /\ UNCHANGED <<send_index, got>>
  BY DEF PlayOpen, OpenOk, ReadyToOpen
<1>2. ContentsInOrder'
  <2>1. pflac = NoSong
    BY <1>1 DEF PlayerInv, PipelineInv, ModesAgree
  <2>2. StreamCalls
    BY <1>1 DEF PlayOpen, StreamCalls, PlayerInv, MixerInv, MixerTypes
  <2>3. QED
    BY <2>1, <2>2, StreamCallsKeepContents DEF PlayerInv, ContentsInOrder, Session
<1>3. expect' % FRAME_BLOCKS = 0 /\ Position' = 0
  <2>1. 0 = 0 * FRAME_BLOCKS + 0 /\ 0 < FRAME_BLOCKS
    BY MixAssumption
  <2>2. 0 \div FRAME_BLOCKS = 0 /\ 0 % FRAME_BLOCKS = 0
    BY <2>1, QuotientIs
  <2>3. QED
    BY <1>1, <2>2, MixAssumption DEF Position
<1>4. FrameInv'
  BY <1>1, <1>3 DEF FrameInv
<1>5. QED
  BY <1>1, <1>2, <1>3, <1>4 DEF FillStream

LEMMA FillGoesOn ==
  ASSUME PlayerInv, FillStream, mixpc = "fill", mixpc' = "fill",
         DecodeRead \/ DecodeEnd \/ DecodeAcquire \/ DecodeBlock \/ DecodeHalf
  PROVE  FillStream'
<1>0. /\ ContentsInOrder /\ FrameInv /\ frame \in Nat /\ num_read = Position /\ (eof => Over)
      /\ PipelineInv /\ CallsAgree /\ cached \in Nat /\ eof \in BOOLEAN
  BY DEF FillStream, PlayerInv, MixerInv, MixerTypes
<1>1. ContentsInOrder'
  <2>1. StreamCalls \/ UNCHANGED flacVars
    BY DEF StreamCalls, DecodeRead, DecodeEnd, DecodeAcquire, DecodeBlock, DecodeHalf
  <2>2. QED
    BY <1>0, <2>1, GuiCallsKeepStream
<1>2. CASE DecodeRead \/ DecodeAcquire
  <2>1. /\ Decoding /\ mpc' \in {"wait", "copy"} /\ mpc # "close"
        /\ UNCHANGED <<expect, cached, frame, got, pflac, send_index, num_read, eof>>
    BY <1>0, <1>2 DEF DecodeRead, DecodeAcquire, OnRead, OnReadAcquire, CallsAgree
  <2>2. Position' = Position /\ (Over' <=> Over) /\ (Session' <=> Session)
    BY <2>1 DEF Position, Over, Session
  <2>3. FrameInv'
    BY <1>0, <2>1, <2>2 DEF FrameInv
  <2>4. QED
    BY <1>0, <1>1, <2>1, <2>2, <2>3 DEF FillStream
<1>3. CASE DecodeEnd
  <2>1. /\ cached = 0 /\ pflac # NoSong
        /\ UNCHANGED <<expect, cached, pflac, send_index, num_read>>
        /\ frame' = 0 /\ eof' = TRUE
    BY <1>3 DEF DecodeEnd, OnReadEnd, PlayerInv, MixerInv, SongInv, readerVars
  <2>2. send_index = -1
    BY <1>0, <1>3, <2>1 DEF DecodeEnd, OnReadEnd, PipelineInv, TypeOK, Slots
  <2>3. Position' = Position /\ Over'
    BY <2>1, <2>2 DEF Position, Over
  <2>4. FrameInv'
    BY <2>1, <2>2 DEF FrameInv
  <2>5. QED
    BY <1>0, <1>1, <2>1, <2>3, <2>4 DEF FillStream
<1>4. CASE DecodeBlock
  <2>1. cached = 0 /\ eof = FALSE /\ UNCHANGED num_read
    BY <1>0, <1>4 DEF DecodeBlock, OnReadCopy, CallsAgree, Decoding
  <2>2. FrameInv' /\ Position' = Position /\ (Over' <=> eof') /\ frame' \in Nat
    BY <1>0, <1>4, <2>1, BlockKeepsFrame
  <2>3. QED
    BY <1>0, <1>1, <2>1, <2>2 DEF FillStream
<1>5. CASE DecodeHalf
  <2>1. FrameInv' /\ Position' = Position + 1 /\ ~Over
    BY <1>0, <1>5, HalfKeepsFrame
  <2>2. num_read' = num_read + 1 /\ UNCHANGED <<frame, eof>>
    BY <1>5 DEF DecodeHalf
  <2>3. QED
    BY <1>0, <1>1, <2>1, <2>2 DEF FillStream
<1>6. QED
  BY <1>2, <1>3, <1>4, <1>5

LEMMA FillStays ==
  ASSUME PlayerInv, FillStream, UNCHANGED <<mixpc, cached, frame, num_read, eof>>,
         Reader \/ UNCHANGED flacVars
  PROVE  FillStream'
<1> SUFFICES ASSUME mixpc = "fill"
             PROVE  /\ ContentsInOrder' /\ FrameInv'
                    /\ frame' \in Nat /\ num_read' = Position' /\ (eof' => Over')
  BY DEF FillStream
<1>1. /\ PipelineInv /\ ContentsInOrder /\ FrameInv /\ frame \in Nat /\ num_read = Position
      /\ (eof => Over) /\ Session
  BY DEF FillStream, PlayerInv, MixerInv, SongInv, CallsAgree, Session
<1>2. CASE Reader
  BY <1>1, <1>2, ReaderKeepsContents, ReaderKeepsFrame
<1>3. CASE UNCHANGED flacVars
  BY <1>1, <1>3, GuiCallsKeepStream, StreamStays DEF flacVars, readerVars, decoderVars
<1>4. QED
  BY <1>2, <1>3

LEMMA FillStep == PlayerInv /\ FillStream /\ [DoomNext]_songVars => FillStream'
<1> SUFFICES ASSUME PlayerInv, FillStream, [DoomNext]_songVars, mixpc' = "fill"
             PROVE  FillStream'
  BY DEF FillStream
<1>1. CASE Mixer
  <2>1. CASE PlayOpen
    BY <2>1, FillStarts
  <2>2. CASE DecodeRead \/ DecodeEnd \/ DecodeAcquire \/ DecodeBlock \/ DecodeHalf
    <3>1. mixpc = "fill"
      BY <2>2 DEF DecodeRead, DecodeEnd, DecodeAcquire, DecodeBlock, DecodeHalf, UnchangedMix
    <3>2. QED
      BY <2>2, <3>1, FillGoesOn
  <2>3. CASE ~PlayOpen /\ ~(DecodeRead \/ DecodeEnd \/ DecodeAcquire \/ DecodeBlock \/ DecodeHalf)
    <3>1. FALSE
      BY <1>1, <2>3
         DEF Mixer, TakePlay, PlayOpenFail, RequestPending, RequestIdle, RequestPlay, TakePause,
             TakeResume, TakeHalt, TakeEvent, HaltDone, FillDone, RefillMix, RefillEnd
    <3>2. QED
      BY <3>1
  <2>4. QED
    BY <2>1, <2>2, <2>3
<1>2. CASE ReaderStep
  BY <1>2, FillStays DEF ReaderStep, mixVars
<1>3. CASE DmaInterrupt
  BY <1>3, FillStays DEF DmaInterrupt
<1>4. CASE Doom
  BY <1>4, FillStays DEF Doom, ChangeMusic, PlaySong, StopMusic, Post
<1>5. CASE UNCHANGED songVars
  BY <1>5, FillStays DEF songVars, mixVars
<1>6. QED
  BY <1>1, <1>2, <1>3, <1>4, <1>5 DEF DoomNext

-----------------------------------------------------------------------------
(***************************************************************************)
(* A game asks for a song.  When it has put its MIX_PLAY, either this is   *)
(* the last of its events in the queue, or there are only requests of the  *)
(* DMA and the mixer task is about that song.  Where it has only put the   *)
(* halt, or wants no music, the queue ends quietly.                        *)
(***************************************************************************)
Asked == Play(mus_playing, IF mus_loops THEN -1 ELSE 1)

NowAsked ==
  /\ mixpc # "halt"
  /\ mixpc = "stopwait" => ctrl = Asked
  /\ mixpc = "fill" => pflac = mus_playing
  /\ mixpc \in {"get", "refill"} /\ state # "IDLE" => pflac = mus_playing

(* A song that can be opened and has a frame, and shall loop, does so.     *)
Playable == CardErrors = FALSE /\ NBlocks >= FRAME_BLOCKS
NowLoops ==
  Playable /\ mus_loops =>
    /\ mixpc # "stopwait" => loop_count = -1
    /\ mixpc \in {"get", "refill"} => state # "IDLE"

AskedInv ==
  /\ next_song # NoPlay \/ mus_playing = NoSong => QuietEnd
  /\ next_song # NoPlay => next_song = Asked /\ mus_playing # NoSong
  /\ next_song = NoPlay /\ mus_playing # NoSong =>
       \/ EndsIn(mixevq, Len(mixevq), {Asked})
       \/ OnlyRequests(mixevq, Len(mixevq)) /\ NowAsked /\ NowLoops

GameInv == PlayerInv /\ FillStream /\ PlaysQuietly /\ AskedInv

(* The mixer task is about the song, and stays about it.                   *)
LEMMA SeekKeepsSong == SeekTo(LoopStart) => pflac' = pflac
BY DEF SeekTo, OnSeek, decoderVars

LEMMA MixerKeepsSong ==
  ASSUME PlayerInv, FillStream, PlaysQuietly, Mixer, NowAsked, NowLoops, UNCHANGED doomVars,
         ~TakePlay, ~TakeHalt
  PROVE  NowAsked' /\ NowLoops'
<1>1. UNCHANGED <<mus_playing, mus_loops>> /\ Asked' = Asked
  BY DEF doomVars, Asked
<1>2. ~TakePause /\ ~TakeResume /\ ~HaltDone
  BY TakeTypes DEF PlayerInv, MixerInv, TakePause, TakeResume, HaltDone, NowAsked
<1>3. CASE PlayOpen
  <2>1. /\ mixpc = "stopwait" /\ ctrl = Asked /\ mixpc' = "fill" /\ pflac' = ctrl.song
        /\ loop_count' = Laps(ctrl.option)
    BY <1>3 DEF PlayOpen, OpenOk, NowAsked
  <2>2. pflac' = mus_playing
    BY <2>1 DEF Asked, Play
  <2>3. mus_loops => loop_count' = -1
    BY <2>1 DEF Asked, Play, Laps
  <2>4. QED
    BY <1>1, <2>1, <2>2, <2>3 DEF NowAsked, NowLoops
<1>4. CASE PlayOpenFail
  <2>1. mixpc' = "get" /\ state' = "IDLE" /\ CardErrors
    BY <1>4 DEF PlayOpenFail, OpenFail, PlaysQuietly
  <2>2. QED
    BY <1>1, <2>1 DEF NowAsked, NowLoops, Playable
<1>5. CASE RequestPending \/ RequestIdle
  <2>1. /\ mixpc = "get" /\ mixpc' = "get" /\ UNCHANGED <<pflac, loop_count>>
        /\ state' # "IDLE" <=> state # "IDLE"
    BY <1>5 DEF RequestPending, RequestIdle, TakeEvent, flacVars, decoderVars
  <2>2. QED
    BY <1>1, <2>1 DEF NowAsked, NowLoops
<1>6. CASE RequestPlay
  <2>1. mixpc = "get" /\ mixpc' = "refill" /\ UNCHANGED <<state, loop_count>>
    BY <1>6 DEF RequestPlay, TakeEvent
  <2>2. pflac' = pflac
    BY <1>6, SeekKeepsSong DEF RequestPlay, flacVars, decoderVars
  <2>3. QED
    BY <1>1, <2>1, <2>2 DEF NowAsked, NowLoops
<1>7. CASE DecodeRead \/ DecodeEnd \/ DecodeAcquire \/ DecodeBlock \/ DecodeHalf
  <2>1. UnchangedMix /\ pflac' = pflac
    BY <1>7 DEF DecodeRead, DecodeEnd, DecodeAcquire, DecodeBlock, DecodeHalf, OnRead,
                OnReadEnd, OnReadAcquire, OnReadCopy, flacVars, decoderVars
  <2>2. QED
    BY <1>1, <2>1 DEF NowAsked, NowLoops, UnchangedMix
<1>8. CASE FillDone
  <2>1. /\ mixpc = "fill" /\ ~Decoding /\ mixpc' = "get" /\ UNCHANGED <<pflac, loop_count>>
        /\ num_read > 0 => state' = "PLAY_REQ"
    BY <1>8 DEF FillDone, flacVars, decoderVars
  <2>2. Playable => num_read > 0
    <3>1. Session /\ num_read \in Nat
      BY <2>1 DEF PlayerInv, MixerInv, MixerTypes, CallsAgree, SongInv, Session
    <3>2. ContentsInOrder /\ num_read = Position /\ (eof => Over)
      BY <2>1 DEF FillStream
    <3>3. QED
      BY <2>1, <3>1, <3>2, FillHasMusic DEF Playable
  <2>3. QED
    BY <1>1, <2>1, <2>2 DEF NowAsked, NowLoops
<1>9. CASE RefillMix
  <2>1. mixpc = "refill" /\ mixpc' = "get" /\ UNCHANGED <<pflac, state, loop_count>>
    BY <1>9 DEF RefillMix, flacVars, decoderVars
  <2>2. QED
    BY <1>1, <2>1 DEF NowAsked, NowLoops
<1>10. CASE RefillEnd
  <2>1. /\ mixpc = "refill" /\ mixpc' = "get" /\ state = "PLAY"
        /\ loop_count # 0 => loop_count' = Laps(loop_count) /\ state' = state
        /\ loop_count = 0 => state' = "IDLE"
    BY <1>10 DEF RefillEnd, PlayerInv, MixerInv, SongInv
  <2>2. pflac' = pflac
    BY <1>10, SeekKeepsSong DEF RefillEnd, flacVars, decoderVars
  <2>3. QED
    BY <1>1, <2>1, <2>2 DEF NowAsked, NowLoops, Laps
<1>11. QED
  BY <1>2, <1>3, <1>4, <1>5, <1>6, <1>7, <1>8, <1>9, <1>10 DEF Mixer

LEMMA PlayAsked ==
  ASSUME TakePlay, Head(mixevq) = Asked, UNCHANGED doomVars
  PROVE  NowAsked' /\ NowLoops'
<1>1. mixpc' = "stopwait" /\ ctrl' = Asked /\ Asked' = Asked
  BY DEF TakePlay, TakeEvent, doomVars, Asked
<1>2. QED
  BY <1>1 DEF NowAsked, NowLoops

LEMMA MixerKeepsAsked ==
  ASSUME GameInv, Mixer, UNCHANGED doomVars
  PROVE  AskedInv'
<1>1. PlayerInv /\ FillStream /\ PlaysQuietly /\ AskedInv /\ mixevq \in Seq(Events)
  BY DEF GameInv, PlayerInv, MixerInv, MixerTypes
<1>2. UNCHANGED <<mus_playing, mus_loops, next_song>> /\ Asked' = Asked
  BY DEF doomVars, Asked
<1>3. QuietEnd => QuietEnd'
  BY <1>1, MixerKeepsQuiet
<1>4. ASSUME next_song = NoPlay, mus_playing # NoSong
      PROVE  \/ EndsIn(mixevq', Len(mixevq'), {Asked})
             \/ OnlyRequests(mixevq', Len(mixevq')) /\ NowAsked' /\ NowLoops'
  <2>1. CASE mixevq' = mixevq
    <3>1. CASE EndsIn(mixevq, Len(mixevq), {Asked})
      BY <2>1, <3>1
    <3>2. CASE OnlyRequests(mixevq, Len(mixevq)) /\ NowAsked /\ NowLoops
      <4>1. ~TakePlay /\ ~TakeHalt
        BY <1>1, <2>1, TailIs DEF TakePlay, TakeHalt, TakeEvent
      <4>2. QED
        BY <1>1, <2>1, <3>2, <4>1, MixerKeepsSong
    <3>3. QED
      BY <1>1, <1>4, <3>1, <3>2 DEF AskedInv
  <2>2. CASE mixevq # <<>> /\ mixevq' = Tail(mixevq)
    <3> DEFINE n == Len(mixevq) - 1
    <3>1. n \in 0 .. Len(mixevq) - 1 /\ n + 1 = Len(mixevq) /\ Len(mixevq') = n
      BY <1>1, <2>2, TailIs
    <3>2. /\ OnlyRequests(mixevq, n + 1) => IsRequest(Head(mixevq)) /\ OnlyRequests(mixevq', n)
          /\ EndsIn(mixevq, n + 1, {Asked}) =>
               EndsIn(mixevq', n, {Asked})
                 \/ (Head(mixevq) \in {Asked} /\ OnlyRequests(mixevq', n))
      BY <1>1, <2>2, <3>1, TailEnds
    <3> HIDE DEF n
    <3>3. CASE OnlyRequests(mixevq, n + 1) /\ NowAsked /\ NowLoops
      <4>1. ~TakePlay /\ ~TakeHalt
        BY <3>2, <3>3 DEF TakePlay, TakeHalt, TakeEvent, IsRequest
      <4>2. QED
        BY <1>1, <3>1, <3>2, <3>3, <4>1, MixerKeepsSong
    <3>4. CASE Head(mixevq) = Asked /\ OnlyRequests(mixevq', n)
      <4>1. TakePlay
        <5>1. Head(mixevq).event = "MIX_PLAY" /\ ~(mixevq' = mixevq)
          BY <3>1, <3>4 DEF Asked, Play
        <5>2. QED
          BY <5>1
             DEF Mixer, PlayOpen, PlayOpenFail, RequestPending, RequestIdle, RequestPlay, TakePause,
                 TakeResume, TakeHalt, HaltDone, DecodeRead, DecodeEnd, DecodeAcquire,
                 DecodeBlock, DecodeHalf, FillDone, RefillMix, RefillEnd, UnchangedMix, TakeEvent
      <4>2. QED
        BY <3>1, <3>4, <4>1, PlayAsked
    <3>5. QED
      BY <1>1, <1>4, <3>1, <3>2, <3>3, <3>4 DEF AskedInv
  <2>3. QED
    BY <2>1, <2>2, MixerTakes
<1>5. QED
  BY <1>1, <1>2, <1>3, <1>4 DEF AskedInv

(* The steps of the others: an event is put with room.                     *)
LEMMA StillAsked ==
  ASSUME UNCHANGED <<mixpc, state, ctrl, loop_count, pflac, mus_playing, mus_loops>>
  PROVE  /\ Asked' = Asked /\ (NowAsked' <=> NowAsked) /\ (NowLoops' <=> NowLoops)
         /\ (NowIdle' <=> NowIdle)
BY DEF Asked, NowAsked, NowLoops, NowIdle

LEMMA RequestKeepsAsked ==
  ASSUME GameInv, DmaInterrupt, Len(mixevq) < MIX_EV_DEPTH, UNCHANGED doomVars
  PROVE  PlaysQuietly' /\ AskedInv'
<1>1. /\ mixevq \in Seq(Events) /\ DataReq(dma) \in Events /\ IsRequest(DataReq(dma))
      /\ DataReq(dma).event # "MIX_PLAY" /\ AskedInv /\ PlaysQuietly
  BY DEF GameInv, PlayerInv, MixerInv, MixerTypes, Events, IsRequest, DataReq
<1>2. /\ mixevq' = PutEv(mixevq, DataReq(dma)) /\ mixevq' = Append(mixevq, DataReq(dma))
      /\ UNCHANGED <<mixpc, state, ctrl, loop_count, pflac, mus_playing, mus_loops, next_song>>
  BY DEF DmaInterrupt, PutEv, doomVars, flacVars, decoderVars
<1>3. PlaysQuietly' /\ (QuietEnd => QuietEnd')
  BY <1>1, <1>2, PutKeepsQuiet
<1>4. /\ Asked' = Asked /\ (NowAsked' <=> NowAsked) /\ (NowLoops' <=> NowLoops)
  BY <1>2, StillAsked
<1>5. /\ OnlyRequests(mixevq, Len(mixevq)) => OnlyRequests(mixevq', Len(mixevq'))
      /\ EndsIn(mixevq, Len(mixevq), {Asked}) => EndsIn(mixevq', Len(mixevq'), {Asked})
  <2>1. Len(mixevq') = Len(mixevq) + 1
    BY <1>1, <1>2, AppendIs
  <2>2. QED
    BY <1>1, <1>2, <2>1, AppendEnds
<1>6. QED
  BY <1>1, <1>2, <1>3, <1>4, <1>5 DEF AskedInv

LEMMA DoomKeepsAsked ==
  ASSUME GameInv, Doom, Len(mixevq) < MIX_EV_DEPTH
  PROVE  PlaysQuietly' /\ AskedInv'
<1>1. /\ mixevq \in Seq(Events) /\ AskedInv /\ PlaysQuietly
      /\ Command("MIX_HALT") \in Events /\ Plays \subseteq Events
      /\ next_song \in {NoPlay} \cup Plays /\ NoPlay \notin Plays
      /\ \A ev \in Plays : ev.event = "MIX_PLAY"
  BY DEF GameInv, PlayerInv, MixerInv, MixerTypes, Events, Plays, Play, NoPlay, Command
<1>2. /\ UNCHANGED <<mixpc, state, ctrl, loop_count, pflac>> /\ (NowIdle' <=> NowIdle)
  BY DEF Doom, ChangeMusic, PlaySong, StopMusic, Post, flacVars, decoderVars, NowIdle
<1>3. CASE /\ Post(Command("MIX_HALT"))
           /\ \/ next_song' = NoPlay /\ mus_playing' = NoSong
              \/ next_song' = Asked' /\ next_song' # NoPlay /\ mus_playing' # NoSong
  <2>1. Command("MIX_HALT") \in Quiet /\ Command("MIX_HALT").event # "MIX_PLAY"
    BY DEF Quiet, Command
  <2>2. PlaysQuietly' /\ QuietEnd'
    BY <1>1, <1>2, <1>3, <2>1, PutKeepsQuiet DEF Post
  <2>3. QED
    BY <1>3, <2>2 DEF AskedInv
<1>4. CASE /\ Asked' \in Plays /\ Post(Asked') /\ QuietEnd
           /\ next_song' = NoPlay /\ mus_playing' # NoSong
  <2>1. PlaysQuietly'
    BY <1>1, <1>2, <1>4, PutKeepsQuiet DEF Post
  <2>2. EndsIn(mixevq', Len(mixevq'), {Asked'})
    <3>1. Asked' \in Events /\ mixevq' = Append(mixevq, Asked')
      BY <1>1, <1>4 DEF Post, PutEv
    <3>2. Len(mixevq') = Len(mixevq) + 1
      BY <1>1, <3>1, AppendIs
    <3>3. QED
      BY <1>1, <3>1, <3>2, AppendEnds
  <2>3. QED
    BY <1>4, <2>1, <2>2 DEF AskedInv
<1>5. ASSUME NEW s \in Songs, NEW looping \in BOOLEAN, ChangeMusic(s, looping)
      PROVE  PlaysQuietly' /\ AskedInv'
  <2>1. /\ Asked' = Play(s, IF looping THEN -1 ELSE 1) /\ Asked' \in Plays
        /\ mus_playing' = s /\ s # NoSong /\ next_song = NoPlay
    BY <1>5, SongAssumption DEF ChangeMusic, Change, Asked, Plays
  <2>2. CASE mus_playing = NoSong
    BY <1>1, <1>4, <1>5, <2>1, <2>2 DEF ChangeMusic, AskedInv
  <2>3. CASE mus_playing # NoSong
    BY <1>1, <1>3, <1>5, <2>1, <2>3 DEF ChangeMusic
  <2>4. QED
    BY <2>2, <2>3
<1>6. CASE PlaySong
  <2>1. /\ next_song # NoPlay /\ next_song' = NoPlay /\ Post(next_song)
        /\ UNCHANGED <<mus_playing, mus_loops>> /\ Asked' = Asked
    BY <1>6 DEF PlaySong, Asked
  <2>2. next_song = Asked /\ mus_playing # NoSong /\ QuietEnd /\ Asked \in Plays
    BY <1>1, <2>1 DEF AskedInv
  <2>3. QED
    BY <1>4, <2>1, <2>2
<1>7. CASE StopMusic
  BY <1>3, <1>7 DEF StopMusic, Change
<1>8. QED
  BY <1>5, <1>6, <1>7 DEF Doom

EventsKept == DmaInterrupt \/ Doom => Len(mixevq) < MIX_EV_DEPTH

LEMMA GameStep == GameInv /\ [DoomNext]_songVars /\ [EventsKept]_songVars => GameInv'
<1> SUFFICES ASSUME GameInv, [DoomNext]_songVars, [EventsKept]_songVars PROVE GameInv'
  OBVIOUS
<1>1. PlayerInv' /\ FillStream'
  BY PlayerStep, FillStep DEF GameInv
<1>2. mixevq \in Seq(Events)
  BY DEF GameInv, PlayerInv, MixerInv, MixerTypes
<1>3. CASE Mixer /\ UNCHANGED doomVars
  BY <1>1, <1>2, <1>3, MixerKeepsQuiet, MixerKeepsAsked DEF GameInv
<1>4. CASE (ReaderStep /\ UNCHANGED doomVars) \/ UNCHANGED songVars
  <2>1. UNCHANGED <<mixevq, mixpc, state, ctrl, loop_count, pflac, mus_playing, mus_loops,
                    next_song>>
    <3>1. CASE ReaderStep /\ UNCHANGED doomVars
      <4>1. pflac' = pflac
        BY <3>1 DEF ReaderStep, Reader, ReaderStart, ReaderTake, ReaderFill, ReaderError,
                    ReaderMore, ReaderStop, decoderVars
      <4>2. QED
        BY <3>1, <4>1 DEF ReaderStep, mixVars, doomVars
    <3>2. CASE UNCHANGED songVars
      BY <3>2 DEF songVars, mixVars, doomVars, flacVars, decoderVars
    <3>3. QED
      BY <1>4, <3>1, <3>2
  <2>2. PlaysQuietly' /\ (QuietEnd' <=> QuietEnd)
    BY <2>1, StillQuiet DEF GameInv
  <2>3. AskedInv'
    BY <2>1, <2>2, StillAsked DEF GameInv, AskedInv
  <2>4. QED
    BY <1>1, <2>2, <2>3 DEF GameInv
<1>5. CASE DmaInterrupt /\ UNCHANGED doomVars /\ ~UNCHANGED songVars
  BY <1>1, <1>5, RequestKeepsAsked DEF GameInv, EventsKept
<1>6. CASE Doom /\ ~UNCHANGED songVars
  BY <1>1, <1>6, DoomKeepsAsked DEF GameInv, EventsKept
<1>7. QED
  BY <1>3, <1>4, <1>5, <1>6 DEF DoomNext

LEMMA GameStarts == DoomInit => GameInv
<1> SUFFICES ASSUME DoomInit PROVE GameInv
  OBVIOUS
<1>1. PlayerInv /\ PlaysQuietly /\ QuietEnd
  BY PlayerInit, QuietStarts DEF DoomInit
<1>2. FillStream
  BY DEF DoomInit, MixInit, FillStream
<1>3. AskedInv
  BY <1>1 DEF DoomInit, AskedInv
<1>4. QED
  BY <1>1, <1>2, <1>3 DEF GameInv

(* When Doom's requests have been handled, only requests of the DMA are    *)
(* left.                                                                   *)
LEMMA SettledIsAsked ==
  ASSUME GameInv, DoomSettled
  PROVE  /\ mus_playing = NoSong => state = "IDLE"
         /\ mus_playing # NoSong => NowAsked /\ NowLoops
<1>1. \A k \in 1 .. Len(mixevq) : mixevq[k].event = "MIX_DATA_REQ"
  BY DEF DoomSettled, GameInv, PlayerInv, MixerInv, MixerTypes
<1>2. ~EndsIn(mixevq, Len(mixevq), Quiet) /\ ~EndsIn(mixevq, Len(mixevq), {Asked})
  BY <1>1 DEF EndsIn, Quiet, Asked, Command, Play
<1>3. QED
  BY <1>2 DEF DoomSettled, GameInv, AskedInv, QuietEnd, QuietAfter, NowIdle

(* After the halts and play requests of a game, however the mixer task and *)
(* the reader came between them, it is the song asked for last that plays. *)
THEOREM SongAskedIsPlayed ==
  DoomSpec /\ [][DmaInterrupt \/ Doom => Len(mixevq) < MIX_EV_DEPTH]_songVars
    => []PlaysSongAsked
<1>1. GameInv /\ [DoomNext]_songVars
        /\ [DmaInterrupt \/ Doom => Len(mixevq) < MIX_EV_DEPTH]_songVars => GameInv'
  BY GameStep DEF EventsKept
<1>2. GameInv => PlaysSongAsked
  <2> SUFFICES ASSUME GameInv, DoomSettled, state # "IDLE"
               PROVE  pflac = mus_playing /\ pflac # NoSong
    BY DEF PlaysSongAsked
  <2>1. NowAsked /\ mus_playing # NoSong
    BY SettledIsAsked
  <2>2. QED
    BY <2>1 DEF NowAsked, DoomSettled
<1>3. QED
  BY <1>1, <1>2, GameStarts, PTL DEF DoomSpec

(* A level song plays on and on: with a card that does not fail and files  *)
(* of at least a frame, wherever the loop begins and ends.                 *)
THEOREM LevelSongPlaysOn ==
  ASSUME CardErrors = FALSE, NBlocks >= FRAME_BLOCKS
  PROVE  DoomSpec /\ [][DmaInterrupt \/ Doom => Len(mixevq) < MIX_EV_DEPTH]_songVars
           => []LoopNeverEnds
<1>1. GameInv /\ [DoomNext]_songVars
        /\ [DmaInterrupt \/ Doom => Len(mixevq) < MIX_EV_DEPTH]_songVars => GameInv'
  BY GameStep DEF EventsKept
<1>2. GameInv => LoopNeverEnds
  <2> SUFFICES ASSUME GameInv, DoomSettled, mus_playing # NoSong, mus_loops
               PROVE  state # "IDLE"
    BY DEF LoopNeverEnds
  <2>1. NowLoops /\ Playable
    BY SettledIsAsked DEF Playable
  <2>2. QED
    BY <2>1 DEF NowLoops, DoomSettled
<1>3. QED
  BY <1>1, <1>2, GameStarts, PTL DEF DoomSpec

(* "MIX_PLAY: Bad state" is not reached in a game: wherever the mixer task *)
(* comes between a halt and its play request, the player has gone idle.    *)
THEOREM PlayFromGameFindsIdle ==
  DoomSpec /\ [][DmaInterrupt \/ Doom => Len(mixevq) < MIX_EV_DEPTH]_songVars
    => []PlayFindsIdle
<1>1. GameInv /\ [DoomNext]_songVars
        /\ [DmaInterrupt \/ Doom => Len(mixevq) < MIX_EV_DEPTH]_songVars => GameInv'
  BY GameStep DEF EventsKept
<1>2. GameInv => PlayFindsIdle
  BY DEF GameInv, PlaysQuietly, PlayFindsIdle
<1>3. QED
  BY <1>1, <1>2, GameStarts, PTL DEF DoomSpec

-----------------------------------------------------------------------------
(***************************************************************************)
(* The queue of a short game has room for every event, so that the results *)
(* above need no hypothesis about it.  A change of song puts two events at *)
(* most, the first one only one.  The DMA puts a second request only while *)
(* the mixer task is busy with a song: by then it has taken an event of    *)
(* the game.                                                               *)
(***************************************************************************)
ToPut == IF next_song = NoPlay THEN 0 ELSE 1
Begun == mixpc = "stopwait" \/ pflac # NoSong \/ OpenRequests >= 2

RoomInv ==
  /\ changes \in 0 .. Changes
  /\ OpenRequests <= Late + 1
  /\ changes = 0 => mus_playing = NoSong /\ QueuedCalls + ToPut = 0
  /\ changes > 0 => QueuedCalls + ToPut <= 2 * changes - 1
  /\ Begun => QueuedCalls + ToPut <= 2 * changes - 2

LEMMA RoomTypes ==
  ASSUME PlayerInv
  PROVE  /\ QueuedCalls \in Nat /\ ToPut \in {0, 1} /\ OpenRequests \in Nat
         /\ Len(mixevq) \in Nat /\ Cardinality(RequestsIn(mixevq)) \in Nat
         /\ Len(mixevq) <= QueuedCalls + OpenRequests
<1>1. mixevq \in Seq(Events)
  BY DEF PlayerInv, MixerInv, MixerTypes
<1>2. /\ Len(mixevq) \in Nat /\ Cardinality(RequestsIn(mixevq)) \in Nat
      /\ OpenRequests = Cardinality(RequestsIn(mixevq)) + Refilling /\ Refilling \in {0, 1}
  BY <1>1, PhaseType, OpenRequestsAre
<1>3. QueuedCalls \in Nat
  BY <1>1, CommandsType DEF QueuedCalls
<1>4. QED
  BY <1>2, <1>3 DEF QueuedCalls, ToPut

LEMMA BlockedHasBegun ==
  ASSUME PlayerInv, MixerBlocked, OpenRequests # 0
  PROVE  Begun
<1>1. CASE mixpc = "get" /\ mixevq = <<>>
  <2>1. RequestsIn(mixevq) = {}
    BY <1>1 DEF RequestsIn
  <2>2. OpenRequests = 0
    BY <1>1, <2>1, OpenRequestsAre, FS_EmptySet DEF Refilling
  <2>3. QED
    BY <2>2
<1>2. CASE mpc = "wait"
  BY <1>2 DEF PlayerInv, MixerInv, CallsAgree, SongInv, Decoding, Begun
<1>3. QED
  BY <1>1, <1>2 DEF MixerBlocked, Begun

(* Where the bound leaves room.                                            *)
LEMMA RoomIs ==
  ASSUME PlayerInv, RoomInv, DmaInterrupt \/ Doom,
         MIX_EV_DEPTH >= 2 * Changes, MIX_EV_DEPTH >= 2 * Changes + Late - 1
  PROVE  Len(mixevq) < MIX_EV_DEPTH
<1>1. /\ QueuedCalls \in Nat /\ ToPut \in {0, 1} /\ OpenRequests \in Nat
      /\ Len(mixevq) \in Nat /\ Len(mixevq) <= QueuedCalls + OpenRequests
      /\ changes \in Nat /\ changes <= Changes /\ Changes \in Nat /\ Late \in Nat
      /\ MIX_EV_DEPTH \in Nat \ {0}
  BY RoomTypes, ChangesAssumption, MixAssumption DEF RoomInv
<1>2. /\ OpenRequests <= Late + 1
      /\ changes = 0 => QueuedCalls + ToPut = 0
      /\ changes > 0 => QueuedCalls + ToPut <= 2 * changes - 1
      /\ OpenRequests >= 2 => QueuedCalls + ToPut <= 2 * changes - 2
  BY DEF RoomInv, Begun
<1>3. CASE DmaInterrupt
  <2>1. CASE OpenRequests = 0
    <3>1. CASE changes = 0
      <4>1. QueuedCalls + ToPut = 0
        BY <1>2, <3>1
      <4>2. QueuedCalls = 0
        BY <1>1, <4>1
      <4>3. Len(mixevq) = 0
        BY <1>1, <2>1, <4>2
      <4>4. QED
        BY <1>1, <4>3
    <3>2. CASE changes > 0
      <4>1. QueuedCalls + ToPut <= 2 * changes - 1
        BY <1>2, <3>2
      <4>2. Len(mixevq) <= 2 * changes - 1
        BY <1>1, <2>1, <4>1
      <4>3. QED
        BY <1>1, <4>2
    <3>3. QED
      BY <1>1, <3>1, <3>2
  <2>2. CASE OpenRequests # 0
    <3>1. OpenRequests <= Late /\ MixerBlocked
      BY <1>3, <2>2 DEF DmaInterrupt
    <3>2. Begun
      BY <2>2, <3>1, BlockedHasBegun
    <3>3. QueuedCalls + ToPut <= 2 * changes - 2
      BY <3>2 DEF RoomInv
    <3>4. QED
      BY <1>1, <3>1, <3>3
  <2>3. QED
    BY <2>1, <2>2
<1>4. CASE Doom
  <2>1. CASE next_song = NoPlay
    <3>1. changes < Changes
      BY <1>4, <2>1 DEF Doom, ChangeMusic, PlaySong, StopMusic, Change
    <3>2. QED
      BY <1>1, <1>2, <3>1
  <2>2. CASE next_song # NoPlay
    <3>1. ToPut = 1
      BY <2>2 DEF ToPut
    <3>2. QED
      BY <1>1, <1>2, <3>1
  <2>3. QED
    BY <2>1, <2>2
<1>5. QED
  BY <1>3, <1>4

LEMMA Fewer ==
  ASSUME NEW n \in Nat, NEW m \in Nat, NEW p \in {0, 1}, NEW c \in Nat, NEW k \in {1, 2},
         m <= n, n + p <= 2 * c - k
  PROVE  m + p <= 2 * c - k
OBVIOUS

LEMMA TwoMore ==
  ASSUME NEW n \in Nat, NEW p \in {0, 1}, NEW c \in Nat, NEW k \in {1, 2},
         n + 0 <= 2 * c - k
  PROVE  (n + 1) + p <= 2 * (c + 1) - k
OBVIOUS

LEMMA MixerKeepsRoom ==
  ASSUME PlayerInv, PlayerInv', RoomInv, Mixer, UNCHANGED doomVars
  PROVE  RoomInv'
<1>1. mixevq \in Seq(Events) /\ mixevq' \in Seq(Events)
  BY DEF PlayerInv, MixerInv, MixerTypes
<1>2. /\ QueuedCalls \in Nat /\ ToPut \in {0, 1} /\ OpenRequests \in Nat
      /\ OpenRequests' \in Nat
      /\ changes \in Nat /\ Late \in Nat
  BY RoomTypes, MixerAnswers, <1>1, MixAssumption DEF RoomInv
<1>3. OpenRequests' <= OpenRequests
  BY <1>1, <1>2, MixerAnswers
<1>4. /\ UNCHANGED <<mus_playing, changes>> /\ ToPut' = ToPut
  BY DEF doomVars, ToPut
<1>5. /\ QueuedCalls' \in Nat /\ QueuedCalls' <= QueuedCalls
      /\ TakePlay => QueuedCalls' = QueuedCalls - 1
  <2>1. CASE mixevq' = mixevq
    <3>1. ~TakePlay
      BY <1>1, <2>1, TailIs DEF TakePlay, TakeEvent
    <3>2. QED
      BY <1>2, <2>1, <3>1 DEF QueuedCalls, RequestsIn
  <2>2. CASE mixevq # <<>> /\ mixevq' = Tail(mixevq)
    <3>1. /\ QueuedCalls \in Nat /\ QueuedCalls' \in Nat
          /\ QueuedCalls' = QueuedCalls - IF IsRequest(Head(mixevq)) THEN 0 ELSE 1
      BY <1>1, <2>2, CommandTaken
    <3>2. TakePlay => ~IsRequest(Head(mixevq))
      BY DEF TakePlay, TakeEvent, IsRequest
    <3>3. QED
      BY <3>1, <3>2
  <2>3. QED
    BY <2>1, <2>2, MixerTakes
<1>6. Begun' => Begun \/ TakePlay
  <2>1. mixpc' = "stopwait" => TakePlay
    BY MixerTakes
  <2>2. pflac' # NoSong => pflac # NoSong \/ mixpc = "stopwait"
    <3>1. CASE PlayOpen \/ PlayOpenFail
      BY <3>1 DEF PlayOpen, PlayOpenFail
    <3>2. CASE RequestPlay \/ RefillEnd
      BY <3>2, SeekKeepsSong DEF RequestPlay, RefillEnd, flacVars, decoderVars
    <3>3. CASE TakeHalt \/ HaltDone
      BY <3>3 DEF TakeHalt, HaltDone, CloseSend, CloseFile, flacVars, decoderVars
    <3>4. CASE TakePlay \/ RequestPending \/ RequestIdle \/ TakePause \/ TakeResume \/ FillDone
                 \/ RefillMix
      BY <3>4 DEF TakePlay, RequestPending, RequestIdle, TakePause, TakeResume, FillDone,
                  RefillMix, flacVars, decoderVars
    <3>5. CASE DecodeRead \/ DecodeEnd \/ DecodeAcquire \/ DecodeBlock \/ DecodeHalf
      BY <3>5 DEF DecodeRead, DecodeEnd, DecodeAcquire, DecodeBlock, DecodeHalf, OnRead,
                  OnReadEnd, OnReadAcquire, OnReadCopy, flacVars, decoderVars
    <3>6. QED
      BY <3>1, <3>2, <3>3, <3>4, <3>5 DEF Mixer
  <2>3. OpenRequests' >= 2 => OpenRequests >= 2
    BY <1>2, <1>3
  <2>4. Begun' <=> mixpc' = "stopwait" \/ pflac' # NoSong \/ OpenRequests' >= 2
    BY DEF Begun
  <2>5. QED
    BY <2>1, <2>2, <2>3, <2>4 DEF Begun
<1>7. /\ changes \in 0 .. Changes /\ OpenRequests <= Late + 1
      /\ changes = 0 => mus_playing = NoSong /\ QueuedCalls + ToPut = 0
      /\ changes > 0 => QueuedCalls + ToPut <= 2 * changes - 1
      /\ Begun => QueuedCalls + ToPut <= 2 * changes - 2
  BY DEF RoomInv
<1>8. OpenRequests' <= Late + 1
  BY <1>2, <1>3, <1>7
<1>9. /\ changes = 0 => QueuedCalls' + ToPut' = 0
      /\ changes > 0 => QueuedCalls' + ToPut' <= 2 * changes - 1
      /\ Begun \/ TakePlay => QueuedCalls' + ToPut' <= 2 * changes - 2
  <2>1. CASE changes = 0
    <3>1. QueuedCalls = 0 /\ ToPut = 0 /\ ~Begun
      BY <1>2, <1>7, <2>1
    <3>2. QueuedCalls' = 0 /\ ~TakePlay
      BY <1>2, <1>5, <3>1
    <3>3. QED
      BY <1>4, <2>1, <3>1, <3>2
  <2>2. CASE changes > 0
    <3>1. QueuedCalls + ToPut <= 2 * changes - 1
      BY <1>7, <2>2
    <3>2. QueuedCalls' + ToPut' <= 2 * changes - 1
      BY <1>2, <1>4, <1>5, <3>1, Fewer
    <3>3. ASSUME TakePlay PROVE QueuedCalls' + ToPut' <= 2 * changes - 2
      BY <1>2, <1>4, <1>5, <3>1, <3>3
    <3>4. ASSUME Begun PROVE QueuedCalls' + ToPut' <= 2 * changes - 2
      <4>1. QueuedCalls + ToPut <= 2 * changes - 2
        BY <1>7, <3>4
      <4>2. QED
        BY <1>2, <1>4, <1>5, <4>1, Fewer
    <3>5. QED
      BY <2>2, <3>2, <3>3, <3>4
  <2>3. QED
    BY <1>2, <2>1, <2>2
<1>10. QED
  BY <1>4, <1>6, <1>7, <1>8, <1>9 DEF RoomInv

LEMMA RequestKeepsRoom ==
  ASSUME PlayerInv, RoomInv, DmaInterrupt, Len(mixevq) < MIX_EV_DEPTH, UNCHANGED doomVars
  PROVE  RoomInv'
<1>1. /\ mixevq \in Seq(Events) /\ DataReq(dma) \in Events /\ IsRequest(DataReq(dma))
      /\ mixevq' = PutEv(mixevq, DataReq(dma)) /\ mixevq' = Append(mixevq, DataReq(dma))
      /\ UNCHANGED <<mixpc, pflac, mus_playing, changes, next_song>>
  BY DEF PlayerInv, MixerInv, MixerTypes, Events, IsRequest, DataReq, DmaInterrupt, PutEv,
         doomVars, flacVars, decoderVars
<1>2. /\ QueuedCalls \in Nat /\ OpenRequests \in Nat /\ Late \in Nat /\ changes \in Nat
      /\ OpenRequests' = OpenRequests + 1
  <2>1. OpenRequests' = OpenRequests + 1
    BY <1>1, PutCounts
  <2>2. QED
    BY <2>1, RoomTypes, MixAssumption DEF RoomInv
<1>3. QueuedCalls' = QueuedCalls
  BY <1>1, <1>2, CommandPut
<1>4. ToPut' = ToPut
  BY <1>1 DEF ToPut
<1>5. OpenRequests' <= Late + 1
  BY <1>2, MixAssumption DEF DmaInterrupt
<1>6. Begun' => Begun
  <2>1. CASE OpenRequests = 0
    BY <1>1, <1>2, <2>1 DEF Begun
  <2>2. CASE OpenRequests # 0
    BY <2>2, BlockedHasBegun DEF DmaInterrupt
  <2>3. QED
    BY <2>1, <2>2
<1>7. QED
  BY <1>1, <1>3, <1>4, <1>5, <1>6 DEF RoomInv

LEMMA DoomKeepsRoom ==
  ASSUME PlayerInv, RoomInv, Doom, Len(mixevq) < MIX_EV_DEPTH
  PROVE  RoomInv'
<1>1. /\ QueuedCalls \in Nat /\ ToPut \in {0, 1} /\ OpenRequests \in Nat
      /\ changes \in Nat /\ changes <= Changes /\ Changes \in Nat
      /\ OpenRequests <= Late + 1
      /\ changes = 0 => mus_playing = NoSong /\ QueuedCalls + ToPut = 0
      /\ changes > 0 => QueuedCalls + ToPut <= 2 * changes - 1
      /\ Begun => QueuedCalls + ToPut <= 2 * changes - 2
  BY RoomTypes, ChangesAssumption DEF RoomInv
<1>2. ASSUME NEW ev \in Events, Post(ev), ~IsRequest(ev)
      PROVE  QueuedCalls' = QueuedCalls + 1 /\ OpenRequests' = OpenRequests /\ (Begun' <=> Begun)
  <2>1. /\ mixevq \in Seq(Events) /\ mixevq' = PutEv(mixevq, ev) /\ mixevq' = Append(mixevq, ev)
        /\ UNCHANGED <<mixpc, pflac>>
    BY <1>2 DEF PlayerInv, MixerInv, MixerTypes, Post, PutEv, flacVars, decoderVars
  <2>2. OpenRequests' = OpenRequests
    BY <1>2, <2>1, PutCounts
  <2>3. QueuedCalls' = QueuedCalls + 1
    BY <1>1, <1>2, <2>1, CommandPut
  <2>4. QED
    BY <2>1, <2>2, <2>3 DEF Begun
<1>3. /\ Command("MIX_HALT") \in Events /\ ~IsRequest(Command("MIX_HALT"))
      /\ NoPlay \notin Plays
      /\ \A ev \in Plays : ev \in Events /\ ~IsRequest(ev)
  <2>1. \A ev \in Plays : ev.event = "MIX_PLAY"
    BY DEF Plays, Play
  <2>2. Command("MIX_HALT").event = "MIX_HALT" /\ NoPlay.event = "none"
    BY DEF Command, NoPlay
  <2>3. QED
    BY <2>1, <2>2 DEF Events, IsRequest
<1>4. ASSUME Change
      PROVE  changes' = changes + 1 /\ changes' \in 0 .. Changes /\ ToPut = 0
  BY <1>1, <1>4 DEF Change, ToPut
<1>5. ASSUME NEW s \in Songs, NEW looping \in BOOLEAN, ChangeMusic(s, looping)
      PROVE  RoomInv'
  <2> DEFINE p == Play(s, IF looping THEN -1 ELSE 1)
  <2>1. p \in Plays /\ p # NoPlay /\ changes' = changes + 1 /\ changes' \in 0 .. Changes
        /\ ToPut = 0 /\ next_song = NoPlay
    BY <1>3, <1>4, <1>5 DEF ChangeMusic, Change, Plays
  <2>2. CASE mus_playing = NoSong
    <3>1. Post(p) /\ next_song' = next_song
      BY <1>5, <2>2 DEF ChangeMusic
    <3>2. ToPut' = 0
      BY <2>1, <3>1 DEF ToPut
    <3>3. QueuedCalls' = QueuedCalls + 1 /\ OpenRequests' = OpenRequests /\ (Begun' <=> Begun)
      BY <1>2, <1>3, <2>1, <3>1
    <3>4. QED
      BY <1>1, <2>1, <3>2, <3>3 DEF RoomInv
  <2>3. CASE mus_playing # NoSong
    <3>1. Post(Command("MIX_HALT"))
      BY <1>5, <2>3 DEF ChangeMusic
    <3>2. ToPut' \in {0, 1}
      BY DEF ToPut
    <3>3. QueuedCalls' = QueuedCalls + 1 /\ OpenRequests' = OpenRequests /\ (Begun' <=> Begun)
      BY <1>2, <1>3, <3>1
    <3>4. changes > 0
      BY <1>1, <2>3
    <3>5. QueuedCalls + ToPut <= 2 * changes - 1
      BY <1>1, <3>4
    <3>6. QueuedCalls' + ToPut' <= 2 * (changes + 1) - 1
      BY <1>1, <2>1, <3>2, <3>3, <3>5, TwoMore
    <3>7. ASSUME Begun PROVE QueuedCalls' + ToPut' <= 2 * (changes + 1) - 2
      <4>1. QueuedCalls + ToPut <= 2 * changes - 2
        BY <1>1, <3>7
      <4>2. QED
        BY <1>1, <2>1, <3>2, <3>3, <4>1, TwoMore
    <3>8. OpenRequests' <= Late + 1 /\ changes' > 0
      BY <1>1, <2>1, <3>3
    <3>9. QED
      BY <2>1, <3>3, <3>6, <3>7, <3>8 DEF RoomInv
  <2>4. QED
    BY <2>2, <2>3
<1>6. CASE PlaySong
  <2>1. /\ next_song # NoPlay /\ next_song \in Plays /\ Post(next_song) /\ next_song' = NoPlay
        /\ UNCHANGED <<mus_playing, changes>>
    BY <1>6 DEF PlaySong, PlayerInv
  <2>2. ToPut = 1 /\ ToPut' = 0
    BY <2>1 DEF ToPut
  <2>3. QueuedCalls' = QueuedCalls + 1 /\ OpenRequests' = OpenRequests /\ (Begun' <=> Begun)
    BY <1>2, <1>3, <2>1
  <2>4. QED
    BY <1>1, <2>1, <2>2, <2>3 DEF RoomInv
<1>7. CASE StopMusic
  <2>1. Change /\ Post(Command("MIX_HALT")) /\ next_song' = next_song /\ mus_playing # NoSong
    BY <1>7 DEF StopMusic
  <2>2. changes' = changes + 1 /\ changes' \in 0 .. Changes /\ ToPut = 0 /\ changes > 0
    BY <1>1, <1>4, <2>1
  <2>3. ToPut' = ToPut
    BY <2>1 DEF ToPut
  <2>4. QueuedCalls' = QueuedCalls + 1 /\ OpenRequests' = OpenRequests /\ (Begun' <=> Begun)
    BY <1>2, <1>3, <2>1
  <2>5. QED
    BY <1>1, <2>2, <2>3, <2>4 DEF RoomInv
<1>8. QED
  BY <1>5, <1>6, <1>7 DEF Doom

LEMMA RoomStep ==
  ASSUME MIX_EV_DEPTH >= 2 * Changes, MIX_EV_DEPTH >= 2 * Changes + Late - 1
  PROVE  PlayerInv /\ RoomInv /\ [DoomNext]_songVars => RoomInv' /\ [EventsKept]_songVars
<1> SUFFICES ASSUME PlayerInv, RoomInv, [DoomNext]_songVars
             PROVE  RoomInv' /\ EventsKept
  OBVIOUS
<1>1. EventsKept
  BY RoomIs DEF EventsKept
<1>2. CASE Mixer /\ UNCHANGED doomVars
  BY <1>1, <1>2, PlayerStep, MixerKeepsRoom
<1>3. CASE (ReaderStep /\ UNCHANGED doomVars) \/ UNCHANGED songVars
  <2>1. UNCHANGED <<mixevq, mixpc, pflac, mus_playing, changes, next_song>>
    <3>1. CASE ReaderStep /\ UNCHANGED doomVars
      <4>1. pflac' = pflac
        BY <3>1 DEF ReaderStep, Reader, ReaderStart, ReaderTake, ReaderFill, ReaderError,
                    ReaderMore, ReaderStop, decoderVars
      <4>2. QED
        BY <3>1, <4>1 DEF ReaderStep, mixVars, doomVars
    <3>2. CASE UNCHANGED songVars
      BY <3>2 DEF songVars, mixVars, doomVars, flacVars, decoderVars
    <3>3. QED
      BY <1>3, <3>1, <3>2
  <2>2. QueuedCalls' = QueuedCalls /\ ToPut' = ToPut /\ OpenRequests' = OpenRequests
    BY <2>1 DEF QueuedCalls, RequestsIn, ToPut, OpenRequests
  <2>3. QED
    BY <1>1, <2>1, <2>2 DEF RoomInv, Begun
<1>4. CASE DmaInterrupt /\ UNCHANGED doomVars
  BY <1>1, <1>4, RequestKeepsRoom DEF EventsKept
<1>5. CASE Doom
  BY <1>1, <1>5, DoomKeepsRoom DEF EventsKept
<1>6. QED
  BY <1>1, <1>2, <1>3, <1>4, <1>5 DEF DoomNext

LEMMA RoomStarts == DoomInit => RoomInv
<1> SUFFICES ASSUME DoomInit PROVE RoomInv
  OBVIOUS
<1>1. RequestsIn(mixevq) = {} /\ Len(mixevq) = 0
  BY DEF DoomInit, MixInit, RequestsIn
<1>2. OpenRequests = 0 /\ QueuedCalls = 0 /\ ToPut = 0
  BY <1>1, OpenRequestsAre, FS_EmptySet DEF DoomInit, MixInit, Refilling, QueuedCalls, ToPut
<1>3. ~Begun
  BY <1>2 DEF Begun, DoomInit, MixInit, Init
<1>4. QED
  BY <1>2, <1>3, ChangesAssumption, MixAssumption DEF RoomInv, DoomInit

(* No event is dropped in a game of few changes.                           *)
THEOREM ShortGameDropsNothing ==
  ASSUME MIX_EV_DEPTH >= 2 * Changes, MIX_EV_DEPTH >= 2 * Changes + Late - 1
  PROVE  DoomSpec => [][DmaInterrupt \/ Doom => Len(mixevq) < MIX_EV_DEPTH]_songVars
<1>1. PlayerInv /\ RoomInv /\ [DoomNext]_songVars
        => /\ PlayerInv' /\ RoomInv'
           /\ [DmaInterrupt \/ Doom => Len(mixevq) < MIX_EV_DEPTH]_songVars
  BY PlayerStep, RoomStep DEF EventsKept
<1>2. QED
  BY <1>1, PlayerInit, RoomStarts, PTL DEF DoomSpec

(* So it keeps in phase with the DMA, finds the player idle and plays the  *)
(* song it asked for last ...                                              *)
THEOREM ShortGameIsServed ==
  ASSUME MIX_EV_DEPTH >= 2 * Changes, MIX_EV_DEPTH >= 2 * Changes + Late - 1
  PROVE  DoomSpec => [](InPhase /\ PlayFindsIdle /\ PlaysSongAsked)
<1>1. DoomSpec => [][DmaInterrupt \/ Doom => Len(mixevq) < MIX_EV_DEPTH]_songVars
  BY ShortGameDropsNothing
<1>2. [DmaInterrupt \/ Doom => Len(mixevq) < MIX_EV_DEPTH]_songVars
        => [DmaInterrupt => Len(mixevq) < MIX_EV_DEPTH]_songVars
  OBVIOUS
<1>3. DoomSpec /\ [][DmaInterrupt => Len(mixevq) < MIX_EV_DEPTH]_songVars => []InPhase
  BY OutputInPhase
<1>4. DoomSpec /\ [][DmaInterrupt \/ Doom => Len(mixevq) < MIX_EV_DEPTH]_songVars
        => []PlayFindsIdle
  BY PlayFromGameFindsIdle
<1>5. DoomSpec /\ [][DmaInterrupt \/ Doom => Len(mixevq) < MIX_EV_DEPTH]_songVars
        => []PlaysSongAsked
  BY SongAskedIsPlayed
<1>6. QED
  BY <1>1, <1>2, <1>3, <1>4, <1>5, PTL

(* ... for ever if that is a level song.                                   *)
THEOREM ShortGamePlaysOn ==
  ASSUME MIX_EV_DEPTH >= 2 * Changes, MIX_EV_DEPTH >= 2 * Changes + Late - 1,
         CardErrors = FALSE, NBlocks >= FRAME_BLOCKS
  PROVE  DoomSpec => []LoopNeverEnds
<1>1. DoomSpec => [][DmaInterrupt \/ Doom => Len(mixevq) < MIX_EV_DEPTH]_songVars
  BY ShortGameDropsNothing
<1>2. DoomSpec /\ [][DmaInterrupt \/ Doom => Len(mixevq) < MIX_EV_DEPTH]_songVars
        => []LoopNeverEnds
  BY LevelSongPlaysOn
<1>3. QED
  BY <1>1, <1>2, PTL

-----------------------------------------------------------------------------
(***************************************************************************)
(* The button of the music screen.  While it shows a stopped player, or a  *)
(* MIX_PLAY is still to be put, the queue ends quietly.  While it shows a  *)
(* playing one the last event of the screen is a song or a resume, or the  *)
(* mixer task is busy with it, or the screen is told or has been told that *)
(* the song is over.                                                       *)
(***************************************************************************)
Busy == {Command("MIX_RESUME")} \cup {Play(s, 0) : s \in Songs}
NowBusy ==
  \/ mixpc \in {"stopwait", "fill"}
  \/ mixpc \in {"get", "refill"} /\ state # "IDLE"

StoppedIsQuiet ==
  /\ ~playing \/ pending => QuietEnd
  /\ pending => playing
  /\ ~playing => mstate # "PLAYING"

PlayingIsBusy ==
  Playable /\ playing /\ ~pending =>
    \/ EndsIn(mixevq, Len(mixevq), Busy)
    \/ OnlyRequests(mixevq, Len(mixevq)) /\ (NowBusy \/ finish \/ timer)

ScreenInv == GuiInv /\ PlaysQuietly /\ StoppedIsQuiet /\ PlayingIsBusy

(* The mixer task stays busy, or tells the screen that it no longer is.    *)
LEMMA MixerStaysBusy ==
  ASSUME GuiInv, Playable, MixerStep, NowBusy, ~TakePause, ~TakeHalt
  PROVE  NowBusy' \/ finish'
<1>1. CASE TakePlay \/ TakeResume
  BY <1>1 DEF TakePlay, TakeResume, TakeEvent, NowBusy
<1>2. CASE PlayOpen \/ HaltDone
  BY <1>2 DEF PlayOpen, HaltDone, NowBusy
<1>3. CASE PlayOpenFail
  BY <1>3 DEF PlayOpenFail, OpenFail, Playable
<1>4. CASE RequestPending \/ RequestIdle \/ RequestPlay
  BY <1>4 DEF RequestPending, RequestIdle, RequestPlay, TakeEvent, NowBusy
<1>5. CASE DecodeRead \/ DecodeEnd \/ DecodeAcquire \/ DecodeBlock \/ DecodeHalf
  BY <1>5 DEF DecodeRead, DecodeEnd, DecodeAcquire, DecodeBlock, DecodeHalf, UnchangedMix, NowBusy
<1>6. CASE FillDone
  <2>1. mixpc = "fill" /\ ~Decoding /\ num_read \in Nat /\ ContentsInOrder
    BY <1>6 DEF FillDone, GuiInv, GuiTypes
  <2>2. pflac # NoSong /\ num_read = Position /\ (eof => Over)
    BY <2>1 DEF GuiInv, OnwardInv, FillInv
  <2>3. Session
    BY <2>1, <2>2 DEF GuiInv, CallsAgree, Session
  <2>4. num_read > 0
    BY <2>1, <2>2, <2>3, FillHasMusic DEF Playable
  <2>5. QED
    BY <1>6, <2>4 DEF FillDone, NowBusy
<1>7. CASE RefillMix
  BY <1>7 DEF RefillMix, NowBusy
<1>8. CASE RefillEnd
  BY <1>8 DEF MixerStep, GuiInv, GuiTypes
<1>9. QED
  BY <1>1, <1>2, <1>3, <1>4, <1>5, <1>6, <1>7, <1>8 DEF MixerStep, Mixer

(* The event of a song or of a resume makes the mixer task busy.           *)
LEMMA BusyTaken ==
  ASSUME Mixer, mixevq # <<>>, mixevq' = Tail(mixevq), mixevq' # mixevq, Head(mixevq) \in Busy
  PROVE  NowBusy'
<1>1. Head(mixevq).event \in {"MIX_PLAY", "MIX_RESUME"}
  BY DEF Busy, Play, Command
<1>2. TakePlay \/ TakeResume
  BY <1>1
     DEF Mixer, PlayOpen, PlayOpenFail, RequestPending, RequestIdle, RequestPlay, TakePause,
         TakeHalt, HaltDone, DecodeRead, DecodeEnd, DecodeAcquire, DecodeBlock, DecodeHalf,
         FillDone, RefillMix, RefillEnd, UnchangedMix, TakeEvent
<1>3. QED
  BY <1>2 DEF TakePlay, TakeResume, TakeEvent, NowBusy

LEMMA MixerKeepsScreen ==
  ASSUME ScreenInv, MixerStep
  PROVE  PlaysQuietly' /\ StoppedIsQuiet' /\ PlayingIsBusy'
<1>1. /\ Mixer /\ UNCHANGED <<playing, mstate, pending, timer>> /\ (finish => finish')
      /\ GuiInv /\ PlaysQuietly /\ mixevq \in Seq(GuiEvents)
  BY DEF MixerStep, ScreenInv, GuiInv, GuiTypes
<1>2. PlaysQuietly' /\ (QuietEnd => QuietEnd')
  BY <1>1, MixerKeepsQuiet
<1>3. StoppedIsQuiet'
  BY <1>1, <1>2 DEF ScreenInv, StoppedIsQuiet
<1>4. ASSUME Playable, playing, ~pending
      PROVE  \/ EndsIn(mixevq', Len(mixevq'), Busy)
             \/ OnlyRequests(mixevq', Len(mixevq')) /\ (NowBusy' \/ finish' \/ timer')
  <2>1. CASE mixevq' = mixevq
    <3>1. CASE EndsIn(mixevq, Len(mixevq), Busy)
      BY <2>1, <3>1
    <3>2. CASE OnlyRequests(mixevq, Len(mixevq)) /\ (NowBusy \/ finish \/ timer)
      <4>1. ~TakePause /\ ~TakeHalt
        BY <1>1, <2>1, TailIs DEF TakePause, TakeHalt, TakeEvent
      <4>2. NowBusy' \/ finish' \/ timer'
        BY <1>1, <1>4, <3>2, <4>1, MixerStaysBusy
      <4>3. QED
        BY <2>1, <3>2, <4>2
    <3>3. QED
      BY <1>4, <3>1, <3>2 DEF ScreenInv, PlayingIsBusy
  <2>2. CASE mixevq # <<>> /\ mixevq' = Tail(mixevq)
    <3> DEFINE n == Len(mixevq) - 1
    <3>1. n \in 0 .. Len(mixevq) - 1 /\ n + 1 = Len(mixevq) /\ Len(mixevq') = n
          /\ mixevq' # mixevq
      BY <1>1, <2>2, TailIs
    <3>2. /\ OnlyRequests(mixevq, n + 1) => IsRequest(Head(mixevq)) /\ OnlyRequests(mixevq', n)
          /\ EndsIn(mixevq, n + 1, Busy) =>
               EndsIn(mixevq', n, Busy) \/ (Head(mixevq) \in Busy /\ OnlyRequests(mixevq', n))
      BY <1>1, <2>2, <3>1, TailEnds
    <3> HIDE DEF n
    <3>3. CASE OnlyRequests(mixevq, n + 1) /\ (NowBusy \/ finish \/ timer)
      <4>1. ~TakePause /\ ~TakeHalt
        BY <3>2, <3>3 DEF TakePause, TakeHalt, TakeEvent, IsRequest
      <4>2. NowBusy' \/ finish' \/ timer'
        BY <1>1, <1>4, <3>3, <4>1, MixerStaysBusy
      <4>3. QED
        BY <3>1, <3>2, <3>3, <4>2
    <3>4. CASE Head(mixevq) \in Busy /\ OnlyRequests(mixevq', n)
      <4>1. NowBusy'
        BY <1>1, <2>2, <3>1, <3>4, BusyTaken
      <4>2. QED
        BY <3>1, <3>4, <4>1
    <3>5. QED
      BY <1>4, <3>1, <3>2, <3>3, <3>4 DEF ScreenInv, PlayingIsBusy
  <2>3. QED
    BY <1>1, <2>1, <2>2, MixerTakes
<1>5. PlayingIsBusy'
  <2>1. /\ playing' = playing /\ pending' = pending /\ (Playable' <=> Playable)
    BY <1>1 DEF Playable
  <2>2. QED
    BY <1>4, <2>1 DEF PlayingIsBusy
<1>6. QED
  BY <1>2, <1>3, <1>5

(* The steps of the others leave the mixer task as busy as it was.         *)
LEMMA StillBusy ==
  ASSUME UNCHANGED <<mixpc, state>>
  PROVE  (NowBusy' <=> NowBusy) /\ (Playable' <=> Playable)
BY DEF NowBusy, Playable

LEMMA RequestKeepsScreen ==
  ASSUME ScreenInv, DmaInterrupt, Len(mixevq) < MIX_EV_DEPTH, UNCHANGED guiVars
  PROVE  PlaysQuietly' /\ StoppedIsQuiet' /\ PlayingIsBusy'
<1>1. /\ mixevq \in Seq(GuiEvents) /\ DataReq(dma) \in GuiEvents /\ IsRequest(DataReq(dma))
      /\ DataReq(dma).event # "MIX_PLAY" /\ PlaysQuietly
  BY DEF ScreenInv, GuiInv, GuiTypes, GuiEvents, IsRequest, DataReq
<1>2. /\ mixevq' = PutEv(mixevq, DataReq(dma)) /\ mixevq' = Append(mixevq, DataReq(dma))
      /\ UNCHANGED <<mixpc, state, playing, mstate, pending, finish, timer>>
  BY DEF DmaInterrupt, PutEv, guiVars
<1>3. PlaysQuietly' /\ (QuietEnd => QuietEnd')
  BY <1>1, <1>2, PutKeepsQuiet
<1>4. (NowBusy' <=> NowBusy) /\ (Playable' <=> Playable)
  BY <1>2, StillBusy
<1>5. /\ OnlyRequests(mixevq, Len(mixevq)) => OnlyRequests(mixevq', Len(mixevq'))
      /\ EndsIn(mixevq, Len(mixevq), Busy) => EndsIn(mixevq', Len(mixevq'), Busy)
  <2>1. Len(mixevq') = Len(mixevq) + 1
    BY <1>1, <1>2, AppendIs
  <2>2. QED
    BY <1>1, <1>2, <2>1, AppendEnds
<1>6. StoppedIsQuiet'
  BY <1>2, <1>3 DEF ScreenInv, StoppedIsQuiet
<1>7. PlayingIsBusy'
  BY <1>2, <1>4, <1>5 DEF ScreenInv, PlayingIsBusy
<1>8. QED
  BY <1>3, <1>6, <1>7

(* What the screen does: it quiets the player, plays or resumes a song, or *)
(* takes note that one is over.                                            *)
Quiets ==
  /\ \E ev \in Quiet : Post(ev)
  /\ ~playing' \/ pending'
  /\ pending' => playing'
  /\ ~playing' => mstate' # "PLAYING"

Plays0 ==
  /\ \E ev \in Busy : Post(ev) /\ (ev.event = "MIX_PLAY" => ~playing \/ pending)
  /\ playing' /\ ~pending'

TakesNote ==
  /\ UNCHANGED <<flacVars, mixVars, playing, mstate, pending>>
  /\ finish \/ timer => finish' \/ timer'

Puts ==
  \/ DmaInterrupt \/ User \/ PutPlay
  \/ \E id \in Songs : InterPause(id)

LEMMA ScreenActs ==
  ASSUME ScreenTypes, StoppedIsQuiet, User \/ Gui
  PROVE  (Puts /\ (Quiets \/ Plays0)) \/ TakesNote
<1>1. /\ Command("MIX_HALT") \in Quiet /\ Command("MIX_PAUSE") \in Quiet
      /\ Command("MIX_RESUME") \in Busy /\ \A s \in Songs : Play(s, 0) \in Busy
      /\ Command("MIX_RESUME").event # "MIX_PLAY"
  BY DEF Quiet, Busy, Command
<1>2. /\ pending => playing
      /\ ~playing => mstate # "PLAYING"
      /\ track \in Songs /\ mstate \in {"LOADED", "PLAYING", "PAUSED"}
  BY DEF StoppedIsQuiet, ScreenTypes
<1>3. ASSUME NEW id \in Songs, MusicPlay(id), ~pending
      PROVE  Quiets \/ Plays0
  BY <1>1, <1>3 DEF MusicPlay, Quiets, Plays0
<1>4. ASSUME NEW id \in Songs, AlbumNext(id), ~pending
      PROVE  Quiets \/ Plays0
  <2>1. CASE playing
    BY <1>3, <1>4, <2>1 DEF AlbumNext
  <2>2. CASE ~playing
    <3>1. /\ Post(Command("MIX_HALT")) /\ playing' = playing /\ pending' = pending
          /\ mstate' \in {mstate, "LOADED"}
      BY <1>4, <2>2 DEF AlbumNext, TrackLoad
    <3>2. QED
      BY <1>1, <1>2, <1>4, <2>2, <3>1 DEF Quiets
  <2>3. QED
    BY <2>1, <2>2
<1>5. ASSUME NEW id \in Songs, ListClick(id) \/ NextClick(id)
      PROVE  Puts /\ (Quiets \/ Plays0)
  BY <1>3, <1>4, <1>5 DEF ListClick, NextClick, Click, Puts, User
<1>6. ASSUME NEW id \in Songs, InterPause(id)
      PROVE  Puts /\ (Quiets \/ Plays0)
  BY <1>4, <1>6 DEF InterPause, Puts
<1>7. CASE ResumeClick
  <2>1. ~playing /\ ~pending /\ playing' /\ ~pending' /\ Puts
    BY <1>7 DEF ResumeClick, Click, Puts, User
  <2>2. ResumeEvent(mstate) \in {Play(track, 0), Command("MIX_RESUME")}
    BY <1>2, <2>1 DEF ResumeEvent
  <2>3. ResumeEvent(mstate) # Nothing
    BY <2>2 DEF Nothing, Play, Command
  <2>4. Post(ResumeEvent(mstate))
    BY <1>7, <2>3 DEF ResumeClick
  <2>5. QED
    BY <1>1, <1>2, <2>1, <2>2, <2>4 DEF Plays0
<1>8. CASE PauseClick
  <2>1. Post(Command("MIX_PAUSE")) /\ ~playing' /\ ~pending' /\ mstate' = "PAUSED" /\ Puts
    BY <1>8 DEF PauseClick, Click, Puts, User
  <2>2. QED
    BY <1>1, <2>1 DEF Quiets
<1>9. CASE PutPlay
  <2>1. /\ Post(Play(track, 0)) /\ pending /\ ~pending' /\ playing' = playing
        /\ Puts
    BY <1>9 DEF PutPlay, Puts
  <2>2. QED
    BY <1>1, <1>2, <2>1 DEF Plays0
<1>10. CASE FinishEvent
  BY <1>10 DEF FinishEvent, TakesNote
<1>11. QED
  BY <1>5, <1>6, <1>7, <1>8, <1>9, <1>10 DEF User, Gui

LEMMA ScreenKeepsScreen ==
  ASSUME ScreenInv, User \/ Gui, Puts => Len(mixevq) < MIX_EV_DEPTH
  PROVE  PlaysQuietly' /\ StoppedIsQuiet' /\ PlayingIsBusy'
<1>1. /\ mixevq \in Seq(GuiEvents) /\ PlaysQuietly /\ StoppedIsQuiet /\ ScreenTypes
      /\ Quiet \subseteq GuiEvents /\ Busy \subseteq GuiEvents
      /\ \A ev \in Quiet : ev.event # "MIX_PLAY"
  BY DEF ScreenInv, GuiInv, GuiTypes, GuiEvents, Quiet, Busy, Command
<1>2. CASE Quiets /\ Len(mixevq) < MIX_EV_DEPTH
  <2>1. PICK ev \in Quiet : Post(ev)
    BY <1>2 DEF Quiets
  <2>2. PlaysQuietly' /\ QuietEnd'
    BY <1>1, <1>2, <2>1, PutKeepsQuiet DEF Post
  <2>3. QED
    BY <1>2, <2>2 DEF Quiets, StoppedIsQuiet, PlayingIsBusy
<1>3. CASE Plays0 /\ Len(mixevq) < MIX_EV_DEPTH
  <2>1. PICK ev \in Busy : Post(ev) /\ (ev.event = "MIX_PLAY" => ~playing \/ pending)
    BY <1>3 DEF Plays0
  <2>2. ev.event = "MIX_PLAY" => QuietEnd
    BY <1>1, <2>1 DEF StoppedIsQuiet
  <2>3. PlaysQuietly'
    BY <1>1, <1>3, <2>1, <2>2, PutKeepsQuiet DEF Post
  <2>4. EndsIn(mixevq', Len(mixevq'), Busy)
    <3>1. ev \in GuiEvents /\ mixevq' = Append(mixevq, ev)
      BY <1>1, <1>3, <2>1 DEF Post, PutEv
    <3>2. Len(mixevq') = Len(mixevq) + 1
      BY <1>1, <3>1, AppendIs
    <3>3. QED
      BY <1>1, <3>1, <3>2, AppendEnds
  <2>5. QED
    BY <1>3, <2>3, <2>4 DEF Plays0, StoppedIsQuiet, PlayingIsBusy
<1>4. CASE TakesNote
  <2>1. UNCHANGED <<mixevq, mixpc, state, playing, mstate, pending>>
    BY <1>4 DEF TakesNote, mixVars
  <2>2. PlaysQuietly' /\ (QuietEnd' <=> QuietEnd)
    BY <1>1, <2>1, StillQuiet
  <2>3. (NowBusy' <=> NowBusy) /\ (Playable' <=> Playable)
    BY <2>1, StillBusy
  <2>4. StoppedIsQuiet'
    BY <1>1, <2>1, <2>2 DEF StoppedIsQuiet
  <2>5. PlayingIsBusy'
    BY <1>4, <2>1, <2>3 DEF TakesNote, ScreenInv, PlayingIsBusy
  <2>6. QED
    BY <2>2, <2>4, <2>5
<1>5. QED
  BY <1>1, <1>2, <1>3, <1>4, ScreenActs

PutsKept == Puts => Len(mixevq) < MIX_EV_DEPTH

LEMMA ScreenStep == ScreenInv /\ [GuiNext]_vars /\ [PutsKept]_vars => ScreenInv'
<1> SUFFICES ASSUME ScreenInv, [GuiNext]_vars, [PutsKept]_vars PROVE ScreenInv'
  OBVIOUS
<1>1. GuiInv'
  BY GuiStepKeeps DEF ScreenInv
<1>2. CASE MixerStep
  BY <1>1, <1>2, MixerKeepsScreen DEF ScreenInv
<1>3. CASE (ReaderStep /\ UNCHANGED guiVars) \/ UNCHANGED vars
  <2>1. UNCHANGED <<mixevq, mixpc, state, playing, mstate, pending, finish, timer>>
    BY <1>3 DEF ReaderStep, vars, mixVars, guiVars
  <2>2. PlaysQuietly' /\ (QuietEnd' <=> QuietEnd)
    BY <2>1, StillQuiet DEF ScreenInv
  <2>3. (NowBusy' <=> NowBusy) /\ (Playable' <=> Playable)
    BY <2>1, StillBusy
  <2>4. StoppedIsQuiet' /\ PlayingIsBusy'
    BY <2>1, <2>2, <2>3 DEF ScreenInv, StoppedIsQuiet, PlayingIsBusy
  <2>5. QED
    BY <1>1, <2>2, <2>4 DEF ScreenInv
<1>4. CASE DmaInterrupt /\ UNCHANGED guiVars /\ ~UNCHANGED vars
  BY <1>1, <1>4, RequestKeepsScreen DEF ScreenInv, PutsKept, Puts
<1>5. CASE (User \/ Gui) /\ ~UNCHANGED vars
  BY <1>1, <1>5, ScreenKeepsScreen DEF ScreenInv, PutsKept
<1>6. QED
  BY <1>2, <1>3, <1>4, <1>5 DEF GuiNext

LEMMA ScreenStarts == GuiInit => ScreenInv
<1> SUFFICES ASSUME GuiInit PROVE ScreenInv
  OBVIOUS
<1>1. GuiInv /\ PlaysQuietly /\ QuietEnd
  BY GuiStarts, QuietStarts DEF GuiInit
<1>2. StoppedIsQuiet /\ PlayingIsBusy
  BY <1>1 DEF GuiInit, StoppedIsQuiet, PlayingIsBusy
<1>3. QED
  BY <1>1, <1>2 DEF ScreenInv

(* "MIX_PLAY: Bad state" is not reached from the music screen, whatever    *)
(* the user clicks and wherever the mixer task comes between a halt and    *)
(* its play request, as long as no event is dropped.                       *)
THEOREM PlayFromScreenFindsIdle ==
  GuiSpec /\ [][DmaInterrupt \/ User \/ PutPlay \/ (\E id \in Songs : InterPause(id))
                  => Len(mixevq) < MIX_EV_DEPTH]_vars
    => []PlayFindsIdle
<1>1. ScreenInv /\ [GuiNext]_vars
        /\ [DmaInterrupt \/ User \/ PutPlay \/ (\E id \in Songs : InterPause(id))
              => Len(mixevq) < MIX_EV_DEPTH]_vars => ScreenInv'
  BY ScreenStep DEF PutsKept, Puts
<1>2. ScreenInv => PlayFindsIdle
  BY DEF ScreenInv, PlaysQuietly, PlayFindsIdle
<1>3. QED
  BY <1>1, <1>2, ScreenStarts, PTL DEF GuiSpec

(* When everything has been handled the button shows what the player does: *)
(* with a card that does not fail and files of at least a frame.           *)
THEOREM ButtonShowsPlayer ==
  ASSUME CardErrors = FALSE, NBlocks >= FRAME_BLOCKS
  PROVE  GuiSpec
           /\ [][DmaInterrupt \/ User \/ PutPlay \/ (\E id \in Songs : InterPause(id))
                   => Len(mixevq) < MIX_EV_DEPTH]_vars
           => []ButtonTellsTruth
<1>1. ScreenInv /\ [GuiNext]_vars
        /\ [DmaInterrupt \/ User \/ PutPlay \/ (\E id \in Songs : InterPause(id))
              => Len(mixevq) < MIX_EV_DEPTH]_vars => ScreenInv'
  BY ScreenStep DEF PutsKept, Puts
<1>2. ScreenInv => ButtonTellsTruth
  <2> SUFFICES ASSUME ScreenInv, Settled PROVE playing <=> state # "IDLE"
    BY DEF ButtonTellsTruth
  <2>1. /\ mixevq \in Seq(GuiEvents) /\ ~pending /\ ~finish /\ ~timer
        /\ mixpc \in {"get", "refill"}
        /\ \A k \in 1 .. Len(mixevq) : mixevq[k].event \notin ClientEvents
    BY DEF Settled, ScreenInv, GuiInv, GuiTypes
  <2>2. \A ev \in Quiet \cup Busy : ev.event \in ClientEvents
    BY DEF Quiet, Busy, Command, Play, ClientEvents
  <2>3. ~EndsIn(mixevq, Len(mixevq), Quiet) /\ ~EndsIn(mixevq, Len(mixevq), Busy)
    BY <2>1, <2>2 DEF EndsIn
  <2>4. ASSUME ~playing PROVE state = "IDLE"
    BY <2>1, <2>3, <2>4 DEF ScreenInv, StoppedIsQuiet, QuietEnd, QuietAfter, NowIdle
  <2>5. ASSUME playing PROVE state # "IDLE"
    BY <2>1, <2>3, <2>5 DEF ScreenInv, PlayingIsBusy, Playable, NowBusy
  <2>6. QED
    BY <2>4, <2>5
<1>3. QED
  BY <1>1, <1>2, ScreenStarts, PTL DEF GuiSpec

-----------------------------------------------------------------------------
(***************************************************************************)
(* The queue of a short visit to the screen has room for every event, for  *)
(* as long as the songs and the pauses between them go on by themselves.   *)
(* A click pays for what it causes: two for a song it starts or resumes.   *)
(* One of them is spent on the halt that comes before the song; it is had  *)
(* back when the song is opened, as the halt has left the player without a *)
(* file.  So the screen can pay for the next song with the two that the    *)
(* end of the one before has left.                                         *)
(***************************************************************************)
One(b) == IF b THEN 1 ELSE 0
Resume == Command("MIX_RESUME")
Cost(ev) == IF IsRequest(ev) THEN 0 ELSE IF ev = Resume THEN 2 ELSE 1

InQueue == QueuedCalls + Cardinality(Places(mixevq, {Resume}))
InMixer ==
  One(mixpc = "stopwait") + 2 * One(mixpc = "fill")
    + 2 * One(state # "IDLE" /\ mixpc # "halt") + One(pflac = NoSong \/ mixpc = "halt")
InScreen == One(pending) + 2 * One(finish) + 2 * One(timer)

VisitInv ==
  /\ clicks \in 0 .. Clicks
  /\ OpenRequests <= Late + 1
  /\ InQueue + InMixer + InScreen <= 2 * clicks + 1

LEMMA PayTypes ==
  ASSUME NEW E, mixevq \in Seq(E)
  PROVE  /\ QueuedCalls \in Nat /\ InQueue \in Nat /\ QueuedCalls <= InQueue
         /\ InMixer \in Nat /\ InScreen \in Nat
         /\ OpenRequests \in Nat /\ Len(mixevq) \in Nat
         /\ Len(mixevq) <= QueuedCalls + OpenRequests
<1>1. QueuedCalls \in Nat
  BY CommandsType DEF QueuedCalls
<1>2. Cardinality(Places(mixevq, {Resume})) \in Nat
  BY PlacesFinite
<1>3. InMixer \in Nat /\ InScreen \in Nat
  BY DEF InMixer, InScreen, One
<1>4. /\ OpenRequests = Cardinality(RequestsIn(mixevq)) + Refilling /\ Refilling \in {0, 1}
      /\ Cardinality(RequestsIn(mixevq)) \in Nat /\ Len(mixevq) \in Nat
  BY OpenRequestsAre, PhaseType
<1>5. InQueue = QueuedCalls + Cardinality(Places(mixevq, {Resume}))
  BY DEF InQueue
<1>6. QueuedCalls = Len(mixevq) - Cardinality(RequestsIn(mixevq))
  BY DEF QueuedCalls
<1>7. InQueue \in Nat /\ QueuedCalls <= InQueue
  BY <1>1, <1>2, <1>5
<1>8. OpenRequests \in Nat /\ Len(mixevq) \in Nat
  BY <1>4
<1>9. Len(mixevq) <= QueuedCalls + OpenRequests
  BY <1>4, <1>6
<1>10. QED
  BY <1>1, <1>3, <1>7, <1>8, <1>9

LEMMA CostTaken ==
  ASSUME NEW E, mixevq \in Seq(E), mixevq # <<>>, mixevq' = Tail(mixevq)
  PROVE  InQueue \in Nat /\ InQueue' \in Nat /\ InQueue' = InQueue - Cost(Head(mixevq))
<1> DEFINE r == Cardinality(Places(mixevq, {Resume}))
           s == Cardinality(Places(mixevq', {Resume}))
           h == Head(mixevq)
           n == QueuedCalls
           m == QueuedCalls'
<1>1. n \in Nat /\ m \in Nat /\ m = n - IF IsRequest(h) THEN 0 ELSE 1
  BY CommandTaken
<1>2. r \in Nat /\ s \in Nat /\ r = s + IF h \in {Resume} THEN 1 ELSE 0
  BY PlacesFinite, PlaceTaken, TailIs
<1>3. InQueue = n + r /\ InQueue' = m + s
  BY DEF InQueue, Places, Resume
<1>4. ~IsRequest(Resume)
  BY DEF IsRequest, Resume, Command
<1> HIDE DEF r, s, h, n, m
<1>5. Cost(h) = IF IsRequest(h) THEN 0 ELSE IF h = Resume THEN 2 ELSE 1
  BY DEF Cost
<1>6. n + r \in Nat /\ m + s \in Nat /\ m + s = (n + r) - Cost(h)
  BY <1>1, <1>2, <1>4, <1>5
<1>7. QED
  BY <1>3, <1>6 DEF h

LEMMA CostPut ==
  ASSUME NEW E, mixevq \in Seq(E), NEW ev \in E, mixevq' = Append(mixevq, ev)
  PROVE  InQueue' = InQueue + Cost(ev)
<1>1. QueuedCalls \in Nat /\ QueuedCalls' = QueuedCalls + IF IsRequest(ev) THEN 0 ELSE 1
  BY CommandPut, PayTypes
<1>2. /\ Cardinality(Places(mixevq, {Resume})) \in Nat
      /\ Cardinality(Places(mixevq', {Resume})) =
           Cardinality(Places(mixevq, {Resume})) + IF ev \in {Resume} THEN 1 ELSE 0
  BY PlacesFinite, PlacePut
<1>3. InQueue' = QueuedCalls' + Cardinality(Places(mixevq', {Resume}))
  BY DEF InQueue, Places, Resume
<1>4. ~IsRequest(Resume)
  BY DEF IsRequest, Resume, Command
<1>5. QED
  BY <1>1, <1>2, <1>3, <1>4 DEF InQueue, Cost

(* No step of the mixer task costs anything.                               *)
LEMMA MixerPays ==
  ASSUME GuiInv, MixerStep
  PROVE  InQueue' + InMixer' + 2 * One(finish') <= InQueue + InMixer + 2 * One(finish)
<1>1. mixevq \in Seq(GuiEvents) /\ InQueue \in Nat /\ InMixer \in Nat
  <2>1. mixevq \in Seq(GuiEvents)
    BY DEF GuiInv, GuiTypes
  <2>2. QED
    BY <2>1, PayTypes
<1>2. InMixer' \in Nat /\ One(finish') \in {0, 1} /\ One(finish) \in {0, 1}
  BY DEF InMixer, One
<1>3. ~RefillEnd => One(finish') = One(finish)
  BY DEF MixerStep, One
<1>4. ASSUME NEW name, TakeEvent(name)
      PROVE  /\ InQueue' \in Nat /\ InQueue' = InQueue - Cost(Head(mixevq))
             /\ mixpc = "get" /\ Head(mixevq).event = name
  BY <1>1, <1>4, CostTaken DEF TakeEvent
<1>5. ASSUME mixevq' = mixevq PROVE InQueue' = InQueue
  BY <1>5 DEF InQueue, QueuedCalls, RequestsIn, Places, Resume
<1>6. CASE TakePlay
  <2>1. /\ InQueue' \in Nat /\ InQueue' = InQueue - Cost(Head(mixevq))
        /\ mixpc = "get" /\ Head(mixevq).event = "MIX_PLAY"
    BY <1>4, <1>6 DEF TakePlay
  <2>2. Cost(Head(mixevq)) = 1
    BY <2>1 DEF Cost, IsRequest, Resume, Command
  <2>3. mixpc' = "stopwait" /\ UNCHANGED <<state, pflac>>
    BY <1>6 DEF TakePlay, flacVars, decoderVars
  <2>4. InMixer' = InMixer + 1
    BY <2>1, <2>3 DEF InMixer, One
  <2>5. ~RefillEnd
    BY <2>1 DEF RefillEnd
  <2>6. QED
    BY <1>1, <1>2, <1>3, <2>1, <2>2, <2>4, <2>5
<1>7. CASE RequestPending \/ RequestIdle \/ RequestPlay
  <2>1. /\ InQueue' \in Nat /\ InQueue' = InQueue - Cost(Head(mixevq))
        /\ mixpc = "get" /\ Head(mixevq).event = "MIX_DATA_REQ"
    BY <1>4, <1>7 DEF RequestPending, RequestIdle, RequestPlay
  <2>2. Cost(Head(mixevq)) = 0
    BY <2>1 DEF Cost, IsRequest
  <2>3. mixpc' \in {"get", "refill"} /\ (state' = "IDLE" <=> state = "IDLE")
    BY <1>7 DEF RequestPending, RequestIdle, RequestPlay, TakeEvent
  <2>4. pflac' = pflac
    BY <1>7, SeekKeepsSong DEF RequestPending, RequestIdle, RequestPlay, flacVars, decoderVars
  <2>5. InMixer' = InMixer
    BY <2>1, <2>3, <2>4 DEF InMixer, One
  <2>6. ~RefillEnd
    BY <2>1 DEF RefillEnd
  <2>7. QED
    BY <1>1, <1>2, <1>3, <2>1, <2>2, <2>5, <2>6
<1>8. CASE TakePause \/ TakeHalt
  <2>1. /\ InQueue' \in Nat /\ InQueue' = InQueue - Cost(Head(mixevq))
        /\ mixpc = "get" /\ Head(mixevq).event \in {"MIX_PAUSE", "MIX_HALT"}
    BY <1>4, <1>8 DEF TakePause, TakeHalt
  <2>2. Cost(Head(mixevq)) = 1
    BY <2>1 DEF Cost, IsRequest, Resume, Command
  <2>3. InMixer' <= InMixer + 1
    <3>1. CASE TakePause
      <4>1. mixpc' = "get" /\ state' = "IDLE" /\ pflac' = pflac
        BY <2>1, <3>1 DEF TakePause, flacVars, decoderVars
      <4>2. QED
        BY <2>1, <4>1 DEF InMixer, One
    <3>2. CASE TakeHalt
      <4>1. pflac' = pflac /\ (mixpc' = "halt" \/ (mixpc' = "get" /\ state' = "IDLE"))
        BY <2>1, <3>2 DEF TakeHalt, CloseSend, AfterHalt, flacVars, decoderVars
      <4>2. QED
        BY <2>1, <4>1 DEF InMixer, One
    <3>3. QED
      BY <1>8, <3>1, <3>2
  <2>4. ~RefillEnd
    BY <2>1 DEF RefillEnd
  <2>5. QED
    BY <1>1, <1>2, <1>3, <2>1, <2>2, <2>3, <2>4
<1>9. CASE TakeResume
  <2>1. /\ InQueue' \in Nat /\ InQueue' = InQueue - Cost(Head(mixevq))
        /\ mixpc = "get" /\ Head(mixevq).event = "MIX_RESUME" /\ mixevq # <<>>
    BY <1>4, <1>9 DEF TakeResume, TakeEvent
  <2>2. Cost(Head(mixevq)) = 2
    <3>1. Head(mixevq) \in GuiEvents
      BY <1>1, <2>1
    <3>2. Head(mixevq) = Resume
      BY <2>1, <3>1 DEF GuiEvents, Resume, DataReq, Command, Play
    <3>3. QED
      BY <2>1, <3>2 DEF Cost, IsRequest
  <2>3. mixpc' = "get" /\ state' = "PLAY" /\ pflac' = pflac
    BY <1>9, <2>1 DEF TakeResume, flacVars, decoderVars
  <2>4. InMixer' <= InMixer + 2
    BY <2>1, <2>3 DEF InMixer, One
  <2>5. ~RefillEnd
    BY <2>1 DEF RefillEnd
  <2>6. QED
    BY <1>1, <1>2, <1>3, <2>1, <2>2, <2>4, <2>5
<1>10. CASE PlayOpen
  <2>1. /\ mixevq' = mixevq /\ mixpc = "stopwait" /\ mixpc' = "fill" /\ state' = state
        /\ mpc = "run" /\ reader_status = "STOPPED"
    BY <1>10 DEF PlayOpen, OpenOk, ReadyToOpen
  <2>2. pflac = NoSong
    BY <2>1 DEF GuiInv, PipelineInv, ModesAgree
  <2>3. pflac' # NoSong
    BY <1>10, SongAssumption DEF PlayOpen, OpenOk, GuiInv, GuiTypes
  <2>4. InMixer' = InMixer
    BY <2>1, <2>2, <2>3 DEF InMixer, One
  <2>5. ~RefillEnd
    BY <2>1 DEF RefillEnd
  <2>6. QED
    BY <1>1, <1>2, <1>3, <1>5, <2>1, <2>4, <2>5
<1>11. CASE PlayOpenFail
  <2>1. /\ mixevq' = mixevq /\ mixpc = "stopwait" /\ mixpc' = "get" /\ state' = state
    BY <1>11 DEF PlayOpenFail
  <2>2. InMixer' <= InMixer
    BY <2>1 DEF InMixer, One
  <2>3. ~RefillEnd
    BY <2>1 DEF RefillEnd
  <2>4. QED
    BY <1>1, <1>2, <1>3, <1>5, <2>1, <2>2, <2>3
<1>12. CASE HaltDone
  <2>1. /\ mixevq' = mixevq /\ mixpc = "halt" /\ mixpc' = "get" /\ state' = "IDLE"
    BY <1>12 DEF HaltDone, AfterHalt
  <2>2. InMixer' <= InMixer
    BY <2>1 DEF InMixer, One
  <2>3. ~RefillEnd
    BY <2>1 DEF RefillEnd
  <2>4. QED
    BY <1>1, <1>2, <1>3, <1>5, <2>1, <2>2, <2>3
<1>13. CASE DecodeRead \/ DecodeEnd \/ DecodeAcquire \/ DecodeBlock \/ DecodeHalf
  <2>1. UnchangedMix /\ pflac' = pflac
    BY <1>13 DEF DecodeRead, DecodeEnd, DecodeAcquire, DecodeBlock, DecodeHalf, OnRead,
                 OnReadEnd, OnReadAcquire, OnReadCopy, flacVars, decoderVars
  <2>2. mixevq' = mixevq /\ InMixer' = InMixer
    BY <2>1 DEF UnchangedMix, InMixer
  <2>3. ~RefillEnd
    BY <1>13 DEF DecodeRead, DecodeEnd, DecodeAcquire, DecodeBlock, DecodeHalf, Decoding,
                 RefillEnd
  <2>4. QED
    BY <1>1, <1>2, <1>3, <1>5, <2>2, <2>3
<1>14. CASE FillDone
  <2>1. mixevq' = mixevq /\ mixpc = "fill" /\ mixpc' = "get" /\ pflac' = pflac
    BY <1>14 DEF FillDone, flacVars, decoderVars
  <2>2. InMixer' <= InMixer
    BY <2>1 DEF InMixer, One
  <2>3. ~RefillEnd
    BY <2>1 DEF RefillEnd
  <2>4. QED
    BY <1>1, <1>2, <1>3, <1>5, <2>1, <2>2, <2>3
<1>15. CASE RefillMix
  <2>1. /\ mixevq' = mixevq /\ mixpc = "refill" /\ mixpc' = "get" /\ UNCHANGED <<state, pflac>>
        /\ num_read > 0
    BY <1>15 DEF RefillMix, flacVars, decoderVars
  <2>2. InMixer' = InMixer
    BY <2>1 DEF InMixer, One
  <2>3. ~RefillEnd
    BY <2>1 DEF RefillEnd
  <2>4. QED
    BY <1>1, <1>2, <1>3, <1>5, <2>1, <2>2, <2>3
<1>16. CASE RefillEnd
  <2>1. mixpc = "refill" /\ loop_count = 0 /\ state = "PLAY"
    BY <1>16 DEF RefillEnd, GuiInv, GuiTypes, OnwardInv, RefillInv
  <2>2. mixevq' = mixevq /\ mixpc' = "get" /\ state' = "IDLE" /\ pflac' = pflac
    BY <1>16, <2>1 DEF RefillEnd, flacVars, decoderVars
  <2>3. InMixer' = InMixer - 2
    BY <2>1, <2>2 DEF InMixer, One
  <2>4. QED
    BY <1>1, <1>2, <1>5, <2>2, <2>3
<1>17. QED
  BY <1>6, <1>7, <1>8, <1>9, <1>10, <1>11, <1>12, <1>13, <1>14, <1>15, <1>16
     DEF MixerStep, Mixer

(* What the screen puts has been paid: by a click, or before.              *)
Pays ==
  \/ \E ev \in GuiEvents :
       /\ Puts /\ Post(ev) /\ ~IsRequest(ev)
       /\ Cost(ev) + InScreen' + 2 * clicks <= InScreen + 2 * clicks'
  \/ /\ UNCHANGED <<flacVars, mixVars>>
     /\ InScreen' <= InScreen /\ clicks <= clicks'

LEMMA ScreenPays ==
  ASSUME ScreenTypes, clicks \in 0 .. Clicks, User \/ Gui
  PROVE  Pays /\ clicks' \in 0 .. Clicks
<1>1. /\ \A ev \in {Command("MIX_HALT"), Command("MIX_PAUSE")} :
           ev \in GuiEvents /\ ~IsRequest(ev) /\ Cost(ev) = 1
      /\ \A s \in Songs : Play(s, 0) \in GuiEvents /\ ~IsRequest(Play(s, 0)) /\ Cost(Play(s, 0)) = 1
      /\ Resume \in GuiEvents /\ ~IsRequest(Resume) /\ Cost(Resume) = 2
  <2>1. \A ev \in {Command("MIX_HALT"), Command("MIX_PAUSE"), Resume}
                     \cup {Play(s, 0) : s \in Songs} : ev \in GuiEvents /\ ~IsRequest(ev)
    BY DEF GuiEvents, IsRequest, Resume, Command, Play
  <2>2. \A ev \in {Command("MIX_HALT"), Command("MIX_PAUSE")} \cup {Play(s, 0) : s \in Songs} :
          ev # Resume
    BY DEF Resume, Command, Play
  <2>3. QED
    BY <2>1, <2>2 DEF Cost
<1>2. clicks \in Nat /\ Clicks \in Nat /\ track \in Songs
  BY ClicksAssumption DEF ScreenTypes
<1>3. Click => clicks' = clicks + 1 /\ clicks' \in 0 .. Clicks
  BY <1>2 DEF Click
<1>4. InScreen \in Nat /\ InScreen' \in Nat
  BY DEF InScreen, One
(* A song is started: by a play request, or by a halt and one to come.     *)
<1>5. ASSUME NEW id \in Songs, MusicPlay(id), ~pending
      PROVE  \E ev \in GuiEvents :
               Post(ev) /\ ~IsRequest(ev) /\ Cost(ev) + One(pending') <= 2
  <2>1. CASE playing
    BY <1>1, <1>5, <2>1 DEF MusicPlay, One
  <2>2. CASE ~playing
    BY <1>1, <1>5, <2>2 DEF MusicPlay, One
  <2>3. QED
    BY <2>1, <2>2
<1>6. ASSUME NEW id \in Songs, AlbumNext(id), ~pending
      PROVE  \E ev \in GuiEvents :
               Post(ev) /\ ~IsRequest(ev) /\ Cost(ev) + One(pending') <= 2
  <2>1. CASE playing
    BY <1>5, <1>6, <2>1 DEF AlbumNext
  <2>2. CASE ~playing
    BY <1>1, <1>6, <2>2 DEF AlbumNext, One
  <2>3. QED
    BY <2>1, <2>2
<1>7. CASE \E id \in Songs : ListClick(id) \/ NextClick(id)
  <2>1. PICK id \in Songs : ListClick(id) \/ NextClick(id)
    BY <1>7
  <2>2. Click /\ ~pending /\ (MusicPlay(id) \/ AlbumNext(id))
    BY <2>1 DEF ListClick, NextClick, Click
  <2>3. PICK ev \in GuiEvents : Post(ev) /\ ~IsRequest(ev) /\ Cost(ev) + One(pending') <= 2
    BY <1>5, <1>6, <2>2
  <2>4. InScreen' <= InScreen + One(pending') /\ One(pending') \in {0, 1}
    <3>1. finish' = finish /\ (timer' = timer \/ ~timer')
      BY <2>1 DEF ListClick, NextClick, AlbumNext
    <3>2. QED
      BY <2>2, <3>1 DEF InScreen, One
  <2>5. Cost(ev) \in {0, 1, 2}
    BY DEF Cost
  <2>6. Cost(ev) + InScreen' + 2 * clicks <= InScreen + 2 * clicks'
    BY <1>2, <1>3, <1>4, <2>2, <2>3, <2>4, <2>5
  <2>7. QED
    BY <1>3, <1>7, <2>2, <2>3, <2>6 DEF Pays, Puts, User
<1>8. CASE \E id \in Songs : InterPause(id)
  <2>1. PICK id \in Songs : InterPause(id)
    BY <1>8
  <2>2. ~pending /\ timer /\ AlbumNext(id) /\ finish' = finish /\ clicks' = clicks /\ ~timer'
    BY <2>1 DEF InterPause, AlbumNext
  <2>3. PICK ev \in GuiEvents : Post(ev) /\ ~IsRequest(ev) /\ Cost(ev) + One(pending') <= 2
    BY <1>6, <2>2
  <2>4. InScreen' + 2 = InScreen + One(pending') /\ One(pending') \in {0, 1}
    BY <2>2 DEF InScreen, One
  <2>5. Cost(ev) \in {0, 1, 2}
    BY DEF Cost
  <2>6. Cost(ev) + InScreen' + 2 * clicks <= InScreen + 2 * clicks'
    BY <1>2, <1>4, <2>2, <2>3, <2>4, <2>5
  <2>7. QED
    BY <1>8, <2>2, <2>3, <2>6 DEF Pays, Puts
<1>9. CASE ResumeClick
  <2>1. Click /\ InScreen' = InScreen
    BY <1>9 DEF ResumeClick, InScreen
  <2>2. clicks' = clicks + 1 /\ clicks' \in 0 .. Clicks
    BY <1>3, <2>1
  <2>3. ResumeEvent(mstate) \in {Play(track, 0), Resume, Nothing}
    BY DEF ResumeEvent, Resume, ScreenTypes
  <2>4. CASE ResumeEvent(mstate) = Nothing
    BY <1>2, <1>4, <1>9, <2>1, <2>2, <2>4 DEF ResumeClick, Pays
  <2>5. CASE ResumeEvent(mstate) # Nothing
    <3>1. /\ Post(ResumeEvent(mstate)) /\ ResumeEvent(mstate) \in GuiEvents
          /\ ~IsRequest(ResumeEvent(mstate)) /\ Cost(ResumeEvent(mstate)) \in {1, 2}
      BY <1>1, <1>2, <1>9, <2>3, <2>5 DEF ResumeClick
    <3>2. Cost(ResumeEvent(mstate)) + InScreen' + 2 * clicks <= InScreen + 2 * clicks'
      BY <1>2, <1>4, <2>1, <2>2, <3>1
    <3>3. QED
      BY <1>9, <2>2, <3>1, <3>2 DEF Pays, Puts, User
  <2>6. QED
    BY <2>4, <2>5
<1>10. CASE PauseClick
  <2>1. Click /\ InScreen' = InScreen /\ Post(Command("MIX_PAUSE"))
    BY <1>10 DEF PauseClick, InScreen
  <2>2. clicks' = clicks + 1 /\ clicks' \in 0 .. Clicks
    BY <1>3, <2>1
  <2>3. Cost(Command("MIX_PAUSE")) + InScreen' + 2 * clicks <= InScreen + 2 * clicks'
    BY <1>1, <1>2, <1>4, <2>1, <2>2
  <2>4. QED
    BY <1>1, <1>10, <2>1, <2>2, <2>3 DEF Pays, Puts, User
<1>11. CASE PutPlay
  <2>1. /\ Post(Play(track, 0)) /\ clicks' = clicks
        /\ pending /\ ~pending' /\ finish' = finish /\ timer' = timer
    BY <1>11 DEF PutPlay
  <2>2. InScreen = InScreen' + 1
    BY <2>1 DEF InScreen, One
  <2>3. Cost(Play(track, 0)) + InScreen' + 2 * clicks <= InScreen + 2 * clicks'
    BY <1>1, <1>2, <1>4, <2>1, <2>2
  <2>4. QED
    BY <1>1, <1>2, <1>11, <2>1, <2>3 DEF Pays, Puts
<1>12. CASE FinishEvent
  <2>1. /\ UNCHANGED <<flacVars, mixVars>> /\ clicks' = clicks
        /\ finish /\ ~finish' /\ timer' /\ pending' = pending
    BY <1>12 DEF FinishEvent
  <2>2. InScreen' <= InScreen
    BY <2>1 DEF InScreen, One
  <2>3. QED
    BY <1>2, <2>1, <2>2 DEF Pays
<1>13. QED
  BY <1>7, <1>8, <1>9, <1>10, <1>11, <1>12 DEF User, Gui

(* Where the bound leaves room.                                            *)
LEMMA VisitHasRoom ==
  ASSUME GuiInv, VisitInv, Puts, MIX_EV_DEPTH >= 2 * Clicks + Late + 2
  PROVE  Len(mixevq) < MIX_EV_DEPTH
<1>1. /\ QueuedCalls \in Nat /\ InQueue \in Nat /\ QueuedCalls <= InQueue
      /\ InMixer \in Nat /\ InScreen \in Nat
      /\ OpenRequests \in Nat /\ Len(mixevq) \in Nat
      /\ Len(mixevq) <= QueuedCalls + OpenRequests
  BY PayTypes DEF GuiInv, GuiTypes
<1>2. /\ clicks \in Nat /\ clicks <= Clicks /\ Clicks \in Nat /\ Late \in Nat
      /\ MIX_EV_DEPTH \in Nat
      /\ OpenRequests <= Late + 1 /\ InQueue + InMixer + InScreen <= 2 * clicks + 1
  BY ClicksAssumption, MixAssumption DEF VisitInv
<1>3. CASE DmaInterrupt
  <2>1. OpenRequests <= Late
    BY <1>2, <1>3 DEF DmaInterrupt
  <2>2. QED
    BY <1>1, <1>2, <2>1
<1>4. CASE User
  <2>1. clicks < Clicks
    BY <1>4 DEF User, ListClick, NextClick, ResumeClick, PauseClick, Click
  <2>2. QED
    BY <1>1, <1>2, <2>1
<1>5. CASE PutPlay \/ \E id \in Songs : InterPause(id)
  <2>1. pending \/ timer
    BY <1>5 DEF PutPlay, InterPause
  <2>2. InScreen >= 1
    BY <2>1 DEF InScreen, One
  <2>3. QED
    BY <1>1, <1>2, <2>2
<1>6. QED
  BY <1>3, <1>4, <1>5 DEF Puts

LEMMA StillPaid ==
  ASSUME NEW q \in Nat, NEW m \in Nat, NEW s \in Nat, NEW t \in Nat, NEW c \in Nat,
         NEW d \in Nat, q + m + s <= 2 * c + 1, t <= s, c <= d
  PROVE  q + m + t <= 2 * d + 1
OBVIOUS

LEMMA VisitStep ==
  ASSUME MIX_EV_DEPTH >= 2 * Clicks + Late + 2
  PROVE  GuiInv /\ VisitInv /\ [GuiNext]_vars => VisitInv' /\ [PutsKept]_vars
<1> SUFFICES ASSUME GuiInv, VisitInv, [GuiNext]_vars
             PROVE  VisitInv' /\ PutsKept
  OBVIOUS
<1>1. PutsKept
  BY VisitHasRoom DEF PutsKept
<1>2. /\ mixevq \in Seq(GuiEvents) /\ mixevq' \in Seq(GuiEvents)
      /\ ScreenTypes /\ dma \in {0, 1}
  BY GuiStepKeeps DEF GuiInv, GuiTypes
<1>3. /\ InQueue \in Nat /\ InMixer \in Nat /\ InScreen \in Nat /\ OpenRequests \in Nat
      /\ clicks \in 0 .. Clicks /\ clicks \in Nat /\ Late \in Nat
      /\ OpenRequests <= Late + 1 /\ InQueue + InMixer + InScreen <= 2 * clicks + 1
  BY <1>2, PayTypes, ClicksAssumption, MixAssumption DEF VisitInv
<1>4. InMixer' \in Nat /\ InScreen' \in Nat
  BY DEF InMixer, InScreen, One
<1>5. CASE MixerStep
  <2>1. OpenRequests' <= OpenRequests /\ OpenRequests' \in Nat
    BY <1>2, <1>3, <1>5, MixerAnswers DEF MixerStep
  <2>2. InQueue' + InMixer' + 2 * One(finish') <= InQueue + InMixer + 2 * One(finish)
    BY <1>5, MixerPays
  <2>3. UNCHANGED <<pending, timer, clicks>>
    BY <1>5 DEF MixerStep
  <2>4. /\ InScreen = One(pending) + 2 * One(finish) + 2 * One(timer)
        /\ InScreen' = One(pending) + 2 * One(finish') + 2 * One(timer)
        /\ {One(pending), One(finish), One(finish'), One(timer)} \subseteq {0, 1}
    BY <2>3 DEF InScreen, One
  <2>5. InQueue' \in Int
    <3>1. CASE mixevq' = mixevq
      BY <1>3, <3>1 DEF InQueue, QueuedCalls, RequestsIn, Places, Resume
    <3>2. CASE mixevq # <<>> /\ mixevq' = Tail(mixevq)
      BY <1>2, <3>2, CostTaken
    <3>3. QED
      BY <1>5, <3>1, <3>2, MixerTakes DEF MixerStep
  <2>6. InQueue' + InMixer' + InScreen' <= 2 * clicks + 1
    BY <1>3, <1>4, <2>2, <2>4, <2>5
  <2>7. OpenRequests' <= Late + 1
    BY <1>3, <2>1
  <2>8. QED
    BY <1>1, <1>3, <2>3, <2>6, <2>7 DEF VisitInv
<1>6. CASE DmaInterrupt /\ UNCHANGED guiVars
  <2>1. /\ DataReq(dma) \in GuiEvents /\ IsRequest(DataReq(dma))
        /\ mixevq' = PutEv(mixevq, DataReq(dma)) /\ mixevq' = Append(mixevq, DataReq(dma))
        /\ Len(mixevq) < MIX_EV_DEPTH
        /\ UNCHANGED <<mixpc, state, pflac, pending, finish, timer, clicks>>
    BY <1>1, <1>2, <1>6 DEF GuiEvents, IsRequest, DataReq, DmaInterrupt, PutEv, PutsKept, Puts,
       guiVars, flacVars, decoderVars
  <2>2. Cost(DataReq(dma)) = 0
    BY <2>1 DEF Cost
  <2>3. InQueue' = InQueue
    BY <1>2, <1>3, <2>1, <2>2, CostPut
  <2>4. InMixer' = InMixer /\ InScreen' = InScreen
    BY <2>1 DEF InMixer, InScreen
  <2>5. OpenRequests' = OpenRequests + 1
    BY <1>2, <2>1, PutCounts
  <2>6. OpenRequests <= Late
    BY <1>3, <1>6 DEF DmaInterrupt
  <2>7. QED
    BY <1>1, <1>3, <2>1, <2>3, <2>4, <2>5, <2>6 DEF VisitInv
<1>7. CASE (ReaderStep /\ UNCHANGED guiVars) \/ UNCHANGED vars
  <2>1. UNCHANGED <<mixevq, mixpc, state, pflac, pending, finish, timer, clicks>>
    <3>1. CASE ReaderStep /\ UNCHANGED guiVars
      <4>1. pflac' = pflac
        BY <3>1 DEF ReaderStep, Reader, ReaderStart, ReaderTake, ReaderFill, ReaderError,
                    ReaderMore, ReaderStop, decoderVars
      <4>2. QED
        BY <3>1, <4>1 DEF ReaderStep, mixVars, guiVars
    <3>2. CASE UNCHANGED vars
      BY <3>2 DEF vars, mixVars, guiVars, flacVars, decoderVars
    <3>3. QED
      BY <1>7, <3>1, <3>2
  <2>2. /\ InQueue' = InQueue /\ InMixer' = InMixer /\ InScreen' = InScreen
        /\ OpenRequests' = OpenRequests
    BY <2>1 DEF InQueue, QueuedCalls, RequestsIn, Places, Resume, InMixer, InScreen, OpenRequests
  <2>3. QED
    BY <1>1, <2>1, <2>2 DEF VisitInv
<1>8. CASE User \/ Gui
  <2>1. Pays /\ clicks' \in 0 .. Clicks /\ clicks' \in Nat
    BY <1>2, <1>3, <1>8, ScreenPays, ClicksAssumption
  <2>2. CASE UNCHANGED <<flacVars, mixVars>> /\ InScreen' <= InScreen /\ clicks <= clicks'
    <3>1. InQueue' = InQueue /\ InMixer' = InMixer /\ OpenRequests' = OpenRequests
      BY <2>2 DEF InQueue, QueuedCalls, RequestsIn, Places, Resume, InMixer, OpenRequests,
         flacVars, decoderVars, mixVars
    <3>2. /\ InScreen' <= InScreen /\ clicks <= clicks' /\ clicks' \in Nat
          /\ InQueue' = InQueue /\ InMixer' = InMixer
      BY <2>1, <2>2, <3>1
    <3>3. InQueue + InMixer + InScreen' <= 2 * clicks' + 1
      BY <1>3, <1>4, <3>2, StillPaid
    <3>4. QED
      BY <1>1, <1>3, <2>1, <3>1, <3>2, <3>3 DEF VisitInv
  <2>3. ASSUME NEW ev \in GuiEvents, Puts, Post(ev), ~IsRequest(ev),
               Cost(ev) + InScreen' + 2 * clicks <= InScreen + 2 * clicks'
        PROVE  VisitInv'
    <3>1. /\ mixevq' = PutEv(mixevq, ev) /\ mixevq' = Append(mixevq, ev)
          /\ UNCHANGED <<mixpc, state, pflac>>
      BY <1>1, <2>3 DEF PutsKept, Post, PutEv, flacVars, decoderVars
    <3>2. OpenRequests' = OpenRequests /\ InMixer' = InMixer
      BY <1>2, <2>3, <3>1, PutCounts DEF InMixer
    <3>3. InQueue' = InQueue + Cost(ev) /\ Cost(ev) \in Nat
      BY <1>2, <3>1, CostPut DEF Cost
    <3>4. InQueue' + InMixer' + InScreen' <= 2 * clicks' + 1
      BY <1>3, <1>4, <2>1, <2>3, <3>2, <3>3
    <3>5. QED
      BY <1>3, <2>1, <3>2, <3>4 DEF VisitInv
  <2>4. QED
    BY <1>1, <2>1, <2>2, <2>3 DEF Pays
<1>9. QED
  BY <1>5, <1>6, <1>7, <1>8 DEF GuiNext

LEMMA VisitStarts == GuiInit => VisitInv
<1> SUFFICES ASSUME GuiInit PROVE VisitInv
  OBVIOUS
<1>1. /\ mixevq = <<>> /\ mixpc = "get" /\ state = "IDLE" /\ clicks = 0
      /\ ~pending /\ ~finish /\ ~timer
  BY DEF GuiInit, MixInit
<1>2. RequestsIn(mixevq) = {} /\ Len(mixevq) = 0 /\ Places(mixevq, {Resume}) = {}
  BY <1>1 DEF RequestsIn, Places
<1>3. OpenRequests = 0 /\ InQueue = 0
  <2>1. Cardinality(RequestsIn(mixevq)) = 0 /\ Cardinality(Places(mixevq, {Resume})) = 0
    BY <1>2, FS_EmptySet
  <2>2. Refilling = 0
    BY <1>1 DEF Refilling
  <2>3. QueuedCalls = 0
    BY <1>2, <2>1 DEF QueuedCalls
  <2>4. InQueue = QueuedCalls + Cardinality(Places(mixevq, {Resume}))
    BY DEF InQueue
  <2>5. QED
    BY <2>1, <2>2, <2>3, <2>4, OpenRequestsAre
<1>4. InMixer \in {0, 1} /\ InScreen = 0
  BY <1>1 DEF InMixer, InScreen, One
<1>5. QED
  BY <1>1, <1>3, <1>4, ClicksAssumption, MixAssumption DEF VisitInv

(* No event is dropped in a visit of few clicks, however many songs follow *)
(* each other.                                                             *)
THEOREM ShortVisitDropsNothing ==
  ASSUME MIX_EV_DEPTH >= 2 * Clicks + Late + 2
  PROVE  GuiSpec => [][DmaInterrupt \/ User \/ PutPlay \/ (\E id \in Songs : InterPause(id))
                         => Len(mixevq) < MIX_EV_DEPTH]_vars
<1>1. GuiInv /\ VisitInv /\ [GuiNext]_vars
        => /\ GuiInv' /\ VisitInv'
           /\ [DmaInterrupt \/ User \/ PutPlay \/ (\E id \in Songs : InterPause(id))
                 => Len(mixevq) < MIX_EV_DEPTH]_vars
  BY GuiStepKeeps, VisitStep DEF PutsKept, Puts
<1>2. QED
  BY <1>1, GuiStarts, VisitStarts, PTL DEF GuiSpec

(* So the player stays in phase with the DMA, play requests find it idle   *)
(* and, with a card that does not fail and files of at least a frame, the  *)
(* button tells what it does.                                              *)
THEOREM ShortVisitIsServed ==
  ASSUME MIX_EV_DEPTH >= 2 * Clicks + Late + 2, CardErrors = FALSE, NBlocks >= FRAME_BLOCKS
  PROVE  GuiSpec => [](InPhase /\ PlayFindsIdle /\ ButtonTellsTruth)
<1>1. GuiSpec => [][DmaInterrupt \/ User \/ PutPlay \/ (\E id \in Songs : InterPause(id))
                      => Len(mixevq) < MIX_EV_DEPTH]_vars
  BY ShortVisitDropsNothing
<1>2. [DmaInterrupt \/ User \/ PutPlay \/ (\E id \in Songs : InterPause(id))
         => Len(mixevq) < MIX_EV_DEPTH]_vars
        => [DmaInterrupt => Len(mixevq) < MIX_EV_DEPTH]_vars
  OBVIOUS
<1>3. GuiSpec /\ [][DmaInterrupt => Len(mixevq) < MIX_EV_DEPTH]_vars => []InPhase
  BY ScreenOutputInPhase
<1>4. GuiSpec /\ [][DmaInterrupt \/ User \/ PutPlay \/ (\E id \in Songs : InterPause(id))
                      => Len(mixevq) < MIX_EV_DEPTH]_vars
        => []PlayFindsIdle
  BY PlayFromScreenFindsIdle
<1>5. GuiSpec /\ [][DmaInterrupt \/ User \/ PutPlay \/ (\E id \in Songs : InterPause(id))
                      => Len(mixevq) < MIX_EV_DEPTH]_vars
        => []ButtonTellsTruth
  BY ButtonShowsPlayer
<1>6. QED
  BY <1>1, <1>2, <1>3, <1>4, <1>5, PTL
=============================================================================
