----------------------------- MODULE MixPlayer ------------------------------
(***************************************************************************)
(* The music player task (src/App/mix_player.c, StartMixPlayerTask) over   *)
(* the read-ahead pipeline of FlacReader, with the sound DMA that drives   *)
(* it and the Mix_... calls its clients make.                              *)
(*                                                                         *)
(* The output ring has two halves of NUM_FRAMES frames.  When the DMA has  *)
(* sent one, its interrupt puts a MIX_DATA_REQ in mixevq (option 0: first  *)
(* half free, 1: second half free); the mixer task decodes the next half   *)
(* of music into MusicFrameBuffer and mixes it into the free half.         *)
(* Music is counted in halves.  A FLAC frame is FRAME_BLOCKS blocks of the *)
(* file and decodes to FRAME_HALVES halves.  Sound effects (MixChannels),  *)
(* the FFT and the seconds display are left out.                           *)
(***************************************************************************)
EXTENDS FlacReader, FiniteSets

CONSTANTS
  MIX_EV_DEPTH,   (* capacity of mixevq                                    *)
  FRAME_BLOCKS, FRAME_HALVES,
  LoopStart,      (* LOOP_START tag of the files, 0 when absent; at most   *)
                  (* the end, where the decoder takes one behind it        *)
  LoopEnd,        (* LOOP_END tag, 0 when absent                           *)
  Priorities,     (* TRUE: a task runs only while those above it are blocked *)
  Late            (* how many more requests of the DMA may come in while   *)
                  (* the card keeps the mixer task waiting for one         *)

ASSUME MixAssumption ==
  /\ MIX_EV_DEPTH \in Nat \ {0}
  /\ FRAME_BLOCKS \in Nat \ {0}
  /\ FRAME_HALVES \in Nat \ {0}
  /\ LoopStart \in Nat
  /\ (LoopStart \div FRAME_HALVES) * FRAME_BLOCKS \in 0 .. NBlocks
  /\ LoopEnd \in Nat
  /\ Priorities \in BOOLEAN
  /\ Late \in Nat

VARIABLES
  mixevq,      (* events for the mixer task                                *)
  state,       (* MixInfo.state                                            *)
  mixpc,       (* where the mixer task is                                  *)
  ctrl,        (* the event being handled                                  *)
  loop_count,  (* FLACINFO: laps left, -1 forever                          *)
  pcm_pos,     (* FLACINFO: position in the song                           *)
  cached,      (* decoded halves the decoder still has                     *)
  frame,       (* blocks read of the frame being decoded                   *)
  num_read,    (* halves decoded by the call in progress                   *)
  eof,         (* that call has hit the end of the stream                  *)
  music,       (* MusicFrameBuffer                                         *)
  freehalf,    (* freebuffer_ptr: the half of the output MixSound fills    *)
  dma,         (* the half the DMA is sending                              *)
  lastmix      (* history: last half of the song that was mixed, or -1     *)

mixVars == <<mixevq, state, mixpc, ctrl, loop_count, pcm_pos, cached, frame,
             num_read, eof, music, freehalf, dma, lastmix>>

Half(s, n) == [song |-> s, half |-> n]
Silent == Half(NoSong, 0)
DataReq(full) == [event |-> "MIX_DATA_REQ", song |-> NoSong, option |-> full]
Play(s, loop) == [event |-> "MIX_PLAY", song |-> s, option |-> loop]
Command(ev) == [event |-> ev, song |-> NoSong, option |-> 0]

(* osMessageQueuePut with timeout 0.                                       *)
PutEv(q, ev) == IF Len(q) < MIX_EV_DEPTH THEN Append(q, ev) ELSE q

WrongHalfFree == 1
FirstFree == 0

MixInit ==
  /\ Init
  /\ mixevq = <<>>
  /\ state = "IDLE"
  /\ mixpc = "get"
  /\ ctrl = Command("none")
  /\ loop_count = 0
  /\ pcm_pos = 0
  /\ cached = 0
  /\ frame = 0
  /\ num_read = 0
  /\ eof = FALSE
  /\ music = [h \in {0, 1} |-> Silent]
  /\ freehalf = FirstFree
  /\ dma = 0
  /\ lastmix = -1

(* The sound driver's MixSound: mixes one half of music (or silence) into  *)
(* the half at freebuffer_ptr and moves the pointer on.                    *)
MixSound(src) ==
  /\ freehalf' = 1 - freehalf
  /\ lastmix' = IF src = Silent THEN lastmix ELSE src.half

(* drflac_seek_to_pcm_frame: the decoder drops what it holds and moves the *)
(* file position to the frame of the target.  Without a decoder (pflac     *)
(* NULL) nothing happens.                                                  *)
SeekTo(half) ==
  IF pflac = NoSong
  THEN UNCHANGED <<readerVars, decoderVars, cached, frame>>
  ELSE /\ OnSeek((half \div FRAME_HALVES) * FRAME_BLOCKS)
       /\ cached' = 0
       /\ frame' = 0

(* The half of the song the decoder holds next: counted from the block     *)
(* that completed the frame.                                               *)
NextHalf ==
  (got.blk \div FRAME_BLOCKS) * FRAME_HALVES + (FRAME_HALVES - cached)

(* Laps left after one more lap; -1: loop for ever.                        *)
LapsDropped(n) == IF n > 0 THEN n - 1 ELSE 0
Laps(n) == IF n > 0 THEN n - 1 ELSE n

-----------------------------------------------------------------------------
(* Taking an event.                                                        *)

TakeEvent(ev) ==
  /\ mixpc = "get"
  /\ mixevq # <<>>
  /\ Head(mixevq).event = ev
  /\ mixevq' = Tail(mixevq)
  /\ ctrl' = Head(mixevq)

(* MIX_PLAY: a player that is not idle first complains and sleeps; then    *)
(* every one waits for the reader task to be stopped.                      *)
TakePlay ==
  /\ TakeEvent("MIX_PLAY")
  /\ mixpc' = "stopwait"
  /\ UNCHANGED <<flacVars, state, loop_count, pcm_pos, cached, frame, num_read,
                 eof, music, freehalf, dma, lastmix>>

PlayOpen ==
  /\ mixpc = "stopwait"
  /\ OpenOk(ctrl.song)
  /\ mixpc' = "fill"
  /\ loop_count' = Laps(ctrl.option)
  /\ pcm_pos' = 0
  /\ cached' = 0
  /\ frame' = 0
  /\ num_read' = 0
  /\ eof' = FALSE
  /\ lastmix' = -1
  /\ UNCHANGED <<mixevq, state, ctrl, music, freehalf, dma>>

PlayOpenFail ==
  /\ mixpc = "stopwait"
  /\ OpenFail
  /\ mixpc' = "get"
  /\ loop_count' = Laps(ctrl.option)
  /\ UNCHANGED <<mixevq, state, ctrl, pcm_pos, cached, frame, num_read, eof,
                 music, freehalf, dma, lastmix>>

(* MIX_DATA_REQ while a play request is pending: the first half that comes *)
(* free takes the first half of the music, a second half takes silence.    *)
RequestPending ==
  /\ TakeEvent("MIX_DATA_REQ")
  /\ state = "PLAY_REQ"
  /\ IF ctrl'.option = 0
     THEN MixSound(music[0]) /\ state' = "PLAY"
     ELSE MixSound(Silent) /\ UNCHANGED state
  /\ UNCHANGED <<flacVars, mixpc, loop_count, pcm_pos, cached, frame, num_read,
                 eof, music, dma>>

RequestIdle ==
  /\ TakeEvent("MIX_DATA_REQ")
  /\ state = "IDLE"
  /\ MixSound(Silent)
  /\ UNCHANGED <<flacVars, state, mixpc, loop_count, pcm_pos, cached, frame,
                 num_read, eof, music, dma>>

(* MIX_DATA_REQ while playing: jump back when the end of the loop has been *)
(* reached (looked at for first halves only), then decode one more half.   *)
RequestPlay ==
  /\ TakeEvent("MIX_DATA_REQ")
  /\ state = "PLAY"
  /\ mixpc' = "refill"
  /\ num_read' = 0
  /\ eof' = FALSE
  /\ IF ctrl'.option = 0 /\ loop_count # 0 /\ pcm_pos >= LoopEnd
     THEN pcm_pos' = LoopStart /\ SeekTo(LoopStart)
     ELSE UNCHANGED <<pcm_pos, flacVars, cached, frame>>
  /\ UNCHANGED <<state, loop_count, music, freehalf, dma, lastmix>>

TakePause ==
  /\ TakeEvent("MIX_PAUSE")
  /\ state' = "IDLE"
  /\ UNCHANGED <<flacVars, mixpc, loop_count, pcm_pos, cached, frame, num_read,
                 eof, music, freehalf, dma, lastmix>>

TakeResume ==
  /\ TakeEvent("MIX_RESUME")
  /\ state' = "PLAY"
  /\ UNCHANGED <<flacVars, mixpc, loop_count, pcm_pos, cached, frame, num_read,
                 eof, music, freehalf, dma, lastmix>>

FileIfPlaying == pflac # NoSong /\ state # "IDLE"
FileToClose == pflac # NoSong
HaltForgotten == state
AfterHalt == "IDLE"

(* MIX_HALT: the file, if one is open, is closed; always back to idle.     *)
TakeHalt ==
  /\ TakeEvent("MIX_HALT")
  /\ IF FileToClose
     THEN CloseSend /\ mixpc' = "halt" /\ UNCHANGED state
     ELSE state' = AfterHalt /\ UNCHANGED <<flacVars, mixpc>>
  /\ UNCHANGED <<loop_count, pcm_pos, cached, frame, num_read, eof, music,
                 freehalf, dma, lastmix>>

(* What the decoder holds is freed with it.                                *)
HaltDone ==
  /\ mixpc = "halt"
  /\ CloseFile
  /\ state' = AfterHalt
  /\ mixpc' = "get"
  /\ cached' = 0
  /\ frame' = 0
  /\ UNCHANGED <<mixevq, ctrl, loop_count, pcm_pos, num_read, eof, music,
                 freehalf, dma, lastmix>>

-----------------------------------------------------------------------------
(* drflac_read_pcm_frames_s16, of two halves for a new song and of one     *)
(* half afterwards.                                                        *)

Wanted == IF mixpc = "fill" THEN 2 ELSE 1
Decoding == mixpc \in {"fill", "refill"} /\ num_read < Wanted /\ ~eof

UnchangedMix ==
  UNCHANGED <<mixevq, state, mixpc, ctrl, loop_count, pcm_pos, freehalf, dma,
              lastmix>>

(* The decoder holds nothing: it reads blocks until a frame is complete.   *)
DecodeRead ==
  /\ Decoding
  /\ cached = 0
  /\ pflac # NoSong
  /\ OnRead
  /\ UnchangedMix
  /\ UNCHANGED <<cached, frame, num_read, eof, music>>

(* The stream has ended, or there is no stream.                            *)
DecodeEnd ==
  /\ Decoding
  /\ cached = 0
  /\ IF pflac = NoSong THEN UNCHANGED flacVars ELSE OnReadEnd
  /\ eof' = TRUE
  /\ frame' = 0
  /\ UnchangedMix
  /\ UNCHANGED <<cached, num_read, music>>

DecodeAcquire ==
  /\ Decoding
  /\ OnReadAcquire
  /\ UnchangedMix
  /\ UNCHANGED <<cached, frame, num_read, eof, music>>

DecodeBlock ==
  /\ Decoding
  /\ OnReadCopy
  /\ IF IsData(got')
     THEN /\ frame' = IF frame + 1 = FRAME_BLOCKS THEN 0 ELSE frame + 1
          /\ cached' = IF frame + 1 = FRAME_BLOCKS THEN FRAME_HALVES ELSE 0
          /\ UNCHANGED eof
     ELSE /\ frame' = 0
          /\ eof' = TRUE
          /\ UNCHANGED cached
  /\ UnchangedMix
  /\ UNCHANGED <<num_read, music>>

SamePlace == 0
Place == IF mixpc = "fill" THEN num_read ELSE ctrl.option

(* One more half goes into its place in MusicFrameBuffer.                  *)
DecodeHalf ==
  /\ Decoding
  /\ cached > 0
  /\ music' = [music EXCEPT ![Place] = Half(got.song, NextHalf)]
  /\ cached' = cached - 1
  /\ num_read' = num_read + 1
  /\ UnchangedMix
  /\ UNCHANGED <<flacVars, frame, eof>>

(* MIX_PLAY ends: with some music decoded the request is pending.          *)
FillDone ==
  /\ mixpc = "fill"
  /\ ~Decoding
  /\ mixpc' = "get"
  /\ IF num_read > 0
     THEN state' = "PLAY_REQ" /\ pcm_pos' = pcm_pos + num_read
     ELSE UNCHANGED <<state, pcm_pos>>
  /\ UNCHANGED <<flacVars, mixevq, ctrl, loop_count, cached, frame, num_read,
                 eof, music, freehalf, dma, lastmix>>

(* MIX_DATA_REQ ends, with a new half decoded ...                          *)
RefillMix ==
  /\ mixpc = "refill"
  /\ num_read > 0
  /\ pcm_pos' = pcm_pos + num_read
  /\ MixSound(music[ctrl.option])
  /\ mixpc' = "get"
  /\ UNCHANGED <<flacVars, mixevq, state, ctrl, loop_count, cached, frame,
                 num_read, eof, music, dma>>

(* ... or at the end of the song: back to the start of the loop, or idle.  *)
(* The half is mixed all the same.                                         *)
RefillEnd ==
  /\ mixpc = "refill"
  /\ eof
  /\ num_read = 0
  /\ IF loop_count # 0
     THEN /\ loop_count' = Laps(loop_count)
          /\ pcm_pos' = LoopStart
          /\ SeekTo(LoopStart)
          /\ UNCHANGED state
     ELSE /\ state' = "IDLE"
          /\ UNCHANGED <<loop_count, pcm_pos, flacVars, cached, frame>>
  /\ MixSound(music[ctrl.option])
  /\ mixpc' = "get"
  /\ UNCHANGED <<mixevq, ctrl, num_read, eof, music, dma>>

Mixer ==
  \/ TakePlay
  \/ PlayOpen
  \/ PlayOpenFail
  \/ RequestPending
  \/ RequestIdle
  \/ RequestPlay
  \/ TakePause
  \/ TakeResume
  \/ TakeHalt
  \/ HaltDone
  \/ DecodeRead
  \/ DecodeEnd
  \/ DecodeAcquire
  \/ DecodeBlock
  \/ DecodeHalf
  \/ FillDone
  \/ RefillMix
  \/ RefillEnd

-----------------------------------------------------------------------------
(* Interrupts and scheduling.                                              *)

(* Requests of the DMA that have not been answered with a half.            *)
IsRequest(ev) == ev.event = "MIX_DATA_REQ"
OpenRequests ==
  Cardinality({i \in DOMAIN mixevq : IsRequest(mixevq[i])})
    + (IF mixpc = "refill" THEN 1 ELSE 0)

MixerBlocked ==
  \/ mixpc = "get" /\ mixevq = <<>>
  \/ mixpc = "stopwait" /\ reader_status # "STOPPED"
  \/ mpc = "wait" /\ sendsem = 0

(* Half-transfer and transfer-complete interrupts of the sound DMA:        *)
(* mix_request_data for the half that has been sent.  The mixer task is in *)
(* time for the next one unless it is kept waiting, and then Late more     *)
(* requests may come in.                                                   *)
DmaInterrupt ==
  /\ OpenRequests = 0 \/ (OpenRequests <= Late /\ MixerBlocked)
  /\ mixevq' = PutEv(mixevq, DataReq(dma))
  /\ dma' = 1 - dma
  /\ UNCHANGED <<flacVars, state, mixpc, ctrl, loop_count, pcm_pos, cached,
                 frame, num_read, eof, music, freehalf, lastmix>>

ReaderBlocked ==
  \/ rpc = "get" /\ readq = <<>>
  \/ rpc = "read"

(* The mixer task is above the reader task, and both are above the tasks   *)
(* of the GUI and of the game.                                             *)
ReaderTurn == Priorities => MixerBlocked
ClientTurn == Priorities => MixerBlocked /\ ReaderBlocked

ReaderStep == ReaderTurn /\ Reader /\ UNCHANGED mixVars

(* A client's osMessageQueuePut with timeout 0.                            *)
Post(ev) ==
  /\ mixevq' = PutEv(mixevq, ev)
  /\ UNCHANGED <<flacVars, state, mixpc, ctrl, loop_count, pcm_pos, cached,
                 frame, num_read, eof, music, freehalf, dma, lastmix>>

-----------------------------------------------------------------------------
(* Properties.                                                             *)

MaxHalf == (NBlocks \div FRAME_BLOCKS) * FRAME_HALVES
Halves == [song : Songs \cup {NoSong}, half : 0 .. MaxHalf]

(* Types; mixevq stays within its depth and a song is played once or for   *)
(* ever.                                                                   *)
MixTypeOK ==
  /\ TypeOK
  /\ Len(mixevq) <= MIX_EV_DEPTH
  /\ state \in {"IDLE", "PLAY_REQ", "PLAY"}
  /\ mixpc \in {"get", "stopwait", "fill", "refill", "halt"}
  /\ loop_count \in {-1, 0}
  /\ pcm_pos \in Nat
  /\ cached \in 0 .. FRAME_HALVES
  /\ frame \in 0 .. FRAME_BLOCKS - 1
  /\ num_read \in 0 .. 2
  /\ eof \in BOOLEAN
  /\ music \in [{0, 1} -> Halves]
  /\ {freehalf, dma} \subseteq {0, 1}
  /\ lastmix \in -1 .. MaxHalf

(* The file has been closed but its READER_STOP was dropped at a full      *)
(* readq: the reader works on.                                             *)
StopLost ==
  /\ reader_status = "RUNNING"
  /\ pflac = NoSong
  /\ "READER_STOP" \notin {readq[i] : i \in DOMAIN readq}

(* MIX_PLAY after MIX_HALT: the only way not to get past the wait for the  *)
(* reader is that the halt's READER_STOP was dropped.                      *)
ServedUnlessStopLost ==
  (mixpc = "stopwait") ~> (mixpc # "stopwait" \/ StopLost)

(* "MIX_PLAY: Bad state" is never reached: a play request finds an idle    *)
(* player.                                                                 *)
PlayFindsIdle == mixpc = "stopwait" => state = "IDLE"

(* "First half of output buffer has became available. Fill that space with *)
(* music and sound data": freebuffer_ptr, which each request moves on by   *)
(* one half, and the DMA stay in phase: with the halves of the open        *)
(* requests filled, the next one is the half the DMA will free next.       *)
InPhase == freehalf = (dma + OpenRequests) % 2

Mixing == freehalf' # freehalf

(* What is decoded while a song plays is mixed without a gap: after the    *)
(* second half decoded by MIX_DATA_REQ, each one follows the one before.   *)
MixesOnward ==
  [][RefillMix => lastmix' = lastmix + 1 \/ (lastmix < 2 /\ lastmix' = 2)]_mixVars

(* Music that is mixed was decoded from the file that is open, never from  *)
(* what the reader had fetched of the song before.                         *)
MixesOpenSong ==
  [][RefillMix \/ (RequestPending /\ state' = "PLAY")
       => music[ctrl'.option].song = pfile.song /\ pfile.open]_mixVars
=============================================================================
