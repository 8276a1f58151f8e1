----------------------------- MODULE FlacReader -----------------------------
(***************************************************************************)
(* The read-ahead pipeline of the music player (src/App/mix_player.c).     *)
(*                                                                         *)
(* Two tasks share it.  The reader task (StartReaderTask) takes commands   *)
(* from flacreadq and fills a ring of READB_FACTOR buffers from the SD     *)
(* card; readsem counts the free buffers, sendsem the filled ones.  The    *)
(* mixer task runs the FLAC decoder, whose callbacks open the file, take   *)
(* filled buffers in order, seek and close.  This module leaves open when  *)
(* the mixer task calls them (MixPlayer.tla says when); it keeps what one  *)
(* MIX_PLAY fixes, that opening waits for a stopped reader and is followed *)
(* by a read.                                                              *)
(*                                                                         *)
(* A file is a sequence of NBlocks blocks of DR_FLAC_BUFFER_SIZE bytes;    *)
(* the bytes of a block are its song and its number.                       *)
(***************************************************************************)
EXTENDS Integers, Sequences

CONSTANTS
  Songs, NoSong, NBlocks, SeekTargets,
  READB_FACTOR,     (* buffers in the ring                                 *)
  MIXREADQ_DEPTH,   (* capacity of flacreadq                               *)
  CardErrors        (* TRUE: f_open, and f_read on an open file, may fail   *)

ASSUME SongAssumption == NoSong \notin Songs
ASSUME NBlocksAssumption == NBlocks \in Nat
ASSUME SeekAssumption == SeekTargets \subseteq 0 .. NBlocks
ASSUME FactorAssumption == READB_FACTOR \in Nat \ {0}
ASSUME DepthAssumption == MIXREADQ_DEPTH \in Nat \ {0, 1}
ASSUME CardAssumption == CardErrors \in BOOLEAN

VARIABLES
  readq,          (* flacreadq, the reader's commands                      *)
  readsem,        (* count of readsemId: free buffers                      *)
  sendsem,        (* count of sendsemId: filled buffers                    *)
  buffer,         (* flac_reader_buffer: what each ring slot holds         *)
  read_index,     (* slot the reader fills next, -1: reader not started    *)
  send_index,     (* slot the decoder takes next, -1: end of stream seen   *)
  reader_status,  (* READER_STOPPED or READER_RUNNING                      *)
  rpc,            (* where the reader task is                              *)
  pfile,          (* FlacFile: is it open, on which song, at which block   *)
  mpc,            (* where the mixer task is in the callbacks              *)
  pflac,          (* the song being decoded, NoSong: pflac == NULL         *)
  expect,         (* block the decoder's stream position stands at         *)
  got             (* result of the last onRead of a whole buffer           *)

readerVars == <<readq, readsem, sendsem, buffer, read_index, send_index,
                reader_status, rpc, pfile>>
decoderVars == <<mpc, pflac, expect, got>>
flacVars == <<readerVars, decoderVars>>

Stream == INSTANCE FlacStream WITH song <- pflac, pos <- expect

Block(s, k) == [song |-> s, blk |-> k]
EndOf(s) == Block(s, NBlocks)
NoBlock == [song |-> NoSong, blk |-> 0]
IsData(b) == b.blk < NBlocks
Slots == 0 .. READB_FACTOR - 1

Commands == {"READER_START", "READ_BUFFER", "READER_STOP"}

PutCmdShort(q, cmd) ==
  IF Len(q) < MIXREADQ_DEPTH - 1 THEN Append(q, cmd) ELSE q

(* osMessageQueuePut with timeout 0: a full queue drops the message.       *)
PutCmd(q, cmd) == IF Len(q) < MIXREADQ_DEPTH THEN Append(q, cmd) ELSE q

(* osSemaphoreRelease: refused when the count is at its maximum.           *)
Release(count) == IF count < READB_FACTOR THEN count + 1 ELSE count

(* x++; if (x == READB_FACTOR) x = 0;                                      *)
Advance(i) == IF i + 1 = READB_FACTOR THEN 0 ELSE i + 1

Init ==
  /\ readq = <<>>
  /\ readsem = READB_FACTOR
  /\ sendsem = 0
  /\ buffer = [i \in Slots |-> NoBlock]
  /\ read_index = 0
  /\ send_index = 0
  /\ reader_status = "STOPPED"
  /\ rpc = "get"
  /\ pfile = [open |-> FALSE, song |-> NoSong, pos |-> 0]
  /\ mpc = "run"
  /\ pflac = NoSong
  /\ expect = 0
  /\ got = NoBlock

-----------------------------------------------------------------------------
(* The reader task.                                                        *)

(* Start of a session: the ring is empty and a first READ_BUFFER is posted *)
(* to the task itself.                                                     *)
ReaderStart ==
  /\ rpc = "get"
  /\ readq # <<>>
  /\ Head(readq) = "READER_START"
  /\ IF reader_status = "STOPPED"
     THEN /\ reader_status' = "RUNNING"
          /\ read_index' = 0
          /\ send_index' = 0
          /\ readq' = PutCmd(Tail(readq), "READ_BUFFER")
     ELSE /\ readq' = Tail(readq)
          /\ UNCHANGED <<reader_status, read_index, send_index>>
  /\ UNCHANGED <<readsem, sendsem, buffer, rpc, pfile, decoderVars>>

MayReadAnyway == reader_status = "RUNNING"
MayRead == reader_status = "RUNNING" /\ readsem > 0

(* READ_BUFFER: ignored when stopped or when no buffer is free, otherwise  *)
(* the task goes on to read the file.                                      *)
ReaderTake ==
  /\ rpc = "get"
  /\ readq # <<>>
  /\ Head(readq) = "READ_BUFFER"
  /\ readq' = Tail(readq)
  /\ IF MayRead
     THEN readsem' = readsem - 1 /\ rpc' = "read"
     ELSE UNCHANGED <<readsem, rpc>>
  /\ UNCHANGED <<sendsem, buffer, read_index, send_index, reader_status, pfile,
                 decoderVars>>

(* f_read succeeds: the slot holds the block at the file position (the     *)
(* empty block at the end of the file) and is handed over.                 *)
ReaderFill ==
  /\ rpc = "read"
  /\ pfile.open
  /\ buffer' = [buffer EXCEPT ![read_index] = Block(pfile.song, pfile.pos)]
  /\ pfile' = [pfile EXCEPT !.pos = IF @ < NBlocks THEN @ + 1 ELSE @]
  /\ read_index' = Advance(read_index)
  /\ sendsem' = Release(sendsem)
  /\ rpc' = IF pfile.pos < NBlocks THEN "more" ELSE "get"
  /\ UNCHANGED <<readq, readsem, send_index, reader_status, decoderVars>>

(* f_read fails, on a closed file or on an I/O error: nothing but a        *)
(* message on the console.  The free buffer that was taken is not returned.*)
ReaderError ==
  /\ rpc = "read"
  /\ ~pfile.open \/ CardErrors
  /\ rpc' = "get"
  /\ UNCHANGED <<readq, readsem, sendsem, buffer, read_index, send_index,
                 reader_status, pfile, decoderVars>>

(* After a block with data the task posts itself another READ_BUFFER while *)
(* buffers are free.                                                       *)
ReaderMore ==
  /\ rpc = "more"
  /\ rpc' = "get"
  /\ readq' = IF readsem > 0 THEN PutCmd(readq, "READ_BUFFER") ELSE readq
  /\ UNCHANGED <<readsem, sendsem, buffer, read_index, send_index,
                 reader_status, pfile, decoderVars>>

FreeKept == readsem
FreeAfterStop == READB_FACTOR
FilledKept == sendsem
FilledAfterStop == 0

(* READER_STOP: both semaphores and the indices go back to an empty ring.  *)
ReaderStop ==
  /\ rpc = "get"
  /\ readq # <<>>
  /\ Head(readq) = "READER_STOP"
  /\ readq' = Tail(readq)
  /\ readsem' = FreeAfterStop
  /\ sendsem' = FilledAfterStop
  /\ read_index' = -1
  /\ send_index' = 0
  /\ reader_status' = "STOPPED"
  /\ UNCHANGED <<buffer, rpc, pfile, decoderVars>>

Reader ==
  \/ ReaderStart
  \/ ReaderTake
  \/ ReaderFill
  \/ ReaderError
  \/ ReaderMore
  \/ ReaderStop

-----------------------------------------------------------------------------
(* The decoder's callbacks, run by the mixer task.                         *)

ReadyAtOnce == TRUE
ReadyToOpen == reader_status = "STOPPED"

(* MIX_PLAY waits until the reader is stopped, then opens the file; the    *)
(* metadata is read past directly.  A file that cannot be opened leaves    *)
(* pflac NULL.                                                             *)
OpenOk(s) ==
  /\ mpc = "run"
  /\ ReadyToOpen
  /\ pfile' = [open |-> TRUE, song |-> s, pos |-> 0]
  /\ read_index' = -1
  /\ pflac' = s
  /\ expect' = 0
  /\ mpc' = "opened"
  /\ UNCHANGED <<readq, readsem, sendsem, buffer, send_index, reader_status,
                 rpc, got>>

OpenFail ==
  /\ CardErrors
  /\ mpc = "run"
  /\ ReadyToOpen
  /\ pfile' = [pfile EXCEPT !.open = FALSE]
  /\ read_index' = -1
  /\ pflac' = NoSong
  /\ UNCHANGED <<readq, readsem, sendsem, buffer, send_index, reader_status,
                 rpc, mpc, expect, got>>

(* onRead of a whole buffer: past the end of the stream it returns nothing,*)
(* otherwise it asks the reader to start or to go on and waits.            *)
OnReadEnd ==
  /\ mpc \in {"run", "opened"}
  /\ pflac # NoSong
  /\ send_index < 0
  /\ got' = EndOf(pflac)
  /\ mpc' = "run"
  /\ UNCHANGED <<readerVars, pflac, expect>>

AlwaysGoOn == "READ_BUFFER"
StartOrGoOn == IF read_index < 0 THEN "READER_START" ELSE "READ_BUFFER"

OnRead ==
  /\ mpc \in {"run", "opened"}
  /\ pflac # NoSong
  /\ send_index >= 0
  /\ readq' = PutCmd(readq, StartOrGoOn)
  /\ mpc' = "wait"
  /\ UNCHANGED <<readsem, sendsem, buffer, read_index, send_index,
                 reader_status, rpc, pfile, pflac, expect, got>>

(* The wait for sendsem: first with a time-out, then forever.              *)
OnReadAcquire ==
  /\ mpc = "wait"
  /\ sendsem > 0
  /\ sendsem' = sendsem - 1
  /\ mpc' = "copy"
  /\ UNCHANGED <<readq, readsem, buffer, read_index, send_index,
                 reader_status, rpc, pfile, pflac, expect, got>>

(* The buffer is copied out and given back; an empty one marks the end of  *)
(* the stream.                                                             *)
OnReadCopy ==
  /\ mpc = "copy"
  /\ LET bdesc == buffer[send_index]
     IN /\ got' = bdesc
        /\ send_index' = IF IsData(bdesc) THEN Advance(send_index) ELSE -1
        /\ expect' = IF expect < NBlocks THEN expect + 1 ELSE expect
  /\ readsem' = Release(readsem)
  /\ mpc' = "run"
  /\ UNCHANGED <<readq, sendsem, buffer, read_index, reader_status, rpc,
                 pfile, pflac>>

(* onSeek moves the file position, and nothing else.                       *)
OnSeek(t) ==
  /\ mpc = "run"
  /\ pflac # NoSong
  /\ pfile' = [pfile EXCEPT !.pos = t]
  /\ expect' = t
  /\ UNCHANGED <<readq, readsem, sendsem, buffer, read_index, send_index,
                 reader_status, rpc, mpc, pflac, got>>

(* drflac_close_fatfs: the reader is told to stop and the file is closed   *)
(* without waiting for it.                                                 *)
CloseSend ==
  /\ mpc = "run"
  /\ pflac # NoSong
  /\ readq' = PutCmd(readq, "READER_STOP")
  /\ mpc' = "close"
  /\ UNCHANGED <<readsem, sendsem, buffer, read_index, send_index,
                 reader_status, rpc, pfile, pflac, expect, got>>

CloseFile ==
  /\ mpc = "close"
  /\ pfile' = [pfile EXCEPT !.open = FALSE]
  /\ pflac' = NoSong
  /\ mpc' = "run"
  /\ UNCHANGED <<readq, readsem, sendsem, buffer, read_index, send_index,
                 reader_status, rpc, expect, got>>

Decoder ==
  \/ \E s \in Songs : OpenOk(s)
  \/ OpenFail
  \/ OnReadEnd
  \/ OnRead
  \/ OnReadAcquire
  \/ OnReadCopy
  \/ \E t \in SeekTargets : OnSeek(t)
  \/ CloseSend
  \/ CloseFile

Next == Reader \/ Decoder

Spec == Init /\ [][Next]_flacVars

(* The two tasks keep running; neither the GUI nor a reader of the card is *)
(* obliged to do anything.                                                 *)
Fairness ==
  /\ WF_flacVars(Reader)
  /\ WF_flacVars(OnReadAcquire)
  /\ WF_flacVars(OnReadCopy)
  /\ WF_flacVars(CloseFile)

FairSpec == Spec /\ Fairness

-----------------------------------------------------------------------------
(* Properties.                                                             *)

(* Types; the semaphores and the queue stay within what they were created  *)
(* with, and the indices within the ring.                                  *)
TypeOK ==
  /\ readq \in Seq(Commands)
  /\ Len(readq) <= MIXREADQ_DEPTH
  /\ readsem \in 0 .. READB_FACTOR
  /\ sendsem \in 0 .. READB_FACTOR
  /\ buffer \in [Slots -> [song : Songs \cup {NoSong}, blk : 0 .. NBlocks]]
  /\ read_index \in Slots \cup {-1}
  /\ send_index \in Slots \cup {-1}
  /\ reader_status \in {"STOPPED", "RUNNING"}
  /\ rpc \in {"get", "read", "more"}
  /\ pfile \in [open : BOOLEAN, song : Songs \cup {NoSong}, pos : 0 .. NBlocks]
  /\ mpc \in {"run", "opened", "wait", "copy", "close"}
  /\ pflac \in Songs \cup {NoSong}
  /\ expect \in 0 .. NBlocks
  /\ got \in [song : Songs \cup {NoSong}, blk : 0 .. NBlocks]

Held(pc, at) == IF pc = at THEN 1 ELSE 0
Filled == sendsem + Held(mpc, "copy")
Claimed == Filled + Held(rpc, "read")
Session == pflac # NoSong /\ mpc # "close"

(* The two counting semaphores never promise more buffers than the ring    *)
(* has: free buffers, filled buffers, the one the reader is filling and    *)
(* the one the decoder is copying are different ones.                      *)
NoOvercommit == readsem + Claimed <= READB_FACTOR

(* While a file is being decoded and the card does not fail, no buffer is  *)
(* lost either: a leaked one would stall the music after a few blocks.     *)
NoBufferLost ==
  (Session /\ ~CardErrors) => readsem + Claimed = READB_FACTOR

(* The reader never fills the buffer the decoder is copying out of         *)
(* (flac_reader_buffer is shared and not locked).                          *)
NoSlotRace == ~(rpc = "read" /\ mpc = "copy" /\ read_index = send_index)

(* The reader never fills a slot with no index, and never works for a file *)
(* after its READER_STOP.                                                  *)
ReaderIndexed == rpc = "read" => read_index \in Slots /\ reader_status = "RUNNING"

(* A decoder waiting for a filled buffer (with no time-out that ends the   *)
(* wait) always has the reader at work or a command queued for it.         *)
NoLostWakeup ==
  (mpc = "wait" /\ sendsem = 0 /\ ~CardErrors) => rpc # "get" \/ readq # <<>>

(* The decoder sees the open file as one gap-free stream in file order,    *)
(* its end exactly at the end of the file, whatever the reader prefetched. *)
ReadsTheStream == Stream!StreamSpec

(* Every read of the decoder is answered.                                  *)
ReadsAnswered == (mpc = "wait") ~> (mpc # "wait")

-----------------------------------------------------------------------------
(* The inductive invariant the proofs rest on.                             *)

Ahead(i, n) == IF i + n < READB_FACTOR THEN i + n ELSE i + n - READB_FACTOR

(* What the modes of the two tasks allow of each other.                    *)
ModesAgree ==
  /\ pflac = NoSong => mpc = "run"
  /\ Session => pfile.open
  /\ mpc = "opened" => reader_status = "STOPPED" /\ read_index = -1
  /\ mpc \in {"wait", "copy"} => send_index \in Slots
  /\ reader_status = "RUNNING" => read_index \in Slots
  /\ reader_status = "STOPPED" =>
       /\ rpc = "get"
       /\ readsem = READB_FACTOR
       /\ sendsem = 0
       /\ send_index = 0
       /\ mpc # "copy"
       /\ mpc = "run" => pflac = NoSong

(* READER_START is only queued for a stopped reader, as the last command,  *)
(* while the decoder waits; there is one READER_STOP at most, queued for a *)
(* running reader whose file is being closed.                              *)
QueueInOrder ==
  /\ \A i \in 1 .. Len(readq) : readq[i] = "READER_START" =>
       i = Len(readq) /\ mpc = "wait" /\ reader_status = "STOPPED"
  /\ \A i \in 1 .. Len(readq) : readq[i] = "READER_STOP" =>
       /\ reader_status = "RUNNING"
       /\ mpc = "close" \/ pflac = NoSong
       /\ \A j \in 1 .. Len(readq) : readq[j] = "READER_STOP" => j = i
  /\ reader_status = "STOPPED" /\ mpc = "wait" =>
       readq # <<>> /\ readq[Len(readq)] = "READER_START"
  /\ reader_status = "STOPPED" /\ mpc # "wait" => Len(readq) < MIXREADQ_DEPTH

(* The reader fills the slot after the filled ones.                        *)
RingInOrder ==
  reader_status = "RUNNING" /\ send_index \in Slots
    => read_index = Ahead(send_index, Filled)

(* Slots that are filled hold the next blocks of the open file.            *)
Sooner(k) == IF k < NBlocks THEN k ELSE NBlocks
ContentsInOrder ==
  Session =>
    /\ pfile.song = pflac
    /\ send_index = -1 => expect = NBlocks
    /\ send_index \in Slots =>
         /\ pfile.pos = Sooner(expect + Filled)
         /\ \A k \in 0 .. Filled - 1 :
              buffer[Ahead(send_index, k)] = Block(pflac, Sooner(expect + k))

(* Modes, queue, counters and ring agree: what makes it safe that the two  *)
(* tasks share FLACINFO and the ring with two semaphores and no lock.      *)
PipelineInv ==
  /\ TypeOK
  /\ ModesAgree
  /\ QueueInOrder
  /\ NoOvercommit
  /\ NoBufferLost
  /\ RingInOrder
  /\ NoLostWakeup
=============================================================================
