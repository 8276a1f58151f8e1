----------------------------- MODULE Screenshot -----------------------------
(***************************************************************************)
(* Screenshots: the GUI task feeds the JPEG codec with the lines of the    *)
(* screen (src/App/jpeg_if.c), the codec's interrupts hand over pages of   *)
(* output, and the screenshot task (src/App/app_main.c) writes each page   *)
(* to the card and gives the one output buffer back.                       *)
(*                                                                         *)
(* A chunk is MAX_INPUT_LINES lines; a page is one filling of the output   *)
(* buffer. The codec and its HAL driver are modelled by what they do with  *)
(* the pauses and callbacks of this code.                                  *)
(***************************************************************************)
EXTENDS Integers, Sequences

CONSTANTS
  Chunks,       (* chunks of a screen (h / MAX_INPUT_LINES)                *)
  PageChunks,   (* a page takes more chunks than this: 2 for chunks of at  *)
                (* most 38400 bytes, compressed to less than half, and     *)
                (* pages of JPEG_OBSIZE = 40960                            *)
  SHOTQ_DEPTH,
  Shots         (* bound on the screenshots taken                          *)

ASSUME ScreenshotAssumption ==
  /\ Chunks \in Nat \ {0}
  /\ PageChunks \in Nat /\ PageChunks >= 2
  /\ SHOTQ_DEPTH \in Nat /\ SHOTQ_DEPTH >= 4     \* 6
  /\ Shots \in Nat \ {0}

VARIABLES
  gui,          (* where the GUI task is in save_jpeg_start, save_jpeg_data*)
  shots,        (* screenshots begun                                       *)
  line,         (* turns of the feeding loop done (ch / MAX_INPUT_LINES)   *)
  got,          (* flags                                                   *)
  encoder_flag, (* the event flags                                         *)
  sem_encoder, sem_jpegbuf,
  dev,          (* JpegDeviceInfo                                          *)
  hal,          (* the codec and its driver                                *)
  shotq,
  writing,      (* the screenshot task is in f_write                       *)
  file          (* the file it has open                                    *)

shotVars == <<gui, shots, line, got, encoder_flag, sem_encoder, sem_jpegbuf, dev,
              hal, shotq, writing, file>>

EncoderFlags == {"DATAREQ", "DATAREADY", "COMPLETE"}
Closed == [open |-> FALSE, shot |-> 0, pages |-> <<>>]

ShotInit ==
  /\ gui = "idle" /\ shots = 0 /\ line = 0
  /\ got = {} /\ encoder_flag = {}
  /\ sem_encoder = 1 /\ sem_jpegbuf = 1
  /\ dev = [Input_Is_Paused |-> FALSE, Output_Is_Paused |-> FALSE, outFull |-> FALSE]
  /\ hal = [on |-> FALSE, pauseIn |-> FALSE, pauseOut |-> FALSE, taken |-> 0,
            page |-> 1, fits |-> FALSE, late |-> FALSE]
  /\ shotq = <<>> /\ writing = FALSE /\ file = Closed

(* postShotRequest                                                         *)
Posted(q, cmd) == IF Len(q) < SHOTQ_DEPTH THEN Append(q, cmd) ELSE q

----------------------------------------------------------------------------
(* The GUI task.                                                           *)

(* save_jpeg_start                                                         *)
SaveStart ==
  /\ gui = "idle" /\ shots < Shots
  /\ sem_encoder = 1
  /\ sem_encoder' = 0
  /\ dev' = [Input_Is_Paused |-> FALSE, Output_Is_Paused |-> FALSE, outFull |-> FALSE]
  /\ shots' = shots + 1
  /\ shotq' = Posted(shotq, "CREATE")
  /\ gui' = "start"
  /\ UNCHANGED <<line, got, encoder_flag, sem_jpegbuf, hal, writing, file>>

(* Mutant: does not wait for the buffer of the screenshot before.          *)
SaveDataAtOnce ==
  /\ gui = "start"
  /\ sem_jpegbuf' = 0
  /\ hal' = [on |-> TRUE, pauseIn |-> FALSE, pauseOut |-> FALSE, taken |-> 0,
             page |-> 1, fits |-> FALSE, late |-> FALSE]
  /\ line' = 0
  /\ gui' = "wait"
  /\ UNCHANGED <<shots, got, encoder_flag, sem_encoder, dev, shotq, writing, file>>

(* save_jpeg_data: the first chunk starts the codec ...                    *)
SaveData ==
  /\ gui = "start"
  /\ sem_jpegbuf = 1
  /\ sem_jpegbuf' = 0
  /\ hal' = [on |-> TRUE, pauseIn |-> FALSE, pauseOut |-> FALSE, taken |-> 0,
             page |-> 1, fits |-> FALSE, late |-> FALSE]
  /\ line' = 0
  /\ gui' = "wait"
  /\ UNCHANGED <<shots, got, encoder_flag, sem_encoder, dev, shotq, writing, file>>

(* ... osEventFlagsWait takes all flags that are set ...                   *)
TakeFlags ==
  /\ gui \in {"wait", "tail"}
  /\ encoder_flag # {}
  /\ got' = encoder_flag
  /\ encoder_flag' = {}
  /\ gui' = IF gui = "wait" THEN "feed"
            ELSE IF "COMPLETE" \in encoder_flag THEN "idle" ELSE "tail"
  /\ UNCHANGED <<shots, line, sem_encoder, sem_jpegbuf, dev, hal, shotq, writing, file>>

(* ... DATAREQ: HAL_JPEG_Resume of the input with the next chunk ...       *)
Feed ==
  /\ gui = "feed"
  /\ IF "DATAREQ" \in got /\ dev.Input_Is_Paused
     THEN /\ dev' = [dev EXCEPT !.Input_Is_Paused = FALSE]
          /\ hal' = [hal EXCEPT !.pauseIn = FALSE]
     ELSE UNCHANGED <<dev, hal>>
  /\ gui' = "drain"
  /\ UNCHANGED <<shots, line, got, encoder_flag, sem_encoder, sem_jpegbuf, shotq,
                 writing, file>>

(* The end of the loop over the lines, or of the loop within it.           *)
LoopEnd ==
  IF got \cap {"DATAREQ", "COMPLETE"} = {}
  THEN gui' = "wait" /\ UNCHANGED line
  ELSE /\ line' = line + 1
       /\ gui' = IF line + 1 < Chunks THEN "wait"
                 ELSE IF "COMPLETE" \in got THEN "idle" ELSE "tail"

(* Mutant: closes before it writes.                                        *)
CloseFirst(q) == Posted(Posted(q, "CLOSE"), "WRITE")

(* HAL_JPEG_EncodeCpltCallback, after the callback for the last page.      *)
LastPage(q) == Posted(Posted(q, "WRITE"), "CLOSE")

(* ... DATAREADY: HAL_JPEG_Resume of the output, which also ends what the  *)
(* codec had left when it stopped.                                         *)
MayResume == "DATAREADY" \in got /\ dev.Output_Is_Paused /\ dev.outFull

Drain ==
  /\ gui = "drain"
  /\ ~MayResume
  /\ LoopEnd
  /\ UNCHANGED <<shots, got, encoder_flag, sem_encoder, sem_jpegbuf, dev, hal, shotq,
                 writing, file>>

Resumed == [dev EXCEPT !.Output_Is_Paused = FALSE, !.outFull = FALSE]

DrainResume ==
  /\ gui = "drain"
  /\ MayResume
  /\ \/ /\ ~hal.on               \* nothing to resume: HAL_ERROR
        /\ dev' = Resumed
        /\ UNCHANGED <<hal, shotq, encoder_flag, sem_encoder>>
     \/ /\ hal.on /\ ~hal.late
        /\ hal' = [hal EXCEPT !.pauseOut = FALSE, !.fits = FALSE, !.page = @ + 1]
        /\ dev' = Resumed
        /\ UNCHANGED <<shotq, encoder_flag, sem_encoder>>
     \/ /\ hal.on /\ hal.late      \* its callbacks pause again
        /\ hal' = [hal EXCEPT !.on = FALSE, !.page = @ + 1]
        /\ shotq' = LastPage(shotq)
        /\ encoder_flag' = encoder_flag \cup {"COMPLETE"}
        /\ sem_encoder' = 1
        /\ UNCHANGED dev
  /\ LoopEnd
  /\ UNCHANGED <<shots, got, sem_jpegbuf, writing, file>>

----------------------------------------------------------------------------
(* The codec's interrupts.                                                 *)

(* HAL_JPEG_GetDataCallback: the chunk has gone into the codec. While its  *)
(* output is paused it takes no more than what fits into its pipeline.     *)
GetData ==
  /\ hal.on /\ ~hal.pauseIn /\ ~hal.late
  /\ hal.taken < Chunks
  /\ ~hal.pauseOut \/ hal.fits
  /\ hal' = [hal EXCEPT !.pauseIn = TRUE, !.taken = @ + 1, !.fits = FALSE]
  /\ dev' = [dev EXCEPT !.Input_Is_Paused = TRUE]
  /\ encoder_flag' = encoder_flag \cup {"DATAREQ"}
  /\ UNCHANGED <<gui, shots, line, got, sem_encoder, sem_jpegbuf, shotq, writing, file>>

(* The chunks the codec has, or has begun to take.                         *)
ChunksBegun ==
  hal.taken + (IF hal.pauseIn \/ hal.taken = Chunks THEN 0 ELSE 1)

(* HAL_JPEG_DataReadyCallback: a page is full. The rest of the chunk that  *)
(* is going in may fit into the pipeline, or it may not.                   *)
DataReady ==
  /\ hal.on /\ ~hal.pauseOut /\ ~hal.late
  /\ PageChunks * hal.page < ChunksBegun
  /\ \E fits \in BOOLEAN :
       hal' = [hal EXCEPT !.pauseOut = TRUE, !.fits = fits /\ ~hal.pauseIn]
  /\ dev' = [dev EXCEPT !.Output_Is_Paused = TRUE, !.outFull = TRUE]
  /\ shotq' = Posted(shotq, "WRITE")
  /\ UNCHANGED <<gui, shots, line, got, encoder_flag, sem_encoder, sem_jpegbuf, writing,
                 file>>

(* The end of the image: the last page, not full, and                      *)
(* HAL_JPEG_EncodeCpltCallback ...                                         *)
EncodeCplt ==
  /\ hal.on /\ ~hal.pauseOut /\ hal.taken = Chunks
  /\ hal' = [hal EXCEPT !.on = FALSE]
  /\ dev' = [dev EXCEPT !.Output_Is_Paused = TRUE, !.outFull = TRUE]
  /\ shotq' = LastPage(shotq)
  /\ sem_encoder' = 1
  /\ encoder_flag' = encoder_flag \cup {"COMPLETE"}
  /\ UNCHANGED <<gui, shots, line, got, sem_jpegbuf, writing, file>>

(* ... or, when the page is full and less than the codec's fifo is left,   *)
(* the driver hands over the full page again and waits for the output.     *)
EndWhilePaused ==
  /\ hal.on /\ hal.pauseOut /\ ~hal.late /\ hal.taken = Chunks
  /\ hal' = [hal EXCEPT !.late = TRUE]
  /\ dev' = [dev EXCEPT !.Output_Is_Paused = TRUE, !.outFull = TRUE]
  /\ shotq' = Posted(shotq, "WRITE")
  /\ UNCHANGED <<gui, shots, line, got, encoder_flag, sem_encoder, sem_jpegbuf, writing,
                 file>>

----------------------------------------------------------------------------
(* StartShotTask. CreateJpegFile may fail: the pages are then dropped.     *)

Takes(cmd) == ~writing /\ shotq # <<>> /\ Head(shotq) = cmd /\ shotq' = Tail(shotq)

Create ==
  /\ Takes("CREATE")
  /\ \E ok \in BOOLEAN :
       file' = IF ok THEN [open |-> TRUE, shot |-> shots, pages |-> <<>>] ELSE Closed
  /\ UNCHANGED <<gui, shots, line, got, encoder_flag, sem_encoder, sem_jpegbuf, dev, hal,
                 writing>>

Write ==
  /\ Takes("WRITE")
  /\ writing' = TRUE
  /\ UNCHANGED <<gui, shots, line, got, encoder_flag, sem_encoder, sem_jpegbuf, dev, hal,
                 file>>

(* Mutant: the event is not set.                                           *)
WriteNotDone ==
  /\ writing
  /\ writing' = FALSE
  /\ file' = IF file.open THEN [file EXCEPT !.pages = Append(@, hal.page)] ELSE file
  /\ UNCHANGED <<gui, shots, line, got, encoder_flag, sem_encoder, sem_jpegbuf, dev, hal,
                 shotq>>

(* save_jpeg_write_done                                                    *)
WriteDone ==
  /\ writing
  /\ writing' = FALSE
  /\ file' = IF file.open THEN [file EXCEPT !.pages = Append(@, hal.page)] ELSE file
  /\ encoder_flag' = encoder_flag \cup {"DATAREADY"}
  /\ UNCHANGED <<gui, shots, line, got, sem_encoder, sem_jpegbuf, dev, hal, shotq>>

(* save_jpeg_finish                                                        *)
Close ==
  /\ Takes("CLOSE")
  /\ file' = Closed
  /\ sem_jpegbuf' = 1
  /\ UNCHANGED <<gui, shots, line, got, encoder_flag, sem_encoder, dev, hal, writing>>

----------------------------------------------------------------------------
GuiStep == SaveStart \/ SaveData \/ TakeFlags \/ Feed \/ Drain \/ DrainResume
GuiWork == SaveData \/ TakeFlags \/ Feed \/ Drain \/ DrainResume
Codec == GetData \/ DataReady \/ EncodeCplt \/ EndWhilePaused

----------------------------------------------------------------------------
(* Properties.                                                             *)

(* Types; shotq stays within its depth, and no turn of the feeding loop is *)
(* made beyond the last line.                                              *)
ShotTypeOK ==
  /\ gui \in {"idle", "start", "wait", "feed", "drain", "tail"}
  /\ shots \in 0 .. Shots /\ line \in 0 .. Chunks
  /\ got \subseteq EncoderFlags /\ encoder_flag \subseteq EncoderFlags
  /\ sem_encoder \in 0 .. 1 /\ sem_jpegbuf \in 0 .. 1
  /\ dev \in [Input_Is_Paused: BOOLEAN, Output_Is_Paused: BOOLEAN, outFull: BOOLEAN]
  /\ hal \in [on: BOOLEAN, pauseIn: BOOLEAN, pauseOut: BOOLEAN, taken: 0 .. Chunks,
              page: 1 .. Chunks, fits: BOOLEAN, late: BOOLEAN]
  /\ shotq \in Seq({"CREATE", "WRITE", "CLOSE"}) /\ Len(shotq) <= SHOTQ_DEPTH
  /\ writing \in BOOLEAN
  /\ file.open \in BOOLEAN /\ file.shot \in 0 .. Shots

WritePending == writing \/ \E i \in DOMAIN shotq : shotq[i] = "WRITE"

(* The output buffer is not stored into while a page of it waits for, or   *)
(* is in, f_write: DATAREADY events that come late, of this screenshot or  *)
(* of the one before, never restart the output too early.                  *)
BufferHeld == WritePending => ~hal.on \/ hal.pauseOut

(* A file that is closed holds all pages of its own screenshot, each once, *)
(* in order. Left out are screenshots the codec ended on a full page: there *)
(* the driver hands it over a second time (EndWhilePaused).                *)
FilesComplete ==
  [][file.open /\ ~file'.open /\ ~hal.late
       => file.pages = [p \in 1 .. hal.page |-> p]]_shotVars
=============================================================================
