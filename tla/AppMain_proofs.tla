--------------------------- MODULE AppMain_proofs ---------------------------
(***************************************************************************)
(* Theorems about AppMain.  A game that the boot check offers is whole,    *)
(* for every list of files, every layout of them in the erase blocks, any  *)
(* number of copies, failures and power losses.  The buffer of the         *)
(* screenshots is not stored into while a page of it is written, and a     *)
(* file that is closed has all pages (ShotStep; PagesStep and              *)
(* ClosedIsComplete), whatever the rest of the program does.  And the      *)
(* reset at the end of a game waits for the screenshots that were begun    *)
(* before.                                                                 *)
(*                                                                         *)
(* The check reads only the WAD.  What makes it enough is the order of     *)
(* copying: as long as any file is missing the WAD, the last one, is       *)
(* missing too, and before the files the header is.                        *)
(***************************************************************************)
EXTENDS AppMain, TLAPS

----------------------------------------------------------------------------
(***************************************************************************)
(* The screenshots alone: lemmas for any number of chunks, pages and       *)
(* screenshots.                                                            *)
(*                                                                         *)
(* A DATAREADY of the screenshot before may be taken for one of this one.  *)
(* It does no harm because it is gone by the time the first page is full:  *)
(* it was set before the codec began, the first turn of the feeding loop   *)
(* takes it, and a page takes more than the two chunks fed until then.     *)
(***************************************************************************)

Commands == {"CREATE", "WRITE", "CLOSE"}
Has(q, cmd) == \E i \in DOMAIN q : q[i] = cmd

(* Nothing is to be written or closed behind a CLOSE.                      *)
CloseIsLast(q) ==
  \A i, j \in DOMAIN q : i < j /\ q[i] = "CLOSE" => q[j] \notin {"CLOSE", "WRITE"}

OneWrite(q) == \A i, j \in DOMAIN q : q[i] = "WRITE" /\ q[j] = "WRITE" => i = j

----------------------------------------------------------------------------
(* The inductive invariant.                                                *)

(* The types of what the argument looks into.                              *)
ShotTypes ==
  /\ dev \in [Input_Is_Paused: BOOLEAN, Output_Is_Paused: BOOLEAN, outFull: BOOLEAN]
  /\ hal \in [on: BOOLEAN, pauseIn: BOOLEAN, pauseOut: BOOLEAN, taken: Nat,
              page: Nat \ {0}, fits: BOOLEAN, late: BOOLEAN]
  /\ shotq \in Seq(Commands)
  /\ writing \in BOOLEAN

(* One screenshot at a time: the codec begins when the task that writes    *)
(* has seen the CLOSE of the screenshot before, behind which nothing is to *)
(* be written.                                                             *)
OneShot ==
  /\ hal.on => sem_encoder = 0 /\ sem_jpegbuf = 0 /\ ~Has(shotq, "CLOSE")
  /\ gui = "start" => ~hal.on /\ ~dev.outFull /\ sem_encoder = 0
  /\ sem_jpegbuf = 1 => ~Has(shotq, "CLOSE") /\ ~WritePending
  /\ CloseIsLast(shotq)

(* The GUI task has taken a DATAREADY that it has not looked at yet.       *)
Taken == gui \in {"feed", "drain"} /\ "DATAREADY" \in got

(* While the output runs, the DATAREADY of the screenshot before may still *)
(* be about, but the first page takes longer to fill than it is.           *)
OutputRuns ==
  hal.on /\ ~hal.pauseOut =>
    /\ ~WritePending /\ ~dev.outFull /\ ~hal.late
    /\ "DATAREADY" \in encoder_flag =>
         hal.page = 1 /\ gui = "wait" /\ ChunksBegun <= 1
    /\ Taken => hal.page = 1 /\ ChunksBegun <= (IF gui = "feed" THEN 1 ELSE 2)

(* While the output waits there is one thing that is to start it again: a  *)
(* page to be written, or the DATAREADY that tells that it was.            *)
OutputWaits ==
  hal.on /\ hal.pauseOut /\ ~hal.late =>
    /\ WritePending => "DATAREADY" \notin encoder_flag /\ ~Taken
    /\ "DATAREADY" \in encoder_flag => ~Taken
    /\ writing => ~Has(shotq, "WRITE")
    /\ OneWrite(shotq)

ShotInv == ShotTypes /\ OneShot /\ OutputRuns /\ OutputWaits

----------------------------------------------------------------------------
(* The queue.                                                              *)

LEMMA PostedAppends ==
  ASSUME NEW q \in Seq(Commands), NEW cmd \in Commands
  PROVE  /\ Posted(q, cmd) \in Seq(Commands)
         /\ \/ Posted(q, cmd) = q
            \/ /\ Len(Posted(q, cmd)) = Len(q) + 1
               /\ Posted(q, cmd)[Len(q) + 1] = cmd
               /\ \A i \in 1 .. Len(q) : Posted(q, cmd)[i] = q[i]
BY DEF Posted

(* What is not in the queue is not there after another command was posted, *)
(* and the order is kept if nothing is posted behind a CLOSE.              *)
LEMMA PostedKeeps ==
  ASSUME NEW q \in Seq(Commands), NEW cmd \in Commands
  PROVE  /\ \A d : ~Has(q, d) /\ d # cmd => ~Has(Posted(q, cmd), d)
         /\ CloseIsLast(q) /\ (cmd = "CREATE" \/ ~Has(q, "CLOSE"))
              => CloseIsLast(Posted(q, cmd))
         /\ cmd = "WRITE" /\ ~Has(q, "WRITE") => OneWrite(Posted(q, cmd))
<1> DEFINE p == Posted(q, cmd)
<1>1. CASE p = q
  BY <1>1 DEF CloseIsLast, OneWrite, Has
<1>2. CASE /\ p \in Seq(Commands) /\ Len(p) = Len(q) + 1 /\ p[Len(q) + 1] = cmd
           /\ \A i \in 1 .. Len(q) : p[i] = q[i]
  <2> HIDE DEF p
  <2>1. DOMAIN p = 1 .. Len(q) + 1 /\ DOMAIN q = 1 .. Len(q) /\ Len(q) \in Nat
    BY <1>2
  <2>2. \A d : ~Has(q, d) /\ d # cmd => ~Has(p, d)
    BY <1>2, <2>1 DEF Has
  <2>3. CloseIsLast(q) /\ (cmd = "CREATE" \/ ~Has(q, "CLOSE")) => CloseIsLast(p)
    BY <1>2, <2>1 DEF CloseIsLast, Has
  <2>4. cmd = "WRITE" /\ ~Has(q, "WRITE") => OneWrite(p)
    BY <1>2, <2>1 DEF OneWrite, Has
  <2>5. QED
    BY <2>2, <2>3, <2>4 DEF p
<1>3. QED
  BY <1>1, <1>2, PostedAppends

LEMMA TailKeeps ==
  ASSUME NEW q \in Seq(Commands), q # <<>>
  PROVE  /\ Tail(q) \in Seq(Commands)
         /\ Has(q, Head(q))
         /\ \A d : ~Has(q, d) => ~Has(Tail(q), d)
         /\ CloseIsLast(q) => CloseIsLast(Tail(q))
         /\ CloseIsLast(q) /\ Head(q) = "CLOSE"
              => ~Has(Tail(q), "CLOSE") /\ ~Has(Tail(q), "WRITE")
         /\ OneWrite(q) => OneWrite(Tail(q))
         /\ OneWrite(q) /\ Head(q) = "WRITE" => ~Has(Tail(q), "WRITE")
<1>1. /\ Tail(q) \in Seq(Commands) /\ Len(q) \in Nat \ {0}
      /\ DOMAIN q = 1 .. Len(q) /\ DOMAIN Tail(q) = 1 .. Len(q) - 1
      /\ Head(q) = q[1]
      /\ \A i \in 1 .. Len(q) - 1 : Tail(q)[i] = q[i + 1]
  OBVIOUS
<1> DEFINE t == Tail(q)
<1>2. /\ DOMAIN t = 1 .. Len(q) - 1
      /\ \A i \in DOMAIN t : i \in DOMAIN q /\ i + 1 \in DOMAIN q /\ t[i] = q[i + 1]
  BY <1>1
<1>3. Has(q, Head(q)) /\ 1 \in DOMAIN q
  BY <1>1 DEF Has
<1> HIDE DEF t
<1>4. \A d : ~Has(q, d) => ~Has(t, d)
  BY <1>2 DEF Has
<1>5. CloseIsLast(q) => CloseIsLast(t)
  BY <1>1, <1>2 DEF CloseIsLast
<1>6. CloseIsLast(q) /\ q[1] = "CLOSE" => ~Has(t, "CLOSE") /\ ~Has(t, "WRITE")
  BY <1>1, <1>2, <1>3 DEF CloseIsLast, Has
<1>7. OneWrite(q) => OneWrite(t)
  BY <1>1, <1>2 DEF OneWrite
<1>8. OneWrite(q) /\ q[1] = "WRITE" => ~Has(t, "WRITE")
  BY <1>1, <1>2, <1>3 DEF OneWrite, Has
<1>9. QED
  BY <1>1, <1>3, <1>4, <1>5, <1>6, <1>7, <1>8 DEF t

(* The last page and the end of a screenshot.                              *)
LEMMA LastPageKeeps ==
  ASSUME shotq \in Seq(Commands), CloseIsLast(shotq), ~Has(shotq, "CLOSE")
  PROVE  LastPage(shotq) \in Seq(Commands) /\ CloseIsLast(LastPage(shotq))
<1> DEFINE q == Posted(shotq, "WRITE")
<1>1. q \in Seq(Commands)
  BY PostedAppends DEF Commands
<1>2. CloseIsLast(q) /\ ~Has(q, "CLOSE")
  BY PostedKeeps DEF Commands
<1> HIDE DEF q
<1>3. Posted(q, "CLOSE") \in Seq(Commands) /\ CloseIsLast(Posted(q, "CLOSE"))
  BY <1>1, <1>2, PostedAppends, PostedKeeps DEF Commands
<1>4. QED
  BY <1>3 DEF LastPage, q

LEMMA PendingIs == WritePending <=> writing \/ Has(shotq, "WRITE")
BY DEF WritePending, Has

----------------------------------------------------------------------------
LEMMA ShotStarts == ShotInit => ShotInv
<1> SUFFICES ASSUME ShotInit PROVE ShotInv
  OBVIOUS
<1>1. shotq = <<>> /\ DOMAIN shotq = {}
  BY DEF ShotInit
<1>2. ShotTypes
  <2>1. shotq \in Seq(Commands) /\ writing \in BOOLEAN
    <3>1. <<>> \in Seq(Commands)
      OBVIOUS
    <3>2. shotq = <<>> /\ writing = FALSE
      BY DEF ShotInit
    <3>3. QED
      BY <3>1, <3>2
  <2>2. dev \in [Input_Is_Paused: BOOLEAN, Output_Is_Paused: BOOLEAN, outFull: BOOLEAN]
    BY DEF ShotInit
  <2>3. hal \in [on: BOOLEAN, pauseIn: BOOLEAN, pauseOut: BOOLEAN, taken: Nat,
                 page: Nat \ {0}, fits: BOOLEAN, late: BOOLEAN]
    BY DEF ShotInit
  <2>4. QED
    BY <2>1, <2>2, <2>3 DEF ShotTypes
<1>3. OneShot
  BY <1>1 DEF ShotInit, OneShot, CloseIsLast, Has, WritePending
<1>4. ~hal.on
  BY DEF ShotInit
<1>5. QED
  BY <1>2, <1>3, <1>4 DEF ShotInv, OutputRuns, OutputWaits

(* The GUI task.                                                           *)
LEMMA SaveStartKeeps == ShotInv /\ SaveStart => ShotInv'
<1> SUFFICES ASSUME ShotInv, SaveStart PROVE ShotInv'
  OBVIOUS
<1>1. ~hal.on /\ hal' = hal
  BY DEF SaveStart, ShotInv, OneShot
<1>2. shotq \in Seq(Commands) /\ shotq' = Posted(shotq, "CREATE") /\ CloseIsLast(shotq)
  BY DEF SaveStart, ShotInv, ShotTypes, OneShot
<1>3. /\ shotq' \in Seq(Commands) /\ CloseIsLast(shotq')
      /\ \A d : ~Has(shotq, d) /\ d # "CREATE" => ~Has(shotq', d)
  BY <1>2, PostedAppends, PostedKeeps DEF Commands
<1>4. ShotTypes'
  BY <1>1, <1>3 DEF SaveStart, ShotInv, ShotTypes
<1>5. OneShot'
  <2>1. sem_jpegbuf' = 1 => ~Has(shotq', "CLOSE") /\ ~WritePending'
    <3> SUFFICES ASSUME sem_jpegbuf = 1 PROVE ~Has(shotq', "CLOSE") /\ ~WritePending'
      BY DEF SaveStart
    <3>1. ~Has(shotq, "CLOSE") /\ ~Has(shotq, "WRITE") /\ ~writing
      BY PendingIs DEF ShotInv, OneShot
    <3>2. ~Has(shotq', "CLOSE") /\ ~Has(shotq', "WRITE") /\ ~writing'
      BY <1>3, <3>1 DEF SaveStart
    <3>3. QED
      BY <3>2 DEF WritePending, Has
  <2>2. QED
    BY <1>1, <1>3, <2>1 DEF OneShot, SaveStart
<1>6. QED
  BY <1>1, <1>4, <1>5 DEF ShotInv, OutputRuns, OutputWaits

LEMMA SaveDataKeeps == ShotInv /\ SaveData => ShotInv'
<1> SUFFICES ASSUME ShotInv, SaveData PROVE ShotInv'
  OBVIOUS
<1>1. ~WritePending /\ ~Has(shotq, "CLOSE") /\ ~dev.outFull /\ sem_encoder = 0
  BY DEF SaveData, ShotInv, OneShot
<1>2. UNCHANGED <<shotq, writing, dev, sem_encoder>> /\ sem_jpegbuf' = 0 /\ gui' = "wait"
      /\ hal' = [on |-> TRUE, pauseIn |-> FALSE, pauseOut |-> FALSE, taken |-> 0,
                 page |-> 1, fits |-> FALSE, late |-> FALSE]
  BY DEF SaveData
<1>3. ShotTypes'
  BY <1>2 DEF ShotInv, ShotTypes
<1>4. OneShot'
  BY <1>1, <1>2 DEF ShotInv, OneShot
<1>5. ChunksBegun' <= 1 /\ ~Taken' /\ ~WritePending'
  BY <1>1, <1>2 DEF ChunksBegun, Taken, WritePending
<1>6. OutputRuns' /\ OutputWaits'
  BY <1>1, <1>2, <1>5 DEF OutputRuns, OutputWaits
<1>7. QED
  BY <1>3, <1>4, <1>6 DEF ShotInv

LEMMA TakeFlagsKeeps == ShotInv /\ TakeFlags => ShotInv'
<1> SUFFICES ASSUME ShotInv, TakeFlags PROVE ShotInv'
  OBVIOUS
<1>1. /\ UNCHANGED <<sem_encoder, sem_jpegbuf, dev, hal, shotq, writing>>
      /\ got' = encoder_flag /\ encoder_flag' = {}
      /\ (gui' = "feed" /\ gui = "wait") \/ gui' \in {"idle", "tail"}
  BY DEF TakeFlags
<1>2. ShotTypes' /\ OneShot'
  BY <1>1 DEF ShotInv, ShotTypes, OneShot, WritePending
<1>3. WritePending' = WritePending /\ ChunksBegun' = ChunksBegun
  BY <1>1 DEF WritePending, ChunksBegun
<1>4. Taken' => "DATAREADY" \in encoder_flag /\ gui' = "feed"
  BY <1>1 DEF Taken
<1>5. OutputRuns'
  BY <1>1, <1>3, <1>4 DEF ShotInv, OutputRuns
<1>6. OutputWaits'
  BY <1>1, <1>3, <1>4 DEF ShotInv, OutputWaits
<1>7. QED
  BY <1>2, <1>5, <1>6 DEF ShotInv

(* The input goes on: one more chunk is begun at most.                     *)
LEMMA FeedKeeps == ShotInv /\ Feed => ShotInv'
<1> SUFFICES ASSUME ShotInv, Feed PROVE ShotInv'
  OBVIOUS
<1>1. /\ UNCHANGED <<got, encoder_flag, sem_encoder, sem_jpegbuf, shotq, writing>>
      /\ gui = "feed" /\ gui' = "drain"
  BY DEF Feed
<1>2. \/ hal' = hal /\ dev' = dev
      \/ /\ hal' = [hal EXCEPT !.pauseIn = FALSE]
         /\ dev' = [dev EXCEPT !.Input_Is_Paused = FALSE]
  BY DEF Feed
<1>3. /\ hal'.on = hal.on /\ hal'.pauseOut = hal.pauseOut /\ hal'.late = hal.late
      /\ hal'.page = hal.page /\ hal'.taken = hal.taken /\ dev'.outFull = dev.outFull
  BY <1>2 DEF ShotInv, ShotTypes
<1>4. ShotTypes'
  BY <1>1, <1>2 DEF ShotInv, ShotTypes
<1>5. OneShot' /\ WritePending' = WritePending
  BY <1>1, <1>3 DEF ShotInv, OneShot, WritePending
<1>6. ChunksBegun' <= ChunksBegun + 1 /\ ChunksBegun \in Nat /\ ChunksBegun' \in Nat
  BY <1>3 DEF ChunksBegun, ShotInv, ShotTypes
<1>7. Taken' = Taken
  BY <1>1 DEF Taken
<1>8. OutputRuns'
  BY <1>1, <1>3, <1>5, <1>6, <1>7 DEF ShotInv, OutputRuns
<1>9. OutputWaits'
  BY <1>1, <1>3, <1>5, <1>7 DEF ShotInv, OutputWaits
<1>10. QED
  BY <1>4, <1>5, <1>8, <1>9 DEF ShotInv

LEMMA DrainKeeps == ShotInv /\ Drain => ShotInv'
<1> SUFFICES ASSUME ShotInv, Drain PROVE ShotInv'
  OBVIOUS
<1>1. /\ UNCHANGED <<encoder_flag, sem_encoder, sem_jpegbuf, dev, hal, shotq, writing>>
      /\ gui = "drain" /\ gui' \in {"wait", "idle", "tail"}
  BY DEF Drain, LoopEnd
<1>2. ShotTypes' /\ OneShot'
  BY <1>1 DEF ShotInv, ShotTypes, OneShot, WritePending
<1>3. WritePending' = WritePending /\ ~Taken' /\ ChunksBegun' = ChunksBegun
  BY <1>1 DEF WritePending, Taken, ChunksBegun
<1>4. OutputRuns' /\ OutputWaits'
  BY <1>1, <1>3 DEF ShotInv, OutputRuns, OutputWaits
<1>5. QED
  BY <1>2, <1>4 DEF ShotInv

(* The output goes on: the page was written, and nothing else is about.    *)
LEMMA DrainResumeKeeps == ShotInv /\ DrainResume => ShotInv'
<1> SUFFICES ASSUME ShotInv, DrainResume PROVE ShotInv'
  OBVIOUS
<1>1. /\ UNCHANGED <<sem_jpegbuf, writing, got>>
      /\ gui = "drain" /\ gui' \in {"wait", "idle", "tail"}
      /\ dev.outFull /\ Taken
  BY DEF DrainResume, LoopEnd, MayResume, Taken
<1>2. ~Taken'
  BY <1>1 DEF Taken
<1>3. CASE ~hal.on /\ dev' = Resumed /\ UNCHANGED <<hal, shotq, encoder_flag, sem_encoder>>
  <2>1. ShotTypes' /\ OneShot' /\ ~hal'.on
    BY <1>1, <1>3 DEF ShotInv, ShotTypes, OneShot, WritePending, Resumed
  <2>2. QED
    BY <2>1 DEF ShotInv, OutputRuns, OutputWaits
<1>4. CASE /\ hal.on /\ ~hal.late /\ dev' = Resumed
           /\ hal' = [hal EXCEPT !.pauseOut = FALSE, !.fits = FALSE, !.page = @ + 1]
           /\ UNCHANGED <<shotq, encoder_flag, sem_encoder>>
  <2>1. hal.pauseOut
    BY <1>1, <1>4 DEF ShotInv, OutputRuns
  <2>2. ~WritePending /\ "DATAREADY" \notin encoder_flag
    BY <1>1, <1>4, <2>1 DEF ShotInv, OutputWaits
  <2>3. ShotTypes' /\ hal'.on = hal.on /\ ~hal'.pauseOut /\ ~hal'.late /\ ~dev'.outFull
    <3>1. ShotTypes /\ hal.page + 1 \in Nat \ {0}
      BY DEF ShotInv, ShotTypes
    <3>2. /\ hal' \in [on: BOOLEAN, pauseIn: BOOLEAN, pauseOut: BOOLEAN, taken: Nat,
                        page: Nat \ {0}, fits: BOOLEAN, late: BOOLEAN]
          /\ hal'.on = hal.on /\ ~hal'.pauseOut /\ ~hal'.late
      BY <1>4, <3>1 DEF ShotTypes
    <3>3. /\ dev' \in [Input_Is_Paused: BOOLEAN, Output_Is_Paused: BOOLEAN, outFull: BOOLEAN]
          /\ ~dev'.outFull
      BY <1>4, <3>1 DEF ShotTypes, Resumed
    <3>4. QED
      BY <1>1, <1>4, <3>1, <3>2, <3>3 DEF ShotTypes
  <2>4. OneShot' /\ ~WritePending'
    BY <1>1, <1>4, <2>2, <2>3 DEF ShotInv, OneShot, WritePending
  <2>5. OutputRuns' /\ OutputWaits'
    BY <1>2, <1>4, <2>2, <2>3, <2>4 DEF OutputRuns, OutputWaits
  <2>6. QED
    BY <2>3, <2>4, <2>5 DEF ShotInv
<1>5. CASE /\ hal.on /\ hal' = [hal EXCEPT !.on = FALSE, !.page = @ + 1]
           /\ shotq' = LastPage(shotq) /\ UNCHANGED dev
  <2>1. ShotTypes /\ CloseIsLast(shotq) /\ ~Has(shotq, "CLOSE") /\ sem_jpegbuf = 0
    BY <1>5 DEF ShotInv, OneShot
  <2>2. shotq' \in Seq(Commands) /\ CloseIsLast(shotq')
    BY <1>5, <2>1, LastPageKeeps DEF ShotTypes
  <2>3. hal.page + 1 \in Nat \ {0}
    BY <2>1 DEF ShotTypes
  <2>4. ~hal'.on /\ ShotTypes'
    BY <1>1, <1>5, <2>1, <2>2, <2>3 DEF ShotTypes
  <2>5. OneShot'
    BY <1>1, <2>1, <2>2, <2>4 DEF OneShot
  <2>6. QED
    BY <2>4, <2>5 DEF ShotInv, OutputRuns, OutputWaits
<1>6. QED
  BY <1>3, <1>4, <1>5 DEF DrainResume

----------------------------------------------------------------------------
(* The codec.                                                              *)
LEMMA GetDataKeeps == ShotInv /\ GetData => ShotInv'
<1> SUFFICES ASSUME ShotInv, GetData PROVE ShotInv'
  OBVIOUS
<1>1. /\ UNCHANGED <<gui, got, sem_encoder, sem_jpegbuf, shotq, writing>>
      /\ hal' = [hal EXCEPT !.pauseIn = TRUE, !.taken = @ + 1, !.fits = FALSE]
      /\ dev' = [dev EXCEPT !.Input_Is_Paused = TRUE]
      /\ encoder_flag' = encoder_flag \cup {"DATAREQ"}
      /\ ~hal.pauseIn /\ hal.taken < Chunks
  BY DEF GetData
<1>2. /\ hal'.on = hal.on /\ hal'.pauseOut = hal.pauseOut /\ hal'.late = hal.late
      /\ hal'.page = hal.page /\ hal'.taken = hal.taken + 1 /\ hal'.pauseIn
      /\ dev'.outFull = dev.outFull /\ hal.taken \in Nat
  BY <1>1 DEF ShotInv, ShotTypes
<1>3. ShotTypes'
  <2>1. hal.taken + 1 \in Nat
    BY <1>2
  <2>2. QED
    BY <1>1, <2>1 DEF ShotInv, ShotTypes
<1>4. OneShot' /\ WritePending' = WritePending /\ Taken' = Taken
  BY <1>1, <1>2 DEF ShotInv, OneShot, WritePending, Taken
<1>5. ChunksBegun' = ChunksBegun
  BY <1>1, <1>2, ScreenshotAssumption DEF ChunksBegun
<1>6. "DATAREADY" \in encoder_flag' <=> "DATAREADY" \in encoder_flag
  BY <1>1
<1>7. OutputRuns'
  BY <1>1, <1>2, <1>4, <1>5, <1>6 DEF ShotInv, OutputRuns
<1>8. OutputWaits'
  BY <1>1, <1>2, <1>4, <1>6 DEF ShotInv, OutputWaits
<1>9. QED
  BY <1>3, <1>4, <1>7, <1>8 DEF ShotInv

(* A page is full: no DATAREADY of before is left that could be taken for  *)
(* the one of this page.                                                   *)
LEMMA DataReadyKeeps == ShotInv /\ DataReady => ShotInv'
<1> SUFFICES ASSUME ShotInv, DataReady PROVE ShotInv'
  OBVIOUS
<1>1. /\ UNCHANGED <<gui, got, encoder_flag, sem_encoder, sem_jpegbuf, writing>>
      /\ hal.on /\ ~hal.pauseOut /\ PageChunks * hal.page < ChunksBegun
      /\ dev' = [dev EXCEPT !.Output_Is_Paused = TRUE, !.outFull = TRUE]
      /\ shotq' = Posted(shotq, "WRITE")
  BY DEF DataReady
<1>2. PICK fits \in BOOLEAN : hal' = [hal EXCEPT !.pauseOut = TRUE, !.fits = fits /\ ~hal.pauseIn]
  BY DEF DataReady
<1>3. ~WritePending /\ ~hal.late
  BY <1>1 DEF ShotInv, OutputRuns
<1>4. ~writing /\ ~Has(shotq, "WRITE")
  BY <1>3, PendingIs
<1>5. "DATAREADY" \notin encoder_flag /\ ~Taken
  <2>1. PageChunks \in Nat /\ PageChunks >= 2
    BY ScreenshotAssumption
  <2>2. ChunksBegun \in Nat
    BY ScreenshotAssumption DEF ChunksBegun, ShotInv, ShotTypes
  <2>3. hal.page = 1 => ChunksBegun > 2
    <3> SUFFICES ASSUME hal.page = 1 PROVE ChunksBegun > 2
      OBVIOUS
    <3>1. PageChunks * 1 < ChunksBegun
      BY <1>1
    <3>2. QED
      BY <2>1, <2>2, <3>1
  <2>4. QED
    BY <1>1, <2>2, <2>3 DEF ShotInv, OutputRuns
<1>6. shotq \in Seq(Commands) /\ CloseIsLast(shotq) /\ ~Has(shotq, "CLOSE") /\ sem_jpegbuf = 0
  BY <1>1 DEF ShotInv, ShotTypes, OneShot
<1>7. /\ shotq' \in Seq(Commands) /\ CloseIsLast(shotq') /\ OneWrite(shotq')
      /\ ~Has(shotq', "CLOSE")
  BY <1>1, <1>4, <1>6, PostedAppends, PostedKeeps DEF Commands
<1>8. ShotTypes' /\ hal'.on /\ hal'.pauseOut
  BY <1>1, <1>2, <1>7 DEF ShotInv, ShotTypes
<1>9. OneShot'
  BY <1>1, <1>6, <1>7 DEF ShotInv, OneShot
<1>10. OutputRuns' /\ OutputWaits'
  BY <1>1, <1>4, <1>5, <1>7, <1>8 DEF OutputRuns, OutputWaits, Taken
<1>11. QED
  BY <1>8, <1>9, <1>10 DEF ShotInv

LEMMA EncodeCpltKeeps == ShotInv /\ EncodeCplt => ShotInv'
<1> SUFFICES ASSUME ShotInv, EncodeCplt PROVE ShotInv'
  OBVIOUS
<1>1. /\ UNCHANGED <<gui, sem_jpegbuf, writing>> /\ hal.on
      /\ hal' = [hal EXCEPT !.on = FALSE]
      /\ dev' = [dev EXCEPT !.Output_Is_Paused = TRUE, !.outFull = TRUE]
      /\ shotq' = LastPage(shotq)
  BY DEF EncodeCplt
<1>2. /\ shotq \in Seq(Commands) /\ CloseIsLast(shotq) /\ ~Has(shotq, "CLOSE")
      /\ sem_jpegbuf = 0 /\ gui # "start"
  BY <1>1 DEF ShotInv, ShotTypes, OneShot
<1>3. shotq' \in Seq(Commands) /\ CloseIsLast(shotq')
  BY <1>1, <1>2, LastPageKeeps
<1>4. ShotTypes' /\ ~hal'.on
  BY <1>1, <1>3 DEF ShotInv, ShotTypes
<1>5. OneShot'
  BY <1>1, <1>2, <1>3, <1>4 DEF OneShot
<1>6. QED
  BY <1>4, <1>5 DEF ShotInv, OutputRuns, OutputWaits

LEMMA EndWhilePausedKeeps == ShotInv /\ EndWhilePaused => ShotInv'
<1> SUFFICES ASSUME ShotInv, EndWhilePaused PROVE ShotInv'
  OBVIOUS
<1>1. /\ UNCHANGED <<gui, sem_encoder, sem_jpegbuf, writing>> /\ hal.on /\ hal.pauseOut
      /\ hal' = [hal EXCEPT !.late = TRUE]
      /\ dev' = [dev EXCEPT !.Output_Is_Paused = TRUE, !.outFull = TRUE]
      /\ shotq' = Posted(shotq, "WRITE")
  BY DEF EndWhilePaused
<1>2. shotq \in Seq(Commands) /\ CloseIsLast(shotq) /\ ~Has(shotq, "CLOSE")
      /\ sem_jpegbuf = 0 /\ sem_encoder = 0 /\ gui # "start"
  BY <1>1 DEF ShotInv, ShotTypes, OneShot
<1>3. shotq' \in Seq(Commands) /\ CloseIsLast(shotq') /\ ~Has(shotq', "CLOSE")
  BY <1>1, <1>2, PostedAppends, PostedKeeps DEF Commands
<1>4. ShotTypes' /\ hal'.pauseOut /\ hal'.late
  BY <1>1, <1>3 DEF ShotInv, ShotTypes
<1>5. OneShot'
  BY <1>1, <1>2, <1>3 DEF OneShot
<1>6. QED
  BY <1>4, <1>5 DEF ShotInv, OutputRuns, OutputWaits

----------------------------------------------------------------------------
(* The screenshot task.  What it takes leaves the queue as it was, or      *)
(* better.                                                                 *)
LEMMA TakesKeeps ==
  ASSUME ShotInv, NEW cmd, Takes(cmd)
  PROVE  /\ shotq' \in Seq(Commands) /\ CloseIsLast(shotq') /\ ~writing /\ Has(shotq, cmd)
         /\ \A d : ~Has(shotq, d) => ~Has(shotq', d)
         /\ OneWrite(shotq) => OneWrite(shotq')
         /\ cmd = "WRITE" /\ OneWrite(shotq) => ~Has(shotq', "WRITE")
         /\ cmd = "CLOSE" => ~Has(shotq', "CLOSE") /\ ~Has(shotq', "WRITE")
<1>1. shotq \in Seq(Commands) /\ CloseIsLast(shotq)
  BY DEF ShotInv, ShotTypes, OneShot
<1>2. ~writing /\ shotq # <<>> /\ Head(shotq) = cmd /\ shotq' = Tail(shotq)
  BY DEF Takes
<1>3. QED
  BY <1>1, <1>2, TailKeeps

LEMMA CreateKeeps == ShotInv /\ Create => ShotInv'
<1> SUFFICES ASSUME ShotInv, Create PROVE ShotInv'
  OBVIOUS
<1>1. UNCHANGED <<gui, got, encoder_flag, sem_encoder, sem_jpegbuf, dev, hal, writing>>
  BY DEF Create
<1>2. /\ shotq' \in Seq(Commands) /\ CloseIsLast(shotq')
      /\ \A d : ~Has(shotq, d) => ~Has(shotq', d)
      /\ OneWrite(shotq) => OneWrite(shotq')
  BY TakesKeeps DEF Create
<1>3. WritePending' => WritePending
  BY <1>1, <1>2 DEF WritePending, Has
<1>4. Taken' = Taken /\ ChunksBegun' = ChunksBegun
  BY <1>1 DEF Taken, ChunksBegun
<1>5. ShotTypes' /\ OneShot'
  BY <1>1, <1>2, <1>3 DEF ShotInv, ShotTypes, OneShot
<1>6. OutputRuns'
  BY <1>1, <1>3, <1>4 DEF ShotInv, OutputRuns
<1>7. OutputWaits'
  BY <1>1, <1>2, <1>3, <1>4 DEF ShotInv, OutputWaits
<1>8. QED
  BY <1>5, <1>6, <1>7 DEF ShotInv

LEMMA WriteKeeps == ShotInv /\ Write => ShotInv'
<1> SUFFICES ASSUME ShotInv, Write PROVE ShotInv'
  OBVIOUS
<1>1. UNCHANGED <<gui, got, encoder_flag, sem_encoder, sem_jpegbuf, dev, hal>> /\ writing'
  BY DEF Write
<1>2. /\ shotq' \in Seq(Commands) /\ CloseIsLast(shotq') /\ Has(shotq, "WRITE")
      /\ \A d : ~Has(shotq, d) => ~Has(shotq', d)
      /\ OneWrite(shotq) => ~Has(shotq', "WRITE") /\ OneWrite(shotq')
  BY TakesKeeps DEF Write
<1>3. WritePending
  BY <1>2, PendingIs
<1>4. Taken' = Taken
  BY <1>1 DEF Taken
<1>5. ShotTypes'
  BY <1>1, <1>2 DEF Write, ShotInv, ShotTypes
<1>6. OneShot'
  BY <1>1, <1>2, <1>3 DEF ShotInv, OneShot
<1>7. OutputRuns'
  BY <1>1, <1>3 DEF ShotInv, OutputRuns
<1>8. OutputWaits'
  BY <1>1, <1>2, <1>3, <1>4 DEF ShotInv, OutputWaits
<1>9. QED
  BY <1>5, <1>6, <1>7, <1>8 DEF ShotInv

LEMMA WriteDoneKeeps == ShotInv /\ WriteDone => ShotInv'
<1> SUFFICES ASSUME ShotInv, WriteDone PROVE ShotInv'
  OBVIOUS
<1>1. UNCHANGED <<gui, got, sem_encoder, sem_jpegbuf, dev, hal, shotq>> /\ ~writing'
  BY DEF WriteDone
<1>2. writing /\ WritePending
  BY DEF WriteDone, WritePending
<1>3. WritePending' => Has(shotq, "WRITE")
  BY <1>1 DEF WritePending, Has
<1>4. Taken' = Taken
  BY <1>1 DEF Taken
<1>5. ShotTypes'
  BY <1>1 DEF WriteDone, ShotInv, ShotTypes
<1>6. OneShot'
  BY <1>1, <1>2 DEF ShotInv, OneShot
<1>7. OutputRuns'
  BY <1>1, <1>2 DEF ShotInv, OutputRuns
<1>8. OutputWaits'
  BY <1>1, <1>2, <1>3, <1>4 DEF ShotInv, OutputWaits
<1>9. QED
  BY <1>5, <1>6, <1>7, <1>8 DEF ShotInv

LEMMA CloseKeeps == ShotInv /\ Close => ShotInv'
<1> SUFFICES ASSUME ShotInv, Close PROVE ShotInv'
  OBVIOUS
<1>1. UNCHANGED <<gui, got, encoder_flag, sem_encoder, dev, hal, writing>>
  BY DEF Close
<1>2. /\ shotq' \in Seq(Commands) /\ CloseIsLast(shotq') /\ ~writing /\ Has(shotq, "CLOSE")
      /\ ~Has(shotq', "CLOSE") /\ ~Has(shotq', "WRITE")
  BY TakesKeeps DEF Close
<1>3. ~hal.on
  BY <1>2 DEF ShotInv, OneShot
<1>4. ~WritePending'
  BY <1>1, <1>2 DEF WritePending, Has
<1>5. ShotTypes' /\ OneShot'
  BY <1>1, <1>2, <1>3, <1>4 DEF ShotInv, ShotTypes, OneShot
<1>6. QED
  BY <1>1, <1>3, <1>5 DEF ShotInv, OutputRuns, OutputWaits

----------------------------------------------------------------------------
(* Every step of a screenshot keeps the invariant ...                      *)
LEMMA ShotStep ==
  ShotInv /\ (GuiStep \/ Codec \/ Create \/ Write \/ WriteDone \/ Close) => ShotInv'
BY SaveStartKeeps, SaveDataKeeps, TakeFlagsKeeps, FeedKeeps, DrainKeeps, DrainResumeKeeps,
   GetDataKeeps, DataReadyKeeps, EncodeCpltKeeps, EndWhilePausedKeeps,
   CreateKeeps, WriteKeeps, WriteDoneKeeps, CloseKeeps
DEF GuiStep, Codec

LEMMA ShotUntouched == ShotInv /\ UNCHANGED shotVars => ShotInv'
BY DEF shotVars, ShotInv, ShotTypes, OneShot, OutputRuns, OutputWaits, Taken, WritePending,
       ChunksBegun

(* ... in which the buffer is held.                                        *)
LEMMA InvHoldsBuffer == ShotInv => BufferHeld
BY DEF ShotInv, OutputRuns, BufferHeld

----------------------------------------------------------------------------
(* What is in the file.                                                    *)

Front(cmd) == shotq # <<>> /\ Head(shotq) = cmd
About == Taken \/ "DATAREADY" \in encoder_flag

(* What a screenshot leaves to be done when the codec has ended it, and    *)
(* this behind which the next one has been begun.                          *)
EndOfShot == {<<"CREATE", "WRITE", "CLOSE">>, <<"WRITE", "CLOSE">>, <<"CLOSE">>}
ThenNext ==
  {<<"CREATE", "WRITE", "CLOSE", "CREATE">>, <<"WRITE", "CLOSE", "CREATE">>,
   <<"CLOSE", "CREATE">>}

(* Four commands are left at most: none is ever dropped.                   *)
QueueInv ==
  /\ sem_jpegbuf \in {0, 1}
  /\ sem_jpegbuf = 1 => shotq = <<>> \/ (gui = "start" /\ shotq = <<"CREATE">>)
  /\ hal.on /\ ~hal.pauseOut => shotq \in {<<>>, <<"CREATE">>}
  /\ hal.on /\ hal.pauseOut /\ ~hal.late =>
       shotq \in {<<>>, <<"WRITE">>, <<"CREATE", "WRITE">>}
  /\ hal.on /\ hal.late =>
       /\ hal.pauseOut
       /\ \/ shotq \in {<<>>, <<"WRITE">>}
          \/ /\ shotq \in {<<"WRITE", "WRITE">>, <<"CREATE", "WRITE", "WRITE">>}
             /\ ~About /\ ~writing
  /\ sem_jpegbuf = 0 /\ ~hal.on =>
       \/ shotq \in EndOfShot
       \/ gui = "start" /\ shotq \in ThenNext
       \/ hal.late /\ shotq = <<"WRITE", "WRITE", "CLOSE">>
       \/ hal.late /\ gui = "start" /\ shotq = <<"WRITE", "WRITE", "CLOSE", "CREATE">>
  /\ Front("CREATE") => ~writing

(* The file has the pages that were handed over, but one that is still to  *)
(* be written, or is being filled.                                         *)
Pages(n) == file.pages = [p \in 1 .. n |-> p]
PageMissing == writing \/ Front("WRITE") \/ (hal.on /\ ~hal.pauseOut)
FileInv ==
  /\ shots \in Nat /\ file \in [open : BOOLEAN, shot : Nat, pages : Seq(Nat)]
  /\ file.open /\ sem_jpegbuf = 1 => gui = "start" /\ shotq = <<>> /\ Pages(0)
  /\ sem_jpegbuf = 0 /\ ~hal.late =>
       /\ Front("CREATE") => ~file.open /\ hal.page = 1
       /\ writing => ~Front("WRITE")
       /\ file.open => Pages(IF PageMissing THEN hal.page - 1 ELSE hal.page)

(* The GUI task is done with a screenshot only when it has taken COMPLETE, *)
(* which comes once.                                                       *)
CompleteInv ==
  /\ hal.on \/ gui \in {"idle", "start"} => "COMPLETE" \notin encoder_flag
  /\ gui \in {"feed", "drain"} /\ "COMPLETE" \in got => "COMPLETE" \notin encoder_flag /\ ~hal.on
  /\ gui = "idle" => ~hal.on

PagesInv == QueueInv /\ FileInv /\ CompleteInv

LEMMA Tuples ==
  /\ \A a : Head(<<a>>) = a /\ Tail(<<a>>) = <<>> /\ <<a>> # <<>>
  /\ \A a, b : Head(<<a, b>>) = a /\ Tail(<<a, b>>) = <<b>> /\ <<a, b>> # <<>>
  /\ \A a, b, c : Head(<<a, b, c>>) = a /\ Tail(<<a, b, c>>) = <<b, c>> /\ <<a, b, c>> # <<>>
  /\ \A a, b, c, d : Head(<<a, b, c, d>>) = a /\ Tail(<<a, b, c, d>>) = <<b, c, d>>
                      /\ <<a, b, c, d>> # <<>>
OBVIOUS

LEMMA SameSequence ==
  ASSUME NEW S, NEW p \in Seq(S), NEW q \in Seq(S),
         Len(p) = Len(q), \A i \in 1 .. Len(p) : p[i] = q[i]
  PROVE  p = q
OBVIOUS

LEMMA PostedTuples ==
  /\ \A x \in Commands : Posted(<<>>, x) = <<x>>
  /\ \A a, x \in Commands : Posted(<<a>>, x) = <<a, x>>
  /\ \A a, b, x \in Commands : Posted(<<a, b>>, x) = <<a, b, x>>
  /\ \A a, b, c, x \in Commands : Posted(<<a, b, c>>, x) = <<a, b, c, x>>
<1>1. SHOTQ_DEPTH \in Nat /\ SHOTQ_DEPTH >= 4
  BY ScreenshotAssumption
<1>2. \A x \in Commands : Posted(<<>>, x) = <<x>>
  BY <1>1 DEF Posted
<1>3. ASSUME NEW a \in Commands, NEW x \in Commands
      PROVE  Posted(<<a>>, x) = <<a, x>>
  <2>1. <<a>> \in Seq(Commands) /\ Len(<<a>>) = 1
    OBVIOUS
  <2>2. /\ Append(<<a>>, x) \in Seq(Commands) /\ Len(Append(<<a>>, x)) = 2
        /\ Append(<<a>>, x)[1] = a /\ Append(<<a>>, x)[2] = x
    BY <2>1
  <2>3. <<a, x>> \in Seq(Commands) /\ Len(<<a, x>>) = 2
    OBVIOUS
  <2>4. \A i \in 1 .. 2 : Append(<<a>>, x)[i] = <<a, x>>[i]
    BY <2>2
  <2>5. Append(<<a>>, x) = <<a, x>>
    BY <2>2, <2>3, <2>4, SameSequence
  <2>6. QED
    BY <1>1, <2>1, <2>5 DEF Posted
<1>4. ASSUME NEW a \in Commands, NEW b \in Commands, NEW x \in Commands
      PROVE  Posted(<<a, b>>, x) = <<a, b, x>>
  <2>1. <<a, b>> \in Seq(Commands) /\ Len(<<a, b>>) = 2
    OBVIOUS
  <2>2. /\ Append(<<a, b>>, x) \in Seq(Commands) /\ Len(Append(<<a, b>>, x)) = 3
        /\ Append(<<a, b>>, x)[1] = a /\ Append(<<a, b>>, x)[2] = b /\ Append(<<a, b>>, x)[3] = x
    BY <2>1
  <2>3. <<a, b, x>> \in Seq(Commands) /\ Len(<<a, b, x>>) = 3
    OBVIOUS
  <2>4. \A i \in 1 .. 3 : Append(<<a, b>>, x)[i] = <<a, b, x>>[i]
    BY <2>2
  <2>5. Append(<<a, b>>, x) = <<a, b, x>>
    BY <2>2, <2>3, <2>4, SameSequence
  <2>6. QED
    BY <1>1, <2>1, <2>5 DEF Posted
<1>5. ASSUME NEW a \in Commands, NEW b \in Commands, NEW c \in Commands, NEW x \in Commands
      PROVE  Posted(<<a, b, c>>, x) = <<a, b, c, x>>
  <2>1. <<a, b, c>> \in Seq(Commands) /\ Len(<<a, b, c>>) = 3
    OBVIOUS
  <2>2. /\ Append(<<a, b, c>>, x) \in Seq(Commands) /\ Len(Append(<<a, b, c>>, x)) = 4
        /\ Append(<<a, b, c>>, x)[1] = a /\ Append(<<a, b, c>>, x)[2] = b
        /\ Append(<<a, b, c>>, x)[3] = c /\ Append(<<a, b, c>>, x)[4] = x
    BY <2>1
  <2>3. <<a, b, c, x>> \in Seq(Commands) /\ Len(<<a, b, c, x>>) = 4
    OBVIOUS
  <2>4. \A i \in 1 .. 4 : Append(<<a, b, c>>, x)[i] = <<a, b, c, x>>[i]
    BY <2>2
  <2>5. Append(<<a, b, c>>, x) = <<a, b, c, x>>
    BY <2>2, <2>3, <2>4, SameSequence
  <2>6. QED
    BY <1>1, <2>1, <2>5 DEF Posted
<1>6. QED
  BY <1>2, <1>3, <1>4, <1>5

LEMMA LastPageTuples ==
  /\ LastPage(<<>>) = <<"WRITE", "CLOSE">>
  /\ LastPage(<<"CREATE">>) = <<"CREATE", "WRITE", "CLOSE">>
  /\ LastPage(<<"WRITE">>) = <<"WRITE", "WRITE", "CLOSE">>
<1>1. {"CREATE", "WRITE", "CLOSE"} = Commands
  BY DEF Commands
<1>2. LastPage(<<>>) = <<"WRITE", "CLOSE">>
  BY <1>1, PostedTuples DEF LastPage
<1>3. LastPage(<<"CREATE">>) = <<"CREATE", "WRITE", "CLOSE">>
  BY <1>1, PostedTuples DEF LastPage
<1>4. LastPage(<<"WRITE">>) = <<"WRITE", "WRITE", "CLOSE">>
  BY <1>1, PostedTuples DEF LastPage
<1>5. QED
  BY <1>2, <1>3, <1>4

LEMMA OneMorePage ==
  ASSUME NEW n \in Nat
  PROVE  Append([p \in 1 .. n |-> p], n + 1) = [p \in 1 .. n + 1 |-> p]
<1> DEFINE q == [p \in 1 .. n |-> p]
           r == [p \in 1 .. n + 1 |-> p]
<1>1. q \in Seq(Nat) /\ Len(q) = n /\ r \in Seq(Nat) /\ Len(r) = n + 1
  OBVIOUS
<1>2. Append(q, n + 1) \in Seq(Nat) /\ Len(Append(q, n + 1)) = n + 1
  BY <1>1
<1>3. \A i \in 1 .. n + 1 : Append(q, n + 1)[i] = r[i]
  BY <1>1
<1>4. QED
  BY <1>1, <1>2, <1>3

----------------------------------------------------------------------------
LEMMA PagesStart == ShotInit => PagesInv
<1> SUFFICES ASSUME ShotInit PROVE PagesInv
  OBVIOUS
<1>1. /\ shotq = <<>> /\ sem_jpegbuf = 1 /\ ~hal.on /\ ~writing
      /\ gui = "idle" /\ encoder_flag = {} /\ ~file.open /\ shots = 0
  BY DEF ShotInit, Closed
<1>2. ~Front("CREATE")
  BY <1>1 DEF Front
<1>3. file \in [open : BOOLEAN, shot : Nat, pages : Seq(Nat)]
  <2>1. <<>> \in Seq(Nat)
    OBVIOUS
  <2>2. QED
    BY <2>1 DEF ShotInit, Closed
<1>4. QED
  BY <1>1, <1>2, <1>3 DEF PagesInv, QueueInv, FileInv, CompleteInv

(* A step that leaves the queue, the buffer and the output alone.          *)
LEMMA FramePages ==
  ASSUME PagesInv,
         UNCHANGED <<shots, sem_jpegbuf, shotq, writing, file>>,
         hal'.on = hal.on, hal'.pauseOut = hal.pauseOut, hal'.late = hal.late,
         hal'.page = hal.page,
         gui = "start" => gui' = "start",
         About' => About, CompleteInv'
  PROVE  PagesInv'
<1>1. \A cmd : Front(cmd)' <=> Front(cmd)
  BY DEF Front
<1>2. QueueInv'
  BY <1>1 DEF PagesInv, QueueInv
<1>3. \A n : Pages(n)' <=> Pages(n)
  BY DEF Pages
<1>4. PageMissing' <=> PageMissing
  BY <1>1 DEF PageMissing
<1>5. FileInv'
  BY <1>1, <1>3, <1>4 DEF PagesInv, FileInv
<1>6. QED
  BY <1>2, <1>5 DEF PagesInv

LEMMA SaveStartPages == ShotInv /\ PagesInv /\ SaveStart => PagesInv'
<1> SUFFICES ASSUME ShotInv, PagesInv, SaveStart PROVE PagesInv'
  OBVIOUS
<1>1. /\ UNCHANGED <<encoder_flag, sem_jpegbuf, hal, writing, file, got>> /\ shots' = shots + 1
      /\ gui = "idle" /\ gui' = "start" /\ sem_encoder = 1
      /\ shotq' = Posted(shotq, "CREATE")
  BY DEF SaveStart
<1>2. ~hal.on /\ ~hal'.on
  BY <1>1 DEF ShotInv, OneShot
<1>3. CASE sem_jpegbuf = 1
  <2>1. shotq = <<>> /\ ~file.open /\ ~writing
    BY <1>1, <1>3 DEF PagesInv, QueueInv, FileInv, ShotInv, OneShot, WritePending
  <2>2. shotq' = <<"CREATE">>
    BY <1>1, <2>1, PostedTuples DEF Commands
  <2>3. QueueInv'
    BY <1>1, <1>2, <1>3, <2>1, <2>2 DEF QueueInv
  <2>4. FileInv' /\ CompleteInv'
    BY <1>1, <1>2, <1>3, <2>1 DEF PagesInv, FileInv, CompleteInv
  <2>5. QED
    BY <2>3, <2>4 DEF PagesInv
<1>4. CASE sem_jpegbuf = 0
  <2>1. \/ shotq \in EndOfShot
        \/ hal.late /\ shotq = <<"WRITE", "WRITE", "CLOSE">>
    BY <1>1, <1>2, <1>4 DEF PagesInv, QueueInv
  <2>2. /\ \/ shotq' \in ThenNext
           \/ hal.late /\ shotq' = <<"WRITE", "WRITE", "CLOSE", "CREATE">>
        /\ shotq # <<>> /\ shotq' # <<>> /\ Head(shotq') = Head(shotq)
    <3>1. shotq' = Posted(shotq, "CREATE") /\ Commands = {"CREATE", "WRITE", "CLOSE"}
      BY <1>1 DEF Commands
    <3>2. CASE shotq = <<"CREATE", "WRITE", "CLOSE">>
      BY <3>1, <3>2, PostedTuples, Tuples DEF ThenNext
    <3>3. CASE shotq = <<"WRITE", "CLOSE">>
      BY <3>1, <3>3, PostedTuples, Tuples DEF ThenNext
    <3>4. CASE shotq = <<"CLOSE">>
      BY <3>1, <3>4, PostedTuples, Tuples DEF ThenNext
    <3>5. CASE hal.late /\ shotq = <<"WRITE", "WRITE", "CLOSE">>
      <4>1. hal'.late = hal.late
        BY <1>1
      <4>2. QED
        BY <3>1, <3>5, <4>1, PostedTuples, Tuples
    <3>6. QED
      BY <2>1, <3>2, <3>3, <3>4, <3>5 DEF EndOfShot
  <2>3. \A cmd : Front(cmd)' <=> Front(cmd)
    BY <2>2 DEF Front
  <2>4. QueueInv'
    BY <1>1, <1>2, <1>4, <2>2, <2>3 DEF PagesInv, QueueInv
  <2>5. FileInv'
    BY <1>1, <1>2, <1>4, <2>3 DEF PagesInv, FileInv, PageMissing, Pages
  <2>6. QED
    BY <1>1, <1>2, <2>4, <2>5 DEF PagesInv, CompleteInv
<1>5. QED
  BY <1>3, <1>4 DEF PagesInv, QueueInv

LEMMA SaveDataPages == ShotInv /\ PagesInv /\ SaveData => PagesInv'
<1> SUFFICES ASSUME ShotInv, PagesInv, SaveData PROVE PagesInv'
  OBVIOUS
<1>1. /\ UNCHANGED <<encoder_flag, shotq, writing, file, got, shots>>
      /\ gui = "start" /\ gui' = "wait" /\ sem_jpegbuf = 1 /\ sem_jpegbuf' = 0
      /\ hal' = [on |-> TRUE, pauseIn |-> FALSE, pauseOut |-> FALSE, taken |-> 0,
                 page |-> 1, fits |-> FALSE, late |-> FALSE]
  BY DEF SaveData
<1>2. hal'.on /\ ~hal'.pauseOut /\ ~hal'.late /\ hal'.page = 1 /\ ~writing
  BY <1>1 DEF ShotInv, OneShot, WritePending
<1>3. shotq \in {<<>>, <<"CREATE">>}
  BY <1>1 DEF PagesInv, QueueInv
<1>4. QueueInv'
  BY <1>1, <1>2, <1>3 DEF QueueInv
<1>5. Front("CREATE")' => ~file.open
  BY <1>1 DEF PagesInv, FileInv, Front
<1>6. file.open => Pages(0)'
  BY <1>1 DEF PagesInv, FileInv, Pages
<1>7. FileInv'
  <2>1. PageMissing' /\ hal'.page - 1 = 0
    BY <1>2 DEF PageMissing
  <2>2. QED
    BY <1>1, <1>2, <1>5, <1>6, <2>1 DEF PagesInv, FileInv
<1>8. QED
  BY <1>1, <1>4, <1>7 DEF PagesInv, CompleteInv

LEMMA TakeFlagsPages == ShotInv /\ PagesInv /\ TakeFlags => PagesInv'
<1> SUFFICES ASSUME ShotInv, PagesInv, TakeFlags PROVE PagesInv'
  OBVIOUS
<1>1. /\ UNCHANGED <<shots, sem_jpegbuf, hal, shotq, writing, file>>
      /\ got' = encoder_flag /\ encoder_flag' = {} /\ gui \in {"wait", "tail"}
      /\ gui' = IF gui = "wait" THEN "feed"
                ELSE IF "COMPLETE" \in encoder_flag THEN "idle" ELSE "tail"
  BY DEF TakeFlags
<1>2. About' => About
  BY <1>1 DEF About, Taken
<1>3. CompleteInv'
  BY <1>1 DEF PagesInv, CompleteInv
<1>4. QED
  BY <1>1, <1>2, <1>3, FramePages

LEMMA FeedPages == ShotInv /\ PagesInv /\ Feed => PagesInv'
<1> SUFFICES ASSUME ShotInv, PagesInv, Feed PROVE PagesInv'
  OBVIOUS
<1>1. /\ UNCHANGED <<shots, got, encoder_flag, sem_jpegbuf, shotq, writing, file>>
      /\ gui = "feed" /\ gui' = "drain"
      /\ hal' = hal \/ hal' = [hal EXCEPT !.pauseIn = FALSE]
  BY DEF Feed
<1>2. /\ hal'.on = hal.on /\ hal'.pauseOut = hal.pauseOut /\ hal'.late = hal.late
      /\ hal'.page = hal.page
  BY <1>1 DEF ShotInv, ShotTypes
<1>3. (About' => About) /\ CompleteInv'
  BY <1>1, <1>2 DEF About, Taken, PagesInv, CompleteInv
<1>4. QED
  BY <1>1, <1>2, <1>3, FramePages

(* The loop is left with COMPLETE only when the codec is done.             *)
LEMMA LoopEndKeeps ==
  ASSUME PagesInv, gui = "drain", LoopEnd
  PROVE  /\ gui' \in {"wait", "tail", "idle"} /\ ~Taken'
         /\ gui' = "idle" => ~hal.on /\ "COMPLETE" \notin encoder_flag
BY DEF LoopEnd, PagesInv, CompleteInv, Taken

LEMMA DrainPages == ShotInv /\ PagesInv /\ Drain => PagesInv'
<1> SUFFICES ASSUME ShotInv, PagesInv, Drain PROVE PagesInv'
  OBVIOUS
<1>1. /\ UNCHANGED <<shots, got, encoder_flag, sem_jpegbuf, hal, shotq, writing, file>>
      /\ gui = "drain" /\ LoopEnd
  BY DEF Drain
<1>2. /\ gui' \in {"wait", "tail", "idle"} /\ ~Taken'
      /\ gui' = "idle" => ~hal.on /\ "COMPLETE" \notin encoder_flag
  BY <1>1, LoopEndKeeps
<1>3. (About' => About) /\ CompleteInv'
  BY <1>1, <1>2 DEF About, PagesInv, CompleteInv
<1>4. QED
  BY <1>1, <1>2, <1>3, FramePages

LEMMA DrainResumePages == ShotInv /\ PagesInv /\ DrainResume => PagesInv'
<1> SUFFICES ASSUME ShotInv, PagesInv, DrainResume PROVE PagesInv'
  OBVIOUS
<1>1. /\ UNCHANGED <<shots, got, sem_jpegbuf, writing, file>>
      /\ gui = "drain" /\ LoopEnd /\ dev.outFull /\ Taken
  BY DEF DrainResume, MayResume, Taken
<1>2. /\ gui' \in {"wait", "tail", "idle"} /\ ~Taken'
      /\ gui' = "idle" => ~hal.on /\ "COMPLETE" \notin encoder_flag
  BY <1>1, LoopEndKeeps
<1>3. CASE ~hal.on /\ UNCHANGED <<hal, shotq, encoder_flag, sem_encoder>>
  <2>1. (About' => About) /\ CompleteInv'
    BY <1>1, <1>2, <1>3 DEF About, PagesInv, CompleteInv
  <2>2. QED
    BY <1>1, <1>3, <2>1, FramePages
<1>4. CASE /\ hal.on /\ ~hal.late
           /\ hal' = [hal EXCEPT !.pauseOut = FALSE, !.fits = FALSE, !.page = @ + 1]
           /\ UNCHANGED <<shotq, encoder_flag>>
  <2>1. hal.pauseOut /\ sem_jpegbuf = 0 /\ hal.page \in Nat
    BY <1>1, <1>4 DEF ShotInv, ShotTypes, OutputRuns, OneShot
  <2>2. hal'.on /\ ~hal'.pauseOut /\ ~hal'.late /\ hal'.page = hal.page + 1
    BY <1>4 DEF ShotInv, ShotTypes
  <2>3. ~writing /\ ~Has(shotq, "WRITE")
    BY <1>1, <1>4, <2>1, PendingIs DEF ShotInv, OutputWaits
  <2>4. shotq = <<>>
    <3>1. shotq \in {<<>>, <<"WRITE">>, <<"CREATE", "WRITE">>}
      BY <1>4, <2>1 DEF PagesInv, QueueInv
    <3>2. Has(<<"WRITE">>, "WRITE") /\ Has(<<"CREATE", "WRITE">>, "WRITE")
      BY DEF Has
    <3>3. QED
      BY <2>3, <3>1, <3>2
  <2>5. QueueInv'
    BY <1>1, <1>4, <2>1, <2>2, <2>3, <2>4 DEF QueueInv
  <2>6. \A cmd : ~Front(cmd) /\ ~Front(cmd)'
    BY <1>4, <2>4 DEF Front
  <2>7. file.open => Pages(hal.page)
    BY <1>4, <2>1, <2>3, <2>6 DEF PagesInv, FileInv, PageMissing
  <2>8. FileInv'
    <3>1. PageMissing' /\ hal'.page - 1 = hal.page
      BY <2>1, <2>2 DEF PageMissing
    <3>2. file.open => Pages(hal.page - 1)'
      BY <1>1, <2>7, <3>1 DEF Pages
    <3>3. QED
      BY <1>1, <2>1, <2>3, <2>6, <3>1, <3>2 DEF PagesInv, FileInv
  <2>9. CompleteInv'
    BY <1>2, <1>4, <1>1 DEF PagesInv, CompleteInv
  <2>10. QED
    BY <2>5, <2>8, <2>9 DEF PagesInv
<1>5. CASE /\ hal.on /\ hal.late
           /\ hal' = [hal EXCEPT !.on = FALSE, !.page = @ + 1]
           /\ shotq' = LastPage(shotq)
  <2>1. sem_jpegbuf = 0 /\ ~hal'.on /\ hal'.late
    BY <1>5 DEF ShotInv, ShotTypes, OneShot
  <2>2. shotq \in {<<>>, <<"WRITE">>}
    BY <1>1, <1>5 DEF PagesInv, QueueInv, About
  <2>3. shotq' \in {<<"WRITE", "CLOSE">>, <<"WRITE", "WRITE", "CLOSE">>}
    BY <1>5, <2>2, LastPageTuples
  <2>10. ~Front("CREATE")'
    BY <2>3, Tuples DEF Front
  <2>4. QueueInv'
    BY <1>1, <2>1, <2>3, <2>10 DEF QueueInv, EndOfShot
  <2>5. FileInv'
    BY <1>1, <2>1 DEF PagesInv, FileInv
  <2>6. CompleteInv'
    BY <1>1, <1>2, <1>5, <2>1 DEF PagesInv, CompleteInv
  <2>7. QED
    BY <2>4, <2>5, <2>6 DEF PagesInv
<1>6. QED
  BY <1>3, <1>4, <1>5 DEF DrainResume

LEMMA GetDataPages == ShotInv /\ PagesInv /\ GetData => PagesInv'
<1> SUFFICES ASSUME ShotInv, PagesInv, GetData PROVE PagesInv'
  OBVIOUS
<1>1. /\ UNCHANGED <<gui, shots, got, sem_jpegbuf, shotq, writing, file>>
      /\ hal' = [hal EXCEPT !.pauseIn = TRUE, !.taken = @ + 1, !.fits = FALSE]
      /\ encoder_flag' = encoder_flag \cup {"DATAREQ"}
  BY DEF GetData
<1>2. /\ hal'.on = hal.on /\ hal'.pauseOut = hal.pauseOut /\ hal'.late = hal.late
      /\ hal'.page = hal.page
  BY <1>1 DEF ShotInv, ShotTypes
<1>3. (About' => About) /\ CompleteInv'
  BY <1>1, <1>2 DEF About, Taken, PagesInv, CompleteInv
<1>4. QED
  BY <1>1, <1>2, <1>3, FramePages

LEMMA DataReadyPages == ShotInv /\ PagesInv /\ DataReady => PagesInv'
<1> SUFFICES ASSUME ShotInv, PagesInv, DataReady PROVE PagesInv'
  OBVIOUS
<1>1. /\ UNCHANGED <<gui, shots, got, encoder_flag, sem_jpegbuf, writing, file>>
      /\ hal.on /\ ~hal.pauseOut /\ shotq' = Posted(shotq, "WRITE")
  BY DEF DataReady
<1>2. PICK fits \in BOOLEAN : hal' = [hal EXCEPT !.pauseOut = TRUE, !.fits = fits]
  BY DEF DataReady
<1>3. hal'.on /\ hal'.pauseOut /\ hal'.late = hal.late /\ hal'.page = hal.page
  BY <1>1, <1>2 DEF ShotInv, ShotTypes
<1>4. ~writing /\ ~hal.late /\ sem_jpegbuf = 0
  BY <1>1 DEF ShotInv, OutputRuns, OneShot, WritePending
<1>5. CASE shotq = <<>>
  <2>1. shotq' = <<"WRITE">>
    BY <1>1, <1>5, PostedTuples DEF Commands
  <2>2. Front("WRITE")' /\ ~Front("CREATE")'
    BY <2>1, Tuples DEF Front
  <2>3. QueueInv'
    BY <1>1, <1>3, <1>4, <2>1, <2>2 DEF QueueInv
  <2>4. file.open => Pages(hal.page - 1)
    BY <1>1, <1>4 DEF PagesInv, FileInv, PageMissing
  <2>5. FileInv'
    BY <1>1, <1>3, <1>4, <2>2, <2>4 DEF PagesInv, FileInv, Pages, PageMissing
  <2>6. QED
    BY <1>1, <1>3, <2>3, <2>5 DEF PagesInv, CompleteInv
<1>6. CASE shotq = <<"CREATE">>
  <2>1. shotq' = <<"CREATE", "WRITE">>
    BY <1>1, <1>6, PostedTuples DEF Commands
  <2>2. Front("CREATE") /\ Front("CREATE")' /\ ~Front("WRITE")'
    BY <1>6, <2>1, Tuples DEF Front
  <2>3. QueueInv'
    BY <1>1, <1>3, <1>4, <2>1, <2>2 DEF QueueInv
  <2>4. ~file.open /\ hal.page = 1
    BY <1>4, <2>2 DEF PagesInv, FileInv
  <2>5. FileInv'
    BY <1>1, <1>3, <1>4, <2>2, <2>4 DEF PagesInv, FileInv
  <2>6. QED
    BY <1>1, <1>3, <2>3, <2>5 DEF PagesInv, CompleteInv
<1>7. QED
  BY <1>1, <1>5, <1>6 DEF PagesInv, QueueInv

LEMMA EncodeCpltPages == ShotInv /\ PagesInv /\ EncodeCplt => PagesInv'
<1> SUFFICES ASSUME ShotInv, PagesInv, EncodeCplt PROVE PagesInv'
  OBVIOUS
<1>1. /\ UNCHANGED <<gui, shots, got, sem_jpegbuf, writing, file>>
      /\ hal.on /\ ~hal.pauseOut /\ hal' = [hal EXCEPT !.on = FALSE]
      /\ shotq' = LastPage(shotq)
  BY DEF EncodeCplt
<1>2. ~hal'.on /\ hal'.pauseOut = hal.pauseOut /\ hal'.late = hal.late /\ hal'.page = hal.page
  BY <1>1 DEF ShotInv, ShotTypes
<1>3. ~writing /\ ~hal.late /\ sem_jpegbuf = 0
  BY <1>1 DEF ShotInv, OutputRuns, OneShot, WritePending
<1>4. CompleteInv'
  BY <1>1, <1>2 DEF PagesInv, CompleteInv, ShotInv, OneShot
<1>5. CASE shotq = <<>>
  <2>1. shotq' = <<"WRITE", "CLOSE">>
    BY <1>1, <1>5, LastPageTuples
  <2>2. Front("WRITE")' /\ ~Front("CREATE")'
    BY <2>1, Tuples DEF Front
  <2>3. QueueInv'
    BY <1>1, <1>2, <1>3, <2>1, <2>2 DEF QueueInv, EndOfShot
  <2>4. file.open => Pages(hal.page - 1)
    BY <1>1, <1>3 DEF PagesInv, FileInv, PageMissing
  <2>5. FileInv'
    BY <1>1, <1>2, <1>3, <2>2, <2>4 DEF PagesInv, FileInv, Pages, PageMissing
  <2>6. QED
    BY <1>4, <2>3, <2>5 DEF PagesInv
<1>6. CASE shotq = <<"CREATE">>
  <2>1. shotq' = <<"CREATE", "WRITE", "CLOSE">>
    BY <1>1, <1>6, LastPageTuples
  <2>2. Front("CREATE") /\ Front("CREATE")' /\ ~Front("WRITE")'
    BY <1>6, <2>1, Tuples DEF Front
  <2>3. QueueInv'
    BY <1>1, <1>2, <1>3, <2>1, <2>2 DEF QueueInv, EndOfShot
  <2>4. ~file.open /\ hal.page = 1
    BY <1>3, <2>2 DEF PagesInv, FileInv
  <2>5. FileInv'
    BY <1>1, <1>2, <1>3, <2>2, <2>4 DEF PagesInv, FileInv
  <2>6. QED
    BY <1>4, <2>3, <2>5 DEF PagesInv
<1>7. QED
  BY <1>1, <1>5, <1>6 DEF PagesInv, QueueInv

(* The page handed over the second time: the first is still to be written, *)
(* or was, and the codec waits for the DATAREADY.                          *)
LEMMA EndWhilePausedPages == ShotInv /\ PagesInv /\ EndWhilePaused => PagesInv'
<1> SUFFICES ASSUME ShotInv, PagesInv, EndWhilePaused PROVE PagesInv'
  OBVIOUS
<1>1. /\ UNCHANGED <<gui, shots, got, encoder_flag, sem_jpegbuf, writing, file>>
      /\ hal.on /\ hal.pauseOut /\ ~hal.late /\ hal' = [hal EXCEPT !.late = TRUE]
      /\ shotq' = Posted(shotq, "WRITE")
  BY DEF EndWhilePaused
<1>2. hal'.on /\ hal'.pauseOut /\ hal'.late /\ sem_jpegbuf = 0
  BY <1>1 DEF ShotInv, ShotTypes, OneShot
<1>3. FileInv' /\ CompleteInv'
  BY <1>1, <1>2 DEF PagesInv, FileInv, CompleteInv
<1>4. CASE shotq = <<>>
  <2>1. shotq' = <<"WRITE">>
    BY <1>1, <1>4, PostedTuples DEF Commands
  <2>2. ~Front("CREATE")'
    BY <2>1, Tuples DEF Front
  <2>3. QED
    BY <1>1, <1>2, <1>3, <2>1, <2>2 DEF PagesInv, QueueInv
<1>5. CASE shotq \in {<<"WRITE">>, <<"CREATE", "WRITE">>}
  <2>1. Has(shotq, "WRITE")
    BY <1>5 DEF Has
  <2>2. ~About /\ ~writing
    BY <1>1, <2>1, PendingIs DEF ShotInv, OutputWaits, About
  <2>3. shotq' \in {<<"WRITE", "WRITE">>, <<"CREATE", "WRITE", "WRITE">>}
    <3>1. CASE shotq = <<"WRITE">>
      BY <1>1, <3>1, PostedTuples DEF Commands
    <3>2. CASE shotq = <<"CREATE", "WRITE">>
      BY <1>1, <3>2, PostedTuples DEF Commands
    <3>3. QED
      BY <1>5, <3>1, <3>2
  <2>4. ~About'
    BY <1>1, <2>2 DEF About, Taken
  <2>5. QED
    BY <1>1, <1>2, <1>3, <2>2, <2>3, <2>4 DEF PagesInv, QueueInv
<1>6. QED
  BY <1>1, <1>4, <1>5 DEF PagesInv, QueueInv

(* The screenshot task.                                                    *)
LEMMA CreatePages == ShotInv /\ PagesInv /\ Create => PagesInv'
<1> SUFFICES ASSUME ShotInv, PagesInv, Create PROVE PagesInv'
  OBVIOUS
<1>1. /\ UNCHANGED <<gui, shots, got, encoder_flag, sem_jpegbuf, hal, writing>>
      /\ ~writing /\ Front("CREATE") /\ shotq' = Tail(shotq)
  BY DEF Create, Takes, Front
<1>2. file' \in [open : BOOLEAN, shot : Nat, pages : Seq(Nat)] /\ Pages(0)'
  <2>1. <<>> \in Seq(Nat) /\ [p \in 1 .. 0 |-> p] = <<>>
    OBVIOUS
  <2>2. PICK ok \in BOOLEAN :
          file' = IF ok THEN [open |-> TRUE, shot |-> shots, pages |-> <<>>] ELSE Closed
    BY DEF Create
  <2>3. QED
    BY <2>1, <2>2 DEF Closed, Pages, PagesInv, FileInv
<1>3. About' = About
  BY <1>1 DEF About, Taken
<1>4. CompleteInv'
  BY <1>1 DEF PagesInv, CompleteInv
<1>5. CASE sem_jpegbuf = 1
  <2>1. gui = "start" /\ shotq = <<"CREATE">> /\ ~hal.on
    BY <1>1, <1>5 DEF PagesInv, QueueInv, Front, ShotInv, OneShot
  <2>2. shotq' = <<>> /\ ~Front("CREATE")'
    BY <1>1, <2>1, Tuples DEF Front
  <2>3. QueueInv'
    BY <1>1, <1>5, <2>1, <2>2 DEF QueueInv
  <2>4. FileInv'
    BY <1>1, <1>2, <1>5, <2>1, <2>2 DEF PagesInv, FileInv
  <2>5. QED
    BY <1>4, <2>3, <2>4 DEF PagesInv
<1>6. CASE sem_jpegbuf = 0 /\ hal.on /\ ~hal.pauseOut
  <2>1. shotq = <<"CREATE">> /\ ~hal.late
    BY <1>1, <1>6 DEF PagesInv, QueueInv, Front, ShotInv, OutputRuns
  <2>2. shotq' = <<>> /\ ~Front("CREATE")' /\ ~Front("WRITE")'
    BY <1>1, <2>1, Tuples DEF Front
  <2>3. hal.page = 1 /\ PageMissing'
    BY <1>1, <1>6, <2>1 DEF PagesInv, FileInv, PageMissing
  <2>4. QueueInv'
    BY <1>1, <1>6, <2>1, <2>2 DEF QueueInv
  <2>5. FileInv'
    BY <1>1, <1>2, <1>6, <2>2, <2>3 DEF PagesInv, FileInv
  <2>6. QED
    BY <1>4, <2>4, <2>5 DEF PagesInv
<1>7. CASE sem_jpegbuf = 0 /\ (hal.on => hal.pauseOut)
  <2>1. \/ hal.on /\ hal.pauseOut /\ ~hal.late /\ shotq = <<"CREATE", "WRITE">>
        \/ hal.on /\ hal.pauseOut /\ hal.late /\ shotq = <<"CREATE", "WRITE", "WRITE">> /\ ~About
        \/ ~hal.on /\ shotq = <<"CREATE", "WRITE", "CLOSE">>
        \/ ~hal.on /\ gui = "start" /\ shotq = <<"CREATE", "WRITE", "CLOSE", "CREATE">>
    BY <1>1, <1>7, Tuples DEF PagesInv, QueueInv, EndOfShot, ThenNext, Front
  <2>2. \/ hal.on /\ hal.pauseOut /\ ~hal.late /\ shotq' = <<"WRITE">>
        \/ hal.on /\ hal.pauseOut /\ hal.late /\ shotq' = <<"WRITE", "WRITE">> /\ ~About
        \/ ~hal.on /\ shotq' = <<"WRITE", "CLOSE">>
        \/ ~hal.on /\ gui = "start" /\ shotq' = <<"WRITE", "CLOSE", "CREATE">>
    <3>1. /\ Tail(<<"CREATE", "WRITE">>) = <<"WRITE">>
          /\ Tail(<<"CREATE", "WRITE", "WRITE">>) = <<"WRITE", "WRITE">>
          /\ Tail(<<"CREATE", "WRITE", "CLOSE">>) = <<"WRITE", "CLOSE">>
          /\ Tail(<<"CREATE", "WRITE", "CLOSE", "CREATE">>) = <<"WRITE", "CLOSE", "CREATE">>
      BY Tuples
    <3>2. QED
      BY <1>1, <2>1, <3>1
  <2>3. ~Front("CREATE")' /\ Front("WRITE")'
    BY <2>2, Tuples DEF Front
  <2>4. QueueInv'
    BY <1>1, <1>3, <1>7, <2>2, <2>3 DEF QueueInv, EndOfShot, ThenNext
  <2>5. PageMissing' /\ (~hal.late => hal.page = 1)
    BY <1>1, <1>7, <2>3 DEF PagesInv, FileInv, PageMissing
  <2>6. FileInv'
    BY <1>1, <1>2, <1>7, <2>3, <2>5 DEF PagesInv, FileInv
  <2>7. QED
    BY <1>4, <2>4, <2>6 DEF PagesInv
<1>8. QED
  BY <1>5, <1>6, <1>7 DEF PagesInv, QueueInv

(* What is left when a WRITE, or a CLOSE, has been taken.                  *)
LEMMA Tails ==
  /\ Tail(<<"WRITE">>) = <<>> /\ Tail(<<"WRITE", "WRITE">>) = <<"WRITE">>
  /\ Tail(<<"WRITE", "CLOSE">>) = <<"CLOSE">>
  /\ Tail(<<"WRITE", "CLOSE", "CREATE">>) = <<"CLOSE", "CREATE">>
  /\ Tail(<<"WRITE", "WRITE", "CLOSE">>) = <<"WRITE", "CLOSE">>
  /\ Tail(<<"WRITE", "WRITE", "CLOSE", "CREATE">>) = <<"WRITE", "CLOSE", "CREATE">>
  /\ Tail(<<"CLOSE">>) = <<>> /\ Tail(<<"CLOSE", "CREATE">>) = <<"CREATE">>
BY Tuples

LEMMA WritePages == ShotInv /\ PagesInv /\ Write => PagesInv'
<1> SUFFICES ASSUME ShotInv, PagesInv, Write PROVE PagesInv'
  OBVIOUS
<1>1. /\ UNCHANGED <<gui, shots, got, encoder_flag, sem_jpegbuf, hal, file>>
      /\ ~writing /\ writing' /\ Front("WRITE") /\ shotq' = Tail(shotq)
  BY DEF Write, Takes, Front
<1>2. About' = About /\ CompleteInv'
  BY <1>1 DEF About, Taken, PagesInv, CompleteInv
<1>3. sem_jpegbuf = 0
  <2>1. WritePending
    BY <1>1, PendingIs, TailKeeps DEF Front, ShotInv, ShotTypes
  <2>2. QED
    BY <2>1 DEF ShotInv, OneShot, PagesInv, QueueInv
<1>4. \/ hal.on /\ hal.pauseOut /\ shotq = <<"WRITE">>
      \/ hal.on /\ hal.pauseOut /\ hal.late /\ shotq = <<"WRITE", "WRITE">>
      \/ ~hal.on /\ shotq = <<"WRITE", "CLOSE">>
      \/ ~hal.on /\ gui = "start" /\ shotq = <<"WRITE", "CLOSE", "CREATE">>
      \/ ~hal.on /\ hal.late /\ shotq = <<"WRITE", "WRITE", "CLOSE">>
      \/ ~hal.on /\ hal.late /\ gui = "start" /\ shotq = <<"WRITE", "WRITE", "CLOSE", "CREATE">>
  BY <1>1, <1>3, Tuples DEF PagesInv, QueueInv, EndOfShot, ThenNext, Front
<1>5. \/ hal.on /\ hal.pauseOut /\ shotq' = <<>>
      \/ hal.on /\ hal.pauseOut /\ hal.late /\ shotq' = <<"WRITE">>
      \/ ~hal.on /\ shotq' = <<"CLOSE">>
      \/ ~hal.on /\ gui = "start" /\ shotq' = <<"CLOSE", "CREATE">>
      \/ ~hal.on /\ hal.late /\ shotq' = <<"WRITE", "CLOSE">>
      \/ ~hal.on /\ hal.late /\ gui = "start" /\ shotq' = <<"WRITE", "CLOSE", "CREATE">>
  BY <1>1, <1>4, Tails
<1>6. ~Front("CREATE")' /\ (~hal.late => ~Front("WRITE")')
  BY <1>5, Tuples DEF Front
<1>7. QueueInv'
  BY <1>1, <1>3, <1>5, <1>6 DEF QueueInv, EndOfShot, ThenNext
<1>8. FileInv'
  BY <1>1, <1>3, <1>6 DEF PagesInv, FileInv, PageMissing, Pages
<1>9. QED
  BY <1>2, <1>7, <1>8 DEF PagesInv

LEMMA WriteDonePages == ShotInv /\ PagesInv /\ WriteDone => PagesInv'
<1> SUFFICES ASSUME ShotInv, PagesInv, WriteDone PROVE PagesInv'
  OBVIOUS
<1>1. /\ UNCHANGED <<gui, shots, got, sem_jpegbuf, hal, shotq>>
      /\ writing /\ ~writing' /\ encoder_flag' = encoder_flag \cup {"DATAREADY"}
      /\ file' = IF file.open THEN [file EXCEPT !.pages = Append(@, hal.page)] ELSE file
  BY DEF WriteDone
<1>2. /\ sem_jpegbuf = 0 /\ ~Front("CREATE") /\ (hal.on => hal.pauseOut)
      /\ \A cmd : Front(cmd)' <=> Front(cmd)
  BY <1>1 DEF ShotInv, OneShot, OutputRuns, WritePending, PagesInv, QueueInv, Front
<1>3. QueueInv'
  BY <1>1, <1>2 DEF PagesInv, QueueInv
<1>4. CompleteInv'
  BY <1>1 DEF PagesInv, CompleteInv
<1>5. FileInv'
  <2>1. hal.page \in Nat \ {0} /\ file \in [open : BOOLEAN, shot : Nat, pages : Seq(Nat)]
    BY DEF ShotInv, ShotTypes, PagesInv, FileInv
  <2>2. /\ file' \in [open : BOOLEAN, shot : Nat, pages : Seq(Nat)]
        /\ file'.open = file.open
    <3>1. Append(file.pages, hal.page) \in Seq(Nat)
      BY <2>1
    <3>2. QED
      BY <1>1, <2>1, <3>1
  <2>3. ASSUME ~hal.late, file.open PROVE Pages(hal.page)' /\ ~PageMissing'
    <3>1. ~Front("WRITE") /\ Pages(hal.page - 1)
      BY <1>1, <1>2, <2>3 DEF PagesInv, FileInv, PageMissing
    <3>2. file'.pages = Append([p \in 1 .. hal.page - 1 |-> p], hal.page)
      BY <1>1, <2>1, <2>3, <3>1 DEF Pages
    <3>3. hal.page - 1 \in Nat /\ (hal.page - 1) + 1 = hal.page
      BY <2>1
    <3>4. file'.pages = [p \in 1 .. hal.page |-> p]
      BY <3>2, <3>3, OneMorePage
    <3>5. QED
      BY <1>1, <1>2, <3>1, <3>4 DEF Pages, PageMissing
  <2>4. QED
    BY <1>1, <1>2, <2>2, <2>3 DEF PagesInv, FileInv
<1>6. QED
  BY <1>3, <1>4, <1>5 DEF PagesInv

(* The CLOSE of a screenshot is taken when the codec has ended it.         *)
LEMMA CloseIsEnd ==
  ASSUME ShotInv, PagesInv, Close
  PROVE  /\ ~hal.on /\ ~writing /\ sem_jpegbuf = 0 /\ Front("CLOSE")
         /\ shotq = <<"CLOSE">> \/ (gui = "start" /\ shotq = <<"CLOSE", "CREATE">>)
<1>1. Front("CLOSE") /\ ~writing
  BY DEF Close, Takes, Front
<1>2. Has(shotq, "CLOSE")
  BY <1>1, TailKeeps DEF Front, ShotInv, ShotTypes
<1>3. ~hal.on /\ sem_jpegbuf = 0
  BY <1>2 DEF ShotInv, OneShot, PagesInv, QueueInv
<1>4. shotq = <<"CLOSE">> \/ (gui = "start" /\ shotq = <<"CLOSE", "CREATE">>)
  BY <1>1, <1>3, Tuples DEF PagesInv, QueueInv, EndOfShot, ThenNext, Front
<1>5. QED
  BY <1>1, <1>3, <1>4

LEMMA ClosePages == ShotInv /\ PagesInv /\ Close => PagesInv'
<1> SUFFICES ASSUME ShotInv, PagesInv, Close PROVE PagesInv'
  OBVIOUS
<1>1. /\ UNCHANGED <<gui, shots, got, encoder_flag, hal, writing>>
      /\ shotq' = Tail(shotq) /\ file' = Closed /\ sem_jpegbuf' = 1
  BY DEF Close, Takes
<1>2. /\ ~hal.on /\ ~writing
      /\ shotq = <<"CLOSE">> \/ (gui = "start" /\ shotq = <<"CLOSE", "CREATE">>)
  BY CloseIsEnd
<1>3. shotq' = <<>> \/ (gui = "start" /\ shotq' = <<"CREATE">>)
  BY <1>1, <1>2, Tails
<1>4. QueueInv'
  BY <1>1, <1>2, <1>3 DEF QueueInv
<1>5. file' \in [open : BOOLEAN, shot : Nat, pages : Seq(Nat)] /\ ~file'.open
  <2>1. <<>> \in Seq(Nat)
    OBVIOUS
  <2>2. QED
    BY <1>1, <2>1 DEF Closed
<1>6. FileInv' /\ CompleteInv'
  BY <1>1, <1>5 DEF PagesInv, FileInv, CompleteInv
<1>7. QED
  BY <1>4, <1>6 DEF PagesInv

----------------------------------------------------------------------------
(* Every step of a screenshot keeps what is known of the file ...          *)
LEMMA PagesStep ==
  ShotInv /\ PagesInv /\ (GuiStep \/ Codec \/ Create \/ Write \/ WriteDone \/ Close) => PagesInv'
BY SaveStartPages, SaveDataPages, TakeFlagsPages, FeedPages, DrainPages, DrainResumePages,
   GetDataPages, DataReadyPages, EncodeCpltPages, EndWhilePausedPages,
   CreatePages, WritePages, WriteDonePages, ClosePages
DEF GuiStep, Codec

LEMMA PagesUntouched == PagesInv /\ UNCHANGED shotVars => PagesInv'
BY DEF shotVars, PagesInv, QueueInv, FileInv, CompleteInv, Front, About, Taken, Pages,
       PageMissing

(* ... so a file that is closed has all pages.                             *)
LEMMA ClosedIsComplete ==
  ASSUME ShotInv, PagesInv, GuiStep \/ Codec \/ Create \/ Write \/ WriteDone \/ Close,
         file.open, ~file'.open, ~hal.late
  PROVE  Pages(hal.page)
<1>1. file \in [open : BOOLEAN, shot : Nat, pages : Seq(Nat)]
  BY DEF PagesInv, FileInv
<1>2. CASE Close
  <2>1. ~hal.on /\ ~writing /\ sem_jpegbuf = 0 /\ ~Front("WRITE")
    BY <1>2, CloseIsEnd DEF Front
  <2>2. QED
    BY <2>1 DEF PagesInv, FileInv, PageMissing
<1>3. CASE Create
  <2>1. Front("CREATE") /\ shotq # <<>>
    BY <1>3 DEF Create, Takes, Front
  <2>2. QED
    BY <2>1 DEF PagesInv, FileInv, QueueInv
<1>4. CASE WriteDone
  BY <1>1, <1>4 DEF WriteDone
<1>5. CASE GuiStep \/ Codec \/ Write
  BY <1>5 DEF GuiStep, SaveStart, SaveData, TakeFlags, Feed, Drain, DrainResume,
              Codec, GetData, DataReady, EncodeCplt, EndWhilePaused, Write
<1>6. QED
  BY <1>2, <1>3, <1>4, <1>5

----------------------------------------------------------------------------
(***************************************************************************)
(* The whole program: the copy of a game, and the end of one.              *)
(***************************************************************************)
Last == Len(FileList) + 1           \* the turn of the WAD

----------------------------------------------------------------------------
(* The inductive invariant.                                                *)

CopyTypeOK ==
  /\ at \in Nat /\ copies \in Nat
  /\ header \in Int /\ content \in [CopyFiles -> Int]
  /\ reported \in BOOLEAN /\ unerased \in BOOLEAN

(* The copy in the flash has met no failure that it left behind.           *)
Clean == ~reported /\ ~unerased

Whole == Playable => \A f \in CopyFiles : content[f] = header

(* Nothing is erased yet: the flash is as the boot check found it.         *)
BeforeErase ==
  main = "erase" /\ at = 0 => erased = {} /\ (Clean => Whole)

(* The first blocks are erased, with the header in the first of all.       *)
WhileErasing ==
  main = "erase" /\ at > 0 /\ Clean =>
    /\ erased = 0 .. at - 1 /\ at <= Blocks
    /\ header = Blank
    /\ \A f \in CopyFiles : Place[f] \subseteq erased => content[f] = Blank

(* The files before the one whose turn it is are there, those after it     *)
(* are blank, and so is the one itself until it is begun.                  *)
WhileCopying ==
  main \in {"copy", "copyfile"} =>
    /\ at \in 1 .. Last
    /\ Clean =>
         /\ header = copies
         /\ \A i \in 1 .. Last :
              content[FileAt(i)] = IF i < at THEN copies
                                   ELSE IF i = at /\ main = "copyfile" THEN Partial
                                   ELSE Blank

Elsewhere == main \notin {"erase", "copy", "copyfile"} /\ Clean => Whole

CopyInv ==
  CopyTypeOK /\ BeforeErase /\ WhileErasing /\ WhileCopying /\ Elsewhere

----------------------------------------------------------------------------
(* FileAt gives each file one turn, and the WAD the last one.              *)
LEMMA FileTurns ==
  /\ Last \in Nat \ {0}
  /\ FileAt(Last) = WAD
  /\ \A i \in 1 .. Last : FileAt(i) \in CopyFiles
  /\ \A i, j \in 1 .. Last : FileAt(i) = FileAt(j) => i = j
  /\ \A f \in CopyFiles : \E i \in 1 .. Last : FileAt(i) = f
<1>1. Len(FileList) \in Nat /\ DOMAIN FileList = 1 .. Len(FileList)
  BY GameCopyAssumption
<1>2. Last \in Nat \ {0} /\ FileAt(Last) = WAD
  BY <1>1 DEF Last, FileAt
<1>3. \A i \in 1 .. Last : i # Last => i \in DOMAIN FileList /\ FileAt(i) = FileList[i]
  BY <1>1 DEF Last, FileAt
<1>4. \A i \in DOMAIN FileList : i \in 1 .. Last /\ i # Last
  BY <1>1 DEF Last
<1>5. \A i \in 1 .. Last : FileAt(i) \in CopyFiles
  BY <1>2, <1>3 DEF CopyFiles
<1>6. \A i, j \in 1 .. Last : FileAt(i) = FileAt(j) => i = j
  <2>1. \A i \in 1 .. Last : i # Last => FileAt(i) # WAD
    BY <1>3, GameCopyAssumption
  <2>2. \A i, j \in DOMAIN FileList : FileList[i] = FileList[j] => i = j
    BY GameCopyAssumption
  <2>3. QED
    BY <2>1, <2>2, <1>2, <1>3
<1>7. \A f \in CopyFiles : \E i \in 1 .. Last : FileAt(i) = f
  <2> SUFFICES ASSUME NEW f \in CopyFiles PROVE \E i \in 1 .. Last : FileAt(i) = f
    OBVIOUS
  <2>1. CASE f = WAD
    BY <2>1, <1>2
  <2>2. CASE f # WAD
    <3>1. PICK i \in DOMAIN FileList : FileList[i] = f
      BY <2>2 DEF CopyFiles
    <3>2. i \in 1 .. Last /\ FileAt(i) = f
      BY <3>1, <1>3, <1>4
    <3>3. QED
      BY <3>2
  <2>3. QED
    BY <2>1, <2>2
<1>8. QED
  BY <1>2, <1>5, <1>6, <1>7

----------------------------------------------------------------------------
(* Before the WAD is copied there is nothing to offer, and after it        *)
(* everything is there.                                                    *)
LEMMA UnfinishedIsNotOffered ==
  CopyInv /\ main \in {"erase", "copy", "copyfile"} /\ Clean => Whole
<1> SUFFICES ASSUME CopyInv, main \in {"erase", "copy", "copyfile"}, Clean
             PROVE  Whole
  OBVIOUS
<1>1. CASE main = "erase" /\ at = 0
  BY <1>1 DEF CopyInv, BeforeErase
<1>2. CASE main = "erase" /\ at > 0
  BY <1>2 DEF CopyInv, WhileErasing, Whole, Playable, Blank
<1>3. CASE main \in {"copy", "copyfile"}
  <2>1. header = copies /\ copies \in Nat /\ at \in 1 .. Last
    BY <1>3 DEF CopyInv, CopyTypeOK, WhileCopying
  <2>2. content[WAD] \in {Partial, Blank}
    BY <1>3, <2>1, FileTurns DEF CopyInv, WhileCopying
  <2>3. QED
    BY <2>1, <2>2 DEF Whole, Playable, Partial, Blank
<1>4. QED
  BY <1>1, <1>2, <1>3 DEF CopyInv, CopyTypeOK

----------------------------------------------------------------------------
LEMMA CopyInvInit == CopyInit => CopyInv
<1> SUFFICES ASSUME CopyInit PROVE CopyInv
  OBVIOUS
<1>1. CopyTypeOK
  <2>1. content \in [CopyFiles -> Int] /\ header \in Int
    <3>1. CASE header = 0 /\ content = [f \in CopyFiles |-> 0]
      BY <3>1
    <3>2. CASE header = Blank /\ content = [f \in CopyFiles |-> Blank]
      BY <3>2 DEF Blank
    <3>3. QED
      BY <3>1, <3>2 DEF CopyInit
  <2>2. QED
    BY <2>1 DEF CopyInit, CopyTypeOK
<1>2. Whole
  BY DEF CopyInit, Whole, Playable, Blank
<1>3. QED
  BY <1>1, <1>2 DEF CopyInit, CopyInv, BeforeErase, WhileErasing, WhileCopying, Elsewhere

(* Steps that write nothing and begin no copy.                             *)
LEMMA FlashUntouched ==
  ASSUME CopyInv,
         UNCHANGED <<copies, flashVars, reported, unerased, erased>>, at' \in Nat,
         main' \notin {"erase", "copy", "copyfile"}
  PROVE  CopyInv'
<1>1. CopyTypeOK'
  BY DEF CopyInv, CopyTypeOK, flashVars
<1>2. Clean => Whole
  BY UnfinishedIsNotOffered DEF CopyInv, Elsewhere
<1>3. Clean' => Whole'
  BY <1>2 DEF Clean, Whole, Playable, flashVars
<1>4. QED
  BY <1>1, <1>3 DEF CopyInv, BeforeErase, WhileErasing, WhileCopying, Elsewhere

LEMMA EraseStartKeeps == CopyInv /\ EraseStart => CopyInv'
<1> SUFFICES ASSUME CopyInv, EraseStart PROVE CopyInv'
  OBVIOUS
<1>1. CopyTypeOK'
  BY DEF CopyInv, CopyTypeOK, EraseStart, flashVars
<1>2. Clean => Whole
  BY DEF CopyInv, Elsewhere, EraseStart
<1>3. Clean' => Whole'
  BY <1>2 DEF Clean, Whole, Playable, EraseStart, flashVars
<1>4. QED
  BY <1>1, <1>3 DEF CopyInv, BeforeErase, WhileErasing, WhileCopying, Elsewhere, EraseStart

LEMMA EraseBlockKeeps ==
  ASSUME NEW failed \in BOOLEAN, CopyInv, EraseBlock(failed) PROVE CopyInv'
<1>1. main = "erase" /\ main' = "erase" /\ at' = at + 1 /\ at \in Nat /\ copies' = copies
  BY DEF CopyInv, CopyTypeOK, EraseBlock
<1>2. Blocks \in Nat /\ at < Blocks
  BY GameCopyAssumption DEF EraseBlock
<1>3. CASE failed
  <2>1. CopyTypeOK'
    BY <1>1, <1>3 DEF CopyInv, CopyTypeOK, EraseBlock, flashVars
  <2>2. ~Clean'
    BY <1>3 DEF EraseBlock, Clean
  <2>3. QED
    BY <1>1, <2>1, <2>2 DEF CopyInv, BeforeErase, WhileErasing, WhileCopying, Elsewhere
<1>4. CASE ~failed
  <2>1. /\ header' = IF at = 0 THEN Blank ELSE header
        /\ erased' = erased \cup {at}
        /\ content' = [f \in CopyFiles |->
               IF Place[f] \subseteq erased' THEN Blank
               ELSE IF at \in Place[f] /\ content[f] # Blank THEN Garbled
               ELSE content[f]]
        /\ reported' = (reported /\ at # 0)
        /\ unerased' = (unerased /\ at # 0)
    BY <1>4 DEF EraseBlock
  <2>2. CopyTypeOK'
    BY <1>1, <2>1 DEF CopyInv, CopyTypeOK, Blank, Garbled
  <2>3. ASSUME Clean'
        PROVE  erased' = 0 .. at' - 1 /\ at' <= Blocks /\ header' = Blank
    <3>1. CASE at = 0
      <4>1. erased = {}
        BY <3>1, <1>1 DEF CopyInv, BeforeErase
      <4>2. QED
        BY <3>1, <4>1, <1>1, <1>2, <2>1
    <3>2. CASE at > 0
      <4>1. Clean
        BY <3>2, <2>1, <2>3 DEF Clean, CopyInv, CopyTypeOK
      <4>2. erased = 0 .. at - 1 /\ header = Blank
        BY <4>1, <3>2, <1>1 DEF CopyInv, WhileErasing
      <4>3. QED
        BY <3>2, <4>2, <1>1, <1>2, <2>1
    <3>3. QED
      BY <1>1, <3>1, <3>2
  <2>4. \A f \in CopyFiles : Place[f] \subseteq erased' => content'[f] = Blank
    BY <2>1
  <2>5. QED
    BY <1>1, <2>2, <2>3, <2>4 DEF CopyInv, BeforeErase, WhileErasing, WhileCopying, Elsewhere
<1>5. QED
  BY <1>3, <1>4

LEMMA WriteHeaderKeeps ==
  ASSUME NEW failed \in BOOLEAN, CopyInv, WriteHeader(failed) PROVE CopyInv'
<1>1. main = "erase" /\ at = Blocks /\ Blocks \in Nat \ {0}
      /\ UNCHANGED <<copies, content, erased, unerased>>
  BY GameCopyAssumption DEF WriteHeader
<1>2. CASE failed
  <2>1. CopyTypeOK'
    BY <1>1, <1>2 DEF CopyInv, CopyTypeOK, WriteHeader, Garbled
  <2>2. ~Clean' /\ main' = "stopped"
    BY <1>2 DEF WriteHeader, Clean
  <2>3. QED
    BY <2>1, <2>2 DEF CopyInv, BeforeErase, WhileErasing, WhileCopying, Elsewhere
<1>3. CASE ~failed
  <2>1. main' = "copy" /\ at' = 1 /\ header' = Over(header, copies) /\ reported' = reported
    BY <1>3 DEF WriteHeader
  <2>2. CopyTypeOK'
    BY <1>1, <2>1 DEF CopyInv, CopyTypeOK, Over, Garbled
  <2>3. ASSUME Clean'
        PROVE  header' = copies' /\ \A f \in CopyFiles : content'[f] = Blank
    <3>1. Clean
      BY <2>3, <1>1, <2>1 DEF Clean
    <3>2. header = Blank /\ erased = 0 .. Blocks - 1
          /\ \A f \in CopyFiles : Place[f] \subseteq erased => content[f] = Blank
      BY <1>1, <3>1 DEF CopyInv, WhileErasing
    <3>3. \A f \in CopyFiles : Place[f] \subseteq 0 .. Blocks - 1
      BY GameCopyAssumption DEF CopyFiles
    <3>4. QED
      BY <3>2, <3>3, <1>1, <2>1 DEF Over
  <2>4. WhileCopying'
    <3>1. at' \in 1 .. Last
      BY <2>1, FileTurns
    <3>2. Clean' => \A i \in 1 .. Last : content'[FileAt(i)] = Blank
      BY <2>3, FileTurns
    <3>3. \A i \in 1 .. Last : ~(i < at')
      BY <2>1, FileTurns
    <3>4. QED
      BY <2>1, <2>3, <3>1, <3>2, <3>3 DEF WhileCopying
  <2>5. QED
    BY <2>1, <2>2, <2>4 DEF CopyInv, BeforeErase, WhileErasing, Elsewhere
<1>4. QED
  BY <1>2, <1>3

LEMMA OpenFailsKeeps == CopyInv /\ OpenFails => CopyInv'
<1> SUFFICES ASSUME CopyInv, OpenFails PROVE CopyInv'
  OBVIOUS
<1>1. at \in 1 .. Last /\ main = "copy"
  BY DEF CopyInv, WhileCopying, OpenFails
<1>2. CopyTypeOK'
  BY DEF CopyInv, CopyTypeOK, OpenFails, flashVars
<1>3. ~Clean'
  BY DEF OpenFails, Clean
<1>4. main' \in {"copy", "done"} /\ (main' = "copy" => at' \in 1 .. Last)
  BY <1>1, FileTurns DEF OpenFails, Last
<1>5. QED
  BY <1>2, <1>3, <1>4 DEF CopyInv, BeforeErase, WhileErasing, WhileCopying, Elsewhere

LEMMA CopyBeginsKeeps == CopyInv /\ CopyBegins => CopyInv'
<1> SUFFICES ASSUME CopyInv, CopyBegins PROVE CopyInv'
  OBVIOUS
<1>1. /\ main = "copy" /\ main' = "copyfile" /\ at \in 1 .. Last
      /\ content' = [content EXCEPT ![FileAt(at)] = Over(@, Partial)]
      /\ UNCHANGED <<at, copies, header, reported, erased, unerased>>
  BY DEF CopyInv, WhileCopying, CopyBegins
<1>2. CopyTypeOK'
  <2>1. content \in [CopyFiles -> Int] /\ FileAt(at) \in CopyFiles
    BY <1>1, FileTurns DEF CopyInv, CopyTypeOK
  <2>2. Over(content[FileAt(at)], Partial) \in Int
    BY DEF Over, Partial, Garbled
  <2>3. content' \in [CopyFiles -> Int]
    BY <2>1, <2>2, <1>1
  <2>4. QED
    BY <2>3, <1>1 DEF CopyInv, CopyTypeOK
<1>3. ASSUME Clean'
      PROVE  /\ header = copies
             /\ \A i \in 1 .. Last :
                  content'[FileAt(i)] = IF i < at THEN copies
                                        ELSE IF i = at THEN Partial ELSE Blank
  <2>1. Clean
    BY <1>3, <1>1 DEF Clean
  <2>2. header = copies
        /\ \A i \in 1 .. Last : content[FileAt(i)] = IF i < at THEN copies ELSE Blank
    BY <2>1, <1>1 DEF CopyInv, WhileCopying
  <2>3. content'[FileAt(at)] = Partial
    BY <1>1, <2>2, FileTurns DEF CopyInv, CopyTypeOK, Over
  <2>4. \A i \in 1 .. Last : i # at => content'[FileAt(i)] = content[FileAt(i)]
    BY <1>1, FileTurns DEF CopyInv, CopyTypeOK
  <2>5. QED
    BY <2>2, <2>3, <2>4, <1>1
<1>4. WhileCopying'
  BY <1>1, <1>3 DEF WhileCopying
<1>5. QED
  BY <1>1, <1>2, <1>4 DEF CopyInv, BeforeErase, WhileErasing, Elsewhere

LEMMA CopyEndsKeeps ==
  ASSUME NEW failed \in BOOLEAN, CopyInv, CopyEnds(failed) PROVE CopyInv'
<1>1. /\ main = "copyfile" /\ at \in 1 .. Last /\ at' = at + 1
      /\ main' = IF at = Last THEN "done" ELSE "copy"
      /\ UNCHANGED <<copies, header, erased, unerased>>
  BY DEF CopyInv, WhileCopying, CopyEnds, Last
<1>2. main' = "copy" => at' \in 1 .. Last
  BY <1>1, FileTurns
<1>3. CASE failed
  <2>1. CopyTypeOK'
    BY <1>1, <1>3 DEF CopyInv, CopyTypeOK, CopyEnds
  <2>2. ~Clean'
    BY <1>3 DEF CopyEnds, Clean
  <2>3. QED
    BY <1>1, <1>2, <2>1, <2>2 DEF CopyInv, BeforeErase, WhileErasing, WhileCopying, Elsewhere
<1>4. CASE ~failed
  <2>1. /\ content' = [content EXCEPT ![FileAt(at)] = IF @ = Partial THEN copies ELSE @]
        /\ reported' = reported
    BY <1>4 DEF CopyEnds
  <2>2. CopyTypeOK'
    <3>1. content \in [CopyFiles -> Int] /\ copies \in Int
      BY DEF CopyInv, CopyTypeOK
    <3>2. content' \in [CopyFiles -> Int]
      BY <3>1, <2>1
    <3>3. QED
      BY <3>2, <1>1, <2>1 DEF CopyInv, CopyTypeOK
  <2>3. ASSUME Clean'
        PROVE  /\ header = copies
               /\ \A i \in 1 .. Last :
                    content'[FileAt(i)] = IF i < at + 1 THEN copies ELSE Blank
    <3>1. Clean
      BY <2>3, <1>1, <2>1 DEF Clean
    <3>2. header = copies
          /\ \A i \in 1 .. Last : content[FileAt(i)] =
                IF i < at THEN copies ELSE IF i = at THEN Partial ELSE Blank
      BY <3>1, <1>1 DEF CopyInv, WhileCopying
    <3>3. content'[FileAt(at)] = copies
      BY <1>1, <2>1, <3>2, FileTurns DEF CopyInv, CopyTypeOK
    <3>4. \A i \in 1 .. Last : i # at => content'[FileAt(i)] = content[FileAt(i)]
      BY <1>1, <2>1, FileTurns DEF CopyInv, CopyTypeOK
    <3>5. QED
      BY <3>2, <3>3, <3>4, <1>1
  <2>4. CASE at = Last
    <3>1. Clean' => \A f \in CopyFiles : content'[f] = header'
      BY <2>3, <2>4, <1>1, FileTurns
    <3>2. QED
      BY <1>1, <2>2, <2>4, <3>1
      DEF CopyInv, BeforeErase, WhileErasing, WhileCopying, Elsewhere, Whole
  <2>5. CASE at # Last
    <3>1. WhileCopying'
      BY <1>1, <1>2, <2>3, <2>5 DEF WhileCopying
    <3>2. QED
      BY <1>1, <2>2, <2>5, <3>1 DEF CopyInv, BeforeErase, WhileErasing, Elsewhere
  <2>6. QED
    BY <2>4, <2>5
<1>5. QED
  BY <1>3, <1>4

----------------------------------------------------------------------------
LEMMA CopyKeeps == CopyInv /\ CopyNext => CopyInv'
<1> SUFFICES ASSUME CopyInv, CopyNext PROVE CopyInv'
  OBVIOUS
<1>1. CASE Verify \/ FlashGameSelect \/ CopyDone \/ Reboot \/ PowerLost
  <2>1. /\ UNCHANGED <<copies, flashVars, reported, unerased, erased>>
        /\ at' \in {at, 0}
        /\ main' \notin {"erase", "copy", "copyfile"}
    BY <1>1 DEF Verify, FlashGameSelect, CopyDone, Reboot, PowerLost, Booted
  <2>2. at' \in Nat
    BY <2>1 DEF CopyInv, CopyTypeOK
  <2>3. QED
    BY <2>1, <2>2, FlashUntouched
<1>2. CASE EraseStart
  BY <1>2, EraseStartKeeps
<1>3. ASSUME NEW failed \in BOOLEAN, EraseBlock(failed) PROVE CopyInv'
  BY <1>3, EraseBlockKeeps
<1>4. ASSUME NEW failed \in BOOLEAN, WriteHeader(failed) PROVE CopyInv'
  BY <1>4, WriteHeaderKeeps
<1>5. CASE OpenFails
  BY <1>5, OpenFailsKeeps
<1>6. CASE CopyBegins
  BY <1>6, CopyBeginsKeeps
<1>7. ASSUME NEW failed \in BOOLEAN, CopyEnds(failed) PROVE CopyInv'
  BY <1>7, CopyEndsKeeps
<1>8. QED
  BY <1>1, <1>2, <1>3, <1>4, <1>5, <1>6, <1>7 DEF CopyNext, CopyFlash

(* The game, its screenshots and its end.                                  *)
LEMMA GameKeeps == CopyInv /\ [Next]_vars => CopyInv'
<1> SUFFICES ASSUME CopyInv, [Next]_vars PROVE CopyInv'
  OBVIOUS
<1>1. CASE Starting
  BY <1>1, CopyKeeps DEF Starting
<1>2. CASE TimeOut
  <2>1. /\ UNCHANGED <<at, copies, flashVars, reported, unerased, erased>>
        /\ main' = "reset"
    BY <1>2 DEF TimeOut
  <2>2. QED
    BY <2>1, FlashUntouched DEF CopyInv, CopyTypeOK
<1>3. CASE Encoding \/ Saving \/ EndDoom \/ TakeRequest \/ Tick \/ UNCHANGED vars
  <2>1. UNCHANGED copyVars
    BY <1>3 DEF Encoding, Saving, EndDoom, TakeRequest, Tick, vars
  <2>2. QED
    BY <2>1 DEF copyVars, flashVars, CopyInv, CopyTypeOK, BeforeErase, WhileErasing,
                WhileCopying, Elsewhere, Clean, Whole, Playable
<1>4. QED
  BY <1>1, <1>2, <1>3 DEF Next

----------------------------------------------------------------------------
(* A game that the boot check offers is whole (VerifyFlash, CopyFlash,     *)
(* copyfile): PlayableIsWhole is an invariant of the whole program.        *)
THEOREM OfferedIsWhole == Spec => []PlayableIsWhole
<1>1. Init => CopyInv
  BY CopyInvInit DEF Init
<1>2. CopyInv /\ [Next]_vars => CopyInv'
  BY GameKeeps
<1>3. CopyInv => PlayableIsWhole
  BY DEF CopyInv, Elsewhere, Clean, Whole, PlayableIsWhole
<1>4. QED
  BY <1>1, <1>2, <1>3, PTL DEF Spec

----------------------------------------------------------------------------
(* What the rest of the program does to a screenshot: nothing.             *)
LEMMA ShotsAlone ==
  Starting \/ EndDoom \/ TakeRequest \/ Tick \/ TimeOut \/ UNCHANGED vars => UNCHANGED shotVars
BY DEF Starting, EndDoom, TakeRequest, Tick, TimeOut, vars

LEMMA NextIs ==
  ASSUME [Next]_vars
  PROVE  \/ main = "game" /\ (GuiStep \/ Codec \/ Create \/ Write \/ WriteDone \/ Close)
         \/ UNCHANGED shotVars
BY ShotsAlone DEF Next, Encoding, Saving

LEMMA ShotsKeep == ShotInv /\ [Next]_vars => ShotInv'
BY NextIs, ShotStep, ShotUntouched

LEMMA PagesKeep == ShotInv /\ PagesInv /\ [Next]_vars => PagesInv'
BY NextIs, PagesStep, PagesUntouched

(* The output buffer of the screenshots is not stored into while a page of *)
(* it waits to be written (save_jpeg_data, StartShotTask), also when the   *)
(* DATAREADY of one screenshot is taken in the next.                       *)
THEOREM BufferNotOverwritten == Spec => []BufferHeld
<1>1. Init => ShotInv
  BY ShotStarts DEF Init
<1>2. ShotInv /\ [Next]_vars => ShotInv'
  BY ShotsKeep
<1>3. ShotInv => BufferHeld
  BY InvHoldsBuffer
<1>4. QED
  BY <1>1, <1>2, <1>3, PTL DEF Spec

(* A file of a screenshot that is closed (StartShotTask) has every page    *)
(* the codec handed over, once and in order: FilesComplete holds.          *)
THEOREM ClosedFilesComplete == Spec => FilesComplete
<1>1. Init => ShotInv /\ PagesInv
  BY ShotStarts, PagesStart DEF Init
<1>2. ShotInv /\ PagesInv /\ [Next]_vars => (ShotInv /\ PagesInv)'
  BY ShotsKeep, PagesKeep
<1>3. ShotInv /\ PagesInv /\ [Next]_vars =>
        [file.open /\ ~file'.open /\ ~hal.late
           => file.pages = [p \in 1 .. hal.page |-> p]]_shotVars
  <2> SUFFICES ASSUME ShotInv, PagesInv, [Next]_vars, ~UNCHANGED shotVars,
                      file.open, ~file'.open, ~hal.late
               PROVE  file.pages = [p \in 1 .. hal.page |-> p]
    OBVIOUS
  <2>1. GuiStep \/ Codec \/ Create \/ Write \/ WriteDone \/ Close
    BY NextIs
  <2>2. Pages(hal.page)
    BY <2>1, ClosedIsComplete
  <2>3. QED
    BY <2>2 DEF Pages
<1>4. QED
  BY <1>1, <1>2, <1>3, PTL DEF Spec, FilesComplete

----------------------------------------------------------------------------
(* The end of the game.                                                    *)

(* A screenshot of before the end is being written.                        *)
Unsaved == file.open /\ file.shot <= before

(* The default task waits only for what comes after the end of the game;   *)
(* and while a screenshot of before the end is written, either a request   *)
(* is there or it has not waited for longer than the step it waits for     *)
(* takes.                                                                  *)
EndInv ==
  /\ reqcmdq \in Seq({"DUMMY", "END_DOOM"}) /\ before \in Nat
  /\ wait_time \in {0, EndWait, DummyWait}
  /\ clock \in Nat /\ step \in 0 .. StepTime
  /\ main = "reset" \/ wait_time # 0 \/ EndRequested => ended
  /\ Unsaved /\ ~StuckInTail =>
       main # "reset" /\ (wait_time # 0 /\ reqcmdq = <<>> => clock <= step)

LEMMA EndStarts == Init => EndInv
<1> SUFFICES ASSUME Init PROVE EndInv
  OBVIOUS
<1>1. reqcmdq = <<>> /\ <<>> \in Seq({"DUMMY", "END_DOOM"}) /\ ~EndRequested
  BY DEF Init, EndRequested
<1>2. main = "boot" /\ ~file.open
  BY DEF Init, CopyInit, ShotInit, Closed
<1>3. QED
  BY <1>1, <1>2, AppAssumption DEF Init, EndInv, Unsaved

(* A file that is open has something to be done about it.                  *)
LEMMA OpenIsBusy ==
  ASSUME ShotInv, PagesInv, file.open, ~StuckInTail
  PROVE  Busy
<1>1. CASE sem_jpegbuf = 1
  BY <1>1 DEF PagesInv, FileInv, Busy
<1>2. CASE sem_jpegbuf = 0 /\ ~hal.on
  <2>1. shotq # <<>>
    BY <1>2, Tuples DEF PagesInv, QueueInv, EndOfShot, ThenNext
  <2>2. QED
    BY <2>1 DEF Busy
<1>3. CASE hal.on
  BY <1>3 DEF Busy
<1>4. QED
  BY <1>1, <1>2, <1>3 DEF PagesInv, QueueInv

(* What is stuck stays so: no COMPLETE comes while the codec waits.        *)
LEMMA StuckStays ==
  ASSUME ShotInv, PagesInv, StuckInTail, GuiStep \/ Codec
  PROVE  StuckInTail'
<1>1. /\ gui = "tail" /\ hal.on /\ hal.pauseOut /\ "COMPLETE" \notin encoder_flag
  BY DEF StuckInTail, PagesInv, CompleteInv
<1>2. CASE TakeFlags
  BY <1>1, <1>2 DEF TakeFlags, StuckInTail
<1>3. CASE GetData \/ EndWhilePaused
  BY <1>1, <1>3 DEF GetData, EndWhilePaused, StuckInTail, ShotInv, ShotTypes
<1>4. QED
  BY <1>1, <1>2, <1>3 DEF GuiStep, SaveStart, SaveData, Feed, Drain, DrainResume,
                          Codec, DataReady, EncodeCplt

(* postMainRequest leaves a request in the queue, whichever.               *)
LEMMA RequestedIs ==
  ASSUME reqcmdq \in Seq({"DUMMY", "END_DOOM"}), NEW cmd \in {"DUMMY", "END_DOOM"},
         reqcmdq' = Requested(cmd)
  PROVE  /\ reqcmdq' \in Seq({"DUMMY", "END_DOOM"}) /\ reqcmdq' # <<>>
         /\ cmd = "DUMMY" /\ EndRequested' => EndRequested
<1>1. REQCMD_DEPTH \in Nat \ {0}
  BY AppAssumption
<1>2. CASE Len(reqcmdq) < REQCMD_DEPTH
  <2>1. reqcmdq' = Append(reqcmdq, cmd)
    BY <1>2 DEF Requested
  <2>2. /\ reqcmdq' \in Seq({"DUMMY", "END_DOOM"}) /\ Len(reqcmdq') = Len(reqcmdq) + 1
        /\ Len(reqcmdq) \in Nat
        /\ \A i \in 1 .. Len(reqcmdq) : reqcmdq'[i] = reqcmdq[i]
        /\ reqcmdq'[Len(reqcmdq) + 1] = cmd
    BY <2>1
  <2>3. DOMAIN reqcmdq = 1 .. Len(reqcmdq) /\ DOMAIN reqcmdq' = 1 .. Len(reqcmdq) + 1
    BY <2>2
  <2>4. reqcmdq' # <<>>
    BY <2>2
  <2>5. cmd = "DUMMY" /\ EndRequested' => EndRequested
    BY <2>2, <2>3 DEF EndRequested
  <2>6. QED
    BY <2>2, <2>4, <2>5
<1>3. CASE ~(Len(reqcmdq) < REQCMD_DEPTH)
  <2>1. reqcmdq' = reqcmdq /\ reqcmdq # <<>>
    BY <1>1, <1>3 DEF Requested
  <2>2. QED
    BY <2>1 DEF EndRequested
<1>4. QED
  BY <1>2, <1>3

LEMMA EncodingKeeps == ShotInv /\ PagesInv /\ EndInv /\ Encoding => EndInv'
<1> SUFFICES ASSUME ShotInv, PagesInv, EndInv, Encoding PROVE EndInv'
  OBVIOUS
<1>1. /\ UNCHANGED <<main, reqcmdq, ended, wait_time, clock, before>>
      /\ step' = IF Busy THEN step ELSE 0
      /\ GuiStep \/ Codec
  BY DEF Encoding, copyVars
<1>2. file' = file
  BY <1>1 DEF GuiStep, SaveStart, SaveData, TakeFlags, Feed, Drain, DrainResume,
              Codec, GetData, DataReady, EncodeCplt, EndWhilePaused
<1>3. step' \in 0 .. StepTime
  BY <1>1, AppAssumption DEF EndInv
<1>4. Unsaved' /\ ~StuckInTail' => Unsaved /\ ~StuckInTail /\ step' = step
  BY <1>1, <1>2, StuckStays, OpenIsBusy DEF Unsaved
<1>5. EndRequested' = EndRequested
  BY <1>1 DEF EndRequested
<1>6. QED
  BY <1>1, <1>3, <1>4, <1>5 DEF EndInv

LEMMA SavingKeeps == ShotInv /\ PagesInv /\ EndInv /\ Saving => EndInv'
<1> SUFFICES ASSUME ShotInv, PagesInv, EndInv, Saving PROVE EndInv'
  OBVIOUS
<1>1. UNCHANGED <<main, ended, wait_time, clock, before>> /\ main = "game"
  BY DEF Saving, copyVars
<1>2. CASE (Create \/ WriteDone) /\ reqcmdq' = Requested("DUMMY") /\ step' = 0
  <2>1. /\ reqcmdq' \in Seq({"DUMMY", "END_DOOM"}) /\ reqcmdq' # <<>>
        /\ EndRequested' => EndRequested
    BY <1>2, RequestedIs DEF EndInv
  <2>2. QED
    BY <1>1, <1>2, <2>1, AppAssumption DEF EndInv
<1>3. CASE (Write \/ Close) /\ UNCHANGED <<reqcmdq, step>>
  <2>1. UNCHANGED <<gui, hal>> /\ (file' = file \/ ~file'.open)
    BY <1>3 DEF Write, Close, Closed
  <2>2. EndRequested' = EndRequested /\ StuckInTail' = StuckInTail /\ (Unsaved' => Unsaved)
    BY <1>1, <1>3, <2>1 DEF EndRequested, StuckInTail, Unsaved
  <2>3. QED
    BY <1>1, <1>3, <2>2 DEF EndInv
<1>4. QED
  BY <1>2, <1>3 DEF Saving

LEMMA TakeRequestKeeps == EndInv /\ TakeRequest => EndInv'
<1> SUFFICES ASSUME EndInv, TakeRequest PROVE EndInv'
  OBVIOUS
<1>1. /\ reqcmdq # <<>> /\ reqcmdq' = Tail(reqcmdq) /\ wait_time' = NextWait(Head(reqcmdq))
      /\ clock' = 0 /\ main = "game"
      /\ UNCHANGED <<main, gui, hal, file, ended, step, before>>
  BY DEF TakeRequest, shotVars, copyVars
<1>2. /\ reqcmdq' \in Seq({"DUMMY", "END_DOOM"}) /\ Len(reqcmdq) \in Nat \ {0}
      /\ DOMAIN reqcmdq = 1 .. Len(reqcmdq) /\ DOMAIN reqcmdq' = 1 .. Len(reqcmdq) - 1
      /\ Head(reqcmdq) = reqcmdq[1]
      /\ \A i \in 1 .. Len(reqcmdq) - 1 : reqcmdq'[i] = reqcmdq[i + 1]
  BY <1>1 DEF EndInv
<1>3. EndRequested' => EndRequested
  BY <1>2 DEF EndRequested
<1>4. Head(reqcmdq) = "END_DOOM" => EndRequested
  BY <1>2 DEF EndRequested
<1>5. wait_time' \in {0, EndWait, DummyWait} /\ (wait_time' # 0 => ended)
  BY <1>1, <1>4 DEF EndInv, NextWait
<1>6. QED
  BY <1>1, <1>2, <1>3, <1>5 DEF EndInv

LEMMA TickKeeps == ShotInv /\ PagesInv /\ EndInv /\ Tick => EndInv'
<1> SUFFICES ASSUME ShotInv, PagesInv, EndInv, Tick PROVE EndInv'
  OBVIOUS
<1>1. /\ UNCHANGED <<main, gui, hal, file, reqcmdq, ended, wait_time, before>>
      /\ clock' = clock + 1 /\ (Busy => step < StepTime) /\ main = "game"
      /\ step' = IF Busy THEN step + 1 ELSE 0
      /\ wait_time # 0 /\ reqcmdq = <<>>
  BY DEF Tick, shotVars, copyVars
<1>2. clock' \in Nat /\ step' \in 0 .. StepTime
  BY <1>1, AppAssumption DEF EndInv
<1>3. Unsaved' = Unsaved /\ StuckInTail' = StuckInTail /\ EndRequested' = EndRequested
  BY <1>1 DEF Unsaved, StuckInTail, EndRequested
<1>4. Unsaved /\ ~StuckInTail => clock' <= step'
  <2>1. Unsaved /\ ~StuckInTail => Busy
    BY OpenIsBusy DEF Unsaved
  <2>2. QED
    BY <1>1, <2>1 DEF EndInv
<1>5. QED
  BY <1>1, <1>2, <1>3, <1>4 DEF EndInv

(* The wait is over only when nothing of before the end is being written.  *)
LEMMA TimeOutKeeps == EndInv /\ TimeOut => EndInv'
<1> SUFFICES ASSUME EndInv, TimeOut PROVE EndInv'
  OBVIOUS
<1>1. /\ UNCHANGED <<gui, hal, file, reqcmdq, ended, wait_time, clock, step, before>>
      /\ wait_time # 0 /\ reqcmdq = <<>> /\ clock = wait_time
  BY DEF TimeOut, shotVars, endVars
<1>2. ~(Unsaved /\ ~StuckInTail)
  BY <1>1, AppAssumption DEF EndInv
<1>3. Unsaved' = Unsaved /\ StuckInTail' = StuckInTail /\ EndRequested' = EndRequested
  BY <1>1 DEF Unsaved, StuckInTail, EndRequested
<1>4. QED
  BY <1>1, <1>2, <1>3 DEF EndInv

LEMMA EndKeeps == ShotInv /\ PagesInv /\ EndInv /\ [Next]_vars => EndInv'
<1> SUFFICES ASSUME ShotInv, PagesInv, EndInv, [Next]_vars PROVE EndInv'
  OBVIOUS
<1>1. CASE Encoding
  BY <1>1, EncodingKeeps
<1>2. CASE Saving
  BY <1>2, SavingKeeps
<1>3. CASE EndDoom
  <2>1. /\ UNCHANGED <<main, wait_time, clock, step>> /\ main = "game" /\ ended'
        /\ before' = shots /\ shots \in Nat /\ reqcmdq' = Requested("END_DOOM")
    BY <1>3 DEF EndDoom, copyVars, PagesInv, FileInv
  <2>2. reqcmdq' \in Seq({"DUMMY", "END_DOOM"}) /\ reqcmdq' # <<>>
    BY <2>1, RequestedIs DEF EndInv
  <2>3. QED
    BY <2>1, <2>2 DEF EndInv
<1>4. CASE TakeRequest
  BY <1>4, TakeRequestKeeps
<1>5. CASE Tick
  BY <1>5, TickKeeps
<1>6. CASE TimeOut
  BY <1>6, TimeOutKeeps
<1>7. CASE Starting \/ UNCHANGED vars
  <2>1. UNCHANGED <<gui, hal, file, reqcmdq, ended, wait_time, clock, step, before>>
    BY <1>7 DEF Starting, vars, shotVars, endVars
  <2>2. main' = "reset" => main = "reset"
    <3>1. ASSUME CopyNext PROVE main' # "reset"
      BY <3>1 DEF CopyNext, CopyFlash, Verify, FlashGameSelect, EraseStart, EraseBlock,
                  WriteHeader, OpenFails, CopyBegins, CopyEnds, CopyDone, Reboot, PowerLost,
                  Booted
    <3>2. QED
      BY <1>7, <3>1 DEF Starting, vars, copyVars
  <2>3. Unsaved' = Unsaved /\ StuckInTail' = StuckInTail /\ EndRequested' = EndRequested
    BY <2>1 DEF Unsaved, StuckInTail, EndRequested
  <2>4. QED
    BY <2>1, <2>2, <2>3 DEF EndInv
<1>8. QED
  BY <1>1, <1>2, <1>3, <1>4, <1>5, <1>6, <1>7 DEF Next

(* The reset at the end of a game (StartDefaultTask) does not come in the  *)
(* middle of a screenshot that was begun before it: SavedDespiteEnd holds  *)
(* if a step takes less time than the wait after it.                       *)
THEOREM ScreenshotsAreSaved == Spec => []SavedDespiteEnd
<1>1. Init => ShotInv /\ PagesInv /\ EndInv
  BY ShotStarts, PagesStart, EndStarts DEF Init
<1>2. ShotInv /\ PagesInv /\ EndInv /\ [Next]_vars => (ShotInv /\ PagesInv /\ EndInv)'
  BY ShotsKeep, PagesKeep, EndKeeps
<1>3. PagesInv /\ EndInv => SavedDespiteEnd
  BY DEF PagesInv, FileInv, EndInv, Unsaved, SavedDespiteEnd
<1>4. QED
  BY <1>1, <1>2, <1>3, PTL DEF Spec
=============================================================================
