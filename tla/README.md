# DoomPlayer: verification project

TLA+ models of the firmware in this repository (a music player and Doom for
the STM32H7B3I-DK and STM32F769I-DISCO boards, C on FreeRTOS), TLC
configurations that check them on small instances, and theorems checked by
TLAPS.

## The system: inventory

All tasks are FreeRTOS threads with fixed priorities; they talk through CMSIS
message queues (nearly always with time-out 0: a full queue drops the
message), counting semaphores, mutexes, event flags and shared structures.

| Component | State | Operations | Interacts through | What is hard | What makes it correct |
|---|---|---|---|---|---|
| FLAC read-ahead (`src/App/mix_player.c`) | `FLACINFO`: `readqId`, `readsemId`, `sendsemId`, `read_index`, `send_index`, `reader_status`; the ring `flac_reader_buffer` | reader task: `READER_START`, `READ_BUFFER`, `READER_STOP`; decoder callbacks onRead, onSeek, open, close | queue and two semaphores; ring and indices shared without a lock | two tasks, dropped commands, resets racing tokens, prefetch against seek | no buffer lost, shared or promised twice; the decoder reads the file in order; no wait is for ever |
| Music player task (`src/App/mix_player.c`) | `MixInfo`, `FLACINFO.loop_count/pcm_pos`, `MusicFrameBuffer`, `freebuffer_ptr` | `MIX_PLAY`, `MIX_DATA_REQ`, `MIX_PAUSE`, `MIX_RESUME`, `MIX_HALT`, volume, FFT | `mixevq` from the GUI, Doom and the sound DMA interrupts | interrupts in phase with a double buffer, commands crossing data requests, queue of five | every half is filled before it is sent, music in order, a play request is served |
| Sound channels (`src/App/mix_player.c`, `audio_output.c`) | `ChanInfo[16]`, `soundLock` | `Mix_PlayChannel` ... `Mix_HaltChannel`, `MixSound` | mutex; some readers without it | flag bits tested by different sides, channel end inside a frame | a halted channel is silent, a started one is heard once |
| Doom music requests (`src/chocolate-doom-3.0.1/src/doom/s_sound.c`, `i_sdlmusic.c`) | `mus_playing`, the looping flag | change and stop song | `Mix_...` calls of a task below the mixer and the reader | the halt and the play request are two messages | the song asked for is the one heard, a looping song never ends |
| Doom sound effects (`.../doom/s_sound.c`, `i_sdlsound.c`) | Doom's channel table, `channels_playing`, the list of cached sounds with use counts | start, stop, follow sounds; pitch shift, cache eviction | `Mix_...Channel` calls, `MixSound` of the mixer task | use counts, cache limit, sounds freed under the mixer | a sound in use is never freed, the table tells what sounds |
| Music screen (`src/App/app_music_main.c`, `app_music_list.c`) | `playing`, `track_id`, `curMusic`, the pause timer | play, pause, resume, next, list click, finish | `Mix_...` calls, `GUIEV_MUSIC_FINISH` | its own idea of the player's state | the button tells what is played |
| Key store (`src/btstack/btstack_tlv_flash_bank.c`, `hal_flash_bank_memory.c`) | two banks, `current_bank`, `write_offset` | init, get, store, delete, migrate | btstack's link key database | a reset between any two writes | a stored key survives a restart, old or new value, never garbage |
| Bluetooth dongle (`src/USB/usbh_bluetooth.c`, `src/btstack/btstack_port.c`) | buffer pools of two, event queues, transfer state | URB events to HCI packets, ACL reassembly, send | queues between host task and btstack task | buffers returned while still referred to, full queues, packets in pieces | no packet overwritten, no buffer lost, sends resume |
| Bluetooth gamepads (`src/btstack/hid_gamepad.c`) | device table, remote state, `btreq` queue | inquiry, name, connect, HID reports | btstack events, GUI requests | callbacks in any order, table of 20 | an open connection is heard, every controller found is tried, disconnects are served, the task never waits for itself |
| USB host core (`src/USB/usbh_core.c`, `usbh_ctlreq.c`, `usbh_ioreq.c`, `usbh_pipes.c`) | `gState`, `EnumState`, retry counters, pipe pool, control URB lock | attach, enumeration, class start, abort | port interrupts, host queue, class drivers | retries, disconnect in any state | each device is enumerated or the board reset, the polling never stops, pipes are returned, a class request ends |
| USB HID (`src/USB/usbh_hid.c`, `..._keybd.c`, `..._parser.c`) | control state, report queue, flags | requests, polling, reports | URB events, GUI and Doom | queue created after the state that posts to it | reports arrive in order, none after detach |
| USB audio (`src/USB/usbh_audio.c`) | stream state, frame pointers | open, feed, volume | SOF interrupts, the mixer | isochronous deadlines | as for the I2S driver |
| Pad report decoders (`src/USB/dualsense.c`, `dualshock4.c`, ...) | last report, rumble and LED requests | decode, build output reports | HID and Bluetooth | two transports | pure conversions |
| Application main (`src/App/app_main.c`, `fatfs.c`) | request queue, its time-out, card state | start-up, game start and end, card events | all of the above | time-outs that reset the board | the board is reset after a game, and not in the middle of a screenshot |
| GUI task (`src/App/app_gui.c`) | active screen | event loop | queues from all tasks | events for a screen that is gone | events reach the right screen |
| Console log (`src/App/app_console.c`) | one buffer, its token, `consq` | `_write`, start and end of a transfer | semaphore, mutex, queue, DMA interrupt | writers of several priorities, a full buffer or queue, a text before the start message is out | a text is sent whole and once, and every print returns |
| Game data copy (`src/App/app_verify.c`) | SD files, QSPI flash | verify, erase, copy | GUI progress | power loss half-way, an error of one file, a check that reads only one file | a game that is offered is whole |
| Screenshots (`src/App/jpeg_if.c`, `StartShotTask` of `app_main.c`) | codec in/out buffers, event flags, `shotq` | feed, drain, write, close | codec interrupts, event flags, queue | one output buffer, late data-ready events, tail of the image | a page is not overwritten while it is written, files are whole, a screenshot ends |
| Doom glue (`src/App/doom_helper.c`, `app_sound.c`) | key queue | put, get | GUI and Doom | queue of 20 | keys in order |

The third-party code (`src/Middlewares`, `src/Fusion`, `src/btstack/src`, `src/App/dr_flac.h`,
the rest of `src/chocolate-doom-3.0.1`) and the board support are not modelled
for themselves; what this code relies on from them is modelled where it is
used and marked external in the map. `PROJECT.json` lists every component with
its status, and the hazards with the line where each one bites.

## The modules

| Module | Models | Builds on |
|---|---|---|
| `FlacStream` | abstract: the stream the FLAC decoder is promised by its callbacks | |
| `FlacReader` | reader task, decoder callbacks, ring, semaphores, `flacreadq` | implements `FlacStream` |
| `FlacReader_proofs` | theorems about `FlacReader` | extends it |
| `MixPlayer` | the music part of the mixer task, `mixevq`, sound DMA, task priorities | extends `FlacReader` |
| `MusicGui` | the music screen as client of the mixer | extends `MixPlayer` |
| `DoomMusic` | Doom's song changes as client of the mixer | extends `MixPlayer` |
| `SoundChannels` | the 16 sound channels and the channel loop of `MixSound` | |
| `SoundEffects` | Doom's channel table and sound cache | extends `SoundChannels` |
| `DurableMap` | abstract: a map that survives resets | |
| `TlvStore` | the key store on its two banks, with resets | implements `DurableMap` |
| `Screenshot` | GUI task, codec, screenshot task | |
| `GameCopy` | boot check, game selection, erasing and copying, power losses | |
| `AppMain` | the default task over both: start, copies, a game, its end, the reset | extends `Screenshot`, `GameCopy` |
| `UsbHost` | host task, enumeration, control pipe, start of the HID and audio tasks | |
| `BtDongle` | dongle task, USB interrupts, btstack's transport | |
| `GamepadHost` | packet handler of the pads, DualSense buffers, requests of the GUI | |
| `MixPlayer_proofs`, `SoundEffects_proofs`, `AppMain_proofs`, `UsbHost_proofs`, `BtDongle_proofs`, `GamepadHost_proofs`, `TlvStore_proofs` | theorems about those modules (`MixPlayer_proofs` about the player with each of its clients `DoomMusic` and `MusicGui`, from the lemmas of `FlacReader_proofs`; `AppMain_proofs` holds the lemmas about `Screenshot` and `GameCopy`) | extend them |
| `MC...` | values of the constants for TLC | extend the module of that name |

### FlacReader

Variables are the fields of `FLACINFO` under their own names, `readsem` and
`sendsem` the counts of the two semaphores, `readq` the content of the queue,
`pfile` the state of `FlacFile`. A block is one `DR_FLAC_BUFFER_SIZE` read; it
is identified by its song and number, so that a buffer taken in the wrong
order, twice or from another song shows. The reader task's loop is one action
per command and, for `READ_BUFFER`, one each for taking the semaphore
(`ReaderTake`), for `f_read` with handing over (`ReaderFill`, `ReaderError`) and
for posting to itself (`ReaderMore`): between them the decoder may run. The
decoder's callbacks are cut where they block or share state: request
(`OnRead`), wait (`OnReadAcquire`), copy and give back (`OnReadCopy`); closing is
`CloseSend` and `CloseFile`. All queue operations have time-out 0 and are
`PutCmd`, which drops at the bound.

The metadata reads at opening go straight to the card and are left out; so is
the buffer-internal position, because the decoder asks for whole buffers.
An OnRead of a whole buffer is the unit. Seeks are part of the module, but
when they happen is the mixer's matter; `SeekTargets` limits where they go.

### MixPlayer, MusicGui, DoomMusic

`mixpc` is the place in the mixer's event loop: `get` at the queue, `stopwait` in
the polling loop of `MIX_PLAY`, `fill` and `refill` in `drflac_read_pcm_frames_s16`
of a new song and of one more half, `halt` in the close. Music is counted in
halves of the output buffer (`music`, `freehalf`), the DMA sends the halves in
turn (`dma`) and its interrupts post requests. Sound effects in the frame loop
are in `SoundChannels`; FFT, volume and the seconds display change nothing
that is asked about here.

*Scheduling.* The mixer task (AboveNormal2) is above the reader (AboveNormal),
both above GUI and Doom. With `Priorities = TRUE` a task runs only when those
above are blocked; interrupts come at any time. *Timing.* A request of the DMA
finds the one before it answered, unless the mixer is kept waiting (by the
reader, or in `stopwait`); `Late` is how many more requests may then pile up. A
mixer that is kept waiting longer loses requests once commands and requests
fill the queue of five, and from then on fills the half the DMA is sending:
`InPhase` fails with `Late` = 3 and two commands of a song change in the queue. How long a read of the card takes is not in the code, so that
this remains an assumption.

`MusicGui` keeps `playing`, `track_id` and `curMusic`'s state as the screen does,
the finish event and the timer of the pause between tracks. A call that sends
two commands is two steps (`pending`), since the mixer runs in between.
`DoomMusic` does the same for `S_ChangeMusic`.

### SoundChannels, SoundEffects

`chan` is `ChanInfo` (flags and read pointer), `MixFrame` one turn of the frame
loop, with the early end of the channel loop (`c = NUM_CHANNELS`) when a sound
ends. `SoundEffects` has Doom's task cut at every call that takes
`soundLockId` or is otherwise seen by the mixer: finding a channel, releasing
what is on it, locking the sound in the cache, shifting its pitch, playing.
`Release`, `Reserved` and `ToHead` are `ReleaseSoundOnChannel`,
`ReserveCacheSpace` and `LockAllocatedSound` on the list of cached sounds. The list is the set
`cache` with the order `newer`; `Evicted` frees the unused sounds nearest to the tail, as
`FindAndFreeSound` does when it walks the list from there.
Sounds have one size and a few frames; sample values and volumes are left out.

### TlvStore

A bank is a header (epoch or none), a log of entries and what follows it:
erased memory, a value without its entry, or a torn entry. Offsets are counted
in entries: link keys have one size (28 bytes and a header of 8), and with 4096
bytes the last entry never fits exactly (`ExactFit = FALSE`). The memory is RAM
that a system reset keeps and a power-up fills with anything but a header.
`Reset` may come between any two writes; a reset inside the eight bytes of an
entry's header leaves a torn entry. Torn bank headers, torn overwrites with
zeros and half-erased banks are not modelled. `log` is the current bank's log,
`due` the store or delete that has not taken effect.

### Screenshot

One action for every stretch between two waits of `save_jpeg_start` and
`save_jpeg_data`, one per codec callback, and the four commands of
`StartShotTask`. The codec is what the HAL driver does with the pauses and
resumes of these callbacks: an input chunk goes in, pages of output come out,
the end of the image hands over the last page. While its output is paused it
takes at most the rest of the chunk that is going in, if it fits into the
pipeline (`fits`). If the image ends on a page that was just handed over the
driver hands it over again and waits (`EndWhilePaused`).

### GameCopy, AppMain

`main` is where the default task, or the user in front of the start screen, is:
`boot` and `menu` (the check and what it offers), `erase`, `copy`, `copyfile`, `done` of
`CopyFlash`, `stopped` with a box on the screen, `game`, `reset`. The flash is `header` and
`content` by file, and each holds the number of the copy that wrote it, `Partial` while a
file is written, or blank; `Playable` is what `VerifyFlash` can see, the magic number and the
WAD's CRC. A failed erasure is not noticed by the code and leaves what was there (`Over` is
what programming over it gives). A copy that cannot open a file goes on in the root
directory (`cwd`), where it finds none of the others. The power may fail at any moment of a
copy (`PowerLost`).

`AppMain` has the end of a game: `SDL_Quit` posts `REQ_END_DOOM`, the default task then takes
requests with a time-out, each step of a screenshot posts `REQ_DUMMY`, and the time-out resets
the board. Time is in ticks: `Tick` counts the wait (`clock`) and how long the step of
a screenshot has been going on (`step`), which is at most `StepTime`. The game is started
from the screen or from the flash only as it was first found (bound), the copies come before it.

### UsbHost

`gState` and `EnumState` are the host task's state machines under their own names, `events` the
number of messages in `os_event` (they say nothing but "look again"), `ctl` the
state of the control transfer (`CMD_SEND` is a state of its own), `urb` what the controller
reports. `Host` is one turn of `StartHostTask`: one action per state, with the whole of
`USBH_HandleEnum` and `USBH_CtlReq` it calls; `delay` is the `osDelay` it may stand in, the place where a
device can come and go unseen. The interrupt that disables the port is part of
the reset that causes it (`ResetPort`). A class task is a list of steps (`Script`): taking the
control pipe (`control_sem`, `urb_thread`), a request without data, to or from the device, the
queue it files under the numbers of its pipes (`PipeEvq`). It sleeps in a request until a
thread flag (`flag`) comes from the interrupt or from the host task. Descriptors
are data: a device is a kind, with the interfaces and the pipes of that kind, which matters from
`CheckClass` on (`dev`). What a device may answer is limited only by its kind of transfer (`Failures`).

### GamepadHost

One action per event of `packet_handler`, with the state (`INIT`, `ACTIVE`, `CONNECT`) that decides
whether it is heard, and `process_btapi_request` for what the GUI asked for by flags. `link` is the
connection as the radio has it and `hid_host_cid`, `con_handle` as the handler believes it.
`btreportq` counts the free output buffers of the DualSense driver, `blocked` says the task waits for
one, `burst` how many reports it took in a row. btstack and the radio are external: names, pages
and connections may fail or be refused, the pad may connect and leave by itself.

### BtDongle

One action per event the dongle task takes from `classEventQueue` (start of frame,
`NOTREADY`, `DONE` by pipe) and per step after it: telling btstack it may send
(`SendNow`), a command (`SendCmd`, `CmdOver`), the first part of an ACL packet
(`SendAcl`). Interrupts come between any two: `Sof` with the test for three free
places, `Receive`, `NothingThere`, `AclEmpty`, `OutDone`, `OutRefused` and `CtlStage` with
`URBChangeCallback`'s put. btstack takes packets by pointer (`Deliver`) and has one
packet of its own on the way at a time (`Send`), as it keeps its buffer until
`HCI_EVENT_TRANSPORT_PACKET_SENT`; it is above the dongle task, which therefore never
runs with a packet in `hcievq` (`DongleTurn`). Packets are counted in USB transfers
(parts), the first of which holds the length; `mem` is what the buffers hold.
`untold` is history: transfers whose end the task was not told. Bus errors, the
removal of the dongle and opening the pipes are left out. Assumed of the dongle: the first part of an
event has at least the two bytes of its header (with fewer, `src/USB/usbh_bluetooth.c:477` leaves `DMA_EVINPUT`
set and no input is started again), and a transfer of an input pipe ends once.

## Runs

| Run | Question | Bounds | Distinct states |
|---|---|---|---|
| `flac_reader_seek` | Can the two tasks lose or share a buffer or a wake-up, with a decoder that seeks at will? | ring and queue of the source (3, 3), 2 songs of 4 blocks | 361 000 |
| `flac_reader_errors` | With a failing card: is what is read still the file in order? Is `PipelineInv` an invariant? | same, no seeks | 5 900 |
| `music_gui` | Screen, mixer, reader and DMA | 3 user actions, `mixevq` of 5, `Late` = 0 | 230 000 |
| `doom_music` | Song changes against mixer, reader and DMA | 2 changes, `Late` = 2 | 553 000 |
| `sound_effects` | Cache, channel table and channels against the mixer | 2 channels of 2 frames, 2 sounds at 2 pitches, cache of 1, heap of 2, use counts up to 3 | 140 000 |
| `sound_freed` | Is only what is silent freed? | same | violation |
| `tlv_store` | Is the store a durable map? | 3 keys, 2 values, banks of 3 entries | 507 000 |
| `tlv_latest` | Does a start take the newer bank? | 2 keys, banks of 2 | violation |
| `app_main` | From start to reset: is what is offered whole, the one output buffer safe, and the reset late enough? | 5 chunks, 2 and more per page, 2 screenshots; 2 files beside the WAD, 3 blocks, 2 copies, 2 failures; waits of 3 and 2 ticks for steps of 1 | 243 000 |
| `usb_host` | Do enumeration and the first class requests end, whatever fails or is unplugged? | a pad, a speaker and a device refused by its last class, plugged in twice, any number of failed transfers; 1 retry for transfers and resets, queue of 2 | 188 000 |
| `gamepad` | Is a pad found, heard and let go? | a controller and a phone, 1 failure, 2 first reports (4 in the code), queues of the source | 429 000 |
| `bt_dongle` | Do packets get through whole, and is every dead end one that began with a lost event? | queue of 3 events (6 in the code), pools of 2, packets of 1 or 2 parts, 3 packets in or out | 1 216 000 |

Why the bounds are enough. The ring and the queues have the sizes of the
source, which is what the hazards are about. A file of four blocks is longer
than the ring, so that the ring wraps and the end of the file is met with every
fill level; two songs are enough to mistake one for the other. Three clicks
reach play, pause and list click in every order; two changes are a song, and
its replacement while the first one is in any phase. Three keys in a bank of
three: a store that needs room, with one key to be dropped; epochs go round
modulo 4 and are not bounded. Five chunks at more than two per page are two
full pages and a rest; the second screenshot meets what the first one left, and the
end of the game comes in either. Two copies with two failures are a good
game, one that breaks, and what is left of it when the next one breaks too; `Blocks`, files and
their blocks are chosen so that a file lies in a block with the header and one in two
blocks. A pad has two pipes, requests without and with data in and a queue; a speaker is the
device without the pipes its class files a queue for; the second plug finds
what the first device left. Transfers may fail any number of times, so that the host gives up
a device again and again. The limits of
the retries (2 and 3 in the code) are cut to 1: one is used up, and the next is too many. The
queue of two is the smallest in which one event is handled while the next one waits (16 in the code).
Two first reports with two buffers are the smallest number where the calibration
report and they compete.
Three packets are two by one pipe and
one by another, in every order. With a queue of three the start-of-frame event is put
in an empty queue only and leaves two places, as it does in the code's six: both
ends of a command, or of the inputs, can be lost.
Two sound channels are the smallest number where one is taken from another
sound, and a cache of one sound with a heap of two makes every start an
eviction or a growth. Bounded are: songs and blocks (`Songs`, `NBlocks`), user
actions (`Clicks`, `Changes`, `Shots`, `Copies`), failures (`Failures`, `CopyFaults`), devices
(`Plugs`), packets (`Packets`; empty ACL transfers and
refusals happen only while `untold` is empty), lag (`Late`) and use counts (`MaxUse`).

### What the passing runs show

- `NoBufferLost`, `NoSlotRace`, `PipelineInv`: without a lock,
  two counting semaphores and a ring are enough; no order of stop, start and
  end of file leaks a buffer, hands one out twice or fills for the wrong song.
- `NoLostWakeup`, `ReadsAnswered`: although full queues drop commands, a waiting
  decoder always has a reader at work, and every read is answered.
- `ReadsTheStream`: without seeks the decoder sees the file in order. *With*
  seeks it does not: `onSeek` moves the file position and leaves filled buffers
  in the ring (`src/App/mix_player.c:240`), so that up to three blocks of the old
  place follow the jump. The property is therefore checked and proved for
  `SeekTargets = {}`.
- `PlayFindsIdle`, `ButtonTellsTruth`: "MIX_PLAY: Bad state" is not reached from
  the screen, and the button agrees with the player once commands are handled.
- `InPhase`: the mixer and the DMA never use the same half.
- `MixesOnward`: after the second half decoded by a `MIX_DATA_REQ` every half is
  the next of the song. The start is left out because the code skips there: see
  below.
- `PlaysSongAsked`, `MixesOpenSong`, `LoopNeverEnds`: across a
  halt nothing that was prefetched of the old song is heard in the new one.
- `ServedUnlessStopLost`: a `READER_STOP` lost at a full queue is the *only* way
  in which Doom's play requests wait for ever.
- `HeldIsLocked`, `GrowsWhenFull`, `SoundEnds`: a sound on a channel Doom holds
  is cached and locked, the cache passes its limit only when all in it is in
  use, and every sound that is heard comes to its end.
- `KeepsKeys`: a store or delete is seen whole or not at all over any number of
  resets, and keys are forgotten only by a start from a memory that is `Fragile`.
  `WritesErased`, `OneEntryPerTag`: nothing is programmed twice; no old value is
  left to come back with a move.
- `BufferHeld`: the output buffer is not stored into while a page of it waits to
  be written, whatever late `ENCODER_DATAREADY` is about. It rests on `PageChunks`
  being two or more: with pages that fill in one chunk, the last
  `ENCODER_DATAREADY` of a screenshot, which nobody takes, would restart the
  output of the next one too early. `FilesComplete` leaves out screenshots that
  end on a full page (`EndWhilePaused`), where a page is written twice.
- `ScreenshotEnds`: a screenshot ends, or it is stuck with a page handed over in
  the tail of the image, or the board is reset, and in no other way.
- `SavedDespiteEnd`, `GameEndsInReset`: the requests that a screenshot posts hold off the
  reset that follows a game, until its file is closed, however many pages it has; and the
  reset comes. It rests on a step taking less than the 500 ms after it, and a screenshot
  begun after the end of the game may be cut.
- `PlayableIsWhole`: although the boot check reads the CRC of one file, and the header is
  written before any of them, a game it offers is whole, because the WAD is copied last. It
  leaves out copies that reported an error (they go on with the next file, and the WAD
  may come out right) and blocks that were not erased (nobody looks at the result).
- `EnumerationDriven`: the host task polls by sending itself events with time-out 0 into a queue
  of which the interrupts send too; it never runs out of them in the middle of an
  enumeration. `PipesHeld`, `WaiterIsOwner`: whatever fails, the pipes are given back, and a
  class task waits only while it is the one the flags are sent to, although the audio
  task releases the semaphore twice.
- `EnumerationEnds`, `ClassRequestEnds`: enumeration ends in a class, a disconnection or a reset
  of the board, and a class request ends, but for the ways the properties name:
  a stalled status stage, a device that was swapped, an error in a class request, a queue under
  the wrong number, and what is repeated without a count (`GivesUp`, `PutOff`, `RefusesConfiguration`).
  So the resets of a port that is not enabled and the refused descriptors end, as `RstCnt` and `EnumCnt`
  count them; transfer errors that go on do not end. Without any one of the exceptions of
  `EnumerationEnds` TLC finds a device that is enumerated for ever. See below.
- `HeardUnlessScan`, `StallsOnlyInBurst`, `DisconnectServed`, `PadTried`: a pad that is connected is
  heard, whoever opened the connection and whatever failed before; the one that is found is
  tried; the requests of the GUI are served, also those made too early; the four first
  reports find a buffer unless two of them come in a row. The exceptions are below.
- `PoolSound`, `DeliveredIntact`: the dongle task puts an event's buffer back after every
  part, and an ACL buffer at every `NOTREADY`, also in the middle of a packet. That
  comes out right because the pool of two drops what it has no room for, a
  pipe goes on in the buffer it has, and btstack, of higher priority, reads a
  packet before the next frame. `PoolSound` leaves out an ACL pool that has lost a
  buffer to an empty transfer.
- `ListensUnlessLost`, `SendAnswered`: a pipe is believed busy for ever, or a send stays
  unanswered, only after an event was dropped at the full queue or the dongle
  refused a part; a command survives the loss of one of its two events.
- `SentIntact`: no part is lost or sent twice, nor sent after `PACKET_SENT`.

### Fairness

Weak fairness for each task's steps: FreeRTOS runs a ready task when those above
it block, and none of the tasks spins (`MIX_PLAY` polls with a delay). Weak
fairness for the DMA, which is a circular transfer that is never stopped while
the player runs, and for the codec where it has input and room. No fairness for
the user, for Doom's wish to change songs, for card errors, or for a page
becoming full. In `AppMain` time passes, and nothing
makes the user copy, or the game end. In `UsbHost` the tasks run and a device that is there ends its
transfers, well or not; nothing enables a port, plugs a device in or starts music. In `GamepadHost` the
task runs, inquiries, names and pages that were begun end, and a controller that is there is heard
in one of infinitely many inquiries (strong fairness). In `BtDongle` frames go on, and what is sent ends or is refused; nothing
is assumed of the input pipes. `FairSpec` of `FlacReader` has no fairness for the decoder's
choice to read, seek or close, only for finishing what has begun. `SoundEnds`
needs only that the mixer goes on, and holds whatever Doom does.

## What disagrees with the source's own words

Each of these is the counterexample of a run and a finding in `PROJECT.json`:

1. `sound_freed`: `Mix_Playing` is inverted and `Mix_HaltChannel` leaves `FL_SET`:
   Doom's periodic update releases channels that sound, and their samples can
   be freed under the mixer.
2. `tlv_latest`: the memory layer's magic includes the epoch 0: once the log has
   come back to bank 0 with another epoch (and while it is being copied there)
   the next start wipes both banks.

Met while modelling, with no run of their own:

- `READER_STOP` is put with time-out 0 in a queue of three, which three `READ_BUFFER` can fill
  (`src/App/mix_player.c:351`); the next `MIX_PLAY` polls for ever for a stopped reader (`StopLost`).
- A click in the track list while a song is paused sends `MIX_PLAY` without `MIX_HALT`
  (`src/App/app_music_main.c:373`): the reader works on for the paused file, and the same wait has no end.
- Stale blocks after a seek (above).
- A screenshot page that fills after the last chunk is in the codec is never given
  back (`src/App/jpeg_if.c:745` waits for `ENCODER_COMPLETE` only): the GUI task
  waits for ever. It takes a page end in the last bytes of the image (fifo and
  pipeline), so it is rare; the second case of `ScreenshotEnds`.
- `REQ_END_DOOM` is put with time-out 0 in a queue of six (`src/App/app_main.c:266`): lost, nothing resets
  the board. The default task has the lowest priority of all (osPriorityLow7).
- `copyfile` that cannot open a file leaves the root as working directory: all files after it
  fail too, and the last box on the screen is the one of `OP_DONE`, whose button reboots;
  the error boxes have no callback, so that after an error before the files (the header, say)
  only the power switch helps. The game in the flash is not offered for copying
  (`src/App/app_gui.c:894`): one with broken files cannot be copied again, but by way of another.
- A control transfer that fails puts the host task back to `CMD_SEND` (`src/USB/usbh_ctlreq.c:1004`) and
  sends no event: during enumeration the host polls on, but a class task sleeps for ever, with the
  control pipe. `errorcount` is never reset by a success, `EnumState` not when a request is given up.
- A device is given up after `USBH_MAX_ERROR_COUNT` errors (`src/USB/usbh_ctlreq.c:1013`) by way of `HOST_IDLE`, which
  resets and enumerates it again. No counter counts that: `EnumCnt` counts refused
  descriptors, `RstCnt` is zeroed by every attachment (`src/USB/usbh_core.c:66`), `errorcount` by giving up. A device
  whose transfers always fail is enumerated for ever.
- A stage that is put off (`NOTREADY`) is submitted again, and a `SET_CONFIGURATION` that is refused is sent again
  (`src/USB/usbh_core.c:148`), without a limit.
- A device of several configurations takes the host to `HOST_INPUT` (`src/USB/usbh_core.c:142`), which no branch handles: the
  board is reset. So it is where the last of two classes refuses a device, also when the first has started.
- A stalled status stage is not handled (`STATUS_OUT_WAIT`).
- A device that is swapped for another in the 100 ms before enumeration is enumerated without
  a port reset.
- A keyboard has no output pipe and a speaker no headphone pipe: the queue of their class is
  filed under channel 0 (`src/USB/usbh_hid.c:119`, `src/USB/usbh_audio.c:659`), the control pipe's if it is the lower one,
  and the ends of control transfers go there.
- A device whose only class refuses it (a mouse, a pad that is not known) ends in `HOST_ABORT_STATE`, which
  resets the board.
- A scan asked for while a pad is connected (`src/btstack/hid_gamepad.c:612`) makes the handler deaf for the
  open connection.
- A disconnect asked for with a connection but no channel open is dropped (its flag is cleared,
  `hid_host_disconnect` does nothing); one asked for with no connection stays and ends the next.
- Two of the first four reports of a DualSense without `process_btapi_request` between them block the
  Bluetooth task for ever (`src/USB/dualsense.c:540`). The packets must have been queued while the task was held up,
  on the console for instance.
- The table of devices has `MAX_DEVICES` places and takes one more (`src/btstack/hid_gamepad.c:329`). A device whose
  name is known is not tried again after its connection failed, and the scan does not go on after an
  incoming connection has ended.
- An unsupported pad leaves `padDriver` of the one before.
- `FlacFile` and `JpegFile` are opened without the semaphore that guards `SDFile` (`src/App/fatfs.c:132`).
- An empty ACL transfer (`src/USB/usbh_bluetooth.c:504`) costs a buffer of the pool of
  two. After one of them a packet interrupted by a `NOTREADY` puts the other buffer
  back twice; after two, if that does not happen, no ACL packet is received any
  more.
- A transfer's end that finds `classEventQueue` full (`URBChangeCallback`) leaves its bit
  in `dma_flag`: with an input pipe's bit set no input is started again.
- The branch for channel 1 in `StartBTDongleTask` is never reached: `PipeEvq[1]` is not set.
- The second half of `MusicFrameBuffer` filled by `MIX_PLAY` is decoded over before it
  is mixed (`src/App/mix_player.c:752` after `:708`): one half is lost at the
  start of every song.
- A looping song that reaches the end of its *file* seeks back, but `send_index`
  stays -1 (`src/App/mix_player.c:197`, `:796`): silence from then on.
- A song without loop tags has `LoopStart = LoopEnd = 0`; if it loops, the test at
  `src/App/mix_player.c:735` is true at every first half, and it never gets on.
- `Mix_HaltMusic` puts with time-out 0 too (`src/App/mix_player.c:990`).
- A list click during the pause between two tracks leaves its timer running
  (`src/App/app_music_main.c:359`), which later cuts off the chosen track.
- A base sound is locked twice when the pitch is the normal one or the shifted
  variant is cached (`i_sdlsound.c:929`): its count never returns to 0. (`MaxUse`
  bounds the leak in the model.)
- A sound that ends before the first tic stays in Doom's table until its origin
  sounds again or the level starts; a new sound is first mixed at the volume
  of the channel's last one (left out of the model with the volumes).
- `I_SDL_UpdateSound` asks for all 16 channels, Doom uses `snd_channels` of them.

## Proofs

`FlacReader_proofs` proves, for every set of songs, number of blocks, ring size
and queue depth (two at least) and for both values of `CardErrors`:

- `TypeCorrect`: `Spec => []TypeOK`, from a typing invariant of its own (`TypeOK`, and the `NoOvercommit` and
  `ReaderIndexed` of below, are consequences; no run lists them, `PipelineInv` is the one that is run);
- `PipelineAgrees`: `Spec => []PipelineInv`, and from it `BuffersNotOvercommitted`,
  `BuffersNotLost`, `SlotsNotShared`, `ReaderWorksForSession`, `WakeupNotLost`;
- `PipelineIsStream`: without seek targets `FlacReader` implements `FlacStream`.

*Assumptions:* those named in the module: `READB_FACTOR` > 0, `MIXREADQ_DEPTH` > 1
(with a queue of one the `READ_BUFFER` the reader posts itself at the start can
be lost), `NoSong` is no song, seek targets are blocks.

*The inductive invariant.* `NoOvercommit` and the rest are not inductive: that
counts add up after `READER_START` depends on the ring being empty, that on
`READER_STOP` having been handled with no command of the old session behind it.
`PipelineInv` adds `ModesAgree` (what each mode of one task allows of the other),
`QueueInOrder` (a `READER_START` is only queued for a stopped reader, last, by a
waiting decoder; one `READER_STOP` at most, for a running reader whose file is
being closed) and `RingInOrder` (the reader fills the slot after the filled
ones). `QueueInOrder` is where dropped commands are dealt with: a command is only
dropped at a full queue, and a full queue keeps the reader at work. It is
checked by TLC in `flac_reader_errors`. The proofs of the steps have one step per
action; lemmas say what `PutCmd`, `Tail`, `Advance` and `Release` keep.
For the refinement, `ContentsInOrder` adds that the filled slots hold the next
blocks of the open file; a step of the reader is a stutter, `OnReadCopy` is the
abstract read.

`MixPlayer_proofs`, for every set of songs, size of the ring, depth of both queues and number of
song changes or clicks, with card errors or not and for any interleaving of the tasks:

- `MixedWasDecodedFromOpenFile`: `DoomSpec => MixesOpenSong`. `READER_STOP` empties no buffer, and neither
  the frame that is being decoded nor `MusicFrameBuffer` is cleared between two songs. `PlayerInv` adds to `PipelineInv`
  that filled slots hold blocks of the open file (`RingHolds`; weaker than `ContentsInOrder`, as the loops seek),
  which callback of the decoder may run in which place of the mixer task (`CallsAgree`), and that what is
  decoded, cached or waits in `MusicFrameBuffer` belongs to the open song (`SongInv`). The step that matters is
  `PlayOpen`: it waits for the reader to be stopped, and a stopped reader beside a mixer task outside the callbacks
  means that no file is open, so the player is idle. Events that find a full queue are lost in the model as in
  the code, and do no harm to this. *Assumption:* the frame `LOOP_START` lies in is in the file (the decoder takes the end of
  the file for a position behind it, `src/App/dr_flac.h:11595`).

- `SongMixedWithoutGap`: `GuiSpec => MixesOnward`. The music screen seeks nothing and its songs do not loop, so that
  `ContentsInOrder` holds and the decoder reads a stream. `Position` is the number of halves decoded, told from the
  block the stream stands at and what the decoder still holds (`FrameInv`; `NextBlock` is the arithmetic of blocks and
  frames). `OnwardInv`: at rest, the half that is decoded next is the one to be mixed next, or the song is over; a call in
  progress has put the one before `Position` in its place. Pauses, resumes and songs that cannot be opened change
  nothing of it, whatever was dropped.

The proof of the second found the model wrong: after a halt the decoder kept what it had decoded, and a resume with no
file would have mixed it. The code frees it with the decoder (`drflac_close_fatfs`), and `HaltDone` now does.

The five other properties of the player are false of a `mixevq` that overflows: all its events are put with
time-out 0 (`src/App/mix_player.c:945`, `:1213`), and a request or a halt that is dropped is never made up for. It can overflow
while the mixer task waits for the reader to stop, or for the card. Their theorems have two parts. The first is about
every behaviour in which events are put only in a queue with room. That is a hypothesis about the behaviour,
`[][DmaInterrupt \/ Doom => Len(mixevq) < MIX_EV_DEPTH]_songVars` for a game, and for the screen the same with `User`, `PutPlay` and
`InterPause`; nothing else is assumed of the number of songs, changes, clicks and late requests:

- `OutputInPhase` and `ScreenOutputInPhase`: `[]InPhase` (only the DMA's requests need find room). `PhaseInv`: a
  request put moves the DMA on by a half, a request answered (`MixerAnswers`) moves `freebuffer_ptr`. The number of open requests is
  the size of a set of places in the queue; `PlaceTaken` and `PlacePut` say what `Tail` and `Append` do to it.
- `PlayFromGameFindsIdle`: `[]PlayFindsIdle`. In the queue of a game a halt is between any two songs, with nothing behind it but
  requests of the DMA, and the first song finds the player idle unless a halt is before it (`PlaysQuietly`, `QuietEnd`); a
  halt takes the player to idle whatever it was doing, and a request leaves an idle one idle.
- `SongAskedIsPlayed`: `[]PlaysSongAsked`, and `LevelSongPlaysOn`: `[]LoopNeverEnds`, both from `GameInv`: the last event of the game
  in the queue, or what the mixer task is doing when there is none, is about the song of `mus_playing`.
  *Assumptions* of the second: `CardErrors = FALSE` (a read that fails ends the song) and `NBlocks >= FRAME_BLOCKS` (a file of less than a
  frame ends at once, and so does each lap of it).
- `PlayFromScreenFindsIdle`: `[]PlayFindsIdle`, and, under the same two assumptions, `ButtonShowsPlayer`: `[]ButtonTellsTruth`. `ScreenInv`:
  while the button shows a stopped player, or a `MIX_PLAY` is still to be put, the queue ends quietly; while it shows one that plays,
  the last event of the screen is a song or a resume, or the mixer task is busy with it, or the screen is told, or has
  been told, that the song is over. A song that cannot be read would be over without a word to the screen, hence the assumptions.

The second part proves the hypothesis where the clients do little, so that no hypothesis about the behaviour is left:

- `ShortGameDropsNothing`, `ShortGameIsServed`, `ShortGamePlaysOn`: for `MIX_EV_DEPTH >= 2 * Changes` and `MIX_EV_DEPTH >= 2 * Changes + Late - 1`, as
  in the run `doom_music` (5, 2 and 2; a deeper queue or fewer changes will do too). `RoomInv`: a change puts two events at most, the
  first only one, and the DMA has a second request open only after the mixer task has taken an event of the game.
- `ShortVisitDropsNothing`, `ShortVisitIsServed`: for `MIX_EV_DEPTH >= 2 * Clicks + Late + 2` and any number of songs that follow
  each other. `VisitInv` is an account: a click pays for the events it causes; the halt before a song is
  had back when the song is opened, as it left the player without a file; and the end of a song pays for the
  two events with which the screen starts the next. The bound is not the best one: the depth of the code (5) covers one click by it, and in `music_gui`,
  with three clicks, TLC finds that no event is dropped either.

`SoundEffects_proofs`, for every number of channels, sounds and pitches, every size of the cache and of the heap,
and any interleaving with the mixer task:

- `HeldSoundsAreLocked`: `SoundSpec => []HeldIsLocked`. `SoundInv` is the property with the types (`TableTypes`) and
  the order of the list (`ListOrder`). The proof counts: a step that ends the hold of some channels on a sound takes
  away that many locks, one that begins a hold adds a lock (the pitch shift moves the lock from the base sound
  to the variant), and what is freed, by the cache or by a release, has no lock left and so no hold.
- `CacheGrowsOnlyWhenFull`: `SoundSpec => GrowsWhenFull`. The list is a strict order of finitely many sounds, so
  when any is unused there is one with no unused sound behind it, and that one is freed (`LastOfList`).

Neither proof uses that `MaxUse` bounds the counts: the bound is for TLC only.

`AppMain_proofs`, for every list of distinct files, every layout of them over the erase
blocks, and every number of copies, screenshots and chunks:

- `OfferedIsWhole`: `Spec => []PlayableIsWhole`. The boot check reads the WAD only, so
  the theorem is about the order of the copy. `CopyInv` says, for each place of the
  copy, which files are there: in a copy exactly those before `at`, and the WAD has the
  last turn (`FileTurns`); in an erasure no header is left once a block is gone. While
  any file is missing the WAD is too, so that a power loss leaves a flash that is
  refused (`UnfinishedIsNotOffered`).
- `BufferNotOverwritten`: `Spec => []BufferHeld`, from `ShotStep`. A `DATAREADY` of the
  screenshot before may be taken for one of this one. `ShotInv` says that it is gone before the first page is full, as it was set before
  the codec began and a page takes more chunks than have been begun by then; and that, while
  the output waits, there is exactly one thing to start it again. *Assumption:* `PageChunks` is
  two or more. It is needed: with one, TLC finds the overwriting.
- `ClosedFilesComplete`: `Spec => FilesComplete`, from `PagesStep` and `ClosedIsComplete`.
  `QueueInv` lists what a screenshot may leave in the queue of the task that writes: four commands at
  most, so that none is dropped (*assumption:* `SHOTQ_DEPTH` is four or more; the code has six), and a `CLOSE` last. `FileInv` relates
  the pages of the file to those the codec handed over, but one that is still to be written. `CompleteInv`: the GUI
  task leaves its loop with the one `COMPLETE` of the codec, behind which nothing is to be written but the last page.
- `ScreenshotsAreSaved`: `Spec => []SavedDespiteEnd`. `EndInv`: while a screenshot that was begun before the end of the
  game is unsaved, a request that restarts the wait is queued, or the step that will post it has
  taken no longer than its time. *Assumption:* a step takes less time than the wait (the one that module `AppMain` names).

`UsbHost_proofs`, for every set of devices, every number of retries and queue places, however transfers fail:

- `WaiterOwnsPipe`: `UsbSpec => []WaiterIsOwner`. The semaphore of the control pipe
  alone does not give it, since the audio task releases it twice. `OwnerInv` says what
  does: between its two releases the semaphore is free, and the HID task, of lower priority, has no turn
  (`HidYields`). `StartInv` says that no task is started while one runs.
- `PipesGivenBack`: `UsbSpec => []PipesHeld`. `PipeInv` ties the control pipes to the states of the host task: two
  different ones while a device is enumerated or used, none when it is not, and where a device went away with the pipes
  freed under the host task, an event is queued that takes it to `DEV_DISCONNECTED` before a new device can come. *Assumption:*
  there are at least six pipes, which is more than one device takes (the code has sixteen).
- `HostStaysAwake`: `UsbSpec => []EnumerationDriven`. Each step of the host task but a
  delay puts an event into a queue that it has just taken one from, and so finds a place.

`BtDongle_proofs`, for every packet length, traffic and queue depth:

- `DeafOnlyIfLost`: `BtSpec => []ListensUnlessLost`, from `LinkInv`: a pipe has one
  transfer, or one event of its end in the queue, and never both.
- `PoolsNeverCorrupt`: `BtSpec => []PoolSound`, from `PoolsInv`: of a pool at most one
  buffer is missing, the one in use. The code puts a buffer back after each part of an
  event and at each `NOTREADY` amid an ACL packet; the second time it finds the pool full
  and is not doubled. An empty ACL transfer breaks this, and the property excepts it.
  *Assumption:* `EVMSGQ_DEPTH` is at least three.
- `PacketsWaitIntact`: `BtSpec => []DeliveredIntact`. The dongle task puts a buffer back before btstack has read it, and the pool
  may hand it out again. `PacketInv`: one packet waits at most, and while it does the dongle task, which is of the lower
  priority, has no turn, so that no transfer is on into its buffer; what has been received of the next
  packet is in its own buffer, part by part.
- `PartsGoInOrder`: `BtSpec => SentIntact`. `OutInv`: what is being sent is what btstack handed over last, the part that is out is the one
  before `outgoing` says is next, and at a `NOTREADY` or after the last part it is the turn of nobody else.

`GamepadHost_proofs`, for every set of devices, first reports, failures and queue sizes:

- `ConnectionHeard`: `Spec => []HeardUnlessScan`. The handler is in `CONNECT` from the
  page or request that begins a connection to its end, unless a scan was asked for.
- `StallNeedsBurst`: `Spec => []StallsOnlyInBurst`. `BufferInv`: while there is no free
  buffer, a report is queued that the next `process_btapi_request` sends.

`TlvStore_proofs`, for every set of tags and values, bank size, exact fit or not, and any
number of calls and resets:

- `StoreIsDurable`: `Spec => KeepsKeys`, `TlvStore` implements `DurableMap` with the first
  entries of the current bank as the map. `StoreInv` says when the first entry of a tag
  is the only one (`Entries`): always, but between the writing of a renewed key and
  the overwriting of its older entry, when the renewal is what is due. That is the moment it takes
  effect, in the store or, after a reset, in the next start. In a move the copy holds what the log
  holds before `at` (`Copied`), so that its header may make it the current bank. `Headers`
  is why a start that finds a bank finds the current one: epochs are even in bank 0 and odd in bank 1,
  and an older bank 1 that a start left behind cannot be scanned.
- `NothingWrittenTwice`: `Spec => []WritesErased`; `NoOldValues`: `Spec => []OneEntryPerTag`.

The queue depths are assumed positive; `FlacReader`'s assumptions are the ones above.

*Only model-checked:* everything under fairness (`ReadsAnswered`,
`ServedUnlessStopLost`, `ScreenshotEnds`, `GameEndsInReset`, `EnumerationEnds`, `ClassRequestEnds`, `DisconnectServed`, `PadTried`,
`SoundEnds`, `SendAnswered`), which is out of the
prover's reach. Every other property of the passing runs is stated by a theorem; of the player's, that a `mixevq` of five drops
nothing in the three clicks of `music_gui` is what TLC says and the prover does not.

## Plan

Models that are left, by how much concurrency they have:

1. `Console` (`app_console.c`): `_write`, the token that writers and the console task hand each other, and
   the two events that are put with time-out 0 in a queue of four, for tasks of several priorities.
2. The class tasks of `UsbHost` after their set-up: reports on the interrupt pipe, output reports of a pad,
   the queue of three, and the end of a class while it waits.
3. The working files of `fatfs.c` as objects shared by the player, the screenshots and the GUI.

Theorems worth having: a bound for the queue of the screen that covers the three clicks of `music_gui`.

## Not modelled

USB audio's isochronous timing and the report decoders (timing and pure conversions), LVGL screens other
than the ones above, pixel and sample data, descriptor parsing. The repository holds some 2.2 million lines,
nearly all of them vendored: HAL, CMSIS and FreeRTOS with every port, FatFs, LVGL, btstack, FFT
libraries, Doom. The code of the project itself is `src/App`, `src/USB`, parts of `src/btstack` and the changed files
of Doom, about 30 thousand lines of which most are screens and tables; what the map covers is the control
of that code, and of the vendored code only where a model reads it (btstack's key store, `hid_host.c`, Doom's sound).
