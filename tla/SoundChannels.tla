---------------------------- MODULE SoundChannels ---------------------------
(***************************************************************************)
(* The sound channels of the mixer (src/App/mix_player.c, ChanInfo and the *)
(* Mix_...Channel calls) and the loop of MixSound that adds them to the    *)
(* music (src/App/audio_output.c, the same in the I2S and USB drivers).    *)
(* Every operation holds soundLockId, except Mix_Playing.                  *)
(*                                                                         *)
(* A sound is Length frames; volumes and sample values are left out.       *)
(***************************************************************************)
EXTENDS Integers, FiniteSetsExt

CONSTANTS
  Chunks,       (* the sounds a channel can be given (Mix_Chunk)           *)
  NoChunk,
  NumChannels,  (* NUM_CHANNELS                                            *)
  Length        (* frames of a chunk (plast - abuf)                        *)

ASSUME ChannelAssumption ==
  /\ NoChunk \notin Chunks
  /\ NumChannels \in Nat \ {0}
  /\ Length \in Nat \ {0}

VARIABLE chan   (* ChanInfo                                                *)

Channels == 0 .. NumChannels - 1
Flags == {"FL_ALLOCED", "FL_SET", "FL_PLAY"}

ChannelsTypeOK ==
  chan \in [Channels -> [chunk: Chunks \cup {NoChunk}, pread: 0 .. Length - 1,
                         flag: SUBSET Flags]]

(* Mix_AllocateChannels                                                    *)
ChannelsInit ==
  chan = [c \in Channels |->
            [chunk |-> NoChunk, pread |-> 0, flag |-> {"FL_ALLOCED"}]]

(* What MixSound tests before it mixes a channel in.                       *)
Sounding(c) == "FL_SET" \in chan[c].flag

Mix_PlayChannel(c, chunk) ==
  chan' = [chan EXCEPT ![c] =
             [chunk |-> chunk, pread |-> 0, flag |-> @.flag \cup {"FL_SET"}]]

(* Mix_HaltChannel with a channel number, for the channels of C in turn.   *)
Mix_HaltChannels(C) ==
  chan' = [c \in Channels |->
             IF c \in C THEN [chan[c] EXCEPT !.flag = @ \ {"FL_PLAY"}]
                        ELSE chan[c]]

(* Mix_Playing answers 0 while FL_SET is there.                            *)
Mix_Playing(c) == ~Sounding(c)

(* The channels that play their last frame now; the first of them ends the *)
(* loop over the channels (c = NUM_CHANNELS).                              *)
Ending == {c \in Channels : Sounding(c) /\ chan[c].pread = Length - 1}
Mixed == {c \in Channels : Sounding(c) /\ \A e \in Ending : c <= e}

(* Mutant: the end of a sound clears FL_PLAY only, as Mix_HaltChannel does. *)
MixFrameKeepsSet ==
  /\ Mixed # {}
  /\ chan' = [c \in Channels |->
       IF c \notin Mixed THEN chan[c]
       ELSE IF c \in Ending
            THEN [chan[c] EXCEPT !.pread = 0, !.flag = @ \ {"FL_PLAY"}]
            ELSE [chan[c] EXCEPT !.pread = @ + 1]]

(* One turn of the loop over the frames.                                   *)
MixFrame ==
  /\ Mixed # {}
  /\ chan' = [c \in Channels |->
       IF c \notin Mixed THEN chan[c]
       ELSE IF c \in Ending
            THEN [chan[c] EXCEPT !.pread = 0, !.flag = @ \ {"FL_PLAY", "FL_SET"}]
            ELSE [chan[c] EXCEPT !.pread = @ + 1]]
=============================================================================
