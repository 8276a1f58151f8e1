----------------------------- MODULE FlacStream -----------------------------
(***************************************************************************)
(* What the FLAC decoder is promised by its onRead / onSeek callbacks      *)
(* (src/App/mix_player.c, drflac__on_read_fatfs, drflac__on_seek_fatfs):   *)
(* a byte stream over the open file, cut into blocks of                    *)
(* DR_FLAC_BUFFER_SIZE bytes.  A read returns the block at the stream      *)
(* position and moves past it, at the end of the file it returns nothing,  *)
(* and a seek moves the position.  No buffering, no second task.           *)
(***************************************************************************)
EXTENDS Naturals

CONSTANTS
  Songs,        (* the FLAC files on the SD card                           *)
  NoSong,       (* pflac == NULL: no file is being decoded                 *)
  NBlocks,      (* audio blocks in a file                                  *)
  SeekTargets   (* block positions the decoder may seek to                 *)

VARIABLES
  song,   (* the file being decoded, or NoSong                             *)
  pos,    (* the stream position, in blocks                                *)
  got     (* the result of the last onRead                                 *)

streamVars == <<song, pos, got>>

(* The content of one read.  The block with number NBlocks stands for the  *)
(* empty read at the end of the file.                                      *)
Block(s, k) == [song |-> s, blk |-> k]
Blocks == [song : Songs, blk : 0 .. NBlocks]
EndOf(s) == Block(s, NBlocks)

NoBlock == [song |-> NoSong, blk |-> 0]

StreamInit ==
  /\ song = NoSong
  /\ pos = 0
  /\ got = NoBlock

StreamOpen(s) ==
  /\ song' = s
  /\ pos' = 0
  /\ UNCHANGED got

StreamRead ==
  /\ song # NoSong
  /\ got' = Block(song, pos)
  /\ pos' = IF pos < NBlocks THEN pos + 1 ELSE pos
  /\ UNCHANGED song

StreamSeek(t) ==
  /\ song # NoSong
  /\ pos' = t
  /\ UNCHANGED <<song, got>>

StreamClose ==
  /\ song' = NoSong
  /\ UNCHANGED <<pos, got>>

StreamNext ==
  \/ \E s \in Songs : StreamOpen(s)
  \/ StreamRead
  \/ \E t \in SeekTargets : StreamSeek(t)
  \/ StreamClose

StreamSpec == StreamInit /\ [][StreamNext]_streamVars
=============================================================================
