--------------------------- MODULE MCSoundEffects ---------------------------
(***************************************************************************)
(* Instances of SoundEffects for TLC: two channels of two frames, sounds   *)
(* at two pitches.                                                         *)
(***************************************************************************)
EXTENDS SoundEffects, TLC

CONSTANTS quiet, loud

Sounds == [sfx: Effects, pitch: Pitches]
Priorities == (quiet :> 2) @@ (loud :> 1)
=============================================================================
