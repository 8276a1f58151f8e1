----------------------------- MODULE MCMusicGui -----------------------------
(***************************************************************************)
(* Instances of MusicGui for TLC: the ring has its three buffers, the      *)
(* queues their depths, a song is four blocks.                             *)
(***************************************************************************)
EXTENDS MusicGui

NoTargets == {}
=============================================================================
