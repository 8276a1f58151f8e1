---------------------------- MODULE MCDoomMusic -----------------------------
(***************************************************************************)
(* Instances of DoomMusic for TLC: the ring has its three buffers and the  *)
(* queues have their depths, a song is four blocks.                        *)
(***************************************************************************)
EXTENDS DoomMusic

NoTargets == {}
=============================================================================
