---------------------------- MODULE MCFlacReader ----------------------------
(***************************************************************************)
(* Instances of FlacReader for TLC: the ring and the queue have the sizes  *)
(* of the source, a file has a few more blocks than the ring.              *)
(***************************************************************************)
EXTENDS FlacReader

NoTargets == {}
LoopTargets == {0, 1}
=============================================================================
