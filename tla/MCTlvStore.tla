----------------------------- MODULE MCTlvStore -----------------------------
(***************************************************************************)
(* Instances of TlvStore for TLC.  Tags and values are interchangeable.    *)
(***************************************************************************)
EXTENDS TlvStore, TLC

Symmetry == Permutations(Tags) \cup Permutations(Vals)
=============================================================================
