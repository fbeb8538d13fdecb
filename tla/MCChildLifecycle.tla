-------------------------- MODULE MCChildLifecycle --------------------------
(***************************************************************************)
(* Instances of ChildLifecycle for TLC.  The calls are interchangeable: a  *)
(* call has no data of its own until it runs, so permuting them is sound   *)
(* for the safety runs.  Revisions and readers are too.                    *)
(***************************************************************************)
EXTENDS ChildLifecycle, TLC

Symmetry == Permutations(Call) \cup Permutations(Rev) \cup Permutations(Reader)
=============================================================================
