---------------------------- MODULE MCHeaderGrant ----------------------------
(***************************************************************************)
(* Instances of HeaderGrant for TLC.  Flows, children, tasks and requests  *)
(* are interchangeable, and so are the tokens of one sort.                 *)
(***************************************************************************)
EXTENDS HeaderGrant, TLC

Symmetry ==
  Permutations(Flow) \cup Permutations(Lasting) \cup Permutations(Token \ Lasting)
  \cup Permutations(Child) \cup Permutations(Task) \cup Permutations(Caller)
=============================================================================
