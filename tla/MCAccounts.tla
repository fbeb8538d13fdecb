----------------------------- MODULE MCAccounts -----------------------------
(***************************************************************************)
(* Instances of Accounts for TLC.  Requests are interchangeable.           *)
(***************************************************************************)
EXTENDS Accounts, TLC

Symmetry == Permutations(Request)
=============================================================================
