----------------------------- MODULE MCRollback -----------------------------
(***************************************************************************)
(* Instances of Rollback for TLC.  Files are interchangeable; the symmetry *)
(* is used by the run that checks no liveness property (identities of      *)
(* baselines are chosen, so they are not).                                 *)
(***************************************************************************)
EXTENDS Rollback, TLC

Symmetry == Permutations(Paths)
=============================================================================
