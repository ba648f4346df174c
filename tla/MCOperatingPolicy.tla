-------------------------- MODULE MCOperatingPolicy --------------------------
(***************************************************************************)
(* Two runner processes and a few requests for TLC.  Processes, as well as *)
(* requests, are interchangeable; the symmetry is used by the runs that    *)
(* check no liveness property.                                             *)
(***************************************************************************)
EXTENDS OperatingPolicy, TLC

Symmetry == Permutations(Procs) \cup Permutations(Requests)
=============================================================================
