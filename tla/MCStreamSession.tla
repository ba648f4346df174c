--------------------------- MODULE MCStreamSession ---------------------------
(***************************************************************************)
(* Instances of StreamSession for TLC.  A stream that has ended stays so.  *)
(***************************************************************************)
EXTENDS StreamSession
=============================================================================
