---------------------------- MODULE CheckRegister ----------------------------
(***************************************************************************)
(* What the check receipts of src/src/checks.rs promise, without the files *)
(* and locks they are made of.  A helper may answer that a check passes    *)
(* without running it only if a run of it passed that was undisturbed, on  *)
(* the inputs the helper sees and in the generation it was given: with no  *)
(* failure of the independent acceptance in between.                       *)
(***************************************************************************)
CONSTANTS Keys, Versions, Generations

VARIABLES
  genuine,  \* the passes that may be answered with
  answer    \* the pass the last helper answered with; {}: it ran the check

Pass == [key : Keys, inputs : Versions, generation : Generations]

RegisterInit == genuine = {} /\ answer = {}

Ran == \E p \in Pass : genuine' = genuine \cup {p} /\ answer' = {}

Reused == \E p \in genuine : answer' = {p} /\ UNCHANGED genuine

(* The run did not pass or was disturbed, or what a pass rests on is lost.   *)
NotPassed == genuine' \subseteq genuine /\ answer' = {}

RegisterNext == Ran \/ Reused \/ NotPassed

Register == RegisterInit /\ [][RegisterNext]_<<genuine, answer>>
=============================================================================
