----------------------------- MODULE MCWorkflow -----------------------------
(***************************************************************************)
(* Instances of Workflow for TLC: the kinds of run each configuration      *)
(* explores.                                                               *)
(***************************************************************************)
EXTENDS Workflow

AllKinds == Kind
ChangeOnly == {"change"}
Either == BOOLEAN
Always == {TRUE}
Never == {FALSE}
=============================================================================
