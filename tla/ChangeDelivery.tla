---------------------------- MODULE ChangeDelivery ----------------------------
(***************************************************************************)
(* What the runner of src/src/app.rs promises about the delivery of a       *)
(* change, without retries, allowances, verdicts, requests, checkpoints,    *)
(* crashes and resumes: which steps there are on the way to a reported      *)
(* delivery, what has to be true for each, and what sends a change back.    *)
(*                                                                          *)
(* Work that was begun again has to be reviewed again.  Only what was       *)
(* reviewed is archived, only what was archived is committed.  If the       *)
(* supplied checks fail once there is no change in progress, review and     *)
(* archiving are waived, until the checks before an archive are asked for;  *)
(* the checks themselves never are.                                         *)
(***************************************************************************)
VARIABLES
  terms,   \* [review, archive, gate]: what this kind of run has to go through
  phase,   \* where the delivery is
  change,  \* the OpenSpec change: "none", "active", "archived"
  owed,    \* what the work has still to pass: "review", "checks", "none"
  waived,  \* review and archiving are waived
  passed,  \* the supplied checks passed for the product as it is
  over     \* the delivery was reported

delivery == <<terms, phase, change, owed, waived, passed, over>>

Terms == [review : BOOLEAN, archive : BOOLEAN, gate : BOOLEAN]

(* Work that is reviewed already can only be that of the terminal gate.     *)
DeliveryInit ==
  /\ terms \in Terms
  /\ \/ phase = "making" /\ owed = "review"
     \/ phase = "review" /\ owed = "review" /\ ~terms.archive
     \/ phase = (IF terms.gate THEN "checks" ELSE "commit") /\ owed = "none" /\ ~terms.archive
  /\ change = "none" /\ waived = FALSE /\ passed = FALSE /\ over = FALSE

(* What may be committed with o owed, reviews waived or not (w), and the    *)
(* change at c.                                                             *)
Committable(o, w, c) ==
  /\ o # "checks"
  /\ terms.review => w \/ o = "none"
  /\ terms.archive => w \/ c = "archived"
-----------------------------------------------------------------------------
(* Agents and the maintainer edit the product, or a check cannot be run.    *)
Disturb ==
  /\ passed' = FALSE
  /\ UNCHANGED <<phase, change, owed, waived>>

(* The change comes to be, or its agent archives it.                        *)
MoveChange ==
  /\ terms.archive
  /\ \/ phase = "making" /\ change = "none" /\ change' = "active"
     \/ phase = "making" /\ change # "none" /\ change' \in {"active", "archived"}
     \/ phase = "archive" /\ change = "active" /\ change' = "archived"
  /\ UNCHANGED <<phase, owed, waived, passed>>

(* There is nothing to change.                                              *)
Decline ==
  /\ phase = "making" /\ change = "none"
  /\ phase' = "declined"
  /\ UNCHANGED <<change, owed, waived, passed>>

(* The work goes to its review ...                                          *)
Submit ==
  /\ phase = "making" /\ owed = "review"
  /\ phase' = "review"
  /\ UNCHANGED <<change, owed, waived, passed>>

(* ... or past it: a repair that needs none, or a run that needs none.      *)
Resubmit ==
  /\ phase = "making"
  /\ \/ waived /\ phase' = "checks"
     \/ ~terms.review /\ phase' = "commit" /\ Committable(owed, waived, change)
  /\ UNCHANGED <<change, owed, waived, passed>>

Approve ==
  /\ phase = "review" /\ owed' = "none"
  /\ phase' = CASE terms.archive -> "archive"
                [] ~terms.archive /\ terms.gate -> "checks"
                [] ~terms.archive /\ ~terms.gate -> "commit"
  /\ UNCHANGED <<change, waived, passed>>

(* The review refuses the work, or the maintainer directs it anew.          *)
Reopen ==
  /\ phase \in {"review", "archive", "commit"} /\ phase' = "making"
  /\ owed' = "review"
  /\ UNCHANGED <<change, waived, passed>>

AskChecks ==
  /\ terms.gate /\ ~passed
  /\ phase \in {"archive", "complete", "declined"} /\ phase' = "checks"
  /\ waived' = (waived /\ phase # "archive")
  /\ UNCHANGED <<change, owed, passed>>

(* The checks pass, and the delivery goes on to where nothing else is owed. *)
PassChecks ==
  /\ phase = "checks" /\ passed' = TRUE
  /\ owed' = IF owed = "checks" THEN "none" ELSE owed
  /\ \/ phase' = "archive" /\ terms.archive /\ owed' = "none"
     \/ phase' \in {"commit", "complete"} /\ Committable(owed', waived, change)
     \/ phase' = "declined" /\ change = "none"
  /\ UNCHANGED <<change, waived>>

FailChecks ==
  /\ phase = "checks" /\ passed' = FALSE
  /\ phase' = "making" \/ (phase' = "checks" /\ change = "none")
  /\ waived => waived'
  /\ waived' => waived \/ (terms.archive /\ change # "active")
  /\ owed' \in {"review", "checks"}
  /\ owed' = "checks" => waived' /\ owed # "review"
  /\ UNCHANGED change

Archive ==
  /\ phase = "archive" /\ change = "archived" /\ owed = "none"
  /\ phase' = "commit"
  /\ UNCHANGED <<change, owed, waived, passed>>

Commit ==
  /\ phase = "commit" /\ Committable(owed, waived, change)
  /\ phase' = "complete"
  /\ UNCHANGED <<change, owed, waived, passed>>

(* The next change of a campaign; what was waived may stay so.              *)
NextChange ==
  /\ phase = "complete" /\ (terms.gate => passed)
  /\ phase' = "making" /\ change' = "none" /\ owed' = "review"
  /\ waived' => waived
  /\ UNCHANGED passed

Report ==
  /\ phase \in {"complete", "declined"} /\ (terms.gate => passed)
  /\ over' = TRUE
  /\ UNCHANGED <<phase, change, owed, waived, passed>>
-----------------------------------------------------------------------------
(* The terms stay what they were, and nothing happens to what was reported. *)
DeliveryNext ==
  /\ ~over /\ UNCHANGED terms
  /\ \/ Report
     \/ /\ UNCHANGED over
        /\ \/ Disturb \/ MoveChange \/ Decline \/ Submit \/ Resubmit \/ Approve
           \/ Reopen \/ AskChecks \/ PassChecks \/ FailChecks \/ Archive \/ Commit
           \/ NextChange

DeliverySteps == DeliveryInit /\ [][DeliveryNext]_delivery
=============================================================================
