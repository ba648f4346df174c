------------------------------- MODULE Stages -------------------------------
(***************************************************************************)
(* The workflow stages of opsx-build (src/src/state.rs) and the stage that *)
(* follows an accepted answer.  The code returns an error for a stage that *)
(* does not accept the answer: here, a stage outside the domain.           *)
(***************************************************************************)

Stage == {"Explore", "Propose", "ProposalCommit", "Apply", "Verify",
          "Acceptance", "Repair", "Archive", "FinalCommit", "Complete", "Done"}

AfterReady ==
  [s \in {"Explore", "Propose", "ProposalCommit", "Apply", "Repair",
          "Archive", "FinalCommit"} |->
     CASE s = "Explore"             -> "Propose"
       [] s = "Propose"             -> "ProposalCommit"
       [] s = "ProposalCommit"      -> "Apply"
       [] s \in {"Apply", "Repair"} -> "Verify"
       [] s = "Archive"             -> "FinalCommit"
       [] s = "FinalCommit"         -> "Complete"]

AfterVerified == [s \in {"Verify"} |-> "Archive"]

(* YOLO mode leaves the proposal milestone out. *)
StageAfterPropose(yolo) == IF yolo THEN "Apply" ELSE AfterReady["Propose"]
=============================================================================
