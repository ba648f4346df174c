--------------------------- MODULE WorkflowProofs ---------------------------
(***************************************************************************)
(* Proofs about the delivery of changes, for every value of the constants: *)
(* the review, the archiving, the direction and the checks that what is    *)
(* delivered had, and the bound on its repairs.                            *)
(*                                                                         *)
(* The types come first.  Then every action is reduced to its effect on    *)
(* what the invariants look at (StepEffects), and each invariant is proved *)
(* by cases on the effects.                                                *)
(***************************************************************************)
EXTENDS Workflow, TLAPS

(* The states the handlers save are RunStates.                              *)
LEMMA StatesSaved ==
  ASSUME NEW m \in RunState, product \in 0..MaxProduct
  PROVE  /\ OneMore(m.retries) \in Nat /\ OneMore(m.failures) \in Nat
         /\ Structural(m) \in RunState
         /\ m.stage = "Verify" => Accepted(m) \in RunState
         /\ Direct => Prepared(m) \in RunState
         /\ Recovered(m) \in RunState /\ Directed(m) \in RunState
         /\ Reconciled(m) \in RunState
<1>1. MaxRetries \in Nat /\ MaxProduct \in Nat
  BY BoundsAssumption
<1>2. OneMore(m.retries) \in Nat /\ OneMore(m.failures) \in Nat
  BY <1>1 DEF RunState, OneMore
<1>3. Structural(m) \in RunState
  BY <1>2 DEF Structural, RunState, Stage
<1>4. m.stage = "Verify" => Accepted(m) \in RunState
  <2>1. AfterVerified["Verify"] = "Archive"
    BY DEF AfterVerified
  <2>2. CASE Direct
    BY <2>2 DEF Accepted, RunState, Stage
  <2>3. CASE ~Direct
    BY <2>1, <2>3 DEF Accepted, RunState, Stage
  <2>4. QED
    BY <2>2, <2>3
<1>5. Direct => Prepared(m) \in RunState
  BY DEF Prepared, Accepted, RunState, Stage
<1>6. Recovered(m) \in RunState
  BY DEF Recovered, RunState, Stage
<1>7. Directed(m) \in RunState
  BY DEF Directed, RunState, Stage
<1>8. Reconciled(m) \in RunState
  BY DEF Reconciled, RunState, Stage
<1>9. QED
  BY <1>2, <1>3, <1>4, <1>5, <1>6, <1>7, <1>8

(* A new change has the type of a RunState.                                 *)
LEMMA FreshState ==
  ASSUME NEW kind \in Kind, NEW named \in BOOLEAN
  PROVE  Fresh(kind, named) \in RunState
BY DEF Fresh, RunState, Stage, NoProduct
-----------------------------------------------------------------------------
(* The actions of Next, one by one.                                         *)
LEMMA NextCases ==
  ASSUME Next
  PROVE  \/ SkipProposalCommit \/ Escalate \/ EnterAcceptance \/ Report \/ NextChange
         \/ StartSession \/ RequestLimit \/ VerifyUnsound \/ RepairRefused
         \/ AcceptancePasses \/ AcceptanceFails \/ AcceptanceErrs
         \/ VerifiedTooEarly \/ VerifiedUnsound \/ Verified \/ VerifyRetry
         \/ VerifyIncomplete \/ TooLargeReported \/ ExploreReady \/ ProposeReady
         \/ ProposeUnmet \/ ProposeDone \/ ProposalCommitReady \/ ApplyReady
         \/ VerifyAnswered \/ RepairReady \/ LateRepairReady \/ AssignmentReady
         \/ ArchiveReady \/ ArchiveOmitted \/ FinalCommitReady \/ RequestTimeout
         \/ AgentEdits \/ AgentPlans \/ AgentMovesChange
         \/ Interrupt \/ MaintainerEdits \/ Resume \/ ResumeWithDirection
BY DEF Next, LoopStep, VerdictStep, SessionEnds, AgentStep, OperatorStep

(* A run starts with every variable of its type, whatever its kind.         *)
LEMMA InitTypes == Init => TypeOK
<1> SUFFICES ASSUME Init PROVE TypeOK
  OBVIOUS
<1>1. MaxRetries \in Nat /\ MaxProduct \in Nat /\ MaxRequests \in Nat /\ MaxDirections \in Nat
  BY BoundsAssumption
<1>2. run.kind \in Kind /\ product \in 0..MaxProduct
  BY <1>1, KindsAssumption DEF Init
<1>3. PICK named \in Prescribed, verifiedAt \in {NoProduct, product} :
        mem = LET m == [Fresh(run.kind, named) EXCEPT !.verifiedAt = verifiedAt]
              IN  IF run.kind = "direct" THEN Prepared(m) ELSE m
  BY DEF Init
<1>4. [Fresh(run.kind, named) EXCEPT !.verifiedAt = verifiedAt] \in RunState
  BY <1>1, <1>2, FreshState, FlagsAssumption DEF RunState, NoProduct, Init
<1>5. mem \in RunState
  BY <1>2, <1>3, <1>4, StatesSaved DEF Direct
<1>6. owed \in {"none", "checks", "review"}
  BY DEF Init
<1>7. ledger \in [key : Nat \X Stage, used : 0..MaxRequests]
  BY <1>1, <1>5 DEF Init, RunState
<1>8. /\ run \in [kind : Kinds, gate : Gates, yolo : Yolos]
      /\ disk = mem /\ pc = "loop" /\ product = 0 /\ dir = "none" /\ sound = TRUE
      /\ attempt = 0 /\ verdict = "none" /\ late = FALSE /\ repairs = 0 /\ directions = 0
  BY DEF Init
<1>9. attempt \in {0, 1} /\ repairs \in Nat /\ directions \in 0..MaxDirections
  BY <1>1, <1>8
<1>10. sound \in BOOLEAN /\ late \in BOOLEAN /\ disk \in RunState
  BY <1>5, <1>8
<1>11. QED
  BY <1>2, <1>5, <1>6, <1>7, <1>8, <1>9, <1>10 DEF TypeOK

(* What the handlers leave alone keeps its type.                            *)
LEMMA Saved ==
  ASSUME TypeOK, NEW m \in RunState, Goto(m) \/ StopAt(m)
  PROVE  /\ mem' \in RunState /\ disk' \in RunState
         /\ pc' \in {"loop", "session", "verdict", "stopped", "reported", "escalated"}
         /\ attempt' \in {0, 1}
         /\ verdict' \in {"none", "verified", "retry", "incomplete"}
BY DEF Goto, StopAt, Save

(* Dispatching a request keeps its allowance.                               *)
LEMMA Asked ==
  ASSUME TypeOK, Ask
  PROVE  ledger' \in [key : Nat \X Stage, used : 0..MaxRequests]
<1>1. MaxRequests \in Nat
  BY BoundsAssumption
<1>2. Used \in 0..MaxRequests
  BY <1>1 DEF Used, TypeOK
<1>3. <<mem.iteration, mem.stage>> \in Nat \X Stage
  BY DEF TypeOK, RunState
<1>4. QED
  BY <1>1, <1>2, <1>3 DEF Ask

(* A failed structural check.                                               *)
LEMMA StructureFailed ==
  ASSUME TypeOK, NEW m \in RunState, FailStructure(m)
  PROVE  /\ mem' \in RunState /\ disk' \in RunState
         /\ pc' \in {"loop", "stopped"} /\ attempt' \in {0, 1}
         /\ verdict' \in {"none", "verified", "retry", "incomplete"}
         /\ owed' \in {"none", "checks", "review"}
<1>1. Structural(m) \in RunState
  BY StatesSaved DEF TypeOK
<1>2. [Structural(m) EXCEPT !.stage = "Verify"] \in RunState
  BY <1>1 DEF RunState, Stage
<1>3. QED
  BY <1>1, <1>2, Saved DEF FailStructure, Goto, StopAt

(* A verdict is one of the review.                                          *)
Judged == pc = "verdict" => mem.stage = "Verify"

(* A run starts without a verdict.                                          *)
LEMMA InitJudged == Init => Judged
BY DEF Init, Judged

(* No step leaves the types: the handlers, agents, stops and resumes.       *)
LEMMA NextTypes == TypeOK /\ Judged /\ [Next]_vars => TypeOK'
<1> SUFFICES ASSUME TypeOK, Judged, [Next]_vars PROVE TypeOK'
  OBVIOUS
<1> USE BoundsAssumption DEF world, history
<1>1. mem \in RunState /\ disk \in RunState /\ product \in Int
  BY DEF TypeOK
<1>2. CASE SkipProposalCommit
  <2>1. [mem EXCEPT !.stage = "Apply"] \in RunState
    BY <1>1 DEF RunState, Stage
  <2>2. QED
    BY <2>1, <1>2, Saved DEF SkipProposalCommit, TypeOK
<1>3. CASE Escalate
  BY <1>1, <1>3 DEF Escalate, TypeOK
<1>4. CASE EnterAcceptance
  <2>1. [mem EXCEPT !.gateNext = mem.stage, !.stage = "Acceptance"] \in RunState
    BY <1>1 DEF RunState, Stage
  <2>2. QED
    BY <2>1, <1>4, Saved DEF EnterAcceptance, TypeOK
<1>5. CASE Report
  BY <1>1, <1>5 DEF Report, TypeOK
<1>6. CASE NextChange
  <2>1. [Fresh(run.kind, FALSE) EXCEPT
             !.iteration = mem.iteration + 1, !.direction = mem.direction,
             !.gateNext = mem.gateNext, !.failures = mem.failures,
             !.evidence = mem.evidence] \in RunState
    <3>1. Fresh(run.kind, FALSE) \in RunState
      BY FreshState, KindsAssumption DEF TypeOK
    <3>2. /\ mem.iteration + 1 \in Nat /\ mem.direction \in BOOLEAN /\ mem.gateNext \in Stage
          /\ mem.failures \in Nat /\ mem.evidence \in Int
      BY <1>1 DEF RunState
    <3>3. QED
      BY <3>1, <3>2 DEF RunState
  <2>2. QED
    BY <2>1, <1>6, Saved DEF NextChange, TypeOK, LateRepair, Direct
<1>7. CASE StartSession
  <2>1. [mem EXCEPT !.verifiedAt = NoProduct] \in RunState
    BY <1>1 DEF RunState, NoProduct
  <2>2. QED
    BY <2>1, <1>7, <1>1, Asked DEF StartSession, TypeOK
<1>8. CASE RequestLimit
  BY <1>1, <1>8, Saved DEF RequestLimit, TypeOK
<1>9. CASE VerifyUnsound
  <2>1. [mem EXCEPT !.verifiedAt = NoProduct] \in RunState
    BY <1>1 DEF RunState, NoProduct
  <2>2. QED
    BY <2>1, <1>9, StructureFailed DEF VerifyUnsound, TypeOK
<1>10. CASE RepairRefused
  <2>1. [mem EXCEPT !.stage = "Repair"] \in RunState
    BY <1>1 DEF RunState, Stage
  <2>2. QED
    BY <2>1, <1>1, <1>10, Saved DEF RepairRefused, TypeOK
<1>11. CASE AcceptancePasses
  <2>1. [mem EXCEPT !.evidence = product, !.pending = "none", !.stage = mem.gateNext] \in RunState
    BY <1>1 DEF RunState
  <2>2. QED
    BY <2>1, <1>11, Saved DEF AcceptancePasses, TypeOK
<1>12. CASE AcceptanceFails
  <2>1. PICK m \in RunState : Goto(m) \/ StopAt(m)
    <3>1. OneMore(mem.failures) \in Nat
      BY <1>1, StatesSaved DEF TypeOK
    <3> DEFINE failed == [mem EXCEPT !.failures = OneMore(mem.failures), !.evidence = NoProduct,
                      !.pending = "finding",
                      !.stage = IF mem.named THEN "Repair" ELSE mem.stage]
    <3>2. failed \in RunState
      <4>1. (IF mem.named THEN "Repair" ELSE mem.stage) \in Stage
        BY <1>1 DEF RunState, Stage
      <4>2. NoProduct \in Int
        BY DEF NoProduct
      <4> DEFINE stage == IF mem.named THEN "Repair" ELSE mem.stage
      <4>3. stage \in Stage
        BY <4>1
      <4> HIDE DEF stage
      <4>4. [mem EXCEPT !.failures = OneMore(mem.failures), !.evidence = NoProduct,
                        !.pending = "finding", !.stage = stage] \in RunState
        BY <1>1, <3>1, <4>2, <4>3 DEF RunState
      <4>5. QED
        BY <4>4 DEF stage
    <3>3. [failed EXCEPT !.gateNext = IF failed.gateNext \in {"Complete", "Done"}
                                        THEN "FinalCommit" ELSE failed.gateNext] \in RunState
      <4>1. failed \in RunState
        BY <3>2
      <4> HIDE DEF failed
      <4>2. QED
        BY <4>1 DEF RunState, Stage
    <3>4. QED
      BY <3>2, <3>3, <1>12 DEF AcceptanceFails
  <2>2. product' \in 0..MaxProduct
    BY <1>12 DEF AcceptanceFails, TypeOK
  <2>3. owed' \in {"none", "checks", "review"} /\ late' \in BOOLEAN
    BY <1>12 DEF AcceptanceFails, TypeOK
  <2>4. UNCHANGED <<run, dir, sound, ledger, repairs, directions>>
    BY <1>12 DEF AcceptanceFails
  <2>5. QED
    BY <2>1, <2>2, <2>3, <2>4, Saved DEF TypeOK
<1>13. CASE AcceptanceErrs
  <2>1. [mem EXCEPT !.evidence = NoProduct] \in RunState
    BY <1>1 DEF RunState, NoProduct
  <2>2. QED
    BY <2>1, <1>13, Saved DEF AcceptanceErrs, TypeOK
<1>14. CASE VerifiedTooEarly
  BY <1>1, <1>14, Saved DEF VerifiedTooEarly, TypeOK
<1>15. CASE VerifiedUnsound
  BY <1>1, <1>15, StructureFailed DEF VerifiedUnsound, TypeOK
<1>16. CASE Verified
  <2> DEFINE seen == [mem EXCEPT !.verifiedAt = product, !.pending = "none"]
  <2>1. seen \in RunState
    BY <1>1 DEF RunState
  <2>2. seen.stage = "Verify"
    BY <1>1, <1>16 DEF Verified, Judged, RunState
  <2>3. Accepted(seen) \in RunState
    BY <2>1, <2>2, StatesSaved DEF TypeOK
  <2>4. QED
    BY <2>3, <1>16, Saved DEF Verified, TypeOK
<1>17. CASE VerifyRetry
  <2>1. OneMore(mem.retries) \in Nat
    BY <1>1, StatesSaved DEF TypeOK
  <2>2. [mem EXCEPT !.retries = OneMore(mem.retries), !.pending = "finding",
                    !.stage = "Repair"] \in RunState
    BY <2>1, <1>1 DEF RunState, Stage
  <2>3. QED
    BY <2>2, <1>17, Saved DEF VerifyRetry, TypeOK
<1>18. CASE VerifyIncomplete
  BY <1>1, <1>18, Saved DEF VerifyIncomplete, TypeOK
<1>19. CASE TooLargeReported
  <2>1. [mem EXCEPT !.tooLarge = TRUE] \in RunState
    BY <1>1 DEF RunState, Stage
  <2>2. QED
    BY <2>1, <1>19, Saved DEF TooLargeReported, TypeOK
<1>20. CASE ExploreReady
  <2>1. AfterReady["Explore"] = "Propose"
    BY DEF AfterReady
  <2>2. [mem EXCEPT !.stage = AfterReady[mem.stage]] \in RunState
    BY <2>1, <1>1, <1>20 DEF ExploreReady, In, RunState, Stage
  <2>3. QED
    BY <2>2, <1>20, Saved DEF ExploreReady, TypeOK
<1>21. CASE ProposeReady
  <2>1. AfterReady["Propose"] = "ProposalCommit"
    BY DEF AfterReady
  <2>2. [mem EXCEPT !.named = TRUE, !.stage = StageAfterPropose(run.yolo)] \in RunState
    BY <2>1, <1>1 DEF StageAfterPropose, RunState, Stage
  <2>3. QED
    BY <2>2, <1>21, Saved DEF ProposeReady, TypeOK
<1>22. CASE ProposeUnmet
  BY <1>1, <1>22, Saved, Asked DEF ProposeUnmet, AskAgain, TypeOK
<1>23. CASE ProposeDone
  <2>1. [mem EXCEPT !.stage = "Done"] \in RunState
    BY <1>1 DEF RunState, Stage
  <2>2. QED
    BY <2>1, <1>1, <1>23, Saved DEF ProposeDone, TypeOK
<1>24. CASE ProposalCommitReady
  <2>1. AfterReady["ProposalCommit"] = "Apply"
    BY DEF AfterReady
  <2>2. [mem EXCEPT !.stage = AfterReady[mem.stage]] \in RunState
    BY <2>1, <1>1, <1>24 DEF ProposalCommitReady, In, RunState, Stage
  <2>3. QED
    BY <2>2, <1>24, Saved DEF ProposalCommitReady, TypeOK
<1>25. CASE ApplyReady
  <2>1. AfterReady["Apply"] = "Verify"
    BY DEF AfterReady
  <2>2. [mem EXCEPT !.direction = FALSE, !.stage = AfterReady[mem.stage]] \in RunState
    BY <2>1, <1>1, <1>25 DEF ApplyReady, In, RunState, Stage
  <2>3. QED
    BY <2>2, <1>25, Saved DEF ApplyReady, TypeOK
<1>26. CASE VerifyAnswered
  <2>1. PICK open \in BOOLEAN : Save([mem EXCEPT !.open = open])
    BY <1>26 DEF VerifyAnswered
  <2>2. [mem EXCEPT !.open = open] \in RunState
    BY <1>1 DEF RunState
  <2>3. mem' \in RunState /\ disk' \in RunState
    BY <2>1, <2>2 DEF Save
  <2>4. QED
    BY <2>3, <1>26 DEF VerifyAnswered, TypeOK
<1>27. CASE RepairReady
  <2>1. AfterReady["Repair"] = "Verify"
    BY DEF AfterReady
  <2>2. [mem EXCEPT !.pending = "none", !.direction = FALSE, !.stage = AfterReady[mem.stage]] \in RunState
    BY <2>1, <1>1, <1>27 DEF RepairReady, In, RunState, Stage
  <2>3. QED
    BY <2>2, <1>27, Saved DEF RepairReady, TypeOK
<1>28. CASE LateRepairReady
  <2>1. [mem EXCEPT !.pending = "none", !.stage = "Acceptance"] \in RunState
    BY <1>1 DEF RunState, Stage
  <2>2. QED
    BY <2>1, <1>1, <1>28, Saved DEF LateRepairReady, TypeOK
<1>29. CASE AssignmentReady
  <2>1. CASE StructureSound
    <3>1. PICK next \in {"Verify", "FinalCommit"} :
            Goto([mem EXCEPT !.pending = "none", !.direction = FALSE, !.stage = next])
      BY <2>1, <1>29 DEF AssignmentReady
    <3>2. [mem EXCEPT !.pending = "none", !.direction = FALSE, !.stage = next] \in RunState
      BY <1>1 DEF RunState, Stage
    <3>3. repairs' \in Nat
      <4>1. repairs' = IF mem.stage = "Repair" THEN repairs + 1 ELSE repairs
        BY <2>1, <1>29 DEF AssignmentReady
      <4>2. QED
        BY <4>1 DEF TypeOK
    <3>4. QED
      BY <3>1, <3>2, <3>3, <2>1, <1>29, Saved DEF AssignmentReady, TypeOK
  <2>2. CASE ~StructureSound
    BY <2>2, <1>1, <1>29, StructureFailed DEF AssignmentReady, TypeOK
  <2>3. QED
    BY <2>1, <2>2
<1>30. CASE ArchiveReady
  <2>1. AfterReady["Archive"] = "FinalCommit"
    BY DEF AfterReady
  <2>2. [mem EXCEPT !.stage = AfterReady[mem.stage]] \in RunState
    BY <2>1, <1>1, <1>30 DEF ArchiveReady, In, RunState, Stage
  <2>3. QED
    BY <2>2, <1>30, Saved DEF ArchiveReady, TypeOK
<1>31. CASE ArchiveOmitted
  <2>1. AfterReady["Archive"] = "FinalCommit"
    BY DEF AfterReady
  <2>2. [mem EXCEPT !.stage = AfterReady[mem.stage]] \in RunState
    BY <2>1, <1>1, <1>31 DEF ArchiveOmitted, In, RunState, Stage
  <2>3. QED
    BY <2>2, <1>1, <1>31, Saved, Asked DEF ArchiveOmitted, AskAgain, TypeOK
<1>32. CASE FinalCommitReady
  <2>1. AfterReady["FinalCommit"] = "Complete"
    BY DEF AfterReady
  <2>2. [mem EXCEPT !.stage = AfterReady[mem.stage]] \in RunState
    BY <2>1, <1>1, <1>32 DEF FinalCommitReady, In, RunState, Stage
  <2>3. QED
    BY <2>2, <1>32, Saved DEF FinalCommitReady, TypeOK
<1>33. CASE RequestTimeout
  BY <1>1, <1>33, Saved DEF RequestTimeout, TypeOK
<1>34. CASE AgentEdits
  BY <1>1, <1>34 DEF AgentEdits, TypeOK
<1>35. CASE AgentPlans
  BY <1>1, <1>35 DEF AgentPlans, TypeOK
<1>36. CASE AgentMovesChange
  BY <1>1, <1>36 DEF AgentMovesChange, TypeOK
<1>37. CASE Interrupt
  BY <1>1, <1>37, Saved DEF Interrupt, TypeOK
<1>38. CASE MaintainerEdits
  <2>1. product' \in 0..MaxProduct /\ sound' \in BOOLEAN
    <3>1. \/ product < MaxProduct /\ product' = product + 1 /\ sound' = sound
          \/ sound' = TRUE /\ product' = product
      BY <1>38 DEF MaintainerEdits
    <3>2. MaxProduct \in Nat /\ product \in 0..MaxProduct /\ sound \in BOOLEAN
      BY DEF TypeOK
    <3>3. product' \in 0..MaxProduct
      BY <3>1, <3>2, SMT
    <3>4. sound' \in BOOLEAN
      BY <3>1, <3>2, Zenon
    <3>5. QED
      BY <3>3, <3>4
  <2>2. QED
    BY <2>1, <1>38 DEF MaintainerEdits, TypeOK
<1>39. CASE Resume
  <2>1. Reconciled(Recovered(disk)) \in RunState
    BY <1>1, StatesSaved DEF TypeOK
  <2>2. run' \in [kind : Kinds, gate : Gates, yolo : Yolos]
    BY <1>39 DEF Resume, TypeOK
  <2>3. QED
    BY <2>1, <2>2, <1>39, Saved DEF Resume, TypeOK
<1>40. CASE ResumeWithDirection
  <2>1. Reconciled(Directed(Recovered(disk))) \in RunState
    <3>1. Recovered(disk) \in RunState
      BY <1>1, StatesSaved DEF TypeOK
    <3>2. Directed(Recovered(disk)) \in RunState
      BY <3>1, StatesSaved DEF TypeOK
    <3>3. QED
      BY <3>2, StatesSaved DEF TypeOK
  <2>2. directions' \in 0..MaxDirections /\ owed' \in {"none", "checks", "review"}
    BY <1>40 DEF ResumeWithDirection, TypeOK
  <2>3. QED
    BY <2>1, <2>2, <1>40, Saved DEF ResumeWithDirection, TypeOK
<1>41. CASE UNCHANGED vars
  BY <1>41 DEF vars, TypeOK
<1>42. QED
  BY <1>2, <1>3, <1>4, <1>5, <1>6, <1>7, <1>8, <1>9, <1>10, <1>11, <1>12,
     <1>13, <1>14, <1>15, <1>16, <1>17, <1>18, <1>19, <1>20, <1>21, <1>22,
     <1>23, <1>24, <1>25, <1>26, <1>27, <1>28, <1>29, <1>30, <1>31, <1>32,
     <1>33, <1>34, <1>35, <1>36, <1>37, <1>38, <1>39, <1>40, <1>41,
     NextCases
-----------------------------------------------------------------------------
(* What the steps do, as far as the invariants see it: Becomes(m) says that *)
(* the run goes on from m, its evidence apart.  An effect stands for the    *)
(* actions named before it.                                                 *)
Alike(m, n) ==
  /\ m.stage = n.stage /\ m.named = n.named /\ m.retries = n.retries
  /\ m.pending = n.pending /\ m.direction = n.direction /\ m.gateNext = n.gateNext
  /\ m.failures = n.failures /\ m.iteration = n.iteration

Becomes(m) == Alike(mem', m)

SameDelivery ==
  dir' = dir /\ owed' = owed /\ late' = late /\ repairs' = repairs /\ directions' = directions

(* run_repair may ask for a repair.                                         *)
Granted == mem.failures <= MaxRetries /\ (LateRepair(mem) \/ ~RetriesExhausted(mem))

(* Requests, stops, answers that are not acted upon yet, what agents do to  *)
(* the product, a plain resume.                                             *)
Stays == Becomes(mem) /\ SameDelivery

(* StartSession at Apply.                                                   *)
Begins ==
  /\ mem.stage = "Apply" /\ Becomes(mem) /\ owed' = "review"
  /\ dir' = dir /\ late' = late /\ repairs' = repairs /\ directions' = directions

(* SkipProposalCommit, ExploreReady, ProposalCommitReady, FinalCommitReady. *)
Proceeds ==
  /\ \/ mem.stage = "Explore" /\ Becomes([mem EXCEPT !.stage = "Propose"])
     \/ mem.stage = "ProposalCommit" /\ Becomes([mem EXCEPT !.stage = "Apply"])
     \/ mem.stage = "FinalCommit" /\ Becomes([mem EXCEPT !.stage = "Complete"])
  /\ SameDelivery

(* ProposeReady, ProposeDone.                                               *)
Proposes ==
  /\ mem.stage = "Propose"
  /\ \/ /\ ~Direct /\ dir = "active"
        /\ \E s \in {"ProposalCommit", "Apply"} :
             Becomes([mem EXCEPT !.named = TRUE, !.stage = s])
     \/ run.kind = "change" /\ dir = "none" /\ Becomes([mem EXCEPT !.stage = "Done"])
  /\ SameDelivery

(* ApplyReady.                                                              *)
Applies ==
  /\ mem.stage = "Apply" /\ Becomes([mem EXCEPT !.direction = FALSE, !.stage = "Verify"])
  /\ SameDelivery

(* RepairReady.                                                             *)
Repairs ==
  /\ mem.stage = "Repair" /\ Granted /\ ~LateRepair(mem)
  /\ Becomes([mem EXCEPT !.pending = "none", !.direction = FALSE, !.stage = "Verify"])
  /\ repairs' = repairs + 1
  /\ dir' = dir /\ owed' = owed /\ late' = late /\ directions' = directions

(* LateRepairReady.                                                         *)
RepairsLate ==
  /\ mem.stage = "Repair" /\ LateRepair(mem)
  /\ Becomes([mem EXCEPT !.pending = "none", !.stage = "Acceptance"])
  /\ SameDelivery

(* AssignmentReady with a sound record.                                     *)
Assigns ==
  /\ run.kind = "assignment"
  /\ \/ mem.stage = "Propose" /\ repairs' = repairs
     \/ mem.stage = "Repair" /\ Granted /\ repairs' = repairs + 1
  /\ \E s \in {"Verify", "FinalCommit"} :
       Becomes([mem EXCEPT !.pending = "none", !.direction = FALSE, !.stage = s])
  /\ dir' = dir /\ owed' = owed /\ late' = late /\ directions' = directions

(* VerifyUnsound, VerifiedUnsound, AssignmentReady with an unsound record.  *)
FailsCheck ==
  /\ \/ mem.stage = "Verify"
     \/ /\ run.kind = "assignment"
        /\ mem.stage = "Propose" \/ (mem.stage = "Repair" /\ Granted)
  /\ \/ Becomes(Structural(mem)) /\ (Bootstrap => Structural(mem).retries <= MaxRetries)
     \/ /\ Bootstrap /\ Structural(mem).retries > MaxRetries
        /\ Becomes([Structural(mem) EXCEPT !.stage = "Verify"])
  /\ owed' = "review"
  /\ dir' = dir /\ late' = late /\ repairs' = repairs /\ directions' = directions

(* VerifyRetry.                                                             *)
Retries ==
  /\ mem.stage = "Verify"
  /\ Becomes([mem EXCEPT !.retries = OneMore(mem.retries), !.pending = "finding",
                         !.stage = "Repair"])
  /\ owed' = "review"
  /\ dir' = dir /\ late' = late /\ repairs' = repairs /\ directions' = directions

(* RepairRefused.                                                           *)
Refuses ==
  /\ mem.stage = "Repair" \/ (mem.stage = "Propose" /\ run.kind = "assignment")
  /\ ~LateRepair(mem) /\ RetriesExhausted(mem)
  /\ Becomes([mem EXCEPT !.stage = "Repair"])
  /\ SameDelivery

(* Verified.                                                                *)
Accepts ==
  /\ mem.stage = "Verify"
  /\ \/ ~Direct /\ Becomes([mem EXCEPT !.pending = "none", !.stage = "Archive"])
     \/ /\ Direct /\ run.gate /\ ~Bootstrap
        /\ Becomes([mem EXCEPT !.pending = "none", !.gateNext = "FinalCommit",
                               !.stage = "Acceptance"])
     \/ /\ Direct /\ ~(run.gate /\ ~Bootstrap)
        /\ Becomes([mem EXCEPT !.pending = "none", !.stage = "FinalCommit"])
  /\ owed' = "none"
  /\ dir' = dir /\ late' = late /\ repairs' = repairs /\ directions' = directions

(* ArchiveReady, ArchiveOmitted, a resume after the change was archived.    *)
Archives ==
  /\ mem.stage = "Archive" /\ (HonestArchive => dir # "active")
  /\ Becomes([mem EXCEPT !.stage = "FinalCommit"])
  /\ SameDelivery

(* EnterAcceptance.                                                         *)
EntersGate ==
  /\ mem.stage \in {"Archive", "Complete", "Done"} /\ run.gate /\ ~Bootstrap
  /\ AcceptanceDue(mem)
  /\ Becomes([mem EXCEPT !.gateNext = mem.stage, !.stage = "Acceptance"])
  /\ late' = (late /\ mem.stage # "Archive")
  /\ dir' = dir /\ owed' = owed /\ repairs' = repairs /\ directions' = directions

(* AcceptancePasses.                                                        *)
PassesGate ==
  /\ mem.stage = "Acceptance"
  /\ Becomes([mem EXCEPT !.pending = "none", !.stage = mem.gateNext])
  /\ mem'.evidence = product'
  /\ owed' = IF owed = "checks" THEN "none" ELSE owed
  /\ dir' = dir /\ late' = late /\ repairs' = repairs /\ directions' = directions

(* AcceptanceFails.                                                         *)
FailsGate ==
  /\ mem.stage = "Acceptance" /\ mem'.evidence = NoProduct
  /\ LET failed == [mem EXCEPT !.failures = OneMore(mem.failures), !.pending = "finding"]
     IN \/ ~mem.named /\ Becomes(failed)
        \/ /\ OneMore(mem.failures) > MaxRetries /\ mem.named
           /\ Becomes([failed EXCEPT !.stage = "Repair"])
        \/ /\ OneMore(mem.failures) <= MaxRetries /\ mem.named
           /\ Becomes([failed EXCEPT !.stage = "Repair",
                         !.gateNext = IF mem.gateNext \in {"Complete", "Done"}
                                        THEN "FinalCommit" ELSE mem.gateNext])
  /\ owed' = IF owed = "review" \/ Direct \/ mem.gateNext = "Archive"
               THEN "review" ELSE "checks"
  /\ late' = (late \/ (~Direct /\ mem.named /\ mem.gateNext # "Archive"))
  /\ dir' = dir /\ repairs' = repairs /\ directions' = directions

(* NextChange.                                                              *)
GoesOn ==
  /\ run.kind = "change" /\ mem.stage = "Complete" /\ ~AcceptanceDue(mem)
  /\ mem'.stage = "Explore" /\ mem'.retries = 0 /\ mem'.pending = "none"
  /\ mem'.direction = mem.direction /\ mem'.gateNext = mem.gateNext
  /\ dir' = "none" /\ owed' = "review" /\ late' = LateRepair(mem) /\ repairs' = 0
  /\ directions' = directions

(* AgentMovesChange.                                                        *)
Moves ==
  /\ ~Direct /\ Becomes(mem) /\ dir' \in {"active", "archived"}
  /\ \/ mem.stage = "Archive" /\ dir = "active" /\ dir' = "archived"
     \/ /\ mem.stage \in {"Propose", "Apply", "Repair"}
        /\ dir = "none" => dir' = "active"
  /\ owed' = owed /\ late' = late /\ repairs' = repairs /\ directions' = directions

(* Resume, of a bootstrap at the structural repair it asked for.            *)
Recovers ==
  /\ Bootstrap /\ mem.stage = "Verify" /\ mem.pending = "structural"
  /\ mem.retries <= MaxRetries
  /\ Becomes([mem EXCEPT !.stage = "Repair"])
  /\ SameDelivery

(* ResumeWithDirection.                                                     *)
Directs ==
  /\ \/ /\ mem.stage \in {"Verify", "Archive", "FinalCommit"} /\ owed' = "review"
        /\ Becomes([mem EXCEPT !.direction = TRUE, !.stage = "Repair", !.pending = "none"])
     \/ /\ mem.stage = "Verify" /\ Bootstrap /\ owed' = owed
        /\ Becomes([mem EXCEPT !.direction = TRUE, !.stage = "Repair"])
     \/ /\ mem.stage \notin {"Verify", "Archive", "FinalCommit"} /\ owed' = owed
        /\ mem.stage = "Complete" => run.gate \/ MoreIterations
        /\ Becomes([mem EXCEPT !.direction = TRUE])
  /\ directions' = directions + 1
  /\ dir' = dir /\ late' = late /\ repairs' = repairs
-----------------------------------------------------------------------------
(* The checkpoint is the state of the process, evidence apart; a session at *)
(* Repair was granted; what is reported has no change left to go on to.     *)
SavedAlike == Alike(disk, mem)
Seated == pc = "session" /\ mem.stage = "Repair" => Granted
NothingLeft == pc = "reported" => ~MoreIterations

Controlled == TypeOK /\ Judged /\ SavedAlike /\ Seated /\ NothingLeft

(* A run starts with its state saved and no session.                        *)
LEMMA InitControlled == Init => Controlled
<1> SUFFICES ASSUME Init PROVE Controlled
  OBVIOUS
<1>1. TypeOK /\ Judged
  BY InitTypes, InitJudged
<1>2. disk = mem /\ pc = "loop"
  BY DEF Init
<1>3. QED
  BY <1>1, <1>2 DEF Controlled, SavedAlike, Alike, Seated, NothingLeft

(* Who saves the state of the process agrees with the checkpoint.           *)
LEMMA SavedControlled ==
  ASSUME NEW m, Goto(m) \/ StopAt(m)
  PROVE  Judged' /\ SavedAlike' /\ Seated' /\ NothingLeft'
BY DEF Goto, StopAt, Save, Judged, SavedAlike, Alike, Seated, NothingLeft

(* Every step that changes the state of the process persists it, but for    *)
(* the evidence that run_verify forgets.                                    *)
LEMMA NextControlled == Controlled /\ [Next]_vars => Controlled'
<1> SUFFICES ASSUME Controlled, [Next]_vars PROVE Controlled'
  OBVIOUS
<1> USE DEF Judged, SavedAlike, Alike, Seated, NothingLeft, Granted, RetriesExhausted, LateRepair,
            Direct, MoreIterations
<1>1. TypeOK /\ Judged /\ SavedAlike /\ Seated /\ NothingLeft
  BY DEF Controlled
<1>2. TypeOK'
  BY <1>1, NextTypes
<1>3. CASE SkipProposalCommit \/ EnterAcceptance \/ NextChange \/ RequestLimit
          \/ RepairRefused \/ AcceptancePasses \/ AcceptanceFails \/
          AcceptanceErrs \/ VerifiedTooEarly
  BY <1>3, <1>2, SavedControlled DEF Controlled, SkipProposalCommit, EnterAcceptance,
     NextChange, RequestLimit, RepairRefused, AcceptancePasses, AcceptanceFails,
     AcceptanceErrs, VerifiedTooEarly
<1>4. CASE Verified \/ VerifyRetry \/ VerifyIncomplete \/ TooLargeReported \/
          ExploreReady \/ ProposeReady \/ ProposeDone \/
          ProposalCommitReady
  BY <1>4, <1>2, SavedControlled DEF Controlled, Verified, VerifyRetry,
     VerifyIncomplete, TooLargeReported, ExploreReady, ProposeReady, ProposeDone,
     ProposalCommitReady
<1>5. CASE ApplyReady \/ RepairReady \/ LateRepairReady \/ ArchiveReady \/
          FinalCommitReady \/ RequestTimeout \/ Interrupt \/ Resume
  BY <1>5, <1>2, SavedControlled DEF Controlled, ApplyReady, RepairReady,
     LateRepairReady, ArchiveReady, FinalCommitReady, RequestTimeout, Interrupt, Resume
<1>6. CASE VerifyUnsound \/ VerifiedUnsound \/ AssignmentReady
  BY <1>6, <1>2, SavedControlled DEF Controlled, VerifyUnsound, VerifiedUnsound,
     AssignmentReady, FailStructure
<1>7. CASE ResumeWithDirection
  BY <1>7, <1>2, SavedControlled DEF Controlled, ResumeWithDirection
<1>8. CASE StartSession
  <2>1. mem' = mem \/ mem' = [mem EXCEPT !.verifiedAt = NoProduct]
    BY <1>8 DEF StartSession
  <2>2. mem \in RunState
    BY <1>1 DEF TypeOK
  <2>3. Alike(mem', mem)
    BY <2>1, <2>2 DEF RunState
  <2>4. pc' = "session" /\ disk' = disk /\ run' = run
    BY <1>8 DEF StartSession
  <2>5. mem.stage = "Repair" => Granted
    BY <1>8 DEF StartSession, Admitted, At
  <2>6. QED
    BY <1>1, <1>2, <2>3, <2>4, <2>5 DEF Controlled
<1>9. CASE VerifyAnswered
  <2>1. mem' = disk' /\ pc' = "verdict"
    BY <1>9 DEF VerifyAnswered, Save
  <2>2. mem'.stage = "Verify"
    BY <1>1, <1>9 DEF VerifyAnswered, Save, In, TypeOK, RunState
  <2>3. QED
    BY <1>2, <2>1, <2>2 DEF Controlled
<1>10. CASE ProposeUnmet \/ ArchiveOmitted
  <2>1. CASE UNCHANGED <<mem, disk, pc>> /\ run' = run
    BY <1>1, <1>2, <2>1 DEF Controlled
  <2>2. CASE \E m : Goto(m) \/ StopAt(m)
    BY <1>2, <2>2, SavedControlled DEF Controlled
  <2>3. QED
    BY <1>10, <2>1, <2>2 DEF ProposeUnmet, ArchiveOmitted, AskAgain
<1>11. CASE Escalate \/ Report
  <2>1. mem' = mem /\ disk' \in {disk, mem} /\ run' = run
    BY <1>11 DEF Escalate, Report
  <2>2. pc' = "escalated" \/ (pc' = "reported" /\ ~MoreIterations)
    BY <1>11 DEF Escalate, Report
  <2>3. QED
    BY <1>1, <1>2, <2>1, <2>2 DEF Controlled
<1>12. CASE AgentEdits \/ AgentPlans \/ AgentMovesChange \/ MaintainerEdits
  BY <1>1, <1>2, <1>12 DEF Controlled, AgentEdits, AgentPlans, AgentMovesChange,
     MaintainerEdits
<1>13. CASE UNCHANGED vars
  BY <1>1, <1>2, <1>13 DEF Controlled, vars
<1>14. QED
  BY <1>3, <1>4, <1>5, <1>6, <1>7, <1>8, <1>9, <1>10, <1>11, <1>12, <1>13,
     NextCases
-----------------------------------------------------------------------------
(* Every step has one of these effects.                                     *)
Effect ==
  \/ Stays \/ Begins \/ Proceeds \/ Proposes \/ Applies \/ Repairs \/ RepairsLate
  \/ Assigns \/ FailsCheck \/ Retries \/ Refuses \/ Accepts \/ Archives \/ EntersGate
  \/ PassesGate \/ FailsGate \/ GoesOn \/ Moves \/ Recovers \/ Directs

(* The run goes on from what is persisted.                                  *)
LEMMA SavedBecomes ==
  ASSUME NEW m, Goto(m) \/ StopAt(m)
  PROVE  Becomes(m)
BY DEF Goto, StopAt, Save, Becomes, Alike

(* A failed structural check of a state that differs in its evidence only.  *)
LEMMA CheckFails ==
  ASSUME TypeOK, NEW m \in RunState, Alike(m, mem), FailStructure(m)
  PROVE  \/ Becomes(Structural(mem)) /\ (Bootstrap => Structural(mem).retries <= MaxRetries)
         \/ /\ Bootstrap /\ Structural(mem).retries > MaxRetries
            /\ Becomes([Structural(mem) EXCEPT !.stage = "Verify"])
<1>1. mem \in RunState
  BY DEF TypeOK
<1>2. Alike(Structural(m), Structural(mem))
  BY <1>1 DEF Structural, Alike, RunState, OneMore
<1>3. Structural(m).retries \in Nat /\ Structural(mem).retries \in Nat
  BY <1>1, StatesSaved DEF TypeOK, RunState
<1>4. Structural(m) \in RunState /\ Structural(mem) \in RunState
  BY <1>1, StatesSaved DEF TypeOK
<1>5. Alike([Structural(m) EXCEPT !.stage = "Verify"], [Structural(mem) EXCEPT !.stage = "Verify"])
  BY <1>2, <1>4 DEF Alike, RunState
<1>6. CASE Bootstrap /\ Structural(m).retries > MaxRetries
  <2>1. Becomes([Structural(m) EXCEPT !.stage = "Verify"])
    BY <1>6, SavedBecomes DEF FailStructure
  <2>2. QED
    BY <1>2, <1>5, <1>6, <2>1 DEF Becomes, Alike
<1>7. CASE ~(Bootstrap /\ Structural(m).retries > MaxRetries)
  <2>1. Becomes(Structural(m))
    BY <1>7, SavedBecomes DEF FailStructure
  <2>2. Becomes(Structural(mem))
    BY <1>2, <2>1 DEF Becomes, Alike
  <2>3. Bootstrap => Structural(mem).retries <= MaxRetries
    BY <1>2, <1>3, <1>7, BoundsAssumption DEF Alike
  <2>4. QED
    BY <2>2, <2>3
<1>8. QED
  BY <1>6, <1>7

(* The checks pass.                                                         *)
LEMMA PassEffect == TypeOK /\ AcceptancePasses => PassesGate
<1> SUFFICES ASSUME TypeOK, AcceptancePasses PROVE PassesGate
  OBVIOUS
<1> DEFINE m == [mem EXCEPT !.evidence = product, !.pending = "none", !.stage = mem.gateNext]
<1>1. mem \in RunState
  BY DEF TypeOK
<1>2. mem' = m /\ Becomes(m)
  BY SavedBecomes DEF AcceptancePasses, Goto, Save
<1>3. Becomes([mem EXCEPT !.pending = "none", !.stage = mem.gateNext])
  BY <1>1, <1>2 DEF Becomes, Alike, RunState
<1>4. mem'.evidence = product'
  BY <1>1, <1>2 DEF AcceptancePasses, RunState, world
<1>5. QED
  BY <1>3, <1>4 DEF AcceptancePasses, At, PassesGate, world

(* The checks fail.                                                         *)
LEMMA FailEffect == TypeOK /\ AcceptanceFails => FailsGate
<1> SUFFICES ASSUME TypeOK, AcceptanceFails PROVE FailsGate
  OBVIOUS
<1> DEFINE failed == [mem EXCEPT !.failures = OneMore(mem.failures), !.pending = "finding"]
           m == [mem EXCEPT !.failures = OneMore(mem.failures), !.evidence = NoProduct,
                            !.pending = "finding",
                            !.stage = IF mem.named THEN "Repair" ELSE mem.stage]
           next == IF mem.gateNext \in {"Complete", "Done"} THEN "FinalCommit" ELSE mem.gateNext
<1>1. mem \in RunState /\ OneMore(mem.failures) \in Nat /\ MaxRetries \in Nat
  BY StatesSaved, BoundsAssumption DEF TypeOK
<1>2. Alike(m, IF mem.named THEN [failed EXCEPT !.stage = "Repair"] ELSE failed)
  BY <1>1 DEF Alike, RunState
<1>3. m.gateNext = mem.gateNext /\ m.evidence = NoProduct
  BY <1>1 DEF RunState
<1>4. CASE OneMore(mem.failures) > MaxRetries \/ ~mem.named
  <2>1. mem' = m /\ Becomes(m)
    BY <1>4, SavedBecomes DEF AcceptanceFails, StopAt, Save
  <2>2. Becomes(IF mem.named THEN [failed EXCEPT !.stage = "Repair"] ELSE failed)
    BY <1>2, <2>1 DEF Becomes, Alike
  <2>3. mem'.evidence = NoProduct
    BY <1>3, <2>1
  <2>4. QED
    BY <1>4, <2>2, <2>3 DEF AcceptanceFails, At, FailsGate
<1>5. CASE OneMore(mem.failures) <= MaxRetries /\ mem.named
  <2>1. ~(OneMore(mem.failures) > MaxRetries \/ ~mem.named)
    BY <1>1, <1>5
  <2>2. mem' = [m EXCEPT !.gateNext = next] /\ Becomes([m EXCEPT !.gateNext = next])
    BY <1>3, <2>1, SavedBecomes DEF AcceptanceFails, Goto, Save
  <2>3. Becomes([failed EXCEPT !.stage = "Repair", !.gateNext = next])
    BY <1>1, <1>2, <1>5, <2>2 DEF Becomes, Alike, RunState
  <2>4. mem'.evidence = NoProduct
    BY <1>3, <2>2
  <2>5. QED
    BY <1>5, <2>3, <2>4 DEF AcceptanceFails, At, FailsGate
<1>6. QED
  BY <1>1, <1>4, <1>5

(* Each of the actions has one of the effects.                              *)
LEMMA StepEffects == Controlled /\ [Next]_vars => Effect
<1> SUFFICES ASSUME Controlled, [Next]_vars PROVE Effect
  OBVIOUS
<1> USE DEF world, history, SameDelivery
<1>1. TypeOK /\ Judged /\ SavedAlike /\ Seated
  BY DEF Controlled
<1>2. mem \in RunState /\ disk \in RunState
  BY <1>1 DEF TypeOK
<1>3. Alike(mem, mem) /\ Alike(disk, mem)
  BY <1>1 DEF SavedAlike, Alike
<1>4. ASSUME StopAt(disk) \/ Goto(disk) \/ StopAt(mem) \/ Goto(mem) \/ mem' = mem
      PROVE  Becomes(mem)
  BY <1>3, <1>4, SavedBecomes DEF Becomes, Alike
<1>5. CASE SkipProposalCommit
  <2>1. Proceeds
    BY <1>5, SavedBecomes DEF SkipProposalCommit, Skipping, Proceeds
  <2>2. QED
    BY <2>1 DEF Effect
<1>6. CASE Escalate \/ Report \/ RequestLimit \/ RequestTimeout \/ Interrupt
          \/ VerifiedTooEarly \/ VerifyIncomplete \/ AgentEdits \/ AgentPlans \/ MaintainerEdits
  <2>1. Becomes(mem)
    BY <1>4, <1>6 DEF Escalate, Report, RequestLimit, RequestTimeout, Interrupt,
       VerifiedTooEarly, VerifyIncomplete, AgentEdits, AgentPlans, MaintainerEdits
  <2>2. SameDelivery
    BY <1>6 DEF Escalate, Report, RequestLimit, RequestTimeout, Interrupt,
       VerifiedTooEarly, VerifyIncomplete, AgentEdits, AgentPlans, MaintainerEdits
  <2>3. QED
    BY <2>1, <2>2 DEF Effect, Stays
<1>7. CASE EnterAcceptance
  <2>1. run.gate /\ ~Bootstrap /\ mem.stage \in {"Archive", "Complete", "Done"}
    BY <1>7 DEF EnterAcceptance, AcceptanceDue, AcceptanceRequired
  <2>2. EntersGate
    BY <1>7, <2>1, SavedBecomes DEF EnterAcceptance, EntersGate
  <2>3. QED
    BY <2>2 DEF Effect
<1>8. CASE NextChange
  <2>1. run.kind = "change" /\ mem.stage = "Complete" /\ ~AcceptanceDue(mem)
    BY <1>8 DEF NextChange, MoreIterations, At
  <2>2. mem'.stage = "Explore" /\ mem'.retries = 0 /\ mem'.pending = "none"
        /\ mem'.direction = mem.direction /\ mem'.gateNext = mem.gateNext
    BY <1>8, <2>1 DEF NextChange, Goto, Save, Fresh
  <2>3. GoesOn
    BY <1>8, <2>1, <2>2 DEF NextChange, GoesOn
  <2>4. QED
    BY <2>3 DEF Effect
<1>9. CASE StartSession
  <2>1. Becomes(mem)
    BY <1>2, <1>9 DEF StartSession, Becomes, Alike, RunState
  <2>2. QED
    BY <2>1, <1>9 DEF StartSession, Effect, Stays, Begins
<1>10. CASE VerifyUnsound
  <2>1. mem.stage = "Verify"
    BY <1>10 DEF VerifyUnsound, At
  <2>2. [mem EXCEPT !.verifiedAt = NoProduct] \in RunState
    BY <1>2 DEF RunState, NoProduct
  <2>3. Alike([mem EXCEPT !.verifiedAt = NoProduct], mem)
    BY <1>2 DEF Alike, RunState
  <2>4. FailsCheck
    BY <1>1, <1>10, <2>1, <2>2, <2>3, CheckFails DEF VerifyUnsound, FailStructure,
       FailsCheck
  <2>5. QED
    BY <2>4 DEF Effect
<1>11. CASE VerifiedUnsound
  <2>1. mem.stage = "Verify"
    BY <1>1, <1>11 DEF VerifiedUnsound, Judged
  <2>2. FailsCheck
    BY <1>1, <1>2, <1>3, <1>11, <2>1, CheckFails DEF VerifiedUnsound, FailStructure,
       FailsCheck
  <2>3. QED
    BY <2>2 DEF Effect
<1>12. CASE AssignmentReady
  <2>1. run.kind = "assignment" /\ mem.stage \in {"Propose", "Repair"} /\ pc = "session"
    BY <1>12 DEF AssignmentReady, In
  <2>2. CASE StructureSound
    <3>1. PICK s \in {"Verify", "FinalCommit"} :
            Goto([mem EXCEPT !.pending = "none", !.direction = FALSE, !.stage = s])
      BY <2>2, <1>12 DEF AssignmentReady
    <3>2. repairs' = IF mem.stage = "Repair" THEN repairs + 1 ELSE repairs
      BY <2>2, <1>12 DEF AssignmentReady
    <3>3. dir' = dir /\ owed' = owed /\ late' = late /\ directions' = directions
      BY <2>2, <1>12 DEF AssignmentReady
    <3>4. Assigns
      BY <1>1, <2>1, <3>1, <3>2, <3>3, SavedBecomes DEF Assigns, Seated
    <3>5. QED
      BY <3>4 DEF Effect
  <2>3. CASE ~StructureSound
    <3>1. FailStructure(mem)
      BY <2>3, <1>12 DEF AssignmentReady
    <3>2. dir' = dir /\ late' = late /\ repairs' = repairs /\ directions' = directions
      BY <2>3, <1>12 DEF AssignmentReady
    <3>3. mem.stage = "Repair" => Granted
      BY <1>1, <2>1 DEF Seated
    <3>4. FailsCheck
      BY <1>1, <1>2, <1>3, <2>1, <3>1, <3>2, <3>3, CheckFails DEF FailStructure,
         FailsCheck
    <3>5. QED
      BY <3>4 DEF Effect
  <2>4. QED
    BY <2>2, <2>3
<1>13. CASE RepairRefused
  <2>1. CASE StopAt(mem)
    BY <1>4, <1>13, <2>1 DEF RepairRefused, Effect, Stays
  <2>2. CASE ~StopAt(mem)
    <3>1. Refuses
      BY <1>13, <2>2, SavedBecomes DEF RepairRefused, At, Refuses
    <3>2. QED
      BY <3>1 DEF Effect
  <2>3. QED
    BY <2>1, <2>2
<1>14. CASE AcceptancePasses
  BY <1>1, <1>14, PassEffect DEF Effect
<1>15. CASE AcceptanceFails
  BY <1>1, <1>15, FailEffect DEF Effect
<1>16. CASE AcceptanceErrs
  <2>1. Becomes([mem EXCEPT !.evidence = NoProduct])
    BY <1>16, SavedBecomes DEF AcceptanceErrs
  <2>2. Becomes(mem)
    BY <1>2, <2>1 DEF Becomes, Alike, RunState
  <2>3. QED
    BY <1>16, <2>2 DEF AcceptanceErrs, Effect, Stays
<1>17. CASE Verified
  <2> DEFINE seen == [mem EXCEPT !.verifiedAt = product, !.pending = "none"]
  <2>1. mem.stage = "Verify"
    BY <1>1, <1>17 DEF Verified, Judged
  <2>2. Becomes(Accepted(seen))
    BY <1>17, SavedBecomes DEF Verified
  <2>3. seen.stage = "Verify" /\ AfterVerified["Verify"] = "Archive"
    BY <1>2, <2>1 DEF RunState, AfterVerified
  <2>4. CASE ~Direct
    <3>1. Becomes([seen EXCEPT !.stage = "Archive"])
      BY <2>2, <2>3, <2>4 DEF Accepted
    <3>2. Becomes([mem EXCEPT !.pending = "none", !.stage = "Archive"])
      BY <1>2, <3>1 DEF Becomes, Alike, RunState
    <3>3. QED
      BY <1>17, <2>1, <2>4, <3>2 DEF Verified, Effect, Accepts
  <2>5. CASE Direct /\ run.gate /\ ~Bootstrap
    <3>1. Becomes([seen EXCEPT !.gateNext = "FinalCommit", !.stage = "Acceptance"])
      BY <2>2, <2>5 DEF Accepted
    <3>2. Becomes([mem EXCEPT !.pending = "none", !.gateNext = "FinalCommit",
                              !.stage = "Acceptance"])
      BY <1>2, <3>1 DEF Becomes, Alike, RunState
    <3>3. QED
      BY <1>17, <2>1, <2>5, <3>2 DEF Verified, Effect, Accepts
  <2>6. CASE Direct /\ ~(run.gate /\ ~Bootstrap)
    <3>1. Becomes([seen EXCEPT !.stage = "FinalCommit"])
      BY <2>2, <2>6 DEF Accepted
    <3>2. Becomes([mem EXCEPT !.pending = "none", !.stage = "FinalCommit"])
      BY <1>2, <3>1 DEF Becomes, Alike, RunState
    <3>3. QED
      BY <1>17, <2>1, <2>6, <3>2 DEF Verified, Effect, Accepts
  <2>7. QED
    BY <2>4, <2>5, <2>6
<1>18. CASE VerifyRetry
  <2>1. mem.stage = "Verify"
    BY <1>1, <1>18 DEF VerifyRetry, Judged
  <2>2. Retries
    BY <1>18, <2>1, SavedBecomes DEF VerifyRetry, Retries
  <2>3. QED
    BY <2>2 DEF Effect
<1>19. CASE TooLargeReported
  <2>1. Becomes([mem EXCEPT !.tooLarge = TRUE])
    BY <1>19, SavedBecomes DEF TooLargeReported
  <2>2. Becomes(mem)
    BY <1>2, <2>1 DEF Becomes, Alike, RunState
  <2>3. QED
    BY <1>19, <2>2 DEF TooLargeReported, Effect, Stays
<1>20. CASE ExploreReady
  <2>1. mem.stage = "Explore" /\ AfterReady["Explore"] = "Propose"
    BY <1>20 DEF ExploreReady, In, AfterReady
  <2>2. Proceeds
    BY <1>20, <2>1, SavedBecomes DEF ExploreReady, Proceeds
  <2>3. QED
    BY <2>2 DEF Effect
<1>21. CASE ProposeReady
  <2>1. mem.stage = "Propose" /\ StageAfterPropose(run.yolo) \in {"ProposalCommit", "Apply"}
    BY <1>21 DEF ProposeReady, In, StageAfterPropose, AfterReady
  <2>2. Becomes([mem EXCEPT !.named = TRUE, !.stage = StageAfterPropose(run.yolo)])
    BY <1>21, SavedBecomes DEF ProposeReady
  <2>3. Proposes
    BY <1>21, <2>1, <2>2 DEF ProposeReady, Proposes
  <2>4. QED
    BY <2>3 DEF Effect
<1>22. CASE ProposeUnmet
  <2>1. Becomes(mem)
    BY <1>4, <1>22 DEF ProposeUnmet, AskAgain
  <2>2. QED
    BY <1>22, <2>1 DEF ProposeUnmet, Effect, Stays
<1>23. CASE ProposeDone
  <2>1. Proposes
    BY <1>23, SavedBecomes DEF ProposeDone, Proposes, In
  <2>2. QED
    BY <2>1 DEF Effect
<1>24. CASE ProposalCommitReady
  <2>1. mem.stage = "ProposalCommit" /\ AfterReady["ProposalCommit"] = "Apply"
    BY <1>24 DEF ProposalCommitReady, In, AfterReady
  <2>2. Proceeds
    BY <1>24, <2>1, SavedBecomes DEF ProposalCommitReady, Proceeds
  <2>3. QED
    BY <2>2 DEF Effect
<1>25. CASE ApplyReady
  <2>1. mem.stage = "Apply" /\ AfterReady["Apply"] = "Verify"
    BY <1>25 DEF ApplyReady, In, AfterReady
  <2>2. Applies
    BY <1>25, <2>1, SavedBecomes DEF ApplyReady, Applies
  <2>3. QED
    BY <2>2 DEF Effect
<1>26. CASE VerifyAnswered
  <2>1. PICK open \in BOOLEAN : mem' = [mem EXCEPT !.open = open]
    BY <1>26 DEF VerifyAnswered, Save
  <2>2. Becomes(mem)
    BY <1>2, <2>1 DEF Becomes, Alike, RunState
  <2>3. QED
    BY <1>26, <2>2 DEF VerifyAnswered, Effect, Stays
<1>27. CASE RepairReady
  <2>1. mem.stage = "Repair" /\ AfterReady["Repair"] = "Verify" /\ Granted
    BY <1>1, <1>27 DEF RepairReady, In, AfterReady, Seated
  <2>2. Repairs
    BY <1>27, <2>1, SavedBecomes DEF RepairReady, Repairs
  <2>3. QED
    BY <2>2 DEF Effect
<1>28. CASE LateRepairReady
  <2>1. RepairsLate
    BY <1>28, SavedBecomes DEF LateRepairReady, RepairsLate, In
  <2>2. QED
    BY <2>1 DEF Effect
<1>29. CASE ArchiveReady
  <2>1. mem.stage = "Archive" /\ AfterReady["Archive"] = "FinalCommit"
    BY <1>29 DEF ArchiveReady, In, AfterReady
  <2>2. Archives
    BY <1>29, <2>1, SavedBecomes DEF ArchiveReady, Archives
  <2>3. QED
    BY <2>2 DEF Effect
<1>30. CASE ArchiveOmitted
  <2>1. mem.stage = "Archive" /\ AfterReady["Archive"] = "FinalCommit"
    BY <1>30 DEF ArchiveOmitted, In, AfterReady
  <2>2. CASE dir # "active" /\ Goto([mem EXCEPT !.stage = AfterReady[mem.stage]])
    <3>1. Archives
      BY <1>30, <2>1, <2>2, SavedBecomes DEF ArchiveOmitted, Archives
    <3>2. QED
      BY <3>1 DEF Effect
  <2>3. CASE AskAgain
    <3>1. Becomes(mem)
      BY <1>4, <2>3 DEF AskAgain
    <3>2. QED
      BY <1>30, <3>1 DEF ArchiveOmitted, Effect, Stays
  <2>4. QED
    BY <1>30, <2>2, <2>3 DEF ArchiveOmitted
<1>31. CASE FinalCommitReady
  <2>1. mem.stage = "FinalCommit" /\ AfterReady["FinalCommit"] = "Complete"
    BY <1>31 DEF FinalCommitReady, In, AfterReady
  <2>2. Proceeds
    BY <1>31, <2>1, SavedBecomes DEF FinalCommitReady, Proceeds
  <2>3. QED
    BY <2>2 DEF Effect
<1>32. CASE AgentMovesChange
  <2>1. Becomes(mem)
    BY <1>4, <1>32 DEF AgentMovesChange
  <2>2. Moves
    BY <1>32, <2>1 DEF AgentMovesChange, In, Moves
  <2>3. QED
    BY <2>2 DEF Effect
<1>33. CASE Resume
  <2>1. Becomes(Reconciled(Recovered(disk))) /\ SameDelivery
    BY <1>33, SavedBecomes DEF Resume
  <2>2. CASE Recovered(disk) # disk
    <3>1. /\ Bootstrap /\ disk.stage = "Verify" /\ disk.pending = "structural"
          /\ disk.retries <= MaxRetries /\ Recovered(disk) = [disk EXCEPT !.stage = "Repair"]
      BY <2>2 DEF Recovered
    <3>2. Reconciled(Recovered(disk)) = [disk EXCEPT !.stage = "Repair"]
      BY <1>2, <3>1 DEF Reconciled, RunState
    <3>3. Becomes([mem EXCEPT !.stage = "Repair"])
      BY <1>2, <1>3, <2>1, <3>2 DEF Becomes, Alike, RunState
    <3>4. QED
      BY <1>3, <2>1, <3>1, <3>3 DEF Effect, Recovers, Alike
  <2>3. CASE Recovered(disk) = disk /\ disk.stage = "Archive" /\ dir # "active"
    <3>1. Becomes([disk EXCEPT !.stage = "FinalCommit"])
      BY <2>1, <2>3 DEF Reconciled
    <3>2. Becomes([mem EXCEPT !.stage = "FinalCommit"])
      BY <1>2, <1>3, <3>1 DEF Becomes, Alike, RunState
    <3>3. QED
      BY <1>3, <2>1, <2>3, <3>2 DEF Effect, Archives, Alike
  <2>4. CASE Recovered(disk) = disk /\ ~(disk.stage = "Archive" /\ dir # "active")
    <3>1. Becomes(mem)
      BY <1>3, <2>1, <2>4 DEF Reconciled, Becomes, Alike
    <3>2. QED
      BY <2>1, <3>1 DEF Effect, Stays
  <2>5. QED
    BY <2>2, <2>3, <2>4
<1>34. CASE ResumeWithDirection
  <2> DEFINE directed == [mem EXCEPT !.direction = TRUE]
             reopened == [mem EXCEPT !.direction = TRUE, !.stage = "Repair", !.pending = "none"]
  <2>1. /\ Becomes(Reconciled(Directed(Recovered(disk))))
        /\ directions' = directions + 1
        /\ owed' = IF Reopens(Recovered(disk)) THEN "review" ELSE owed
        /\ dir' = dir /\ late' = late /\ repairs' = repairs
    BY <1>34, SavedBecomes DEF ResumeWithDirection
  <2>2. disk.stage = "Complete" => run.gate \/ MoreIterations
    <3>1. AcceptanceDue(disk) => run.gate
      BY DEF AcceptanceDue, AcceptanceRequired
    <3>2. CASE disk.stage = "Complete" /\ ~AcceptanceDue(disk)
      <4>1. run.kind = "change" /\ disk.iteration < MaxIterations
        BY <1>34, <3>2 DEF ResumeWithDirection, Resumable
      <4>2. QED
        BY <1>3, <3>2, <4>1 DEF MoreIterations, Alike
    <3>3. QED
      BY <3>1, <3>2
  <2>3. CASE Recovered(disk) # disk
    <3>1. /\ Bootstrap /\ disk.stage = "Verify"
          /\ Recovered(disk) = [disk EXCEPT !.stage = "Repair"]
      BY <2>3 DEF Recovered
    <3>2. Recovered(disk).stage = "Repair"
      BY <1>2, <3>1 DEF RunState
    <3>3. Directed(Recovered(disk)) = [disk EXCEPT !.stage = "Repair", !.direction = TRUE]
      BY <3>1, <3>2 DEF Directed, Reopens
    <3>4. Reconciled(Directed(Recovered(disk))) = [disk EXCEPT !.stage = "Repair", !.direction = TRUE]
      BY <1>2, <3>3 DEF Reconciled, RunState
    <3>5. Becomes([mem EXCEPT !.direction = TRUE, !.stage = "Repair"])
      BY <1>2, <1>3, <2>1, <3>4 DEF Becomes, Alike, RunState
    <3>6. owed' = owed /\ mem.stage = "Verify"
      BY <1>3, <2>1, <3>1, <3>2 DEF Reopens, Alike
    <3>7. QED
      BY <2>1, <3>1, <3>5, <3>6 DEF Effect, Directs
  <2>4. CASE Recovered(disk) = disk /\ Reopens(disk)
    <3>1. Directed(disk) = [disk EXCEPT !.direction = TRUE, !.stage = "Repair", !.pending = "none"]
      BY <2>4 DEF Directed
    <3>2. Reconciled(Directed(disk)) = Directed(disk)
      BY <1>2, <3>1 DEF Reconciled, RunState
    <3>3. Becomes(reopened)
      <4>1. Becomes([disk EXCEPT !.direction = TRUE, !.stage = "Repair", !.pending = "none"])
        BY <2>1, <2>4, <3>1, <3>2
      <4>2. QED
        BY <1>2, <1>3, <4>1 DEF Becomes, Alike, RunState
    <3>4. owed' = "review" /\ mem.stage \in {"Verify", "Archive", "FinalCommit"}
      BY <1>3, <2>1, <2>4 DEF Reopens, Alike
    <3>5. QED
      BY <2>1, <3>3, <3>4 DEF Effect, Directs
  <2>5. CASE Recovered(disk) = disk /\ ~Reopens(disk)
    <3>1. Directed(disk) = [disk EXCEPT !.direction = TRUE]
      BY <2>5 DEF Directed
    <3>2. Reconciled(Directed(disk)) = Directed(disk)
      BY <1>2, <2>5, <3>1 DEF Reconciled, Reopens, RunState
    <3>3. Becomes(directed)
      <4>1. Becomes([disk EXCEPT !.direction = TRUE])
        BY <2>1, <2>5, <3>1, <3>2
      <4>2. QED
        BY <1>2, <1>3, <4>1 DEF Becomes, Alike, RunState
    <3>4. owed' = owed /\ mem.stage \notin {"Verify", "Archive", "FinalCommit"}
      BY <1>3, <2>1, <2>5 DEF Reopens, Alike
    <3>5. mem.stage = "Complete" => run.gate \/ MoreIterations
      BY <1>3, <2>2 DEF Alike
    <3>6. QED
      BY <2>1, <3>3, <3>4, <3>5 DEF Effect, Directs
  <2>6. QED
    BY <2>3, <2>4, <2>5
<1>35. CASE UNCHANGED vars
  BY <1>4, <1>35 DEF vars, Effect, Stays
<1>36. QED
  BY <1>5, <1>6, <1>7, <1>8, <1>9, <1>10, <1>11, <1>12, <1>13, <1>14, <1>15,
     <1>16, <1>17, <1>18, <1>19, <1>20, <1>21, <1>22, <1>23, <1>24, <1>25,
     <1>26, <1>27, <1>28, <1>29, <1>30, <1>31, <1>32, <1>33, <1>34, <1>35,
     NextCases
-----------------------------------------------------------------------------
(* What is archived, committed and complete was reviewed.                   *)

(* A change that has a review, a repair or the gate before it has a name.   *)
Named ==
  \/ mem.named
  \/ /\ run.kind = "change"
     /\ \/ mem.stage \in {"Explore", "Propose", "Done"}
        \/ mem.stage = "Acceptance" /\ mem.gateNext = "Done"

(* The gate is entered with commands only, from the stages it guards.       *)
Gated ==
  /\ Bootstrap => mem.gateNext = "Archive"
  /\ mem.stage = "Acceptance" =>
       /\ run.gate /\ ~Bootstrap
       /\ mem.gateNext \in {"Archive", "FinalCommit", "Complete", "Done"}

(* run_repair takes a repair for a late one only after a late failure.      *)
LateKnown == LateRepair(mem) => late

(* After a late failure the checks are owed until the gate passes: no other *)
(* step leads on, because that repair goes back to the gate, or no more are *)
(* granted.                                                                 *)
Rechecked ==
  owed = "checks" =>
    \/ mem.stage = "Acceptance"
    \/ mem.stage = "Repair" /\ (LateRepair(mem) \/ mem.failures > MaxRetries)

(* The review is not owed at the stages behind it, nor at the gate if that   *)
(* leads there.                                                             *)
ReviewedStages ==
  run.kind # "assignment" =>
    /\ mem.stage = "Archive" => owed = "none"
    /\ mem.stage \in {"FinalCommit", "Complete"} => late \/ owed = "none"
    /\ mem.stage = "Acceptance" =>
         /\ mem.gateNext = "Archive" => owed = "none"
         /\ mem.gateNext \in {"FinalCommit", "Complete"} => late \/ owed # "review"

ReviewInv == Named /\ Gated /\ LateKnown /\ Rechecked /\ ReviewedStages

(* Only a resume changes `run`, and only whether proposals are committed.    *)
LEMMA RunKept == TypeOK /\ [Next]_vars => run'.kind = run.kind /\ run'.gate = run.gate
<1> SUFFICES ASSUME TypeOK, [Next]_vars PROVE run'.kind = run.kind /\ run'.gate = run.gate
  OBVIOUS
<1>1. CASE Resume
  BY <1>1 DEF Resume, TypeOK
<1>2. CASE ~Resume
  BY <1>2, NextCases DEF vars, SkipProposalCommit, Escalate, EnterAcceptance, Report,
     NextChange,
     StartSession, RequestLimit, VerifyUnsound, RepairRefused, AcceptancePasses,
     AcceptanceFails, AcceptanceErrs, VerifiedTooEarly, VerifiedUnsound, Verified,
     VerifyRetry, VerifyIncomplete, TooLargeReported, ExploreReady, ProposeReady,
     ProposeUnmet, ProposeDone, ProposalCommitReady, ApplyReady, VerifyAnswered,
     RepairReady, LateRepairReady, AssignmentReady, ArchiveReady, ArchiveOmitted,
     FinalCommitReady, RequestTimeout, AgentEdits, AgentPlans, AgentMovesChange,
     Interrupt, MaintainerEdits, ResumeWithDirection
<1>3. QED
  BY <1>1, <1>2

(* No step gets past the review.                                            *)
LEMMA ReviewStep == Controlled /\ ReviewInv /\ [Next]_vars => ReviewInv'
<1> SUFFICES ASSUME Controlled, ReviewInv, [Next]_vars PROVE ReviewInv'
  OBVIOUS
<1> USE DEF ReviewInv, Named, Gated, LateKnown, Rechecked, ReviewedStages, Becomes, Alike,
           SameDelivery, RunState, Direct, Bootstrap, TerminalGate, LateRepair
<1>1. mem \in RunState /\ mem' \in RunState /\ Effect
  BY StepEffects, NextControlled DEF Controlled, TypeOK
<1>2. run'.kind = run.kind /\ run'.gate = run.gate
  BY RunKept DEF Controlled
<1>3. owed \in {"none", "checks", "review"} /\ MaxRetries \in Nat
  BY BoundsAssumption DEF Controlled, TypeOK
<1>4. CASE Stays
  BY <1>1, <1>2, <1>3, <1>4 DEF Stays
<1>5. CASE Begins
  BY <1>1, <1>2, <1>3, <1>5 DEF Begins
<1>6. CASE Proceeds
  BY <1>1, <1>2, <1>3, <1>6 DEF Proceeds
<1>7. CASE Proposes
  BY <1>1, <1>2, <1>3, <1>7 DEF Proposes
<1>8. CASE Applies
  BY <1>1, <1>2, <1>3, <1>8 DEF Applies
<1>9. CASE Repairs
  BY <1>1, <1>2, <1>3, <1>9 DEF Repairs, Granted
<1>10. CASE RepairsLate
  BY <1>1, <1>2, <1>3, <1>10 DEF RepairsLate
<1>11. CASE Assigns
  BY <1>1, <1>2, <1>3, <1>11 DEF Assigns, Granted
<1>12. CASE FailsCheck
  BY <1>1, <1>2, <1>3, <1>12 DEF FailsCheck, Structural
<1>13. CASE Retries
  BY <1>1, <1>2, <1>3, <1>13 DEF Retries
<1>14. CASE Refuses
  BY <1>1, <1>2, <1>3, <1>14 DEF Refuses
<1>15. CASE Accepts
  BY <1>1, <1>2, <1>3, <1>15 DEF Accepts
<1>16. CASE Archives
  BY <1>1, <1>2, <1>3, <1>16 DEF Archives
<1>17. CASE EntersGate
  BY <1>1, <1>2, <1>3, <1>17 DEF EntersGate
<1>18. CASE PassesGate
  BY <1>1, <1>2, <1>3, <1>18 DEF PassesGate
<1>19. CASE FailsGate
  BY <1>1, <1>2, <1>3, <1>19 DEF FailsGate
<1>20. CASE GoesOn
  BY <1>1, <1>2, <1>3, <1>20 DEF GoesOn
<1>21. CASE Moves
  BY <1>1, <1>2, <1>3, <1>21 DEF Moves
<1>22. CASE Recovers
  BY <1>1, <1>2, <1>3, <1>22 DEF Recovers
<1>23. CASE Directs
  <2>1. CASE mem.stage \in {"Verify", "Archive", "FinalCommit"}
    <3>1. mem'.stage = "Repair"
      BY ONLY <1>1, <1>23, <2>1 DEF Directs, Becomes, Alike, RunState
    <3>2. QED
      BY <1>1, <1>2, <1>3, <1>23, <2>1, <3>1 DEF Directs
  <2>2. CASE mem.stage \notin {"Verify", "Archive", "FinalCommit"}
    <3>1. /\ mem'.stage = mem.stage /\ mem'.named = mem.named /\ mem'.pending = mem.pending
          /\ mem'.gateNext = mem.gateNext /\ mem'.failures = mem.failures
          /\ owed' = owed /\ late' = late /\ mem'.retries = mem.retries
      BY ONLY <1>1, <1>23, <2>2 DEF Directs, Becomes, Alike, RunState
    <3>2. QED
      BY <1>2, <3>1
  <2>3. QED
    BY ONLY <2>1, <2>2
<1>24. QED
  BY <1>1, <1>4, <1>5, <1>6, <1>7, <1>8, <1>9, <1>10, <1>11, <1>12, <1>13,
     <1>14, <1>15, <1>16, <1>17, <1>18, <1>19, <1>20, <1>21, <1>22, <1>23
     DEF Effect

(* Where a run starts.                                                      *)
LEMMA InitState ==
  ASSUME Init
  PROVE  /\ mem.retries = 0 /\ mem.pending = "none" /\ mem.direction = FALSE
         /\ mem.evidence = NoProduct
         /\ mem.named \/ run.kind = "change"
         /\ owed \in {"none", "review"}
         /\ \/ /\ run.kind # "direct" /\ owed = "review" /\ mem.gateNext = "Archive"
               /\ mem.stage = IF run.kind = "change" THEN "Explore" ELSE "Propose"
            \/ /\ run.kind = "direct" /\ owed = "none"
               /\ \/ ~run.gate /\ mem.stage = "FinalCommit"
                  \/ run.gate /\ mem.stage = "Acceptance" /\ mem.gateNext = "FinalCommit"
            \/ run.kind = "direct" /\ owed = "review" /\ mem.stage = "Verify"
<1>1. PICK named \in Prescribed, verifiedAt \in {NoProduct, product} :
        /\ run.kind # "direct" => verifiedAt = NoProduct
        /\ mem = LET m == [Fresh(run.kind, named) EXCEPT !.verifiedAt = verifiedAt]
                 IN  IF run.kind = "direct" THEN Prepared(m) ELSE m
        /\ owed = IF verifiedAt = product THEN "none" ELSE "review"
  BY DEF Init
<1> DEFINE fresh == [Fresh(run.kind, named) EXCEPT !.verifiedAt = verifiedAt]
<1>2. /\ fresh.stage = IF run.kind = "change" THEN "Explore" ELSE "Propose"
      /\ fresh.named \/ run.kind = "change"
      /\ fresh.gateNext = "Archive" /\ fresh.verifiedAt = verifiedAt
      /\ fresh.direction = FALSE /\ fresh.retries = 0 /\ fresh.pending = "none"
      /\ fresh.evidence = NoProduct
  BY DEF Fresh
<1>3. fresh \in RunState
  <2>1. run.kind \in Kind
    BY KindsAssumption DEF Init
  <2>2. Fresh(run.kind, named) \in RunState /\ verifiedAt \in Int
    BY <2>1, FreshState, FlagsAssumption DEF Init, NoProduct
  <2>3. QED
    BY <2>2 DEF RunState
<1>4. CASE run.kind # "direct"
  <2>1. mem = fresh
    BY <1>1, <1>4
  <2>2. owed = "review"
    BY <1>1, <1>4 DEF Init, NoProduct
  <2> HIDE DEF fresh
  <2>3. QED
    BY <1>2, <1>4, <2>1, <2>2
<1>5. CASE run.kind = "direct"
  <2>1. Direct /\ ~Bootstrap
    BY <1>5 DEF Direct, Bootstrap
  <2>2. mem = Prepared(fresh)
    BY <1>1, <1>5
  <2> HIDE DEF fresh
  <2>3. CASE verifiedAt = product
    <3>1. \/ run.gate /\ mem = [fresh EXCEPT !.gateNext = "FinalCommit", !.stage = "Acceptance"]
          \/ ~run.gate /\ mem = [fresh EXCEPT !.stage = "FinalCommit"]
      BY <1>2, <2>1, <2>2, <2>3 DEF Prepared, Accepted
    <3>2. QED
      BY <1>1, <1>2, <1>3, <1>5, <2>3, <3>1 DEF RunState
  <2>4. CASE verifiedAt # product
    <3>1. mem = [fresh EXCEPT !.stage = "Verify"]
      BY <1>2, <2>2, <2>4 DEF Prepared
    <3>2. owed = "review"
      BY <1>1, <2>4
    <3>3. QED
      BY <1>2, <1>3, <1>5, <3>1, <3>2 DEF RunState
  <2>5. QED
    BY <2>3, <2>4
<1>6. QED
  BY <1>4, <1>5

(* A run starts with the review owed, or had already                        *)
(* (prepare_direct_acceptance).                                             *)
LEMMA InitReview == Init => ReviewInv
BY InitState DEF ReviewInv, Named, Gated, LateKnown, Rechecked, ReviewedStages,
   LateRepair,
   Bootstrap, Direct

(* What is archived, committed and complete was independently verified       *)
(* after the last Apply or Repair that could change it, through every        *)
(* interruption, refusal, retry and direction; late acceptance failures      *)
(* waive the review and never the checks (run_verify, run_acceptance).       *)
THEOREM DeliveryReviewed == Spec => []ReviewedDelivery
<1>1. Init => Controlled /\ ReviewInv
  BY InitControlled, InitReview
<1>2. Controlled /\ ReviewInv /\ [Next]_vars => (Controlled /\ ReviewInv)'
  BY NextControlled, ReviewStep
<1>3. Controlled /\ ReviewInv => ReviewedDelivery
  BY DEF Controlled, SavedAlike, Alike, ReviewInv, Rechecked, ReviewedStages,
     ReviewedDelivery,
     LateRepair
<1>4. QED
  BY <1>1, <1>2, <1>3, PTL DEF Spec

(* Every reachable state of the engine, in memory and on disk, has its type;  *)
(* in particular no stage is asked for more often than the policy allows.     *)
THEOREM EngineTypes == Spec => []TypeOK
<1>1. Controlled => TypeOK
  BY DEF Controlled
<1>2. QED
  BY <1>1, InitControlled, NextControlled, PTL DEF Spec
-----------------------------------------------------------------------------
(* What is committed and complete was archived.                              *)

(* A change that is not there yet, or not at all, is before Apply or Done;    *)
(* if the checks of such a Done failed late, its repair is committed without. *)
Planned ==
  ~Direct /\ dir = "none" =>
    \/ mem.stage \in {"Explore", "Propose", "Done"}
    \/ mem.stage = "Acceptance" /\ mem.gateNext = "Done"
    \/ late /\ \/ /\ LateRepair(mem)
                  /\ mem.stage \in {"Repair", "Acceptance", "FinalCommit", "Complete"}
               \/ mem.stage \in {"Acceptance", "Complete"} /\ mem.gateNext = "Complete"
               \/ mem.stage = "Repair" /\ mem.failures > MaxRetries

(* Late failures apart, the stages behind Archive, and the gate if it leads   *)
(* there, have an archived change.                                            *)
ArchivedStages ==
  ~Direct /\ ~late =>
    /\ mem.stage \in {"FinalCommit", "Complete"} => dir = "archived"
    /\ mem.stage = "Acceptance" /\ mem.gateNext \in {"FinalCommit", "Complete"}
         => dir = "archived"

ArchiveInv == Planned /\ ArchivedStages

(* No step gets past the archive.                                           *)
LEMMA ArchiveStep ==
  HonestArchive /\ Controlled /\ ReviewInv /\ ArchiveInv /\ [Next]_vars => ArchiveInv'
<1> SUFFICES ASSUME HonestArchive, Controlled, ReviewInv, ArchiveInv, [Next]_vars
             PROVE  ArchiveInv'
  OBVIOUS
<1> USE DEF ArchiveInv, Planned, ArchivedStages, Named, Gated, LateKnown, Becomes, Alike,
           SameDelivery, RunState, Direct, Bootstrap, LateRepair
<1>1. mem \in RunState /\ mem' \in RunState /\ Effect
  BY StepEffects, NextControlled DEF Controlled, TypeOK
<1>2. run'.kind = run.kind /\ run'.gate = run.gate
  BY RunKept DEF Controlled
<1>3. Named /\ Gated /\ LateKnown /\ MaxRetries \in Nat /\ HonestArchive
  BY BoundsAssumption DEF ReviewInv
<1>4. dir \in {"none", "active", "archived"}
  BY DEF Controlled, TypeOK
<1>5. CASE Stays
  BY <1>1, <1>2, <1>3, <1>4, <1>5 DEF Stays
<1>6. CASE Begins
  BY <1>1, <1>2, <1>3, <1>4, <1>6 DEF Begins
<1>7. CASE Proceeds
  BY <1>1, <1>2, <1>3, <1>4, <1>7 DEF Proceeds
<1>8. CASE Proposes
  BY <1>1, <1>2, <1>3, <1>4, <1>8 DEF Proposes
<1>9. CASE Applies
  BY <1>1, <1>2, <1>3, <1>4, <1>9 DEF Applies
<1>10. CASE Repairs
  BY <1>1, <1>2, <1>3, <1>4, <1>10 DEF Repairs, Granted
<1>11. CASE RepairsLate
  BY <1>1, <1>2, <1>3, <1>4, <1>11 DEF RepairsLate
<1>12. CASE Assigns
  BY <1>1, <1>2, <1>3, <1>4, <1>12 DEF Assigns, Granted
<1>13. CASE FailsCheck
  BY <1>1, <1>2, <1>3, <1>4, <1>13 DEF FailsCheck, Structural
<1>14. CASE Retries
  BY <1>1, <1>2, <1>3, <1>4, <1>14 DEF Retries
<1>15. CASE Refuses
  BY <1>1, <1>2, <1>3, <1>4, <1>15 DEF Refuses
<1>16. CASE Accepts
  BY <1>1, <1>2, <1>3, <1>4, <1>16 DEF Accepts
<1>17. CASE Archives
  BY <1>1, <1>2, <1>3, <1>4, <1>17 DEF Archives
<1>18. CASE EntersGate
  BY <1>1, <1>2, <1>3, <1>4, <1>18 DEF EntersGate
<1>19. CASE PassesGate
  BY <1>1, <1>2, <1>3, <1>4, <1>19 DEF PassesGate
<1>20. CASE FailsGate
  BY <1>1, <1>2, <1>3, <1>4, <1>20 DEF FailsGate
<1>21. CASE GoesOn
  BY <1>1, <1>2, <1>3, <1>4, <1>21 DEF GoesOn
<1>22. CASE Moves
  BY <1>1, <1>2, <1>3, <1>4, <1>22 DEF Moves
<1>23. CASE Recovers
  BY <1>1, <1>2, <1>3, <1>4, <1>23 DEF Recovers
<1>24. CASE Directs
  <2>1. CASE mem.stage \in {"Verify", "Archive", "FinalCommit"}
    <3>1. mem'.stage = "Repair"
      BY ONLY <1>1, <1>24, <2>1 DEF Directs, Becomes, Alike, RunState
    <3>2. QED
      BY <1>1, <1>2, <1>3, <1>4, <1>24, <2>1, <3>1 DEF Directs
  <2>2. CASE mem.stage \notin {"Verify", "Archive", "FinalCommit"}
    <3>1. /\ mem'.stage = mem.stage /\ mem'.gateNext = mem.gateNext
          /\ mem'.named = mem.named /\ mem'.pending = mem.pending
          /\ mem'.failures = mem.failures /\ mem'.retries = mem.retries
          /\ dir' = dir /\ late' = late /\ owed' = owed
      BY ONLY <1>1, <1>24, <2>2 DEF Directs, Becomes, Alike, RunState
    <3>2. QED
      BY <1>2, <1>3, <1>4, <3>1
  <2>3. QED
    BY ONLY <2>1, <2>2
<1>25. QED
  BY <1>1, <1>5, <1>6, <1>7, <1>8, <1>9, <1>10, <1>11, <1>12, <1>13, <1>14,
     <1>15, <1>16, <1>17, <1>18, <1>19, <1>20, <1>21, <1>22, <1>23, <1>24
     DEF Effect

(* If its agents say truly that they archived, the completion commit and the  *)
(* end of a change with an OpenSpec change of its own come after that change  *)
(* moved to the archive, a late acceptance failure apart: no retry, direction  *)
(* or resume gets past run_archive.                                           *)
THEOREM CommitsArchived ==
  ASSUME HonestArchive
  PROVE  Spec => []ArchivedBeforeCommit
<1>1. Init => Controlled /\ ReviewInv /\ ArchiveInv
  <2>1. Init => ArchiveInv
    BY InitState DEF Init, ArchiveInv, Planned, ArchivedStages, Direct
  <2>2. QED
    BY <2>1, InitControlled, InitReview
<1>2. Controlled /\ ReviewInv /\ ArchiveInv /\ [Next]_vars
        => (Controlled /\ ReviewInv /\ ArchiveInv)'
  BY HonestArchive, NextControlled, ReviewStep, ArchiveStep
<1>3. Controlled /\ ArchiveInv => ArchivedBeforeCommit
  BY DEF Controlled, SavedAlike, Alike, ArchiveInv, ArchivedStages, ArchivedBeforeCommit
<1>4. QED
  BY <1>1, <1>2, <1>3, PTL DEF Spec
-----------------------------------------------------------------------------
(* Directions and the gate.                                                  *)

(* A direction is only pending before a session that can hear it, or when a   *)
(* further change of the campaign will.                                       *)
Pending ==
  ~run.gate /\ run.kind # "assignment" /\ mem.direction =>
    \/ mem.stage \in {"Explore", "Propose", "ProposalCommit", "Apply", "Repair", "Done"}
    \/ MoreIterations

(* A direction that is not heard yet has a code-changing session to come.   *)
LEMMA DirectionStep == Controlled /\ ReviewInv /\ Pending /\ [Next]_vars => Pending'
<1> SUFFICES ASSUME Controlled, ReviewInv, Pending, [Next]_vars PROVE Pending'
  OBVIOUS
<1> USE DEF Pending, Gated, Becomes, Alike, SameDelivery, RunState, Direct, Bootstrap,
           MoreIterations, LateRepair
<1>1. mem \in RunState /\ mem' \in RunState /\ Effect
  BY StepEffects, NextControlled DEF Controlled, TypeOK
<1>2. run'.kind = run.kind /\ run'.gate = run.gate
  BY RunKept DEF Controlled
<1>3. Gated
  BY DEF ReviewInv
<1>4. CASE Stays
  BY <1>1, <1>2, <1>3, <1>4 DEF Stays
<1>5. CASE Begins
  BY <1>1, <1>2, <1>3, <1>5 DEF Begins
<1>6. CASE Proceeds
  BY <1>1, <1>2, <1>3, <1>6 DEF Proceeds
<1>7. CASE Proposes
  BY <1>1, <1>2, <1>3, <1>7 DEF Proposes
<1>8. CASE Applies
  BY <1>1, <1>2, <1>3, <1>8 DEF Applies
<1>9. CASE Repairs
  BY <1>1, <1>2, <1>3, <1>9 DEF Repairs
<1>10. CASE RepairsLate
  BY <1>1, <1>2, <1>3, <1>10 DEF RepairsLate
<1>11. CASE Assigns
  BY <1>1, <1>2, <1>3, <1>11 DEF Assigns
<1>12. CASE FailsCheck
  BY <1>1, <1>2, <1>3, <1>12 DEF FailsCheck, Structural
<1>13. CASE Retries
  BY <1>1, <1>2, <1>3, <1>13 DEF Retries
<1>14. CASE Refuses
  BY <1>1, <1>2, <1>3, <1>14 DEF Refuses
<1>15. CASE Accepts
  BY <1>1, <1>2, <1>3, <1>15 DEF Accepts
<1>16. CASE Archives
  BY <1>1, <1>2, <1>3, <1>16 DEF Archives
<1>17. CASE EntersGate
  BY <1>1, <1>2, <1>3, <1>17 DEF EntersGate
<1>18. CASE PassesGate
  BY <1>1, <1>2, <1>3, <1>18 DEF PassesGate
<1>19. CASE FailsGate
  BY <1>1, <1>2, <1>3, <1>19 DEF FailsGate
<1>20. CASE GoesOn
  BY <1>1, <1>2, <1>3, <1>20 DEF GoesOn
<1>21. CASE Moves
  BY <1>1, <1>2, <1>3, <1>21 DEF Moves
<1>22. CASE Recovers
  BY <1>1, <1>2, <1>3, <1>22 DEF Recovers
<1>23. CASE Directs
  BY <1>1, <1>2, <1>3, <1>23 DEF Directs, Stage
<1>24. QED
  BY <1>1, <1>4, <1>5, <1>6, <1>7, <1>8, <1>9, <1>10, <1>11, <1>12, <1>13,
     <1>14, <1>15, <1>16, <1>17, <1>18, <1>19, <1>20, <1>21, <1>22, <1>23
     DEF Effect

(* What is reported complete has had its direction delivered to a             *)
(* code-changing session that succeeded (queue_direction,                     *)
(* consume_direction), whatever stage the direction was given at.             *)
THEOREM DirectionDelivered == Spec => []DirectionHeard
<1>1. Init => Controlled /\ ReviewInv /\ Pending
  BY InitControlled, InitReview, InitState DEF Pending
<1>2. Controlled /\ ReviewInv /\ Pending /\ [Next]_vars
        => (Controlled /\ ReviewInv /\ Pending)'
  BY NextControlled, ReviewStep, DirectionStep
<1>3. Controlled /\ Pending => DirectionHeard
  BY DEF Controlled, NothingLeft, Pending, DirectionHeard
<1>4. QED
  BY <1>1, <1>2, <1>3, PTL DEF Spec

(* Only Report reports, and nothing happens after it.                       *)
LEMMA OnlyReports == Next => pc # "reported" /\ (pc' = "reported" => Report)
<1>1. ASSUME NEW m, Goto(m) \/ StopAt(m)
      PROVE  pc' # "reported"
  BY <1>1 DEF Goto, StopAt
<1>2. ASSUME NEW m, FailStructure(m)
      PROVE  pc' # "reported"
  BY <1>2 DEF FailStructure, Goto, StopAt
<1>3. SkipProposalCommit \/ EnterAcceptance \/ NextChange \/ RequestLimit \/ RepairRefused
      \/ AcceptancePasses \/ AcceptanceFails \/ AcceptanceErrs \/ VerifiedTooEarly
      \/ Verified \/ VerifyRetry \/ VerifyIncomplete \/ TooLargeReported \/ ExploreReady
      \/ ProposeReady \/ ProposeDone \/ ProposalCommitReady \/ ApplyReady
        => pc' # "reported"
  BY <1>1 DEF SkipProposalCommit, EnterAcceptance, NextChange, RequestLimit,
     RepairRefused,
     AcceptancePasses, AcceptanceFails, AcceptanceErrs, VerifiedTooEarly, Verified,
     VerifyRetry, VerifyIncomplete, TooLargeReported, ExploreReady, ProposeReady,
     ProposeDone, ProposalCommitReady, ApplyReady
<1>4. RepairReady \/ LateRepairReady \/ ArchiveReady \/ FinalCommitReady \/ RequestTimeout
      \/ Interrupt \/ Resume \/ ResumeWithDirection
        => pc' # "reported"
  BY <1>1 DEF RepairReady, LateRepairReady, ArchiveReady, FinalCommitReady,
     RequestTimeout,
     Interrupt, Resume, ResumeWithDirection
<1>5. VerifyUnsound \/ VerifiedUnsound \/ AssignmentReady => pc' # "reported"
  BY <1>1, <1>2 DEF VerifyUnsound, VerifiedUnsound, AssignmentReady
<1>6. ProposeUnmet \/ ArchiveOmitted => pc' # "reported"
  BY <1>1 DEF ProposeUnmet, ArchiveOmitted, AskAgain, In
<1>7. Escalate \/ StartSession \/ VerifyAnswered \/ AgentEdits \/ AgentPlans
      \/ AgentMovesChange \/ MaintainerEdits
        => pc' # "reported"
  BY DEF Escalate, StartSession, VerifyAnswered, AgentEdits, AgentPlans,
     AgentMovesChange,
     MaintainerEdits, In
<1>8. Next => pc # "reported"
  BY NextCases DEF At, In, Admitted, Resumable, SkipProposalCommit, Escalate,
     EnterAcceptance, Report, NextChange, StartSession, RequestLimit, VerifyUnsound,
     RepairRefused, AcceptancePasses, AcceptanceFails, AcceptanceErrs, VerifiedTooEarly,
     VerifiedUnsound, Verified, VerifyRetry, VerifyIncomplete, TooLargeReported,
     ExploreReady, ProposeReady, ProposeUnmet, ProposeDone, ProposalCommitReady,
     ApplyReady, VerifyAnswered, RepairReady, LateRepairReady, AssignmentReady,
     ArchiveReady, ArchiveOmitted, FinalCommitReady, RequestTimeout, AgentEdits,
     AgentPlans, AgentMovesChange, Interrupt, MaintainerEdits, Resume, ResumeWithDirection
<1>9. QED
  BY <1>3, <1>4, <1>5, <1>6, <1>7, <1>8, NextCases
-----------------------------------------------------------------------------
(* The promised delivery.                                                   *)

(* The evidence of the process is persisted, and of a product there was.    *)
Evident == disk.evidence = mem.evidence /\ mem.evidence <= product

(* A proposal that is declined left no change and no work behind.           *)
Declined ==
  mem.stage = "Done" \/ (mem.stage = "Acceptance" /\ mem.gateNext = "Done")
    => run.kind = "change" /\ dir = "none" /\ owed = "review"

(* A run without an OpenSpec change archives none.                          *)
Unarchived ==
  Direct => /\ mem.stage # "Archive"
            /\ mem.stage = "Acceptance" => mem.gateNext # "Archive"

(* Work in progress has its review before it, or after a late failure its    *)
(* checks.                                                                  *)
WorkOwes ==
  /\ mem.stage \in {"Explore", "Propose", "ProposalCommit", "Apply", "Verify"}
       => owed = "review"
  /\ mem.stage = "Repair" => owed = "review" \/ (late /\ owed = "checks")

PromiseInv == Declined /\ Unarchived /\ WorkOwes

(* A run starts with its review before it, or behind it.                    *)
LEMMA InitPromise == Init => Evident /\ PromiseInv
<1> SUFFICES ASSUME Init PROVE Evident /\ PromiseInv
  OBVIOUS
<1>1. disk = mem /\ product = 0 /\ mem.evidence = NoProduct
  BY InitState DEF Init
<1>2. Evident
  BY <1>1 DEF Evident, NoProduct
<1>3. PromiseInv
  BY InitState DEF Init, PromiseInv, Declined, Unarchived, WorkOwes, Direct
<1>4. QED
  BY <1>2, <1>3

(* Nothing leads to the archive, the gate or a review but what may.         *)
LEMMA PromiseStep ==
  Controlled /\ ReviewInv /\ PromiseInv /\ [Next]_vars => PromiseInv'
<1> SUFFICES ASSUME Controlled, ReviewInv, PromiseInv, [Next]_vars
             PROVE  PromiseInv'
  OBVIOUS
<1> USE DEF PromiseInv, Declined, Unarchived, WorkOwes, Named, Gated, Rechecked, Becomes, Alike,
           SameDelivery, RunState, Direct, Bootstrap, LateRepair
<1>1. mem \in RunState /\ mem' \in RunState /\ Effect
  BY StepEffects, NextControlled DEF Controlled, TypeOK
<1>2. run'.kind = run.kind /\ run'.gate = run.gate
  BY RunKept DEF Controlled
<1>3. Named /\ Gated /\ Rechecked /\ MaxRetries \in Nat
  BY BoundsAssumption DEF ReviewInv
<1>4. owed \in {"none", "checks", "review"} /\ late \in BOOLEAN
  BY DEF Controlled, TypeOK
<1>5. CASE Stays
  BY <1>1, <1>2, <1>3, <1>4, <1>5 DEF Stays
<1>6. CASE Begins
  BY <1>1, <1>2, <1>3, <1>4, <1>6 DEF Begins
<1>7. CASE Proceeds
  BY <1>1, <1>2, <1>3, <1>4, <1>7 DEF Proceeds
<1>8. CASE Proposes
  BY <1>1, <1>2, <1>3, <1>4, <1>8 DEF Proposes
<1>9. CASE Applies
  BY <1>1, <1>2, <1>3, <1>4, <1>9 DEF Applies
<1>10. CASE Repairs
  BY <1>1, <1>2, <1>3, <1>4, <1>10 DEF Repairs, Granted
<1>11. CASE RepairsLate
  BY <1>1, <1>2, <1>3, <1>4, <1>11 DEF RepairsLate
<1>12. CASE Assigns
  BY <1>1, <1>2, <1>3, <1>4, <1>12 DEF Assigns, Granted
<1>13. CASE FailsCheck
  BY <1>1, <1>2, <1>3, <1>4, <1>13 DEF FailsCheck, Structural
<1>14. CASE Retries
  BY <1>1, <1>2, <1>3, <1>4, <1>14 DEF Retries
<1>15. CASE Refuses
  BY <1>1, <1>2, <1>3, <1>4, <1>15 DEF Refuses
<1>16. CASE Accepts
  BY <1>1, <1>2, <1>3, <1>4, <1>16 DEF Accepts
<1>17. CASE Archives
  BY <1>1, <1>2, <1>3, <1>4, <1>17 DEF Archives
<1>18. CASE EntersGate
  BY <1>1, <1>2, <1>3, <1>4, <1>18 DEF EntersGate
<1>19. CASE PassesGate
  BY <1>1, <1>2, <1>3, <1>4, <1>19 DEF PassesGate
<1>20. CASE FailsGate
  BY <1>1, <1>2, <1>3, <1>4, <1>20 DEF FailsGate
<1>21. CASE GoesOn
  BY <1>1, <1>2, <1>3, <1>4, <1>21 DEF GoesOn
<1>22. CASE Moves
  BY <1>1, <1>2, <1>3, <1>4, <1>22 DEF Moves
<1>23. CASE Recovers
  BY <1>1, <1>2, <1>3, <1>4, <1>23 DEF Recovers
<1>24. CASE Directs
  BY <1>1, <1>2, <1>3, <1>4, <1>24 DEF Directs
<1>25. QED
  BY <1>1, <1>5, <1>6, <1>7, <1>8, <1>9, <1>10, <1>11, <1>12, <1>13, <1>14, <1>15, <1>16, <1>17, <1>18, <1>19, <1>20, <1>21, <1>22, <1>23, <1>24 DEF Effect

(* Who saves a state with the evidence there was keeps the evidence.        *)
LEMMA SavedEvidence ==
  ASSUME NEW m, m.evidence = mem.evidence, Evident, Goto(m) \/ StopAt(m)
  PROVE  disk'.evidence = disk.evidence /\ mem'.evidence = mem.evidence
BY DEF Goto, StopAt, Save, Evident

(* The states the handlers save have the evidence of what they were made of. *)
LEMMA EvidenceOf ==
  ASSUME NEW m \in RunState
  PROVE  /\ Structural(m).evidence = m.evidence
         /\ [Structural(m) EXCEPT !.stage = "Verify"].evidence = m.evidence
         /\ Accepted(m).evidence = m.evidence
         /\ Reconciled(Recovered(m)).evidence = m.evidence
         /\ Reconciled(Directed(Recovered(m))).evidence = m.evidence
<1>1. Structural(m).evidence = m.evidence
  BY DEF Structural, RunState
<1>2. [Structural(m) EXCEPT !.stage = "Verify"].evidence = m.evidence
  BY <1>1 DEF Structural, RunState
<1>3. Accepted(m).evidence = m.evidence
  BY DEF Accepted, RunState
<1>4. ASSUME NEW n \in RunState
      PROVE  /\ Recovered(n) \in RunState /\ Directed(n) \in RunState
             /\ Recovered(n).evidence = n.evidence /\ Directed(n).evidence = n.evidence
             /\ Reconciled(n).evidence = n.evidence
  <2>1. Recovered(n) \in RunState /\ Recovered(n).evidence = n.evidence
    BY DEF Recovered, RunState, Stage
  <2>2. Directed(n) \in RunState /\ Directed(n).evidence = n.evidence
    BY DEF Directed, RunState, Stage
  <2>3. Reconciled(n).evidence = n.evidence
    BY DEF Reconciled, RunState
  <2>4. QED
    BY <2>1, <2>2, <2>3
<1>5. QED
  BY <1>1, <1>2, <1>3, <1>4

(* Nothing but the gate changes the evidence, nothing but agents, the       *)
(* maintainer and the gate's own checks the product.                        *)
Unproved ==
  /\ disk'.evidence = disk.evidence /\ mem'.evidence = mem.evidence
  /\ product' = product

LEMMA EvidenceKept ==
  Controlled /\ Evident /\ Next
    => \/ Unproved
       \/ AgentEdits \/ MaintainerEdits
       \/ AcceptancePasses \/ AcceptanceFails \/ AcceptanceErrs
<1> SUFFICES ASSUME Controlled, Evident, Next,
                    ~(AgentEdits \/ MaintainerEdits \/ AcceptancePasses \/ AcceptanceFails
                      \/ AcceptanceErrs)
             PROVE  Unproved
  OBVIOUS
<1> USE DEF world, history
<1>1. mem \in RunState /\ disk \in RunState /\ disk.evidence = mem.evidence
  BY DEF Controlled, TypeOK, Evident
<1>2. CASE RequestLimit \/ RequestTimeout \/ Interrupt \/ VerifiedTooEarly \/ VerifyIncomplete
  <2>1. Goto(mem) \/ StopAt(mem) \/ Goto(disk) \/ StopAt(disk)
    BY <1>2 DEF RequestLimit, RequestTimeout, Interrupt, VerifiedTooEarly, VerifyIncomplete
  <2>2. QED
    BY <1>1, <1>2, <2>1, SavedEvidence DEF Unproved, RequestLimit, RequestTimeout, Interrupt,
       VerifiedTooEarly, VerifyIncomplete
<1>3. CASE SkipProposalCommit \/ EnterAcceptance \/ VerifyRetry \/ TooLargeReported
           \/ ExploreReady \/ ProposeReady \/ ProposeDone \/ ProposalCommitReady
  <2>1. PICK m : m.evidence = mem.evidence /\ (Goto(m) \/ StopAt(m))
    BY <1>1, <1>3 DEF SkipProposalCommit, EnterAcceptance, VerifyRetry, TooLargeReported,
       ExploreReady, ProposeReady, ProposeDone, ProposalCommitReady, RunState
  <2>2. QED
    BY <1>3, <2>1, SavedEvidence DEF Unproved, SkipProposalCommit, EnterAcceptance,
       VerifyRetry, TooLargeReported, ExploreReady, ProposeReady, ProposeDone,
       ProposalCommitReady
<1>4. CASE ApplyReady \/ RepairReady \/ LateRepairReady \/ ArchiveReady \/ FinalCommitReady
           \/ RepairRefused
  <2>1. PICK m : m.evidence = mem.evidence /\ (Goto(m) \/ StopAt(m))
    BY <1>1, <1>4 DEF ApplyReady, RepairReady, LateRepairReady, ArchiveReady,
       FinalCommitReady, RepairRefused, RunState
  <2>2. QED
    BY <1>4, <2>1, SavedEvidence DEF Unproved, ApplyReady, RepairReady, LateRepairReady,
       ArchiveReady, FinalCommitReady, RepairRefused
<1>5. CASE NextChange
  <2>1. PICK m : m.evidence = mem.evidence /\ Goto(m)
    BY <1>5 DEF NextChange, Fresh
  <2>2. QED
    BY <1>5, <2>1, SavedEvidence DEF Unproved, NextChange
<1>6. CASE Verified
  <2> DEFINE seen == [mem EXCEPT !.verifiedAt = product, !.pending = "none"]
  <2>1. seen \in RunState /\ seen.evidence = mem.evidence
    <3>1. product \in Int
      BY BoundsAssumption DEF Controlled, TypeOK
    <3>2. QED
      BY <1>1, <3>1 DEF RunState
  <2>2. Accepted(seen).evidence = mem.evidence
    <3> HIDE DEF seen
    <3>1. QED
      BY <2>1, EvidenceOf
  <2>3. Goto(Accepted(seen)) /\ product' = product
    BY <1>6 DEF Verified
  <2>4. QED
    BY <2>2, <2>3, SavedEvidence DEF Unproved
<1>7. ASSUME NEW m \in RunState, m.evidence = mem.evidence, FailStructure(m),
             product' = product
      PROVE  Unproved
  BY <1>7, SavedEvidence, EvidenceOf DEF FailStructure, Unproved
<1>8. CASE VerifyUnsound
  <2> DEFINE m == [mem EXCEPT !.verifiedAt = NoProduct]
  <2>1. m \in RunState /\ m.evidence = mem.evidence
    BY <1>1 DEF RunState, NoProduct
  <2>2. FailStructure(m) /\ product' = product
    BY <1>8 DEF VerifyUnsound
  <2>3. QED
    BY <1>7, <2>1, <2>2
<1>9. CASE VerifiedUnsound
  BY <1>1, <1>7, <1>9 DEF VerifiedUnsound
<1>10. CASE AssignmentReady
  <2>1. product' = product
    BY <1>10 DEF AssignmentReady
  <2>2. CASE FailStructure(mem)
    BY <1>1, <1>7, <2>1, <2>2
  <2>3. CASE ~FailStructure(mem)
    <3>1. PICK s : Goto([mem EXCEPT !.pending = "none", !.direction = FALSE, !.stage = s])
      BY <1>10, <2>3 DEF AssignmentReady
    <3>2. [mem EXCEPT !.pending = "none", !.direction = FALSE, !.stage = s].evidence
            = mem.evidence
      BY <1>1 DEF RunState
    <3>3. QED
      BY <2>1, <3>1, <3>2, SavedEvidence DEF Unproved
  <2>4. QED
    BY <2>2, <2>3
<1>11. CASE Resume
  <2>1. Goto(Reconciled(Recovered(disk))) /\ product' = product
    BY <1>11 DEF Resume
  <2>2. Reconciled(Recovered(disk)).evidence = mem.evidence
    BY <1>1, EvidenceOf
  <2>3. QED
    BY <2>1, <2>2, SavedEvidence DEF Unproved
<1>12. CASE ResumeWithDirection
  <2>1. Goto(Reconciled(Directed(Recovered(disk)))) /\ product' = product
    BY <1>12 DEF ResumeWithDirection
  <2>2. Reconciled(Directed(Recovered(disk))).evidence = mem.evidence
    BY <1>1, EvidenceOf
  <2>3. QED
    BY <2>1, <2>2, SavedEvidence DEF Unproved
<1>13. CASE StartSession
  BY <1>1, <1>13 DEF StartSession, RunState, Unproved
<1>14. CASE VerifyAnswered
  BY <1>1, <1>14 DEF VerifyAnswered, Save, RunState, Unproved
<1>15. CASE ProposeUnmet \/ ArchiveOmitted
  <2>1. product' = product
    BY <1>15 DEF ProposeUnmet, ArchiveOmitted
  <2>2. CASE AskAgain
    BY <1>1, <2>1, <2>2, SavedEvidence DEF AskAgain, Unproved
  <2>3. CASE Goto([mem EXCEPT !.stage = AfterReady[mem.stage]])
    <3>1. [mem EXCEPT !.stage = AfterReady[mem.stage]].evidence = mem.evidence
      BY <1>1 DEF RunState
    <3>2. QED
      BY <2>1, <2>3, <3>1, SavedEvidence DEF Unproved
  <2>4. QED
    BY <1>15, <2>2, <2>3 DEF ProposeUnmet, ArchiveOmitted
<1>16. CASE Escalate \/ Report \/ AgentPlans \/ AgentMovesChange
  BY <1>1, <1>16 DEF Escalate, Report, AgentPlans, AgentMovesChange, Unproved
<1>17. QED
  BY <1>2, <1>3, <1>4, <1>5, <1>6, <1>8, <1>9, <1>10, <1>11, <1>12, <1>13, <1>14,
     <1>15, <1>16, NextCases

(* The evidence is never of a product that is yet to come.                  *)
LEMMA EvidenceStep == Controlled /\ Evident /\ [Next]_vars => Evident'
<1> SUFFICES ASSUME Controlled, Evident, [Next]_vars PROVE Evident'
  OBVIOUS
<1> USE DEF Evident, world, history
<1>1. /\ mem \in RunState /\ disk \in RunState /\ product \in Nat
      /\ product' \in Nat
  <2>1. TypeOK /\ TypeOK'
    BY NextControlled DEF Controlled
  <2>2. QED
    BY <2>1, BoundsAssumption DEF TypeOK
<1>2. mem.evidence \in Int /\ NoProduct = -1
  BY <1>1 DEF RunState, NoProduct
<1>3. CASE Unproved
  BY <1>3 DEF Unproved
<1>4. CASE AgentEdits \/ MaintainerEdits
  BY <1>1, <1>2, <1>4 DEF AgentEdits, MaintainerEdits
<1>5. CASE AcceptancePasses
  BY <1>1, <1>5 DEF AcceptancePasses, Goto, Save, RunState
<1>6. CASE AcceptanceFails
  <2>1. mem'.evidence = NoProduct
    BY <1>6, FailEffect DEF Controlled, FailsGate
  <2>2. disk' = mem'
    BY <1>6 DEF AcceptanceFails, StopAt, Goto, Save
  <2>3. QED
    BY <1>1, <1>2, <2>1, <2>2
<1>7. CASE AcceptanceErrs
  BY <1>1, <1>2, <1>7 DEF AcceptanceErrs, StopAt, Save, RunState
<1>8. CASE UNCHANGED vars
  BY <1>8 DEF vars
<1>9. QED
  BY <1>3, <1>4, <1>5, <1>6, <1>7, <1>8, EvidenceKept
(* Where the stages are on the way to the delivery.                         *)
LEMMA Phases ==
  /\ Phase("Explore") = "making" /\ Phase("Propose") = "making"
  /\ Phase("ProposalCommit") = "making" /\ Phase("Apply") = "making"
  /\ Phase("Repair") = "making" /\ Phase("Verify") = "review"
  /\ Phase("Acceptance") = "checks" /\ Phase("Archive") = "archive"
  /\ Phase("FinalCommit") = "commit" /\ Phase("Complete") = "complete"
  /\ Phase("Done") = "declined"
BY DEF Phase

(* Checks that pass lead on to where nothing else is owed.                  *)
LEMMA PassPromised ==
  Controlled /\ ReviewInv /\ ArchiveInv /\ PromiseInv /\ Evident /\ [Next]_vars /\ PassesGate
    => Delivery!PassChecks
<1> SUFFICES ASSUME Controlled, ReviewInv, ArchiveInv, PromiseInv, Evident, [Next]_vars,
                    PassesGate
             PROVE  Delivery!PassChecks
  OBVIOUS
<1>1. /\ mem.stage = "Acceptance" /\ mem'.stage = mem.gateNext
      /\ owed' = (IF owed = "checks" THEN "none" ELSE owed)
      /\ dir' = dir /\ late' = late
  BY DEF Controlled, TypeOK, PassesGate, Becomes, Alike, RunState
<1>2. (disk.evidence = product)' = TRUE
  BY EvidenceStep DEF PassesGate, Evident
<1>3. disk.stage = mem.stage /\ disk'.stage = mem'.stage
  BY NextControlled DEF Controlled, SavedAlike, Alike
<1>4. /\ Named /\ Gated /\ ReviewedStages /\ ArchivedStages /\ Declined /\ Unarchived
      /\ owed \in {"none", "checks", "review"}
  BY DEF ReviewInv, ArchiveInv, PromiseInv, Controlled, TypeOK
<1>5. /\ Phase(disk.stage) = "checks" /\ Phase(disk'.stage) = Phase(mem.gateNext)
      /\ mem.gateNext \in {"Archive", "FinalCommit", "Complete", "Done"}
      /\ run.kind # "assignment"
  BY <1>1, <1>3, <1>4, Phases DEF Gated, Bootstrap
<1>6. owed' # "checks"
  BY <1>1, <1>4
<1>7. CASE mem.gateNext = "Archive"
  <2>1. ~Direct /\ owed' = "none" /\ Phase(disk'.stage) = "archive"
    BY <1>1, <1>4, <1>5, <1>7, Phases DEF Unarchived, ReviewedStages
  <2>2. QED
    BY <1>1, <1>2, <1>5, <2>1 DEF Delivery!PassChecks
<1>8. CASE mem.gateNext \in {"FinalCommit", "Complete"}
  <2>1. Phase(disk'.stage) \in {"commit", "complete"}
    BY <1>5, <1>8, Phases
  <2>2. late \/ owed' = "none"
    BY <1>1, <1>4, <1>5, <1>8 DEF ReviewedStages
  <2>3. Direct \/ late \/ dir = "archived"
    BY <1>1, <1>4, <1>8 DEF ArchivedStages
  <2>4. QED
    BY <1>1, <1>2, <1>5, <1>6, <2>1, <2>2, <2>3
       DEF Delivery!PassChecks, Delivery!Committable
<1>9. CASE mem.gateNext = "Done"
  <2>1. Phase(disk'.stage) = "declined" /\ dir = "none"
    BY <1>1, <1>4, <1>5, <1>9, Phases DEF Declined
  <2>2. QED
    BY <1>1, <1>2, <1>5, <2>1 DEF Delivery!PassChecks
<1>10. QED
  BY <1>5, <1>7, <1>8, <1>9

(* Checks that fail waive the review only if no change is in progress.      *)
LEMMA FailPromised ==
  Controlled /\ ReviewInv /\ ArchiveInv /\ PromiseInv /\ Evident /\ [Next]_vars /\ FailsGate
    => Delivery!FailChecks
<1> SUFFICES ASSUME Controlled, ReviewInv, ArchiveInv, PromiseInv, Evident, [Next]_vars,
                    FailsGate
             PROVE  Delivery!FailChecks
  OBVIOUS
<1>1. mem \in RunState /\ product' \in Nat
  BY NextControlled, BoundsAssumption DEF Controlled, TypeOK
<1>2. /\ mem.stage = "Acceptance" /\ dir' = dir
      /\ mem'.stage = (IF mem.named THEN "Repair" ELSE "Acceptance")
      /\ mem'.evidence = NoProduct
      /\ owed' = (IF owed = "review" \/ Direct \/ mem.gateNext = "Archive"
                    THEN "review" ELSE "checks")
      /\ late' = (late \/ (~Direct /\ mem.named /\ mem.gateNext # "Archive"))
  BY <1>1 DEF FailsGate, Becomes, Alike, RunState
<1>3. disk.stage = mem.stage /\ disk'.stage = mem'.stage
  BY NextControlled DEF Controlled, SavedAlike, Alike
<1>4. (disk.evidence = product)' = FALSE
  <2>1. disk'.evidence = mem'.evidence
    BY EvidenceStep DEF Evident
  <2>2. QED
    BY <1>1, <1>2, <2>1 DEF NoProduct
<1>5. /\ Named /\ Gated /\ ArchivedStages /\ Declined /\ late \in BOOLEAN
      /\ dir \in {"none", "active", "archived"} /\ mem.named \in BOOLEAN
  BY <1>1 DEF ReviewInv, ArchiveInv, PromiseInv, Controlled, TypeOK, RunState
<1>6. Phase(disk.stage) = "checks"
  BY <1>2, <1>3, Phases
<1>7. ~mem.named => mem.gateNext = "Done" /\ dir = "none" /\ owed = "review"
  BY <1>2, <1>5 DEF Named, Declined
<1>8. Phase(disk'.stage) = "making" \/ (Phase(disk'.stage) = "checks" /\ dir = "none")
  BY <1>2, <1>3, <1>7, Phases
<1>9. late' => late \/ (~Direct /\ dir # "active")
  <2> SUFFICES ASSUME ~late, ~Direct, mem.named, mem.gateNext # "Archive"
               PROVE  dir # "active"
    BY <1>2
  <2>1. mem.gateNext \in {"FinalCommit", "Complete", "Done"}
    BY <1>2, <1>5 DEF Gated
  <2>2. QED
    BY <1>2, <1>5, <2>1 DEF ArchivedStages, Declined
<1>10. owed' \in {"review", "checks"} /\ (owed' = "checks" => late' /\ owed # "review")
  BY <1>2, <1>7
<1>11. late => late'
  BY <1>2
<1>12. QED
  BY <1>2, <1>4, <1>6, <1>8, <1>9, <1>10, <1>11 DEF Delivery!FailChecks

(* A step that touches neither the product nor its evidence, and does not    *)
(* report, takes one of the promised steps, or none.                         *)
Promised ==
  \/ UNCHANGED <<Phase(disk.stage), dir, owed, late, disk.evidence = product>>
  \/ Delivery!MoveChange \/ Delivery!Decline \/ Delivery!Submit \/ Delivery!Resubmit
  \/ Delivery!Approve \/ Delivery!Reopen \/ Delivery!AskChecks \/ Delivery!PassChecks
  \/ Delivery!FailChecks \/ Delivery!Archive \/ Delivery!Commit \/ Delivery!NextChange

LEMMA EffectsPromised ==
  HonestArchive /\ Controlled /\ ReviewInv /\ ArchiveInv /\ PromiseInv /\ Evident
    /\ [Next]_vars /\ Unproved
    => Promised
<1> SUFFICES ASSUME HonestArchive, Controlled, ReviewInv, ArchiveInv, PromiseInv, Evident,
                    [Next]_vars, Unproved
             PROVE  Promised
  OBVIOUS
<1> USE DEF Becomes, Alike, SameDelivery, RunState, Direct, Bootstrap, LateRepair
<1>1. mem \in RunState /\ mem' \in RunState /\ Effect
  BY StepEffects, NextControlled DEF Controlled, TypeOK
<1>2. run'.kind = run.kind /\ run'.gate = run.gate
  BY RunKept DEF Controlled
<1>3. /\ Named /\ Gated /\ LateKnown /\ Rechecked /\ ReviewedStages /\ Planned
      /\ ArchivedStages /\ Declined /\ Unarchived /\ WorkOwes /\ MaxRetries \in Nat
      /\ HonestArchive
  BY BoundsAssumption DEF ReviewInv, ArchiveInv, PromiseInv
<1>4. /\ owed \in {"none", "checks", "review"} /\ late \in BOOLEAN
      /\ dir \in {"none", "active", "archived"} /\ run.kind \in Kind
  BY KindsAssumption DEF Controlled, TypeOK
<1>5. disk.stage = mem.stage /\ disk'.stage = mem'.stage
  BY NextControlled DEF Controlled, SavedAlike
<1>6. (disk.evidence = product)' = (disk.evidence = product)
  BY DEF Unproved
<1>7. Phase(disk.stage) = Phase(mem.stage) /\ Phase(disk'.stage) = Phase(mem'.stage)
  BY <1>5
<1>8. ASSUME Phase(mem'.stage) = Phase(mem.stage), dir' = dir, owed' = owed, late' = late
      PROVE  Promised
  BY <1>6, <1>7, <1>8 DEF Promised
<1>9. CASE Stays
  BY <1>1, <1>8, <1>9 DEF Stays
<1>10. CASE Begins
  BY <1>1, <1>3, <1>8, <1>10 DEF Begins, WorkOwes
<1>11. CASE Proceeds
  BY <1>1, <1>2, <1>3, <1>4, <1>6, <1>7, <1>11, Phases
     DEF Proceeds, Promised, Delivery!Commit, Delivery!Committable, Rechecked, ReviewedStages, ArchivedStages
<1>12. CASE Proposes
  <2>1. CASE mem'.stage \in {"ProposalCommit", "Apply"}
    BY <1>1, <1>8, <1>12, <2>1, Phases DEF Proposes
  <2>2. CASE mem'.stage \notin {"ProposalCommit", "Apply"}
    <3>1. mem.stage = "Propose" /\ mem'.stage = "Done" /\ dir = "none" /\ SameDelivery
      BY <1>1, <1>12, <2>2 DEF Proposes
    <3>2. Delivery!Decline
      BY <1>6, <1>7, <3>1, Phases DEF Delivery!Decline
    <3>3. QED
      BY <3>2 DEF Promised
  <2>3. QED
    BY <2>1, <2>2
<1>13. CASE Applies
  BY <1>1, <1>2, <1>3, <1>4, <1>6, <1>7, <1>13, Phases
     DEF Applies, Promised, Delivery!Submit, WorkOwes
<1>14. CASE Repairs
  BY <1>1, <1>2, <1>3, <1>4, <1>6, <1>7, <1>14, Phases
     DEF Repairs, Promised, Delivery!Submit, WorkOwes, Rechecked, Granted
<1>15. CASE RepairsLate
  BY <1>1, <1>2, <1>3, <1>4, <1>6, <1>7, <1>15, Phases
     DEF RepairsLate, Promised, Delivery!Resubmit, LateKnown
<1>16. CASE Assigns
  <2>1. /\ run.kind = "assignment" /\ mem.stage \in {"Propose", "Repair"}
        /\ mem'.stage \in {"Verify", "FinalCommit"}
        /\ mem.stage = "Repair" => Granted
        /\ dir' = dir /\ owed' = owed /\ late' = late
    BY <1>1, <1>16 DEF Assigns
  <2>2. owed = "review"
    BY <1>1, <1>3, <1>4, <2>1 DEF WorkOwes, Rechecked, Granted
  <2>3. Phase(mem.stage) = "making"
    BY <2>1, Phases
  <2>4. CASE mem'.stage = "Verify"
    <3>1. Delivery!Submit
      BY <1>6, <1>7, <2>1, <2>2, <2>3, <2>4, Phases DEF Delivery!Submit
    <3>2. QED
      BY <3>1 DEF Promised
  <2>5. CASE mem'.stage = "FinalCommit"
    <3>1. Delivery!Resubmit
      BY <1>6, <1>7, <2>1, <2>2, <2>3, <2>5, Phases DEF Delivery!Resubmit,
         Delivery!Committable
    <3>2. QED
      BY <3>1 DEF Promised
  <2>6. QED
    BY <2>1, <2>4, <2>5
<1>17. CASE FailsCheck
  BY <1>1, <1>2, <1>3, <1>4, <1>6, <1>7, <1>17, Phases
     DEF FailsCheck, Promised, Delivery!Submit, Delivery!Reopen, Structural, WorkOwes, Rechecked, Granted
<1>18. CASE Retries
  BY <1>1, <1>2, <1>3, <1>4, <1>6, <1>7, <1>18, Phases
     DEF Retries, Promised, Delivery!Reopen
<1>19. CASE Refuses
  BY <1>1, <1>2, <1>3, <1>4, <1>6, <1>7, <1>19, Phases
     DEF Refuses, Promised
<1>20. CASE Accepts
  <2>1. /\ mem.stage = "Verify" /\ owed' = "none" /\ dir' = dir /\ late' = late
        /\ \/ ~Direct /\ mem'.stage = "Archive"
           \/ Direct /\ run.gate /\ ~Bootstrap /\ mem'.stage = "Acceptance"
           \/ Direct /\ ~(run.gate /\ ~Bootstrap) /\ mem'.stage = "FinalCommit"
    BY <1>1, <1>20 DEF Accepts
  <2>2. Direct =>
          (run.gate /\ run.kind \in {"change", "terminal", "direct"} <=> run.gate /\ ~Bootstrap)
    OBVIOUS
  <2>3. Delivery!Approve
    BY <1>6, <1>7, <2>1, <2>2, Phases DEF Delivery!Approve
  <2>4. QED
    BY <2>3 DEF Promised
<1>21. CASE Archives
  BY <1>1, <1>2, <1>3, <1>4, <1>6, <1>7, <1>21, Phases
     DEF Archives, Promised, Delivery!Archive, Planned, Unarchived, ReviewedStages
<1>22. CASE EntersGate
  <2>1. /\ mem.stage \in {"Archive", "Complete", "Done"} /\ mem'.stage = "Acceptance"
        /\ late' = (late /\ mem.stage # "Archive") /\ dir' = dir /\ owed' = owed
    BY <1>1, <1>22 DEF EntersGate
  <2>2. run.gate /\ run.kind \in {"change", "terminal", "direct"} /\ disk.evidence # product
    BY <1>3, <1>22 DEF EntersGate, AcceptanceDue, AcceptanceRequired, TerminalGate,
       Declined, Evident
  <2>3. Delivery!AskChecks
    <3>1. /\ Phase(disk.stage) \in {"archive", "complete", "declined"}
          /\ (Phase(disk.stage) = "archive" <=> mem.stage = "Archive")
      BY <1>7, <2>1, Phases
    <3>2. Phase(disk.stage)' = "checks"
      BY <1>7, <2>1, Phases
    <3>3. QED
      BY <1>4, <1>6, <2>1, <2>2, <3>1, <3>2 DEF Delivery!AskChecks
  <2>4. QED
    BY <2>3 DEF Promised
<1>23. CASE GoesOn
  <2>1. /\ mem.stage = "Complete" /\ mem'.stage = "Explore" /\ dir' = "none"
        /\ owed' = "review" /\ (late' => late)
    BY <1>1, <1>3, <1>23 DEF GoesOn, LateKnown
  <2>2. run.gate /\ run.kind \in {"change", "terminal", "direct"} => disk.evidence = product
    <3>1. run.kind = "change" /\ ~AcceptanceDue(mem)
      BY <1>23 DEF GoesOn
    <3>2. run.gate => AcceptanceRequired(mem)
      BY <2>1, <3>1 DEF AcceptanceRequired
    <3>3. QED
      BY <3>1, <3>2 DEF AcceptanceDue, Evident
  <2>3. Delivery!NextChange
    <3>1. Phase(disk.stage) = "complete" /\ Phase(disk.stage)' = "making"
      BY <1>7, <2>1, Phases
    <3>2. UNCHANGED (disk.evidence = product)
      BY <1>6
    <3>3. QED
      BY <2>1, <2>2, <3>1, <3>2 DEF Delivery!NextChange
  <2>4. QED
    BY <2>3 DEF Promised
<1>24. CASE Moves
  <2>1. /\ ~Direct /\ mem'.stage = mem.stage /\ owed' = owed /\ late' = late
        /\ dir' \in {"active", "archived"}
        /\ \/ mem.stage = "Archive" /\ dir = "active" /\ dir' = "archived"
           \/ /\ mem.stage \in {"Propose", "Apply", "Repair"}
              /\ dir = "none" => dir' = "active"
    BY <1>1, <1>24 DEF Moves
  <2>2. CASE mem.stage = "Archive"
    <3>1. Delivery!MoveChange
      BY <1>6, <1>7, <2>1, <2>2, Phases DEF Delivery!MoveChange
    <3>2. QED
      BY <3>1 DEF Promised
  <2>3. CASE mem.stage # "Archive"
    <3>1. Phase(mem.stage) = "making"
      BY <2>1, <2>3, Phases
    <3>2. Delivery!MoveChange
      BY <1>6, <1>7, <2>1, <2>3, <3>1 DEF Delivery!MoveChange
    <3>3. QED
      BY <3>2 DEF Promised
  <2>4. QED
    BY <2>2, <2>3
<1>25. CASE Recovers
  BY <1>1, <1>2, <1>3, <1>4, <1>6, <1>7, <1>25, Phases
     DEF Recovers, Promised, Delivery!Reopen, WorkOwes
<1>26. CASE Directs
  <2>1. dir' = dir /\ late' = late
    BY <1>26 DEF Directs
  <2>2. CASE mem.stage \in {"Verify", "Archive", "FinalCommit"}
    <3>1. mem'.stage = "Repair" /\ owed' = "review"
      BY <1>1, <1>3, <1>26, <2>2 DEF Directs, WorkOwes
    <3>2. Phase(mem.stage) \in {"review", "archive", "commit"}
      BY <2>2, Phases
    <3>3. Delivery!Reopen
      BY <1>6, <1>7, <2>1, <3>1, <3>2, Phases DEF Delivery!Reopen
    <3>4. QED
      BY <3>3 DEF Promised
  <2>3. CASE mem.stage \notin {"Verify", "Archive", "FinalCommit"}
    BY <1>1, <1>8, <1>26, <2>1, <2>3 DEF Directs
  <2>4. QED
    BY <2>2, <2>3
<1>27. CASE PassesGate
  BY <1>27, PassPromised DEF Promised
<1>28. CASE FailsGate
  BY <1>28, FailPromised DEF Promised
<1>29. QED
  BY <1>1, <1>9, <1>10, <1>11, <1>12, <1>13, <1>14, <1>15, <1>16, <1>17, <1>18, <1>19, <1>20,
     <1>21, <1>22, <1>23, <1>24, <1>25, <1>26, <1>27, <1>28 DEF Effect

(* The checkpoint takes a promised step, or none.                           *)
LEMMA StepPromised ==
  HonestArchive /\ Controlled /\ ReviewInv /\ ArchiveInv /\ PromiseInv /\ Evident
    /\ [Next]_vars
    => [Delivery!DeliveryNext]_(Delivery!delivery)
<1> SUFFICES ASSUME HonestArchive, Controlled, ReviewInv, ArchiveInv, PromiseInv, Evident,
                    Next
             PROVE  Delivery!DeliveryNext \/ UNCHANGED Delivery!delivery
  BY DEF vars, Delivery!delivery, Phase, Direct
<1> DEFINE terms == [review |-> run.kind # "assignment", archive |-> ~Direct,
                     gate |-> run.gate /\ run.kind \in {"change", "terminal", "direct"}]
<1>1. UNCHANGED terms
  <2>1. run'.kind = run.kind /\ run'.gate = run.gate
    BY RunKept DEF Controlled
  <2>2. QED
    BY <2>1 DEF Direct
<1> HIDE DEF terms
<1>2. /\ mem \in RunState /\ disk.stage = mem.stage /\ disk'.stage = mem'.stage
      /\ disk.evidence = mem.evidence /\ mem.evidence <= product
      /\ product \in Nat /\ product' \in Nat /\ mem.evidence \in Int
  <2>1. TypeOK /\ TypeOK' /\ SavedAlike /\ SavedAlike'
    BY NextControlled DEF Controlled
  <2>2. QED
    BY <2>1, BoundsAssumption DEF TypeOK, SavedAlike, Alike, RunState, Evident
<1>3. (pc = "reported") = FALSE
  BY OnlyReports
<1>4. ~Report => UNCHANGED (pc = "reported")
  BY <1>3, OnlyReports
<1>5. CASE Report
  <2>1. /\ mem.stage \in {"Complete", "Done"} /\ ~AcceptanceDue(mem)
        /\ UNCHANGED <<mem, product, dir, owed, late>> /\ disk' = mem
        /\ (pc = "reported")' = TRUE
    BY <1>5 DEF Report, At, world, history
  <2>2. UNCHANGED <<Phase(disk.stage), dir, owed, late, disk.evidence = product>>
    BY <1>2, <2>1
  <2>3. Phase(disk.stage) \in {"complete", "declined"}
    BY <1>2, <2>1, Phases
  <2>4. run.gate /\ run.kind \in {"change", "terminal", "direct"} => disk.evidence = product
    BY <1>2, <2>1 DEF AcceptanceDue, AcceptanceRequired, Bootstrap, TerminalGate
  <2>5. Delivery!Report
    BY <2>1, <2>2, <2>3, <2>4 DEF Delivery!Report
  <2>6. QED
    BY <1>1, <1>3, <2>5 DEF Delivery!DeliveryNext, terms
<1>6. ASSUME ~Report,
             Delivery!Disturb \/ Delivery!PassChecks \/ Delivery!FailChecks \/ Promised
      PROVE  Delivery!DeliveryNext \/ UNCHANGED Delivery!delivery
  BY <1>1, <1>3, <1>4, <1>6 DEF Promised, Delivery!DeliveryNext, Delivery!delivery, terms
<1>7. CASE AgentEdits \/ MaintainerEdits
  <2>1. UNCHANGED <<Phase(disk.stage), dir, owed, late>> /\ disk'.evidence = disk.evidence
    BY <1>7 DEF AgentEdits, MaintainerEdits, history
  <2>2. product' = product \/ product' = product + 1
    BY <1>7 DEF AgentEdits, MaintainerEdits
  <2>3. CASE product' = product
    BY <1>5, <1>6, <2>1, <2>3 DEF Promised
  <2>4. CASE product' = product + 1
    <3>1. (disk.evidence = product)' = FALSE
      BY <1>2, <2>1, <2>4
    <3>2. Delivery!Disturb
      BY <2>1, <3>1 DEF Delivery!Disturb
    <3>3. QED
      BY <1>5, <1>6, <3>2
  <2>5. QED
    BY <2>2, <2>3, <2>4
<1>8. CASE AcceptancePasses
  BY <1>5, <1>6, <1>8, PassEffect, PassPromised DEF Controlled
<1>9. CASE AcceptanceFails
  BY <1>5, <1>6, <1>9, FailEffect, FailPromised DEF Controlled
<1>10. CASE AcceptanceErrs
  <2>1. /\ disk' = [mem EXCEPT !.evidence = NoProduct]
        /\ UNCHANGED <<product, dir, owed, late>>
    BY <1>10 DEF AcceptanceErrs, StopAt, Save, world, history
  <2>2. disk'.evidence = NoProduct /\ disk'.stage = disk.stage
    BY <1>2, <2>1 DEF RunState
  <2>3. (disk.evidence = product)' = FALSE
    BY <1>2, <2>2 DEF NoProduct
  <2>4. Delivery!Disturb
    BY <2>1, <2>2, <2>3 DEF Delivery!Disturb
  <2>5. QED
    BY <1>5, <1>6, <2>4
<1>11. CASE Unproved
  BY <1>5, <1>6, <1>11, EffectsPromised
<1>12. QED
  BY <1>7, <1>8, <1>9, <1>10, <1>11, EvidenceKept

(* A run starts as a delivery does.                                         *)
LEMMA InitPromised == Init => Delivery!DeliveryInit
<1> SUFFICES ASSUME Init PROVE Delivery!DeliveryInit
  OBVIOUS
<1>1. /\ disk = mem /\ dir = "none" /\ late = FALSE /\ product = 0 /\ pc = "loop"
      /\ run.gate \in BOOLEAN
  BY FlagsAssumption DEF Init
<1>2. (disk.evidence = product) = FALSE /\ (pc = "reported") = FALSE
  BY <1>1, InitState DEF NoProduct
<1>3. [review |-> run.kind # "assignment", archive |-> ~Direct,
       gate |-> run.gate /\ run.kind \in {"change", "terminal", "direct"}]
        \in Delivery!Terms
  BY DEF Delivery!Terms
<1>4. CASE run.kind # "direct"
  <2>1. owed = "review" /\ mem.stage \in {"Explore", "Propose"}
    BY <1>4, InitState
  <2>2. Phase(disk.stage) = "making"
    BY <1>1, <2>1, Phases
  <2>3. QED
    BY <1>1, <1>2, <1>3, <2>1, <2>2 DEF Delivery!DeliveryInit
<1>5. CASE run.kind = "direct"
  <2>1. \/ owed = "none" /\ mem.stage = "FinalCommit"
        \/ owed = "none" /\ run.gate /\ mem.stage = "Acceptance"
        \/ owed = "review" /\ mem.stage = "Verify"
    BY <1>5, InitState
  <2>2. mem.stage = "FinalCommit" => ~run.gate
    BY <1>5, InitState
  <2>3. Direct
    BY <1>5 DEF Direct
  <2>4. Phase(disk.stage) = IF owed = "review" THEN "review"
                            ELSE IF run.gate THEN "checks" ELSE "commit"
    BY <1>1, <2>1, <2>2, Phases
  <2>5. QED
    BY <1>1, <1>2, <1>3, <1>5, <2>1, <2>3, <2>4 DEF Delivery!DeliveryInit
<1>6. QED
  BY <1>4, <1>5

(* Through all interleavings of agents, checks, crashes, resumes and the     *)
(* maintainer the runner implements the delivery it promises, if its agents  *)
(* say truly that they archived: the gate leads on to what is not owed,      *)
(* review and archiving are waived only when no change is in progress, and   *)
(* nothing is reported, and no next change begun, before the checks passed   *)
(* for the product as it is.                                                 *)
THEOREM DeliveryImplemented ==
  ASSUME HonestArchive
  PROVE  Spec => DeliveryPromised
<1> DEFINE Inv == Controlled /\ ReviewInv /\ ArchiveInv /\ PromiseInv /\ Evident
<1>1. Init => Inv
  <2>1. Init => ArchiveInv
    BY InitState DEF Init, ArchiveInv, Planned, ArchivedStages, Direct
  <2>2. QED
    BY <2>1, InitControlled, InitReview, InitPromise
<1>2. Inv /\ [Next]_vars => Inv'
  BY HonestArchive, NextControlled, ReviewStep, ArchiveStep, PromiseStep, EvidenceStep
<1>3. Inv /\ [Next]_vars => [Delivery!DeliveryNext]_(Delivery!delivery)
  BY HonestArchive, StepPromised
<1> HIDE DEF Inv
<1>4. QED
  BY <1>1, <1>2, <1>3, InitPromised, PTL DEF Spec, DeliveryPromised, Delivery!DeliverySteps

-----------------------------------------------------------------------------
(* Repairs are bounded.                                                     *)

Least(a, b) == IF a < b THEN a ELSE b

(* What the repairs of a change have been paid with.                        *)
Budget == Least(mem.retries, MaxRetries) + mem.failures + directions

(* A run that may be granted a repair now, or once Verify says RETRY, has    *)
(* one to spend.                                                            *)
Paid ==
  /\ repairs <= Budget
  /\ mem.stage = "Repair" /\ Granted /\ ~LateRepair(mem) => repairs < Budget
  /\ mem.stage = "Verify" /\ mem.direction => repairs < Budget
  /\ mem.stage = "Verify" /\ mem.pending = "structural" => mem.retries > MaxRetries
  /\ mem.direction => directions > 0
  /\ mem.stage \in {"Explore", "Propose", "ProposalCommit", "Apply"} =>
       repairs = 0 /\ mem.pending # "structural"

(* Every repair is paid with a retry, an acceptance failure or a direction. *)
LEMMA BudgetStep == Controlled /\ ReviewInv /\ Paid /\ [Next]_vars => Paid'
<1> SUFFICES ASSUME Controlled, ReviewInv, Paid, [Next]_vars PROVE Paid'
  OBVIOUS
<1> USE DEF Paid, Budget, Least, Granted, RetriesExhausted, LateRepair, Direct, Bootstrap,
           Becomes, Alike, SameDelivery, RunState, OneMore
<1>1. mem \in RunState /\ mem' \in RunState /\ Effect
  BY StepEffects, NextControlled DEF Controlled, TypeOK
<1>2. run'.kind = run.kind /\ run'.gate = run.gate
  BY RunKept DEF Controlled
<1>3. MaxRetries \in Nat /\ repairs \in Nat /\ directions \in Nat /\ Named /\ Gated
  BY BoundsAssumption DEF Controlled, TypeOK, ReviewInv
<1>4. CASE Stays
  BY <1>1, <1>2, <1>3, <1>4 DEF Stays
<1>5. CASE Begins
  BY <1>1, <1>2, <1>3, <1>5 DEF Begins
<1>6. CASE Proceeds
  BY <1>1, <1>2, <1>3, <1>6 DEF Proceeds
<1>7. CASE Proposes
  BY <1>1, <1>2, <1>3, <1>7 DEF Proposes
<1>8. CASE Applies
  BY <1>1, <1>2, <1>3, <1>8 DEF Applies
<1>9. CASE Repairs
  BY <1>1, <1>2, <1>3, <1>9 DEF Repairs
<1>10. CASE RepairsLate
  BY <1>1, <1>2, <1>3, <1>10 DEF RepairsLate
<1>11. CASE Assigns
  BY <1>1, <1>2, <1>3, <1>11 DEF Assigns
<1>12. CASE FailsCheck
  <2>1. mem.retries \in Nat /\ mem.failures \in Nat /\ mem.pending \in {"none", "finding", "structural"}
    BY <1>1
  <2>2. /\ mem'.retries = Structural(mem).retries /\ mem'.pending = Structural(mem).pending
        /\ mem'.direction = mem.direction /\ mem'.failures = mem.failures
        /\ mem'.gateNext = mem.gateNext /\ repairs' = repairs /\ directions' = directions
        /\ mem'.stage \in {"Repair", "Verify"}
    BY <1>1, <1>12 DEF FailsCheck, Structural
  <2>3. Structural(mem).retries \in {mem.retries, OneMore(mem.retries)}
    BY <1>1 DEF Structural
  <2>4. mem.stage # "Repair" => Structural(mem).retries = OneMore(mem.retries) \/ mem.retries > MaxRetries
    BY <1>1, <1>12 DEF Structural, FailsCheck
  <2>5. mem'.stage = "Verify" => Bootstrap /\ Structural(mem).retries > MaxRetries
    BY <1>1, <1>12 DEF FailsCheck, Structural
  <2>6. mem'.stage = "Repair" => (Bootstrap => Structural(mem).retries <= MaxRetries)
    BY <1>1, <1>12 DEF FailsCheck, Structural
  <2>7. QED
    BY <1>1, <1>2, <1>3, <1>12, <2>1, <2>2, <2>3, <2>4, <2>5, <2>6 DEF FailsCheck
<1>13. CASE Retries
  BY <1>1, <1>2, <1>3, <1>13 DEF Retries
<1>14. CASE Refuses
  BY <1>1, <1>2, <1>3, <1>14 DEF Refuses
<1>15. CASE Accepts
  BY <1>1, <1>2, <1>3, <1>15 DEF Accepts
<1>16. CASE Archives
  BY <1>1, <1>2, <1>3, <1>16 DEF Archives
<1>17. CASE EntersGate
  BY <1>1, <1>2, <1>3, <1>17 DEF EntersGate
<1>18. CASE PassesGate
  BY <1>1, <1>2, <1>3, <1>18 DEF PassesGate, Gated
<1>19. CASE FailsGate
  BY <1>1, <1>2, <1>3, <1>19 DEF FailsGate
<1>20. CASE GoesOn
  BY <1>1, <1>2, <1>3, <1>20 DEF GoesOn
<1>21. CASE Moves
  BY <1>1, <1>2, <1>3, <1>21 DEF Moves
<1>22. CASE Recovers
  BY <1>1, <1>2, <1>3, <1>22 DEF Recovers
<1>23. CASE Directs
  <2>1. /\ mem'.retries = mem.retries /\ mem'.failures = mem.failures
        /\ mem'.gateNext = mem.gateNext /\ mem'.direction = TRUE
        /\ repairs' = repairs /\ directions' = directions + 1
    BY <1>1, <1>23 DEF Directs
  <2>2. /\ mem'.stage \in {mem.stage, "Repair"}
        /\ mem.stage = "Verify" => mem'.stage = "Repair"
        /\ mem'.pending \in {"none", mem.pending}
    BY <1>1, <1>23 DEF Directs
  <2>3. mem.retries \in Nat /\ mem.failures \in Nat
    BY <1>1
  <2>4. repairs < Budget'
    BY <1>3, <2>1, <2>3
  <2>5. QED
    BY <1>3, <2>1, <2>2, <2>3, <2>4
<1>24. QED
  BY <1>1, <1>4, <1>5, <1>6, <1>7, <1>8, <1>9, <1>10, <1>11, <1>12, <1>13,
     <1>14, <1>15, <1>16, <1>17, <1>18, <1>19, <1>20, <1>21, <1>22, <1>23
     DEF Effect

(* A change starts without repairs.                                         *)
LEMMA InitPaid == Init => Paid
<1> SUFFICES ASSUME Init PROVE Paid
  OBVIOUS
<1>1. mem \in RunState /\ repairs = 0 /\ directions = 0 /\ MaxRetries \in Nat
  BY InitTypes, BoundsAssumption DEF Init, TypeOK
<1>2. /\ mem.retries = 0 /\ mem.pending = "none" /\ mem.direction = FALSE
      /\ mem.stage # "Repair"
  BY InitState, <1>1
<1>3. Budget \in Nat
  BY <1>1 DEF Budget, Least, RunState
<1>4. QED
  BY <1>1, <1>2, <1>3 DEF Paid

(* Repair sessions are bounded by --max-verify-retries, the acceptance        *)
(* failures and the directions, whatever is interrupted and resumed: the       *)
(* checkpoint does not lose what a repair was granted for.                    *)
THEOREM RepairsWithinBudget == Spec => []RepairsBounded
<1>1. Init => Controlled /\ ReviewInv /\ Paid
  BY InitControlled, InitReview, InitPaid
<1>2. Controlled /\ ReviewInv /\ Paid /\ [Next]_vars => (Controlled /\ ReviewInv /\ Paid)'
  BY NextControlled, ReviewStep, BudgetStep
<1>3. Controlled /\ Paid => RepairsBounded
  <2> SUFFICES ASSUME Controlled, Paid PROVE RepairsBounded
    OBVIOUS
  <2>1. /\ mem \in RunState /\ disk.failures = mem.failures
        /\ repairs \in Nat /\ directions \in Nat /\ MaxRetries \in Nat
    BY BoundsAssumption DEF Controlled, TypeOK, SavedAlike, Alike
  <2>2. mem.retries \in Nat /\ mem.failures \in Nat
    BY <2>1 DEF RunState
  <2>3. Least(mem.retries, MaxRetries) <= MaxRetries
    BY <2>1, <2>2 DEF Least
  <2>4. Least(mem.retries, MaxRetries) \in Nat
    BY <2>1, <2>2 DEF Least
  <2>5. QED
    BY <2>1, <2>2, <2>3, <2>4 DEF Paid, Budget, RepairsBounded
<1>4. QED
  BY <1>1, <1>2, <1>3, PTL DEF Spec
=============================================================================
