------------------------------ MODULE Workflow ------------------------------
(***************************************************************************)
(* The delivery of one change at a time by the runner: the stage loop      *)
(* `App::execute`, its handlers `run_*`, the maintainer acceptance gate,   *)
(* `resume` after a stop, and the campaign step that starts the next       *)
(* free-form change (src/src/app.rs, src/src/app/supplied.rs,              *)
(* src/src/acceptance.rs).                                                 *)
(*                                                                         *)
(* `mem` is the RunState of the running process and `disk` the checkpoint  *)
(* last-run.json, replaced atomically by every persist_state.  A handler   *)
(* is split where other parties can act: the agent session it waits for,   *)
(* and the second persist of run_verify.  A pause, a policy stop, a        *)
(* provider error, a BLOCKED or protocol-violating answer and a crash all  *)
(* end the process with the last checkpoint on disk: one action,           *)
(* Interrupt.                                                              *)
(*                                                                         *)
(* Abstracted: prompts, sessions, evidence texts and commits; the product  *)
(* tree is a version number; the replanning that follows TOO_LARGE is      *)
(* another component (the run ends "escalated" here).                      *)
(***************************************************************************)
EXTENDS Integers, Stages

CONSTANTS
  Kinds,          \* the kinds of run to explore, a subset of Kind
  Gates,          \* whether acceptance commands were supplied
  Yolos,          \* whether the proposal milestone is skipped
  Prescribed,     \* whether a free-form change may carry a --change NAME
  HonestArchive,  \* Archive agents answer READY only once the change moved
  MaxRetries,     \* --max-verify-retries
  MaxRequests,    \* operating policy: requests per stage
  MaxProduct,     \* bound: versions of the product tree
  MaxDirections,  \* bound: --direction resumes
  MaxIterations   \* bound: changes of a free-form campaign (1: no campaign)

(* change: free-form, no agenda; slice: an agenda slice; terminal: the 9999 *)
(* slice with its own OpenSpec change; direct: the 9999 slice of a compact  *)
(* contract run, without one; bootstrap and assignment: planning an agenda, *)
(* the latter from an obligation inventory, without an OpenSpec change.     *)
Kind == {"change", "slice", "terminal", "direct", "bootstrap", "assignment"}

ASSUME KindsAssumption == Kinds \subseteq Kind
ASSUME FlagsAssumption ==
  /\ Gates \subseteq BOOLEAN /\ Yolos \subseteq BOOLEAN
  /\ Prescribed \subseteq BOOLEAN /\ HonestArchive \in BOOLEAN
ASSUME BoundsAssumption ==
  /\ MaxRetries \in Nat /\ MaxRequests \in Nat /\ MaxProduct \in Nat
  /\ MaxDirections \in Nat /\ MaxIterations \in Nat \ {0}

NoProduct == -1

VARIABLES
  run,        \* [kind, gate, yolo]: yolo is chosen by each process (--yolo)
  mem,        \* RunState in the process (while stopped: what a resume loads)
  disk,       \* RunState in last-run.json
  pc,         \* where the process is
  product,    \* version of the tracked and non-ignored product files
  dir,        \* the change under openspec/changes
  sound,      \* the agenda or assignment record passes its structural check
  ledger,     \* operating policy: requests dispatched for the current stage
  attempt,    \* 1 during the one corrective turn of Propose or Archive
  verdict,    \* the recorded but not yet acted upon answer of Verify
  owed,       \* history: what the delivered code still has to pass
  late,       \* history: the gate failed after Archive, for which repairs
              \* need no review
  repairs,    \* history: repairs of this change handed on to Verify
  directions  \* history: directions given so far

vars == <<run, mem, disk, pc, product, dir, sound, ledger, attempt, verdict,
          owed, late, repairs, directions>>
world == <<product, dir, sound>>
history == <<owed, late, repairs, directions>>

RunState ==
  [stage : Stage, named : BOOLEAN, retries : Nat,
   pending : {"none", "finding", "structural"}, direction : BOOLEAN,
   tooLarge : BOOLEAN, gateNext : Stage, failures : Nat,
   evidence : Int, open : BOOLEAN, verifiedAt : Int, iteration : Nat]

TypeOK ==
  /\ run \in [kind : Kinds, gate : Gates, yolo : Yolos]
  /\ mem \in RunState /\ disk \in RunState
  /\ pc \in {"loop", "session", "verdict", "stopped", "reported", "escalated"}
  /\ product \in 0..MaxProduct
  /\ dir \in {"none", "active", "archived"}
  /\ sound \in BOOLEAN
  /\ ledger \in [key : Nat \X Stage, used : 0..MaxRequests]
  /\ attempt \in {0, 1}
  /\ verdict \in {"none", "verified", "retry", "incomplete"}
  /\ owed \in {"none", "checks", "review"} /\ late \in BOOLEAN
  /\ repairs \in Nat /\ directions \in 0..MaxDirections
-----------------------------------------------------------------------------
(* RunState predicates of the code.                                         *)

Bootstrap == run.kind \in {"bootstrap", "assignment"}
TerminalGate == run.kind \in {"terminal", "direct"}
Direct == run.kind \in {"direct", "assignment"}
Assigned == run.kind \in {"slice", "direct"}

(* Mutant: the checks of a finished change are taken as good for good.      *)
AcceptanceUntilComplete(m) ==
  /\ run.gate /\ ~Bootstrap
  /\ \/ m.stage = "Done"
     \/ m.stage = "Archive" /\ (run.kind = "change" \/ TerminalGate)

AcceptanceRequired(m) ==
  /\ run.gate /\ ~Bootstrap
  /\ \/ m.stage = "Done"
     \/ m.stage \in {"Archive", "Complete"} /\ (run.kind = "change" \/ TerminalGate)

AcceptanceDue(m) == AcceptanceRequired(m) /\ m.evidence # product

(* Mutant: a resume at Repair does not look at the allowance.               *)
NeverExhausted(m) == FALSE

RetriesExhausted(m) == m.retries > MaxRetries /\ ~m.direction

(* run_repair: the failed check of a change that was archived before.       *)
LateRepair(m) == ~Direct /\ run.gate /\ m.gateNext = "FinalCommit"

StructureSound ==
  /\ (Bootstrap \/ Assigned) => sound
  /\ run.kind = "bootstrap" => dir = "active"

(* verify_retries and AcceptanceGate.failures only matter as to whether     *)
(* they exceed MaxRetries: one more, saturating one above.                  *)
OneMore(n) == IF n > MaxRetries THEN n ELSE n + 1
-----------------------------------------------------------------------------
Fresh(kind, named) ==
  [stage |-> IF kind = "change" THEN "Explore" ELSE "Propose",
   named |-> kind # "change" \/ named, retries |-> 0, pending |-> "none",
   direction |-> FALSE, tooLarge |-> FALSE, gateNext |-> "Archive",
   failures |-> 0, evidence |-> NoProduct, open |-> FALSE,
   verifiedAt |-> NoProduct, iteration |-> 1]

(* The stage after an accepted review; a direct run has nothing to archive. *)
Accepted(m) ==
  IF ~Direct THEN [m EXCEPT !.stage = AfterVerified[m.stage]]
  ELSE IF run.gate /\ ~Bootstrap
         THEN [m EXCEPT !.gateNext = "FinalCommit", !.stage = "Acceptance"]
         ELSE [m EXCEPT !.stage = "FinalCommit"]

(* prepare_direct_acceptance: the whole-scope review of a single delivery   *)
(* serves a direct run while the tree is the one it saw.                    *)
Prepared(m) ==
  IF m.verifiedAt = product THEN Accepted(m) ELSE [m EXCEPT !.stage = "Verify"]

Init ==
  /\ run \in [kind : Kinds, gate : Gates, yolo : Yolos]
  /\ product = 0 /\ dir = "none" /\ sound = TRUE
  /\ \E named \in Prescribed, verifiedAt \in {NoProduct, product} :
       /\ run.kind # "direct" => verifiedAt = NoProduct
       /\ mem = LET m == [Fresh(run.kind, named) EXCEPT !.verifiedAt = verifiedAt]
                IN IF run.kind = "direct" THEN Prepared(m) ELSE m
       /\ owed = IF verifiedAt = product THEN "none" ELSE "review"
  /\ disk = mem
  /\ pc = "loop"
  /\ ledger = [key |-> <<1, mem.stage>>, used |-> 0]
  /\ attempt = 0 /\ verdict = "none" /\ late = FALSE /\ repairs = 0
  /\ directions = 0

(* persist_state *)
Save(m) == mem' = m /\ disk' = m

Goto(m) == Save(m) /\ pc' = "loop" /\ attempt' = 0 /\ verdict' = "none"

(* The process ends with an error after persisting m. *)
StopAt(m) == Save(m) /\ pc' = "stopped" /\ attempt' = 0 /\ verdict' = "none"
-----------------------------------------------------------------------------
(* execute: the top of the loop                                             *)

Skipping == run.yolo /\ mem.stage = "ProposalCommit"

SkipProposalCommit ==
  /\ pc = "loop" /\ Skipping
  /\ Goto([mem EXCEPT !.stage = "Apply"])
  /\ UNCHANGED <<run, world, ledger, history>>

Escalate ==
  /\ pc = "loop" /\ ~Skipping /\ mem.tooLarge
  /\ pc' = "escalated"
  /\ UNCHANGED <<run, mem, disk, world, ledger, attempt, verdict, history>>

EnterAcceptance ==
  /\ pc = "loop" /\ ~mem.tooLarge /\ AcceptanceDue(mem)
  /\ Goto([mem EXCEPT !.gateNext = mem.stage, !.stage = "Acceptance"])
  /\ late' = (late /\ mem.stage # "Archive")
  /\ UNCHANGED <<run, world, ledger, owed, repairs, directions>>

(* The loop passes every check of its top and dispatches on the stage.      *)
At(s) ==
  /\ pc = "loop" /\ ~Skipping /\ ~mem.tooLarge /\ ~AcceptanceDue(mem)
  /\ mem.stage = s

MoreIterations ==
  /\ run.kind = "change" /\ mem.stage = "Complete"
  /\ mem.iteration < MaxIterations

(* Complete or Done is returned, and run_workflows reports it.              *)
Report ==
  /\ At("Complete") \/ At("Done")
  /\ ~MoreIterations
  /\ pc' = "reported"
  /\ disk' = mem
  /\ UNCHANGED <<run, mem, world, ledger, attempt, verdict, history>>

(* run_workflows: a completed campaign iteration is followed by a new       *)
(* RunState that takes over the contracts, with their acceptance gate, and  *)
(* the pending direction.                                                   *)
NextChange ==
  /\ At("Complete") /\ MoreIterations
  /\ Goto([Fresh(run.kind, FALSE) EXCEPT
             !.iteration = mem.iteration + 1, !.direction = mem.direction,
             !.gateNext = mem.gateNext, !.failures = mem.failures,
             !.evidence = mem.evidence])
  /\ dir' = "none" /\ owed' = "review" /\ late' = LateRepair(mem) /\ repairs' = 0
  /\ UNCHANGED <<run, product, sound, ledger, directions>>
-----------------------------------------------------------------------------
(* Agent sessions.  Guard::before_request counts every dispatch against the *)
(* allowance of the current stage of the current iteration.                 *)

(* Mutant: the count starts again at every request.                         *)
UsedForgotten == 0

Used == IF ledger.key = <<mem.iteration, mem.stage>> THEN ledger.used ELSE 0

(* Mutant: the allowance is off by one.                                     *)
AskOneMore ==
  /\ Used <= MaxRequests
  /\ ledger' = [key |-> <<mem.iteration, mem.stage>>, used |-> Used + 1]

Ask ==
  /\ Used < MaxRequests
  /\ ledger' = [key |-> <<mem.iteration, mem.stage>>, used |-> Used + 1]

(* The handler's own checks before it asks its agent.                       *)
Admitted ==
  \/ \E s \in {"Explore", "ProposalCommit", "Archive", "FinalCommit"} : At(s)
  \/ At("Propose") /\ run.kind # "direct" /\ (Direct => ~RetriesExhausted(mem))
  \/ At("Apply")
  \/ At("Verify") /\ StructureSound
  \/ /\ At("Repair") /\ mem.failures <= MaxRetries
     /\ LateRepair(mem) \/ ~RetriesExhausted(mem)

(* run_verify forgets the earlier verification before it asks.              *)
StartSession ==
  /\ Admitted /\ Ask
  /\ pc' = "session"
  /\ mem' = IF mem.stage = "Verify" THEN [mem EXCEPT !.verifiedAt = NoProduct] ELSE mem
  /\ owed' = IF mem.stage = "Apply" THEN "review" ELSE owed
  /\ UNCHANGED <<run, disk, world, attempt, verdict, late, repairs, directions>>

(* Policy stop "request_limit".                                             *)
RequestLimit ==
  /\ Admitted /\ Used >= MaxRequests
  /\ StopAt(disk)
  /\ UNCHANGED <<run, world, ledger, history>>

In(s) == pc = "session" /\ mem.stage = s

(* What the agents of the stages do to the repository while they work.      *)
AgentEdits ==
  /\ \E s \in {"Apply", "Repair", "Archive", "FinalCommit"} : In(s)
  /\ product < MaxProduct
  /\ product' = product + 1
  /\ UNCHANGED <<run, mem, disk, pc, dir, sound, ledger, attempt, verdict, history>>

AgentPlans ==
  /\ Bootstrap \/ Assigned
  /\ \E s \in {"Propose", "Apply", "Repair", "Verify"} : In(s)
  /\ sound' = ~sound
  /\ UNCHANGED <<run, mem, disk, pc, product, dir, ledger, attempt, verdict, history>>

AgentMovesChange ==
  /\ ~Direct
  /\ \/ In("Propose") /\ dir = "none" /\ dir' = "active"
     \/ In("Archive") /\ dir = "active" /\ dir' = "archived"
     (* a bootstrap agent may archive too early, and be asked to undo it *)
     \/ /\ run.kind = "bootstrap" /\ (In("Apply") \/ In("Repair"))
        /\ \/ dir = "active" /\ dir' = "archived"
           \/ dir = "archived" /\ dir' = "active"
  /\ UNCHANGED <<run, mem, disk, pc, product, sound, ledger, attempt, verdict, history>>

(* The corrective turn of Propose and the second session of Archive.        *)
AskAgain ==
  \/ /\ attempt = 0 /\ Ask
     /\ attempt' = 1
     /\ UNCHANGED <<mem, disk, pc, verdict>>
  \/ /\ attempt = 1 \/ Used >= MaxRequests
     /\ StopAt(disk)
     /\ UNCHANGED ledger
-----------------------------------------------------------------------------
(* The handlers, from the answer of their session on                        *)

(* record_too_large: reported, or requested by the user or a stage timeout. *)
TooLargeReported ==
  /\ \/ \E s \in {"Explore", "Propose", "Apply", "Verify"} : In(s)
     \/ In("Repair") /\ ~LateRepair(mem)
  /\ Goto([mem EXCEPT !.tooLarge = TRUE])
  /\ UNCHANGED <<run, world, ledger, history>>

ExploreReady ==
  /\ In("Explore")
  /\ Goto([mem EXCEPT !.stage = AfterReady[mem.stage]])
  /\ UNCHANGED <<run, world, ledger, history>>

ProposeReady ==
  /\ In("Propose") /\ ~Direct /\ dir = "active"
  /\ Goto([mem EXCEPT !.named = TRUE, !.stage = StageAfterPropose(run.yolo)])
  /\ UNCHANGED <<run, world, ledger, history>>

(* READY without complete planning for a change.                            *)
ProposeUnmet ==
  /\ In("Propose") /\ ~Direct /\ dir # "active"
  /\ AskAgain
  /\ UNCHANGED <<run, world, history>>

ProposeDone ==
  /\ In("Propose") /\ run.kind = "change" /\ dir = "none"
  /\ Goto([mem EXCEPT !.stage = "Done"])
  /\ UNCHANGED <<run, world, ledger, history>>

ProposalCommitReady ==
  /\ In("ProposalCommit")
  /\ Goto([mem EXCEPT !.stage = AfterReady[mem.stage]])
  /\ UNCHANGED <<run, world, ledger, history>>

ApplyReady ==
  /\ In("Apply")
  /\ Goto([mem EXCEPT !.direction = FALSE, !.stage = AfterReady[mem.stage]])
  /\ UNCHANGED <<run, world, ledger, history>>

(* The review round, findings included, is persisted before it is acted on. *)
VerifyAnswered ==
  /\ In("Verify")
  /\ \E open \in BOOLEAN : Save([mem EXCEPT !.open = open])
  /\ verdict' \in {"verified", "retry", "incomplete"}
  /\ pc' = "verdict"
  /\ UNCHANGED <<run, world, ledger, attempt, history>>

(* check_bootstrap_for_verify and check_assignment_for_verify on failure.   *)
Structural(m) ==
  LET counted == ~(Bootstrap /\ m.pending = "structural")
  IN [m EXCEPT !.retries = IF counted THEN OneMore(m.retries) ELSE m.retries,
               !.pending = IF Bootstrap THEN "structural" ELSE "finding",
               !.stage = "Repair"]

FailStructure(m) ==
  /\ IF Bootstrap /\ Structural(m).retries > MaxRetries
       THEN StopAt([Structural(m) EXCEPT !.stage = "Verify"])
       ELSE Goto(Structural(m))
  /\ owed' = "review"

VerifyUnsound ==
  /\ At("Verify") /\ ~StructureSound
  /\ FailStructure([mem EXCEPT !.verifiedAt = NoProduct])
  /\ UNCHANGED <<run, world, ledger, late, repairs, directions>>

(* VERIFIED with findings or review areas still open is refused.            *)
VerifiedTooEarly ==
  /\ pc = "verdict" /\ verdict = "verified" /\ mem.open
  /\ StopAt(mem)
  /\ UNCHANGED <<run, world, ledger, history>>

VerifiedUnsound ==
  /\ pc = "verdict" /\ verdict = "verified" /\ ~mem.open /\ ~StructureSound
  /\ FailStructure(mem)
  /\ UNCHANGED <<run, world, ledger, late, repairs, directions>>

Verified ==
  /\ pc = "verdict" /\ verdict = "verified" /\ ~mem.open /\ StructureSound
  /\ Goto(Accepted([mem EXCEPT !.verifiedAt = product, !.pending = "none"]))
  /\ owed' = "none"
  /\ UNCHANGED <<run, world, ledger, late, repairs, directions>>

(* RETRY; past the allowance the run stops, at Repair.                      *)
VerifyRetry ==
  /\ pc = "verdict" /\ verdict = "retry"
  /\ LET m == [mem EXCEPT !.retries = OneMore(mem.retries), !.pending = "finding",
                          !.stage = "Repair"]
     IN IF m.retries > MaxRetries THEN StopAt(m) ELSE Goto(m)
  /\ owed' = "review"
  /\ UNCHANGED <<run, world, ledger, late, repairs, directions>>

VerifyIncomplete ==
  /\ pc = "verdict" /\ verdict = "incomplete"
  /\ Goto(mem)
  /\ UNCHANGED <<run, world, ledger, history>>

(* run_repair and run_assignment refuse to start.                           *)
RepairRefused ==
  /\ \/ /\ At("Repair") /\ mem.failures > MaxRetries
        /\ StopAt(mem)
     \/ /\ At("Repair") \/ (At("Propose") /\ run.kind = "assignment")
        /\ mem.failures <= MaxRetries /\ ~LateRepair(mem) /\ RetriesExhausted(mem)
        /\ StopAt([mem EXCEPT !.stage = "Repair"])
  /\ UNCHANGED <<run, world, ledger, history>>

RepairReady ==
  /\ In("Repair") /\ ~LateRepair(mem) /\ run.kind # "assignment"
  /\ Goto([mem EXCEPT !.pending = "none", !.direction = FALSE,
                      !.stage = AfterReady[mem.stage]])
  /\ repairs' = repairs + 1
  /\ UNCHANGED <<run, world, ledger, owed, late, directions>>

LateRepairReady ==
  /\ In("Repair") /\ LateRepair(mem)
  /\ Goto([mem EXCEPT !.pending = "none", !.stage = "Acceptance"])
  /\ UNCHANGED <<run, world, ledger, history>>

(* run_assignment; a single delivery without open findings skips Verify.    *)
AssignmentReady ==
  /\ run.kind = "assignment" /\ (In("Propose") \/ In("Repair"))
  /\ \/ /\ ~StructureSound
        /\ FailStructure(mem)
        /\ UNCHANGED repairs
     \/ /\ StructureSound
        /\ \E next \in {"Verify"} \cup IF mem.open THEN {} ELSE {"FinalCommit"} :
             Goto([mem EXCEPT !.pending = "none", !.direction = FALSE, !.stage = next])
        /\ repairs' = IF mem.stage = "Repair" THEN repairs + 1 ELSE repairs
        /\ UNCHANGED owed
  /\ UNCHANGED <<run, world, ledger, late, directions>>
-----------------------------------------------------------------------------
(* AcceptanceGate::run and run_acceptance                                   *)

AcceptancePasses ==
  /\ At("Acceptance")
  /\ Goto([mem EXCEPT !.evidence = product, !.pending = "none",
                      !.stage = mem.gateNext])
  /\ owed' = IF owed = "checks" THEN "none" ELSE owed
  /\ UNCHANGED <<run, world, ledger, late, repairs, directions>>

(* A command fails, or changed the files it was to certify.  Without a      *)
(* change to repair, or past the allowance, the run stops.                  *)
AcceptanceFails ==
  /\ At("Acceptance")
  /\ product' \in {product} \cup (product + 1)..MaxProduct /\ product' <= product + 1
  /\ LET failures == OneMore(mem.failures)
         m == [mem EXCEPT !.failures = failures, !.evidence = NoProduct,
                          !.pending = "finding",
                          !.stage = IF mem.named THEN "Repair" ELSE mem.stage]
     IN IF failures > MaxRetries \/ ~mem.named
          THEN StopAt(m)
          ELSE Goto([m EXCEPT !.gateNext = IF m.gateNext \in {"Complete", "Done"}
                                             THEN "FinalCommit" ELSE m.gateNext])
  /\ owed' = IF owed = "review" \/ Direct \/ mem.gateNext = "Archive"
               THEN "review" ELSE "checks"
  /\ late' = (late \/ (~Direct /\ mem.named /\ mem.gateNext # "Archive"))
  /\ UNCHANGED <<run, dir, sound, ledger, repairs, directions>>

(* A protected input changed, or a check could not be run, was paused or      *)
(* interrupted, or the policy stopped it.                                     *)
AcceptanceErrs ==
  /\ At("Acceptance")
  /\ StopAt([mem EXCEPT !.evidence = NoProduct])
  /\ UNCHANGED <<run, world, ledger, history>>
-----------------------------------------------------------------------------
(* run_archive and run_final_commit                                         *)

ArchiveReady ==
  /\ In("Archive") /\ (HonestArchive => dir # "active")
  /\ Goto([mem EXCEPT !.stage = AfterReady[mem.stage]])
  /\ UNCHANGED <<run, world, ledger, history>>

(* Mutant: a session without a terminal result counts as an archived change. *)
ArchiveAssumed ==
  /\ In("Archive")
  /\ Goto([mem EXCEPT !.stage = AfterReady[mem.stage]])
  /\ UNCHANGED <<run, world, ledger, history>>

(* A failed session is accepted when the change is gone from openspec/      *)
(* changes; a missing terminal result is retried once.                      *)
ArchiveOmitted ==
  /\ In("Archive")
  /\ \/ /\ dir # "active"
        /\ Goto([mem EXCEPT !.stage = AfterReady[mem.stage]])
        /\ UNCHANGED ledger
     \/ dir = "active" /\ AskAgain
  /\ UNCHANGED <<run, world, history>>

FinalCommitReady ==
  /\ In("FinalCommit")
  /\ Goto([mem EXCEPT !.stage = AfterReady[mem.stage]])
  /\ UNCHANGED <<run, world, ledger, history>>
-----------------------------------------------------------------------------
(* Stops and resumes                                                        *)

(* Guard::poll ends a session that outlives its request.                    *)
RequestTimeout ==
  /\ pc = "session"
  /\ StopAt(disk)
  /\ UNCHANGED <<run, world, ledger, history>>

Interrupt ==
  /\ pc \in {"loop", "session", "verdict"}
  /\ StopAt(disk)
  /\ UNCHANGED <<run, world, ledger, history>>

MaintainerEdits ==
  /\ pc = "stopped"
  /\ \/ product < MaxProduct /\ product' = product + 1 /\ UNCHANGED sound
     \/ ~sound /\ sound' = TRUE /\ UNCHANGED product
  /\ UNCHANGED <<run, mem, disk, pc, dir, ledger, attempt, verdict, history>>

(* resume_bootstrap_repair                                                  *)
Recovered(m) ==
  IF /\ Bootstrap /\ m.stage = "Verify" /\ m.pending = "structural"
     /\ m.retries <= MaxRetries /\ ~m.tooLarge
    THEN [m EXCEPT !.stage = "Repair"] ELSE m

Reopens(m) == m.stage \in {"Verify", "Archive", "FinalCommit"}

(* Mutant: a direction at a late stage is only recorded.                    *)
DirectedInPlace(m) == [m EXCEPT !.direction = TRUE]

(* queue_direction                                                          *)
Directed(m) ==
  IF Reopens(m)
    THEN [m EXCEPT !.direction = TRUE, !.stage = "Repair", !.pending = "none"]
    ELSE [m EXCEPT !.direction = TRUE]

(* Mutant: a change missing at Verify counts as archived, too.              *)
ReconciledAtVerify(m) ==
  IF m.stage \in {"Verify", "Archive"} /\ dir # "active"
    THEN [m EXCEPT !.stage = "FinalCommit"] ELSE m

Reconciled(m) ==
  IF m.stage = "Archive" /\ dir # "active" THEN [m EXCEPT !.stage = "FinalCommit"] ELSE m

Resumable ==
  /\ pc = "stopped"
  /\ disk.stage \in {"Complete", "Done"} =>
       (run.kind = "change" /\ MaxIterations > 1) \/ AcceptanceDue(disk)

Resume ==
  /\ Resumable
  /\ Goto(Reconciled(Recovered(disk)))
  /\ \E yolo \in Yolos : run' = [run EXCEPT !.yolo = yolo]
  /\ UNCHANGED <<world, ledger, history>>

(* Bound: what a completed campaign hears is for a change past the bound.   *)
ResumeWithDirection ==
  /\ Resumable /\ directions < MaxDirections
  /\ disk.stage = "Complete" => disk.iteration < MaxIterations \/ AcceptanceDue(disk)
  /\ Goto(Reconciled(Directed(Recovered(disk))))
  /\ directions' = directions + 1
  /\ owed' = IF Reopens(Recovered(disk)) THEN "review" ELSE owed
  /\ UNCHANGED <<run, world, ledger, late, repairs>>
-----------------------------------------------------------------------------
LoopStep ==
  \/ SkipProposalCommit \/ Escalate \/ EnterAcceptance \/ Report \/ NextChange
  \/ StartSession \/ RequestLimit \/ VerifyUnsound \/ RepairRefused
  \/ AcceptancePasses \/ AcceptanceFails \/ AcceptanceErrs

VerdictStep ==
  VerifiedTooEarly \/ VerifiedUnsound \/ Verified \/ VerifyRetry \/ VerifyIncomplete

SessionEnds ==
  \/ TooLargeReported \/ ExploreReady \/ ProposeReady \/ ProposeUnmet
  \/ ProposeDone \/ ProposalCommitReady \/ ApplyReady \/ VerifyAnswered
  \/ RepairReady \/ LateRepairReady \/ AssignmentReady \/ ArchiveReady
  \/ ArchiveOmitted \/ FinalCommitReady \/ RequestTimeout

AgentStep == AgentEdits \/ AgentPlans \/ AgentMovesChange

OperatorStep == Interrupt \/ MaintainerEdits \/ Resume \/ ResumeWithDirection

Next == LoopStep \/ VerdictStep \/ SessionEnds \/ AgentStep \/ OperatorStep

Spec == Init /\ [][Next]_vars

(* The runner's own steps follow one another without waiting, and a session *)
(* ends at the latest when its request times out.  Nothing is assumed of    *)
(* agents' work, interruptions or the operator.                             *)
Fairness == WF_vars(LoopStep) /\ WF_vars(VerdictStep) /\ WF_vars(SessionEnds)

FairSpec == Spec /\ Fairness
-----------------------------------------------------------------------------
(* Properties                                                               *)

(* What is archived, committed and complete was independently verified      *)
(* after the last Apply or Repair that could change it, whatever was        *)
(* interrupted, refused, retried or directed in between (run_verify,        *)
(* run_acceptance, queue_direction).  After a late acceptance failure of    *)
(* the change, or one whose gate it was handed, repairs go without a new    *)
(* review until its own Archive passes the gate, but never without the      *)
(* checks.  run_assignment's single delivery is exempt by design.           *)
ReviewedDelivery ==
  disk.stage \in {"Archive", "FinalCommit", "Complete"} /\ run.kind # "assignment"
    => /\ owed # "checks"
       /\ ~late \/ disk.stage = "Archive" => owed = "none"

(* README.md: "A RETRY result starts a fresh directed Repair/Apply session  *)
(* and then verifies again", Archive follows "after verification succeeds". *)
RepairedIsReverified ==
  disk.stage \in {"Archive", "FinalCommit", "Complete"} /\ run.kind # "assignment"
    => owed = "none"

(* The completion commit and the end of a change with an OpenSpec change of *)
(* its own come after that change moved to the archive: no retry, direction *)
(* or resume gets past run_archive, a late acceptance failure apart.        *)
ArchivedBeforeCommit ==
  disk.stage \in {"FinalCommit", "Complete"} /\ ~Direct /\ ~late
    => dir = "archived"

(* Repair sessions are bounded by --max-verify-retries, the acceptance      *)
(* failures and the directions, over all crashes and resumes: the count in  *)
(* the checkpoint cannot be lost between a verdict and its repair.          *)
RepairsBounded == repairs <= MaxRetries + disk.failures + directions

(* A direction is not silently dropped: what is reported complete has had   *)
(* its direction delivered to a code-changing session that succeeded        *)
(* (queue_direction, consume_direction).  With a gate a direction given     *)
(* while the run waits at Acceptance has no such session to come; an        *)
(* assignment session that got it may have failed its structural check.     *)
DirectionHeard ==
  pc = "reported" /\ mem.stage = "Complete" /\ ~run.gate /\ run.kind # "assignment"
    => ~mem.direction

Phase(stage) ==
  CASE stage = "Verify"      -> "review"
    [] stage = "Acceptance"  -> "checks"
    [] stage = "Archive"     -> "archive"
    [] stage = "FinalCommit" -> "commit"
    [] stage = "Complete"    -> "complete"
    [] stage = "Done"        -> "declined"
    [] OTHER                 -> "making"

(* The delivery as the checkpoint, the repository and the evidence show it:  *)
(* what it still has to do is not in them, but in mem, in the gate's next    *)
(* stage, failures and retries, and in the verdict.                          *)
Delivery == INSTANCE ChangeDelivery WITH
  terms <- [review |-> run.kind # "assignment", archive |-> ~Direct,
            gate |-> run.gate /\ run.kind \in {"change", "terminal", "direct"}],
  phase <- Phase(disk.stage),
  change <- dir,
  waived <- late,
  passed <- disk.evidence = product,
  over <- pc = "reported"

(* Through all interleavings of agents, checks, crashes, resumes and the     *)
(* maintainer the checkpoint only takes the steps that are promised of a     *)
(* delivery (execute, the handlers run_*, queue_direction, run_workflows):   *)
(* the gate leads on to what is not owed, review and archiving are waived    *)
(* only when no change is in progress, and nothing is reported, and no next  *)
(* change begun, before the checks passed for the product as it is.          *)
DeliveryPromised == Delivery!DeliverySteps

AtWork == pc \in {"loop", "session", "verdict"}
AtRest == pc \in {"stopped", "reported", "escalated"}

(* A run does not loop forever: it stops for the operator, escalates or is  *)
(* reported, under the retry, failure and request limits.                   *)
RunEnds == AtWork ~> AtRest
=============================================================================
