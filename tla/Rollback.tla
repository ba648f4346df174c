------------------------------ MODULE Rollback ------------------------------
(***************************************************************************)
(* Capacity recovery of an agenda slice: the rollback baseline recorded    *)
(* when a slice starts, the rollback of an escalated attempt, the frontier *)
(* session that subdivides the slice or reviews the terminal gate, and the *)
(* baselines that replace one another in the checkpoint                    *)
(* (src/src/git.rs; run_frontier_replan, run_terminal_review and           *)
(* run_workflows in src/src/app.rs; accept_changes in                      *)
(* src/src/app/maintenance.rs).                                            *)
(*                                                                         *)
(* A commit history is the set of its commits.  The tracked files are one  *)
(* value, their edits relative to HEAD, staged or not; the files under     *)
(* automation/slices are seen as commits only.  A stash survives its ref   *)
(* (Git prunes unreachable objects after weeks).  The stages of a slice    *)
(* are one worker session; a step that fails with an error is a crash, as  *)
(* nothing is persisted.                                                   *)
(***************************************************************************)
EXTENDS Integers, FiniteSets

CONSTANTS
  Paths,            \* files that Git does not track when the slice starts
  Snapshots,        \* identities of baselines
  NoSnapshot,
  MaxReplans,       \* MAX_FRONTIER_REPLANS
  MaxRemediations,  \* --max-terminal-remediations
  Corrections,      \* whether the maintainer runs accept-changes
  MaxCommits        \* bound: commits since the slice started

ASSUME SnapshotAssumption ==
  NoSnapshot \notin Snapshots /\ \E a, b \in Snapshots : a # b
ASSUME LimitsAssumption ==
  MaxReplans \in Nat /\ MaxRemediations \in Nat /\ MaxCommits \in Nat
ASSUME CorrectionsAssumption == Corrections \in BOOLEAN

VARIABLES
  head,       \* the commits HEAD has, of those made since the slice started
  tracked,    \* edits of the tracked files
  untracked,  \* files that are not tracked
  made,       \* the commits ever made since the slice started
  agenda,     \* those that change automation/slices only (only the net change is
              \* compared: a commit and its revert count as such)
  anchored,   \* the commits under refs/opsx-build/recovery
  copies,     \* the baselines whose copies of untracked files exist
  mem,        \* RunState in the process
  disk,       \* RunState in last-run.json
  pc,         \* where the process is
  follow,     \* what follows the rollback, or the new baseline
  created,    \* the files that the rollback in progress removes
  turn,       \* 1 during the corrective turn of the frontier session
  old,        \* the baseline that was superseded
  begun,      \* history: the user's edits when the slice started
  torn        \* history: a crash left the checkpoint without its copies

vars == <<head, tracked, untracked, made, agenda, anchored, copies, mem, disk, pc,
          follow, created, turn, old, begun, torn>>
tree == <<tracked, untracked>>
commits == <<head, made, agenda, anchored>>
process == <<follow, created, turn, old>>
history == <<begun, torn>>

(* user: as it was before the first slice; other: what anybody made since.  *)
Content == {"none", "user", "other"}
Edits == {"clean", "user", "other"}

Baseline ==
  [id : Snapshots \cup {NoSnapshot}, head : SUBSET (1..MaxCommits),
   tracked : Edits, untracked : [Paths -> Content]]

RunState ==
  [stage : {"Propose", "Complete"}, terminal : BOOLEAN, reviewed : BOOLEAN,
   tooLarge : BOOLEAN, baseline : Baseline, replans : 0..MaxReplans,
   remediations : 0..MaxRemediations]

Rolling == {"anchor", "reset", "clean", "copy", "apply", "check"}
Running == {"loop", "worker", "frontier", "armed", "superseded", "disarmed",
            "rearmed", "released"} \cup Rolling
Stopped == {"stopped", "unreproducible"}

TypeOK ==
  /\ made = 1..Cardinality(made) /\ Cardinality(made) <= MaxCommits
  /\ head \subseteq made /\ agenda \subseteq made /\ anchored \subseteq made
  /\ tracked \in Edits /\ untracked \in [Paths -> Content]
  /\ copies \subseteq Snapshots
  /\ mem \in RunState /\ disk \in RunState
  /\ pc \in Running \cup Stopped \cup {"complete"}
  /\ follow \in {"none", "frontier", "again", "stop", "slice", "correction", "remediation"}
  /\ created \subseteq Paths /\ turn \in {0, 1}
  /\ old \in Snapshots \cup {NoSnapshot}
  /\ begun \in Edits \X [Paths -> Content] /\ torn \in BOOLEAN

NoBaseline ==
  [id |-> NoSnapshot, head |-> {}, tracked |-> "clean",
   untracked |-> [p \in Paths |-> "none"]]

Listed(files) == {p \in Paths : files[p] # "none"}

(* A new identity is one that no checkpoint refers to.                      *)
Unused == CHOOSE id \in Snapshots : id \notin {mem.baseline.id, disk.baseline.id}

(* capture_slice_baseline                                                   *)
Recorded(id) == [id |-> id, head |-> head, tracked |-> tracked, untracked |-> untracked]

(* baseline_matches_except: a file without a copy to compare it with is not *)
(* as it was.                                                               *)
Matches(b) ==
  /\ tracked = b.tracked /\ untracked = b.untracked
  /\ Listed(b.untracked) # {} => b.id \in copies

(* A slice starts with whatever the user has in the working tree.           *)
Fresh(terminal) ==
  [stage |-> "Propose", terminal |-> terminal, reviewed |-> FALSE, tooLarge |-> FALSE,
   baseline |-> NoBaseline, replans |-> 0, remediations |-> 0]

Init ==
  /\ head = {} /\ made = {} /\ agenda = {} /\ anchored = {}
  /\ tracked \in {"clean", "user"} /\ untracked \in [Paths -> {"none", "user"}]
  /\ \E terminal \in BOOLEAN :
       LET id == CHOOSE id \in Snapshots : TRUE
       IN /\ mem = [Fresh(terminal) EXCEPT !.baseline = Recorded(id)]
          /\ copies = {id}
  /\ disk = mem
  /\ pc = "loop" /\ follow = "none" /\ created = {} /\ turn = 0 /\ old = NoSnapshot
  /\ begun = <<tracked, untracked>> /\ torn = FALSE

Goto(there) == pc' = there

(* persist_state                                                            *)
Save(m) == mem' = m /\ disk' = m
-----------------------------------------------------------------------------
(* What the sessions and the user do to the repository                      *)

(* Agents during their sessions, and the user while the run is stopped.     *)
Edit ==
  /\ pc \in {"worker", "frontier"} \cup Stopped
  /\ \/ tracked' = "other" /\ UNCHANGED untracked
     \/ /\ \E p \in Paths, content \in {"other", "none"} :
             untracked' = [untracked EXCEPT ![p] = content]
        /\ UNCHANGED tracked
  /\ UNCHANGED <<commits, copies, mem, disk, pc, process, history>>

(* A commit takes some of the edits and files in, or only agenda files.     *)
Commit ==
  LET new == Cardinality(made) + 1
  IN /\ pc \in {"worker", "frontier"} \cup Stopped
     /\ new <= MaxCommits
     /\ made' = made \cup {new} /\ head' = head \cup {new}
     /\ \/ agenda' = agenda \cup {new} /\ UNCHANGED tree
        \/ /\ tracked' \in {tracked, "clean"}
           /\ \E taken \in SUBSET Listed(untracked) :
                untracked' = [p \in Paths |-> IF p \in taken THEN "none" ELSE untracked[p]]
           /\ UNCHANGED agenda
     /\ UNCHANGED <<anchored, copies, mem, disk, pc, process, history>>
-----------------------------------------------------------------------------
(* The slice's worker                                                       *)

WorkerStarts ==
  /\ pc = "loop" /\ mem.stage = "Propose" /\ ~mem.tooLarge
  /\ mem.terminal => mem.reviewed
  /\ Goto("worker")
  /\ UNCHANGED <<commits, tree, copies, mem, disk, process, history>>

(* record_too_large                                                         *)
WorkerTooLarge ==
  /\ pc = "worker"
  /\ Save([mem EXCEPT !.tooLarge = TRUE])
  /\ Goto("loop")
  /\ UNCHANGED <<commits, tree, copies, process, history>>

WorkerCompletes ==
  /\ pc = "worker"
  /\ Save([mem EXCEPT !.stage = "Complete"])
  /\ Goto("loop")
  /\ UNCHANGED <<commits, tree, copies, process, history>>
-----------------------------------------------------------------------------
(* reset_to_slice_baseline                                                  *)

Restore(next) == pc' = "anchor" /\ follow' = next /\ turn' = 0

(* Mutant: the recovery ref is written once HEAD is back.                   *)
AnchorLate ==
  /\ pc = "anchor"
  /\ anchored' = anchored \cup mem.baseline.head
  /\ created' = Listed(untracked) \ Listed(mem.baseline.untracked)
  /\ Goto("reset")
  /\ UNCHANGED <<head, made, agenda, tree, copies, mem, disk, follow, turn, old, history>>

Anchor ==
  /\ pc = "anchor"
  /\ anchored' = anchored \cup head
  /\ created' = Listed(untracked) \ Listed(mem.baseline.untracked)
  /\ Goto("reset")
  /\ UNCHANGED <<head, made, agenda, tree, copies, mem, disk, follow, turn, old, history>>

HardReset ==
  /\ pc = "reset"
  /\ head' = mem.baseline.head /\ tracked' = "clean"
  /\ Goto("clean")
  /\ UNCHANGED <<made, agenda, anchored, untracked, copies, mem, disk, process, history>>

Clean ==
  /\ pc = "clean"
  /\ untracked' = [p \in Paths |-> IF p \in created THEN "none" ELSE untracked[p]]
  /\ created' = {}
  /\ Goto("copy")
  /\ UNCHANGED <<commits, tracked, copies, mem, disk, follow, turn, old, history>>

(* Mutant: a file that is still there is not copied back.                   *)
CopyMissing ==
  LET b == mem.baseline
  IN /\ pc = "copy"
     /\ untracked' = [p \in Paths |->
          IF p \in Listed(b.untracked) /\ b.id \in copies /\ untracked[p] = "none"
            THEN b.untracked[p] ELSE untracked[p]]
     /\ Goto("apply")
     /\ UNCHANGED <<commits, tracked, copies, mem, disk, process, history>>

(* copy_path passes over a copy that does not exist.                        *)
CopyBack ==
  LET b == mem.baseline
  IN /\ pc = "copy"
     /\ untracked' = [p \in Paths |->
          IF p \in Listed(b.untracked) /\ b.id \in copies
            THEN b.untracked[p] ELSE untracked[p]]
     /\ Goto("apply")
     /\ UNCHANGED <<commits, tracked, copies, mem, disk, process, history>>

StashApply ==
  /\ pc = "apply"
  /\ tracked' = mem.baseline.tracked
  /\ Goto("check")
  /\ UNCHANGED <<commits, untracked, copies, mem, disk, process, history>>

(* "rollback could not reproduce the pre-Propose ... working-tree state"    *)
Unreproducible ==
  /\ pc = "check" /\ ~Matches(mem.baseline)
  /\ Goto("unreproducible")
  /\ follow' = "none" /\ turn' = 0
  /\ UNCHANGED <<commits, tree, copies, mem, disk, created, old, history>>

Restored ==
  /\ pc = "check" /\ Matches(mem.baseline)
  /\ turn' = IF follow = "again" THEN 1 ELSE 0
  /\ Goto(IF follow = "stop" THEN "stopped" ELSE "frontier")
  /\ follow' = "none"
  /\ UNCHANGED <<commits, tree, copies, mem, disk, created, old, history>>
-----------------------------------------------------------------------------
(* run_frontier_replan and run_terminal_review                              *)

(* Mutant: off by one.                                                      *)
PastLimit(m) ==
  IF m.terminal THEN m.remediations > MaxRemediations ELSE m.replans > MaxReplans

LimitReached(m) ==
  IF m.terminal THEN m.remediations >= MaxRemediations ELSE m.replans >= MaxReplans

Escalate ==
  /\ pc = "loop" /\ mem.stage = "Propose" /\ mem.tooLarge
  /\ Restore(IF LimitReached(mem) THEN "stop" ELSE "frontier")
  /\ UNCHANGED <<commits, tree, copies, mem, disk, created, old, history>>

(* The readiness review of the terminal gate starts on the tree as it is.   *)
ReviewStarts ==
  /\ pc = "loop" /\ mem.stage = "Propose" /\ ~mem.tooLarge
  /\ mem.terminal /\ ~mem.reviewed
  /\ Goto("frontier") /\ turn' = 0
  /\ UNCHANGED <<commits, tree, copies, mem, disk, follow, created, old, history>>

(* Mutant: the user's edits may change along with the agenda.               *)
RearrangedLoosely ==
  LET b == mem.baseline
  IN head # b.head /\ b.head \subseteq head /\ head \ b.head \subseteq agenda

(* frontier_replan_postcondition, terminal_remediation_postcondition        *)
Rearranged ==
  LET b == mem.baseline
  IN /\ head # b.head /\ b.head \subseteq head /\ head \ b.head \subseteq agenda
     /\ Matches(b)

(* BLOCKED, a failed invocation, an unexpected status, or a remediation     *)
(* past the limit.                                                          *)
FrontierFails ==
  /\ pc = "frontier"
  /\ Restore("stop")
  /\ UNCHANGED <<commits, tree, copies, mem, disk, created, old, history>>

(* Mutant: every failure is the first one.                                  *)
RejectedAgain ==
  /\ pc = "frontier" /\ (mem.terminal \/ ~Rearranged)
  /\ Restore("again")
  /\ UNCHANGED <<commits, tree, copies, mem, disk, created, old, history>>

(* The answer does not meet its contract; after an escalation the terminal  *)
(* review may not answer READY at all.                                      *)
Rejected ==
  /\ pc = "frontier" /\ (mem.terminal \/ ~Rearranged)
  /\ Restore(IF turn = 0 THEN "again" ELSE "stop")
  /\ UNCHANGED <<commits, tree, copies, mem, disk, created, old, history>>

ReviewReady ==
  /\ pc = "frontier" /\ mem.terminal /\ ~mem.tooLarge
  /\ head = mem.baseline.head /\ Matches(mem.baseline)
  /\ Save([mem EXCEPT !.reviewed = TRUE])
  /\ Goto("loop") /\ turn' = 0
  /\ UNCHANGED <<commits, tree, copies, follow, created, old, history>>

Subdivided(m, b) ==
  [m EXCEPT !.tooLarge = FALSE, !.baseline = b, !.replans = @ + 1]

(* Mutant: the superseded baseline is released before the checkpoint.       *)
ReplannedReleasing ==
  /\ pc = "frontier" /\ ~mem.terminal /\ Rearranged
  /\ copies' = (copies \cup {Unused}) \ {mem.baseline.id}
  /\ mem' = Subdivided(mem, Recorded(Unused))
  /\ old' = mem.baseline.id
  /\ Goto("armed") /\ turn' = 0
  /\ UNCHANGED <<commits, tree, disk, follow, created, history>>

(* A subdivision: a new baseline, then the checkpoint, then the release of  *)
(* the superseded baseline.                                                 *)
Replanned ==
  /\ pc = "frontier" /\ ~mem.terminal /\ Rearranged
  /\ copies' = copies \cup {Unused}
  /\ mem' = Subdivided(mem, Recorded(Unused))
  /\ old' = mem.baseline.id
  /\ Goto("armed") /\ turn' = 0
  /\ UNCHANGED <<commits, tree, disk, follow, created, history>>

PersistReplan ==
  /\ pc = "armed"
  /\ disk' = mem /\ torn' = FALSE
  /\ Goto("superseded")
  /\ UNCHANGED <<commits, tree, copies, mem, process, begun>>

Supersede ==
  /\ pc = "superseded"
  /\ copies' = copies \ {old} /\ old' = NoSnapshot
  /\ Goto("loop")
  /\ UNCHANGED <<commits, tree, mem, disk, follow, created, turn, history>>

(* A remediation: the baseline is released before there is another.         *)
Remediated ==
  /\ pc = "frontier" /\ mem.terminal /\ Rearranged
  /\ mem.remediations < MaxRemediations
  /\ copies' = copies \ {mem.baseline.id}
  /\ mem' = [Fresh(FALSE) EXCEPT !.remediations = mem.remediations + 1]
  /\ follow' = "remediation" /\ turn' = 0
  /\ Goto("disarmed")
  /\ UNCHANGED <<commits, tree, disk, created, old, history>>
-----------------------------------------------------------------------------
(* New baselines: remediation, maintainer correction, next slice            *)

Arm ==
  /\ pc = "disarmed"
  /\ copies' = copies \cup {Unused}
  /\ mem' = [mem EXCEPT !.baseline = Recorded(Unused)]
  /\ Goto("rearmed")
  /\ UNCHANGED <<commits, tree, disk, process, history>>

PersistArmed ==
  /\ pc = "rearmed"
  /\ disk' = mem /\ torn' = FALSE
  /\ begun' = IF follow = "remediation" THEN begun
              ELSE <<mem.baseline.tracked, mem.baseline.untracked>>
  /\ Goto(IF follow = "correction" THEN "stopped" ELSE "loop")
  /\ follow' = "none"
  /\ UNCHANGED <<commits, tree, copies, mem, created, turn, old>>

(* execute at Complete                                                      *)
Release ==
  /\ pc = "loop" /\ mem.stage = "Complete"
  /\ copies' = copies \ {mem.baseline.id}
  /\ mem' = [mem EXCEPT !.baseline = NoBaseline]
  /\ Goto("released")
  /\ UNCHANGED <<commits, tree, disk, process, history>>

PersistReleased ==
  /\ pc = "released"
  /\ disk' = mem
  /\ Goto("complete")
  /\ UNCHANGED <<commits, tree, copies, mem, process, history>>

(* run_workflows; the commits are counted anew.                             *)
NextSlice ==
  /\ pc = "complete"
  /\ \E terminal \in BOOLEAN :
       mem' = [Fresh(terminal) EXCEPT !.remediations = mem.remediations]
  /\ head' = {} /\ made' = {} /\ agenda' = {} /\ anchored' = {}
  /\ follow' = "slice"
  /\ Goto("disarmed")
  /\ UNCHANGED <<tree, copies, disk, created, turn, old, history>>

(* accept_changes: "Recovery must never roll back across a maintainer       *)
(* correction."                                                             *)
AcceptChanges ==
  /\ Corrections /\ pc \in Stopped
  /\ copies' = copies \ {disk.baseline.id}
  /\ \E terminal \in BOOLEAN : mem' = Fresh(terminal)
  /\ follow' = "correction"
  /\ Goto("disarmed")
  /\ UNCHANGED <<commits, tree, disk, created, turn, old, history>>
-----------------------------------------------------------------------------
(* The checkpoint of an unfinished slice names a baseline that a remediation *)
(* or a correction has released.                                            *)
Disarmed ==
  /\ pc \in {"disarmed", "rearmed"}
  /\ disk.stage # "Complete" /\ disk.baseline.id \notin copies

(* A crash, a policy stop, a pause or an error; copies that no checkpoint   *)
(* refers to do not matter any more.                                        *)
Crash ==
  /\ pc \in Running \cup {"complete"}
  /\ torn' = (torn \/ Disarmed)
  /\ copies' = copies \cap {disk.baseline.id}
  /\ mem' = disk /\ follow' = "none" /\ created' = {} /\ turn' = 0 /\ old' = NoSnapshot
  /\ Goto("stopped")
  /\ UNCHANGED <<commits, tree, disk, begun>>

Resume ==
  /\ pc \in Stopped
  /\ mem' = disk
  /\ Goto("loop")
  /\ UNCHANGED <<commits, tree, copies, disk, process, history>>

SessionEnds ==
  \/ WorkerTooLarge \/ WorkerCompletes
  \/ FrontierFails \/ Rejected \/ ReviewReady \/ Replanned \/ Remediated

RunnerStep ==
  \/ WorkerStarts \/ Escalate \/ ReviewStarts
  \/ Anchor \/ HardReset \/ Clean \/ CopyBack \/ StashApply \/ Unreproducible \/ Restored
  \/ PersistReplan \/ Supersede \/ Arm \/ PersistArmed \/ Release \/ PersistReleased

Next ==
  \/ SessionEnds \/ RunnerStep \/ NextSlice
  \/ Edit \/ Commit
  \/ Crash \/ Resume \/ AcceptChanges

Spec == Init /\ [][Next]_vars

(* The runner goes on by itself, and sessions end at the latest with their  *)
(* time allowance.                                                          *)
FairSpec == Spec /\ WF_vars(SessionEnds) /\ WF_vars(RunnerStep)
-----------------------------------------------------------------------------
(* Properties                                                               *)

(* Whenever the run stops before its slice is complete, the baseline that   *)
(* the checkpoint names has its copies, so that a later rollback can use    *)
(* it: a replan releases the old one only after the new one is recorded.    *)
(* Exempt is a crash while a remediation or a correction changes baselines. *)
BaselineKept ==
  pc = "stopped" /\ disk.stage # "Complete" /\ ~torn => disk.baseline.id \in copies

(* A rollback reproduces the recorded state, whatever the worker, the       *)
(* frontier agent and the user did to the tree, however often it was itself *)
(* interrupted and started again.                                           *)
RollbackReproduces == pc = "unreproducible" => torn

(* README.md: "its commits are anchored ..., and the recorded state is      *)
(* restored before frontier planning."                                      *)
RecordedStateRestored == pc # "unreproducible"

(* No work is lost to rollbacks.  After one, the edits in the tree are      *)
(* those the user had when the slice started, through a chain of replans    *)
(* that each record a baseline of their own (README.md: "requires those ... *)
(* edits to return exactly"); and every commit made during a slice, the     *)
(* user's between two runs included, is in HEAD or in a recovery ref.       *)
WorkKept ==
  /\ pc = "check" /\ ~torn => <<tracked, untracked>> = begun
  /\ made \subseteq head \cup anchored

(* Recovery does not go on forever: the limits on subdivisions, remediation *)
(* rounds and corrective turns make every run stop or complete its slice.   *)
RecoveryEnds == pc \in Running ~> pc \in Stopped \cup {"complete"}
=============================================================================
