--------------------------- MODULE RollbackProofs ---------------------------
(***************************************************************************)
(* Proofs about capacity recovery, for every value of the constants: any   *)
(* files, any limits, any number of commits.  What the checkpoint names    *)
(* has its copies, a rollback reproduces what was recorded, and no work is *)
(* lost.                                                                   *)
(*                                                                         *)
(* The invariants are stated first, each for one mechanism: the order of   *)
(* releasing and recording baselines (CopiesKept), what they record        *)
(* (BegunRecorded), the steps of a rollback (RolledBack) and the recovery  *)
(* ref (CommitsKept); they rest on Sorted, where the process can be with   *)
(* which state.                                                            *)
(***************************************************************************)
EXTENDS Rollback, FiniteSetTheorems, TLAPS

(* The actions of Next, one by one.                                         *)
LEMMA NextCases ==
  ASSUME [Next]_vars
  PROVE  \/ UNCHANGED vars
         \/ WorkerTooLarge \/ WorkerCompletes \/ FrontierFails \/ Rejected \/ ReviewReady
         \/ Replanned \/ Remediated \/ WorkerStarts \/ Escalate \/ ReviewStarts
         \/ Anchor \/ HardReset \/ Clean \/ CopyBack \/ StashApply
         \/ Unreproducible \/ Restored \/ PersistReplan \/ Supersede \/ Arm
         \/ PersistArmed \/ Release \/ PersistReleased \/ NextSlice \/ Edit
         \/ Commit \/ Crash \/ Resume \/ AcceptChanges
BY DEF Next, SessionEnds, RunnerStep

-----------------------------------------------------------------------------
(* The type invariant in parts, with what it needs to be inductive.         *)

(* The commits made are numbered.                                           *)
Numbered == \E n \in 0..MaxCommits : made = 1..n

CommitTypes ==
  Numbered /\ head \subseteq made /\ agenda \subseteq made /\ anchored \subseteq made

TreeTypes ==
  tracked \in Edits /\ untracked \in [Paths -> Content] /\ copies \subseteq Snapshots

StateTypes == mem \in RunState /\ disk \in RunState

PlaceTypes ==
  /\ pc \in Running \cup Stopped \cup {"complete"}
  /\ follow \in {"none", "frontier", "again", "stop", "slice", "correction", "remediation"}
  /\ created \subseteq Paths /\ turn \in {0, 1}
  /\ old \in Snapshots \cup {NoSnapshot}
  /\ begun \in Edits \X [Paths -> Content] /\ torn \in BOOLEAN

Types == CommitTypes /\ TreeTypes /\ StateTypes /\ PlaceTypes

(* Outside of the steps between two checkpoints, the checkpoint is the      *)
(* state of the process.                                                    *)
Persisted == pc \notin {"armed", "disarmed", "rearmed", "released"} => mem = disk

(* Where the process can be with what state; follow says what a rollback is *)
(* for.                                                                     *)
Placed ==
  /\ pc \in Rolling \cup {"worker", "frontier"} => mem.stage = "Propose"
  /\ pc \in {"released", "complete"} =>
       mem.stage = "Complete" /\ disk.stage = "Complete" /\ mem.baseline = NoBaseline
  /\ pc = "disarmed" => mem.baseline = NoBaseline
  /\ pc = "frontier" \/ (pc \in Rolling /\ follow # "stop") =>
       mem.terminal \/ mem.replans < MaxReplans

(* A rollback goes back to commits of this slice.                           *)
Based == mem.baseline.head \subseteq made /\ disk.baseline.head \subseteq made

Sorted == Types /\ Persisted /\ Placed /\ Based

(* The copies of a baseline are there from before the checkpoint names it   *)
(* until after it names another.                                            *)
CopiesKept ==
  /\ ~torn /\ disk.stage # "Complete" /\ pc \notin {"disarmed", "rearmed"} =>
       disk.baseline.id \in copies
  /\ pc \in {"armed", "rearmed"} => mem.baseline.id \in copies
  /\ pc = "armed" => old # mem.baseline.id
  /\ pc = "superseded" => disk.baseline.id \in copies \ {old}

State(b) == <<b.tracked, b.untracked>>

(* The baselines of a slice replace one another and record the same edits.  *)
BegunRecorded ==
  /\ disk.stage # "Complete" => State(disk.baseline) = begun
  /\ pc = "armed" => State(mem.baseline) = begun
  /\ pc = "disarmed" /\ follow = "remediation" => <<tracked, untracked>> = begun
  /\ pc = "rearmed" /\ follow = "remediation" => State(mem.baseline) = begun

(* What a rollback has restored after each of its steps.                    *)
RolledBack ==
  LET b == mem.baseline
  IN /\ pc \in {"reset", "clean"} => created = Listed(untracked) \ Listed(b.untracked)
     /\ pc = "copy" => Listed(untracked) \subseteq Listed(b.untracked)
     /\ pc \in {"apply", "check"} /\ ~torn => untracked = b.untracked
     /\ pc = "check" => tracked = b.tracked
     /\ pc = "unreproducible" => torn

(* The recovery ref is written before HEAD moves.                           *)
CommitsKept ==
  /\ made \subseteq head \cup anchored
  /\ pc = "reset" => made \subseteq anchored

-----------------------------------------------------------------------------
(* The commits made are counted by their numbers.                           *)
LEMMA MadeNumbered ==
  ASSUME NEW n \in 0..MaxCommits, made = 1..n
  PROVE  Cardinality(made) = n
<1>1. n \in Nat /\ n \in Int
  BY LimitsAssumption
<1>2. Cardinality(1..n) = IF 1 > n THEN 0 ELSE n - 1 + 1
  BY <1>1, FS_Interval
<1>3. QED
  BY <1>1, <1>2

(* The parts make up the type invariant.                                    *)
LEMMA TypesSuffice == Types => TypeOK
<1> SUFFICES ASSUME Types PROVE TypeOK
  OBVIOUS
<1>1. PICK n \in 0..MaxCommits : made = 1..n
  BY DEF Types, CommitTypes, Numbered
<1>2. made = 1..Cardinality(made) /\ Cardinality(made) <= MaxCommits
  BY <1>1, MadeNumbered, LimitsAssumption
<1>3. QED
  BY <1>2 DEF Types, CommitTypes, TreeTypes, StateTypes, PlaceTypes, TypeOK

(* A new baseline has an identity that no checkpoint refers to.             *)
LEMMA UnusedIdentity ==
  ASSUME Persisted, Placed, pc \in {"frontier", "disarmed"}
  PROVE  Unused \in Snapshots /\ Unused \notin {mem.baseline.id, disk.baseline.id}
<1>0. mem.baseline.id = disk.baseline.id \/ mem.baseline.id = NoSnapshot
  BY DEF Persisted, Placed, NoBaseline
<1>1. \E id \in Snapshots : id \notin {mem.baseline.id, disk.baseline.id}
  BY <1>0, SnapshotAssumption
<1>2. QED
  BY <1>1 DEF Unused

(* What is recorded has the type of a baseline.                             *)
LEMMA Baselines ==
  ASSUME CommitTypes, TreeTypes
  PROVE  /\ \A id \in Snapshots : Recorded(id) \in Baseline
         /\ NoBaseline \in Baseline
<1>1. made \subseteq 1..MaxCommits
  BY LimitsAssumption DEF CommitTypes, Numbered
<1>2. head \in SUBSET (1..MaxCommits)
  BY <1>1 DEF CommitTypes
<1>3. ASSUME NEW id \in Snapshots PROVE Recorded(id) \in Baseline
  BY <1>2 DEF Recorded, Baseline, TreeTypes
<1>4. [p \in Paths |-> "none"] \in [Paths -> Content]
  BY DEF Content
<1>5. NoBaseline \in Baseline
  BY <1>4 DEF NoBaseline, Baseline, Edits
<1>6. QED
  BY <1>3, <1>5

(* The states that the steps save have the type of a RunState.              *)
LEMMA RunStates ==
  ASSUME NEW m \in RunState, NEW b \in Baseline, NoBaseline \in Baseline
  PROVE  /\ [m EXCEPT !.baseline = b] \in RunState
         /\ [m EXCEPT !.tooLarge = TRUE] \in RunState
         /\ [m EXCEPT !.stage = "Complete"] \in RunState
         /\ [m EXCEPT !.reviewed = TRUE] \in RunState
         /\ m.replans < MaxReplans => Subdivided(m, b) \in RunState
         /\ \A terminal \in BOOLEAN : Fresh(terminal) \in RunState
         /\ \A terminal \in BOOLEAN, n \in 0..MaxRemediations :
              [Fresh(terminal) EXCEPT !.remediations = n] \in RunState
<1>1. MaxReplans \in Nat /\ MaxRemediations \in Nat
  BY LimitsAssumption
<1>2. \A terminal \in BOOLEAN : Fresh(terminal) \in RunState
  BY <1>1 DEF Fresh, RunState
<1>3. m.replans < MaxReplans => Subdivided(m, b) \in RunState
  <2>1. m.replans < MaxReplans => m.replans + 1 \in 0..MaxReplans
    BY <1>1 DEF RunState
  <2>2. QED
    BY <2>1 DEF Subdivided, RunState
<1>4. QED
  BY <1>2, <1>3 DEF RunState

(* The commits of a slice stay numbered, HEAD and the recovery refs among   *)
(* them.                                                                    *)
LEMMA NextCommitTypes == Sorted /\ [Next]_vars => CommitTypes'
<1> SUFFICES ASSUME Sorted, [Next]_vars PROVE CommitTypes'
  OBVIOUS
<1> USE DEF Sorted, Types, Based, CommitTypes, Numbered, commits, Save, Goto,
           Restore
<1>1. CASE Anchor
  BY <1>1 DEF Anchor, Numbered
<1>2. CASE HardReset
  BY <1>2 DEF HardReset, Numbered
<1>3. CASE Commit
  <2>1. PICK n \in 0..MaxCommits : made = 1..n
    BY DEF Numbered
  <2>2. Cardinality(made) = n /\ n \in Nat /\ MaxCommits \in Nat
    BY <2>1, MadeNumbered, LimitsAssumption
  <2>3. n + 1 \in 0..MaxCommits /\ made' = made \cup {n + 1} /\ head' = head \cup {n + 1}
    BY <2>2, <1>3 DEF Commit
  <2>4. made' = 1..(n + 1)
    BY <2>1, <2>2, <2>3
  <2>5. agenda' \subseteq made' /\ anchored' = anchored
    BY <2>2, <2>3, <1>3 DEF Commit
  <2>6. QED
    BY <2>3, <2>4, <2>5 DEF Numbered
<1>4. CASE NextSlice
  <2>1. made' = 1..0
    BY <1>4 DEF NextSlice
  <2>2. QED
    BY <1>4, <2>1, LimitsAssumption DEF NextSlice, Numbered
<1>5. CASE WorkerTooLarge \/ WorkerCompletes \/ FrontierFails \/ Rejected \/
          ReviewReady \/ Replanned \/ Remediated \/ WorkerStarts \/ Escalate
          \/ ReviewStarts \/ Clean \/ CopyBack \/ StashApply \/ Unreproducible
          \/ Restored \/ PersistReplan \/ Supersede \/ Arm \/ PersistArmed \/
          Release \/ PersistReleased \/ Edit \/ Crash \/ Resume \/
          AcceptChanges \/ UNCHANGED vars
  <2>1. UNCHANGED <<commits>>
    BY <1>5 DEF WorkerTooLarge, WorkerCompletes, FrontierFails, Rejected,
       ReviewReady, Replanned, Remediated, WorkerStarts, Escalate,
       ReviewStarts, Clean, CopyBack, StashApply, Unreproducible, Restored,
       PersistReplan, Supersede, Arm, PersistArmed, Release, PersistReleased,
       Edit, Crash, Resume, AcceptChanges, vars
  <2>2. QED
    BY <2>1
<1>6. QED
  BY NextCases, <1>1, <1>2, <1>3, <1>4, <1>5

(* The files and the copies keep their types.                               *)
LEMMA NextTreeTypes == Sorted /\ [Next]_vars => TreeTypes'
<1> SUFFICES ASSUME Sorted, [Next]_vars PROVE TreeTypes'
  OBVIOUS
<1> USE DEF Sorted, Types, TreeTypes, tree, Save, Goto, Restore, Content,
           Edits
<1>1. /\ mem.baseline.tracked \in Edits /\ mem.baseline.untracked \in [Paths -> Content]
      /\ tracked \in Edits /\ untracked \in [Paths -> Content] /\ copies \subseteq Snapshots
  BY DEF StateTypes, RunState, Baseline
<1>2. pc \in {"frontier", "disarmed"} => Unused \in Snapshots
  BY UnusedIdentity
<1>3. CASE Edit
  BY <1>1, <1>2, <1>3 DEF Edit
<1>4. CASE Commit
  BY <1>1, <1>2, <1>4 DEF Commit
<1>5. CASE HardReset
  BY <1>1, <1>2, <1>5 DEF HardReset
<1>6. CASE Clean
  BY <1>1, <1>2, <1>6 DEF Clean
<1>7. CASE CopyBack
  BY <1>1, <1>2, <1>7 DEF CopyBack
<1>8. CASE StashApply
  BY <1>1, <1>2, <1>8 DEF StashApply
<1>9. CASE Replanned
  BY <1>1, <1>2, <1>9 DEF Replanned
<1>10. CASE Supersede
  BY <1>1, <1>2, <1>10 DEF Supersede
<1>11. CASE Remediated
  BY <1>1, <1>2, <1>11 DEF Remediated
<1>12. CASE Arm
  BY <1>1, <1>2, <1>12 DEF Arm
<1>13. CASE Release
  BY <1>1, <1>2, <1>13 DEF Release
<1>14. CASE Crash
  BY <1>1, <1>2, <1>14 DEF Crash
<1>15. CASE AcceptChanges
  BY <1>1, <1>2, <1>15 DEF AcceptChanges
<1>16. CASE WorkerTooLarge \/ WorkerCompletes \/ FrontierFails \/ Rejected \/
          ReviewReady \/ WorkerStarts \/ Escalate \/ ReviewStarts \/ Anchor \/
          Unreproducible \/ Restored \/ PersistReplan \/ PersistArmed \/
          PersistReleased \/ NextSlice \/ Resume \/ UNCHANGED vars
  <2>1. UNCHANGED <<tree, copies>>
    BY <1>16 DEF WorkerTooLarge, WorkerCompletes, FrontierFails, Rejected,
       ReviewReady, WorkerStarts, Escalate, ReviewStarts, Anchor,
       Unreproducible, Restored, PersistReplan, PersistArmed, PersistReleased,
       NextSlice, Resume, vars
  <2>2. QED
    BY <1>1, <1>2, <2>1
<1>17. QED
  BY NextCases, <1>3, <1>4, <1>5, <1>6, <1>7, <1>8, <1>9, <1>10, <1>11, <1>12,
     <1>13, <1>14, <1>15, <1>16

(* The state and the checkpoint keep their types: no allowance is exceeded. *)
LEMMA NextStateTypes == Sorted /\ [Next]_vars => StateTypes'
<1> SUFFICES ASSUME Sorted, [Next]_vars PROVE StateTypes'
  OBVIOUS
<1> USE DEF Sorted, Types, StateTypes, Save, Goto, Restore
<1>1. NoBaseline \in Baseline /\ mem.baseline \in Baseline
  BY Baselines DEF RunState
<1>2. pc \in {"frontier", "disarmed"} => Recorded(Unused) \in Baseline
  BY UnusedIdentity, Baselines
<1>3. CASE WorkerTooLarge
  BY <1>1, <1>2, <1>3, RunStates DEF WorkerTooLarge
<1>4. CASE WorkerCompletes
  BY <1>1, <1>2, <1>4, RunStates DEF WorkerCompletes
<1>5. CASE ReviewReady
  BY <1>1, <1>2, <1>5, RunStates DEF ReviewReady
<1>6. CASE Replanned
  <2>1. mem.replans < MaxReplans
    BY <1>6 DEF Replanned, Placed
  <2>2. QED
    BY <1>1, <1>2, <1>6, <2>1, RunStates DEF Replanned
<1>7. CASE PersistReplan
  BY <1>1, <1>2, <1>7 DEF PersistReplan
<1>8. CASE Remediated
  <2>1. mem.remediations + 1 \in 0..MaxRemediations
    BY <1>8, LimitsAssumption DEF Remediated, RunState
  <2>2. QED
    BY <1>1, <1>2, <1>8, <2>1, RunStates DEF Remediated
<1>9. CASE Arm
  BY <1>1, <1>2, <1>9, RunStates DEF Arm
<1>10. CASE PersistArmed
  BY <1>1, <1>2, <1>10 DEF PersistArmed
<1>11. CASE Release
  BY <1>1, <1>2, <1>11, RunStates DEF Release
<1>12. CASE PersistReleased
  BY <1>1, <1>2, <1>12 DEF PersistReleased
<1>13. CASE NextSlice
  <2>1. mem.remediations \in 0..MaxRemediations
    BY DEF RunState
  <2>2. QED
    BY <1>1, <1>2, <1>13, <2>1, RunStates, ZenonT(30) DEF NextSlice
<1>14. CASE AcceptChanges
  BY <1>1, <1>2, <1>14, RunStates DEF AcceptChanges
<1>15. CASE Crash
  BY <1>1, <1>2, <1>15 DEF Crash
<1>16. CASE Resume
  BY <1>1, <1>2, <1>16 DEF Resume
<1>17. CASE FrontierFails \/ Rejected \/ WorkerStarts \/ Escalate \/
          ReviewStarts \/ Anchor \/ HardReset \/ Clean \/ CopyBack \/
          StashApply \/ Unreproducible \/ Restored \/ Supersede \/ Edit \/
          Commit \/ UNCHANGED vars
  <2>1. UNCHANGED <<mem, disk>>
    BY <1>17 DEF FrontierFails, Rejected, WorkerStarts, Escalate,
       ReviewStarts, Anchor, HardReset, Clean, CopyBack, StashApply,
       Unreproducible, Restored, Supersede, Edit, Commit, vars
  <2>2. QED
    BY <1>1, <1>2, <2>1
<1>18. QED
  BY NextCases, <1>3, <1>4, <1>5, <1>6, <1>7, <1>8, <1>9, <1>10, <1>11, <1>12,
     <1>13, <1>14, <1>15, <1>16, <1>17

(* What the process holds besides its state keeps its type.                 *)
LEMMA NextPlaceTypes == Sorted /\ [Next]_vars => PlaceTypes'
<1> SUFFICES ASSUME Sorted, [Next]_vars PROVE PlaceTypes'
  OBVIOUS
<1> USE DEF Sorted, Types, PlaceTypes, process, history, Save, Goto, Restore,
           Running, Rolling, Stopped
<1>1. /\ mem.baseline.tracked \in Edits /\ mem.baseline.untracked \in [Paths -> Content]
      /\ mem.baseline.id \in Snapshots \cup {NoSnapshot}
  BY DEF StateTypes, RunState, Baseline
<1>2. CASE WorkerTooLarge
  BY <1>1, <1>2 DEF WorkerTooLarge
<1>3. CASE WorkerCompletes
  BY <1>1, <1>3 DEF WorkerCompletes
<1>4. CASE FrontierFails
  BY <1>1, <1>4 DEF FrontierFails
<1>5. CASE Rejected
  BY <1>1, <1>5 DEF Rejected
<1>6. CASE ReviewReady
  BY <1>1, <1>6 DEF ReviewReady
<1>7. CASE Replanned
  BY <1>1, <1>7 DEF Replanned
<1>8. CASE Remediated
  BY <1>1, <1>8 DEF Remediated
<1>9. CASE WorkerStarts
  BY <1>1, <1>9 DEF WorkerStarts
<1>10. CASE Escalate
  BY <1>1, <1>10 DEF Escalate
<1>11. CASE ReviewStarts
  BY <1>1, <1>11 DEF ReviewStarts
<1>12. CASE Anchor
  BY <1>1, <1>12 DEF Anchor, Listed
<1>13. CASE HardReset
  BY <1>1, <1>13 DEF HardReset
<1>14. CASE Clean
  BY <1>1, <1>14 DEF Clean
<1>15. CASE CopyBack
  BY <1>1, <1>15 DEF CopyBack
<1>16. CASE StashApply
  BY <1>1, <1>16 DEF StashApply
<1>17. CASE Unreproducible
  BY <1>1, <1>17 DEF Unreproducible
<1>18. CASE Restored
  BY <1>1, <1>18 DEF Restored
<1>19. CASE PersistReplan
  BY <1>1, <1>19 DEF PersistReplan
<1>20. CASE Supersede
  BY <1>1, <1>20 DEF Supersede
<1>21. CASE Arm
  BY <1>1, <1>21 DEF Arm
<1>22. CASE PersistArmed
  BY <1>1, <1>22 DEF PersistArmed
<1>23. CASE Release
  BY <1>1, <1>23 DEF Release
<1>24. CASE PersistReleased
  BY <1>1, <1>24 DEF PersistReleased
<1>25. CASE NextSlice
  BY <1>1, <1>25 DEF NextSlice
<1>26. CASE Edit
  BY <1>1, <1>26 DEF Edit
<1>27. CASE Commit
  BY <1>1, <1>27 DEF Commit
<1>28. CASE Crash
  BY <1>1, <1>28 DEF Crash
<1>29. CASE Resume
  BY <1>1, <1>29 DEF Resume
<1>30. CASE AcceptChanges
  BY <1>1, <1>30 DEF AcceptChanges
<1>31. CASE UNCHANGED vars
  BY <1>1, <1>31 DEF vars
<1>32. QED
  BY NextCases, <1>2, <1>3, <1>4, <1>5, <1>6, <1>7, <1>8, <1>9, <1>10, <1>11,
     <1>12, <1>13, <1>14, <1>15, <1>16, <1>17, <1>18, <1>19, <1>20, <1>21,
     <1>22, <1>23, <1>24, <1>25, <1>26, <1>27, <1>28, <1>29, <1>30, <1>31

(* Every step persists what it changes, those between two checkpoints       *)
(* apart.                                                                   *)
LEMMA NextPersisted == Sorted /\ [Next]_vars => Persisted'
<1> SUFFICES ASSUME Sorted, [Next]_vars PROVE Persisted'
  OBVIOUS
<1> USE DEF Sorted, Persisted, process, Save, Goto, Restore
<1>1. CASE WorkerTooLarge
  BY <1>1 DEF WorkerTooLarge
<1>2. CASE WorkerCompletes
  BY <1>2 DEF WorkerCompletes
<1>3. CASE FrontierFails
  BY <1>3 DEF FrontierFails
<1>4. CASE Rejected
  BY <1>4 DEF Rejected
<1>5. CASE ReviewReady
  BY <1>5 DEF ReviewReady
<1>6. CASE Replanned
  BY <1>6 DEF Replanned
<1>7. CASE Remediated
  BY <1>7 DEF Remediated
<1>8. CASE WorkerStarts
  BY <1>8 DEF WorkerStarts
<1>9. CASE Escalate
  BY <1>9 DEF Escalate
<1>10. CASE ReviewStarts
  BY <1>10 DEF ReviewStarts
<1>11. CASE Anchor
  BY <1>11 DEF Anchor
<1>12. CASE HardReset
  BY <1>12 DEF HardReset
<1>13. CASE Clean
  BY <1>13 DEF Clean
<1>14. CASE CopyBack
  BY <1>14 DEF CopyBack
<1>15. CASE StashApply
  BY <1>15 DEF StashApply
<1>16. CASE Unreproducible
  BY <1>16 DEF Unreproducible
<1>17. CASE Restored
  BY <1>17 DEF Restored
<1>18. CASE PersistReplan
  BY <1>18 DEF PersistReplan
<1>19. CASE Supersede
  BY <1>19 DEF Supersede
<1>20. CASE Arm
  BY <1>20 DEF Arm
<1>21. CASE PersistArmed
  BY <1>21 DEF PersistArmed
<1>22. CASE Release
  BY <1>22 DEF Release
<1>23. CASE PersistReleased
  BY <1>23 DEF PersistReleased
<1>24. CASE NextSlice
  BY <1>24 DEF NextSlice
<1>25. CASE Edit
  BY <1>25 DEF Edit
<1>26. CASE Commit
  BY <1>26 DEF Commit
<1>27. CASE Crash
  BY <1>27 DEF Crash
<1>28. CASE Resume
  BY <1>28 DEF Resume
<1>29. CASE AcceptChanges
  BY <1>29 DEF AcceptChanges
<1>30. CASE UNCHANGED vars
  BY <1>30 DEF vars
<1>31. QED
  BY NextCases, <1>1, <1>2, <1>3, <1>4, <1>5, <1>6, <1>7, <1>8, <1>9, <1>10,
     <1>11, <1>12, <1>13, <1>14, <1>15, <1>16, <1>17, <1>18, <1>19, <1>20,
     <1>21, <1>22, <1>23, <1>24, <1>25, <1>26, <1>27, <1>28, <1>29, <1>30

(* The process goes where its state allows.                                 *)
LEMMA NextPlaced == Sorted /\ [Next]_vars => Placed'
<1> SUFFICES ASSUME Sorted, [Next]_vars PROVE Placed'
  OBVIOUS
<1> USE DEF Sorted, Placed, Types, StateTypes, Persisted, process, Save, Goto,
           Restore, Rolling
<1>1. /\ MaxReplans \in Nat /\ mem.replans \in Nat
  BY LimitsAssumption DEF RunState
<1>2. CASE WorkerTooLarge
  BY <1>1, <1>2 DEF WorkerTooLarge, RunState
<1>3. CASE WorkerCompletes
  BY <1>1, <1>3 DEF WorkerCompletes, RunState
<1>4. CASE FrontierFails
  BY <1>1, <1>4 DEF FrontierFails
<1>5. CASE Rejected
  BY <1>1, <1>5 DEF Rejected, RunState
<1>6. CASE ReviewReady
  BY <1>1, <1>6 DEF ReviewReady, RunState
<1>7. CASE Replanned
  BY <1>1, <1>7 DEF Replanned, Subdivided, RunState
<1>8. CASE Remediated
  BY <1>1, <1>8 DEF Remediated, Fresh, RunState, NoBaseline
<1>9. CASE WorkerStarts
  BY <1>1, <1>9 DEF WorkerStarts
<1>10. CASE Escalate
  BY <1>1, <1>10 DEF Escalate, LimitReached, RunState
<1>11. CASE ReviewStarts
  BY <1>1, <1>11 DEF ReviewStarts, RunState
<1>12. CASE Anchor
  BY <1>1, <1>12 DEF Anchor
<1>13. CASE HardReset
  BY <1>1, <1>13 DEF HardReset
<1>14. CASE Clean
  BY <1>1, <1>14 DEF Clean
<1>15. CASE CopyBack
  BY <1>1, <1>15 DEF CopyBack
<1>16. CASE StashApply
  BY <1>1, <1>16 DEF StashApply
<1>17. CASE Unreproducible
  BY <1>1, <1>17 DEF Unreproducible
<1>18. CASE Restored
  BY <1>1, <1>18 DEF Restored
<1>19. CASE PersistReplan
  BY <1>1, <1>19 DEF PersistReplan
<1>20. CASE Supersede
  BY <1>1, <1>20 DEF Supersede
<1>21. CASE Arm
  BY <1>1, <1>21 DEF Arm, RunState
<1>22. CASE PersistArmed
  BY <1>1, <1>22 DEF PersistArmed
<1>23. CASE Release
  BY <1>1, <1>23 DEF Release, RunState
<1>24. CASE PersistReleased
  BY <1>1, <1>24 DEF PersistReleased
<1>25. CASE NextSlice
  BY <1>1, <1>25 DEF NextSlice, Fresh
<1>26. CASE Edit
  BY <1>1, <1>26 DEF Edit
<1>27. CASE Commit
  BY <1>1, <1>27 DEF Commit
<1>28. CASE Crash
  BY <1>1, <1>28 DEF Crash
<1>29. CASE Resume
  BY <1>1, <1>29 DEF Resume
<1>30. CASE AcceptChanges
  BY <1>1, <1>30 DEF AcceptChanges, Fresh
<1>31. CASE UNCHANGED vars
  BY <1>1, <1>31 DEF vars
<1>32. QED
  BY NextCases, <1>2, <1>3, <1>4, <1>5, <1>6, <1>7, <1>8, <1>9, <1>10, <1>11,
     <1>12, <1>13, <1>14, <1>15, <1>16, <1>17, <1>18, <1>19, <1>20, <1>21,
     <1>22, <1>23, <1>24, <1>25, <1>26, <1>27, <1>28, <1>29, <1>30, <1>31

(* No slice inherits the commits of the one before it.                      *)
LEMMA NextBased == Sorted /\ [Next]_vars => Based'
<1> SUFFICES ASSUME Sorted, [Next]_vars PROVE Based'
  OBVIOUS
<1> USE DEF Sorted, Based, Types, StateTypes, CommitTypes, Persisted, Placed,
           commits, Save, Goto, Restore
<1>1. CASE WorkerTooLarge
  BY <1>1 DEF WorkerTooLarge, RunState
<1>2. CASE WorkerCompletes
  BY <1>2 DEF WorkerCompletes, RunState
<1>3. CASE FrontierFails
  BY <1>3 DEF FrontierFails
<1>4. CASE Rejected
  BY <1>4 DEF Rejected
<1>5. CASE ReviewReady
  BY <1>5 DEF ReviewReady, RunState
<1>6. CASE Replanned
  BY <1>6 DEF Replanned, Subdivided, RunState, Recorded
<1>7. CASE Remediated
  BY <1>7 DEF Remediated, Fresh, RunState, NoBaseline
<1>8. CASE WorkerStarts
  BY <1>8 DEF WorkerStarts
<1>9. CASE Escalate
  BY <1>9 DEF Escalate
<1>10. CASE ReviewStarts
  BY <1>10 DEF ReviewStarts
<1>11. CASE Anchor
  BY <1>11 DEF Anchor
<1>12. CASE HardReset
  BY <1>12 DEF HardReset
<1>13. CASE Clean
  BY <1>13 DEF Clean
<1>14. CASE CopyBack
  BY <1>14 DEF CopyBack
<1>15. CASE StashApply
  BY <1>15 DEF StashApply
<1>16. CASE Unreproducible
  BY <1>16 DEF Unreproducible
<1>17. CASE Restored
  BY <1>17 DEF Restored
<1>18. CASE PersistReplan
  BY <1>18 DEF PersistReplan
<1>19. CASE Supersede
  BY <1>19 DEF Supersede
<1>20. CASE Arm
  BY <1>20 DEF Arm, RunState, Recorded
<1>21. CASE PersistArmed
  BY <1>21 DEF PersistArmed
<1>22. CASE Release
  BY <1>22 DEF Release, RunState, NoBaseline
<1>23. CASE PersistReleased
  BY <1>23 DEF PersistReleased
<1>24. CASE NextSlice
  BY <1>24 DEF NextSlice, Fresh, NoBaseline
<1>25. CASE Edit
  BY <1>25 DEF Edit
<1>26. CASE Commit
  BY <1>26 DEF Commit
<1>27. CASE Crash
  BY <1>27 DEF Crash
<1>28. CASE Resume
  BY <1>28 DEF Resume
<1>29. CASE AcceptChanges
  BY <1>29 DEF AcceptChanges, Fresh, NoBaseline
<1>30. CASE UNCHANGED vars
  BY <1>30 DEF vars
<1>31. QED
  BY NextCases, <1>1, <1>2, <1>3, <1>4, <1>5, <1>6, <1>7, <1>8, <1>9, <1>10,
     <1>11, <1>12, <1>13, <1>14, <1>15, <1>16, <1>17, <1>18, <1>19, <1>20,
     <1>21, <1>22, <1>23, <1>24, <1>25, <1>26, <1>27, <1>28, <1>29, <1>30

(* No step leaves the types and places.                                     *)
LEMMA NextSorted == Sorted /\ [Next]_vars => Sorted'
BY NextCommitTypes, NextTreeTypes, NextStateTypes, NextPlaceTypes, NextPersisted, NextPlaced,
   NextBased DEF Sorted, Types

(* A slice starts with its baseline recorded and saved.                     *)
LEMMA InitSorted == Init => Sorted
<1> SUFFICES ASSUME Init PROVE Sorted
  OBVIOUS
<1> DEFINE first == CHOOSE id \in Snapshots : TRUE
<1>1. first \in Snapshots /\ MaxCommits \in Nat
  BY SnapshotAssumption, LimitsAssumption
<1> HIDE DEF first
<1>2. CommitTypes
  <2>1. made = 1..0 /\ 0 \in 0..MaxCommits
    BY <1>1 DEF Init
  <2>2. QED
    BY <2>1 DEF Init, CommitTypes, Numbered
<1>3. TreeTypes
  BY <1>1 DEF Init, TreeTypes, Edits, Content, first
<1>4. PICK terminal \in BOOLEAN : mem = [Fresh(terminal) EXCEPT !.baseline = Recorded(first)]
  BY DEF Init, first
<1>5. Recorded(first) \in Baseline /\ NoBaseline \in Baseline
  BY <1>1, <1>2, <1>3, Baselines
<1>6. Fresh(terminal) \in RunState
  BY <1>5, LimitsAssumption DEF Fresh, RunState
<1>7. StateTypes
  BY <1>4, <1>5, <1>6, RunStates DEF Init, StateTypes
<1>8. PlaceTypes
  BY <1>3 DEF Init, PlaceTypes, TreeTypes, Running
<1>9. Persisted /\ Placed
  BY DEF Init, Persisted, Placed, Rolling
<1>10. Based
  BY <1>4, <1>6 DEF Init, Based, Recorded, RunState
<1>11. QED
  BY <1>2, <1>3, <1>7, <1>8, <1>9, <1>10 DEF Sorted, Types

(* Copies are released only when the checkpoint names others, or none.      *)
LEMMA NextCopiesKept == Sorted /\ CopiesKept /\ [Next]_vars => CopiesKept'
<1> SUFFICES ASSUME Sorted /\ CopiesKept, [Next]_vars PROVE CopiesKept'
  OBVIOUS
<1> USE DEF Sorted, Types, StateTypes, Persisted, Placed, CopiesKept, process,
           history, Save, Goto, Restore, Stopped
<1>1. pc \in {"frontier", "disarmed"} =>
        Unused \notin {mem.baseline.id, disk.baseline.id}
  BY UnusedIdentity
<1>2. CASE WorkerTooLarge
  BY <1>1, <1>2 DEF WorkerTooLarge, RunState
<1>3. CASE WorkerCompletes
  BY <1>1, <1>3 DEF WorkerCompletes, RunState
<1>4. CASE FrontierFails
  BY <1>1, <1>4 DEF FrontierFails
<1>5. CASE Rejected
  BY <1>1, <1>5 DEF Rejected
<1>6. CASE ReviewReady
  BY <1>1, <1>6 DEF ReviewReady, RunState
<1>7. CASE Replanned
  BY <1>1, <1>7 DEF Replanned, Subdivided, RunState, Recorded
<1>8. CASE Remediated
  BY <1>1, <1>8 DEF Remediated, Fresh, RunState
<1>9. CASE WorkerStarts
  BY <1>1, <1>9 DEF WorkerStarts
<1>10. CASE Escalate
  BY <1>1, <1>10 DEF Escalate
<1>11. CASE ReviewStarts
  BY <1>1, <1>11 DEF ReviewStarts
<1>12. CASE Anchor
  BY <1>1, <1>12 DEF Anchor
<1>13. CASE HardReset
  BY <1>1, <1>13 DEF HardReset
<1>14. CASE Clean
  BY <1>1, <1>14 DEF Clean
<1>15. CASE CopyBack
  BY <1>1, <1>15 DEF CopyBack
<1>16. CASE StashApply
  BY <1>1, <1>16 DEF StashApply
<1>17. CASE Unreproducible
  BY <1>1, <1>17 DEF Unreproducible
<1>18. CASE Restored
  BY <1>1, <1>18 DEF Restored
<1>19. CASE PersistReplan
  BY <1>1, <1>19 DEF PersistReplan
<1>20. CASE Supersede
  BY <1>1, <1>20 DEF Supersede
<1>21. CASE Arm
  BY <1>1, <1>21 DEF Arm, RunState, Recorded
<1>22. CASE PersistArmed
  BY <1>1, <1>22 DEF PersistArmed
<1>23. CASE Release
  BY <1>1, <1>23 DEF Release, RunState
<1>24. CASE PersistReleased
  BY <1>1, <1>24 DEF PersistReleased
<1>25. CASE NextSlice
  BY <1>1, <1>25 DEF NextSlice
<1>26. CASE Edit
  BY <1>1, <1>26 DEF Edit
<1>27. CASE Commit
  BY <1>1, <1>27 DEF Commit
<1>28. CASE Crash
  BY <1>1, <1>28 DEF Crash, Disarmed
<1>29. CASE Resume
  BY <1>1, <1>29 DEF Resume
<1>30. CASE AcceptChanges
  BY <1>1, <1>30 DEF AcceptChanges
<1>31. CASE UNCHANGED vars
  BY <1>1, <1>31 DEF vars
<1>32. QED
  BY NextCases, <1>2, <1>3, <1>4, <1>5, <1>6, <1>7, <1>8, <1>9, <1>10, <1>11,
     <1>12, <1>13, <1>14, <1>15, <1>16, <1>17, <1>18, <1>19, <1>20, <1>21,
     <1>22, <1>23, <1>24, <1>25, <1>26, <1>27, <1>28, <1>29, <1>30, <1>31

(* A baseline that replaces another records the edits the slice began with. *)
LEMMA NextBegunRecorded == Sorted /\ BegunRecorded /\ [Next]_vars => BegunRecorded'
<1> SUFFICES ASSUME Sorted /\ BegunRecorded, [Next]_vars PROVE BegunRecorded'
  OBVIOUS
<1> USE DEF Sorted, Types, StateTypes, Persisted, Placed, BegunRecorded,
           State, tree, process, history, Save, Goto, Restore, Stopped
<1>1. CASE WorkerTooLarge
  BY <1>1 DEF WorkerTooLarge, RunState
<1>2. CASE WorkerCompletes
  BY <1>2 DEF WorkerCompletes, RunState
<1>3. CASE FrontierFails
  BY <1>3 DEF FrontierFails
<1>4. CASE Rejected
  BY <1>4 DEF Rejected
<1>5. CASE ReviewReady
  BY <1>5 DEF ReviewReady, RunState
<1>6. CASE Replanned
  BY <1>6 DEF Replanned, Subdivided, RunState, Recorded, Rearranged, Matches
<1>7. CASE Remediated
  BY <1>7 DEF Remediated, Rearranged, Matches
<1>8. CASE WorkerStarts
  BY <1>8 DEF WorkerStarts
<1>9. CASE Escalate
  BY <1>9 DEF Escalate
<1>10. CASE ReviewStarts
  BY <1>10 DEF ReviewStarts
<1>11. CASE Anchor
  BY <1>11 DEF Anchor
<1>12. CASE HardReset
  BY <1>12 DEF HardReset
<1>13. CASE Clean
  BY <1>13 DEF Clean
<1>14. CASE CopyBack
  BY <1>14 DEF CopyBack
<1>15. CASE StashApply
  BY <1>15 DEF StashApply
<1>16. CASE Unreproducible
  BY <1>16 DEF Unreproducible
<1>17. CASE Restored
  BY <1>17 DEF Restored
<1>18. CASE PersistReplan
  BY <1>18 DEF PersistReplan
<1>19. CASE Supersede
  BY <1>19 DEF Supersede
<1>20. CASE Arm
  BY <1>20 DEF Arm, RunState, Recorded
<1>21. CASE PersistArmed
  BY <1>21 DEF PersistArmed
<1>22. CASE Release
  BY <1>22 DEF Release, RunState
<1>23. CASE PersistReleased
  BY <1>23 DEF PersistReleased
<1>24. CASE NextSlice
  BY <1>24 DEF NextSlice
<1>25. CASE Edit
  BY <1>25 DEF Edit
<1>26. CASE Commit
  BY <1>26 DEF Commit
<1>27. CASE Crash
  BY <1>27 DEF Crash
<1>28. CASE Resume
  BY <1>28 DEF Resume
<1>29. CASE AcceptChanges
  BY <1>29 DEF AcceptChanges
<1>30. CASE UNCHANGED vars
  BY <1>30 DEF vars
<1>31. QED
  BY NextCases, <1>1, <1>2, <1>3, <1>4, <1>5, <1>6, <1>7, <1>8, <1>9, <1>10,
     <1>11, <1>12, <1>13, <1>14, <1>15, <1>16, <1>17, <1>18, <1>19, <1>20,
     <1>21, <1>22, <1>23, <1>24, <1>25, <1>26, <1>27, <1>28, <1>29, <1>30

(* Every step of a rollback restores its part and spoils none.              *)
LEMMA NextRolledBack == Sorted /\ CopiesKept /\ RolledBack /\ [Next]_vars => RolledBack'
<1> SUFFICES ASSUME Sorted /\ CopiesKept /\ RolledBack, [Next]_vars PROVE RolledBack'
  OBVIOUS
<1> USE DEF Sorted, Types, StateTypes, Persisted, Placed, TreeTypes,
           CopiesKept, RolledBack, tree, process, history, Save, Goto,
           Restore, Stopped, Rolling, Listed
<1>1. CASE WorkerTooLarge
  BY <1>1 DEF WorkerTooLarge
<1>2. CASE WorkerCompletes
  BY <1>2 DEF WorkerCompletes
<1>3. CASE FrontierFails
  BY <1>3 DEF FrontierFails
<1>4. CASE Rejected
  BY <1>4 DEF Rejected
<1>5. CASE ReviewReady
  BY <1>5 DEF ReviewReady
<1>6. CASE Replanned
  BY <1>6 DEF Replanned
<1>7. CASE Remediated
  BY <1>7 DEF Remediated
<1>8. CASE WorkerStarts
  BY <1>8 DEF WorkerStarts
<1>9. CASE Escalate
  BY <1>9 DEF Escalate
<1>10. CASE ReviewStarts
  BY <1>10 DEF ReviewStarts
<1>11. CASE Anchor
  BY <1>11 DEF Anchor
<1>12. CASE HardReset
  BY <1>12 DEF HardReset
<1>13. CASE Clean
  BY <1>13 DEF Clean
<1>14. CASE CopyBack
  <2> DEFINE b == mem.baseline
  <2>1. b.untracked \in [Paths -> Content] /\ untracked \in [Paths -> Content]
    BY DEF RunState, Baseline
  <2>2. ~torn => b.id \in copies
    BY <1>14 DEF CopyBack
  <2>3. untracked' = [p \in Paths |-> IF p \in Listed(b.untracked) /\ b.id \in copies
                                        THEN b.untracked[p] ELSE untracked[p]]
    BY <1>14 DEF CopyBack
  <2>4. \A p \in Paths : b.untracked[p] = "none" => untracked[p] = "none"
    BY <1>14 DEF CopyBack
  <2>5. ~torn => \A p \in Paths : untracked'[p] = b.untracked[p]
    BY <2>2, <2>3, <2>4
  <2>6. ~torn => untracked' = b.untracked
    BY <2>1, <2>3, <2>5
  <2>7. QED
    BY <1>14, <2>6 DEF CopyBack
<1>15. CASE StashApply
  BY <1>15 DEF StashApply
<1>16. CASE Unreproducible
  BY <1>16 DEF Unreproducible, Matches
<1>17. CASE Restored
  BY <1>17 DEF Restored
<1>18. CASE PersistReplan
  BY <1>18 DEF PersistReplan
<1>19. CASE Supersede
  BY <1>19 DEF Supersede
<1>20. CASE Arm
  BY <1>20 DEF Arm
<1>21. CASE PersistArmed
  BY <1>21 DEF PersistArmed
<1>22. CASE Release
  BY <1>22 DEF Release
<1>23. CASE PersistReleased
  BY <1>23 DEF PersistReleased
<1>24. CASE NextSlice
  BY <1>24 DEF NextSlice
<1>25. CASE Edit
  BY <1>25 DEF Edit
<1>26. CASE Commit
  BY <1>26 DEF Commit
<1>27. CASE Crash
  BY <1>27 DEF Crash
<1>28. CASE Resume
  BY <1>28 DEF Resume
<1>29. CASE AcceptChanges
  BY <1>29 DEF AcceptChanges
<1>30. CASE UNCHANGED vars
  BY <1>30 DEF vars
<1>31. QED
  BY NextCases, <1>1, <1>2, <1>3, <1>4, <1>5, <1>6, <1>7, <1>8, <1>9, <1>10,
     <1>11, <1>12, <1>13, <1>14, <1>15, <1>16, <1>17, <1>18, <1>19, <1>20,
     <1>21, <1>22, <1>23, <1>24, <1>25, <1>26, <1>27, <1>28, <1>29, <1>30

(* No commit drops out of both HEAD and the recovery refs.                  *)
LEMMA NextCommitsKept == Sorted /\ CommitsKept /\ [Next]_vars => CommitsKept'
<1> SUFFICES ASSUME Sorted /\ CommitsKept, [Next]_vars PROVE CommitsKept'
  OBVIOUS
<1> USE DEF Sorted, Types, StateTypes, Persisted, Placed, CommitsKept,
           commits, Save, Goto, Restore, Stopped
<1>1. CASE WorkerTooLarge
  BY <1>1 DEF WorkerTooLarge
<1>2. CASE WorkerCompletes
  BY <1>2 DEF WorkerCompletes
<1>3. CASE FrontierFails
  BY <1>3 DEF FrontierFails
<1>4. CASE Rejected
  BY <1>4 DEF Rejected
<1>5. CASE ReviewReady
  BY <1>5 DEF ReviewReady
<1>6. CASE Replanned
  BY <1>6 DEF Replanned
<1>7. CASE Remediated
  BY <1>7 DEF Remediated
<1>8. CASE WorkerStarts
  BY <1>8 DEF WorkerStarts
<1>9. CASE Escalate
  BY <1>9 DEF Escalate
<1>10. CASE ReviewStarts
  BY <1>10 DEF ReviewStarts
<1>11. CASE Anchor
  BY <1>11 DEF Anchor
<1>12. CASE HardReset
  BY <1>12 DEF HardReset
<1>13. CASE Clean
  BY <1>13 DEF Clean
<1>14. CASE CopyBack
  BY <1>14 DEF CopyBack
<1>15. CASE StashApply
  BY <1>15 DEF StashApply
<1>16. CASE Unreproducible
  BY <1>16 DEF Unreproducible
<1>17. CASE Restored
  BY <1>17 DEF Restored
<1>18. CASE PersistReplan
  BY <1>18 DEF PersistReplan
<1>19. CASE Supersede
  BY <1>19 DEF Supersede
<1>20. CASE Arm
  BY <1>20 DEF Arm
<1>21. CASE PersistArmed
  BY <1>21 DEF PersistArmed
<1>22. CASE Release
  BY <1>22 DEF Release
<1>23. CASE PersistReleased
  BY <1>23 DEF PersistReleased
<1>24. CASE NextSlice
  BY <1>24 DEF NextSlice
<1>25. CASE Edit
  BY <1>25 DEF Edit
<1>26. CASE Commit
  BY <1>26 DEF Commit
<1>27. CASE Crash
  BY <1>27 DEF Crash
<1>28. CASE Resume
  BY <1>28 DEF Resume
<1>29. CASE AcceptChanges
  BY <1>29 DEF AcceptChanges
<1>30. CASE UNCHANGED vars
  BY <1>30 DEF vars
<1>31. QED
  BY NextCases, <1>1, <1>2, <1>3, <1>4, <1>5, <1>6, <1>7, <1>8, <1>9, <1>10,
     <1>11, <1>12, <1>13, <1>14, <1>15, <1>16, <1>17, <1>18, <1>19, <1>20,
     <1>21, <1>22, <1>23, <1>24, <1>25, <1>26, <1>27, <1>28, <1>29, <1>30

(* A slice starts with the copies and the edits of its baseline.            *)
LEMMA InitRecovery == Init => CopiesKept /\ BegunRecorded /\ RolledBack /\ CommitsKept
<1> SUFFICES ASSUME Init PROVE CopiesKept /\ BegunRecorded /\ RolledBack /\ CommitsKept
  OBVIOUS
<1> DEFINE first == CHOOSE id \in Snapshots : TRUE
<1>1. PICK terminal \in BOOLEAN :
        /\ mem = [Fresh(terminal) EXCEPT !.baseline = Recorded(first)] /\ copies = {first}
  BY DEF Init
<1> HIDE DEF first
<1>2. mem.baseline = Recorded(first)
  BY <1>1 DEF Fresh
<1>3. /\ mem.baseline.id = first
      /\ mem.baseline.tracked = tracked /\ mem.baseline.untracked = untracked
  BY <1>2 DEF Recorded
<1>4. disk = mem /\ pc = "loop" /\ begun = <<tracked, untracked>> /\ made = {}
  BY DEF Init
<1>5. QED
  BY <1>1, <1>3, <1>4 DEF CopiesKept, BegunRecorded, State, RolledBack, CommitsKept
-----------------------------------------------------------------------------
(* Every reachable state of capacity recovery has its type: the allowances  *)
(* of replans and remediations are never exceeded, and a checkpoint names   *)
(* commits of its slice only.                                               *)
THEOREM RecoveryTypes == Spec => []TypeOK
<1>1. Init => Sorted
  BY InitSorted
<1>2. Sorted /\ [Next]_vars => Sorted'
  BY NextSorted
<1>3. Sorted => TypeOK
  BY TypesSuffice DEF Sorted
<1>4. QED
  BY <1>1, <1>2, <1>3, PTL DEF Spec

(* Whenever the run stops before its slice is complete, the baseline that   *)
(* the checkpoint names has its copies, but for a crash while a remediation *)
(* or a correction changes baselines.                                       *)
THEOREM BaselinesKept == Spec => []BaselineKept
<1>1. Init => Sorted /\ CopiesKept
  BY InitSorted, InitRecovery
<1>2. Sorted /\ CopiesKept /\ [Next]_vars => (Sorted /\ CopiesKept)'
  BY NextSorted, NextCopiesKept
<1>3. CopiesKept => BaselineKept
  BY DEF CopiesKept, BaselineKept
<1>4. QED
  BY <1>1, <1>2, <1>3, PTL DEF Spec

(* A rollback reproduces the recorded state, whatever was done to the tree  *)
(* and however often the rollback itself was interrupted.                   *)
THEOREM RollbacksReproduce == Spec => []RollbackReproduces
<1>1. Init => Sorted /\ CopiesKept /\ RolledBack
  BY InitSorted, InitRecovery
<1>2. Sorted /\ CopiesKept /\ RolledBack /\ [Next]_vars => (Sorted /\ CopiesKept /\ RolledBack)'
  BY NextSorted, NextCopiesKept, NextRolledBack
<1>3. RolledBack => RollbackReproduces
  BY DEF RolledBack, RollbackReproduces
<1>4. QED
  BY <1>1, <1>2, <1>3, PTL DEF Spec

(* After a rollback the tree has the user's edits from before the slice,    *)
(* and no commit of the slice is lost: each is in HEAD or a recovery ref.   *)
THEOREM RollbacksKeepWork == Spec => []WorkKept
<1> DEFINE Kept == CopiesKept /\ BegunRecorded /\ RolledBack /\ CommitsKept
<1>1. Init => Sorted /\ Kept
  BY InitSorted, InitRecovery
<1>2. Sorted /\ Kept /\ [Next]_vars => (Sorted /\ Kept)'
  BY NextSorted, NextCopiesKept, NextBegunRecorded, NextRolledBack, NextCommitsKept
<1>3. Sorted /\ Kept => WorkKept
  <2> SUFFICES ASSUME Sorted, Kept PROVE WorkKept
    OBVIOUS
  <2>1. pc = "check" => mem = disk /\ mem.stage = "Propose"
    BY DEF Sorted, Persisted, Placed, Rolling
  <2>2. pc = "check" /\ ~torn =>
          tracked = mem.baseline.tracked /\ untracked = mem.baseline.untracked
    BY DEF RolledBack
  <2>3. disk.stage # "Complete" => begun = <<disk.baseline.tracked, disk.baseline.untracked>>
    BY DEF BegunRecorded, State
  <2>4. QED
    BY <2>1, <2>2, <2>3 DEF WorkKept, CommitsKept
<1> HIDE DEF Kept
<1>4. QED
  BY <1>1, <1>2, <1>3, PTL DEF Spec
=============================================================================
