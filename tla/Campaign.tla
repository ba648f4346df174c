------------------------------ MODULE Campaign ------------------------------
(***************************************************************************)
(* An agenda campaign (src/src/agenda.rs; run_workflows, assign_agenda,    *)
(* resume, forget and rewind in src/src/app.rs): the slices of the agenda, *)
(* which of them is assigned next, the iterations the checkpoint counts,   *)
(* and the frontier sessions that subdivide a slice or review the terminal *)
(* gate and insert slices before it.                                       *)
(*                                                                         *)
(* How a slice is worked on is Workflow, how an attempt is rolled back is  *)
(* Rollback: here the stages up to Archive are one session.  A process     *)
(* that pauses, fails or dies leaves its checkpoint.  Nobody but the       *)
(* planner of the bootstrap, a frontier session and a rewind changes the   *)
(* agenda.  A slice keeps its name; the text of one is not looked at.      *)
(***************************************************************************)
EXTENDS FiniteSets, Agenda

CONSTANTS
  Slices,           \* files automation/slices may have: [ordinal, slug]
  Terminal,         \* 9999-project-acceptance
  MaxReplans,       \* MAX_FRONTIER_REPLANS
  MaxRemediations,  \* --max-terminal-remediations
  Limits,           \* values of --max-iterations; 0: none
  Agendas,          \* agendas a maintainer may have written; {}: none
  MaxStarts         \* bound: starts and resumptions of the runner

(* Ordinals have a component, and 9999 is the last in use.                  *)
ASSUME CampaignAssumption ==
  /\ Terminal \in Slices /\ Agendas \subseteq SUBSET Slices /\ Limits \subseteq Nat
  /\ \A s \in Slices : s.ordinal \in Seq(Nat) \ {<<>>}
  /\ \A s \in Slices \ {Terminal} : s.ordinal[1] < Terminal.ordinal[1]
  /\ \A n \in {MaxReplans, MaxRemediations, MaxStarts} : n \in Nat

VARIABLES
  agenda,      \* the slices under automation/slices, committed
  archived,    \* the changes in openspec/changes/archive
  commits,     \* what a rewind can go back to
  local,       \* the process runs with --local-only: it has no frontier connection
  mem,         \* RunState in the process
  disk,        \* RunState in last-run.json
  pc,          \* where the process is; "idle": there is none
  starts,      \* starts of the runner so far
  doneSince,   \* history: the changes archived since the run was started
  rounds,      \* history: remediation rounds accepted since then
  allowed,     \* history: the highest limit the campaign has run under; 0: none
  reviewed,    \* history: what was archived when the review of the gate said READY
  torn         \* history: a rewind was interrupted

repository == <<agenda, archived, commits>>
history == <<doneSince, rounds, allowed, reviewed, torn>>
campaign == <<repository, local, mem, disk, pc, starts, history>>

NoSlice == [ordinal |-> <<>>, slug |-> 0]

RunState ==
  [stage : {"none", "Propose", "Archive", "Complete", "Done"},
   slice : Slices \cup {NoSlice}, base : SUBSET Slices, bootstrap : BOOLEAN,
   loop : BOOLEAN, iteration : Nat, limit : Limits \cup {0}, completed : Seq(Slices),
   localOnly : BOOLEAN, ready : BOOLEAN, tooLarge : BOOLEAN,
   replans : 0..MaxReplans, remediations : 0..MaxRemediations]

CampaignTypeOK ==
  /\ agenda \subseteq Slices /\ archived \subseteq Slices
  /\ commits \subseteq [agenda : SUBSET Slices, archived : SUBSET Slices]
  /\ local \in BOOLEAN /\ mem \in RunState /\ disk \in RunState
  /\ pc \in {"idle", "loop", "work", "archive", "archived", "complete", "next", "frontier",
             "session", "again", "rewinding"}
  /\ starts \in 0..MaxStarts
  /\ doneSince \subseteq Slices /\ rounds \in Nat /\ allowed \in Nat
  /\ reviewed \subseteq Slices /\ torn \in BOOLEAN
-----------------------------------------------------------------------------
(* discover                                                                 *)

(* unique_match: the name of a change may have a prefix, such as its date.  *)
EndsWith(change, s) == change.slug = s.slug /\ IsSuffix(s.ordinal, change.ordinal)
Archives(s) == {change \in archived : EndsWith(change, s)}

(* The first slice without exactly one archived change.                     *)
Pending(slices) == {s \in slices : Cardinality(Archives(s)) # 1}
Selects(slices, s) ==
  ~Ambiguous(slices) /\ IsFirst(s, Pending(slices)) /\ Archives(s) = {}
Complete(slices) == slices # {} /\ ~Ambiguous(slices) /\ Pending(slices) = {}

(* validate_agenda of the bootstrap                                         *)
ValidAgenda(slices) ==
  /\ Terminal \in slices /\ Cardinality(slices) >= 2
  /\ ~Ambiguous(slices) /\ \A s \in slices : Len(s.ordinal) = 1
-----------------------------------------------------------------------------
NoState ==
  [stage |-> "none", slice |-> NoSlice, base |-> {}, bootstrap |-> FALSE, loop |-> FALSE,
   iteration |-> 1, limit |-> 0, completed |-> <<>>, localOnly |-> FALSE, ready |-> FALSE,
   tooLarge |-> FALSE, replans |-> 0, remediations |-> 0]

Gate(m) == m.slice = Terminal
Max2(a, b) == IF a = 0 \/ b = 0 THEN 0 ELSE IF a < b THEN b ELSE a

CampaignInit ==
  /\ agenda \in Agendas /\ archived = {}
  /\ commits = {[agenda |-> agenda, archived |-> {}]}
  /\ local = FALSE /\ mem = NoState /\ disk = NoState /\ pc = "idle" /\ starts = 0
  /\ doneSince = {} /\ rounds = 0 /\ allowed = 0 /\ reviewed = {} /\ torn = FALSE

Save(m) == mem' = m /\ disk' = m
Stop == pc' = "idle" /\ mem' = NoState /\ local' = FALSE /\ UNCHANGED disk

(* assign_agenda and arm_slice_baseline, for a state that has no slice yet:  *)
(* the state is saved with the next slice, or as Done; an agenda that cannot *)
(* be read, or that is not there, is an error.                              *)
Assigned(m, n) ==
  \/ \E s \in agenda :
       Selects(agenda, s) /\ n = [m EXCEPT !.stage = "Propose", !.slice = s, !.base = agenda]
  \/ Complete(agenda) /\ n = [m EXCEPT !.stage = "Done"]

States(m) == {m} \cup {[m EXCEPT !.stage = "Propose", !.slice = s, !.base = agenda] : s \in agenda}
                 \cup {[m EXCEPT !.stage = "Done"]}
-----------------------------------------------------------------------------
(* Commands                                                                 *)

StartsAfresh(limit, loop) ==
  /\ doneSince' = {} /\ rounds' = 0 /\ reviewed' = {} /\ torn' = FALSE
  /\ allowed' = (IF loop THEN limit ELSE 0)

Started == pc = "idle" /\ starts < MaxStarts /\ starts' = starts + 1

(* advance, with or without --loop.  An unfinished run has to be resumed.   *)
Launch ==
  /\ Started
  /\ disk.stage \in {"none", "Complete", "Done"} /\ ~(disk.stage = "Complete" /\ disk.loop)
  /\ local' \in BOOLEAN
  /\ \E loop \in BOOLEAN, limit \in Limits :
       LET m == [NoState EXCEPT !.loop = loop, !.limit = IF loop THEN limit ELSE 0,
                                !.localOnly = local']
       IN /\ \E n \in States(m) : Assigned(m, n) /\ Save(n)
          /\ StartsAfresh(limit, loop)
  /\ pc' = "loop" /\ UNCHANGED repository

(* bootstrap and execute plan an agenda where there is none; what they set   *)
(* up is in the way of doing so again.                                      *)
Bootstrap ==
  /\ Started /\ starts = 0 /\ agenda = {}
  /\ \E loop \in BOOLEAN, limit \in Limits :
       /\ Save([NoState EXCEPT !.stage = "Propose", !.bootstrap = TRUE, !.loop = loop,
                               !.limit = IF loop THEN limit ELSE 0])
       /\ StartsAfresh(limit, loop)
  /\ pc' = "loop" /\ local' = FALSE /\ UNCHANGED repository

(* --resume: with --loop a single run becomes a campaign, and the limit may  *)
(* be changed.  Archiving that happened is not repeated.                     *)
Resume ==
  /\ Started
  /\ disk.stage # "none" /\ (disk.stage \in {"Complete", "Done"} => disk.loop)
  /\ local' \in BOOLEAN
  /\ \E loop \in BOOLEAN, given \in Limits :
       /\ given # 0 => loop
       /\ LET limit == IF given = 0 THEN disk.limit ELSE given
          IN /\ Save([disk EXCEPT !.loop = @ \/ loop, !.limit = limit, !.localOnly = @ \/ local'])
             /\ allowed' = (IF disk.loop THEN Max2(allowed, limit) ELSE limit)
  /\ pc' = "loop" /\ UNCHANGED <<repository, doneSince, rounds, reviewed, torn>>

Forget ==
  /\ pc = "idle" /\ disk.stage # "none"
  /\ disk' = NoState
  /\ UNCHANGED <<repository, local, mem, pc, starts, history>>

(* rewind resets the branch to another commit and then forgets the run.  It  *)
(* is looked at when there is a start to follow it.                         *)
Rewind ==
  /\ pc = "idle" /\ starts < MaxStarts
  /\ \E c \in commits : agenda' = c.agenda /\ archived' = c.archived
  /\ pc' = "rewinding"
  /\ UNCHANGED <<commits, local, mem, disk, starts, history>>

ForgetRewound ==
  /\ pc = "rewinding"
  /\ disk' = NoState /\ pc' = "idle"
  /\ UNCHANGED <<repository, local, mem, starts, history>>
-----------------------------------------------------------------------------
(* run_workflows                                                            *)

NeedsReview(m) == Gate(m) /\ m.stage = "Propose" /\ ~m.ready /\ ~m.tooLarge

(* What needs a frontier session stops a process without that connection.   *)
CampaignLoop ==
  /\ pc = "loop"
  /\ \/ /\ NeedsReview(mem) /\ mem.localOnly
        /\ Save([mem EXCEPT !.ready = TRUE]) /\ UNCHANGED <<pc, local>>
     \/ /\ NeedsReview(mem) /\ ~mem.localOnly
        /\ pc' = "frontier" /\ UNCHANGED <<mem, disk, local>>
     \/ /\ ~NeedsReview(mem) /\ ~mem.tooLarge /\ ~(mem.bootstrap /\ local)
        /\ pc' = (CASE mem.stage = "Propose" -> "work" [] mem.stage = "Archive" -> "archive"
                    [] mem.stage = "Complete" -> "complete" [] mem.stage = "Done" -> "idle")
        /\ IF pc' = "idle" THEN Stop ELSE UNCHANGED <<mem, disk, local>>
     \/ /\ mem.tooLarge /\ ~(mem.bootstrap \/ mem.localOnly)
        /\ pc' = "frontier" /\ UNCHANGED <<mem, disk, local>>
     \/ mem.tooLarge /\ (mem.bootstrap \/ mem.localOnly) /\ Stop
     \/ mem.bootstrap /\ local /\ Stop
  /\ UNCHANGED <<repository, starts, history>>

(* The stages up to Archive.  The planner of the bootstrap writes the agenda. *)
Work ==
  /\ pc = "work"
  /\ Save([mem EXCEPT !.stage = "Archive"]) /\ pc' = "archive"
  /\ IF mem.bootstrap
     THEN \E slices \in SUBSET Slices : ValidAgenda(slices) /\ agenda' = slices
     ELSE UNCHANGED agenda
  /\ UNCHANGED <<archived, commits, local, starts, history>>

WorkTooLarge ==
  /\ pc = "work"
  /\ Save([mem EXCEPT !.tooLarge = TRUE]) /\ pc' = "loop"
  /\ UNCHANGED <<repository, local, starts, history>>

Archive ==
  /\ pc = "archive"
  /\ pc' = "archived"
  /\ IF mem.bootstrap THEN UNCHANGED <<archived, doneSince>>
     ELSE archived' = archived \cup {mem.slice} /\ doneSince' = doneSince \cup {mem.slice}
  /\ UNCHANGED <<agenda, commits, local, mem, disk, starts, rounds, allowed, reviewed, torn>>

Commit == commits' = commits \cup {[agenda |-> agenda, archived |-> archived]}

FinalCommit ==
  /\ pc = "archived"
  /\ Commit
  /\ Save([mem EXCEPT !.stage = "Complete"]) /\ pc' = "complete"
  /\ UNCHANGED <<agenda, archived, local, starts, history>>

(* The next state of a campaign keeps its contracts, its limits and what it  *)
(* has spent, and nothing of the slice.                                      *)
Next(m) ==
  [NoState EXCEPT !.loop = TRUE, !.limit = m.limit, !.completed = m.completed,
                  !.iteration = m.iteration, !.remediations = m.remediations]

(* A bootstrap hands over to the campaign it was started for.               *)
HandOver ==
  /\ pc = "complete" /\ mem.bootstrap /\ mem.loop
  /\ LET m == [Next(mem) EXCEPT !.remediations = 0]
     IN \E n \in States(m) : Assigned(m, n) /\ Save(n)
  /\ pc' = "loop"
  /\ UNCHANGED <<repository, local, starts, history>>

(* A single run, or a pause after the bootstrap or an iteration.            *)
Finish ==
  /\ \/ pc = "complete" /\ (mem.bootstrap \/ ~mem.loop)
     \/ pc = "next"
  /\ Stop
  /\ UNCHANGED <<repository, starts, history>>

(* Mutant: an iteration that was resumed after it was recorded is recorded   *)
(* again.                                                                   *)
NeverCounted(m) == FALSE

Counted(m) == Len(m.completed) >= m.iteration

RecordIteration ==
  /\ pc = "complete" /\ mem.loop /\ ~mem.bootstrap
  /\ Save(IF Counted(mem) THEN mem ELSE [mem EXCEPT !.completed = Append(@, mem.slice)])
  /\ pc' = "next"
  /\ UNCHANGED <<repository, local, starts, history>>

(* Mutant: the limit is compared with the next iteration.                   *)
LimitPassed(m) == m.limit # 0 /\ m.iteration > m.limit

LimitReached(m) == m.limit # 0 /\ m.iteration >= m.limit

(* The limit is looked at once the next slice is known; the state with that  *)
(* slice is dropped when it is reached.                                     *)
NextIteration ==
  /\ pc = "next"
  /\ LET m == [Next(mem) EXCEPT !.iteration = @ + 1]
     IN \E n \in States(m) :
          /\ Assigned(m, n)
          /\ IF n.stage # "Done" /\ LimitReached(mem) THEN Stop
             ELSE Save(n) /\ pc' = "loop" /\ UNCHANGED local
  /\ UNCHANGED <<repository, starts, history>>
-----------------------------------------------------------------------------
(* run_frontier_replan and run_terminal_review                              *)

(* Mutant: one round too many.                                              *)
RemediableOnce(m) == m.remediations <= MaxRemediations

Remediable(m) == m.remediations < MaxRemediations

Exhausted(m) ==
  IF Gate(m) THEN m.tooLarge /\ ~Remediable(m) ELSE m.replans >= MaxReplans

(* A session after an escalation starts from the agenda the slice was       *)
(* assigned with.                                                           *)
OpenFrontier ==
  /\ pc = "frontier" /\ ~local
  /\ agenda' = (IF mem.tooLarge THEN mem.base ELSE agenda)
  /\ IF Exhausted(mem) THEN Stop ELSE pc' = "session" /\ UNCHANGED <<mem, disk, local>>
  /\ UNCHANGED <<archived, commits, starts, history>>

NoFrontier ==
  /\ pc = "frontier" /\ local
  /\ Stop
  /\ UNCHANGED <<repository, starts, history>>

InSession == pc \in {"session", "again"}

FrontierCommits ==
  /\ InSession
  /\ agenda' \in (SUBSET Slices) \ {agenda}
  /\ UNCHANGED <<archived, commits, local, mem, disk, pc, starts, history>>

Accept(m) == Save(m) /\ pc' = "loop" /\ UNCHANGED <<agenda, archived, local, starts>>

(* Mutant: a subdivision is not counted.                                    *)
ReplannedUncounted ==
  /\ InSession /\ ~Gate(mem)
  /\ agenda # mem.base
  /\ Selects(agenda, mem.slice) /\ Subdivided(agenda, mem.slice)
  /\ Accept([mem EXCEPT !.tooLarge = FALSE, !.stage = "Propose", !.base = agenda])
  /\ Commit /\ UNCHANGED history

(* REPLANNED for a slice: it is still the next one, and has a child.        *)
Replanned ==
  /\ InSession /\ ~Gate(mem)
  /\ agenda # mem.base
  /\ Selects(agenda, mem.slice) /\ Subdivided(agenda, mem.slice)
  /\ Accept([mem EXCEPT !.replans = @ + 1, !.tooLarge = FALSE, !.stage = "Propose",
                        !.base = agenda])
  /\ Commit /\ UNCHANGED history

(* Mutant: READY is believed whatever the session did to the agenda.         *)
ReadyUnchecked ==
  /\ InSession /\ Gate(mem) /\ ~mem.tooLarge
  /\ Accept([mem EXCEPT !.ready = TRUE])
  /\ reviewed' = archived
  /\ UNCHANGED <<commits, doneSince, rounds, allowed, torn>>

(* READY for the gate: nothing was changed since it was assigned.           *)
Ready ==
  /\ InSession /\ Gate(mem) /\ ~mem.tooLarge
  /\ agenda = mem.base
  /\ Accept([mem EXCEPT !.ready = TRUE])
  /\ reviewed' = archived
  /\ UNCHANGED <<commits, doneSince, rounds, allowed, torn>>

(* REPLANNED for the gate: a new slice is next, and the gate is unchanged.  *)
Remediated ==
  /\ InSession /\ Gate(mem) /\ Remediable(mem)
  /\ Terminal \in agenda
  /\ \E s \in agenda \ mem.base :
       /\ s # Terminal /\ Selects(agenda, s)
       /\ Accept([mem EXCEPT !.slice = s, !.remediations = @ + 1, !.ready = FALSE,
                             !.tooLarge = FALSE, !.stage = "Propose", !.replans = 0,
                             !.base = agenda])
  /\ Commit /\ rounds' = rounds + 1
  /\ UNCHANGED <<doneSince, allowed, reviewed, torn>>

(* What does not meet the postconditions is undone, and tried once more.    *)
FrontierRejected ==
  /\ pc = "session"
  /\ pc' = "again" /\ agenda' = mem.base
  /\ UNCHANGED <<archived, commits, local, mem, disk, starts, history>>

(* BLOCKED, a failure, or postconditions that do not hold twice.            *)
FrontierFails ==
  /\ InSession
  /\ Stop /\ agenda' = mem.base
  /\ UNCHANGED <<archived, commits, starts, history>>

(* The process pauses, ends with an error or dies, at any point; a rewind    *)
(* that is cut short leaves the checkpoint.                                 *)
Crash ==
  /\ pc # "idle"
  /\ Stop
  /\ torn' = (torn \/ (pc = "rewinding" /\ disk.stage # "none"))
  /\ UNCHANGED <<repository, starts, doneSince, rounds, allowed, reviewed>>
-----------------------------------------------------------------------------
Runner ==
  \/ CampaignLoop \/ Work \/ WorkTooLarge \/ Archive \/ FinalCommit \/ HandOver \/ Finish
  \/ RecordIteration \/ NextIteration \/ OpenFrontier \/ NoFrontier \/ Replanned \/ Ready
  \/ Remediated \/ FrontierRejected \/ FrontierFails \/ ForgetRewound

CampaignNext ==
  \/ Runner \/ Launch \/ Bootstrap \/ Resume \/ Forget \/ Rewind \/ FrontierCommits \/ Crash

CampaignSpec == CampaignInit /\ [][CampaignNext]_campaign /\ WF_campaign(Runner)
-----------------------------------------------------------------------------
(* The checkpoint of a campaign counts every slice archived since the run    *)
(* was started, once, except the one it is at: whatever was interrupted and  *)
(* resumed (app.rs:1759), also after a subdivision or a remediation.  A      *)
(* rewind that was cut short is the exception: the checkpoint outlives the   *)
(* archives it counts.                                                      *)
CountedOnce ==
  disk.loop /\ ~torn =>
    /\ IsInjective(disk.completed)
    /\ Range(disk.completed) \subseteq doneSince
    /\ doneSince \subseteq Range(disk.completed) \cup {disk.slice}

(* However often a campaign is resumed, and whatever becomes of its slices,  *)
(* it delivers no more of them than the highest limit it was given, and the  *)
(* gate sends it back for no more rounds than allowed (app.rs:1819, 2084).   *)
AllowancesKept ==
  /\ allowed # 0 /\ disk.loop => Cardinality(doneSince) <= allowed
  /\ rounds <= MaxRemediations

(* The project is accepted last: when the gate is archived after a review by  *)
(* the frontier, that review saw what is archived, and that is every other   *)
(* slice of the agenda (app.rs:4725), also when a review was cut short and    *)
(* resumed.  Without one there is no such promise: a review that was         *)
(* interrupted may have left slices, and --local-only skips the next one.    *)
GateLast ==
  pc = "archived" /\ Gate(mem) /\ ~mem.localOnly /\ ~torn =>
    /\ \A s \in agenda \ {Terminal} : Archives(s) # {}
    /\ reviewed = archived \ {Terminal}

(* A process that runs the campaign stops: it does not subdivide, remediate  *)
(* and work for ever, however often it was resumed.                          *)
CampaignEnds == []<>(pc = "idle")
=============================================================================
