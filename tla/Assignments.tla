---------------------------- MODULE Assignments ----------------------------
(***************************************************************************)
(* The assignment of supplied work to slices (src/src/assignment.rs): the  *)
(* record automation/slices/assignments.json, the agenda files it speaks   *)
(* of, the views rendered from it, and where the runner looks at them:      *)
(* before a slice is planned, before it is verified, and when the frontier  *)
(* model has rearranged the agenda (run_workflows, run_frontier_replan,     *)
(* run_terminal_review, check_assignment_for_verify in src/src/app.rs).     *)
(*                                                                         *)
(* The sessions of a slice edit all of it.  What is listed twice in the     *)
(* JSON is rejected and not modelled: lists are sets.  Left out: the        *)
(* supplied inputs (module Preflight), corrections by the maintainer, and   *)
(* what the views say in words.                                            *)
(***************************************************************************)
EXTENDS FiniteSets, Agenda

CONSTANTS
  Deliveries,    \* delivery files: [ordinal, slug], with ordinals below 9999
  Final,         \* 9999-project-acceptance.md
  Obligations, Owned, Contexts,      \* of the inventory; Contexts: read, not delivered
  Acceptances, Governs,              \* its acceptance obligations, and what they govern
  SuppliedTests, BuilderTests,       \* the kinds of those that are not reviews
  Plans          \* the records that sessions write

(* Inventory::validate, of an inventory that was captured.                  *)
InventorySound ==
  /\ Owned # {} /\ Owned \subseteq Obligations \ Contexts /\ Contexts \subseteq Obligations
  /\ SuppliedTests \cup BuilderTests \subseteq Acceptances
  /\ \A a \in Acceptances : Governs[a] # {} /\ Governs[a] \subseteq Obligations \ Contexts
  /\ \A o \in Owned : \E a \in Acceptances : o \in Governs[a]

AssignmentRecord ==
  [slices : SUBSET Deliveries,
   requires : UNION {[S -> SUBSET Deliveries] : S \in SUBSET Deliveries},
   accountable : UNION {[O -> Deliveries] : O \in SUBSET Obligations},
   contributors : UNION {[O -> SUBSET Deliveries] : O \in SUBSET Obligations},
   routes : UNION {[A -> SUBSET (Deliveries \cup {Final})] : A \in SUBSET Acceptances}]

ASSUME AssignmentsAssumption ==
  /\ InventorySound /\ Plans \subseteq AssignmentRecord
  /\ Final \notin Deliveries /\ \A s \in Deliveries : s.ordinal \in Seq(Nat)

VARIABLES
  plan,        \* assignments.json
  agenda,      \* the slices under automation/slices
  shown,       \* whether the views show the record
  finished,    \* the slices whose changes are archived
  assigned,    \* the slice that is assigned
  turn,        \* what is done about it
  held,        \* the agenda as it was when the slice was assigned: its baseline
  before,      \* the record that a recovery is compared with
  cutShort     \* history: a terminal review was cut short after it had edited

agendaOf == <<plan, agenda, shown>>
assignments == <<agendaOf, finished, assigned, turn, held, before, cutShort>>

SliceFiles == SUBSET (Deliveries \cup {Final})
Held == [plan : Plans, files : SliceFiles, shown : BOOLEAN]

AssignmentsTypeOK ==
  /\ plan \in Plans /\ agenda \in SliceFiles /\ shown \in BOOLEAN
  /\ finished \in SliceFiles /\ assigned \in Deliveries \cup {Final}
  /\ turn \in {"next", "propose", "work", "verify", "archive", "frontier", "review",
               "reviewing", "remedying", "done"}
  /\ held \in Held /\ before \in Plans /\ cutShort \in BOOLEAN
-----------------------------------------------------------------------------
(* The prerequisites of a slice are slices before it.                        *)
Ordered(p) ==
  \A s \in p.slices : p.requires[s] \subseteq p.slices
                        /\ \A t \in p.requires[s] : Before(t, s)

(* Every obligation that is not only read has one accountable slice.         *)
Allocated(p) ==
  /\ DOMAIN p.accountable = Obligations \ Contexts
  /\ DOMAIN p.contributors = DOMAIN p.accountable
  /\ \A o \in DOMAIN p.accountable :
       /\ {p.accountable[o]} \cup p.contributors[o] \subseteq p.slices
       /\ p.accountable[o] \notin p.contributors[o]

(* Mutant: a test of the builder's may be left to the terminal slice.        *)
RoutedAnywhere(p) ==
  /\ DOMAIN p.routes = Acceptances
  /\ \A a \in Acceptances : p.routes[a] # {} /\ p.routes[a] \subseteq p.slices \cup {Final}

(* Every acceptance obligation has slices, those the builder has to test one *)
(* before the terminal slice.                                               *)
Routed(p) ==
  /\ DOMAIN p.routes = Acceptances
  /\ \A a \in Acceptances :
       /\ p.routes[a] # {} /\ p.routes[a] \subseteq p.slices \cup {Final}
       /\ a \in BuilderTests => p.routes[a] # {Final}

HasWork(p, s) ==
  \/ \E o \in DOMAIN p.accountable : p.accountable[o] = s \/ s \in p.contributors[o]
  \/ \E a \in DOMAIN p.routes : s \in p.routes[a]

(* Assignment::validate                                                     *)
RecordSound(p) ==
  /\ p.slices # {} /\ ~Ambiguous(p.slices) /\ DOMAIN p.requires = p.slices
  /\ Ordered(p) /\ Allocated(p) /\ Routed(p)
  /\ \A s \in p.slices : HasWork(p, s)

(* check_agenda: the record is sound, and its slices are those of the        *)
(* agenda, whose views show it.                                             *)
Checks(p, f, rendered) == RecordSound(p) /\ f = p.slices \cup {Final} /\ rendered
-----------------------------------------------------------------------------
(* Assignment::check_recovery                                               *)

NewParts(p, old, s) ==
  {t \in p.slices \ old.slices : IsStrictPrefix(s.ordinal, t.ordinal)}

(* A slice keeps its prerequisites, or a later one than the failed slice adds *)
(* parts of that.                                                           *)
KeepsRequires(p, old, s, failed) ==
  \/ s \in failed
  \/ p.requires[s] = old.requires[s]
  \/ \E f \in failed :
       Before(f, s) /\ p.requires[s] \ NewParts(p, old, f) = old.requires[s]

KeepsShare(p, old, s) ==
  /\ \A o \in DOMAIN old.accountable :
       /\ old.accountable[o] = s => p.accountable[o] = s
       /\ s \in old.contributors[o] => s \in p.contributors[o] \cup {p.accountable[o]}
  /\ \A a \in DOMAIN old.routes : s \in old.routes[a] => s \in p.routes[a]

(* Mutant: only what is accounted for is kept.                               *)
RecoversAccounts(p, old, failed) ==
  /\ old.slices \subseteq p.slices
  /\ \A s \in old.slices : KeepsRequires(p, old, s, failed)
  /\ \A o \in DOMAIN old.accountable :
       old.accountable[o] \in failed \/ p.accountable[o] = old.accountable[o]

(* failed: the slice that is subdivided, if one is.  Sound records list the  *)
(* same obligations.                                                        *)
Recovers(p, old, failed) ==
  /\ old.slices \subseteq p.slices
  /\ \A s \in old.slices : KeepsRequires(p, old, s, failed)
  /\ \A s \in (old.slices \cup {Final}) \ failed : KeepsShare(p, old, s)
-----------------------------------------------------------------------------
(* discover: the slice to assign.                                           *)
Ordered9999(s, t) == t = Final \/ (s # Final /\ Before(s, t))
IsNext(s, f) ==
  /\ s \in f \ finished /\ ~Ambiguous(f \ {Final})
  /\ \A t \in (f \ finished) \ {s} : Ordered9999(s, t)

Hold(p, f, rendered) == held' = [plan |-> p, files |-> f, shown |-> rendered]
Goes(t) == turn' = t
Restores == plan' = held.plan /\ agenda' = held.files /\ shown' = held.shown

(* The planner of the bootstrap has written a first agenda.                  *)
AssignmentsInit ==
  /\ plan \in Plans /\ agenda = plan.slices \cup {Final} /\ shown = TRUE
  /\ Checks(plan, agenda, shown)
  /\ finished = {} /\ assigned = Final /\ turn = "next"
  /\ held = [plan |-> plan, files |-> agenda, shown |-> shown]
  /\ before = plan /\ cutShort = FALSE

Assign ==
  /\ turn = "next"
  /\ IF \E s \in agenda : IsNext(s, agenda)
       THEN /\ \E s \in agenda : IsNext(s, agenda) /\ assigned' = s
            /\ Goes("propose") /\ Hold(plan, agenda, shown)
       ELSE agenda \subseteq finished /\ Goes("done") /\ UNCHANGED <<assigned, held>>
  /\ UNCHANGED <<agendaOf, finished, before, cutShort>>

(* The agenda is checked before a slice is planned; the terminal slice is    *)
(* reviewed first.  A campaign whose agenda is not sound waits for its        *)
(* maintainer.                                                              *)
BeginSlice ==
  /\ turn = "propose" /\ Checks(plan, agenda, shown)
  /\ Goes(IF assigned = Final THEN "review" ELSE "work")
  /\ UNCHANGED <<agendaOf, finished, assigned, held, before, cutShort>>

(* A session may forget the files, or the views.                             *)
Edited == plan' \in Plans /\ agenda' \in {agenda, plan'.slices \cup {Final}} /\ shown' \in BOOLEAN

MaintainerRepairs ==
  /\ turn = "propose" /\ ~Checks(plan, agenda, shown)
  /\ Edited /\ UNCHANGED <<finished, assigned, turn, held, before, cutShort>>

(* Propose, Apply and Repair.  A Propose that is begun again after a crash     *)
(* finds what it edited, which the check before it can only hold up: that is   *)
(* one session here.                                                        *)
Session ==
  /\ turn = "work"
  /\ Edited /\ Goes("verify")
  /\ UNCHANGED <<finished, assigned, held, before, cutShort>>

(* check_assignment_for_verify sends what is not sound to Repair.            *)
Verify ==
  /\ turn = "verify"
  /\ IF Checks(plan, agenda, shown) THEN turn' \in {"archive", "work"} ELSE Goes("work")
  /\ UNCHANGED <<agendaOf, finished, assigned, held, before, cutShort>>

(* The commits of a slice leave the agenda alone.                            *)
ArchiveSlice ==
  /\ turn = "archive"
  /\ finished' = finished \cup {assigned} /\ Goes("next")
  /\ UNCHANGED <<agendaOf, assigned, held, before, cutShort>>

(* The attempt is rolled back; the record to compare with is read then.      *)
Escalates ==
  /\ turn = "work"
  /\ Restores /\ before' = held.plan
  /\ Goes(IF assigned = Final THEN "remedying" ELSE "frontier")
  /\ UNCHANGED <<finished, assigned, held, cutShort>>

(* REPLANNED: the slice is next, and has a first part.  What is not accepted *)
(* is rolled back.                                                          *)
SubdivisionAccepted ==
  /\ turn = "frontier" /\ Edited
  /\ <<plan', agenda'>> # <<held.plan, held.files>>
  /\ IsNext(assigned, agenda') /\ Subdivided(agenda' \ {Final}, assigned)
  /\ Checks(plan', agenda', shown') /\ Recovers(plan', before, {assigned})
  /\ Hold(plan', agenda', shown') /\ Goes("propose")
  /\ UNCHANGED <<finished, assigned, before, cutShort>>

(* run_terminal_review reads the record as it finds it.                      *)
ReviewStarts ==
  /\ turn = "review"
  /\ before' = plan /\ Goes("reviewing")
  /\ UNCHANGED <<agendaOf, finished, assigned, held, cutShort>>

(* READY: nothing differs from the baseline.                                *)
ReviewReady ==
  /\ turn = "reviewing"
  /\ [plan |-> plan, files |-> agenda, shown |-> shown] = held
  /\ Checks(plan, agenda, shown) /\ Recovers(plan, before, {})
  /\ Goes("work")
  /\ UNCHANGED <<agendaOf, finished, assigned, held, before, cutShort>>

(* REPLANNED: there is a slice to deliver before the terminal one.  After an  *)
(* escalation nothing else is accepted.                                      *)
RemediationAccepted ==
  /\ turn \in {"reviewing", "remedying"} /\ Edited
  /\ Final \in agenda'
  /\ \E s \in agenda' \ {Final} : IsNext(s, agenda') /\ assigned' = s
  /\ Checks(plan', agenda', shown') /\ Recovers(plan', before, {})
  /\ Hold(plan', agenda', shown') /\ Goes("propose")
  /\ UNCHANGED <<finished, before, cutShort>>

ReviewRejected ==
  /\ turn \in {"reviewing", "remedying"}
  /\ Restores /\ turn' \in {turn} \cup {t \in {"propose"} : turn = "reviewing"}
  /\ UNCHANGED <<finished, assigned, held, before, cutShort>>

(* A stop by the policy, or the death of the runner, leaves what the review  *)
(* has edited, and the next review starts from it.                           *)
ReviewCutShort ==
  /\ turn = "reviewing" /\ Edited /\ ~cutShort
  /\ cutShort' = ([plan |-> plan', files |-> agenda', shown |-> shown'] # held)
  /\ Goes("propose")
  /\ UNCHANGED <<finished, assigned, held, before>>

AssignmentsNext ==
  \/ Assign \/ BeginSlice \/ MaintainerRepairs \/ Session \/ Verify \/ ArchiveSlice
  \/ Escalates \/ SubdivisionAccepted
  \/ ReviewStarts \/ ReviewReady \/ RemediationAccepted \/ ReviewRejected \/ ReviewCutShort

AssignmentsSpec == AssignmentsInit /\ [][AssignmentsNext]_assignments
-----------------------------------------------------------------------------
(* No obligation is lost on the way, however often the slices were repaired,  *)
(* subdivided and added to: when the campaign is complete, the slice that     *)
(* accounts for it was delivered, a test of the builder's has a slice that     *)
(* was, and so was every prerequisite (docs/supplied-assignments.md, "lost    *)
(* work").                                                                  *)
NothingLost ==
  turn = "done" =>
    /\ \A o \in Obligations \ Contexts :
         o \in DOMAIN plan.accountable /\ plan.accountable[o] \in finished
    /\ \A a \in BuilderTests : plan.routes[a] \cap (finished \ {Final}) # {}
    /\ \A s \in plan.slices : plan.requires[s] \subseteq finished

(* A slice is begun when its prerequisites are delivered, and an accepted     *)
(* recovery takes nothing from a delivered slice that it had when the agenda  *)
(* was held (docs/supplied-assignments.md, "Rendering, repair and recovery").  *)
(* The exception is a terminal review that was cut short: the next one takes  *)
(* what it left for the record to keep to.                                   *)
AssignmentKept ==
  [][/\ BeginSlice /\ assigned # Final => plan.requires[assigned] \subseteq finished
     /\ (SubdivisionAccepted \/ RemediationAccepted) /\ ~cutShort =>
          \A s \in finished \cap held.plan.slices :
            /\ KeepsShare(plan', held.plan, s)
            /\ held.plan.requires[s] \subseteq plan'.requires[s]]_assignments
=============================================================================
