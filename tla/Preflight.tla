----------------------------- MODULE Preflight -----------------------------
(***************************************************************************)
(* The supplied inputs of a campaign and the review of them that precedes   *)
(* delivery (src/src/preflight.rs, contracts.rs, and their use in           *)
(* run_workflows, App::preflight and accept_changes).  The versions in the  *)
(* checkpoint govern; a READY or BLOCKED report is kept for the inputs, the  *)
(* project introduction and the acceptance settings it was made for.         *)
(*                                                                         *)
(* The maintainer edits at any time, the standalone command may run beside a *)
(* campaign, and every process may be killed.  Files are versions; a file's  *)
(* hash tells them apart.  Left out: the schema's files and the product's,   *)
(* whose change is one of the ways in which a review comes to nothing.        *)
(***************************************************************************)
EXTENDS Naturals

CONSTANTS
  Inputs,         \* versions of the contracts, the inventory and the acceptance files
  SoundInputs,    \* those in which every file is there and the inventory is valid
  Introductions,  \* versions of context.md, rendered
  Settings,       \* acceptance commands and timeout
  Absent,         \* no report, nothing chosen
  MaxWrites       \* bound: edits by the maintainer

ASSUME PreflightAssumption == SoundInputs \subseteq Inputs /\ MaxWrites \in Nat

VARIABLES
  supplied,       \* the inputs and the introduction as they are now
  checkpoint, \* the inputs and settings in last-run.json
  filed,     \* contract-preflight.json
  reviewing,  \* what a process is about: the campaign's "run", or "alone"
  writes,     \* edits so far
  flickered   \* history: an input was changed for a review and changed back

preflight == <<supplied, checkpoint, filed, reviewing, writes, flickered>>

Selection == [inputs : Inputs, settings : Settings]
Supplied == [inputs : Inputs, introduction : Introductions]
Key == [inputs : Inputs, settings : Settings, introduction : Introductions]

(* read: history, the reviewer, who said READY, had read what the key says.   *)
FiledReport == [key : Key, ready : BOOLEAN, read : BOOLEAN]

Process ==
  [pc : {"off", "loaded", "saved", "check", "compare", "review", "read", "write", "deliver"},
   mine : Selection \cup {Absent}, key : Key \cup {Absent}, read : BOOLEAN]

PreflightTypeOK ==
  /\ supplied \in Supplied /\ checkpoint \in Selection \cup {Absent}
  /\ filed \in FiledReport \cup {Absent} /\ writes \in 0..MaxWrites /\ flickered \in BOOLEAN
  /\ reviewing \in [{"run", "alone"} -> Process]
-----------------------------------------------------------------------------
Off == [pc |-> "off", mine |-> Absent, key |-> Absent, read |-> FALSE]

PreflightInit ==
  /\ supplied \in Supplied /\ supplied.inputs \in SoundInputs
  /\ checkpoint = Absent /\ filed = Absent
  /\ reviewing = [p \in {"run", "alone"} |-> Off] /\ writes = 0 /\ flickered = FALSE

Now(p, pc) == reviewing[p].pc = pc
To(p, pc) == reviewing' = [reviewing EXCEPT ![p].pc = pc]
Stops(p) == reviewing' = [reviewing EXCEPT ![p] = Off]
Chooses(p, selection, pc) ==
  reviewing' = [reviewing EXCEPT ![p] = [Off EXCEPT !.pc = pc, !.mine = selection]]

(* SuppliedContracts::capture_with_inventory                                *)
Selected(settings) == [inputs |-> supplied.inputs, settings |-> settings]

(* The files are there and the inventory accounts for what it refers to.       *)
Sound(inputs) == inputs \in SoundInputs

(* check_inputs                                                             *)
Unchanged(p) == supplied.inputs = reviewing[p].mine.inputs

(* A resume names the files of the checkpoint, or none, and they are unchanged. *)
Recorded == checkpoint # Absent /\ supplied.inputs = checkpoint.inputs

(* A new run captures its inputs, a resumed one goes by the checkpoint, and  *)
(* either may have flushed the report, before it has a lock.                  *)
RunLoads ==
  /\ Now("run", "off")
  /\ filed' \in {filed, Absent}
  /\ \/ \E s \in Settings : Sound(supplied.inputs) /\ Chooses("run", Selected(s), "loaded")
     \/ Recorded /\ Chooses("run", checkpoint, "loaded")
  /\ UNCHANGED <<supplied, checkpoint, writes, flickered>>

RunSaves ==
  /\ Now("run", "loaded")
  /\ checkpoint' = reviewing["run"].mine /\ To("run", "saved")
  /\ UNCHANGED <<supplied, filed, writes, flickered>>

(* run_workflows opens the run and persists again.                           *)
RunOpens ==
  /\ Now("run", "saved")
  /\ checkpoint' = reviewing["run"].mine /\ To("run", "check")
  /\ UNCHANGED <<supplied, filed, writes, flickered>>

(* The command flushes the report and looks at the current files, with the    *)
(* settings it is given or those of the checkpoint, and adopts nothing.        *)
AloneStarts ==
  /\ Now("alone", "off") /\ filed' = Absent
  /\ \/ \E s \in Settings : Chooses("alone", Selected(s), "check")
     \/ checkpoint # Absent /\ Chooses("alone", Selected(checkpoint.settings), "check")
  /\ UNCHANGED <<supplied, checkpoint, writes, flickered>>

(* check_preflight                                                          *)
CheckInputs(p) ==
  /\ Now(p, "check")
  /\ IF Unchanged(p) /\ Sound(supplied.inputs) THEN To(p, "compare") ELSE Stops(p)
  /\ UNCHANGED <<supplied, checkpoint, filed, writes, flickered>>

KeyOf(p, introduction) ==
  [inputs |-> reviewing[p].mine.inputs, settings |-> reviewing[p].mine.settings,
   introduction |-> introduction]

(* Mutant: the introduction is not compared.                                 *)
ApplicableLoosely(key) == filed # Absent /\ [filed.key EXCEPT !.introduction = key.introduction] = key

Applicable(key) == filed # Absent /\ filed.key = key

(* The introduction is read, and a report for the very same is used, whatever *)
(* it says.                                                                 *)
Compare(p) ==
  /\ Now(p, "compare")
  /\ LET key == KeyOf(p, supplied.introduction) IN
     reviewing' = [reviewing EXCEPT ![p] =
       IF ~Applicable(key) THEN [@ EXCEPT !.pc = "review", !.key = key]
       ELSE IF filed.ready /\ p = "run"
         THEN [@ EXCEPT !.pc = "deliver", !.key = key, !.read = filed.read /\ filed.key = key]
       ELSE Off]
  /\ UNCHANGED <<supplied, checkpoint, filed, writes, flickered>>

ReviewerReads(p) ==
  /\ Now(p, "review")
  /\ LET key == reviewing[p].key IN
     reviewing' = [reviewing EXCEPT ![p].pc = "read", ![p].read =
       supplied = [inputs |-> key.inputs, introduction |-> key.introduction]]
  /\ UNCHANGED <<supplied, checkpoint, filed, writes, flickered>>

(* Nothing is recorded of a review that is not finished, has nothing to say,   *)
(* takes more than two minutes, or during which the repository changed.        *)
ReviewFails(p) ==
  /\ Now(p, "review") \/ Now(p, "read")
  /\ Stops(p)
  /\ UNCHANGED <<supplied, checkpoint, filed, writes, flickered>>

ReviewEnds(p) ==
  /\ Now(p, "read")
  /\ IF Unchanged(p) THEN To(p, "write") ELSE Stops(p)
  /\ UNCHANGED <<supplied, checkpoint, filed, writes, flickered>>

(* The introduction is compared and the report renamed into place.             *)
RecordVerdict(p) ==
  /\ Now(p, "write")
  /\ LET it == reviewing[p] IN
     IF supplied.introduction = it.key.introduction
       THEN \E ready \in BOOLEAN :
              /\ filed' = [key |-> it.key, ready |-> ready, read |-> ready /\ it.read]
              /\ IF ready /\ p = "run" THEN To(p, "deliver") ELSE Stops(p)
              /\ flickered' = (flickered \/ ~it.read)
       ELSE Stops(p) /\ UNCHANGED <<filed, flickered>>
  /\ UNCHANGED <<supplied, checkpoint, writes>>

(* Before and after every stage; and each iteration begins with preflight.    *)
StageBoundary ==
  /\ Now("run", "deliver")
  /\ IF Unchanged("run") THEN To("run", "deliver") \/ To("run", "check") ELSE Stops("run")
  /\ UNCHANGED <<supplied, checkpoint, filed, writes, flickered>>

PreflightStep(p) ==
  CheckInputs(p) \/ Compare(p) \/ ReviewerReads(p) \/ ReviewFails(p) \/ ReviewEnds(p)
    \/ RecordVerdict(p)

(* accept-changes, while no run is open.                                      *)
AcceptsInputs ==
  /\ reviewing["run"].pc \in {"off", "loaded", "saved"}
  /\ checkpoint # Absent
  /\ \E s \in Settings : Sound(supplied.inputs) /\ checkpoint' = Selected(s)
  /\ UNCHANGED <<supplied, filed, reviewing, writes, flickered>>

MaintainerWrites ==
  /\ writes < MaxWrites /\ writes' = writes + 1
  /\ supplied' \in Supplied \ {supplied}
  /\ UNCHANGED <<checkpoint, filed, reviewing, flickered>>

ProcessKilled(p) ==
  /\ ~Now(p, "off") /\ Stops(p)
  /\ UNCHANGED <<supplied, checkpoint, filed, writes, flickered>>

PreflightNext ==
  \/ RunLoads \/ RunSaves \/ RunOpens \/ AloneStarts \/ StageBoundary
  \/ \E p \in {"run", "alone"} : PreflightStep(p) \/ ProcessKilled(p)
  \/ AcceptsInputs \/ MaintainerWrites

PreflightSpec == PreflightInit /\ [][PreflightNext]_preflight
-----------------------------------------------------------------------------
(* A campaign delivers on the inputs in its checkpoint, and a reviewer who    *)
(* said READY had read exactly these, with the introduction as it was when    *)
(* the report was compared and the settings in force, whoever reviewed beside  *)
(* it and whatever was edited, flushed, accepted or killed in between          *)
(* (README.md, "Unchanged declared inputs, context and final command settings   *)
(* reuse the report").  The exception: a file changed for a review and changed   *)
(* back before it ended.                                                      *)
PreflightHolds ==
  LET it == reviewing["run"] IN
  it.pc = "deliver" =>
    /\ it.mine = checkpoint
    /\ it.key = KeyOf("run", it.key.introduction)
    /\ ~flickered => it.read
=============================================================================
