------------------------------ MODULE Dashboard ------------------------------
(***************************************************************************)
(* The keys of the terminal dashboard while a campaign runs                *)
(* (src/src/dashboard.rs, src/src/ui.rs; run_workflows in src/src/app.rs): *)
(* they are read during streams only, and what needs a confirmation waits  *)
(* for the next key.  A request to pause after the slice is kept in the    *)
(* dashboard until the runner asks for it.                                 *)
(*                                                                         *)
(* Left out: what the dashboard shows, and what the backends make of a     *)
(* control (modules StreamSession and Backends).                           *)
(***************************************************************************)
EXTENDS Naturals

CONSTANTS
  MaxSlices,      \* bound: the slices of the agenda
  MaxProcesses    \* bound: processes that work on the campaign

ASSUME DashboardAssumption == MaxSlices \in Nat /\ MaxProcesses \in Nat

VARIABLES
  runner,       \* run_workflows and execute
  screen,       \* TerminalUi: what it was told, for a dashboard that is yet to be
  board,        \* StreamDashboard
  control,      \* what the last key made poll return
  key,          \* history: the last key, in this step
  wanted        \* history: a pause after this slice was confirmed

dashboard == <<runner, screen, board, control, key, wanted>>

(* Slice 0 is the bootstrap.  The stages are an example of those during      *)
(* which the frontier may be called, and one of those during which it may    *)
(* not; a title also says who is at work (model_stage_title).                *)
CalledDuring == {"Explore", "Propose", "Apply", "Verify", "Repair"}
Stages == {"Apply", "Archive", "Frontier replanning"}
Title(stage, who) == <<stage, who>>
Titles == {Title(stage, who) : stage \in Stages, who \in {"worker", "frontier"}}

RunnerState ==
  [pc : {"loop", "shown", "stage", "stream", "complete", "ended"}, slice : 0..MaxSlices,
   escalated : BOOLEAN, localOnly : BOOLEAN, process : 0..MaxProcesses]

(* A CampaignView: which slice it shows, and whether it is complete.         *)
View == [slice : 0..MaxSlices, complete : BOOLEAN]
Screen == [view : View, continues : BOOLEAN, stage : Titles \cup {<<>>}]

Confirmation == {"Pause", "StopAfter", "Escalate", "Compact", "Context"}
KeyControl == Confirmation \cup {"None", "Inject", "Interrupt"}
Keys == {"q", "p", "f", "c", "C", "i", "y", "Enter", "Ctrl-C"}

(* typed: the input of a steering instruction.                               *)
Board ==
  [view : View, stop : BOOLEAN, pending : Confirmation \cup {"None"},
   typed : {"no", "empty", "text"}, compacted : BOOLEAN, inspected : BOOLEAN,
   continues : BOOLEAN, panel : Titles \cup {<<>>}, running : BOOLEAN]
NoBoard == [view |-> "none"]

DashboardTypeOK ==
  /\ runner \in RunnerState /\ screen \in Screen /\ board \in Board \cup {NoBoard}
  /\ control \in KeyControl /\ key \in Keys \cup {"none"} /\ wanted \in BOOLEAN

Bootstraps(r) == r.slice = 0
Shown(r, complete) == [slice |-> r.slice, complete |-> complete]

DashboardInit ==
  /\ \E localOnly \in BOOLEAN :
       runner = [pc |-> "loop", slice |-> 0, escalated |-> FALSE, localOnly |-> localOnly,
                 process |-> 0]
  /\ screen = [view |-> Shown(runner, FALSE), continues |-> FALSE, stage |-> <<>>]
  /\ board = NoBoard /\ control = "None" /\ key = "none" /\ wanted = FALSE

Up == board # NoBoard
Goto(pc) == runner' = [runner EXCEPT !.pc = pc]
NoKey == control' = "None" /\ key' = "none"
-----------------------------------------------------------------------------
(* What the runner tells the dashboard                                      *)

(* Mutant: whatever changes in the view starts the dashboard anew.           *)
SetCampaignAnew(b, view) ==
  IF b.view = view THEN b
  ELSE [b EXCEPT !.view = view, !.stop = FALSE, !.panel = <<>>, !.running = FALSE]

(* set_campaign: another slice clears the panels and the request to stop.    *)
SetCampaign(b, view) ==
  IF b.view.slice = view.slice THEN [b EXCEPT !.view = view]
  ELSE [b EXCEPT !.view = view, !.stop = FALSE, !.panel = <<>>, !.running = FALSE]

(* present_campaign                                                         *)
Present(complete) ==
  LET view == Shown(runner, complete)
  IN /\ screen' = [screen EXCEPT !.view = view, !.continues = Bootstraps(runner)]
     /\ board' = IF Up
                   THEN [SetCampaign(board, view) EXCEPT !.continues = Bootstraps(runner)]
                   ELSE board

(* StreamDashboard::enter                                                   *)
Entered ==
  [view |-> screen.view, stop |-> FALSE, pending |-> "None", typed |-> "no",
   compacted |-> FALSE, inspected |-> FALSE, continues |-> screen.continues,
   panel |-> screen.stage, running |-> screen.stage # <<>>]

(* set_stage                                                                *)
Staged(b, title) == [b EXCEPT !.panel = title, !.running = TRUE]

(* start_stream: what was asked for during the stream before is void.        *)
Streaming(b) ==
  [b EXCEPT !.compacted = FALSE, !.inspected = FALSE, !.typed = "no", !.pending = "None",
            !.running = b.panel # <<>>]

LoopShows ==
  /\ runner.pc = "loop" /\ Goto("shown")
  /\ Present(FALSE)
  /\ NoKey /\ UNCHANGED wanted

(* A dashboard that cannot be entered leaves linear output, without keys.    *)
StageShows ==
  LET who == IF runner.escalated \/ Bootstraps(runner) THEN "frontier" ELSE "worker"
  IN /\ runner.pc = "shown"
     /\ \E stage \in IF runner.escalated THEN {"Frontier replanning"}
                     ELSE Stages \ {"Frontier replanning"} :
          /\ screen' = [screen EXCEPT !.stage = Title(stage, who)]
          /\ board' \in IF Up THEN {Staged(board, Title(stage, who))}
                        ELSE {Staged(Entered, Title(stage, who)), NoBoard}
     /\ Goto("stage") /\ NoKey /\ UNCHANGED wanted

StreamShows ==
  /\ runner.pc = "stage"
  /\ board' \in IF Up THEN {Streaming(board)} ELSE {Streaming(Entered), NoBoard}
  /\ Goto("stream") /\ NoKey /\ UNCHANGED <<screen, wanted>>

StreamOver ==
  /\ runner.pc = "stream" /\ Goto("stage")
  /\ \E success \in BOOLEAN :
       board' = IF Up /\ ~success THEN [board EXCEPT !.running = FALSE] ELSE board
  /\ NoKey /\ UNCHANGED <<screen, wanted>>

StageOver ==
  /\ runner.pc = "stage"
  /\ runner' = [runner EXCEPT !.pc = "loop", !.escalated = FALSE]
  /\ NoKey /\ UNCHANGED <<screen, board, wanted>>

(* The worker asks for a replan, or is made to.                              *)
StageEscalates ==
  /\ runner.pc = "stage" /\ ~runner.localOnly /\ ~runner.escalated
  /\ runner' = [runner EXCEPT !.pc = "loop", !.escalated = TRUE]
  /\ NoKey /\ UNCHANGED <<screen, board, wanted>>

SliceCompletes ==
  /\ runner.pc = "stage" /\ ~runner.escalated /\ Goto("complete")
  /\ Present(TRUE)
  /\ NoKey /\ UNCHANGED wanted

(* stop_after_iteration_requested, and the next slice                       *)
AfterSlice ==
  /\ runner.pc = "complete" /\ NoKey
  /\ IF (Up /\ board.stop) \/ runner.slice = MaxSlices
       THEN Goto("ended") /\ board' = NoBoard /\ wanted' = FALSE
       ELSE /\ runner' = [runner EXCEPT !.pc = "loop", !.slice = @ + 1]
            /\ UNCHANGED <<board, wanted>>
  /\ UNCHANGED screen
-----------------------------------------------------------------------------
(* Keys                                                                     *)

(* frontier_available                                                       *)
FrontierAvailable ==
  board.running /\ board.panel \in {<<stage>> : stage \in CalledDuring}

(* handle_event without a confirmation: what the key asks for.               *)
Asks(k) ==
  CASE k = "q" -> "StopAfter"
    [] k = "p" -> "Pause"
    [] k = "f" /\ ~runner.localOnly /\ FrontierAvailable -> "Escalate"
    [] k = "c" /\ ~board.compacted -> "Compact"
    [] k = "C" /\ ~board.inspected -> "Context"
    [] OTHER -> "None"

(* handle_confirmation_event: what is done about it.                         *)
Confirmed(b, what) ==
  [b EXCEPT !.pending = "None", !.stop = @ \/ what = "StopAfter",
            !.compacted = @ \/ what = "Compact", !.inspected = @ \/ what = "Context"]

Press(k) == runner.pc = "stream" /\ Up /\ control = "None" /\ key' = k

Interrupts ==
  /\ Press("Ctrl-C") /\ control' = "Interrupt"
  /\ UNCHANGED <<runner, screen, board, wanted>>

Ask(k) ==
  /\ Press(k) /\ k \notin {"Ctrl-C", "i"}
  /\ board.typed = "no" /\ board.pending = "None"
  /\ board' = [board EXCEPT !.pending = Asks(k)]
  /\ control' = "None" /\ UNCHANGED <<runner, screen, wanted>>

(* Any other key takes the confirmation back, and means nothing else.        *)
Confirm(k) ==
  /\ Press(k) /\ k # "Ctrl-C" /\ board.typed = "no" /\ board.pending # "None"
  /\ IF k = "y"
       THEN /\ board' = Confirmed(board, board.pending)
            /\ control' = IF board.pending = "StopAfter" THEN "None" ELSE board.pending
            /\ wanted' = (wanted \/ board.pending = "StopAfter")
       ELSE /\ board' = [board EXCEPT !.pending = "None"]
            /\ control' = "None" /\ UNCHANGED wanted
  /\ UNCHANGED <<runner, screen>>

Steer ==
  /\ Press("i") /\ board.typed = "no" /\ board.pending = "None"
  /\ board' = [board EXCEPT !.typed = "empty"]
  /\ control' = "None" /\ UNCHANGED <<runner, screen, wanted>>

(* handle_injection_event                                                   *)
Type(k) ==
  /\ Press(k) /\ k # "Ctrl-C" /\ board.typed # "no"
  /\ board' = [board EXCEPT !.typed = IF k = "Enter" THEN "no" ELSE "text"]
  /\ control' = IF k = "Enter" /\ board.typed = "text" THEN "Inject" ELSE "None"
  /\ UNCHANGED <<runner, screen, wanted>>

(* The backend takes the control: the stream goes on, or ends.               *)
KeyTaken ==
  /\ control # "None" /\ NoKey
  /\ IF control \in {"Pause", "Interrupt"}
       THEN Goto("ended") /\ board' = NoBoard /\ wanted' = FALSE
       ELSE /\ IF control = "Escalate" THEN Goto("stage") ELSE UNCHANGED runner
            /\ UNCHANGED <<board, wanted>>
  /\ UNCHANGED screen

(* Another process resumes the campaign; the dashboard is gone.              *)
Restarts ==
  /\ runner.process < MaxProcesses
  /\ runner' = [runner EXCEPT !.pc = IF @ = "complete" THEN @ ELSE "loop", !.process = @ + 1]
  /\ screen' = [view |-> Shown(runner, FALSE), continues |-> FALSE, stage |-> <<>>]
  /\ board' = NoBoard /\ wanted' = FALSE /\ NoKey

DashboardNext ==
  \/ LoopShows \/ StageShows \/ StreamShows \/ StageEscalates \/ StageOver
  \/ control = "None" /\ StreamOver
  \/ SliceCompletes \/ AfterSlice
  \/ Interrupts \/ Steer
  \/ \E k \in Keys : Ask(k) \/ Confirm(k) \/ Type(k)
  \/ KeyTaken \/ Restarts

DashboardSpec == DashboardInit /\ [][DashboardNext]_dashboard
-----------------------------------------------------------------------------
(* Once the user has confirmed q, this process does not go on to another     *)
(* slice, whatever stages, replans and updates of the campaign's view come   *)
(* before the end of this one (README.md: "`q` in campaign mode pauses       *)
(* cleanly after the current change completes after confirmation").          *)
PauseHonoured ==
  [][wanted /\ runner'.process = runner.process => runner'.slice = runner.slice]_dashboard
=============================================================================
