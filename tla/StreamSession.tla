--------------------------- MODULE StreamSession ---------------------------
(***************************************************************************)
(* One streamed Claude command (src/src/process.rs): the runner's loop     *)
(* writes turns and interrupts to the standard input of the process, reads *)
(* its output line by line, serves the keys of the dashboard, and stops    *)
(* the process group when it has to.  Claude works on the turns it has     *)
(* read and answers each with one result line.                             *)
(*                                                                         *)
(* An input is the stage command, a steering text or a slash command; of a *)
(* result only whether its turn was interrupted.  Left out: commands       *)
(* without streamed input, the output of commands, lines of standard error,*)
(* an output pipe that cannot be read, signals that cannot be sent, and    *)
(* the restart of a stage by the backend (no backend asks for it).         *)
(***************************************************************************)
EXTENDS Naturals, Sequences

CONSTANTS
  Threshold,       \* MODEL_CONFUSION_COMPACTION_THRESHOLD
  Limits,          \* limits that stop a process: "policy", "timeout"
  StopKeys,        \* keys that stop it: "pause", "escalate", "interrupt"
  MaxKeys,         \* bound: keys that interrupt a turn without stopping it
  MaxRejections,   \* bound: lines of output with a rejected model confusion
  Overlapping      \* a slash command may be asked for while one is under way

ASSUME BoundsAssumption ==
  Threshold \in Nat \ {0} /\ MaxKeys \in Nat /\ MaxRejections \in Nat
ASSUME ReasonsAssumption == (Limits \cup StopKeys) \cap {"none", "output", "unwritten"} = {}
ASSUME OverlappingAssumption == Overlapping \in BOOLEAN

VARIABLES
  phase,       \* where the loop of the runner is
  stdin,       \* the input pipe is open
  sent,        \* sent_messages
  completed,   \* completed_messages
  turns,       \* pending_turns
  pending,     \* pending_interrupt: the action; "none"
  request,     \* its request_id; the number of interrupts written
  rejections,  \* model_confusion_rejections
  compacted,   \* model_confusion_compaction_attempted
  reason,      \* why the process is cancelled; "none": it is not
  late,        \* the grace period of two seconds is over
  signal,      \* the last signal to the process group
  outcome,     \* what the caller gets; "none": nothing yet
  accepts,     \* accepts_stream_messages
  launcher,    \* external: what the launcher does with interrupts
  keys,        \* the slash commands the dashboard still offers
  pressed,     \* keys that asked for an interrupt so far
  inbox,       \* external: what Claude has not read
  turn,        \* external: the input Claude works on; "none"
  stopping,    \* external: Claude has accepted an interrupt of that turn
  lines,       \* external: what the runner has not read
  exit,        \* external: "running", "success", "failure"
  work         \* history: what became of the last stage command or steering

loop == <<phase, reason, late, signal, outcome>>
turnsOf == <<stdin, sent, completed, turns>>
interrupt == <<pending, request>>
confusion == <<rejections, compacted>>
dashboard == <<accepts, launcher, keys, pressed>>
claude == <<inbox, turn, stopping, lines, exit, work>>
vars == <<loop, turnsOf, interrupt, confusion, dashboard, claude>>

Slash == {"compact", "context"}
WorkInput == {"stage", "steer"}
Input == WorkInput \cup Slash

(* TurnPurpose: `resume` is the interrupted input a follow-up gives back.   *)
Turn == [input : Input, purpose : {"work", "followup"}, resume : Input \cup {"none"}]
WorkTurn(i) == [input |-> i, purpose |-> "work", resume |-> "none"]
FollowUp(i, resume) ==
  IF i = "steer" THEN WorkTurn(i)
  ELSE [input |-> i, purpose |-> "followup", resume |-> resume]

Message == [kind : {"input", "interrupt"}, input : Input \cup {"none"}, id : Nat]
InputMessage(i) == [kind |-> "input", input |-> i, id |-> 0]
Interrupt(n) == [kind |-> "interrupt", input |-> "none", id |-> n]

Line == [kind : {"result", "response", "rejection"}, input : Input \cup {"none"},
         interrupted : BOOLEAN, id : Nat, ok : BOOLEAN]
Result(i, interrupted) ==
  [kind |-> "result", input |-> i, interrupted |-> interrupted, id |-> 0, ok |-> TRUE]
Response(n, ok) ==
  [kind |-> "response", input |-> "none", interrupted |-> FALSE, id |-> n, ok |-> ok]
Rejection ==
  [kind |-> "rejection", input |-> "none", interrupted |-> FALSE, id |-> 0, ok |-> TRUE]

(* Claude Code accepts interrupts; compatible launchers may reject them, and *)
(* older ones ignore them.                                                  *)
Launcher == {"accepting", "rejecting", "ignoring"}

Reason == Limits \cup StopKeys \cup {"unwritten"}

TypeOK ==
  /\ phase \in {"start", "receive", "control", "close", "done"}
  /\ stdin \in BOOLEAN /\ sent \in Nat /\ completed \in Nat /\ turns \in Seq(Turn)
  /\ pending \in Input \cup {"none"} /\ request \in Nat
  /\ rejections \in 0..Threshold /\ compacted \in BOOLEAN
  /\ reason \in Reason \cup {"none"} /\ late \in BOOLEAN
  /\ signal \in {"none", "int", "kill"}
  /\ outcome \in Reason \cup {"none", "output"}
  /\ accepts \in BOOLEAN /\ launcher \in Launcher
  /\ keys \subseteq Slash /\ pressed \in 0..MaxKeys
  /\ inbox \in Seq(Message) /\ turn \in Input \cup {"none"} /\ stopping \in BOOLEAN
  /\ lines \in Seq(Line) /\ exit \in {"running", "success", "failure"}
  /\ work \in {"asked", "interrupted", "answered"}

Init ==
  /\ phase = "start" /\ reason = "none" /\ late = FALSE /\ signal = "none"
  /\ outcome = "none"
  /\ stdin = TRUE /\ sent = 1 /\ completed = 0 /\ turns = <<>>
  /\ pending = "none" /\ request = 0 /\ rejections = 0 /\ compacted = FALSE
  /\ accepts \in BOOLEAN /\ launcher \in Launcher /\ keys = Slash /\ pressed = 0
  /\ inbox = <<>> /\ turn = "none" /\ stopping = FALSE /\ lines = <<>>
  /\ exit = "running" /\ work = "asked"

Cancelled == reason # "none"
CanWrite == stdin /\ exit = "running"

Stop(why) == reason' = why /\ stdin' = FALSE /\ signal' = "int"
-----------------------------------------------------------------------------
(* Writing to Claude                                                        *)

(* queue_raw_turn, on top of the turns that are left.                       *)
QueueTurn(left, t) ==
  IF CanWrite
  THEN /\ inbox' = Append(inbox, InputMessage(t.input))
       /\ sent' = sent + 1
       /\ turns' = Append(left, t)
  ELSE inbox' = inbox /\ sent' = sent /\ turns' = left

NothingQueued(left) == turns' = left /\ UNCHANGED <<sent, inbox>>

(* queue_stream_interrupt, with a new request_id.                           *)
QueueInterrupt(action) ==
  /\ inbox' = Append(inbox, Interrupt(request + 1))
  /\ request' = request + 1
  /\ pending' = action

Start ==
  /\ phase = "start"
  /\ phase' = "receive"
  /\ IF CanWrite
     THEN /\ inbox' = <<InputMessage("stage")>> /\ turns' = <<WorkTurn("stage")>>
          /\ UNCHANGED <<reason, signal>>
     ELSE /\ reason' = "unwritten" /\ signal' = "int"
          /\ UNCHANGED <<inbox, turns>>
  /\ UNCHANGED <<late, outcome, stdin, sent, completed, interrupt, confusion, dashboard,
                 turn, stopping, lines, exit, work>>
-----------------------------------------------------------------------------
(* A line of output, or none within 50 ms                                   *)

Receiving(kind) ==
  /\ phase = "receive" /\ lines # <<>> /\ Head(lines).kind = kind
  /\ lines' = Tail(lines)
  /\ phase' = "control"
  /\ UNCHANGED <<reason, late, signal, outcome, stdin, dashboard, turn, stopping, exit, work>>

ConfusionDue == rejections + 1 >= Threshold /\ ~compacted /\ pending = "none" /\ accepts

ReceiveRejection ==
  /\ Receiving("rejection")
  /\ rejections' = IF rejections < Threshold THEN rejections + 1 ELSE rejections
  /\ IF ConfusionDue /\ CanWrite
     THEN compacted' = TRUE /\ QueueInterrupt("compact")
     ELSE UNCHANGED <<compacted, interrupt, inbox>>
  /\ UNCHANGED <<sent, completed, turns>>

(* Mutant: the input is looked up after the answered turn is taken.         *)
ResumedNext(action, interrupted) ==
  IF action \in Slash /\ interrupted /\ Len(turns) > 1 THEN turns[2].input ELSE "none"

(* The input that the slash command of a pending interrupt gives back.      *)
Resumed(action, interrupted) ==
  IF action \in Slash /\ interrupted /\ turns # <<>> THEN Head(turns).input ELSE "none"

(* Mutant: the answered turn is looked at and not taken.                    *)
LeftPeeked == turns

Left == IF turns = <<>> THEN <<>> ELSE Tail(turns)

ReceiveResult ==
  /\ Receiving("result")
  /\ completed' = completed + 1
  /\ IF pending # "none"
     THEN /\ QueueTurn(Left, FollowUp(pending, Resumed(pending, Head(lines).interrupted)))
          /\ pending' = "none"
     ELSE /\ IF turns # <<>> /\ Head(turns).resume # "none"
             THEN QueueTurn(Left, WorkTurn(Head(turns).resume))
             ELSE NothingQueued(Left)
          /\ UNCHANGED pending
  /\ UNCHANGED <<request, confusion>>

Answers(l) == l.id = request

(* Mutant: a late rejection, its interrupt already served, is acted upon.   *)
ReceiveResponseAgain ==
  /\ Receiving("response")
  /\ IF Answers(Head(lines)) /\ ~Head(lines).ok
     THEN QueueTurn(turns, FollowUp(pending, "none")) /\ pending' = "none"
     ELSE NothingQueued(turns) /\ UNCHANGED pending
  /\ UNCHANGED <<completed, request, confusion>>

ReceiveResponse ==
  /\ Receiving("response")
  /\ IF pending # "none" /\ Answers(Head(lines)) /\ ~Head(lines).ok
     THEN QueueTurn(turns, FollowUp(pending, "none")) /\ pending' = "none"
     ELSE NothingQueued(turns) /\ UNCHANGED pending
  /\ UNCHANGED <<completed, request, confusion>>

ReceiveNothing ==
  /\ phase = "receive" /\ lines = <<>> /\ exit = "running"
  /\ phase' = "control"
  /\ UNCHANGED <<reason, late, signal, outcome, turnsOf, interrupt, confusion, dashboard,
                 claude>>

(* Both pipes are at their end: the loop is left, and the result depends on *)
(* why the process was cancelled.                                           *)
Disconnected ==
  /\ phase = "receive" /\ lines = <<>> /\ exit # "running"
  /\ phase' = "done"
  /\ outcome' = IF Cancelled THEN reason ELSE "output"
  /\ UNCHANGED <<reason, late, signal, turnsOf, interrupt, confusion, dashboard, claude>>
-----------------------------------------------------------------------------
(* Limits and keys                                                          *)

(* Mutant: limits and keys are looked at although the process is stopped.   *)
ServingStopped == phase = "control"

Serving == phase = "control" /\ ~Cancelled

(* Guard::poll fails, or the stage has used up its time; the loop continues *)
(* with the next line.                                                      *)
Expire ==
  /\ Serving
  /\ \E why \in Limits : Stop(why)
  /\ phase' = "receive"
  /\ UNCHANGED <<late, outcome, sent, completed, turns, interrupt, confusion, dashboard,
                 claude>>

StopKey ==
  /\ Serving
  /\ \E why \in StopKeys : Stop(why)
  /\ phase' = "close"
  /\ UNCHANGED <<late, outcome, sent, completed, turns, interrupt, confusion, dashboard,
                 claude>>

UnderWay == turns # <<>> /\ Head(turns).purpose = "followup"

(* The dashboard offers each slash command once in a stream.                *)
Pressed(action) ==
  /\ pressed < MaxKeys /\ pressed' = pressed + 1
  /\ \/ /\ action \in keys /\ (Overlapping \/ ~UnderWay)
        /\ keys' = keys \ {action}
     \/ action = "steer" /\ keys' = keys

InterruptKey(action) ==
  /\ Serving
  /\ Pressed(action)
  /\ IF accepts /\ pending = "none" /\ CanWrite
     THEN QueueInterrupt(action)
     ELSE UNCHANGED <<interrupt, inbox>>
  /\ phase' = IF accepts /\ pending # "none" THEN "receive" ELSE "close"
  /\ UNCHANGED <<reason, late, signal, outcome, turnsOf, confusion, accepts, launcher,
                 turn, stopping, lines, exit, work>>

NoKey ==
  /\ phase = "control"
  /\ phase' = "close"
  /\ UNCHANGED <<reason, late, signal, outcome, turnsOf, interrupt, confusion, dashboard,
                 claude>>

(* Mutant: the first answer closes the input.                               *)
AnyAnswered == completed > 0

AllAnswered == completed >= sent

(* Mutant: an ignored interrupt is not followed by a kill.                  *)
ClosePatiently ==
  /\ phase = "close"
  /\ phase' = "receive"
  /\ stdin' = (stdin /\ ~AllAnswered)
  /\ UNCHANGED <<reason, late, signal, outcome, sent, completed, turns, interrupt,
                 confusion, dashboard, claude>>

Close ==
  /\ phase = "close"
  /\ phase' = "receive"
  /\ stdin' = (stdin /\ ~AllAnswered)
  /\ signal' = IF late THEN "kill" ELSE signal
  /\ UNCHANGED <<reason, late, outcome, sent, completed, turns, interrupt, confusion,
                 dashboard, claude>>

GraceOver ==
  /\ Cancelled /\ ~late /\ phase # "done"
  /\ late' = TRUE
  /\ UNCHANGED <<phase, reason, signal, outcome, turnsOf, interrupt, confusion, dashboard,
                 claude>>
-----------------------------------------------------------------------------
(* Claude (external)                                                        *)

runner == <<loop, turnsOf, interrupt, confusion, dashboard>>

Begin ==
  /\ exit = "running" /\ turn = "none"
  /\ inbox # <<>> /\ Head(inbox).kind = "input"
  /\ turn' = Head(inbox).input
  /\ inbox' = Tail(inbox)
  /\ work' = IF turn' \in WorkInput THEN "asked" ELSE work
  /\ UNCHANGED <<runner, stopping, lines, exit>>

(* Interrupts are served as they are read; inputs read before wait for the  *)
(* turn to end.                                                             *)
FirstInterrupt(i) ==
  /\ i \in DOMAIN inbox /\ inbox[i].kind = "interrupt"
  /\ \A j \in 1..(i - 1) : inbox[j].kind = "input"

Read(i) == SubSeq(inbox, 1, i - 1) \o SubSeq(inbox, i + 1, Len(inbox))

TakeInterrupt ==
  /\ exit = "running"
  /\ \E i \in DOMAIN inbox :
       /\ FirstInterrupt(i)
       /\ inbox' = Read(i)
       /\ lines' = IF launcher = "ignoring" THEN lines
                   ELSE Append(lines, Response(inbox[i].id, launcher = "accepting"))
  /\ stopping' = (launcher = "accepting" /\ turn # "none")
  /\ UNCHANGED <<runner, turn, exit, work>>

EndTurn(interrupted) ==
  /\ exit = "running" /\ turn # "none" /\ (interrupted => stopping)
  /\ lines' = Append(lines, Result(turn, interrupted))
  /\ work' = IF turn \notin WorkInput THEN work
             ELSE IF interrupted THEN "interrupted" ELSE "answered"
  /\ turn' = "none" /\ stopping' = FALSE
  /\ UNCHANGED <<runner, inbox, exit>>

Confused ==
  /\ exit = "running" /\ turn \in WorkInput
  /\ rejections + Len(SelectSeq(lines, LAMBDA l : l = Rejection)) < MaxRejections
  /\ lines' = Append(lines, Rejection)
  /\ UNCHANGED <<runner, inbox, turn, stopping, exit, work>>

Leave(how) ==
  /\ exit = "running"
  /\ exit' = how /\ inbox' = <<>> /\ turn' = "none" /\ stopping' = FALSE
  /\ UNCHANGED <<runner, lines, work>>

Exit ==
  /\ ~stdin /\ turn = "none" /\ \A i \in DOMAIN inbox : inbox[i].kind = "interrupt"
  /\ Leave("success")

Crash == signal # "kill" /\ Leave("failure")

Killed == signal = "kill" /\ Leave("failure")

RunnerStep ==
  \/ Start
  \/ ReceiveRejection \/ ReceiveResult \/ ReceiveResponse \/ ReceiveNothing \/ Disconnected
  \/ NoKey \/ Close

ClaudeStep == Begin \/ TakeInterrupt \/ (\E interrupted \in BOOLEAN : EndTurn(interrupted)) \/ Exit

Next ==
  \/ RunnerStep \/ ClaudeStep
  \/ Expire \/ StopKey \/ (\E action \in Slash \cup {"steer"} : InterruptKey(action))
  \/ GraceOver \/ Killed \/ Crash \/ Confused

Spec == Init /\ [][Next]_vars

(* The runner, the clock and the kernel; nothing is promised by Claude.     *)
FairSpec == Spec /\ WF_vars(RunnerStep) /\ WF_vars(GraceOver) /\ WF_vars(Killed)

ClaudeEndsTurns == WF_vars(ClaudeStep)
-----------------------------------------------------------------------------
(* Properties                                                               *)

(* The entries of a kind are about these of the turns, in their order.       *)
InOrder(s, kind, ts, first, end) ==
  \E at \in [first..end -> DOMAIN s] :
    /\ \A k, l \in first..end : k < l => at[k] < at[l]
    /\ {at[k] : k \in first..end} = {i \in DOMAIN s : s[i].kind = kind}
    /\ \A k \in first..end : s[at[k]].input = ts[k].input

(* The turns the runner waits for are those Claude has not answered to it,  *)
(* in their order, so that a result is taken for the answer to the input it *)
(* answers: results in the pipe, the turn at work, the inputs unread.  And  *)
(* the input of a process that nobody stops is closed only when everything  *)
(* written to it is answered, follow-ups and reissued commands included.    *)
TurnsAnswered ==
  exit = "running" =>
    /\ \E ended \in 0..Len(turns) :
         LET begun == IF turn = "none" THEN ended ELSE ended + 1
         IN /\ InOrder(lines, "result", turns, 1, ended)
            /\ turn # "none" => begun <= Len(turns) /\ turns[begun].input = turn
            /\ InOrder(inbox, "input", turns, begun + 1, Len(turns))
    /\ ~stdin /\ ~Cancelled => turns = <<>>

(* A command that ends by itself has answered the stage command, or the     *)
(* steering that replaced it: no interrupt for a slash command makes the    *)
(* stage end without it (README.md: `c` "interrupts the active turn,        *)
(* compacts its session, and reissues the interrupted stage command").      *)
(* Steering typed during a slash command counts as the replacement, though   *)
(* the code then reissues nothing: less than README.md says.                *)
CommandAnswered == outcome = "output" /\ exit = "success" => work = "answered"

(* A stop is final: once the runner cancels a process, whatever Claude      *)
(* still writes does not make it write another turn, and the caller hears   *)
(* the reason of the first stop.                                            *)
StopIsFinal ==
  [][Cancelled => sent' = sent /\ reason' = reason /\ outcome' \in {"none", reason}]_vars

(* Nobody waits for ever, the runner for a result and Claude for the end of *)
(* its input: the command ends if Claude ends its turns, by itself or at a  *)
(* limit of its own; and a stop ends it even if Claude ignores interrupts.  *)
CommandEnds == (ClaudeEndsTurns => <>(phase = "done")) /\ (Cancelled ~> phase = "done")
=============================================================================
