------------------------------ MODULE CodexTurn ------------------------------
(***************************************************************************)
(* An attempt and a compaction of the Codex backend (src/src/codex.rs and  *)
(* codex_server.rs).  The runner talks to one App Server: it asks for a    *)
(* turn, steers or interrupts it by its id, and reads the notifications of *)
(* the thread, those that arrived while it waited for a response first.    *)
(*                                                                         *)
(* The App Server is external.  A request that fails may have been served. *)
(* A turn is known by the number of the request that started it; what is   *)
(* said of it may leave it unnamed.  A turn that reports an error without a *)
(* retry is taken to be over, though its end is told later.  Left out:     *)
(* threads of others, and the diagnostics that are saved after an attempt.  *)
(***************************************************************************)
EXTENDS Invocation

CONSTANT MaxNotices   \* bound: unread notifications, but for what ends a turn at work

ASSUME NoticesAssumption == MaxNotices \in Nat

VARIABLES
  asking,        \* what the runner does: "none", "read"
  turnId,        \* the turn it waits for
  pendingControl,\* pending_control; "none"
  response,      \* the answer heard so far, and the turn it is of
  working,       \* external: the turn at work; 0: none
  owed,          \* external: notifications of the end of failed turns, still to be sent
  notices,       \* notifications the runner has not read, deferred ones first
  condensed      \* history: the last compaction the server carried out

codexRunner == <<asking, turnId, pendingControl, response>>
codex == <<codexRunner, working, owed, notices, condensed>>

NoAnswer == [signal |-> "missing", of |-> 0]
Notice(kind, id, what) == [kind |-> kind, id |-> id, what |-> what, named |-> TRUE]
Unnamed(kind, id, what) == [kind |-> kind, id |-> id, what |-> what, named |-> FALSE]

CxAnswers == {"complete", "incomplete", "missing"}
CxFaults == {"limit", "userTurn", "transient", "error"}

Notices ==
  [kind : {"answer", "error", "completed", "compacted"}, id : Nat,
   what : {"none", "interrupted"} \cup CxAnswers \cup CxFaults, named : BOOLEAN]

TypeOfCodex ==
  /\ asking \in {"none", "read"} /\ turnId \in Nat
  /\ pendingControl \in {"none", "compact", "context"}
  /\ response \in [signal : CxAnswers, of : Nat]
  /\ working \in Nat /\ condensed \in Nat
  /\ owed \subseteq Notices /\ notices \in Seq(Notices)

CodexInit ==
  /\ asking = "none" /\ turnId = 0 /\ pendingControl = "none" /\ response = NoAnswer
  /\ working = 0 /\ owed = {} /\ notices = <<>> /\ condensed = 0

CxAtWork == backend = "codex" /\ step = "attempt" /\ attempt = "running"
CxCompacting == backend = "codex" /\ step = "compacting" /\ attempt = "running"

CxGets(result) ==
  /\ attempt' = result /\ asking' = "none"
  /\ UNCHANGED <<configuration, counters, clock, step, prompt, outcome, wait, queued, requests>>
-----------------------------------------------------------------------------
(* start_turn: the response names the turn; a request that fails leaves the  *)
(* runner without a name for a turn that may be at work.                     *)
CxStart ==
  /\ CxAtWork /\ asking = "none"
  /\ pendingControl' = "none" /\ response' = NoAnswer
  /\ \/ /\ asking' = "read" /\ turnId' = requests /\ working' = requests
        /\ UNCHANGED invocation
     \/ /\ CxGets("error") /\ working' \in {working, requests}
        /\ UNCHANGED <<turnId, controls>>
  /\ UNCHANGED <<owed, notices, condensed>>

Interrupted(id) == Append(notices, Notice("completed", id, "interrupted"))

(* interrupt_turn.  The server refuses to interrupt a turn that is over; the *)
(* response to what it did may not arrive.                                   *)
CxInterrupt(confirmed) ==
  IF confirmed
  THEN working = turnId /\ working' = 0 /\ notices' = Interrupted(turnId)
  ELSE \/ UNCHANGED <<working, notices>>
       \/ working = turnId /\ working' = 0 /\ notices' = Interrupted(turnId)

(* A policy stop, a stage timeout or a stopping key interrupts the turn and  *)
(* does not depend on the answer.                                            *)
CxGivesUp(why) ==
  /\ \E confirmed \in BOOLEAN : CxInterrupt(confirmed)
  /\ CxGets(why)
  /\ UNCHANGED <<turnId, pendingControl, response, owed, condensed>>

CxStops ==
  /\ CxAtWork /\ asking = "read" /\ UNCHANGED controls
  /\ \/ CxGivesUp("policy")
     \/ Expired /\ CxGivesUp("escalate")

CxStopKey ==
  /\ CxAtWork /\ asking = "read" /\ controls < MaxControls
  /\ controls' = controls + 1
  /\ \E why \in {"pause", "escalate", "error"} : CxGivesUp(why)

(* The stream of the server fails, or the server asks for input, upon which   *)
(* the turn is interrupted.                                                 *)
CxFails ==
  /\ CxAtWork /\ asking = "read" /\ UNCHANGED controls
  /\ CxGivesUp("error")

(* Compact and Context: an interruption that has to be confirmed, one at a   *)
(* time.                                                                    *)
CxControl ==
  /\ CxAtWork /\ asking = "read" /\ controls < MaxControls
  /\ controls' = controls + 1
  /\ \/ /\ pendingControl # "none"
        /\ UNCHANGED <<attempt, asking, pendingControl, working, notices>>
     \/ /\ pendingControl = "none" /\ CxInterrupt(TRUE)
        /\ \E control \in {"compact", "context"} : pendingControl' = control
        /\ UNCHANGED <<attempt, asking>>
     \/ /\ pendingControl = "none" /\ CxInterrupt(FALSE)
        /\ attempt' = "error" /\ asking' = "none"
        /\ UNCHANGED pendingControl
  /\ UNCHANGED <<configuration, counters, clock, step, prompt, outcome, wait, queued, requests,
                 turnId, response, owed, condensed>>

(* Inject: a turn that is over cannot be steered, which ends the attempt.    *)
CxSteer ==
  /\ CxAtWork /\ asking = "read" /\ controls < MaxControls
  /\ controls' = controls + 1
  /\ IF working = turnId THEN UNCHANGED <<attempt, asking>>
     ELSE attempt' = "error" /\ asking' = "none"
  /\ UNCHANGED <<configuration, counters, clock, step, prompt, outcome, wait, queued, requests,
                 turnId, pendingControl, response, working, owed, notices, condensed>>
-----------------------------------------------------------------------------
(* A notification.  Those of other turns are passed over; what names no turn  *)
(* counts as said of this one, but only what names it ends it.               *)
OfTurn(n) == n.named => n.id = turnId
EndsTurn(n) == n.named /\ n.id = turnId /\ n.kind \in {"error", "completed"}
AnswersTurn(n) == OfTurn(n) /\ n.kind = "answer"

CxCompleted(n) ==
  IF pendingControl # "none" THEN pendingControl
  ELSE IF n.what = "interrupted" THEN "error"
  ELSE IF n.what \in CxFaults THEN n.what ELSE response.signal

CxRead ==
  /\ CxAtWork /\ asking = "read" /\ notices # <<>>
  /\ LET n == Head(notices)
     IN \/ /\ ~AnswersTurn(n) /\ ~EndsTurn(n)
           /\ UNCHANGED <<invocation, asking, response>>
        \/ /\ AnswersTurn(n)
           /\ response' = [signal |-> n.what, of |-> n.id]
           /\ UNCHANGED <<invocation, asking>>
        \/ /\ EndsTurn(n)
           /\ CxGets(IF n.kind = "error" THEN n.what ELSE CxCompleted(n))
           /\ UNCHANGED <<controls, response>>
  /\ notices' = Tail(notices)
  /\ UNCHANGED <<turnId, pendingControl, working, owed, condensed>>

(* compact_thread: until the thread is reported compacted, or two minutes    *)
(* are over.                                                                *)
CxCompact ==
  /\ CxCompacting /\ asking = "none"
  /\ \/ asking' = "read" /\ UNCHANGED invocation
     \/ CxGets("error") /\ UNCHANGED controls
  /\ UNCHANGED <<turnId, pendingControl, response, working, owed, notices, condensed>>

CxReadCompaction ==
  /\ CxCompacting /\ asking = "read"
  /\ \/ /\ notices # <<>> /\ notices' = Tail(notices) /\ UNCHANGED controls
        /\ IF Head(notices).kind = "compacted" THEN CxGets("complete")
           ELSE UNCHANGED <<invocation, asking>>
     \/ \E result \in {"error", "policy"} :
          CxGets(result) /\ UNCHANGED <<controls, notices>>
  /\ UNCHANGED <<turnId, pendingControl, response, working, owed, condensed>>
-----------------------------------------------------------------------------
(* The App Server works on the turn: it answers, compacts the thread by      *)
(* itself, and ends the turn, after an error with two notifications.         *)
AppServer ==
  /\ working # 0
  /\ \/ /\ Len(notices) < MaxNotices /\ UNCHANGED <<working, owed>>
        /\ \/ \E what \in CxAnswers :
                \E n \in {Notice("answer", working, what), Unnamed("answer", working, what)} :
                  notices' = Append(notices, n)
           \/ notices' = Append(notices, Notice("compacted", working, "none"))
     \/ /\ notices' = Append(notices, Notice("completed", working, "none"))
        /\ working' = 0 /\ UNCHANGED owed
     \/ \E what \in CxFaults :
          /\ \E n \in {Notice("error", working, what), Unnamed("error", working, what)} :
               notices' = Append(notices, n)
          /\ owed' = owed \cup {Notice("completed", working, what)} /\ working' = 0
  /\ UNCHANGED <<invocation, codexRunner, condensed>>

(* The end of a turn that failed, when the runner may wait for another.       *)
AppServerEnds ==
  /\ Len(notices) < MaxNotices
  /\ \E n \in owed : owed' = owed \ {n} /\ notices' = Append(notices, n)
  /\ UNCHANGED <<invocation, codexRunner, working, condensed>>

(* It compacts the thread it was asked to compact.                           *)
AppServerCompacts ==
  /\ CxCompacting /\ asking = "read" /\ condensed # requests
  /\ condensed' = requests
  /\ notices' = Append(notices, Notice("compacted", requests, "none"))
  /\ UNCHANGED <<invocation, codexRunner, working, owed>>

CodexRunner ==
  CxStart \/ CxStops \/ CxStopKey \/ CxFails \/ CxControl \/ CxSteer \/ CxRead \/ CxCompact
    \/ CxReadCompaction
-----------------------------------------------------------------------------
(* The answer the loop gets is the one of the turn it started last, whatever *)
(* the notifications of an earlier turn still say; what it takes for a        *)
(* compaction is the one it asked for; and it goes on, to a retry, another    *)
(* prompt or a control, only once the turn is over.                          *)
AnswerOfTurn ==
  backend = "codex" =>
    /\ (step = "attempt" /\ attempt \in {"complete", "incomplete"}
          => response.of = requests /\ turnId = requests)
    /\ (step = "attempt" /\ attempt \in {"complete"} \cup Retried \cup Control => working = 0)
    /\ (step = "compacting" /\ attempt = "complete" => condensed = requests)
=============================================================================
