---------------------------- MODULE OpenCodeTurn ----------------------------
(***************************************************************************)
(* An attempt and a compaction of the OpenCode backend (src/src/opencode.rs*)
(* and opencode_server.rs).  The runner subscribes once to the events of   *)
(* its private server, discards what is left of earlier turns, submits an  *)
(* input that the server delivers to the session when it can, and waits    *)
(* for the events of that input.  A turn that ends in an error is          *)
(* interrupted before the loop of Invocation may go on.                    *)
(*                                                                         *)
(* The session of the server is external: it works on the inputs in order, *)
(* and interrupting it cancels the inputs that were not delivered.  Events *)
(* on their way are one queue, in the order the server emits them; none is  *)
(* left of an earlier invocation.  Left out: permissions, which are        *)
(* approved, and other sessions' events.                                   *)
(***************************************************************************)
EXTENDS Invocation

VARIABLES
  turn,       \* what the runner does: "none", "prompt", "wait"
  input,      \* the input waited for; 0: a command's, which the server has yet to name
  enqueued, delivered, compacted,
  output,     \* what the events of the turn said so far
  exec,       \* external: the session is "idle" or "running"
  inbox,      \* external: inputs enqueued and not delivered
  current,    \* external: the input the execution works on
  said,       \* external: the model has answered it
  events,     \* events the runner has not read
  summarized  \* history: the last compaction the server carried out

ocRunner == <<turn, input, enqueued, delivered, compacted, output>>
ocServer == <<exec, inbox, current, said, summarized>>
openCode == <<ocRunner, ocServer, events>>

Nothing == [signal |-> "missing", limit |-> FALSE, fault |-> "none", of |-> 0]
Event(kind, id) == [kind |-> kind, id |-> id, what |-> "none"]
Said(id, what) == [kind |-> "text", id |-> id, what |-> what]
Failing(kind, what) == [kind |-> kind, id |-> 0, what |-> what]

Answers == {"complete", "incomplete", "limit", "prose"}
Faults == {"transient", "error"}

TypeOfOpenCode ==
  /\ turn \in {"none", "prompt", "wait"} /\ input \in Nat
  /\ enqueued \in BOOLEAN /\ delivered \in BOOLEAN /\ compacted \in BOOLEAN
  /\ output \in [signal : {"missing", "complete", "incomplete"}, limit : BOOLEAN,
                 fault : {"none"} \cup Faults, of : Nat]
  /\ exec \in {"idle", "running"} /\ inbox \in Seq(Nat) /\ current \in Nat
  /\ said \in BOOLEAN /\ summarized \in Nat
  /\ events \in Seq([kind : {"enqueued", "delivered", "cancelled", "started", "ended", "text",
                             "step_failed", "failed", "interrupted", "succeeded"},
                     id : Nat, what : {"none"} \cup Answers \cup Faults])

OpenCodeInit ==
  /\ turn = "none" /\ input = 0
  /\ enqueued = FALSE /\ delivered = FALSE /\ compacted = FALSE /\ output = Nothing
  /\ exec = "idle" /\ inbox = <<>> /\ current = 0 /\ said = FALSE
  /\ events = <<>> /\ summarized = 0

OcAtWork == backend = "opencode" /\ step \in {"attempt", "compacting"} /\ attempt = "running"
Compaction == step = "compacting"

(* The answer heard is kept, the rest of what wait_for_turn knew is not.      *)
Gets(result) ==
  /\ attempt' = result /\ turn' = "none"
  /\ enqueued' = FALSE /\ delivered' = FALSE /\ compacted' = FALSE
  /\ UNCHANGED <<configuration, counters, clock, step, prompt, outcome, wait, queued, requests>>
-----------------------------------------------------------------------------
(* prepare_session and subscribe: the events that have arrived are dropped,  *)
(* the others come later; a session or a stream that fails ends the attempt. *)
OcPrepare ==
  /\ OcAtWork /\ turn = "none"
  /\ \/ /\ turn' = "prompt"
        /\ \E n \in 0..Len(events) : events' = SubSeq(events, n + 1, Len(events))
        /\ UNCHANGED <<invocation, enqueued, delivered, compacted>>
     \/ Gets("error") /\ UNCHANGED <<events, controls>>
  /\ UNCHANGED <<input, output, ocServer>>

(* prompt and admit_compaction: the server enqueues the input.  The prompt of *)
(* a stage may be a command, whose input the server names by itself.          *)
OcSubmit ==
  /\ OcAtWork /\ turn = "prompt"
  /\ turn' = "wait"
  /\ input' \in {requests} \cup (IF prompt = "stage" /\ ~Compaction THEN {0} ELSE {})
  /\ enqueued' = FALSE /\ delivered' = FALSE /\ compacted' = FALSE /\ output' = Nothing
  /\ inbox' = Append(inbox, requests)
  /\ events' = Append(events, Event("enqueued", requests))
  /\ UNCHANGED <<invocation, exec, current, said, summarized>>

Cancelled(ids) == [i \in 1..Len(ids) |-> Event("cancelled", ids[i])]

(* Mutant: a failed turn is not interrupted.                                 *)
OcCancelUnconfirmed(why, unread) ==
  /\ Gets(why) /\ events' = unread /\ output' = Nothing
  /\ UNCHANGED <<exec, inbox, current, said, summarized, input>>

(* cancel_failed_turn: only a confirmed interruption keeps what the error    *)
(* was, so that the loop and its caller may go on.                           *)
OcCancel(why, unread) ==
  /\ \/ /\ Gets(why)
        /\ exec' = "idle" /\ inbox' = <<>> /\ current' = 0 /\ said' = FALSE
        /\ events' = unread \o Cancelled(inbox)
                        \o (IF exec = "running" THEN <<Event("interrupted", 0)>> ELSE <<>>)
     \/ Gets("error") /\ events' = unread /\ UNCHANGED <<exec, inbox, current, said>>
  /\ output' = Nothing
  /\ UNCHANGED <<summarized, input>>

(* The server did not answer the submission, or did not accept it.           *)
OcSubmitFails ==
  /\ OcAtWork /\ turn = "prompt"
  /\ Gets("error")
  /\ inbox' \in {<<>>, <<requests>>}
  /\ UNCHANGED <<controls, events, exec, said, current, summarized, input, output>>

OcGivesUp(why) == OcCancel(why, events)

(* The policy, the stage timeout, an input that is not enqueued within ten   *)
(* seconds, a stream that ends, a form that asks for external input.         *)
OcStops ==
  /\ OcAtWork /\ turn = "wait" /\ UNCHANGED controls
  /\ \/ OcGivesUp("policy")
     \/ Expired /\ OcGivesUp("escalate")

OcFails ==
  /\ OcAtWork /\ turn = "wait" /\ UNCHANGED controls
  /\ OcGivesUp("error")

(* A key of the user; interrupting the turn is an error to its invocation.   *)
OcControl ==
  /\ OcAtWork /\ turn = "wait" /\ controls < MaxControls
  /\ controls' = controls + 1
  /\ \E why \in Control \cup {"pause", "escalate", "error"} : OcGivesUp(why)
-----------------------------------------------------------------------------
(* wait_for_turn: an event.  Those before the input was enqueued belong to   *)
(* others, and until it is delivered only the end of the execution counts.   *)
(* An input without a name is the first that is enqueued.                     *)
Awaited(e) == IF input = 0 /\ e.kind = "enqueued" THEN e.id ELSE input

Enqueued(e) == enqueued \/ (e.kind \in {"enqueued", "delivered"} /\ e.id = Awaited(e))
                        \/ (Compaction /\ e.kind = "started" /\ e.id = input)
Delivered(e) == delivered \/ (e.kind = "delivered" /\ e.id = input)
                          \/ (Compaction /\ e.kind = "started" /\ e.id = input)
(* Mutant: the events of an earlier execution count.                         *)
CountsAny(e) == TRUE

Counts(e) == Enqueued(e) /\ (Delivered(e) \/ e.kind \in {"failed", "interrupted"})

Heard(e) ==
  CASE e.kind = "text" /\ e.what \in {"complete", "incomplete"} ->
         [output EXCEPT !.signal = e.what, !.of = e.id]
    [] e.kind = "text" /\ e.what = "limit" -> [output EXCEPT !.limit = TRUE]
    [] e.kind \in {"step_failed", "failed"} -> [output EXCEPT !.fault = e.what]
    [] OTHER -> output

Settles(e) ==
  \/ e.kind = "failed"
  \/ e.kind = "succeeded" /\ Delivered(e) /\ (Compaction => compacted)

(* What the output of a settled turn means.                                  *)
Meaning(o) ==
  IF o.limit /\ ~Compaction THEN "limit"
  ELSE IF o.fault # "none" THEN o.fault
  ELSE IF Compaction THEN "complete" ELSE o.signal

OcIgnore(e) ==
  /\ ~Counts(e) /\ ~(e.kind = "cancelled" /\ e.id = input)
  /\ input' = Awaited(e) /\ enqueued' = Enqueued(e) /\ events' = Tail(events)
  /\ UNCHANGED <<invocation, turn, delivered, compacted, output, ocServer>>

OcHear(e) ==
  /\ Counts(e) /\ ~Settles(e) /\ e.kind \notin {"interrupted", "cancelled"}
  /\ input' = Awaited(e)
  /\ enqueued' = TRUE /\ delivered' = Delivered(e) /\ output' = Heard(e)
  /\ compacted' = (compacted \/ (Compaction /\ e.kind = "ended"))
  /\ events' = Tail(events)
  /\ UNCHANGED <<invocation, turn, ocServer>>

OcSettle(e) ==
  /\ Counts(e) /\ Settles(e) /\ UNCHANGED controls
  /\ LET result == Meaning(Heard(e))
     IN IF result \in {"complete", "incomplete", "limit"}
        THEN /\ Gets(result) /\ output' = Heard(e) /\ events' = Tail(events)
             /\ UNCHANGED <<input, ocServer>>
        ELSE OcCancel(result, Tail(events))

OcInterrupted(e) ==
  /\ (Counts(e) /\ e.kind = "interrupted") \/ (e.kind = "cancelled" /\ e.id = input)
  /\ OcCancel("error", Tail(events)) /\ UNCHANGED controls

OcRead ==
  /\ OcAtWork /\ turn = "wait" /\ events # <<>>
  /\ LET e == Head(events)
     IN OcIgnore(e) \/ OcHear(e) \/ OcSettle(e) \/ OcInterrupted(e)
-----------------------------------------------------------------------------
(* The session of the server                                                *)
Asked(id) == IF Compaction /\ id = requests THEN "started" ELSE "delivered"

ServerDelivers ==
  /\ inbox # <<>>
  /\ exec' = "running" /\ current' = Head(inbox) /\ inbox' = Tail(inbox) /\ said' = FALSE
  /\ events' = Append(events, Event(Asked(Head(inbox)), Head(inbox)))
  /\ UNCHANGED <<invocation, ocRunner, summarized>>

ServerAnswers ==
  /\ exec = "running" /\ ~said
  /\ said' = TRUE
  /\ IF Compaction /\ current = requests
     THEN events' = Append(events, Event("ended", current)) /\ summarized' = current
     ELSE /\ \E what \in Answers : events' = Append(events, Said(current, what))
          /\ UNCHANGED summarized
  /\ UNCHANGED <<invocation, ocRunner, exec, inbox, current>>

ServerEnds ==
  /\ exec = "running" /\ exec' = "idle" /\ current' = 0 /\ said' = FALSE
  /\ \/ said /\ inbox = <<>> /\ events' = Append(events, Event("succeeded", 0))
     \/ \E what \in Faults : events' = Append(events, Failing("failed", what))
     \/ /\ inbox = <<>>
        /\ events' = events \o <<Failing("step_failed", "transient"), Event("succeeded", 0)>>
  /\ UNCHANGED <<invocation, ocRunner, inbox, summarized>>

OpenCodeServer == ServerDelivers \/ ServerAnswers \/ ServerEnds
OpenCodeRunner == OcPrepare \/ OcSubmit \/ OcSubmitFails \/ OcStops \/ OcFails \/ OcControl \/ OcRead
-----------------------------------------------------------------------------
(* The answer the loop gets is to the input it submitted last, and what it   *)
(* takes for a compaction is the one it asked for (opencode.rs:632-642:       *)
(* "Old executions and child sessions cannot complete this input").          *)
AnswerOfInput ==
  backend = "opencode" =>
    /\ (step = "attempt" /\ attempt \in {"complete", "incomplete"} => output.of = requests)
    /\ (step = "compacting" /\ attempt = "complete" => summarized = requests)

(* Whenever the loop may go on, and whenever the caller gets anything but an *)
(* error, the session works on no input of this invocation: nothing is       *)
(* retried or escalated beside a turn that may still edit the repository.    *)
SessionRests ==
  backend = "opencode" /\ outcome # "error"
    /\ (step \in {"dispatch", "compact", "backoff", "resume"} \/ step = "ended")
    => exec = "idle" /\ inbox = <<>>
=============================================================================
