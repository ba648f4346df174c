--------------------------- MODULE BackendsProofs ---------------------------
(***************************************************************************)
(* An invocation on OpenCode or Codex, for any limits, number of requests, *)
(* of live controls and of unread events.                                  *)
(*                                                                         *)
(* OpenCode: the session works on nothing whenever the loop may go on, and *)
(* every answer is to the input submitted last (OpenCodeInv).  Events are  *)
(* read in their order, and those behind the first that names the input    *)
(* are of its execution (Ours).                                            *)
(*                                                                         *)
(* Codex: the loop goes on only once the turn is over, and every answer is *)
(* of the turn started last (CodexInv).  Nothing a turn does is told after  *)
(* what ends it, so that no answer of an earlier turn is left for the next *)
(* to find, named or not, and no "compacted" of one for a compaction.      *)
(*                                                                         *)
(* The loop knows every result it is given, since a turn only settles to a *)
(* fault that was told, and the server of another backend stays at rest     *)
(* (TypesInv).  And the three modules of MCCampaign keep their types side   *)
(* by side.                                                                *)
(***************************************************************************)
EXTENDS MCCampaign, CampaignProofs

Deciding == {"dispatch", "compact", "backoff", "resume"}
Asking == {"attempt", "compacting"}

InvocationInv ==
  /\ requests \in Nat /\ step \in Deciding \cup Asking \cup {"ended"}
  /\ step \in Deciding \cup Asking => outcome = "none"
  /\ step \in Asking => requests > 0
  /\ queued \in Seq(Control)

(* The prompt of the stage is that of the first request.                    *)
FirstPrompt ==
  prompt = "stage" =>
    /\ step \notin {"compact", "compacting", "resume"}
    /\ step = "dispatch" => requests = 0
    /\ step = "attempt" => requests = 1

(* An attempt or a compaction that has no result yet.                       *)
Awaiting == step \in Asking /\ attempt = "running"
-----------------------------------------------------------------------------
Idle == exec = "idle" /\ inbox = <<>>

(* Nobody but the runner of this invocation submits inputs, one at a time.   *)
OneInput ==
  \/ inbox = <<requests>> /\ exec = "idle"
  \/ inbox = <<>> /\ exec = "running" /\ current = requests
  \/ Idle

(* The event comes after one that names the input.                          *)
Ours(i) == enqueued \/ \E k \in 1..(i - 1) : events[k].id = requests

EventsOfInput ==
  \A i \in 1..Len(events) : Ours(i) =>
    /\ events[i].kind \in {"succeeded", "failed"} => Idle
    /\ events[i].kind = "text" => events[i].id = requests
    /\ events[i].kind = "ended" => summarized = requests

OutputOfInput ==
  /\ output.signal # "missing" => output.of = requests
  /\ compacted => summarized = requests

(* The input is known, or is the first, which the server has yet to name.    *)
Named ==
  \/ input = requests
  \/ input = 0 /\ requests = 1 /\ ~enqueued

TurnWaits == Named /\ OneInput /\ EventsOfInput /\ OutputOfInput

EventsUpTo(n) == \A i \in 1..Len(events) : events[i].id <= n

Told(e) ==
  /\ e.kind \in {"step_failed", "failed"} => e.what \in Faults
  /\ e.kind \in {"enqueued", "delivered", "started"} => e.id > 0

EventsTold == \A i \in 1..Len(events) : Told(events[i])

ServerSound ==
  /\ TypeOfOpenCode /\ EventsTold /\ EventsUpTo(requests)
  /\ (\A i \in 1..Len(inbox) : 0 < inbox[i] /\ inbox[i] <= requests)
  /\ current <= requests

OpenCodeInv ==
  /\ ServerSound
  /\ ~Awaiting => turn = "none"
  /\ step \in Deciding \/ (step = "ended" /\ outcome # "error") => Idle
  /\ step \in Asking /\ attempt \notin {"running", "error"} => Idle
  /\ Awaiting /\ turn # "wait" => Idle /\ EventsUpTo(requests - 1)
  /\ Awaiting /\ turn = "wait" => TurnWaits
  /\ step = "attempt" /\ attempt \in {"complete", "incomplete"} => output.of = requests
  /\ step = "compacting" /\ attempt = "complete" => summarized = requests
-----------------------------------------------------------------------------
NoticesUpTo(n) ==
  (\A i \in 1..Len(notices) : notices[i].id <= n) /\ (\A o \in owed : o.id <= n)

(* What only a turn at work, or a compaction, is the cause of.               *)
OfWork == {"answer", "compacted"}

(* Nothing of the kind waits to be read.                                     *)
WorkRead == \A i \in 1..Len(notices) : notices[i].kind \notin OfWork

(* What ends the turn that the runner waits for.                            *)
Final(i) == notices[i].kind \in {"error", "completed"} /\ notices[i].id = turnId

(* The answers that wait are of this turn, and come before what ends it.      *)
TurnReads ==
  /\ turnId = requests /\ working \in {0, requests}
  /\ response.signal \in {"complete", "incomplete"} => response.of = requests
  /\ \A i \in 1..Len(notices) : notices[i].kind = "answer" => notices[i].id = requests
  /\ \A o \in owed : o.id = requests => working = 0
  /\ \A i \in 1..Len(notices) : Final(i) =>
       working = 0 /\ \A j \in (i + 1)..Len(notices) : notices[j].kind \notin OfWork

(* The thread was reported compacted at most once, if it was compacted.      *)
OneCompaction ==
  \A i \in 1..Len(notices) :
    /\ notices[i].kind # "answer"
    /\ notices[i].kind = "compacted" =>
         condensed = requests /\ \A j \in (i + 1)..Len(notices) : notices[j].kind # "compacted"

NoticesTold ==
  \A i \in 1..Len(notices) :
    /\ notices[i].kind = "answer" => notices[i].what \in CxAnswers
    /\ notices[i].kind = "error" => notices[i].what \in CxFaults
    /\ notices[i].kind = "completed" => notices[i].what \in {"none", "interrupted"} \cup CxFaults

AppServerSound ==
  /\ TypeOfCodex /\ NoticesTold
  /\ \A o \in owed : o.kind = "completed" /\ o.what \in CxFaults
  /\ working <= requests /\ condensed <= requests
  /\ NoticesUpTo(requests)

(* The results upon which the loop goes on.                                 *)
Continuing == {"complete"} \cup Retried \cup Control

CodexInv ==
  /\ AppServerSound
  /\ ~Awaiting => asking = "none"
  /\ step \in Deciding => working = 0 /\ WorkRead
  /\ step = "attempt" /\ attempt \in Continuing => working = 0 /\ WorkRead
  /\ step = "attempt" /\ attempt \in {"complete", "incomplete"} =>
       response.of = requests /\ turnId = requests
  /\ step = "attempt" /\ Awaiting /\ asking = "none" =>
       working = 0 /\ WorkRead /\ NoticesUpTo(requests - 1)
  /\ step = "attempt" /\ Awaiting /\ asking = "read" => TurnReads
  /\ step = "compacting" => working = 0
  /\ step = "compacting" /\ Awaiting => OneCompaction
  /\ step = "compacting" /\ attempt = "complete" => condensed = requests /\ WorkRead

BackendsInv ==
  /\ InvocationInv /\ FirstPrompt
  /\ backend = "opencode" => OpenCodeInv
  /\ backend = "codex" => CodexInv
-----------------------------------------------------------------------------
(* The loop                                                                 *)

Posts ==
  /\ step \in {"dispatch", "compact"}
  /\ step' = IF step = "dispatch" THEN "attempt" ELSE "compacting"
  /\ attempt' = "running" /\ requests' = requests + 1 /\ outcome' = outcome

GoesOn ==
  /\ step' \in Deciding /\ UNCHANGED <<attempt, requests, outcome>>
  /\ \/ step \in Deciding
     \/ step = "attempt" /\ attempt \in Retried \cup Control
     \/ step = "compacting" /\ (attempt = "complete" \/ (backend = "claude" /\ attempt # "running"))

Ends ==
  /\ step' = "ended" /\ UNCHANGED <<attempt, requests>>
  /\ \/ step \in Deciding
     \/ step \in Asking /\ attempt # "running" /\ (attempt = "error" => outcome' = "error")

Rests == UNCHANGED <<step, attempt, requests, outcome>>

LoopEffect == backend' = backend /\ (Posts \/ GoesOn \/ Ends \/ Rests)

(* What the loop makes of a result (the actions of Invocation), as far as   *)
(* the servers are concerned.                                               *)
LEMMA LoopEffects ==
  ASSUME InvocationInv, Loop \/ BackoffControl \/ Tick
  PROVE  LoopEffect
<1> USE DEF configuration, LoopEffect, Deciding, Asking
<1>1. CASE Dispatch
  BY <1>1 DEF Dispatch, End, Posts, Ends
<1>2. CASE ReviewOnce
  <2>1. attempt \in Stops => outcome' = attempt
    BY <1>2 DEF ReviewOnce, End
  <2> QED
    BY <1>2, <2>1 DEF ReviewOnce, End, Ends, Stops
<1>3. CASE Returned
  BY <1>3 DEF Returned, End, Ends, Stops
<1>4. CASE ContinueIncomplete
  BY <1>4 DEF ContinueIncomplete, Finished, Again, End, GoesOn, Ends, Retried
<1>5. CASE ContinueMissing
  BY <1>5 DEF ContinueMissing, Finished, End, GoesOn, Ends, Retried
<1>6. CASE ContinueLimit
  BY <1>6 DEF ContinueLimit, Finished, End, GoesOn, Ends, Retried
<1>7. CASE ContinueUserTurn
  BY <1>7 DEF ContinueUserTurn, Finished, Again, End, GoesOn, Ends, Retried
<1>8. CASE SleepAndRetry
  BY <1>8 DEF SleepAndRetry, Finished, Again, End, GoesOn, Ends, Retried
<1>9. CASE StartBackoff
  BY <1>9 DEF StartBackoff, Finished, End, GoesOn, Ends, Retried
<1>10. CASE Backoff
  BY <1>10 DEF Backoff, End, GoesOn, Ends
<1>11. CASE ApplyQueued
  <2>1. queued = <<>> \/ Head(queued) \in {"compact", "context", "inject"}
    BY DEF InvocationInv, Control
  <2>2. step = "resume" /\ UNCHANGED <<backend, attempt, requests>>
    BY <1>11 DEF ApplyQueued
  <2>3. \/ step' \in {"dispatch", "compact"} /\ outcome' = outcome
        \/ step' = step /\ outcome' = outcome
        \/ step' = "ended"
    BY <1>11, <2>1 DEF ApplyQueued, End
  <2> QED
    BY <2>2, <2>3 DEF GoesOn, Ends
<1>12. CASE ControlTaken
  BY <1>12 DEF ControlTaken, End, GoesOn, Ends, Control
<1>13. CASE StartCompaction
  BY <1>13 DEF StartCompaction, End, Posts, Ends
<1>14. CASE Compacted
  BY <1>14 DEF Compacted, End, GoesOn, Ends, Stops
<1>15. CASE BackoffControl
  BY <1>15 DEF BackoffControl, End, GoesOn, Ends
<1>16. CASE Tick
  BY <1>16 DEF Tick, loop, Rests
<1> QED
  BY <1>1, <1>2, <1>3, <1>4, <1>5, <1>6, <1>7, <1>8, <1>9, <1>10, <1>11, <1>12, <1>13, <1>14, <1>15,
     <1>16 DEF Loop

(* The prompt of the stage is sent once: whatever comes after the first       *)
(* request has a reason of its own (Again, Backoff, ControlTaken).           *)
LEMMA FirstPromptKept ==
  ASSUME InvocationInv, FirstPrompt, Loop \/ BackoffControl \/ Tick
  PROVE  FirstPrompt'
<1> USE DEF FirstPrompt, End, Again
<1>1. CASE Dispatch
  BY <1>1 DEF Dispatch
<1>2. CASE ReviewOnce \/ Returned
  BY <1>2 DEF ReviewOnce, Returned
<1>3. CASE ContinueIncomplete \/ ContinueMissing \/ ContinueLimit \/ ContinueUserTurn
  BY <1>3 DEF ContinueIncomplete, ContinueMissing, ContinueLimit, ContinueUserTurn
<1>4. CASE SleepAndRetry \/ StartBackoff \/ Backoff \/ BackoffControl
  BY <1>4 DEF SleepAndRetry, StartBackoff, Backoff, BackoffControl
<1>5. CASE ApplyQueued
  BY <1>5 DEF ApplyQueued
<1>6. CASE ControlTaken
  BY <1>6 DEF ControlTaken, Control
<1>7. CASE StartCompaction \/ Compacted
  BY <1>7 DEF StartCompaction, Compacted
<1>8. CASE Tick
  BY <1>8 DEF Tick, loop
<1> QED
  BY <1>1, <1>2, <1>3, <1>4, <1>5, <1>6, <1>7, <1>8 DEF Loop

(* Controls wait in a queue (Backoff, ApplyQueued).                         *)
LEMMA QueueKept ==
  ASSUME InvocationInv, Loop \/ BackoffControl \/ Tick
  PROVE  queued' \in Seq(Control)
<1>1. queued \in Seq(Control)
  BY DEF InvocationInv
<1>2. CASE ApplyQueued
  <2>1. CASE queued = <<>>
    BY <1>1, <1>2, <2>1 DEF ApplyQueued
  <2>2. CASE queued # <<>>
    <3>1. queued' = Tail(queued)
      BY <1>2, <2>2 DEF ApplyQueued
    <3> QED
      BY <1>1, <2>2, <3>1
  <2> QED
    BY <2>1, <2>2
<1>3. CASE BackoffControl
  BY <1>1, <1>3 DEF BackoffControl
<1>4. CASE (Loop /\ ~ApplyQueued) \/ Tick
  BY <1>1, <1>4 DEF Loop, Dispatch, ReviewOnce, Returned, ContinueIncomplete, ContinueMissing,
     ContinueLimit, ContinueUserTurn, SleepAndRetry, StartBackoff, Backoff, ControlTaken,
     StartCompaction, Compacted, Tick, user
<1> QED
  BY <1>2, <1>3, <1>4 DEF Loop

LEMMA InvocationKept ==
  ASSUME InvocationInv, LoopEffect, queued' \in Seq(Control)
  PROVE  InvocationInv'
<1> USE DEF InvocationInv, LoopEffect, Deciding, Asking
<1>1. CASE Posts
  BY <1>1 DEF Posts
<1>2. CASE GoesOn
  BY <1>2 DEF GoesOn
<1>3. CASE Ends
  BY <1>3 DEF Ends
<1>4. CASE Rests
  BY <1>4 DEF Rests
<1> QED
  BY <1>1, <1>2, <1>3, <1>4
-----------------------------------------------------------------------------
(* OpenCode: the loop and the steps of the runner                           *)

OpenCodeEvent ==
  [kind : {"enqueued", "delivered", "cancelled", "started", "ended", "text",
           "step_failed", "failed", "interrupted", "succeeded"},
   id : Nat, what : {"none"} \cup Answers \cup Faults]

(* Deciding two attempts nothing changes for the session (Loop).             *)
LEMMA LoopKeepsOpenCode ==
  ASSUME InvocationInv, OpenCodeInv, backend = "opencode", LoopEffect, UNCHANGED openCode
  PROVE  OpenCodeInv'
<1> USE DEF Deciding, Asking
<1>1. /\ UNCHANGED <<turn, input, enqueued, delivered, compacted, output>>
      /\ UNCHANGED <<exec, inbox, current, said, summarized, events>>
  BY DEF openCode, ocRunner, ocServer
<1>2. Idle' = Idle /\ requests \in Nat
  BY <1>1 DEF Idle, InvocationInv
<1>3. ServerSound /\ TypeOfOpenCode
  BY DEF OpenCodeInv, ServerSound
<1>4. events \in Seq(OpenCodeEvent) /\ inbox \in Seq(Nat) /\ current \in Nat
  BY <1>3 DEF TypeOfOpenCode, OpenCodeEvent
<1>5. TypeOfOpenCode' /\ EventsTold'
  BY <1>1, <1>3 DEF TypeOfOpenCode, ServerSound, EventsTold
<1>6. CASE Posts
  <2>1. requests' = requests + 1 /\ attempt' = "running" /\ step' \in Asking /\ ~Awaiting
        /\ step \in Deciding
    BY <1>6 DEF Posts, Awaiting
  <2>2. turn' # "wait" /\ Idle
    BY <1>1, <2>1 DEF OpenCodeInv
  <2>3. EventsUpTo(requests)' /\ EventsUpTo(requests - 1)'
    <3>1. \A i \in 1..Len(events) : events[i].id <= requests /\ events[i].id \in Nat
      <4>1. \A i \in 1..Len(events) : events[i] \in OpenCodeEvent
        BY <1>4
      <4>2. \A e \in OpenCodeEvent : e.id \in Nat
        BY DEF OpenCodeEvent
      <4> QED
        BY <1>3, <4>1, <4>2 DEF ServerSound, EventsUpTo
    <3> QED
      BY <1>1, <1>2, <2>1, <3>1 DEF EventsUpTo
  <2>4. (\A i \in 1..Len(inbox) : 0 < inbox[i] /\ inbox[i] <= requests)'
        /\ (current <= requests)'
    BY <1>1, <1>2, <1>3, <1>4, <2>1 DEF ServerSound
  <2>5. ServerSound'
    BY <1>5, <2>3, <2>4 DEF ServerSound
  <2> QED
    BY <1>2, <2>1, <2>2, <2>3, <2>5 DEF OpenCodeInv, Awaiting
<1>7. ASSUME GoesOn \/ Ends
      PROVE  OpenCodeInv'
  <2>1. /\ requests' = requests /\ attempt' = attempt /\ step' \in Deciding \cup {"ended"}
        /\ turn = "none"
    BY <1>7 DEF GoesOn, Ends, OpenCodeInv, Awaiting, Retried, Control
  <2>2. ServerSound'
    BY <1>1, <1>3, <1>5, <2>1 DEF ServerSound, EventsUpTo
  <2>3. step' \in Deciding \/ (step' = "ended" /\ outcome' # "error") => Idle
    BY <1>7 DEF GoesOn, Ends, OpenCodeInv, Retried, Control
  <2> QED
    BY <1>1, <1>2, <2>1, <2>2, <2>3 DEF OpenCodeInv, Awaiting
<1>8. CASE Rests
  BY <1>1, <1>8 DEF Rests, OpenCodeInv, ServerSound, TypeOfOpenCode, EventsTold, EventsUpTo,
     Awaiting, Idle, TurnWaits, Named, OneInput, EventsOfInput, OutputOfInput, Ours, Compaction
<1> QED
  BY <1>6, <1>7, <1>8 DEF LoopEffect

(* A result leaves the session at rest, or is an error (Gets).              *)
LEMMA ResultKeeps ==
  ASSUME InvocationInv, OpenCodeInv, OcAtWork, NEW result, Gets(result), ServerSound',
         result # "running", result # "error" => Idle',
         step = "attempt" /\ result \in {"complete", "incomplete"} => output'.of = requests,
         step = "compacting" /\ result = "complete" => summarized' = requests
  PROVE  OpenCodeInv'
<1>1. /\ step' = step /\ step \in Asking /\ attempt' = result /\ requests' = requests
      /\ turn' = "none"
  BY DEF OcAtWork, Gets, Asking
<1> QED
  BY <1>1 DEF OpenCodeInv, Awaiting, Deciding, Asking

(* What the runner has yet to read is as sound as it was (Tail, SubSeq).    *)
LEMMA UnreadSound ==
  ASSUME OpenCodeInv, NEW unread \in Seq(OpenCodeEvent),
         \A i \in 1..Len(unread) : \E j \in 1..Len(events) : unread[i] = events[j]
  PROVE  /\ \A i \in 1..Len(unread) : unread[i].id <= requests
         /\ \A i \in 1..Len(unread) : Told(unread[i])
  BY DEF OpenCodeInv, ServerSound, EventsUpTo, EventsTold

(* cancel_failed_turn: only an error leaves the session at work.            *)
LEMMA CancelKeeps ==
  ASSUME InvocationInv, OpenCodeInv, OcAtWork, NEW why, NEW unread \in Seq(OpenCodeEvent),
         \A i \in 1..Len(unread) : \E j \in 1..Len(events) : unread[i] = events[j],
         why \notin {"running", "complete", "incomplete"},
         OcCancel(why, unread)
  PROVE  OpenCodeInv'
<1>1. requests \in Nat /\ ServerSound /\ TypeOfOpenCode
  BY DEF InvocationInv, OpenCodeInv, ServerSound
<1>2. /\ output' = Nothing /\ UNCHANGED <<summarized, input>>
      /\ Nothing \in [signal : {"missing", "complete", "incomplete"}, limit : BOOLEAN,
                       fault : {"none"} \cup Faults, of : Nat]
  BY DEF OcCancel, Nothing
<1>3. CASE /\ Gets(why)
           /\ exec' = "idle" /\ inbox' = <<>> /\ current' = 0 /\ said' = FALSE
           /\ events' = unread \o Cancelled(inbox)
                         \o (IF exec = "running" THEN <<Event("interrupted", 0)>> ELSE <<>>)
  <2> DEFINE dropped == Cancelled(inbox)
             stopped == IF exec = "running" THEN <<Event("interrupted", 0)>> ELSE <<>>
  <2>1. /\ dropped \in Seq(OpenCodeEvent) /\ Len(dropped) = Len(inbox)
        /\ \A i \in 1..Len(dropped) : dropped[i].id <= requests /\ Told(dropped[i])
    <3>1. inbox \in Seq(Nat) /\ \A i \in 1..Len(inbox) : inbox[i] \in Nat /\ inbox[i] <= requests
      BY <1>1 DEF TypeOfOpenCode, ServerSound
    <3>2. \A i \in 1..Len(inbox) : Event("cancelled", inbox[i]) \in OpenCodeEvent
      BY <3>1 DEF Event, OpenCodeEvent
    <3>3. dropped = [i \in 1..Len(inbox) |-> Event("cancelled", inbox[i])] /\ Len(inbox) \in Nat
      BY <3>1 DEF Cancelled
    <3>4. dropped \in Seq(OpenCodeEvent) /\ Len(dropped) = Len(inbox)
      BY <3>2, <3>3
    <3> QED
      BY <3>1, <3>3, <3>4 DEF Event, Told
  <2>2. /\ stopped \in Seq(OpenCodeEvent)
        /\ \A i \in 1..Len(stopped) : stopped[i].id <= requests /\ Told(stopped[i])
    <3>1. Event("interrupted", 0) \in OpenCodeEvent
      BY DEF Event, OpenCodeEvent
    <3> QED
      BY <1>1, <3>1 DEF Event, Told
  <2> HIDE DEF dropped, stopped
  <2>3. events' = (unread \o dropped) \o stopped
    BY <1>3 DEF dropped, stopped
  <2>4. /\ unread \o dropped \in Seq(OpenCodeEvent)
        /\ Len(unread \o dropped) = Len(unread) + Len(dropped)
        /\ \A i \in 1..Len(unread \o dropped) : (unread \o dropped)[i] =
             IF i <= Len(unread) THEN unread[i] ELSE dropped[i - Len(unread)]
    <3>1. unread \in Seq(OpenCodeEvent) /\ dropped \in Seq(OpenCodeEvent)
      BY <2>1
    <3>2. /\ unread \o dropped \in Seq(OpenCodeEvent)
          /\ Len(unread \o dropped) = Len(unread) + Len(dropped)
          /\ \A i \in 1..Len(unread) + Len(dropped) : (unread \o dropped)[i] =
               IF i <= Len(unread) THEN unread[i] ELSE dropped[i - Len(unread)]
      BY ONLY <3>1, ConcatProperties
    <3> QED
      BY <3>2
  <2>5. /\ events' \in Seq(OpenCodeEvent)
        /\ Len(events') = Len(unread) + Len(dropped) + Len(stopped)
        /\ \A i \in 1..Len(events') : events'[i] =
             IF i <= Len(unread) THEN unread[i]
             ELSE IF i <= Len(unread) + Len(dropped) THEN dropped[i - Len(unread)]
             ELSE stopped[i - (Len(unread) + Len(dropped))]
    <3>1. /\ Len(events') = Len(unread \o dropped) + Len(stopped)
          /\ events' \in Seq(OpenCodeEvent)
          /\ \A i \in 1..Len(events') : events'[i] =
               IF i <= Len(unread \o dropped) THEN (unread \o dropped)[i]
               ELSE stopped[i - Len(unread \o dropped)]
      BY <2>2, <2>3, <2>4, ConcatProperties
    <3>2. Len(unread) \in Nat /\ Len(dropped) \in Nat /\ Len(stopped) \in Nat
      BY <2>1, <2>2
    <3> QED
      BY <2>4, <3>1, <3>2
  <2>6. ASSUME NEW i \in 1..Len(events')
        PROVE  \/ \E j \in 1..Len(unread) : events'[i] = unread[j]
               \/ \E j \in 1..Len(dropped) : events'[i] = dropped[j]
               \/ \E j \in 1..Len(stopped) : events'[i] = stopped[j]
    <3>1. Len(unread) \in Nat /\ Len(dropped) \in Nat /\ Len(stopped) \in Nat
      BY <2>1, <2>2
    <3>2. CASE i <= Len(unread)
      <4>1. i \in 1..Len(unread) /\ events'[i] = unread[i]
        BY <2>5, <2>6, <3>1, <3>2
      <4> QED
        BY <4>1
    <3>3. CASE i > Len(unread) /\ i <= Len(unread) + Len(dropped)
      <4>1. i - Len(unread) \in 1..Len(dropped)
        BY <3>1, <3>3
      <4> QED
        BY <2>5, <3>1, <3>3, <4>1
    <3>4. CASE i > Len(unread) + Len(dropped)
      <4>1. i - (Len(unread) + Len(dropped)) \in 1..Len(stopped)
        BY <2>5, <3>1, <3>4
      <4> QED
        BY <2>5, <3>1, <3>4, <4>1
    <3> QED
      BY <3>1, <3>2, <3>3, <3>4
  <2>7. \A i \in 1..Len(events') :
          events'[i].id <= requests /\ Told(events'[i])
    BY <2>1, <2>2, <2>6, UnreadSound
  <2>8. ServerSound'
    <3>1. TypeOfOpenCode'
      <4>1. events' \in Seq(OpenCodeEvent) /\ inbox' \in Seq(Nat) /\ current' \in Nat
        BY <1>3, <2>5
      <4>2. input' \in Nat /\ summarized' \in Nat
        BY <1>1, <1>2 DEF TypeOfOpenCode
      <4> QED
        BY <1>2, <1>3, <4>1, <4>2 DEF TypeOfOpenCode, Gets, OpenCodeEvent
    <3>2. requests' = requests
      BY <1>3 DEF Gets
    <3> QED
      BY <1>1, <1>3, <2>7, <3>1, <3>2 DEF ServerSound, EventsTold, EventsUpTo
  <2>9. Idle'
    BY <1>3 DEF Idle
  <2> QED
    BY <1>3, <2>8, <2>9, ResultKeeps
<1>4. CASE Gets("error") /\ events' = unread /\ UNCHANGED <<exec, inbox, current, said>>
  <2>1. ServerSound'
    <3>1. TypeOfOpenCode'
      BY <1>1, <1>2, <1>4 DEF TypeOfOpenCode, Gets, OpenCodeEvent
    <3>2. requests' = requests
      BY <1>4 DEF Gets
    <3> QED
      BY <1>1, <1>4, <3>1, <3>2, UnreadSound DEF ServerSound, EventsTold, EventsUpTo
  <2> QED
    BY <1>4, <2>1, ResultKeeps
<1> QED
  BY <1>3, <1>4 DEF OcCancel

(* The first of a queue of events, and the rest.                            *)
LEMMA FirstAndRest ==
  ASSUME NEW S, NEW queue \in Seq(S), queue # <<>>
  PROVE  /\ Head(queue) = queue[1] /\ Head(queue) \in S /\ 1 \in 1..Len(queue)
         /\ Tail(queue) \in Seq(S) /\ Len(Tail(queue)) = Len(queue) - 1
         /\ \A i \in 1..Len(Tail(queue)) :
              Tail(queue)[i] = queue[i + 1] /\ i + 1 \in 1..Len(queue)
<1>1. Len(queue) \in Nat /\ Len(queue) # 0
  BY EmptySeq
<1>2. Head(queue) = queue[1] /\ Head(queue) \in S /\ 1 \in 1..Len(queue)
  BY <1>1
<1>3. Tail(queue) \in Seq(S) /\ Len(Tail(queue)) = Len(queue) - 1
  BY <1>1
<1>4. \A i \in 1..Len(Tail(queue)) : Tail(queue)[i] = queue[i + 1] /\ i + 1 \in 1..Len(queue)
  BY <1>1, <1>3
<1> QED
  BY <1>2, <1>3, <1>4

(* prepare_session, subscribe: what is left over is dropped, or some of it.  *)
LEMMA PrepareKeeps ==
  ASSUME InvocationInv, OpenCodeInv, OcPrepare
  PROVE  OpenCodeInv'
<1> USE DEF Deciding, Asking
<1>1. /\ UNCHANGED <<input, output, exec, inbox, current, said, summarized>>
      /\ OcAtWork /\ turn = "none"
  BY DEF OcPrepare, ocServer
<1>2. Idle' = Idle /\ requests \in Nat /\ Awaiting
  BY <1>1 DEF Idle, InvocationInv, OcAtWork, Awaiting
<1>3. ServerSound /\ TypeOfOpenCode /\ Idle /\ EventsUpTo(requests - 1)
  BY <1>1, <1>2 DEF OpenCodeInv, ServerSound
<1>4. events \in Seq(OpenCodeEvent)
  BY <1>3 DEF TypeOfOpenCode, OpenCodeEvent
<1>5. CASE Gets("error") /\ UNCHANGED <<events, controls>>
  <2>1. TypeOfOpenCode'
    BY <1>1, <1>3, <1>5 DEF TypeOfOpenCode, Gets
  <2>2. ServerSound'
    BY <1>1, <1>3, <1>5, <2>1 DEF ServerSound, EventsTold, EventsUpTo, Gets
  <2> QED
    BY <1>1, <1>5, <2>2, ResultKeeps
<1>6. CASE /\ turn' = "prompt"
           /\ \E n \in 0..Len(events) : events' = SubSeq(events, n + 1, Len(events))
           /\ UNCHANGED <<invocation, enqueued, delivered, compacted>>
  <2>1. PICK n \in 0..Len(events) : events' = SubSeq(events, n + 1, Len(events))
    BY <1>6
  <2>2. /\ events' \in Seq(OpenCodeEvent)
        /\ \A i \in 1..Len(events') : events'[i] = events[n + i] /\ n + i \in 1..Len(events)
    <3>1. Len(events) \in Nat /\ n \in Nat /\ n <= Len(events)
      BY <1>4
    <3>2. /\ events' \in Seq(OpenCodeEvent)
          /\ Len(events') = IF n + 1 <= Len(events) THEN Len(events) - (n + 1) + 1 ELSE 0
          /\ \A i \in 1..(Len(events) - (n + 1) + 1) : events'[i] = events[n + 1 + i - 1]
      BY <1>4, <2>1, <3>1, SubSeqProperties
    <3> QED
      BY <3>1, <3>2
  <2>3. UNCHANGED <<step, attempt, requests, outcome>>
    BY <1>6 DEF invocation, loop
  <2>4. \A i \in 1..Len(events') :
          events'[i].id <= requests /\ events'[i].id <= requests - 1 /\ Told(events'[i])
    BY <1>3, <2>2 DEF ServerSound, EventsTold, EventsUpTo
  <2>5. TypeOfOpenCode'
    BY <1>1, <1>3, <1>6, <2>2 DEF TypeOfOpenCode, OpenCodeEvent
  <2>6. ServerSound' /\ EventsUpTo(requests - 1)'
    BY <1>1, <1>3, <2>3, <2>4, <2>5 DEF ServerSound, EventsTold, EventsUpTo
  <2> QED
    BY <1>1, <1>2, <1>3, <1>6, <2>3, <2>6 DEF OpenCodeInv, Awaiting
<1> QED
  BY <1>5, <1>6 DEF OcPrepare

(* prompt, admit_compaction: the input joins a queue that is empty, and no    *)
(* event of earlier inputs names it.                                        *)
LEMMA SubmitKeeps ==
  ASSUME InvocationInv, FirstPrompt, OpenCodeInv, OcSubmit
  PROVE  OpenCodeInv'
<1> USE DEF Deciding, Asking
<1>1. /\ turn' = "wait" /\ input' \in {0, requests}
      /\ input' = 0 => (prompt = "stage" /\ ~Compaction) \/ requests = 0
      /\ enqueued' = FALSE /\ delivered' = FALSE /\ compacted' = FALSE /\ output' = Nothing
      /\ inbox' = Append(inbox, requests)
      /\ events' = Append(events, Event("enqueued", requests))
      /\ UNCHANGED <<exec, current, said, summarized, step, attempt, requests, outcome>>
      /\ turn = "prompt" /\ OcAtWork
  BY DEF OcSubmit, invocation, loop
<1>2. requests \in Nat /\ requests > 0 /\ Awaiting /\ Awaiting'
  BY <1>1 DEF InvocationInv, OcAtWork, Awaiting
<1>3. ServerSound /\ TypeOfOpenCode /\ Idle /\ EventsUpTo(requests - 1)
  BY <1>1, <1>2 DEF OpenCodeInv, ServerSound
<1>4. events \in Seq(OpenCodeEvent) /\ inbox = <<>>
  BY <1>3 DEF TypeOfOpenCode, OpenCodeEvent, Idle
<1>5. inbox' = <<requests>> /\ exec' = "idle" /\ Len(inbox') = 1 /\ inbox'[1] = requests
  BY <1>1, <1>3, <1>4 DEF Idle
<1>6. /\ Event("enqueued", requests) \in OpenCodeEvent
      /\ Event("enqueued", requests).kind = "enqueued" /\ Event("enqueued", requests).id = requests
  BY <1>2 DEF Event, OpenCodeEvent
<1>7. /\ events' \in Seq(OpenCodeEvent) /\ Len(events') = Len(events) + 1 /\ Len(events) \in Nat
      /\ \A i \in 1..Len(events) : events'[i] = events[i]
      /\ events'[Len(events) + 1] = Event("enqueued", requests)
  BY <1>1, <1>4, <1>6
<1>8. \A i \in 1..Len(events) : events[i].id <= requests /\ events[i].id # requests
  <2>1. \A i \in 1..Len(events) : events[i] \in OpenCodeEvent
    BY <1>4
  <2>2. \A e \in OpenCodeEvent : e.id \in Nat
    BY DEF OpenCodeEvent
  <2> QED
    BY <1>2, <1>3, <2>1, <2>2 DEF EventsUpTo
<1>9. TypeOfOpenCode'
  <2>1. inbox' \in Seq(Nat) /\ input' \in Nat
    BY <1>1, <1>2, <1>5
  <2>2. output' \in [signal : {"missing", "complete", "incomplete"}, limit : BOOLEAN,
                     fault : {"none"} \cup Faults, of : Nat]
    BY <1>1 DEF Nothing
  <2> QED
    BY <1>1, <1>3, <1>7, <2>1, <2>2 DEF TypeOfOpenCode, OpenCodeEvent
<1>10. ServerSound'
  <2>1. EventsUpTo(requests)'
    BY <1>1, <1>2, <1>6, <1>7, <1>8 DEF EventsUpTo
  <2>2. EventsTold'
    BY <1>2, <1>3, <1>6, <1>7 DEF ServerSound, EventsTold, Told
  <2> QED
    BY <1>1, <1>2, <1>3, <1>5, <1>9, <2>1, <2>2 DEF ServerSound
<1>11. TurnWaits'
  <2>1. \A i \in 1..Len(events') : ~Ours(i)'
    BY <1>1, <1>7, <1>8 DEF Ours
  <2>2. OneInput'
    BY <1>1, <1>5 DEF OneInput
  <2>3. OutputOfInput'
    BY <1>1 DEF OutputOfInput, Nothing
  <2>4. Named'
    BY <1>1, <1>2 DEF Named, FirstPrompt, Compaction, OcAtWork
  <2> QED
    BY <1>1, <2>1, <2>2, <2>3, <2>4 DEF TurnWaits, EventsOfInput
<1> QED
  BY <1>1, <1>2, <1>10, <1>11 DEF OpenCodeInv, Awaiting, OcAtWork

LEMMA SubmitFailsKeeps ==
  ASSUME InvocationInv, OpenCodeInv, OcSubmitFails
  PROVE  OpenCodeInv'
<1>1. /\ OcAtWork /\ Gets("error") /\ inbox' \in {<<>>, <<requests>>}
      /\ UNCHANGED <<events, exec, said, current, summarized, input, output, requests>>
  BY DEF OcSubmitFails, Gets
<1>2. requests \in Nat /\ requests > 0 /\ ServerSound /\ TypeOfOpenCode
  BY <1>1 DEF InvocationInv, OpenCodeInv, ServerSound, OcAtWork, Asking
<1>3. inbox' \in Seq(Nat) /\ \A i \in 1..Len(inbox') : 0 < inbox'[i] /\ inbox'[i] <= requests
  <2>1. CASE inbox' = <<>>
    BY <2>1
  <2>2. CASE inbox' = <<requests>>
    BY <1>2, <2>2
  <2> QED
    BY <1>1, <2>1, <2>2
<1>4. TypeOfOpenCode'
  BY <1>1, <1>2, <1>3 DEF TypeOfOpenCode, Gets
<1>5. ServerSound'
  BY <1>1, <1>2, <1>3, <1>4 DEF ServerSound, EventsTold, EventsUpTo
<1> QED
  BY <1>1, <1>5, ResultKeeps

(* Everything that ends the wait without an event.                          *)
LEMMA GivingUpKeeps ==
  ASSUME InvocationInv, OpenCodeInv, OcStops \/ OcFails \/ OcControl
  PROVE  OpenCodeInv'
<1>1. PICK why \in Stops \cup Control : OcGivesUp(why)
  BY DEF OcStops, OcFails, OcControl, Stops
<1>2. OcAtWork /\ OcCancel(why, events)
  BY <1>1 DEF OcStops, OcFails, OcControl, OcGivesUp
<1>3. events \in Seq(OpenCodeEvent)
  BY DEF OpenCodeInv, ServerSound, TypeOfOpenCode, OpenCodeEvent
<1>4. why \notin {"running", "complete", "incomplete"}
  BY DEF Stops, Control
<1>5. \A i \in 1..Len(events) : \E j \in 1..Len(events) : events[i] = events[j]
  OBVIOUS
<1> QED
  BY <1>2, <1>3, <1>4, <1>5, CancelKeeps

(* An event that is read, and what it leaves (wait_for_turn).               *)
LEMMA ReadEvent ==
  ASSUME InvocationInv, OpenCodeInv, OcAtWork, turn = "wait", events # <<>>
  PROVE  /\ Head(events) = events[1] /\ Head(events) \in OpenCodeEvent /\ 1 \in 1..Len(events)
         /\ Tail(events) \in Seq(OpenCodeEvent)
         /\ \A i \in 1..Len(Tail(events)) :
              Tail(events)[i] = events[i + 1] /\ i + 1 \in 1..Len(events)
         /\ \A i \in 1..Len(Tail(events)) : \E j \in 1..Len(events) : Tail(events)[i] = events[j]
         /\ TurnWaits /\ ServerSound /\ TypeOfOpenCode /\ requests \in Nat
         /\ Enqueued(Head(events)) =>
              (enqueued \/ events[1].id = requests) /\ Awaited(Head(events)) = requests
         /\ ~Enqueued(Head(events)) => Awaited(Head(events)) = input /\ ~enqueued
<1>1. Awaiting /\ ServerSound /\ TypeOfOpenCode /\ requests \in Nat
  BY DEF OpenCodeInv, ServerSound, InvocationInv, OcAtWork, Awaiting, Asking
<1>2. TurnWaits
  BY <1>1 DEF OpenCodeInv
<1>3. events \in Seq(OpenCodeEvent)
  BY <1>1 DEF TypeOfOpenCode, OpenCodeEvent
<1>4. /\ Head(events) = events[1] /\ Head(events) \in OpenCodeEvent /\ 1 \in 1..Len(events)
      /\ Tail(events) \in Seq(OpenCodeEvent)
      /\ \A i \in 1..Len(Tail(events)) :
           Tail(events)[i] = events[i + 1] /\ i + 1 \in 1..Len(events)
  BY <1>3, FirstAndRest
<1> DEFINE e == Head(events)
<1>5. e \in OpenCodeEvent /\ e.id \in Nat /\ e.id <= requests /\ Told(e) /\ Named
  BY <1>1, <1>2, <1>4 DEF OpenCodeEvent, ServerSound, EventsTold, EventsUpTo, TurnWaits
<1> HIDE DEF e
<1>6. /\ Enqueued(e) => (enqueued \/ e.id = requests) /\ Awaited(e) = requests
      /\ ~Enqueued(e) => Awaited(e) = input /\ ~enqueued
  BY <1>1, <1>5 DEF Enqueued, Awaited, Named, Told
<1> QED
  BY <1>1, <1>2, <1>4, <1>6 DEF e

(* The events behind one that is passed over, or heard, are of the input as *)
(* before (OcIgnore, OcHear).                                               *)
LEMMA PassingKeeps ==
  ASSUME InvocationInv, OpenCodeInv, OcAtWork, turn = "wait", events # <<>>,
         events' = Tail(events), enqueued' \in BOOLEAN,
         enqueued' => enqueued \/ events[1].id = requests, UNCHANGED <<invocation, ocServer>>
  PROVE  EventsOfInput' /\ EventsUpTo(requests)' /\ EventsTold'
<1>1. /\ events[1] = Head(events) /\ 1 \in 1..Len(events)
      /\ \A i \in 1..Len(events') : events'[i] = events[i + 1] /\ i + 1 \in 1..Len(events)
      /\ EventsOfInput /\ ServerSound /\ events' \in Seq(OpenCodeEvent)
  BY ReadEvent DEF TurnWaits
<1>2. UNCHANGED <<requests, exec, inbox, summarized>>
  BY DEF invocation, ocServer
<1>3. ASSUME NEW i \in 1..Len(events'), Ours(i)'
      PROVE  Ours(i + 1)
  <2>1. i \in Nat /\ i >= 1 /\ 1 \in 1..(i + 1 - 1)
    BY <1>1
  <2>2. CASE enqueued'
    BY <2>1, <2>2 DEF Ours
  <2>3. CASE \E k \in 1..(i - 1) : events'[k].id = requests'
    <3>1. PICK k \in 1..(i - 1) : events'[k].id = requests'
      BY <2>3
    <3>2. k \in 1..Len(events') /\ k + 1 \in 1..(i + 1 - 1)
      BY <1>1, <2>1
    <3>3. events[k + 1].id = requests
      BY <1>1, <1>2, <3>1, <3>2
    <3> QED
      BY <3>2, <3>3 DEF Ours
  <2> QED
    BY <1>3, <2>2, <2>3 DEF Ours
<1>4. EventsOfInput'
  BY <1>1, <1>2, <1>3 DEF EventsOfInput, Idle
<1>5. EventsUpTo(requests)' /\ EventsTold'
  BY <1>1, <1>2 DEF ServerSound, EventsUpTo, EventsTold
<1> QED
  BY <1>4, <1>5

LEMMA IgnoreKeeps ==
  ASSUME InvocationInv, OpenCodeInv, OcAtWork, turn = "wait", events # <<>>, OcIgnore(Head(events))
  PROVE  OpenCodeInv'
<1>1. /\ UNCHANGED <<step, attempt, requests, outcome, turn, delivered, compacted, output>>
      /\ UNCHANGED <<exec, inbox, current, said, summarized, invocation, ocServer>>
      /\ enqueued' = Enqueued(Head(events)) /\ events' = Tail(events)
      /\ input' = Awaited(Head(events))
  BY DEF OcIgnore, invocation, loop, ocServer
<1>2. /\ events' \in Seq(OpenCodeEvent) /\ TurnWaits /\ ServerSound /\ TypeOfOpenCode
      /\ requests \in Nat
      /\ enqueued' => (enqueued \/ events[1].id = requests) /\ input' = requests
      /\ ~enqueued' => input' = input /\ ~enqueued
  BY <1>1, ReadEvent
<1>3. enqueued' \in BOOLEAN
  BY <1>1, <1>2 DEF Enqueued, TypeOfOpenCode
<1>4. EventsOfInput' /\ EventsUpTo(requests)' /\ EventsTold'
  BY <1>1, <1>2, <1>3, PassingKeeps
<1>5. TypeOfOpenCode'
  BY <1>1, <1>2, <1>3 DEF TypeOfOpenCode, OpenCodeEvent
<1>6. ServerSound'
  BY <1>1, <1>2, <1>4, <1>5 DEF ServerSound
<1>7. TurnWaits'
  <2>1. Named'
    BY <1>1, <1>2 DEF TurnWaits, Named
  <2> QED
    BY <1>1, <1>2, <1>4, <2>1 DEF TurnWaits, OneInput, OutputOfInput, Idle
<1> QED
  BY <1>1, <1>6, <1>7 DEF OpenCodeInv, Awaiting, Idle, OcAtWork, Asking, Deciding

(* What the output has after an event that counts is of the input.          *)
LEMMA HeardOfInput ==
  ASSUME InvocationInv, OpenCodeInv, OcAtWork, turn = "wait", events # <<>>, Counts(Head(events))
  PROVE  /\ Heard(Head(events)) \in [signal : {"missing", "complete", "incomplete"},
                 limit : BOOLEAN, fault : {"none"} \cup Faults, of : Nat]
         /\ Heard(Head(events)).signal # "missing" => Heard(Head(events)).of = requests
         /\ Head(events).kind = "failed" => Heard(Head(events)).fault \in Faults
<1> DEFINE e == Head(events)
<1>1. /\ e = events[1] /\ e \in OpenCodeEvent /\ 1 \in 1..Len(events) /\ TurnWaits /\ ServerSound
      /\ TypeOfOpenCode
  BY ReadEvent
<1> HIDE DEF e
<1>2. output \in [signal : {"missing", "complete", "incomplete"}, limit : BOOLEAN,
                  fault : {"none"} \cup Faults, of : Nat]
  BY <1>1 DEF TypeOfOpenCode
<1>3. output.signal # "missing" => output.of = requests
  BY <1>1 DEF TurnWaits, OutputOfInput
<1>4. e.id \in Nat
  BY <1>1 DEF OpenCodeEvent
<1>5. CASE e.kind = "text" /\ e.what \in {"complete", "incomplete"}
  <2>1. Enqueued(e)
    BY DEF Counts, e
  <2>2. enqueued
    BY <1>5, <2>1 DEF Enqueued
  <2>3. e.id = requests
    BY <1>1, <1>5, <2>2 DEF TurnWaits, EventsOfInput, Ours
  <2>4. Heard(e) = [output EXCEPT !.signal = e.what, !.of = e.id]
    BY <1>5 DEF Heard
  <2> QED
    BY <1>2, <1>4, <1>5, <2>3, <2>4 DEF e
<1>6. CASE e.kind = "text" /\ e.what = "limit"
  <2>1. Heard(e) = [output EXCEPT !.limit = TRUE]
    BY <1>6 DEF Heard
  <2> QED
    BY <1>2, <1>3, <1>6, <2>1 DEF e
<1>7. CASE e.kind \in {"step_failed", "failed"}
  <2>1. e.what \in Faults
    BY <1>1, <1>7 DEF ServerSound, EventsTold, Told
  <2>2. Heard(e) = [output EXCEPT !.fault = e.what]
    BY <1>7 DEF Heard
  <2> QED
    BY <1>2, <1>3, <2>1, <2>2 DEF e
<1>8. CASE /\ ~(e.kind = "text" /\ e.what \in {"complete", "incomplete", "limit"})
           /\ e.kind \notin {"step_failed", "failed"}
  <2>1. Heard(e) = output
    BY <1>8 DEF Heard
  <2> QED
    BY <1>2, <1>3, <1>8, <2>1 DEF e
<1> QED
  BY <1>5, <1>6, <1>7, <1>8

LEMMA HearKeeps ==
  ASSUME InvocationInv, OpenCodeInv, OcAtWork, turn = "wait", events # <<>>, OcHear(Head(events))
  PROVE  OpenCodeInv'
<1> DEFINE e == Head(events)
<1>1. /\ UNCHANGED <<step, attempt, requests, outcome, turn>> /\ input' = Awaited(e)
      /\ UNCHANGED <<exec, inbox, current, said, summarized, invocation, ocServer>>
      /\ enqueued' = TRUE /\ delivered' = Delivered(e) /\ events' = Tail(events)
      /\ output' = Heard(e) /\ compacted' = (compacted \/ (Compaction /\ e.kind = "ended"))
      /\ Counts(e)
  BY DEF OcHear, invocation, loop, ocServer
<1>2. /\ events' \in Seq(OpenCodeEvent) /\ TurnWaits /\ ServerSound /\ TypeOfOpenCode
      /\ e = events[1] /\ 1 \in 1..Len(events) /\ requests \in Nat
      /\ enqueued \/ events[1].id = requests
      /\ input' = requests
  BY <1>1, ReadEvent DEF Counts
<1>3. EventsOfInput' /\ EventsUpTo(requests)' /\ EventsTold'
  BY <1>1, <1>2, PassingKeeps DEF Counts
<1>4. /\ output' \in [signal : {"missing", "complete", "incomplete"}, limit : BOOLEAN,
                      fault : {"none"} \cup Faults, of : Nat]
      /\ output'.signal # "missing" => output'.of = requests
  BY <1>1, HeardOfInput
<1>5. e.kind = "ended" => summarized = requests
  <2>1. e.kind = "ended" => enqueued
    BY <1>1 DEF Counts, Enqueued
  <2> QED
    BY <1>2, <2>1 DEF TurnWaits, EventsOfInput, Ours
<1> HIDE DEF e
<1>6. delivered' \in BOOLEAN /\ compacted' \in BOOLEAN /\ (compacted' => summarized = requests)
  BY <1>1, <1>2, <1>5 DEF Delivered, TypeOfOpenCode, TurnWaits, OutputOfInput
<1>7. TypeOfOpenCode'
  BY <1>1, <1>2, <1>4, <1>6 DEF TypeOfOpenCode, OpenCodeEvent
<1>8. ServerSound'
  BY <1>1, <1>2, <1>3, <1>7 DEF ServerSound
<1>9. TurnWaits'
  BY <1>1, <1>2, <1>3, <1>4, <1>6 DEF TurnWaits, Named, OneInput, OutputOfInput, Idle
<1> QED
  BY <1>1, <1>8, <1>9 DEF OpenCodeInv, Awaiting, Idle, OcAtWork, Asking, Deciding

(* A settled turn: its execution is over, and its answer is of the input.   *)
LEMMA SettleKeeps ==
  ASSUME InvocationInv, OpenCodeInv, OcAtWork, turn = "wait", events # <<>>, OcSettle(Head(events))
  PROVE  OpenCodeInv'
<1> DEFINE e == Head(events)
           result == Meaning(Heard(e))
<1>1. Counts(e) /\ Settles(e)
  BY DEF OcSettle
<1>2. /\ Tail(events) \in Seq(OpenCodeEvent) /\ TurnWaits /\ ServerSound /\ TypeOfOpenCode
      /\ e = events[1] /\ 1 \in 1..Len(events) /\ requests \in Nat
      /\ \A i \in 1..Len(Tail(events)) :
           Tail(events)[i] = events[i + 1] /\ i + 1 \in 1..Len(events)
      /\ \A i \in 1..Len(Tail(events)) : \E j \in 1..Len(events) : Tail(events)[i] = events[j]
  BY ReadEvent
<1>3. /\ Heard(e) \in [signal : {"missing", "complete", "incomplete"}, limit : BOOLEAN,
                       fault : {"none"} \cup Faults, of : Nat]
      /\ Heard(e).signal # "missing" => Heard(e).of = requests
      /\ e.kind = "failed" => Heard(e).fault \in Faults
  BY <1>1, HeardOfInput
<1>4. e.kind \in {"succeeded", "failed"} /\ enqueued
  BY <1>1 DEF Settles, Counts, Enqueued
<1>5. Idle
  BY <1>2, <1>4 DEF TurnWaits, EventsOfInput, Ours
<1>6. step = "attempt" /\ result \in {"complete", "incomplete"} => Heard(e).of = requests
  BY <1>3 DEF Meaning, Faults, Compaction
<1>7. step = "compacting" /\ result = "complete" => summarized = requests
  <2>1. ASSUME step = "compacting", result = "complete"
        PROVE  summarized = requests
    <3>1. Heard(e).fault = "none"
      <4>1. Heard(e).fault \in {"none", "transient", "error"}
        BY <1>3 DEF Faults
      <4>2. Heard(e).fault # "none" => result = Heard(e).fault
        BY <2>1 DEF Meaning, Compaction
      <4> HIDE DEF e, result
      <4> QED
        BY <2>1, <4>1, <4>2
    <3>2. e.kind # "failed"
      BY <1>3, <3>1 DEF Faults
    <3>3. compacted
      BY <1>1, <2>1, <3>2 DEF Settles, Compaction
    <3> QED
      BY <1>2, <3>3 DEF TurnWaits, OutputOfInput
  <2> QED
    BY <2>1
<1>8. result \in {"limit", "complete", "incomplete", "missing", "transient", "error"}
  BY <1>3 DEF Meaning, Faults
<1>9. CASE result \in {"complete", "incomplete", "limit"}
  <2>1. /\ Gets(result) /\ output' = Heard(e) /\ events' = Tail(events)
        /\ UNCHANGED <<input, exec, inbox, current, said, summarized, requests>>
    BY <1>9 DEF OcSettle, ocServer, Gets
  <2> HIDE DEF e, result
  <2>2. TypeOfOpenCode'
    BY <1>2, <1>3, <2>1 DEF TypeOfOpenCode, OpenCodeEvent, Gets
  <2>3. ServerSound'
    BY <1>2, <2>1, <2>2 DEF ServerSound, EventsUpTo, EventsTold
  <2>4. Idle'
    BY <1>5, <2>1 DEF Idle
  <2> QED
    BY <1>6, <1>7, <1>9, <2>1, <2>3, <2>4, ResultKeeps
<1>10. CASE result \notin {"complete", "incomplete", "limit"}
  <2>1. OcCancel(result, Tail(events))
    BY <1>10 DEF OcSettle
  <2> HIDE DEF e, result
  <2> QED
    BY <1>2, <1>8, <1>10, <2>1, CancelKeeps
<1> QED
  BY <1>9, <1>10

LEMMA RunnerKeepsOpenCode ==
  ASSUME InvocationInv, FirstPrompt, OpenCodeInv, OpenCodeRunner
  PROVE  OpenCodeInv'
<1>1. CASE OcRead
  <2>1. OcAtWork /\ turn = "wait" /\ events # <<>>
    BY <1>1 DEF OcRead
  <2>2. CASE OcInterrupted(Head(events))
    <3>1. OcCancel("error", Tail(events))
      BY <2>2 DEF OcInterrupted
    <3>2. /\ Tail(events) \in Seq(OpenCodeEvent)
          /\ \A i \in 1..Len(Tail(events)) : \E j \in 1..Len(events) : Tail(events)[i] = events[j]
      BY <2>1, ReadEvent
    <3> QED
      BY <2>1, <3>1, <3>2, CancelKeeps
  <2> QED
    BY <1>1, <2>1, <2>2, IgnoreKeeps, HearKeeps, SettleKeeps DEF OcRead
<1> QED
  BY <1>1, PrepareKeeps, SubmitKeeps, SubmitFailsKeeps, GivingUpKeeps DEF OpenCodeRunner
-----------------------------------------------------------------------------
(* OpenCode: the session of the server                                      *)

(* Events are added behind the others.                                      *)
LEMMA EventAdded ==
  ASSUME OpenCodeInv, NEW e \in OpenCodeEvent, events' = Append(events, e)
  PROVE  /\ events' \in Seq(OpenCodeEvent) /\ Len(events') = Len(events) + 1 /\ Len(events) \in Nat
         /\ \A i \in 1..Len(events) : events'[i] = events[i]
         /\ events'[Len(events) + 1] = e
<1>1. events \in Seq(OpenCodeEvent)
  BY DEF OpenCodeInv, ServerSound, TypeOfOpenCode, OpenCodeEvent
<1> QED
  BY <1>1

LEMMA AddedSound ==
  ASSUME OpenCodeInv, requests \in Nat, NEW e \in OpenCodeEvent, e.id <= requests, Told(e),
         events' = Append(events, e), requests' = requests
  PROVE  EventsUpTo(requests)' /\ EventsTold'
<1>1. \A i \in 1..Len(events') : events'[i].id <= requests /\ Told(events'[i])
  <2>1. \A i \in 1..Len(events') : i \in 1..Len(events) \/ i = Len(events) + 1
    BY EventAdded
  <2>2. ServerSound
    BY DEF OpenCodeInv
  <2> QED
    BY <2>1, <2>2, EventAdded DEF ServerSound, EventsUpTo, EventsTold
<1> QED
  BY <1>1 DEF EventsUpTo, EventsTold

(* What an event added says of the input, while the runner waits.           *)
LEMMA AddedOfInput ==
  ASSUME OpenCodeInv, TurnWaits, NEW e \in OpenCodeEvent, events' = Append(events, e),
         UNCHANGED <<requests, enqueued>>, Idle => Idle',
         e.kind \in {"succeeded", "failed"} => Idle',
         e.kind = "text" => e.id = requests,
         e.kind = "ended" => summarized' = requests,
         summarized = requests => summarized' = requests
  PROVE  EventsOfInput'
<1>1. ASSUME NEW i \in 1..Len(events'), Ours(i)'
      PROVE  /\ events'[i].kind \in {"succeeded", "failed"} => Idle'
             /\ events'[i].kind = "text" => events'[i].id = requests'
             /\ events'[i].kind = "ended" => summarized' = requests'
  <2>1. Len(events) \in Nat /\ Len(events') = Len(events) + 1
    BY EventAdded
  <2>2. CASE i = Len(events) + 1
    BY <2>2, EventAdded
  <2>3. CASE i \in 1..Len(events)
    <3>1. Ours(i)
      BY <1>1, <2>1, <2>3, EventAdded DEF Ours
    <3>2. events'[i] = events[i]
      BY <2>3, EventAdded
    <3> QED
      BY <2>3, <3>1, <3>2 DEF TurnWaits, EventsOfInput
  <2> QED
    BY <2>1, <2>2, <2>3
<1> QED
  BY <1>1 DEF EventsOfInput

(* A session at rest has nothing to do: the server works for an attempt that *)
(* waits, or is left behind by one that ended in an error.                  *)
LEMMA ServerAtWork ==
  ASSUME InvocationInv, OpenCodeInv, backend = "opencode", step # "ended", ~Idle
  PROVE  /\ requests \in Nat /\ ServerSound /\ TypeOfOpenCode
         /\ \/ Awaiting /\ turn = "wait" /\ TurnWaits
            \/ step \in Asking /\ attempt = "error" /\ ~Awaiting /\ turn = "none"
<1>1. requests \in Nat /\ ServerSound /\ TypeOfOpenCode
  BY DEF InvocationInv, OpenCodeInv, ServerSound
<1>2. step \in Asking
  BY DEF InvocationInv, OpenCodeInv
<1>3. CASE Awaiting
  BY <1>1, <1>2, <1>3 DEF OpenCodeInv
<1>4. CASE ~Awaiting
  BY <1>1, <1>2, <1>4 DEF OpenCodeInv, Awaiting
<1> QED
  BY <1>3, <1>4

(* So a step of the server keeps the invariant if it keeps what is said of   *)
(* an attempt that waits.                                                   *)
LEMMA ServerStepKeeps ==
  ASSUME InvocationInv, OpenCodeInv, backend = "opencode", step # "ended", ~Idle,
         UNCHANGED <<invocation, ocRunner>>, ServerSound',
         Awaiting /\ turn = "wait" => OneInput' /\ EventsOfInput',
         summarized = requests => summarized' = requests
  PROVE  OpenCodeInv'
<1>1. UNCHANGED <<step, attempt, requests, outcome, turn, input, enqueued, output, compacted>>
  BY DEF invocation, loop, ocRunner
<1>2. CASE Awaiting /\ turn = "wait" /\ TurnWaits
  <2>1. TurnWaits'
    BY <1>1, <1>2 DEF TurnWaits, Named, OutputOfInput
  <2> QED
    BY <1>1, <1>2, <2>1 DEF OpenCodeInv, Awaiting, Asking, Deciding
<1>3. CASE step \in Asking /\ attempt = "error" /\ ~Awaiting /\ turn = "none"
  BY <1>1, <1>3 DEF OpenCodeInv, Awaiting, Asking, Deciding
<1> QED
  BY <1>2, <1>3, ServerAtWork

LEMMA DeliveryKeeps ==
  ASSUME InvocationInv, OpenCodeInv, backend = "opencode", step # "ended", ServerDelivers
  PROVE  OpenCodeInv'
<1>1. /\ inbox # <<>> /\ exec' = "running" /\ current' = Head(inbox) /\ inbox' = Tail(inbox)
      /\ said' = FALSE /\ events' = Append(events, Event(Asked(Head(inbox)), Head(inbox)))
      /\ UNCHANGED <<invocation, ocRunner, summarized, requests, enqueued>>
      /\ UNCHANGED <<turn, input, delivered, compacted, output>>
  BY DEF ServerDelivers, invocation, ocRunner
<1>2. ~Idle
  BY <1>1 DEF Idle
<1>3. requests \in Nat /\ ServerSound /\ TypeOfOpenCode /\ inbox \in Seq(Nat)
  BY <1>2, ServerAtWork DEF TypeOfOpenCode
<1>4. /\ Head(inbox) = inbox[1] /\ Head(inbox) \in Nat /\ Head(inbox) <= requests
      /\ Head(inbox) > 0 /\ Tail(inbox) \in Seq(Nat)
      /\ \A i \in 1..Len(Tail(inbox)) : 0 < Tail(inbox)[i] /\ Tail(inbox)[i] <= requests
  BY <1>1, <1>3, FirstAndRest DEF ServerSound
<1> DEFINE e == Event(Asked(Head(inbox)), Head(inbox))
<1>5. e \in OpenCodeEvent /\ e.kind \in {"started", "delivered"} /\ e.id = Head(inbox) /\ Told(e)
  BY <1>4 DEF Event, Asked, OpenCodeEvent, Told
<1>6. events' = Append(events, e)
  BY <1>1
<1> HIDE DEF e
<1>7. EventsUpTo(requests)' /\ EventsTold' /\ events' \in Seq(OpenCodeEvent)
  BY <1>1, <1>3, <1>4, <1>5, <1>6, AddedSound, EventAdded
<1>8. ServerSound'
  <2>1. TypeOfOpenCode'
    BY <1>1, <1>3, <1>4, <1>7 DEF TypeOfOpenCode, OpenCodeEvent
  <2> QED
    BY <1>1, <1>4, <1>7, <2>1 DEF ServerSound
<1>9. ASSUME Awaiting, turn = "wait"
      PROVE  OneInput' /\ EventsOfInput'
  <2>1. TurnWaits
    BY <1>9 DEF OpenCodeInv
  <2>2. inbox = <<requests>>
    BY <1>1, <2>1 DEF TurnWaits, OneInput, Idle
  <2>3. inbox' = <<>> /\ current' = requests
    BY <1>1, <1>3, <2>2
  <2> QED
    BY <1>1, <1>2, <1>5, <1>6, <2>1, <2>3, AddedOfInput DEF OneInput
<1> QED
  BY <1>1, <1>2, <1>8, <1>9, ServerStepKeeps

LEMMA AnswerKeeps ==
  ASSUME InvocationInv, OpenCodeInv, backend = "opencode", step # "ended", ServerAnswers
  PROVE  OpenCodeInv'
<1>1. /\ exec = "running" /\ said' = TRUE
      /\ UNCHANGED <<invocation, ocRunner, exec, inbox, current, requests, enqueued>>
      /\ UNCHANGED <<turn, input, delivered, compacted, output>>
  BY DEF ServerAnswers, invocation, ocRunner
<1>2. ~Idle
  BY <1>1 DEF Idle
<1>3. requests \in Nat /\ ServerSound /\ TypeOfOpenCode /\ current \in Nat /\ current <= requests
  BY <1>2, ServerAtWork DEF TypeOfOpenCode, ServerSound
<1>4. PICK e \in OpenCodeEvent :
        /\ events' = Append(events, e) /\ e.id = current
        /\ \/ e.kind = "ended" /\ current = requests /\ summarized' = current
           \/ e.kind = "text" /\ UNCHANGED summarized
  <2>1. CASE Compaction /\ current = requests
    <3>1. Event("ended", current) \in OpenCodeEvent
      BY <1>3 DEF Event, OpenCodeEvent
    <3> QED
      BY <2>1, <3>1 DEF ServerAnswers, Event
  <2>2. CASE ~(Compaction /\ current = requests)
    <3>1. PICK what \in Answers : events' = Append(events, Said(current, what))
      BY <2>2 DEF ServerAnswers
    <3>2. Said(current, what) \in OpenCodeEvent
      BY <1>3 DEF Said, OpenCodeEvent
    <3> QED
      BY <2>2, <3>1, <3>2 DEF ServerAnswers, Said
  <2> QED
    BY <2>1, <2>2
<1>5. EventsUpTo(requests)' /\ EventsTold' /\ events' \in Seq(OpenCodeEvent)
  <2>1. Told(e)
    BY <1>4 DEF Told
  <2> QED
    BY <1>1, <1>3, <1>4, <2>1, AddedSound, EventAdded
<1>6. summarized' \in Nat /\ (summarized = requests => summarized' = requests)
  BY <1>3, <1>4 DEF TypeOfOpenCode
<1>7. ServerSound'
  <2>1. TypeOfOpenCode'
    BY <1>1, <1>3, <1>5, <1>6 DEF TypeOfOpenCode, OpenCodeEvent
  <2> QED
    BY <1>1, <1>3, <1>5, <2>1 DEF ServerSound
<1>8. ASSUME Awaiting, turn = "wait"
      PROVE  OneInput' /\ EventsOfInput'
  <2>1. TurnWaits
    BY <1>8 DEF OpenCodeInv
  <2>2. current = requests
    BY <1>1, <2>1 DEF TurnWaits, OneInput, Idle
  <2>3. Idle' = Idle /\ OneInput'
    BY <1>1, <2>1 DEF Idle, OneInput, TurnWaits
  <2> QED
    BY <1>1, <1>4, <1>6, <2>1, <2>2, <2>3, AddedOfInput
<1> QED
  BY <1>1, <1>2, <1>6, <1>7, <1>8, ServerStepKeeps

(* A sequence with two elements more.                                       *)
LEMMA TwoAdded ==
  ASSUME NEW S, NEW old \in Seq(S), NEW f \in S, NEW e \in S, NEW queue, queue = old \o <<f, e>>
  PROVE  /\ queue \in Seq(S) /\ Len(queue) = Len(old) + 2 /\ Len(old) \in Nat
         /\ \A i \in 1..Len(old) : queue[i] = old[i]
         /\ queue[Len(old) + 1] = f /\ queue[Len(old) + 2] = e
         /\ \A i \in 1..Len(queue) : i \in 1..Len(old) \/ i = Len(old) + 1 \/ i = Len(old) + 2
<1>1. <<f, e>> \in Seq(S) /\ Len(<<f, e>>) = 2 /\ <<f, e>>[1] = f /\ <<f, e>>[2] = e
  OBVIOUS
<1>2. /\ queue \in Seq(S) /\ Len(queue) = Len(old) + 2
      /\ \A i \in 1..Len(queue) :
           queue[i] = IF i <= Len(old) THEN old[i] ELSE <<f, e>>[i - Len(old)]
  BY <1>1, ConcatProperties
<1>3. Len(old) \in Nat
  OBVIOUS
<1> QED
  BY <1>1, <1>2, <1>3

(* The execution ends: nothing is left of a session with one input.         *)
LEMMA EndKeeps ==
  ASSUME InvocationInv, OpenCodeInv, backend = "opencode", step # "ended", ServerEnds
  PROVE  OpenCodeInv'
<1>1. /\ exec = "running" /\ exec' = "idle" /\ current' = 0 /\ said' = FALSE
      /\ UNCHANGED <<invocation, ocRunner, inbox, summarized, requests, enqueued>>
      /\ UNCHANGED <<turn, input, delivered, compacted, output>>
  BY DEF ServerEnds, invocation, ocRunner
<1>2. ~Idle
  BY <1>1 DEF Idle
<1>3. requests \in Nat /\ ServerSound /\ TypeOfOpenCode /\ 0 <= requests
  BY <1>2, ServerAtWork
<1>4. Awaiting /\ turn = "wait" => TurnWaits /\ Idle' /\ OneInput'
  <2>1. ASSUME Awaiting, turn = "wait" PROVE TurnWaits /\ inbox = <<>>
    BY <1>1, <2>1 DEF OpenCodeInv, TurnWaits, OneInput, Idle
  <2> QED
    BY <1>1, <2>1 DEF Idle, OneInput
<1>5. ASSUME NEW e \in OpenCodeEvent, e.id = 0, e.kind \in {"succeeded", "failed"},
             e.kind = "failed" => e.what \in Faults, events' = Append(events, e)
      PROVE  OpenCodeInv'
  <2>1. EventsUpTo(requests)' /\ EventsTold' /\ events' \in Seq(OpenCodeEvent)
    <3>1. Told(e)
      BY <1>5 DEF Told
    <3> QED
      BY <1>1, <1>3, <1>5, <3>1, AddedSound, EventAdded
  <2>2. ServerSound'
    <3>1. TypeOfOpenCode'
      BY <1>1, <1>3, <2>1 DEF TypeOfOpenCode, OpenCodeEvent
    <3> QED
      BY <1>1, <1>3, <2>1, <3>1 DEF ServerSound
  <2>3. Awaiting /\ turn = "wait" => OneInput' /\ EventsOfInput'
    BY <1>1, <1>2, <1>4, <1>5, AddedOfInput
  <2> QED
    BY <1>1, <1>2, <2>2, <2>3, ServerStepKeeps
<1>6. CASE inbox = <<>> /\ events' = Append(events, Event("succeeded", 0))
  <2>1. Event("succeeded", 0) \in OpenCodeEvent
    BY DEF Event, OpenCodeEvent
  <2> QED
    BY <1>5, <1>6, <2>1 DEF Event
<1>7. CASE \E what \in Faults : events' = Append(events, Failing("failed", what))
  <2>1. PICK what \in Faults : events' = Append(events, Failing("failed", what))
    BY <1>7
  <2>2. Failing("failed", what) \in OpenCodeEvent
    BY DEF Failing, OpenCodeEvent
  <2> QED
    BY <1>5, <2>1, <2>2 DEF Failing
<1>8. CASE /\ inbox = <<>>
           /\ events' = events \o <<Failing("step_failed", "transient"), Event("succeeded", 0)>>
  <2> DEFINE f == Failing("step_failed", "transient")
             e == Event("succeeded", 0)
  <2>1. /\ f \in OpenCodeEvent /\ f.id = 0 /\ f.kind = "step_failed" /\ Told(f)
        /\ e \in OpenCodeEvent /\ e.id = 0 /\ e.kind = "succeeded" /\ Told(e)
    BY DEF Failing, Event, OpenCodeEvent, Faults, Told
  <2> HIDE DEF f, e
  <2>2. events \in Seq(OpenCodeEvent) /\ Len(events) \in Nat
    BY <1>3 DEF TypeOfOpenCode, OpenCodeEvent
  <2>3. events' = events \o <<f, e>>
    BY <1>8 DEF f, e
  <2>4. /\ events' \in Seq(OpenCodeEvent) /\ Len(events') = Len(events) + 2
        /\ \A i \in 1..Len(events) : events'[i] = events[i]
        /\ events'[Len(events) + 1] = f /\ events'[Len(events) + 2] = e
        /\ \A i \in 1..Len(events') :
             i \in 1..Len(events) \/ i = Len(events) + 1 \/ i = Len(events) + 2
    BY <2>1, <2>2, <2>3, TwoAdded
  <2>5. EventsUpTo(requests)' /\ EventsTold'
    <3>1. \A i \in 1..Len(events') : events'[i].id <= requests /\ Told(events'[i])
      BY <1>3, <2>1, <2>4 DEF ServerSound, EventsUpTo, EventsTold
    <3> QED
      BY <1>1, <3>1 DEF EventsUpTo, EventsTold
  <2>6. ServerSound'
    <3>1. TypeOfOpenCode'
      BY <1>1, <1>3, <2>4 DEF TypeOfOpenCode, OpenCodeEvent
    <3> QED
      BY <1>1, <1>3, <2>5, <3>1 DEF ServerSound
  <2>7. ASSUME Awaiting, turn = "wait" PROVE EventsOfInput'
    <3>1. ASSUME NEW i \in 1..Len(events'), Ours(i)'
          PROVE  /\ events'[i].kind = "text" => events'[i].id = requests
                 /\ events'[i].kind = "ended" => summarized = requests
      <4>1. CASE i \in 1..Len(events)
        <5>1. Ours(i)
          BY <1>1, <2>2, <2>4, <3>1, <4>1 DEF Ours
        <5> QED
          BY <1>4, <2>4, <2>7, <4>1, <5>1 DEF TurnWaits, EventsOfInput
      <4>2. CASE i \notin 1..Len(events)
        BY <2>1, <2>4, <3>1, <4>2
      <4> QED
        BY <4>1, <4>2
    <3> QED
      BY <1>1, <1>4, <2>7, <3>1 DEF EventsOfInput
  <2> QED
    BY <1>1, <1>2, <1>4, <2>6, <2>7, ServerStepKeeps
<1> QED
  BY <1>6, <1>7, <1>8 DEF ServerEnds

LEMMA OpenCodeInitially == BackendsInit => InvocationInv /\ FirstPrompt /\ OpenCodeInv
<1> SUFFICES ASSUME BackendsInit PROVE InvocationInv /\ FirstPrompt /\ OpenCodeInv
  OBVIOUS
<1>1. /\ step = "dispatch" /\ attempt = "running" /\ outcome = "none" /\ requests = 0 /\ queued = <<>>
      /\ turn = "none" /\ input = 0 /\ exec = "idle" /\ inbox = <<>> /\ current = 0 /\ said = FALSE
      /\ enqueued = FALSE /\ delivered = FALSE /\ compacted = FALSE /\ output = Nothing
      /\ events = <<>> /\ summarized = 0
  BY DEF BackendsInit, InvocationInit, OpenCodeInit
<1>2. InvocationInv /\ FirstPrompt
  BY <1>1 DEF InvocationInv, FirstPrompt, Deciding, Asking
<1>3. TypeOfOpenCode
  <2>1. output \in [signal : {"missing", "complete", "incomplete"}, limit : BOOLEAN,
                    fault : {"none"} \cup Faults, of : Nat]
    BY <1>1 DEF Nothing
  <2>2. enqueued \in BOOLEAN /\ delivered \in BOOLEAN /\ compacted \in BOOLEAN /\ said \in BOOLEAN
    BY <1>1
  <2>3. inbox \in Seq(Nat) /\ events \in Seq(OpenCodeEvent)
    BY <1>1
  <2> QED
    BY <1>1, <2>1, <2>2, <2>3 DEF TypeOfOpenCode, OpenCodeEvent
<1>4. ServerSound
  BY <1>1, <1>3 DEF ServerSound, EventsTold, EventsUpTo
<1> QED
  BY <1>1, <1>2, <1>4 DEF OpenCodeInv, Awaiting, Idle, Deciding, Asking
-----------------------------------------------------------------------------
(* Codex: the loop and the steps of the runner                              *)

LEMMA LoopKeepsCodex ==
  ASSUME InvocationInv, CodexInv, backend = "codex", LoopEffect, UNCHANGED codex
  PROVE  CodexInv'
<1> USE DEF Deciding, Asking
<1>1. UNCHANGED <<asking, turnId, pendingControl, response, working, owed, notices, condensed>>
  BY DEF codex, codexRunner
<1>2. requests \in Nat /\ AppServerSound /\ TypeOfCodex
  BY DEF InvocationInv, CodexInv, AppServerSound
<1>3. TypeOfCodex' /\ NoticesTold'
  BY <1>1, <1>2 DEF TypeOfCodex, AppServerSound, NoticesTold
<1>4. CASE Posts
  <2>1. /\ requests' = requests + 1 /\ attempt' = "running" /\ step' \in Asking /\ ~Awaiting
        /\ step \in Deciding
    BY <1>4 DEF Posts, Awaiting
  <2>2. asking = "none" /\ working = 0 /\ WorkRead
    BY <2>1 DEF CodexInv
  <2>3. NoticesUpTo(requests)' /\ NoticesUpTo(requests - 1)'
    <3>1. /\ \A i \in 1..Len(notices) : notices[i].id <= requests /\ notices[i].id \in Nat
          /\ \A o \in owed : o.id <= requests /\ o.id \in Nat
      <4>1. (\A i \in 1..Len(notices) : notices[i] \in Notices) /\ owed \subseteq Notices
        <5>1. notices \in Seq(Notices) /\ owed \subseteq Notices
          BY <1>2 DEF TypeOfCodex
        <5> QED
          BY <5>1
      <4>2. \A n \in Notices : n.id \in Nat
        BY DEF Notices
      <4> QED
        BY <1>2, <4>1, <4>2 DEF AppServerSound, NoticesUpTo
    <3> QED
      BY <1>1, <1>2, <2>1, <3>1 DEF NoticesUpTo
  <2>4. AppServerSound'
    <3>1. working \in Nat /\ condensed \in Nat
      BY <1>2 DEF TypeOfCodex
    <3> QED
      BY <1>1, <1>2, <1>3, <2>1, <2>3, <3>1 DEF AppServerSound
  <2>5. working' = 0 /\ WorkRead' /\ OneCompaction' /\ asking' = "none"
    BY <1>1, <2>2 DEF WorkRead, OneCompaction, OfWork
  <2> QED
    BY <2>1, <2>3, <2>4, <2>5 DEF CodexInv, Awaiting, Continuing, Retried, Control
<1>5. ASSUME GoesOn \/ Ends
      PROVE  CodexInv'
  <2>1. /\ requests' = requests /\ step' \in Deciding \cup {"ended"} /\ asking = "none"
    BY <1>5 DEF GoesOn, Ends, CodexInv, Awaiting, Retried, Control
  <2>2. AppServerSound'
    BY <1>1, <1>2, <1>3, <2>1 DEF AppServerSound, NoticesUpTo
  <2>3. step' \in Deciding => working = 0 /\ WorkRead
    BY <1>5 DEF GoesOn, Ends, CodexInv, Continuing
  <2> QED
    BY <1>1, <2>1, <2>2, <2>3 DEF CodexInv, Awaiting, WorkRead
<1>6. CASE Rests
  <2>1. UNCHANGED <<step, attempt, requests>>
    BY <1>6 DEF Rests
  <2>2. AppServerSound'
    BY <1>1, <1>2, <1>3, <2>1 DEF AppServerSound, NoticesUpTo
  <2>3. /\ Awaiting' = Awaiting /\ WorkRead' = WorkRead /\ OneCompaction' = OneCompaction
        /\ NoticesUpTo(requests - 1)' = NoticesUpTo(requests - 1)
    BY <1>1, <2>1 DEF Awaiting, WorkRead, OneCompaction, NoticesUpTo
  <2>4. TurnReads' = TurnReads
    BY <1>1, <2>1 DEF TurnReads, Final
  <2> QED
    BY <1>1, <2>1, <2>2, <2>3, <2>4 DEF CodexInv
<1> QED
  BY <1>4, <1>5, <1>6 DEF LoopEffect

(* A result (CxGets), and what it says of the turn or the compaction.        *)
LEMMA CxResultKeeps ==
  ASSUME InvocationInv, CodexInv, Awaiting, NEW result, CxGets(result), AppServerSound',
         result # "running",
         step = "attempt" /\ result \in Continuing => working' = 0 /\ WorkRead',
         step = "attempt" /\ result \in {"complete", "incomplete"} =>
           response'.of = requests /\ turnId' = requests,
         step = "compacting" => working' = 0,
         step = "compacting" /\ result = "complete" => condensed' = requests /\ WorkRead'
  PROVE  CodexInv'
<1>1. step' = step /\ step \in Asking /\ attempt' = result /\ requests' = requests /\ asking' = "none"
  BY DEF CxGets, Awaiting
<1> QED
  BY <1>1 DEF CodexInv, Awaiting, Deciding, Asking

(* An attempt that ends in an error or a stop.                              *)
LEMMA CxErrorKeeps ==
  ASSUME InvocationInv, CodexInv, Awaiting, NEW result \in Stops, CxGets(result), AppServerSound',
         step = "compacting" => working' = 0
  PROVE  CodexInv'
<1>1. result # "running" /\ result \notin Continuing /\ result \notin {"complete", "incomplete"}
  BY DEF Stops, Continuing, Retried, Control
<1> QED
  BY <1>1, CxResultKeeps

(* A notification is added behind the others.                               *)
LEMMA NoticeAdded ==
  ASSUME AppServerSound, requests \in Nat, NEW n \in Notices, n.id <= requests,
         n.kind = "answer" => n.what \in CxAnswers, n.kind = "error" => n.what \in CxFaults,
         n.kind = "completed" => n.what \in {"none", "interrupted"} \cup CxFaults,
         NEW old \in Seq(Notices), old = notices,
         NEW queue, queue = Append(old, n)
  PROVE  /\ queue \in Seq(Notices) /\ Len(queue) = Len(old) + 1 /\ Len(old) \in Nat
         /\ \A i \in 1..Len(old) : queue[i] = old[i]
         /\ queue[Len(old) + 1] = n
         /\ \A i \in 1..Len(queue) : i \in 1..Len(old) \/ i = Len(old) + 1
         /\ \A i \in 1..Len(queue) :
              /\ queue[i].id <= requests
              /\ queue[i].kind = "answer" => queue[i].what \in CxAnswers
              /\ queue[i].kind = "error" => queue[i].what \in CxFaults
              /\ queue[i].kind = "completed" =>
                   queue[i].what \in {"none", "interrupted"} \cup CxFaults
<1>1. /\ queue \in Seq(Notices) /\ Len(queue) = Len(old) + 1 /\ Len(old) \in Nat
      /\ \A i \in 1..Len(old) : queue[i] = old[i]
      /\ queue[Len(old) + 1] = n
  OBVIOUS
<1>2. \A i \in 1..Len(queue) : i \in 1..Len(old) \/ i = Len(old) + 1
  BY <1>1
<1>3. NoticesUpTo(requests) /\ NoticesTold
  BY DEF AppServerSound
<1> QED
  BY <1>1, <1>2, <1>3 DEF NoticesUpTo, NoticesTold

(* start_turn: a turn whose start fails ends the attempt, at work or not.    *)
LEMMA StartKeeps ==
  ASSUME InvocationInv, CodexInv, backend = "codex", CxStart
  PROVE  CodexInv'
<1>1. /\ CxAtWork /\ asking = "none" /\ pendingControl' = "none" /\ response' = NoAnswer
      /\ UNCHANGED <<owed, notices, condensed>>
  BY DEF CxStart
<1>2. Awaiting /\ step = "attempt" /\ requests \in Nat
  BY <1>1 DEF CxAtWork, Awaiting, Asking, InvocationInv
<1>3. AppServerSound /\ TypeOfCodex /\ working = 0 /\ WorkRead /\ NoticesUpTo(requests - 1)
  BY <1>1, <1>2 DEF CodexInv, AppServerSound
<1>4. NoAnswer \in [signal : CxAnswers, of : Nat] /\ NoAnswer.signal = "missing"
  BY DEF NoAnswer, CxAnswers
<1>5. CASE asking' = "read" /\ turnId' = requests /\ working' = requests /\ UNCHANGED invocation
  <2>1. UNCHANGED <<step, attempt, requests, outcome>>
    BY <1>5 DEF invocation, loop
  <2>2. AppServerSound'
    <3>1. TypeOfCodex'
      BY <1>1, <1>2, <1>3, <1>4, <1>5 DEF TypeOfCodex
    <3> QED
      BY <1>1, <1>2, <1>3, <1>5, <2>1, <3>1 DEF AppServerSound, NoticesTold, NoticesUpTo
  <2>3. /\ \A i \in 1..Len(notices) : notices[i].id # requests /\ notices[i].kind # "answer"
        /\ \A o \in owed : o.id # requests
    <3>1. notices \in Seq(Notices) /\ owed \subseteq Notices
      BY <1>3 DEF TypeOfCodex
    <3>2. \A i \in 1..Len(notices) : notices[i] \in Notices /\ notices[i].kind # "answer"
      BY <1>3, <3>1 DEF WorkRead, OfWork
    <3>3. \A n \in Notices : n.id \in Nat
      BY DEF Notices
    <3> QED
      BY <1>2, <1>3, <3>1, <3>2, <3>3 DEF NoticesUpTo
  <2>4. TurnReads'
    <3>1. \A i \in 1..Len(notices') : ~Final(i)'
      BY <1>1, <1>5, <2>3 DEF Final
    <3> QED
      BY <1>1, <1>4, <1>5, <2>1, <2>3, <3>1 DEF TurnReads
  <2> QED
    BY <1>2, <1>5, <2>1, <2>2, <2>4 DEF CodexInv, Awaiting, Deciding, Continuing, Retried, Control
<1>6. CASE CxGets("error") /\ working' \in {working, requests} /\ UNCHANGED <<turnId, controls>>
  <2>1. AppServerSound'
    <3>1. TypeOfCodex'
      BY <1>1, <1>2, <1>3, <1>4, <1>6 DEF TypeOfCodex, CxGets
    <3> QED
      BY <1>1, <1>2, <1>3, <1>6, <3>1 DEF AppServerSound, NoticesTold, NoticesUpTo, CxGets
  <2> QED
    BY <1>2, <1>6, <2>1, CxErrorKeeps DEF Stops
<1> QED
  BY <1>5, <1>6 DEF CxStart

(* A turn that is read, and what is known of its notifications.             *)
LEMMA ReadingTurn ==
  ASSUME InvocationInv, CodexInv, CxAtWork, asking = "read"
  PROVE  /\ Awaiting /\ step = "attempt" /\ requests \in Nat /\ TurnReads
         /\ AppServerSound /\ TypeOfCodex /\ notices \in Seq(Notices)
<1>1. Awaiting /\ step = "attempt" /\ requests \in Nat
  BY DEF CxAtWork, Awaiting, Asking, InvocationInv
<1>2. AppServerSound /\ TypeOfCodex
  BY DEF CodexInv, AppServerSound
<1>3. notices \in Seq(Notices)
  BY <1>2 DEF TypeOfCodex
<1> QED
  BY <1>1, <1>2, <1>3 DEF CodexInv

(* interrupt_turn: if the server interrupts the turn, the last that is said   *)
(* of it is that it was interrupted.                                        *)
LEMMA InterruptedTurn ==
  ASSUME InvocationInv, CodexInv, CxAtWork, asking = "read",
         UNCHANGED <<requests, turnId, response, owed>>, working = turnId, working' = 0, notices' = Interrupted(turnId)
  PROVE  /\ TurnReads' /\ NoticesTold' /\ NoticesUpTo(requests)' /\ notices' \in Seq(Notices)
<1> DEFINE n == Notice("completed", turnId, "interrupted")
<1>1. /\ requests \in Nat /\ TurnReads /\ AppServerSound /\ TypeOfCodex /\ notices \in Seq(Notices)
      /\ turnId = requests
  BY ReadingTurn DEF TurnReads
<1>2. n \in Notices /\ n.kind = "completed" /\ n.what = "interrupted" /\ n.id <= requests
  BY <1>1 DEF Notice, Notices
<1>3. notices' = Append(notices, n)
  BY DEF Interrupted
<1> HIDE DEF n
<1>4. /\ notices' \in Seq(Notices) /\ Len(notices') = Len(notices) + 1 /\ Len(notices) \in Nat
      /\ \A i \in 1..Len(notices) : notices'[i] = notices[i]
      /\ notices'[Len(notices) + 1] = n
      /\ \A i \in 1..Len(notices') : i \in 1..Len(notices) \/ i = Len(notices) + 1
      /\ \A i \in 1..Len(notices') :
           /\ notices'[i].id <= requests
           /\ notices'[i].kind = "answer" => notices'[i].what \in CxAnswers
           /\ notices'[i].kind = "error" => notices'[i].what \in CxFaults
           /\ notices'[i].kind = "completed" =>
                notices'[i].what \in {"none", "interrupted"} \cup CxFaults
  BY <1>1, <1>2, <1>3, NoticeAdded
<1>5. NoticesTold' /\ NoticesUpTo(requests)'
  BY <1>1, <1>4 DEF NoticesTold, NoticesUpTo, AppServerSound
<1>6. ASSUME NEW i \in 1..Len(notices'), Final(i)', NEW j \in (i + 1)..Len(notices')
      PROVE  notices'[j].kind \notin OfWork
  <2>1. i \in 1..Len(notices)
    BY <1>4
  <2>2. Final(i)
    BY <1>4, <1>6, <2>1 DEF Final
  <2>3. CASE j = Len(notices) + 1
    BY <1>2, <1>4, <2>3 DEF OfWork
  <2>4. CASE j \in (i + 1)..Len(notices)
    <3>1. notices[j].kind \notin OfWork
      BY <1>1, <2>1, <2>2, <2>4 DEF TurnReads
    <3>2. notices'[j] = notices[j]
      BY <1>4, <2>1, <2>4
    <3> QED
      BY <3>1, <3>2
  <2> QED
    BY <1>4, <2>1, <2>3, <2>4
<1>7. \A i \in 1..Len(notices') : notices'[i].kind = "answer" => notices'[i].id = requests
  BY <1>1, <1>2, <1>4 DEF TurnReads
<1>8. TurnReads'
  BY <1>1, <1>6, <1>7 DEF TurnReads
<1> QED
  BY <1>4, <1>5, <1>8

LEMMA CxGivingUpKeeps ==
  ASSUME InvocationInv, CodexInv, backend = "codex", CxAtWork, asking = "read",
         NEW why \in Stops, NEW confirmed \in BOOLEAN, CxInterrupt(confirmed), CxGets(why),
         UNCHANGED <<turnId, response, owed, condensed>>,
         pendingControl' \in {"none", "compact", "context"}
  PROVE  CodexInv'
<1>1. /\ Awaiting /\ step = "attempt" /\ requests \in Nat /\ TurnReads
      /\ AppServerSound /\ TypeOfCodex /\ notices \in Seq(Notices) /\ requests' = requests
      /\ asking' = "none"
  BY ReadingTurn DEF CxGets
<1>2. CASE UNCHANGED <<working, notices>>
  <2>1. AppServerSound'
    <3>1. TypeOfCodex'
      BY <1>1, <1>2 DEF TypeOfCodex
    <3> QED
      BY <1>1, <1>2, <3>1 DEF AppServerSound, NoticesTold, NoticesUpTo
  <2> QED
    BY <1>1, <2>1, CxErrorKeeps
<1>3. CASE working = turnId /\ working' = 0 /\ notices' = Interrupted(turnId)
  <2>1. NoticesTold' /\ NoticesUpTo(requests)' /\ notices' \in Seq(Notices)
    BY <1>1, <1>3, InterruptedTurn
  <2>2. AppServerSound'
    <3>1. TypeOfCodex'
      BY <1>1, <1>3, <2>1 DEF TypeOfCodex
    <3> QED
      BY <1>1, <1>3, <2>1, <3>1 DEF AppServerSound
  <2> QED
    BY <1>1, <2>2, CxErrorKeeps
<1> QED
  BY <1>2, <1>3 DEF CxInterrupt

(* A key of the user: the turn goes on being read, or is given up.          *)
LEMMA CxUserKeeps ==
  ASSUME InvocationInv, CodexInv, backend = "codex",
         CxStops \/ CxStopKey \/ CxFails \/ CxControl \/ CxSteer
  PROVE  CodexInv'
<1>1. CxAtWork /\ asking = "read"
  BY DEF CxStops, CxStopKey, CxFails, CxControl, CxSteer
<1>2. /\ Awaiting /\ step = "attempt" /\ requests \in Nat /\ TurnReads
      /\ AppServerSound /\ TypeOfCodex /\ notices \in Seq(Notices)
      /\ pendingControl \in {"none", "compact", "context"}
  BY <1>1, ReadingTurn DEF TypeOfCodex
<1>3. CASE CxStops \/ CxStopKey \/ CxFails
  <2>1. PICK why \in Stops : CxGivesUp(why)
    BY <1>3 DEF CxStops, CxStopKey, CxFails, Stops
  <2>2. PICK confirmed \in BOOLEAN : CxInterrupt(confirmed)
    BY <2>1 DEF CxGivesUp
  <2> QED
    BY <1>1, <1>2, <2>1, <2>2, CxGivingUpKeeps DEF CxGivesUp
<1>4. ASSUME /\ CxGets("error")
             /\ UNCHANGED <<turnId, response, working, owed, notices, condensed>>
             /\ pendingControl' \in {"none", "compact", "context"}
      PROVE  CodexInv'
  <2>1. AppServerSound'
    <3>1. TypeOfCodex'
      BY <1>2, <1>4 DEF TypeOfCodex, CxGets
    <3> QED
      BY <1>2, <1>4, <3>1 DEF AppServerSound, NoticesTold, NoticesUpTo, CxGets
  <2> QED
    BY <1>2, <1>4, <2>1, CxErrorKeeps DEF Stops
<1>6. ASSUME /\ UNCHANGED <<step, attempt, requests, asking, turnId, response, condensed>>
             /\ AppServerSound' /\ TurnReads'
      PROVE  CodexInv'
  BY <1>1, <1>2, <1>6 DEF CodexInv, Awaiting, CxAtWork, Deciding, Continuing, Retried, Control
<1>7. ASSUME /\ UNCHANGED <<step, attempt, requests, asking, turnId, response, condensed, working,
                             owed, notices>>
             /\ pendingControl' \in {"none", "compact", "context"}
      PROVE  CodexInv'
  <2>1. TypeOfCodex'
    BY <1>2, <1>7 DEF TypeOfCodex
  <2>2. AppServerSound'
    BY <1>2, <1>7, <2>1 DEF AppServerSound, NoticesTold, NoticesUpTo
  <2>3. TurnReads'
    BY <1>2, <1>7 DEF TurnReads, Final
  <2> QED
    BY <1>6, <1>7, <2>2, <2>3
<1>8. CASE CxSteer
  BY <1>2, <1>4, <1>7, <1>8 DEF CxSteer, CxGets
<1>9. CASE CxControl
  <2>1. UNCHANGED <<configuration, counters, clock, step, prompt, outcome, wait, queued, requests,
                    turnId, response, owed, condensed>>
    BY <1>9 DEF CxControl
  <2>2. CASE UNCHANGED <<attempt, asking, pendingControl, working, notices>>
    BY <1>2, <1>7, <2>1, <2>2
  <2>3. CASE /\ CxInterrupt(TRUE) /\ UNCHANGED <<attempt, asking>>
             /\ \E which \in {"compact", "context"} : pendingControl' = which
    <3>1. /\ working = turnId /\ working' = 0 /\ notices' = Interrupted(turnId)
          /\ pendingControl' \in {"compact", "context"}
      BY <2>3 DEF CxInterrupt
    <3>2. TurnReads' /\ NoticesTold' /\ NoticesUpTo(requests)' /\ notices' \in Seq(Notices)
      BY <1>1, <2>1, <3>1, InterruptedTurn
    <3>3. TypeOfCodex'
      BY <1>2, <2>1, <2>3, <3>1, <3>2 DEF TypeOfCodex
    <3>4. AppServerSound'
      BY <1>2, <2>1, <3>1, <3>2, <3>3 DEF AppServerSound
    <3> QED
      BY <1>6, <2>1, <2>3, <3>2, <3>4
  <2>4. CASE CxInterrupt(FALSE) /\ attempt' = "error" /\ asking' = "none" /\ UNCHANGED pendingControl
    <3>1. CxGets("error")
      BY <2>1, <2>4 DEF CxGets
    <3> QED
      BY <1>1, <1>2, <2>1, <2>4, <3>1, CxGivingUpKeeps DEF Stops
  <2> QED
    BY <1>9, <2>2, <2>3, <2>4 DEF CxControl
<1> QED
  BY <1>3, <1>8, <1>9

(* A notification that is read (CxRead): with the one that ends the turn,    *)
(* the turn is over, and nothing it did is left to be read.                 *)
LEMMA CxReadKeeps ==
  ASSUME InvocationInv, CodexInv, backend = "codex", CxRead
  PROVE  CodexInv'
<1> DEFINE n == Head(notices)
<1>1. /\ CxAtWork /\ asking = "read" /\ notices # <<>> /\ notices' = Tail(notices)
      /\ UNCHANGED <<turnId, pendingControl, working, owed, condensed>>
  BY DEF CxRead
<1>2. /\ Awaiting /\ step = "attempt" /\ requests \in Nat /\ TurnReads /\ turnId = requests
      /\ AppServerSound /\ TypeOfCodex /\ notices \in Seq(Notices)
  BY <1>1, ReadingTurn DEF TurnReads
<1>3. /\ n = notices[1] /\ n \in Notices /\ 1 \in 1..Len(notices)
      /\ notices' \in Seq(Notices) /\ Len(notices') = Len(notices) - 1
      /\ \A i \in 1..Len(notices') : notices'[i] = notices[i + 1] /\ i + 1 \in 1..Len(notices)
  BY <1>1, <1>2, FirstAndRest
<1>4. Len(notices) \in Nat /\ Len(notices') \in Nat
  BY <1>2, <1>3
<1>5. requests' = requests => NoticesTold' /\ NoticesUpTo(requests)'
  BY <1>1, <1>2, <1>3 DEF AppServerSound, NoticesTold, NoticesUpTo
<1>6. n.id \in Nat
  BY <1>3 DEF Notices
<1>7. CASE ~EndsTurn(n)
  <2>1. /\ UNCHANGED <<invocation, asking>>
        /\ \/ response' = response
           \/ n.kind = "answer" /\ response' = [signal |-> n.what, of |-> n.id]
    BY <1>7 DEF CxRead, AnswersTurn
  <2>2. UNCHANGED <<step, attempt, requests>>
    BY <2>1 DEF invocation, loop
  <2>3. /\ response' \in [signal : CxAnswers, of : Nat]
        /\ response'.signal \in {"complete", "incomplete"} => response'.of = requests
    <3>1. CASE response' = response
      BY <1>2, <3>1 DEF TypeOfCodex, TurnReads
    <3>2. CASE n.kind = "answer" /\ response' = [signal |-> n.what, of |-> n.id]
      <4>1. n.what \in CxAnswers /\ n.id = requests
        BY <1>2, <1>3, <3>2 DEF AppServerSound, NoticesTold, TurnReads
      <4> QED
        BY <1>2, <1>6, <3>2, <4>1
    <3> QED
      BY <2>1, <3>1, <3>2
  <2> HIDE DEF n
  <2>4. AppServerSound'
    <3>1. TypeOfCodex'
      BY <1>1, <1>2, <1>3, <2>1, <2>3 DEF TypeOfCodex
    <3> QED
      BY <1>1, <1>2, <1>5, <2>2, <3>1 DEF AppServerSound
  <2>5. TurnReads'
    <3>1. ASSUME NEW i \in 1..Len(notices'), Final(i)'
          PROVE  working = 0 /\ \A j \in (i + 1)..Len(notices') : notices'[j].kind \notin OfWork
      <4>1. i + 1 \in 1..Len(notices) /\ Final(i + 1)
        BY <1>1, <1>3, <3>1 DEF Final
      <4>2. working = 0 /\ \A j \in (i + 1 + 1)..Len(notices) : notices[j].kind \notin OfWork
        BY <1>2, <4>1 DEF TurnReads
      <4>3. ASSUME NEW j \in (i + 1)..Len(notices') PROVE notices'[j].kind \notin OfWork
        <5>1. j \in 1..Len(notices') /\ j + 1 \in (i + 1 + 1)..Len(notices)
          BY <1>3, <1>4
        <5> QED
          BY <1>3, <4>2, <5>1
      <4> QED
        BY <4>2, <4>3
    <3>2. \A i \in 1..Len(notices') : notices'[i].kind = "answer" => notices'[i].id = requests
      BY <1>2, <1>3 DEF TurnReads
    <3> QED
      BY <1>1, <1>2, <2>2, <2>3, <3>1, <3>2 DEF TurnReads
  <2> QED
    BY <1>1, <1>2, <2>1, <2>2, <2>4, <2>5
       DEF CodexInv, Awaiting, CxAtWork, Deciding, Continuing, Retried, Control
<1>8. CASE EndsTurn(n)
  <2>1. working = 0 /\ WorkRead'
    <3>1. Final(1)
      BY <1>3, <1>8 DEF Final, EndsTurn
    <3>2. working = 0 /\ \A j \in (1 + 1)..Len(notices) : notices[j].kind \notin OfWork
      BY <1>2, <1>3, <3>1 DEF TurnReads
    <3>3. \A i \in 1..Len(notices') : i + 1 \in (1 + 1)..Len(notices)
      BY <1>3, <1>4
    <3> QED
      BY <1>3, <3>2, <3>3 DEF WorkRead
  <2>2. PICK result : /\ CxGets(result) /\ UNCHANGED <<controls, response>>
                      /\ \/ n.kind = "error" /\ result = n.what
                         \/ n.kind = "completed" /\ result = CxCompleted(n)
    <3>1. n.kind \in {"error", "completed"} /\ ~AnswersTurn(n)
      BY <1>8 DEF EndsTurn, AnswersTurn
    <3> QED
      BY <1>8, <3>1 DEF CxRead
  <2>3. AppServerSound'
    <3>1. requests' = requests /\ asking' = "none"
      BY <2>2 DEF CxGets
    <3>2. TypeOfCodex'
      BY <1>1, <1>2, <1>3, <2>2, <3>1 DEF TypeOfCodex
    <3> QED
      BY <1>1, <1>2, <1>5, <3>1, <3>2 DEF AppServerSound
  <2>4. /\ result # "running"
        /\ result \in {"complete", "incomplete"} => response.of = requests
    <3>1. CASE n.kind = "error"
      <4>1. n.what \in CxFaults
        BY <1>2, <1>3, <3>1 DEF AppServerSound, NoticesTold
      <4> QED
        BY <2>2, <3>1, <4>1 DEF CxFaults
    <3>2. CASE n.kind = "completed"
      <4>1. /\ pendingControl \in {"none", "compact", "context"} /\ response.signal \in CxAnswers
            /\ response.signal \in {"complete", "incomplete"} => response.of = requests
        BY <1>2 DEF TypeOfCodex, TurnReads
      <4>2. result = CxCompleted(n)
        BY <2>2, <3>2
      <4> HIDE DEF n
      <4> QED
        BY <4>1, <4>2 DEF CxCompleted, CxFaults, CxAnswers
    <3> QED
      BY <2>2, <3>1, <3>2
  <2> QED
    BY <1>1, <1>2, <2>1, <2>2, <2>3, <2>4, CxResultKeeps
<1> QED
  BY <1>7, <1>8

(* compact_thread: the notification it waits for is of its own compaction.   *)
LEMMA CxCompactingKeeps ==
  ASSUME InvocationInv, CodexInv, backend = "codex", CxCompact \/ CxReadCompaction
  PROVE  CodexInv'
<1>1. CxCompacting /\ UNCHANGED <<turnId, pendingControl, response, working, owed, condensed>>
  BY DEF CxCompact, CxReadCompaction
<1>2. Awaiting /\ step = "compacting" /\ requests \in Nat
  BY <1>1 DEF CxCompacting, Awaiting, Asking, InvocationInv
<1>3. AppServerSound /\ TypeOfCodex /\ working = 0 /\ OneCompaction
  BY <1>2 DEF CodexInv, AppServerSound
<1>4. notices \in Seq(Notices)
  BY <1>3 DEF TypeOfCodex
<1>5. CASE CxCompact
  <2>1. requests' = requests => OneCompaction' = OneCompaction
    BY <1>1, <1>5 DEF CxCompact, OneCompaction
  <2>2. notices' = notices
    BY <1>5 DEF CxCompact
  <2>3. CASE asking' = "read" /\ UNCHANGED invocation
    <3>1. UNCHANGED <<step, attempt, requests>>
      BY <2>3 DEF invocation, loop
    <3>2. AppServerSound'
      <4>1. TypeOfCodex'
        BY <1>1, <1>3, <2>2, <2>3 DEF TypeOfCodex
      <4> QED
        BY <1>1, <1>3, <2>2, <3>1, <4>1 DEF AppServerSound, NoticesTold, NoticesUpTo
    <3> QED
      BY <1>1, <1>2, <1>3, <2>1, <2>3, <3>1, <3>2 DEF CodexInv, Awaiting, Deciding
  <2>4. CASE CxGets("error") /\ UNCHANGED controls
    <3>1. AppServerSound'
      <4>1. TypeOfCodex'
        BY <1>1, <1>3, <2>2, <2>4 DEF TypeOfCodex, CxGets
      <4> QED
        BY <1>1, <1>3, <2>2, <2>4, <4>1 DEF AppServerSound, NoticesTold, NoticesUpTo, CxGets
    <3> QED
      BY <1>1, <1>2, <1>3, <2>4, <3>1, CxErrorKeeps DEF Stops
  <2> QED
    BY <1>5, <2>3, <2>4 DEF CxCompact
<1>6. CASE CxReadCompaction /\ notices # <<>> /\ notices' = Tail(notices)
           /\ IF Head(notices).kind = "compacted" THEN CxGets("complete")
              ELSE UNCHANGED <<invocation, asking>>
  <2>1. /\ Head(notices) = notices[1] /\ 1 \in 1..Len(notices)
        /\ notices' \in Seq(Notices) /\ Len(notices') = Len(notices) - 1
        /\ \A i \in 1..Len(notices') : notices'[i] = notices[i + 1] /\ i + 1 \in 1..Len(notices)
    BY <1>4, <1>6, FirstAndRest
  <2>2. Len(notices) \in Nat /\ Len(notices') \in Nat
    BY <1>4, <2>1
  <2>3. requests' = requests /\ asking' \in {"none", "read"}
    BY <1>3, <1>6 DEF CxGets, invocation, TypeOfCodex
  <2>4. AppServerSound'
    <3>1. NoticesTold' /\ NoticesUpTo(requests)'
      BY <1>1, <1>3, <2>1, <2>3 DEF AppServerSound, NoticesTold, NoticesUpTo
    <3>2. TypeOfCodex'
      BY <1>1, <1>3, <2>1, <2>3 DEF TypeOfCodex
    <3> QED
      BY <1>1, <1>3, <2>3, <3>1, <3>2 DEF AppServerSound
  <2>5. CASE Head(notices).kind = "compacted"
    <3>1. condensed = requests /\ \A j \in (1 + 1)..Len(notices) : notices[j].kind # "compacted"
      BY <1>3, <2>1, <2>5 DEF OneCompaction
    <3>2. \A i \in 1..Len(notices') : i + 1 \in (1 + 1)..Len(notices)
      BY <2>1, <2>2
    <3>3. WorkRead'
      BY <1>3, <2>1, <3>1, <3>2 DEF WorkRead, OfWork, OneCompaction
    <3> QED
      BY <1>1, <1>2, <1>3, <1>6, <2>4, <2>5, <3>1, <3>3, CxResultKeeps
  <2>6. CASE Head(notices).kind # "compacted"
    <3>1. UNCHANGED <<step, attempt, requests, asking>>
      BY <1>6, <2>6 DEF invocation, loop
    <3>2. ASSUME NEW i \in 1..Len(notices'), notices'[i].kind = "compacted"
          PROVE  /\ condensed = requests
                 /\ \A j \in (i + 1)..Len(notices') : notices'[j].kind # "compacted"
      <4>1. i + 1 \in 1..Len(notices) /\ notices[i + 1].kind = "compacted"
        BY <2>1, <3>2
      <4>2. condensed = requests /\ \A j \in (i + 1 + 1)..Len(notices) : notices[j].kind # "compacted"
        BY <1>3, <4>1 DEF OneCompaction
      <4>3. \A j \in (i + 1)..Len(notices') :
              j \in 1..Len(notices') /\ j + 1 \in (i + 1 + 1)..Len(notices)
        BY <2>1, <2>2
      <4> QED
        BY <2>1, <4>2, <4>3
    <3>3. OneCompaction'
      BY <1>1, <1>3, <2>1, <3>1, <3>2 DEF OneCompaction
    <3> QED
      BY <1>1, <1>2, <1>3, <2>4, <3>1, <3>3 DEF CodexInv, Awaiting, Deciding
  <2> QED
    BY <2>5, <2>6
<1>7. CASE CxReadCompaction /\ \E result \in {"error", "policy"} :
                                 CxGets(result) /\ UNCHANGED <<controls, notices>>
  <2>1. PICK result \in {"error", "policy"} : CxGets(result) /\ UNCHANGED <<controls, notices>>
    BY <1>7
  <2>2. AppServerSound'
    <3>1. TypeOfCodex'
      BY <1>1, <1>3, <2>1 DEF TypeOfCodex, CxGets
    <3> QED
      BY <1>1, <1>3, <2>1, <3>1 DEF AppServerSound, NoticesTold, NoticesUpTo, CxGets
  <2>3. result \in Stops
    BY DEF Stops
  <2> QED
    BY <1>1, <1>2, <1>3, <2>1, <2>2, <2>3, CxErrorKeeps
<1> QED
  BY <1>5, <1>6, <1>7 DEF CxReadCompaction
-----------------------------------------------------------------------------
(* Codex: the App Server                                                    *)

(* It works on a turn that is read, or was left by an attempt that stopped.  *)
LEMMA TurnAtWork ==
  ASSUME InvocationInv, CodexInv, backend = "codex", step # "ended", working # 0
  PROVE  /\ requests \in Nat /\ AppServerSound /\ TypeOfCodex /\ step = "attempt"
         /\ \/ Awaiting /\ asking = "read" /\ TurnReads /\ working = requests
            \/ ~Awaiting /\ attempt \notin Continuing /\ asking = "none"
<1>1. requests \in Nat /\ AppServerSound /\ TypeOfCodex
  BY DEF InvocationInv, CodexInv, AppServerSound
<1>2. step = "attempt"
  BY DEF InvocationInv, CodexInv, Asking
<1>3. CASE Awaiting
  BY <1>1, <1>2, <1>3 DEF CodexInv, TurnReads, TypeOfCodex
<1>4. CASE ~Awaiting
  BY <1>1, <1>2, <1>4 DEF CodexInv
<1> QED
  BY <1>3, <1>4

LEMMA AppServerStepKeeps ==
  ASSUME InvocationInv, CodexInv, backend = "codex", step # "ended", working # 0,
         UNCHANGED <<invocation, codexRunner, condensed>>, AppServerSound',
         Awaiting => TurnReads'
  PROVE  CodexInv'
<1>1. UNCHANGED <<step, attempt, requests, outcome, asking, turnId, pendingControl, response>>
  BY DEF invocation, loop, codexRunner
<1>2. \/ step = "attempt" /\ Awaiting /\ asking = "read" /\ TurnReads'
      \/ step = "attempt" /\ ~Awaiting /\ attempt \notin Continuing /\ asking = "none"
  BY TurnAtWork
<1>3. {"complete", "incomplete"} \subseteq Continuing /\ "running" \notin Continuing
  BY DEF Continuing, Retried, Control
<1> QED
  BY <1>1, <1>2, <1>3 DEF CodexInv, Awaiting, Deciding, Asking

(* One notification more about the turn at work, or one that it is over; the  *)
(* end of a turn that failed is still to be told.                            *)
LEMMA OneNoticeKeeps ==
  ASSUME InvocationInv, CodexInv, backend = "codex", step # "ended", working # 0,
         UNCHANGED <<invocation, codexRunner, condensed>>,
         NEW n \in Notices, n.id = working, notices' = Append(notices, n),
         n.kind = "answer" => n.what \in CxAnswers, n.kind = "error" => n.what \in CxFaults,
         n.kind = "completed" => n.what \in {"none", "interrupted"} \cup CxFaults,
         working' = IF n.kind \in {"error", "completed"} THEN 0 ELSE working,
         \/ owed' = owed
         \/ /\ working' = 0
            /\ \E what \in CxFaults : owed' = owed \cup {Notice("completed", working, what)}
  PROVE  CodexInv'
<1>1. requests \in Nat /\ AppServerSound /\ TypeOfCodex /\ working \in Nat /\ working <= requests
  BY TurnAtWork DEF AppServerSound, TypeOfCodex
<1>2. UNCHANGED <<requests, asking, turnId, pendingControl, response>> /\ 0 <= requests
  BY <1>1 DEF invocation, codexRunner
<1>3. notices \in Seq(Notices) /\ owed \subseteq Notices
  BY <1>1 DEF TypeOfCodex
<1>4. /\ notices' \in Seq(Notices) /\ Len(notices') = Len(notices) + 1 /\ Len(notices) \in Nat
      /\ \A i \in 1..Len(notices) : notices'[i] = notices[i]
      /\ notices'[Len(notices) + 1] = n
      /\ \A i \in 1..Len(notices') : i \in 1..Len(notices) \/ i = Len(notices) + 1
      /\ \A i \in 1..Len(notices') :
           /\ notices'[i].id <= requests
           /\ notices'[i].kind = "answer" => notices'[i].what \in CxAnswers
           /\ notices'[i].kind = "error" => notices'[i].what \in CxFaults
           /\ notices'[i].kind = "completed" =>
                notices'[i].what \in {"none", "interrupted"} \cup CxFaults
  BY <1>1, <1>3, NoticeAdded
<1>5. /\ owed' \subseteq Notices
      /\ \A o \in owed' : o.kind = "completed" /\ o.what \in CxFaults /\ o.id <= requests
      /\ \A o \in owed' : o \in owed \/ (working' = 0 /\ o.id = working)
  <2>1. \A o \in owed : o.kind = "completed" /\ o.what \in CxFaults /\ o.id <= requests
    BY <1>1 DEF AppServerSound, NoticesUpTo
  <2>2. ASSUME NEW what \in CxFaults
        PROVE  LET o == Notice("completed", working, what)
               IN o \in Notices /\ o.kind = "completed" /\ o.what = what /\ o.id = working
    BY <1>1 DEF Notice, Notices
  <2>3. CASE owed' = owed
    BY <1>3, <2>1, <2>3
  <2>4. CASE working' = 0 /\ \E what \in CxFaults :
                                owed' = owed \cup {Notice("completed", working, what)}
    <3>1. PICK what \in CxFaults : owed' = owed \cup {Notice("completed", working, what)}
      BY <2>4
    <3>2. PICK o : o = Notice("completed", working, what)
      OBVIOUS
    <3>3. o \in Notices /\ o.kind = "completed" /\ o.what \in CxFaults /\ o.id = working
      BY <2>2, <3>2
    <3> QED
      BY <1>1, <1>3, <2>1, <2>4, <3>1, <3>2, <3>3
  <2> QED
    BY <2>3, <2>4
<1>6. AppServerSound'
  <2>1. TypeOfCodex'
    BY <1>1, <1>2, <1>4, <1>5 DEF TypeOfCodex
  <2>2. NoticesTold' /\ NoticesUpTo(requests)'
    BY <1>2, <1>4, <1>5 DEF NoticesTold, NoticesUpTo
  <2> QED
    BY <1>1, <1>2, <1>5, <2>1, <2>2 DEF AppServerSound
<1>7. ASSUME Awaiting PROVE TurnReads'
  <2>1. TurnReads /\ working = requests
    BY <1>7, TurnAtWork
  <2>2. \A i \in 1..Len(notices) : ~Final(i)
    BY <2>1 DEF TurnReads
  <2>3. ASSUME NEW i \in 1..Len(notices'), Final(i)'
        PROVE  working' = 0 /\ \A j \in (i + 1)..Len(notices') : notices'[j].kind \notin OfWork
    <3>1. i = Len(notices) + 1
      BY <1>2, <1>4, <2>2, <2>3 DEF Final
    <3>2. n.kind \in {"error", "completed"}
      BY <1>4, <2>3, <3>1 DEF Final
    <3> QED
      BY <1>4, <3>1, <3>2
  <2>4. turnId' = requests' /\ working' \in {0, requests'}
        /\ (response'.signal \in {"complete", "incomplete"} => response'.of = requests')
    BY <1>2, <2>1 DEF TurnReads
  <2>5. \A i \in 1..Len(notices') : notices'[i].kind = "answer" => notices'[i].id = requests
    BY <1>4, <2>1 DEF TurnReads
  <2>6. \A o \in owed' : o.id = requests => working' = 0
    BY <1>5, <2>1 DEF TurnReads
  <2> QED
    BY <1>2, <2>3, <2>4, <2>5, <2>6 DEF TurnReads
<1> QED
  BY <1>6, <1>7, AppServerStepKeeps

LEMMA AppServerKeeps ==
  ASSUME InvocationInv, CodexInv, backend = "codex", step # "ended", AppServer
  PROVE  CodexInv'
<1>1. working # 0 /\ UNCHANGED <<invocation, codexRunner, condensed>>
  BY DEF AppServer
<1>2. working \in Nat
  BY <1>1, TurnAtWork DEF TypeOfCodex
<1>3. ASSUME NEW kind \in {"answer", "error", "completed", "compacted"},
             NEW what \in {"none", "interrupted"} \cup CxAnswers \cup CxFaults
      PROVE  \A n \in {Notice(kind, working, what), Unnamed(kind, working, what)} :
               n \in Notices /\ n.kind = kind /\ n.id = working /\ n.what = what
  <2>1. Notice(kind, working, what) \in Notices /\ Unnamed(kind, working, what) \in Notices
    BY <1>2, <1>3 DEF Notice, Unnamed, Notices
  <2>2. ASSUME NEW n \in {Notice(kind, working, what), Unnamed(kind, working, what)}
        PROVE  n.kind = kind /\ n.id = working /\ n.what = what
    BY <2>2 DEF Notice, Unnamed
  <2> QED
    BY <2>1, <2>2
<1>4. ASSUME NEW what \in CxAnswers, UNCHANGED <<working, owed>>,
             NEW n \in {Notice("answer", working, what), Unnamed("answer", working, what)},
             notices' = Append(notices, n)
      PROVE  CodexInv'
  <2>1. n \in Notices /\ n.kind = "answer" /\ n.id = working /\ n.what = what
    <3>1. "answer" \in {"answer", "error", "completed", "compacted"}
          /\ what \in {"none", "interrupted"} \cup CxAnswers \cup CxFaults
      BY <1>4
    <3> QED
      BY ONLY <1>3, <1>4, <3>1
  <2>2. working' = (IF n.kind \in {"error", "completed"} THEN 0 ELSE working) /\ owed' = owed
    BY <1>4, <2>1
  <2>3. /\ n.kind = "answer" => n.what \in CxAnswers
        /\ n.kind \notin {"error", "completed"}
    BY <1>4, <2>1
  <2> QED
    BY <1>1, <1>4, <2>1, <2>2, <2>3, OneNoticeKeeps
<1>5. ASSUME NEW kind \in {"compacted", "completed"}, owed' = owed,
             notices' = Append(notices, Notice(kind, working, "none")),
             working' = IF kind = "completed" THEN 0 ELSE working
      PROVE  CodexInv'
  <2>1. PICK n : n = Notice(kind, working, "none")
    OBVIOUS
  <2>2. n \in Notices /\ n.kind = kind /\ n.id = working /\ n.what = "none"
    BY <1>3, <2>1
  <2> QED
    BY <1>1, <1>5, <2>1, <2>2, OneNoticeKeeps
<1>6. ASSUME NEW what \in CxFaults, working' = 0,
             NEW n \in {Notice("error", working, what), Unnamed("error", working, what)},
             notices' = Append(notices, n),
             owed' = owed \cup {Notice("completed", working, what)}
      PROVE  CodexInv'
  <2>1. n \in Notices /\ n.kind = "error" /\ n.id = working /\ n.what = what
    <3>1. "error" \in {"answer", "error", "completed", "compacted"}
          /\ what \in {"none", "interrupted"} \cup CxAnswers \cup CxFaults
      BY <1>6
    <3> QED
      BY ONLY <1>3, <1>6, <3>1
  <2>2. working' = (IF n.kind \in {"error", "completed"} THEN 0 ELSE working)
    BY <1>6, <2>1
  <2>3. /\ n.kind = "error" => n.what \in CxFaults
        /\ n.kind \notin {"answer", "completed"}
    BY <1>6, <2>1
  <2>4. \E why \in CxFaults : owed' = owed \cup {Notice("completed", working, why)}
    BY <1>6
  <2> QED
    BY <1>1, <1>6, <2>1, <2>2, <2>3, <2>4, OneNoticeKeeps
<1> QED
  BY <1>4, <1>5, <1>6 DEF AppServer

(* The end of a turn that failed is told: one more thing that ends that turn, *)
(* whichever the runner waits for.                                          *)
LEMMA AppServerEndsKeeps ==
  ASSUME InvocationInv, CodexInv, AppServerEnds
  PROVE  CodexInv'
<1>1. PICK n \in owed : owed' = owed \ {n} /\ notices' = Append(notices, n)
  BY DEF AppServerEnds
<1>2. /\ UNCHANGED <<step, attempt, requests, outcome, asking, turnId, pendingControl, response,
                      working, condensed>>
      /\ Awaiting' = Awaiting
  BY DEF AppServerEnds, invocation, loop, codexRunner, Awaiting
<1>3. requests \in Nat /\ AppServerSound /\ TypeOfCodex
  BY DEF InvocationInv, CodexInv, AppServerSound
<1>4. /\ n \in Notices /\ n.kind = "completed" /\ n.what \in CxFaults /\ n.id <= requests
      /\ notices \in Seq(Notices)
  BY <1>1, <1>3 DEF TypeOfCodex, AppServerSound, NoticesUpTo
<1>5. /\ notices' \in Seq(Notices) /\ Len(notices') = Len(notices) + 1 /\ Len(notices) \in Nat
      /\ \A i \in 1..Len(notices) : notices'[i] = notices[i]
      /\ notices'[Len(notices) + 1] = n
      /\ \A i \in 1..Len(notices') : i \in 1..Len(notices) \/ i = Len(notices) + 1
      /\ \A i \in 1..Len(notices') :
           /\ notices'[i].id <= requests
           /\ notices'[i].kind = "answer" => notices'[i].what \in CxAnswers
           /\ notices'[i].kind = "error" => notices'[i].what \in CxFaults
           /\ notices'[i].kind = "completed" =>
                notices'[i].what \in {"none", "interrupted"} \cup CxFaults
  BY <1>1, <1>3, <1>4, NoticeAdded
<1>6. AppServerSound'
  <2>1. TypeOfCodex'
    BY <1>1, <1>2, <1>3, <1>5 DEF TypeOfCodex
  <2>2. NoticesTold' /\ NoticesUpTo(requests)'
    BY <1>1, <1>2, <1>3, <1>5 DEF NoticesTold, NoticesUpTo, AppServerSound
  <2> QED
    BY <1>1, <1>2, <1>3, <2>1, <2>2 DEF AppServerSound
<1>7. WorkRead => WorkRead'
  BY <1>4, <1>5 DEF WorkRead, OfWork
<1>8. NoticesUpTo(requests - 1) => NoticesUpTo(requests - 1)'
  <2>1. ASSUME NoticesUpTo(requests - 1)
        PROVE  \A i \in 1..Len(notices') : notices'[i].id <= requests - 1
    BY <1>1, <1>5, <2>1 DEF NoticesUpTo
  <2> QED
    BY <1>1, <1>2, <2>1 DEF NoticesUpTo
<1>9. OneCompaction => OneCompaction'
  <2>1. ASSUME OneCompaction, NEW i \in 1..Len(notices')
        PROVE  /\ notices'[i].kind # "answer"
               /\ notices'[i].kind = "compacted" =>
                    /\ condensed = requests
                    /\ \A j \in (i + 1)..Len(notices') : notices'[j].kind # "compacted"
    <3>1. CASE i = Len(notices) + 1
      BY <1>4, <1>5, <3>1
    <3>2. CASE i \in 1..Len(notices)
      <4>1. ASSUME NEW j \in (i + 1)..Len(notices'), notices'[i].kind = "compacted"
            PROVE  notices'[j].kind # "compacted"
        <5>1. j \in (i + 1)..Len(notices) \/ j = Len(notices) + 1
          BY <1>5, <3>2
        <5> QED
          BY <1>4, <1>5, <2>1, <3>2, <4>1, <5>1 DEF OneCompaction
      <4> QED
        BY <1>5, <2>1, <3>2, <4>1 DEF OneCompaction
    <3> QED
      BY <1>5, <3>1, <3>2
  <2> QED
    BY <1>2, <2>1 DEF OneCompaction
<1>10. TurnReads => TurnReads'
  <2>1. ASSUME TurnReads, NEW i \in 1..Len(notices'), Final(i)'
        PROVE  working = 0 /\ \A j \in (i + 1)..Len(notices') : notices'[j].kind \notin OfWork
    <3>1. CASE i = Len(notices) + 1
      <4>1. n.id = requests
        BY <1>2, <1>5, <2>1, <3>1 DEF Final, TurnReads
      <4> QED
        BY <1>1, <1>5, <2>1, <3>1, <4>1 DEF TurnReads
    <3>2. CASE i \in 1..Len(notices)
      <4>1. Final(i)
        BY <1>2, <1>5, <2>1, <3>2 DEF Final
      <4>2. working = 0 /\ \A j \in (i + 1)..Len(notices) : notices[j].kind \notin OfWork
        BY <2>1, <3>2, <4>1 DEF TurnReads
      <4>3. ASSUME NEW j \in (i + 1)..Len(notices') PROVE notices'[j].kind \notin OfWork
        <5>1. j \in (i + 1)..Len(notices) \/ j = Len(notices) + 1
          BY <1>5, <3>2
        <5> QED
          BY <1>4, <1>5, <3>2, <4>2, <5>1 DEF OfWork
      <4> QED
        BY <4>2, <4>3
    <3> QED
      BY <1>5, <3>1, <3>2
  <2>2. ASSUME TurnReads, NEW i \in 1..Len(notices'), notices'[i].kind = "answer"
        PROVE  notices'[i].id = requests
    BY <1>4, <1>5, <2>2 DEF TurnReads
  <2> QED
    BY <1>1, <1>2, <2>1, <2>2 DEF TurnReads
<1> QED
  BY <1>2, <1>6, <1>7, <1>8, <1>9, <1>10 DEF CodexInv

(* A compaction that was asked for is carried out, and told, once.           *)
LEMMA AppServerCompactsKeeps ==
  ASSUME InvocationInv, CodexInv, backend = "codex", AppServerCompacts
  PROVE  CodexInv'
<1> DEFINE n == Notice("compacted", requests, "none")
<1>1. /\ CxCompacting /\ asking = "read" /\ condensed # requests /\ condensed' = requests
      /\ notices' = Append(notices, n)
      /\ UNCHANGED <<invocation, codexRunner, working, owed>>
  BY DEF AppServerCompacts
<1>2. /\ UNCHANGED <<step, attempt, requests, asking, turnId, pendingControl, response, working>>
      /\ Awaiting /\ step = "compacting" /\ requests \in Nat
  BY <1>1 DEF invocation, loop, codexRunner, CxCompacting, Awaiting, Asking, InvocationInv
<1>3. AppServerSound /\ TypeOfCodex /\ working = 0 /\ OneCompaction
  BY <1>2 DEF CodexInv, AppServerSound
<1>4. notices \in Seq(Notices)
  BY <1>3 DEF TypeOfCodex
<1>5. n \in Notices /\ n.id = requests /\ n.kind = "compacted"
  BY <1>2 DEF Notice, Notices
<1> HIDE DEF n
<1>6. /\ notices' \in Seq(Notices) /\ Len(notices') = Len(notices) + 1 /\ Len(notices) \in Nat
      /\ \A i \in 1..Len(notices) : notices'[i] = notices[i]
      /\ notices'[Len(notices) + 1] = n
      /\ \A i \in 1..Len(notices') : i \in 1..Len(notices) \/ i = Len(notices) + 1
      /\ \A i \in 1..Len(notices') :
           /\ notices'[i].id <= requests
           /\ notices'[i].kind = "answer" => notices'[i].what \in CxAnswers
           /\ notices'[i].kind = "error" => notices'[i].what \in CxFaults
           /\ notices'[i].kind = "completed" =>
                notices'[i].what \in {"none", "interrupted"} \cup CxFaults
  BY <1>1, <1>2, <1>3, <1>4, <1>5, NoticeAdded
<1>7. AppServerSound'
  <2>1. TypeOfCodex'
    BY <1>1, <1>2, <1>3, <1>6 DEF TypeOfCodex
  <2> QED
    BY <1>1, <1>2, <1>3, <1>6, <2>1 DEF AppServerSound, NoticesTold, NoticesUpTo
<1>8. OneCompaction'
  <2>1. \A i \in 1..Len(notices) : notices[i].kind # "compacted"
    BY <1>1, <1>3 DEF OneCompaction
  <2>2. ASSUME NEW i \in 1..Len(notices'), notices'[i].kind = "compacted",
               NEW j \in (i + 1)..Len(notices')
        PROVE  FALSE
    <3>1. i = Len(notices) + 1
      BY <1>6, <2>1, <2>2
    <3> QED
      BY <1>6, <2>2, <3>1
  <2>3. \A i \in 1..Len(notices') : notices'[i].kind # "answer"
    BY <1>1, <1>3, <1>5, <1>6 DEF OneCompaction
  <2> QED
    BY <1>1, <1>2, <2>2, <2>3 DEF OneCompaction
<1> QED
  BY <1>1, <1>2, <1>3, <1>7, <1>8 DEF CodexInv, Awaiting, Deciding

LEMMA CodexInitially == BackendsInit => CodexInv
<1> SUFFICES ASSUME BackendsInit PROVE CodexInv
  OBVIOUS
<1>1. /\ step = "dispatch" /\ attempt = "running" /\ requests = 0
      /\ asking = "none" /\ turnId = 0 /\ pendingControl = "none" /\ response = NoAnswer
      /\ working = 0 /\ owed = {} /\ notices = <<>> /\ condensed = 0
  BY DEF BackendsInit, InvocationInit, CodexInit
<1>2. TypeOfCodex
  <2>1. response \in [signal : CxAnswers, of : Nat] /\ notices \in Seq(Notices)
    BY <1>1 DEF NoAnswer, CxAnswers
  <2> QED
    BY <1>1, <2>1 DEF TypeOfCodex
<1>3. AppServerSound /\ WorkRead
  BY <1>1, <1>2 DEF AppServerSound, NoticesTold, NoticesUpTo, WorkRead
<1> QED
  BY <1>1, <1>3 DEF CodexInv, Awaiting, Deciding, Asking
-----------------------------------------------------------------------------
(* The invocation as a whole                                                *)

(* What the loop needs to know is left alone by the attempt and the servers. *)
LEMMA AttemptKeepsInvocation ==
  ASSUME InvocationInv, FirstPrompt, UNCHANGED <<step, prompt, outcome, queued, requests>>
  PROVE  InvocationInv' /\ FirstPrompt'
  BY DEF InvocationInv, FirstPrompt

(* The runner of OpenCode, and of Codex, only ever reports a result.         *)
LEMMA RunnersReport ==
  ASSUME OpenCodeRunner \/ CodexRunner
  PROVE  UNCHANGED <<backend, step, prompt, outcome, queued, requests>>
<1>1. CASE OpenCodeRunner
  <2> USE DEF Gets, invocation, configuration, loop, user
  <2>1. ASSUME NEW why, NEW unread, OcCancel(why, unread)
        PROVE  UNCHANGED <<backend, step, prompt, outcome, queued, requests>>
    BY <2>1 DEF OcCancel
  <2>2. CASE OcPrepare \/ OcSubmit \/ OcSubmitFails
    BY <2>2 DEF OcPrepare, OcSubmit, OcSubmitFails
  <2>3. CASE OcStops \/ OcFails \/ OcControl
    BY <2>1, <2>3 DEF OcStops, OcFails, OcControl, OcGivesUp
  <2>4. CASE OcRead
    <3>1. PICK e : OcIgnore(e) \/ OcHear(e) \/ OcSettle(e) \/ OcInterrupted(e)
      BY <2>4 DEF OcRead
    <3> QED
      BY <2>1, <3>1 DEF OcIgnore, OcHear, OcSettle, OcInterrupted
  <2> QED
    BY <1>1, <2>2, <2>3, <2>4 DEF OpenCodeRunner
<1>2. CASE CodexRunner
  BY <1>2 DEF CodexRunner, CxStart, CxStops, CxStopKey, CxFails, CxControl, CxSteer, CxRead, CxCompact,
     CxReadCompaction, CxGivesUp, CxGets, invocation, configuration, loop, user
<1> QED
  BY <1>1, <1>2

LEMMA BackendsStep == BackendsInv /\ [BackendsNext]_backends => BackendsInv'
<1> SUFFICES ASSUME BackendsInv, [BackendsNext]_backends PROVE BackendsInv'
  OBVIOUS
<1>1. /\ InvocationInv /\ FirstPrompt
      /\ backend = "opencode" => OpenCodeInv
      /\ backend = "codex" => CodexInv
  BY DEF BackendsInv
<1>2. ASSUME LoopEffect, queued' \in Seq(Control), FirstPrompt', UNCHANGED <<openCode, codex>>
      PROVE  BackendsInv'
  <2>1. InvocationInv' /\ backend' = backend
    BY <1>1, <1>2, InvocationKept DEF LoopEffect
  <2>2. backend = "opencode" => OpenCodeInv'
    BY <1>1, <1>2, LoopKeepsOpenCode
  <2>3. backend = "codex" => CodexInv'
    BY <1>1, <1>2, LoopKeepsCodex
  <2> QED
    BY <1>2, <2>1, <2>2, <2>3 DEF BackendsInv
<1>3. CASE LoopStep \/ UserStep \/ ClockStep
  <2>1. (Loop \/ BackoffControl \/ Tick) /\ UNCHANGED <<openCode, codex>>
    BY <1>3 DEF LoopStep, UserStep, ClockStep
  <2> QED
    BY <1>1, <1>2, <2>1, LoopEffects, QueueKept, FirstPromptKept
<1>4. CASE ClaudeStep
  <2>1. backend = "claude" /\ UNCHANGED <<backend, step, prompt, outcome, queued, requests>>
    BY <1>4 DEF ClaudeStep, ClaudeNext, ClaudeAnswers, ClaudeStopped, ClaudeCompacts, configuration, user
  <2> QED
    BY <1>1, <2>1, AttemptKeepsInvocation DEF BackendsInv
<1>5. CASE OpenCodeStep
  <2>1. OpenCodeRunner /\ backend = "opencode" /\ UNCHANGED <<backend, step, prompt, outcome, queued, requests>>
    BY <1>5, RunnersReport DEF OpenCodeStep, OpenCodeRunner, OcPrepare, OcSubmit, OcSubmitFails, OcStops,
       OcFails, OcControl, OcRead, OcAtWork
  <2> QED
    BY <1>1, <2>1, AttemptKeepsInvocation, RunnerKeepsOpenCode DEF BackendsInv
<1>6. CASE CodexStep
  <2>1. CodexRunner /\ backend = "codex" /\ UNCHANGED <<backend, step, prompt, outcome, queued, requests>>
    BY <1>6, RunnersReport DEF CodexStep, CodexRunner, CxStart, CxStops, CxStopKey, CxFails, CxControl,
       CxSteer, CxRead, CxCompact, CxReadCompaction, CxAtWork, CxCompacting
  <2>2. CodexInv'
    BY <1>1, <2>1, StartKeeps, CxUserKeeps, CxReadKeeps, CxCompactingKeeps DEF CodexRunner
  <2> QED
    BY <1>1, <2>1, <2>2, AttemptKeepsInvocation DEF BackendsInv
<1>7. CASE OpenCodeServerStep
  <2>1. step # "ended" /\ OpenCodeServer /\ UNCHANGED codex /\ UNCHANGED invocation
    BY <1>7 DEF OpenCodeServerStep, OpenCodeServer, ServerDelivers, ServerAnswers, ServerEnds
  <2>2. UNCHANGED <<backend, step, prompt, attempt, outcome, queued, requests>>
    BY <2>1 DEF invocation, configuration, loop, user
  <2>3. backend = "opencode" => OpenCodeInv'
    BY <1>1, <2>1, DeliveryKeeps, AnswerKeeps, EndKeeps DEF OpenCodeServer
  <2>4. InvocationInv' /\ FirstPrompt' /\ LoopEffect
    BY <1>1, <2>2, AttemptKeepsInvocation DEF LoopEffect, Rests
  <2>5. backend = "codex" => CodexInv'
    BY <1>1, <2>1, <2>4, LoopKeepsCodex
  <2> QED
    BY <2>2, <2>3, <2>4, <2>5 DEF BackendsInv
<1>8. CASE AppServerStep
  <2>1. /\ step # "ended" /\ (AppServer \/ AppServerEnds \/ AppServerCompacts)
        /\ UNCHANGED openCode /\ UNCHANGED invocation
    BY <1>8 DEF AppServerStep, AppServer, AppServerEnds, AppServerCompacts
  <2>2. UNCHANGED <<backend, step, prompt, attempt, outcome, queued, requests>>
    BY <2>1 DEF invocation, configuration, loop, user
  <2>3. backend = "codex" => CodexInv'
    BY <1>1, <2>1, AppServerKeeps, AppServerEndsKeeps, AppServerCompactsKeeps
  <2>4. InvocationInv' /\ FirstPrompt' /\ LoopEffect
    BY <1>1, <2>2, AttemptKeepsInvocation DEF LoopEffect, Rests
  <2>5. backend = "opencode" => OpenCodeInv'
    BY <1>1, <2>1, <2>4, LoopKeepsOpenCode
  <2> QED
    BY <2>2, <2>3, <2>4, <2>5 DEF BackendsInv
<1>9. CASE UNCHANGED backends
  <2>1. UNCHANGED <<invocation, openCode, codex>>
    BY <1>9 DEF backends
  <2>2. UNCHANGED <<backend, step, prompt, attempt, outcome, queued, requests>>
    BY <2>1 DEF invocation, configuration, loop, user
  <2>3. LoopEffect /\ queued' \in Seq(Control) /\ FirstPrompt'
    BY <1>1, <2>2 DEF LoopEffect, Rests, InvocationInv, FirstPrompt
  <2> QED
    BY <1>2, <2>1, <2>3
<1> QED
  BY <1>3, <1>4, <1>5, <1>6, <1>7, <1>8, <1>9 DEF BackendsNext

LEMMA BackendsInductive == BackendsSpec => []BackendsInv
<1>1. BackendsInit => BackendsInv
  BY OpenCodeInitially, CodexInitially DEF BackendsInv
<1> QED
  BY <1>1, BackendsStep, PTL DEF BackendsSpec

(* Nothing is retried, compacted or escalated beside an OpenCode turn that   *)
(* may still edit the repository, whatever the session's events and the      *)
(* user's keys come to, in whatever order (opencode.rs, cancel_failed_turn). *)
THEOREM SessionRestsHolds == BackendsSpec => []SessionRests
<1>1. BackendsInv => SessionRests
  BY DEF BackendsInv, OpenCodeInv, SessionRests, Idle, Deciding
<1> QED
  BY <1>1, BackendsInductive, PTL

(* No late event of an earlier input, turn or compaction is taken for the    *)
(* answer to the present one (opencode.rs, the events of a turn; codex.rs,   *)
(* read_turn), and Codex goes on only once its turn is over.                 *)
THEOREM AnswersMatchHolds == BackendsSpec => []AnswersMatch
<1>1. BackendsInv => AnswersMatch
  <2> SUFFICES ASSUME BackendsInv PROVE AnswersMatch
    OBVIOUS
  <2>1. AnswerOfInput
    BY DEF BackendsInv, OpenCodeInv, AnswerOfInput
  <2>2. AnswerOfTurn
    BY DEF BackendsInv, CodexInv, AnswerOfTurn, Continuing
  <2> QED
    BY <2>1, <2>2 DEF AnswersMatch
<1> QED
  BY <1>1, BackendsInductive, PTL
-----------------------------------------------------------------------------
(* The types of an invocation                                               *)

(* A power of two counts the subsets of a set.                               *)
LEMMA PowerOfTwo ==
  ASSUME NEW n \in Nat
  PROVE  2 ^ n \in Nat
<1>1. IsFiniteSet(1..n) /\ Cardinality(1..n) = n
  BY FS_Interval
<1>2. IsFiniteSet(SUBSET (1..n)) /\ Cardinality(SUBSET (1..n)) = 2 ^ Cardinality(1..n)
  BY <1>1, FS_SUBSET
<1>3. Cardinality(SUBSET (1..n)) \in Nat
  BY <1>2, FS_CardinalityType
<1> QED
  BY <1>1, <1>2, <1>3

(* The delay before a retry, of which there is at least one.                 *)
LEMMA DelayType ==
  ASSUME NEW n \in Nat \ {0}
  PROVE  Delay(n) \in Nat
<1>1. 2 ^ (n - 1) \in Nat
  BY PowerOfTwo
<1> QED
  BY <1>1, InvocationAssumption DEF Delay

LEMMA LoopTypes ==
  ASSUME TypeOfInvocation, Loop \/ BackoffControl \/ Tick
  PROVE  TypeOfInvocation'
<1> USE InvocationAssumption DEF TypeOfInvocation, configuration, counters, clock, user, loop
<1>1. CASE Dispatch
  BY <1>1 DEF Dispatch, End, Stops
<1>2. CASE ReviewOnce
  <2>1. outcome' \in {"complete", "incomplete"} \cup Stops
    BY <1>2 DEF ReviewOnce, End, Stops
  <2> QED
    BY <1>2, <2>1 DEF ReviewOnce, End
<1>3. CASE Returned
  BY <1>3 DEF Returned, End
<1>4. CASE ContinueIncomplete
  BY <1>4 DEF ContinueIncomplete, Again, End, Stops, Retried
<1>5. CASE ContinueMissing
  BY <1>5 DEF ContinueMissing, End, Stops, Retried
<1>6. CASE ContinueLimit
  BY <1>6 DEF ContinueLimit, End, Stops, Retried
<1>7. CASE ContinueUserTurn
  BY <1>7 DEF ContinueUserTurn, Again, End, Stops, Retried
<1>8. CASE SleepAndRetry
  <2>1. CASE retries < MaxProviderRetries
    <3>1. retries' = retries + 1 /\ retries' \in 0..MaxProviderRetries /\ Delay(retries') \in Nat
      BY <1>8, <2>1, DelayType DEF SleepAndRetry
    <3> QED
      BY <1>8, <2>1, <3>1 DEF SleepAndRetry, Again, End, Stops, Retried
  <2> QED
    BY <1>8, <2>1 DEF SleepAndRetry, End, Stops
<1>9. CASE StartBackoff
  <2>1. CASE retries < MaxProviderRetries
    <3>1. retries' = retries + 1 /\ retries' \in 0..MaxProviderRetries /\ Delay(retries') \in Nat
      BY <1>9, <2>1, DelayType DEF StartBackoff
    <3>a. \A asked \in 0..StageTicks : Longer(Delay(retries'), asked) \in Nat
      BY <3>1, InvocationAssumption DEF Longer
    <3> QED
      BY <1>9, <2>1, <3>1, <3>a DEF StartBackoff, End, Stops
  <2> QED
    BY <1>9, <2>1 DEF StartBackoff, End, Stops
<1>10. CASE Backoff
  BY <1>10 DEF Backoff, End, Expired, Stops, Retried
<1>11. CASE ApplyQueued
  <2>1. CASE queued = <<>>
    BY <1>11, <2>1 DEF ApplyQueued
  <2>2. CASE queued # <<>>
    <3>0. queued \in Seq(Control) /\ queued' = Tail(queued)
      BY <1>11, <2>2 DEF ApplyQueued
    <3>1. queued' \in Seq(Control) /\ Head(queued) \in {"compact", "context", "inject"}
      BY ONLY <3>0, <2>2 DEF Control
    <3>2. \/ step' \in {"compact", step} /\ outcome' = outcome
          \/ step' = "ended" /\ outcome' = "error"
      BY <1>11, <2>2, <3>1 DEF ApplyQueued, End
    <3>3. UNCHANGED <<configuration, counters, clock, prompt, attempt, wait, controls, requests>>
      BY <1>11 DEF ApplyQueued
    <3> QED
      BY <3>1, <3>2, <3>3 DEF Stops
  <2> QED
    BY <2>1, <2>2
<1>12. CASE ControlTaken
  BY <1>12 DEF ControlTaken, End, Stops
<1>13. CASE StartCompaction
  BY <1>13 DEF StartCompaction, End, Stops
<1>14. CASE Compacted
  BY <1>14 DEF Compacted, End, Stops
<1>15. CASE BackoffControl
  BY <1>15 DEF BackoffControl, End, Stops
<1>16. CASE Tick
  BY <1>16 DEF Tick
<1> QED
  BY <1>1, <1>2, <1>3, <1>4, <1>5, <1>6, <1>7, <1>8, <1>9, <1>10, <1>11, <1>12, <1>13, <1>14, <1>15,
     <1>16 DEF Loop

(* What a backend may report.                                               *)
Reports ==
  /\ attempt' \in Result \cup {"running"} /\ controls' \in 0..MaxControls
  /\ UNCHANGED <<configuration, counters, clock, step, prompt, outcome, wait, queued, requests>>

LEMMA ReportTypes ==
  ASSUME TypeOfInvocation, Reports
  PROVE  TypeOfInvocation'
  BY DEF TypeOfInvocation, Reports, configuration, counters, clock

LEMMA UserReports ==
  ASSUME TypeOfInvocation,
         \/ UNCHANGED controls
         \/ controls < MaxControls /\ controls' = controls + 1
  PROVE  controls' \in 0..MaxControls
  BY InvocationAssumption DEF TypeOfInvocation

LEMMA ClaudeReports ==
  ASSUME TypeOfInvocation, ClaudeNext
  PROVE  Reports
  BY DEF TypeOfInvocation, Reports, Result, Retried, Stops, Control, ClaudeNext, ClaudeAnswers,
         ClaudeStopped, ClaudeCompacts, user

(* What a turn settles to is a result: a fault was told with the failure.   *)
LEMMA MeaningType ==
  ASSUME OpenCodeInv, events # <<>>
  PROVE  Meaning(Heard(Head(events))) \in Result
<1> DEFINE e == Head(events)
<1>1. e \in OpenCodeEvent /\ (e.kind \in {"step_failed", "failed"} => e.what \in Faults)
  <2>1. events \in Seq(OpenCodeEvent)
    BY DEF OpenCodeInv, ServerSound, TypeOfOpenCode, OpenCodeEvent
  <2>2. 1 \in 1..Len(events) /\ e = events[1]
    BY <2>1
  <2> HIDE DEF e
  <2> QED
    BY <2>1, <2>2 DEF OpenCodeInv, ServerSound, EventsTold, Told
<1>2. output \in [signal : {"missing", "complete", "incomplete"}, limit : BOOLEAN,
                  fault : {"none"} \cup Faults, of : Nat]
  BY DEF OpenCodeInv, ServerSound, TypeOfOpenCode
<1> HIDE DEF e
<1>3. /\ Heard(e).signal \in {"missing", "complete", "incomplete"}
      /\ Heard(e).fault \in {"none"} \cup Faults
  BY <1>1, <1>2 DEF Heard, OpenCodeEvent
<1>4. Meaning(Heard(e)) \in Result
  BY <1>3 DEF Meaning, Result, Retried, Stops, Faults
<1> QED
  BY <1>4 DEF e

LEMMA OpenCodeReports ==
  ASSUME TypeOfInvocation, OpenCodeInv, OpenCodeRunner
  PROVE  Reports
<1>1. ASSUME UNCHANGED invocation
      PROVE  Reports
  BY <1>1 DEF Reports, TypeOfInvocation, invocation, loop, user
<1>2. ASSUME NEW result \in Result, Gets(result), controls' \in 0..MaxControls
      PROVE  Reports
  BY <1>2 DEF Reports, Gets
<1>3. {"error", "policy", "escalate", "pause"} \cup Control \subseteq Result
  BY DEF Result, Stops
<1>4. ASSUME NEW result \in Result, NEW unread, OcCancel(result, unread), controls' \in 0..MaxControls
      PROVE  Reports
  <2>1. Gets(result) \/ Gets("error")
    BY <1>4 DEF OcCancel
  <2> QED
    BY <1>2, <1>3, <1>4, <2>1
<1>5. CASE OcPrepare \/ OcSubmit \/ OcSubmitFails
  BY <1>1, <1>2, <1>3, <1>5, UserReports DEF OcPrepare, OcSubmit, OcSubmitFails
<1>6. CASE OcStops \/ OcFails \/ OcControl
  BY <1>3, <1>4, <1>6, UserReports DEF OcStops, OcFails, OcControl, OcGivesUp
<1>7. CASE OcRead
  <2> DEFINE e == Head(events)
  <2>1. events # <<>> /\ (OcIgnore(e) \/ OcHear(e) \/ OcSettle(e) \/ OcInterrupted(e))
    BY <1>7 DEF OcRead
  <2>2. Meaning(Heard(e)) \in Result
    BY <2>1, MeaningType
  <2> HIDE DEF e
  <2>3. CASE OcIgnore(e) \/ OcHear(e)
    BY <1>1, <2>3 DEF OcIgnore, OcHear
  <2>4. CASE OcSettle(e)
    BY <1>2, <1>4, <2>2, <2>4, UserReports DEF OcSettle
  <2>5. CASE OcInterrupted(e)
    BY <1>3, <1>4, <2>5, UserReports DEF OcInterrupted
  <2> QED
    BY <2>1, <2>3, <2>4, <2>5
<1> QED
  BY <1>5, <1>6, <1>7 DEF OpenCodeRunner

LEMMA CodexReports ==
  ASSUME TypeOfInvocation, CodexInv, CodexRunner
  PROVE  Reports
<1>1. ASSUME UNCHANGED invocation
      PROVE  Reports
  BY <1>1 DEF Reports, TypeOfInvocation, invocation, loop, user
<1>2. ASSUME NEW result \in Result, CxGets(result), controls' \in 0..MaxControls
      PROVE  Reports
  BY <1>2 DEF Reports, CxGets
<1>3. {"complete", "error", "policy", "escalate", "pause"} \cup CxFaults \cup CxAnswers \cup Control
        \subseteq Result
  BY DEF Result, Stops, Retried, CxFaults, CxAnswers
<1>4. attempt \in Result \cup {"running"}
  BY DEF TypeOfInvocation
<1>5. CASE CxStart
  BY <1>1, <1>2, <1>3, <1>5, UserReports DEF CxStart
<1>6. CASE CxStops \/ CxStopKey \/ CxFails
  BY <1>2, <1>3, <1>6, UserReports DEF CxStops, CxStopKey, CxFails, CxGivesUp
<1>7. CASE CxControl \/ CxSteer
  <2>1. controls' \in 0..MaxControls
    BY <1>7, UserReports DEF CxControl, CxSteer
  <2>2. attempt' \in {attempt, "error"}
        /\ UNCHANGED <<configuration, counters, clock, step, prompt, outcome, wait, queued, requests>>
    BY <1>7 DEF CxControl, CxSteer
  <2> QED
    BY <1>3, <1>4, <2>1, <2>2 DEF Reports
<1>8. CASE CxRead
  <2> DEFINE n == Head(notices)
  <2>1. notices # <<>>
    BY <1>8 DEF CxRead
  <2>5. \/ UNCHANGED invocation
        \/ n.kind = "error" /\ CxGets(n.what) /\ UNCHANGED controls
        \/ CxGets(CxCompleted(n)) /\ UNCHANGED controls
    BY <1>8 DEF CxRead
  <2>2. /\ n.kind = "error" => n.what \in CxFaults
    <3>1. notices \in Seq(Notices)
      BY DEF CodexInv, AppServerSound, TypeOfCodex
    <3>2. 1 \in 1..Len(notices) /\ n = notices[1]
      BY <2>1, <3>1
    <3> HIDE DEF n
    <3> QED
      BY <3>2 DEF CodexInv, AppServerSound, NoticesTold
  <2>3. /\ pendingControl \in {"none", "compact", "context"}
        /\ response.signal \in CxAnswers
    BY DEF CodexInv, AppServerSound, TypeOfCodex
  <2> HIDE DEF n
  <2>4. CxCompleted(n) \in Result
    BY <1>3, <2>3 DEF CxCompleted, Control
  <2> QED
    BY <1>1, <1>2, <1>3, <2>2, <2>4, <2>5, UserReports
<1>9. CASE CxCompact \/ CxReadCompaction
  BY <1>1, <1>2, <1>3, <1>9, UserReports DEF CxCompact, CxReadCompaction
<1> QED
  BY <1>5, <1>6, <1>7, <1>8, <1>9 DEF CodexRunner

(* The server of another backend is at rest, and nothing talks to it.        *)
OthersRest ==
  /\ backend # "opencode" => TypeOfOpenCode /\ Idle
  /\ backend # "codex" => TypeOfCodex /\ working = 0 /\ owed = {}

LEMMA OthersKept ==
  ASSUME InvocationInv, OthersRest, [BackendsNext]_backends
  PROVE  OthersRest'
<1>1. backend' = backend
  <2>1. CASE LoopStep \/ UserStep \/ ClockStep
    BY <2>1, LoopEffects DEF LoopStep, UserStep, ClockStep, LoopEffect
  <2>2. CASE ClaudeStep
    BY <2>2 DEF ClaudeStep, ClaudeNext, ClaudeAnswers, ClaudeStopped, ClaudeCompacts, configuration
  <2>3. CASE OpenCodeStep \/ CodexStep
    BY <2>3, RunnersReport DEF OpenCodeStep, CodexStep
  <2>4. CASE OpenCodeServerStep
    BY <2>4 DEF OpenCodeServerStep, OpenCodeServer, ServerDelivers, ServerAnswers, ServerEnds,
       invocation, configuration
  <2>5. CASE AppServerStep
    BY <2>5 DEF AppServerStep, AppServer, AppServerEnds, AppServerCompacts, invocation,
       configuration
  <2>6. CASE UNCHANGED backends
    BY <2>6 DEF backends, invocation, configuration
  <2> QED
    BY <2>1, <2>2, <2>3, <2>4, <2>5, <2>6 DEF BackendsNext
<1>2. ASSUME backend # "opencode" PROVE UNCHANGED openCode
  <2>1. ~OpenCodeStep
    BY <1>2 DEF OpenCodeStep, OpenCodeRunner, OcPrepare, OcSubmit, OcSubmitFails, OcStops, OcFails,
       OcControl, OcRead, OcAtWork
  <2>2. ~OpenCodeServerStep
    BY <1>2 DEF OthersRest, Idle, OpenCodeServerStep, OpenCodeServer, ServerDelivers,
       ServerAnswers, ServerEnds
  <2> QED
    BY <2>1, <2>2 DEF BackendsNext, backends, LoopStep, UserStep, ClockStep, ClaudeStep, CodexStep,
       AppServerStep
<1>3. ASSUME backend # "codex" PROVE UNCHANGED codex
  <2>1. ~CodexStep
    BY <1>3 DEF CodexStep, CodexRunner, CxStart, CxStops, CxStopKey, CxFails, CxControl, CxSteer,
       CxRead, CxCompact, CxReadCompaction, CxAtWork, CxCompacting
  <2>2. ~AppServerStep
    BY <1>3 DEF OthersRest, AppServerStep, AppServer, AppServerEnds, AppServerCompacts, CxCompacting
  <2> QED
    BY <2>1, <2>2 DEF BackendsNext, backends, LoopStep, UserStep, ClockStep, ClaudeStep,
       OpenCodeStep, OpenCodeServerStep
<1>4. backend # "opencode" => (TypeOfOpenCode /\ Idle)'
  BY <1>2 DEF OthersRest, TypeOfOpenCode, Idle, openCode, ocRunner, ocServer
<1>5. backend # "codex" => (TypeOfCodex /\ working = 0 /\ owed = {})'
  BY <1>3 DEF OthersRest, TypeOfCodex, codex, codexRunner
<1> QED
  BY <1>1, <1>4, <1>5 DEF OthersRest

TypesInv == BackendsInv /\ TypeOfInvocation /\ OthersRest

LEMMA TypesInvInitially == BackendsInit => TypesInv
<1> SUFFICES ASSUME BackendsInit PROVE TypesInv
  OBVIOUS
<1>1. InvocationInv /\ FirstPrompt /\ OpenCodeInv /\ CodexInv
  BY OpenCodeInitially, CodexInitially
<1>2. /\ step = "dispatch" /\ attempt = "running" /\ exec = "idle" /\ inbox = <<>> /\ working = 0
      /\ owed = {}
  BY DEF BackendsInit, InvocationInit, OpenCodeInit, CodexInit
<1>3. OthersRest
  BY <1>1, <1>2 DEF OthersRest, Idle, OpenCodeInv, ServerSound, CodexInv, AppServerSound
<1>4. TypeOfInvocation
  <2>1. timed \in BOOLEAN
    BY Zenon DEF BackendsInit, InvocationInit
  <2>2. /\ backend \in {"claude", "codex", "opencode"}
        /\ protocol \in {"Preflight", "Ready", "Worker", "Verify"}
        /\ step = "dispatch" /\ outputs = 0 /\ incompletes = 0 /\ retries = 0
        /\ left = StageTicks /\ seen = StageTicks /\ requests = 0 /\ prompt = "stage"
        /\ attempt = "running" /\ wait = 0 /\ queued = <<>> /\ controls = 0 /\ outcome = "none"
    BY DEF BackendsInit, InvocationInit
  <2>3. queued \in Seq(Control)
    BY <2>2
  <2> QED
    BY <2>1, <2>2, <2>3, InvocationAssumption DEF TypeOfInvocation
<1> QED
  BY <1>1, <1>3, <1>4 DEF TypesInv, BackendsInv

LEMMA TypesInvStep == TypesInv /\ [BackendsNext]_backends => TypesInv'
<1> SUFFICES ASSUME TypesInv, [BackendsNext]_backends PROVE TypesInv'
  OBVIOUS
<1>1. BackendsInv' /\ OthersRest'
  BY BackendsStep, OthersKept DEF TypesInv, BackendsInv
<1>2. TypeOfInvocation
  BY DEF TypesInv
<1> SUFFICES TypeOfInvocation'
  BY <1>1 DEF TypesInv
<1>3. CASE LoopStep \/ UserStep \/ ClockStep
  BY <1>2, <1>3, LoopTypes DEF LoopStep, UserStep, ClockStep
<1>4. CASE ClaudeStep
  BY <1>2, <1>4, ClaudeReports, ReportTypes DEF ClaudeStep
<1>5. CASE OpenCodeStep
  <2>1. OpenCodeRunner /\ OpenCodeInv
    BY <1>5 DEF OpenCodeStep, OpenCodeRunner, OcPrepare, OcSubmit, OcSubmitFails, OcStops, OcFails,
       OcControl, OcRead, OcAtWork, TypesInv, BackendsInv
  <2> QED
    BY <1>2, <2>1, OpenCodeReports, ReportTypes
<1>6. CASE CodexStep
  <2>1. CodexRunner /\ CodexInv
    BY <1>6 DEF CodexStep, CodexRunner, CxStart, CxStops, CxStopKey, CxFails, CxControl, CxSteer,
       CxRead, CxCompact, CxReadCompaction, CxAtWork, CxCompacting, TypesInv, BackendsInv
  <2> QED
    BY <1>2, <2>1, CodexReports, ReportTypes
<1>7. ASSUME UNCHANGED invocation PROVE TypeOfInvocation'
  BY <1>2, <1>7 DEF TypeOfInvocation, invocation, configuration, counters, clock, loop, user
<1>8. CASE OpenCodeServerStep \/ AppServerStep
  BY <1>7, <1>8 DEF OpenCodeServerStep, OpenCodeServer, ServerDelivers, ServerAnswers, ServerEnds,
     AppServerStep, AppServer, AppServerEnds, AppServerCompacts
<1>9. CASE UNCHANGED backends
  BY <1>7, <1>9 DEF backends
<1> QED
  BY <1>3, <1>4, <1>5, <1>6, <1>8, <1>9 DEF BackendsNext

(* Whatever the backend, a server has the types it should, or is at rest.    *)
LEMMA TypesInvTypes == TypesInv => BackendsTypeOK
  BY DEF TypesInv, OthersRest, BackendsInv, OpenCodeInv, ServerSound, CodexInv, AppServerSound,
         BackendsTypeOK

(* An invocation, its servers and its clock have their types, for any limits *)
(* and any number of requests: no result of a turn is unknown to the loop,   *)
(* and no delay of a retry takes the clock below zero.                      *)
THEOREM BackendsTypes == BackendsSpec => []BackendsTypeOK
  BY TypesInvInitially, TypesInvStep, TypesInvTypes, PTL DEF BackendsSpec
-----------------------------------------------------------------------------
(* A campaign, an invocation in it and the keys, together                    *)

(* A behaviour of the composed system is one of each of its parts, at work or *)
(* at rest; the fairness of the parts is left aside.                        *)
THEOREM CampaignComposes ==
  Spec => /\ CampaignInit /\ [][CampaignNext]_campaign
          /\ BackendsInit /\ [][BackendsNext]_backends
          /\ DashboardSpec
<1>1. Init => CampaignInit /\ BackendsInit /\ DashboardInit
  BY DEF Init
<1>2. [MCNext]_<<subject, campaign, backends, dashboard>>
        => [CampaignNext]_campaign /\ [BackendsNext]_backends /\ [DashboardNext]_dashboard
  BY DEF MCNext
<1> QED
  BY <1>1, <1>2, PTL DEF Spec, DashboardSpec

(* The type invariant of the three together.                                 *)
THEOREM ComposedTypes == Spec => []MCTypeOK
<1>1. CampaignInv => CampaignTypeOK
  BY DEF CampaignInv, Sorted
<1>2. KeysInv => DashboardTypeOK
  BY DEF KeysInv
<1>3. CampaignTypeOK /\ BackendsTypeOK /\ DashboardTypeOK => MCTypeOK
  BY DEF MCTypeOK
<1> QED
  BY <1>1, <1>2, <1>3, CampaignComposes, InitCampaignInv, NextCampaignInv,
     TypesInvInitially, TypesInvStep, TypesInvTypes, KeysAlways, PTL
=============================================================================
