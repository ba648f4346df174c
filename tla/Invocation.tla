----------------------------- MODULE Invocation -----------------------------
(***************************************************************************)
(* One invocation of an agent backend for one stage: the retry loops of    *)
(* the Claude, Codex and OpenCode backends (src/src/claude.rs, codex.rs,   *)
(* opencode.rs and what backend.rs shares).  The loop admits a request at  *)
(* the operating policy, has it carried out as an attempt, and retries,    *)
(* continues, compacts or ends by the result of the attempt.               *)
(*                                                                         *)
(* How an attempt comes to its result is left to OpenCodeTurn, CodexTurn   *)
(* and, for Claude, StreamSession; here a Claude attempt has any result.   *)
(* Of a prompt only its reason is kept.  Time is counted in ticks, one of  *)
(* which is the base delay of a retry.                                     *)
(***************************************************************************)
EXTENDS Naturals, Sequences

CONSTANTS
  MaxOutputRetries,    \* max_output_retries
  MaxProviderRetries,  \* max_provider_retries
  MaxDelay,            \* PROVIDER_RETRY_MAX_DELAY, in ticks
  StageTicks,          \* the stage timeout, in ticks
  MaxRequests,         \* requests the operating policy admits
  MaxControls          \* bound: live controls of the user

ASSUME InvocationAssumption ==
  /\ MaxOutputRetries \in Nat /\ MaxProviderRetries \in Nat /\ MaxDelay \in Nat \ {0}
  /\ StageTicks \in Nat \ {0} /\ MaxRequests \in Nat \ {0} /\ MaxControls \in Nat

VARIABLES
  backend,     \* the backend of the connection
  protocol,    \* StageProtocol; "Ready" also stands for the planning ones
  timed,       \* the stage has a deadline
  step,        \* where the invocation is
  outputs,     \* output_recoveries
  incompletes, \* incomplete_stage_recoveries
  retries,     \* provider_retries
  left,        \* ticks to the deadline
  seen,        \* `remaining` of Claude and Codex: the ticks left before the attempt
  requests,    \* requests admitted; a request is known by its number
  prompt,      \* what the next request asks for
  attempt,     \* the result of the attempt; "running"
  wait,        \* ticks of the OpenCode backoff that are left
  queued,      \* pending_controls of that backoff
  controls,    \* live controls so far
  outcome      \* what the caller gets; "none": nothing yet

configuration == <<backend, protocol, timed>>
counters == <<outputs, incompletes, retries>>
clock == <<left, seen>>
loop == <<step, prompt, attempt, outcome>>
user == <<wait, queued, controls>>
invocation == <<configuration, counters, clock, loop, user, requests>>

MaxIncompleteRecoveries == 1  \* MAX_INCOMPLETE_STAGE_RECOVERIES

Stops == {"error", "pause", "escalate", "policy"}
Retried == {"incomplete", "missing", "limit", "transient", "userTurn"}
Control == {"compact", "context", "inject"}
Result == {"complete"} \cup Retried \cup Stops \cup Control

TypeOfInvocation ==
  /\ backend \in {"claude", "codex", "opencode"}
  /\ protocol \in {"Preflight", "Ready", "Worker", "Verify"}
  /\ timed \in BOOLEAN
  /\ step \in {"dispatch", "attempt", "compact", "compacting", "backoff", "resume", "ended"}
  /\ outputs \in 0..MaxOutputRetries /\ retries \in 0..MaxProviderRetries
  /\ incompletes \in Nat /\ requests \in Nat
  /\ left \in 0..StageTicks /\ seen \in 0..StageTicks
  /\ prompt \in {"stage"} \cup Retried \cup Control
  /\ attempt \in Result \cup {"running"}
  /\ wait \in Nat /\ queued \in Seq(Control) /\ controls \in 0..MaxControls
  /\ outcome \in {"none", "complete", "incomplete"} \cup Stops

(* The contract review of Preflight runs without a stage deadline of its     *)
(* own; Apply and Repair have none either (stage_deadline).  A run always has *)
(* an operating policy, which may stop whatever is at work.                  *)
InvocationInit ==
  /\ backend \in {"claude", "codex", "opencode"}
  /\ protocol \in {"Preflight", "Ready", "Worker", "Verify"}
  /\ timed \in (IF protocol = "Preflight" THEN {FALSE} ELSE BOOLEAN)
  /\ step = "dispatch" /\ outputs = 0 /\ incompletes = 0 /\ retries = 0
  /\ left = StageTicks /\ seen = StageTicks /\ requests = 0 /\ prompt = "stage"
  /\ attempt = "running" /\ wait = 0 /\ queued = <<>> /\ controls = 0
  /\ outcome = "none"

End(why) == step' = "ended" /\ outcome' = why

Expired == timed /\ left = 0
Refused == requests >= MaxRequests
-----------------------------------------------------------------------------
(* The deadline comes closer while the backend works or waits.              *)
Tick ==
  /\ step \in {"attempt", "compacting"} /\ attempt = "running"
  /\ timed /\ left > 0
  /\ left' = left - 1
  /\ UNCHANGED <<configuration, counters, seen, loop, user, requests>>

(* The top of the loop.  Only OpenCode looks at the deadline here; Claude    *)
(* and Codex start a request that their own timeout ends at once.            *)
Dispatch ==
  /\ step = "dispatch"
  /\ \/ /\ backend = "opencode" /\ Expired
        /\ End("escalate") /\ UNCHANGED <<requests, seen, attempt>>
     \/ /\ ~(backend = "opencode" /\ Expired) /\ Refused
        /\ End("policy") /\ UNCHANGED <<requests, seen, attempt>>
     \/ /\ ~(backend = "opencode" /\ Expired) /\ ~Refused
        /\ step' = "attempt" /\ attempt' = "running" /\ requests' = requests + 1
        /\ seen' = (IF backend = "opencode" THEN seen ELSE left) /\ UNCHANGED outcome
  /\ UNCHANGED <<configuration, counters, left, prompt, user>>

(* Any end of a Claude attempt, whose protocol is that of StreamSession.     *)
ClaudeAnswers ==
  /\ backend = "claude" /\ step = "attempt" /\ attempt = "running"
  /\ \E result \in {"complete", "incomplete", "missing", "limit", "transient", "error", "pause"} :
       attempt' = result
  /\ UNCHANGED <<configuration, counters, clock, step, prompt, outcome, user, requests>>

(* The stage timeout, a policy stop and the escalation key.                  *)
ClaudeStopped ==
  /\ backend = "claude" /\ step = "attempt" /\ attempt = "running"
  /\ \/ Expired /\ attempt' = "escalate"
     \/ attempt' = "policy"
  /\ UNCHANGED <<configuration, counters, clock, step, prompt, outcome, user, requests>>
-----------------------------------------------------------------------------
(* What the loop does with the result of an attempt                         *)

Finished(result) == step = "attempt" /\ attempt = result

Again(reason) ==
  /\ step' = "dispatch" /\ prompt' = reason
  /\ UNCHANGED outcome

(* Preflight takes no second request, apart from live controls.              *)
ReviewOnce ==
  /\ step = "attempt" /\ protocol = "Preflight"
  /\ attempt \notin {"running"} \cup Control
  /\ End(CASE attempt \in {"complete", "incomplete"} \cup Stops -> attempt
           [] OTHER -> "error")
  /\ UNCHANGED <<configuration, counters, clock, prompt, attempt, user, requests>>

Returned ==
  /\ step = "attempt" /\ protocol # "Preflight"
  /\ attempt \in {"complete"} \cup Stops
  /\ End(attempt)
  /\ UNCHANGED <<configuration, counters, clock, prompt, attempt, user, requests>>

(* INCOMPLETE: once, and for as long as the policy accounts for it (a ledger *)
(* that cannot be saved ends the invocation); Verify leaves the second one to *)
(* its caller.                                                              *)
ContinueIncomplete ==
  /\ Finished("incomplete") /\ protocol # "Preflight"
  /\ \/ End("error") /\ UNCHANGED <<incompletes, prompt>>
     \/ /\ incompletes >= MaxIncompleteRecoveries /\ protocol = "Verify"
        /\ End("incomplete") /\ UNCHANGED <<incompletes, prompt>>
     \/ /\ incompletes < MaxIncompleteRecoveries \/ protocol # "Verify"
        /\ incompletes' = incompletes + 1 /\ Again("incomplete")
  /\ UNCHANGED <<configuration, outputs, retries, clock, attempt, user, requests>>

(* No terminal result: Claude compacts first, OpenCode does not continue.    *)
ContinueMissing ==
  /\ Finished("missing") /\ protocol # "Preflight"
  /\ IF /\ backend # "opencode" /\ protocol \in {"Worker", "Verify"}
        /\ incompletes < MaxIncompleteRecoveries
     THEN /\ incompletes' = incompletes + 1 /\ prompt' = "incomplete" /\ UNCHANGED outcome
          /\ step' = IF backend = "claude" THEN "compact" ELSE "dispatch"
     ELSE End("error") /\ UNCHANGED <<incompletes, prompt>>
  /\ UNCHANGED <<configuration, outputs, retries, clock, attempt, user, requests>>

(* Mutant: one output recovery too many.                                    *)
ContinueLimitOnceMore ==
  /\ Finished("limit") /\ protocol # "Preflight"
  /\ IF outputs <= MaxOutputRetries
     THEN /\ outputs' = outputs + 1 /\ prompt' = "limit" /\ UNCHANGED outcome
          /\ step' = IF backend = "claude" THEN "compact" ELSE "dispatch"
     ELSE /\ End(IF backend = "codex" THEN "error" ELSE "escalate")
          /\ UNCHANGED <<outputs, prompt>>
  /\ UNCHANGED <<configuration, incompletes, retries, clock, attempt, user, requests>>

ContinueLimit ==
  /\ Finished("limit") /\ protocol # "Preflight"
  /\ IF outputs < MaxOutputRetries
     THEN /\ outputs' = outputs + 1 /\ prompt' = "limit" /\ UNCHANGED outcome
          /\ step' = IF backend = "claude" THEN "compact" ELSE "dispatch"
     ELSE /\ End(IF backend = "codex" THEN "error" ELSE "escalate")
          /\ UNCHANGED <<outputs, prompt>>
  /\ UNCHANGED <<configuration, incompletes, retries, clock, attempt, user, requests>>

(* Codex answers a provider's demand for a user turn without a delay.        *)
ContinueUserTurn ==
  /\ Finished("userTurn") /\ protocol # "Preflight"
  /\ IF retries < MaxProviderRetries
     THEN retries' = retries + 1 /\ Again("userTurn")
     ELSE End("error") /\ UNCHANGED <<retries, prompt>>
  /\ UNCHANGED <<configuration, outputs, incompletes, clock, attempt, user, requests>>

(* provider_retry_delay: the base delay, doubled at each retry, up to a cap. *)
Delay(n) == IF 2 ^ (n - 1) < MaxDelay THEN 2 ^ (n - 1) ELSE MaxDelay

(* Claude and Codex compare the delay with the time left before the attempt, *)
(* and sleep through it.                                                     *)
SleepAndRetry ==
  /\ Finished("transient") /\ protocol # "Preflight" /\ backend # "opencode"
  /\ IF retries < MaxProviderRetries
     THEN /\ retries' = retries + 1
          /\ IF timed /\ Delay(retries') >= seen
             THEN End("error") /\ UNCHANGED <<left, prompt>>
             ELSE /\ Again("transient")
                  /\ left' = IF left > Delay(retries') THEN left - Delay(retries') ELSE 0
     ELSE End("error") /\ UNCHANGED <<retries, left, prompt>>
  /\ UNCHANGED <<configuration, outputs, incompletes, seen, attempt, user, requests>>

(* OpenCode waits as long as the provider asks for (retry_after), if that is  *)
(* longer, and compares it with what is left now, for the stage and by the    *)
(* policy for the request.  A provider asks for no more than the stage has.   *)
TooLong(delay) == timed /\ delay >= left

Longer(delay, asked) == IF asked > delay THEN asked ELSE delay

StartBackoff ==
  /\ Finished("transient") /\ protocol # "Preflight" /\ backend = "opencode"
  /\ IF retries < MaxProviderRetries
     THEN /\ retries' = retries + 1
          /\ \/ /\ \E asked \in 0..StageTicks : wait' = Longer(Delay(retries'), asked)
                /\ ~TooLong(wait') /\ step' = "backoff"
                /\ UNCHANGED outcome
             \/ End("error") /\ UNCHANGED wait
     ELSE End("error") /\ UNCHANGED <<retries, wait>>
  /\ UNCHANGED <<configuration, outputs, incompletes, clock, prompt, attempt, queued, controls,
                 requests>>

Backoff ==
  /\ step = "backoff"
  /\ \/ /\ wait > 0 /\ ~Expired
        /\ wait' = wait - 1 /\ left' = (IF timed THEN left - 1 ELSE left)
        /\ UNCHANGED <<step, outcome, prompt>>
     \/ wait > 0 /\ Expired /\ End("error") /\ UNCHANGED <<wait, left, prompt>>
     \/ wait > 0 /\ End("policy") /\ UNCHANGED <<wait, left, prompt>>
     \/ /\ wait = 0 /\ step' = "resume" /\ prompt' = "transient"
        /\ UNCHANGED <<wait, left, outcome>>
  /\ UNCHANGED <<configuration, counters, seen, attempt, queued, controls, requests>>

(* During the wait a stopping control ends the invocation; another waits.    *)
BackoffControl ==
  /\ step = "backoff" /\ wait > 0 /\ controls < MaxControls
  /\ controls' = controls + 1
  /\ \/ \E why \in {"error", "pause", "escalate"} : End(why) /\ UNCHANGED queued
     \/ \E control \in Control :
          queued' = Append(queued, control) /\ UNCHANGED <<step, outcome>>
  /\ UNCHANGED <<configuration, counters, clock, prompt, attempt, wait, requests>>

(* Mutant: a control that waited is applied and stays in the queue.          *)
ApplyQueuedAgain ==
  /\ step = "resume"
  /\ IF queued = <<>> THEN step' = "dispatch" /\ UNCHANGED <<queued, outcome>>
     ELSE /\ UNCHANGED queued
          /\ CASE Head(queued) = "compact" -> step' = "compact" /\ UNCHANGED outcome
               [] Head(queued) = "context" -> UNCHANGED <<step, outcome>> \/ End("error")
               [] Head(queued) = "inject" -> UNCHANGED <<step, outcome>>
  /\ UNCHANGED <<configuration, counters, clock, prompt, attempt, wait, controls, requests>>

(* apply_manual_control, for each control that waited; a direction joins the *)
(* prompt, a report that cannot be had ends the invocation.                  *)
ApplyQueued ==
  /\ step = "resume"
  /\ IF queued = <<>> THEN step' = "dispatch" /\ UNCHANGED <<queued, outcome>>
     ELSE /\ queued' = Tail(queued)
          /\ CASE Head(queued) = "compact" -> step' = "compact" /\ UNCHANGED outcome
               [] Head(queued) = "context" -> UNCHANGED <<step, outcome>> \/ End("error")
               [] Head(queued) = "inject" -> UNCHANGED <<step, outcome>>
  /\ UNCHANGED <<configuration, counters, clock, prompt, attempt, wait, controls, requests>>

(* A live control that interrupted a turn of Codex or OpenCode.              *)
ControlTaken ==
  /\ step = "attempt" /\ attempt \in Control
  /\ prompt' = attempt
  /\ IF attempt = "compact" THEN step' = "compact" /\ UNCHANGED outcome
     ELSE \/ step' = "dispatch" /\ UNCHANGED outcome
          \/ attempt = "context" /\ backend = "opencode" /\ End("error")
  /\ UNCHANGED <<configuration, counters, clock, attempt, user, requests>>
-----------------------------------------------------------------------------
(* Compaction, a request of its own                                         *)
StartCompaction ==
  /\ step = "compact"
  /\ \/ /\ backend = "opencode" /\ Expired
        /\ End("escalate") /\ UNCHANGED <<requests, attempt>>
     \/ /\ ~(backend = "opencode" /\ Expired) /\ Refused
        /\ End("policy") /\ UNCHANGED <<requests, attempt>>
     \/ /\ ~(backend = "opencode" /\ Expired) /\ ~Refused
        /\ step' = "compacting" /\ attempt' = "running" /\ requests' = requests + 1
        /\ UNCHANGED outcome
  /\ UNCHANGED <<configuration, counters, clock, prompt, user>>

ClaudeCompacts ==
  /\ backend = "claude" /\ step = "compacting" /\ attempt = "running"
  /\ \E result \in {"complete", "error", "pause", "escalate"} : attempt' = result
  /\ UNCHANGED <<configuration, counters, clock, step, prompt, outcome, user, requests>>

(* compact_session of Claude warns of every error but a pause; for Codex and *)
(* OpenCode a compaction that fails ends the invocation.                     *)
Compacted ==
  /\ step = "compacting" /\ attempt # "running"
  /\ IF attempt = "complete" \/ (backend = "claude" /\ attempt # "pause")
     THEN step' = (IF queued # <<>> THEN "resume" ELSE "dispatch")
          /\ UNCHANGED outcome
     ELSE End(IF attempt \in Stops THEN attempt ELSE "error")
  /\ UNCHANGED <<configuration, counters, clock, prompt, attempt, user, requests>>

Loop ==
  \/ Dispatch \/ ReviewOnce \/ Returned \/ ContinueIncomplete \/ ContinueMissing
  \/ ContinueLimit \/ ContinueUserTurn \/ SleepAndRetry \/ StartBackoff \/ Backoff
  \/ ApplyQueued \/ ControlTaken \/ StartCompaction \/ Compacted

ClaudeNext == ClaudeAnswers \/ ClaudeStopped \/ ClaudeCompacts
=============================================================================
