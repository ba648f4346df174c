--------------------------- MODULE OperatingPolicy ---------------------------
(***************************************************************************)
(* The operating policy of a run (src/src/operating_policy.rs): runner     *)
(* processes that load the checkpoint, compete for the owner lock, count   *)
(* every backend request in a durable ledger before they dispatch it, and  *)
(* may be stopped, cancelled or killed at any point, leaving a backend     *)
(* session at work behind them.                                            *)
(*                                                                         *)
(* The workflow a process follows is reduced to a cycle of Verify and      *)
(* Repair under --max-verify-retries (module Workflow has the whole of     *)
(* it).  Left out of the ledger: elapsed time and costs, policy revisions, *)
(* summaries, and the trend of review findings.  A save that fails where   *)
(* the code returns the error ends the process before the step it was for: *)
(* the same as a crash before or after the save.                           *)
(***************************************************************************)
EXTENDS Integers

CONSTANTS
  Procs,              \* runner processes
  Requests,           \* identities of backend requests
  Nobody,             \* no process, no request
  MaxRequests,        \* max_requests_per_stage
  MaxReplans,         \* max_replans_without_verified_progress
  MaxRetries,         \* --max-verify-retries
  IgnoredInterrupts   \* a stage timeout discards a failed interrupt (Codex)

ASSUME NobodyAssumption == Nobody \notin Procs \cup Requests
ASSUME LimitsAssumption ==
  MaxRequests \in Nat /\ MaxReplans \in Nat /\ MaxRetries \in Nat
ASSUME InterruptsAssumption == IgnoredInterrupts \in BOOLEAN

VARIABLES
  pc,          \* where each process is
  state,       \* the RunState in the memory of each process
  checkpoint,  \* last-run.json
  owner,       \* the holder of owner.lock
  guard,       \* the ledger in the owner's memory (without one: the file)
  ledger,      \* ledger.json
  failure,     \* the owner could not save the accounting of an answer
  attempt,     \* the request the owner is about
  backend,     \* external: the sessions at work on the repository
  spent,       \* history: requests since the last stage result or accept-changes
  rollbacks,   \* history: rollbacks since the last verified milestone
  granted,     \* history: repairs granted since the last accept-changes
  clobbered    \* history: a stale RunState has replaced the checkpoint

vars == <<pc, state, checkpoint, owner, guard, ledger, failure, attempt, backend,
          spent, rollbacks, granted, clobbered>>
history == <<spent, rollbacks, granted, clobbered>>

Stage == {"Propose", "Verify", "Repair", "Complete"}
RunState == [stage : Stage, retries : Nat]

(* Ledger: `pending` are the requests without an outcome; stage "none" is  *)
(* the empty stage_key.                                                     *)
Ledger ==
  [pending : SUBSET Requests, unresolved : SUBSET Requests,
   key : Stage \cup {"none"}, used : 0..MaxRequests, replans : 0..MaxReplans]

Starting == {"idle", "loaded", "opening", "correcting"}
Owning == {"working", "counted", "waiting", "cancelling", "answered", "verified",
           "interrupted", "replanning", "stopping", "corrected"}

TypeOK ==
  /\ pc \in [Procs -> Starting \cup Owning]
  /\ state \in [Procs -> RunState] /\ checkpoint \in RunState
  /\ owner \in Procs \cup {Nobody}
  /\ guard \in Ledger /\ ledger \in Ledger
  /\ failure \in BOOLEAN
  /\ attempt \in Requests \cup {Nobody}
  /\ backend \subseteq Requests
  /\ spent \in Nat /\ rollbacks \in Nat /\ granted \in Nat /\ clobbered \in BOOLEAN

NewRun == [stage |-> "Propose", retries |-> 0]

Init ==
  /\ pc = [p \in Procs |-> "idle"]
  /\ state = [p \in Procs |-> NewRun] /\ checkpoint = NewRun
  /\ owner = Nobody
  /\ ledger = [pending |-> {}, unresolved |-> {}, key |-> "none", used |-> 0, replans |-> 0]
  /\ guard = ledger
  /\ failure = FALSE /\ attempt = Nobody /\ backend = {}
  /\ spent = 0 /\ rollbacks = 0 /\ granted = 0 /\ clobbered = FALSE

(* The counters of the history stop one above their limit.                  *)
Counted(n, limit) == IF n > limit THEN n ELSE n + 1

Goto(p, there) == pc' = [pc EXCEPT ![p] = there]

(* Guard::save with g in memory.                                            *)
Save(g) == guard' = g /\ ledger' = g

(* The lock is gone with its process, and so is what only memory held.      *)
Release(p) ==
  /\ owner' = Nobody /\ guard' = ledger' /\ failure' = FALSE /\ attempt' = Nobody
  /\ Goto(p, "idle")
  /\ state' = [state EXCEPT ![p] = NewRun]
-----------------------------------------------------------------------------
(* App::resume and run_workflows, up to the owner lock                      *)

Load(p) ==
  /\ pc[p] = "idle"
  /\ state' = [state EXCEPT ![p] = checkpoint]
  /\ \/ checkpoint.stage # "Complete" /\ Goto(p, "loaded")
     \/ Goto(p, "correcting")
  /\ UNCHANGED <<checkpoint, owner, guard, ledger, failure, attempt, backend, history>>

(* resume persists its RunState before it asks for the lock.                *)
Persist(p) ==
  /\ pc[p] = "loaded"
  /\ checkpoint' = state[p]
  /\ clobbered' = (clobbered \/ checkpoint # state[p])
  /\ Goto(p, "opening")
  /\ UNCHANGED <<state, owner, guard, ledger, failure, attempt, backend, spent,
                 rollbacks, granted>>

OpenRefused(p) ==
  /\ pc[p] \in {"opening", "correcting"} /\ owner # Nobody
  /\ Goto(p, "idle")
  /\ state' = [state EXCEPT ![p] = NewRun]
  /\ UNCHANGED <<checkpoint, owner, guard, ledger, failure, attempt, backend, history>>

(* Mutant: opening the ledger resets the allowance of the stage.            *)
ReopenedAfresh(acks) ==
  [ledger EXCEPT !.unresolved = (@ \cup ledger.pending) \ acks, !.pending = @ \ acks,
                 !.used = 0]

(* Run::open: requests without an outcome become unresolved, and those the  *)
(* maintainer acknowledges are settled.                                     *)
Reopened(acks) ==
  [ledger EXCEPT !.unresolved = (@ \cup ledger.pending) \ acks, !.pending = @ \ acks]

(* The maintainer acknowledges only what has been seen to have stopped.     *)
Open(p) ==
  /\ pc[p] = "opening" /\ owner = Nobody
  /\ \E acks \in SUBSET (Reopened({}).unresolved \ backend) : Save(Reopened(acks))
  /\ owner' = p
  /\ checkpoint' = state[p]
  /\ clobbered' = (clobbered \/ checkpoint # state[p])
  /\ Goto(p, "working")
  /\ UNCHANGED <<state, failure, attempt, backend, spent, rollbacks, granted>>
-----------------------------------------------------------------------------
(* accept-changes: the lock, a cleared allowance, then the checkpoint       *)

CorrectionRefused(p) ==
  /\ pc[p] = "correcting" /\ owner = Nobody
  /\ Reopened({}).unresolved # {}
  /\ Save(Reopened({}))
  /\ Goto(p, "idle")
  /\ state' = [state EXCEPT ![p] = NewRun]
  /\ UNCHANGED <<checkpoint, owner, failure, attempt, backend, history>>

AcceptChanges(p) ==
  /\ pc[p] = "correcting" /\ owner = Nobody
  /\ Reopened({}).unresolved = {}
  /\ Save([ledger EXCEPT !.key = "none", !.used = 0, !.replans = 0])
  /\ owner' = p
  /\ spent' = 0 /\ rollbacks' = 0
  /\ Goto(p, "corrected")
  /\ UNCHANGED <<state, checkpoint, failure, attempt, backend, granted, clobbered>>

Corrected(p) ==
  /\ pc[p] = "corrected"
  /\ checkpoint' = NewRun
  /\ granted' = 0
  /\ UNCHANGED <<ledger, backend, spent, rollbacks, clobbered>>
  /\ Release(p)
-----------------------------------------------------------------------------
(* Requests                                                                 *)

(* Mutant: check(true) does not look at unresolved requests.                *)
ClearOfFailures == ~failure

(* Guard::check(true)                                                       *)
Clear == ~failure /\ guard.unresolved = {}

(* Mutant: the count starts again at every request.                         *)
UsedForgotten(p) == 0

Used(p) == IF guard.key = state[p].stage THEN guard.used ELSE 0

(* run_repair refuses to start past --max-verify-retries.                   *)
Exhausted(m) == m.stage = "Repair" /\ m.retries > MaxRetries

Working(p) ==
  pc[p] = "working" /\ state[p].stage # "Complete" /\ ~Exhausted(state[p])

(* A new Attempt; another dispatch of the same one is as good as new.       *)
(* Bound: an identity serves again once its request is settled and its      *)
(* session is gone.  Which of them it is makes no difference.                *)
Identities == Requests \ (guard.pending \cup guard.unresolved \cup backend)
NewIdentity == CHOOSE r \in Identities : TRUE

(* Mutant: the ledger is saved with the answer only.                        *)
BeforeRequestUnsaved(p) ==
  /\ Working(p) /\ Clear /\ Used(p) < MaxRequests
  /\ Identities # {} /\ attempt' = NewIdentity
  /\ guard' = [guard EXCEPT !.pending = @ \cup {NewIdentity}, !.key = state[p].stage,
                            !.used = Used(p) + 1]
  /\ Goto(p, "counted")
  /\ UNCHANGED <<state, checkpoint, owner, ledger, failure, backend, history>>

(* Guard::before_request                                                    *)
BeforeRequest(p) ==
  /\ Working(p) /\ Clear /\ Used(p) < MaxRequests
  /\ Identities # {} /\ attempt' = NewIdentity
  /\ Save([guard EXCEPT !.pending = @ \cup {NewIdentity}, !.key = state[p].stage,
                        !.used = Used(p) + 1])
  /\ Goto(p, "counted")
  /\ UNCHANGED <<state, checkpoint, owner, failure, backend, history>>

Dispatch(p) ==
  /\ pc[p] = "counted"
  /\ backend' = backend \cup {attempt}
  /\ spent' = Counted(spent, MaxRequests)
  /\ Goto(p, "waiting")
  /\ UNCHANGED <<state, checkpoint, owner, guard, ledger, failure, attempt, rollbacks,
                 granted, clobbered>>

BackendEnds ==
  /\ \E r \in backend : backend' = backend \ {r}
  /\ UNCHANGED <<pc, state, checkpoint, owner, guard, ledger, failure, attempt, history>>

(* A save whose failure is only noted, for the next check.                  *)
SaveOrFail(g) ==
  \/ Save(g) /\ failure' = failure
  \/ guard' = g /\ ledger' = ledger /\ failure' = TRUE

(* Guard::record_usage                                                      *)
RecordUsage == SaveOrFail([guard EXCEPT !.pending = @ \ {attempt}])

Answered(p) ==
  /\ pc[p] = "waiting" /\ attempt \notin backend
  /\ RecordUsage
  /\ Goto(p, "answered")
  /\ attempt' = Nobody
  /\ UNCHANGED <<state, checkpoint, owner, backend, history>>

(* The process could not be started, or failed before the backend worked.   *)
DispatchFails(p) ==
  /\ pc[p] = "counted"
  /\ RecordUsage
  /\ Goto(p, "working")
  /\ attempt' = Nobody
  /\ UNCHANGED <<state, checkpoint, owner, backend, history>>

(* Guard::poll ends the request, and the session is seen to stop.           *)
Cancel(p) ==
  /\ pc[p] = "waiting"
  /\ backend' = backend \ {attempt}
  /\ RecordUsage
  /\ Goto(p, "stopping")
  /\ attempt' = Nobody
  /\ UNCHANGED <<state, checkpoint, owner, history>>

(* Guard::cancellation_unconfirmed: what is pending becomes unresolved.     *)
CancelUnconfirmed(p) ==
  /\ pc[p] = "waiting"
  /\ SaveOrFail([guard EXCEPT !.unresolved = @ \cup guard.pending])
  /\ Goto(p, "cancelling")
  /\ UNCHANGED <<state, checkpoint, owner, attempt, backend, history>>

(* The outcome of the cancelled request is recorded as any other.           *)
Cancelled(p) ==
  /\ pc[p] = "cancelling"
  /\ RecordUsage
  /\ Goto(p, "stopping")
  /\ attempt' = Nobody
  /\ UNCHANGED <<state, checkpoint, owner, backend, history>>

(* The worker's stage timeout or the user ends the turn.                    *)
Interrupt(p) ==
  /\ pc[p] = "waiting"
  /\ backend' = backend \ {attempt} \/ (IgnoredInterrupts /\ UNCHANGED backend)
  /\ RecordUsage
  /\ Goto(p, "interrupted")
  /\ UNCHANGED <<state, checkpoint, owner, attempt, history>>

(* execute returns, to pause or to replan, and its server is killed.        *)
DropServer(p) ==
  /\ pc[p] = "interrupted"
  /\ backend' = backend \ {attempt}
  /\ attempt' = Nobody
  /\ Goto(p, "replanning") \/ Goto(p, "stopping")
  /\ UNCHANGED <<state, checkpoint, owner, guard, ledger, failure, history>>

(* Mutant: the attempt is counted in memory only.                           *)
BeforeReplanUnsaved(p) ==
  /\ pc[p] = "replanning" /\ Clear /\ guard.replans < MaxReplans
  /\ guard' = [guard EXCEPT !.replans = @ + 1]
  /\ rollbacks' = Counted(rollbacks, MaxReplans)
  /\ Goto(p, "working")
  /\ UNCHANGED <<state, checkpoint, owner, ledger, failure, attempt, backend, spent,
                 granted, clobbered>>

(* Mutant: a rollback is only counted, never refused.                       *)
BeforeReplanUnlimited(p) ==
  /\ pc[p] = "replanning" /\ Clear
  /\ Save([guard EXCEPT !.replans = @ + 1])
  /\ rollbacks' = Counted(rollbacks, MaxReplans)
  /\ Goto(p, "working")
  /\ UNCHANGED <<state, checkpoint, owner, failure, attempt, backend, spent, granted,
                 clobbered>>

(* Guard::before_replan, followed by the rollback it authorizes.            *)
BeforeReplan(p) ==
  /\ pc[p] = "replanning" /\ Clear /\ guard.replans < MaxReplans
  /\ Save([guard EXCEPT !.replans = @ + 1])
  /\ rollbacks' = Counted(rollbacks, MaxReplans)
  /\ Goto(p, "working")
  /\ UNCHANGED <<state, checkpoint, owner, failure, attempt, backend, spent, granted,
                 clobbered>>

(* Guard::stop                                                              *)
PolicyStop(p) ==
  /\ \/ Working(p) /\ (~Clear \/ Used(p) >= MaxRequests)
     \/ pc[p] = "replanning" /\ (~Clear \/ guard.replans >= MaxReplans)
  /\ Goto(p, "stopping")
  /\ UNCHANGED <<state, checkpoint, owner, guard, ledger, failure, attempt, backend,
                 history>>
-----------------------------------------------------------------------------
(* What the stages make of an answer                                        *)

Advance(p, m) ==
  /\ state' = [state EXCEPT ![p] = m] /\ checkpoint' = m
  /\ spent' = 0

(* An incomplete or malformed answer: another request for the same stage.   *)
Unfinished(p) ==
  /\ pc[p] = "answered"
  /\ Goto(p, "working")
  /\ UNCHANGED <<state, checkpoint, owner, guard, ledger, failure, attempt, backend,
                 history>>

WorkDone(p) ==
  /\ pc[p] = "answered" /\ state[p].stage \in {"Propose", "Repair"}
  /\ Advance(p, [state[p] EXCEPT !.stage = "Verify"])
  /\ Goto(p, "working")
  /\ UNCHANGED <<owner, guard, ledger, failure, attempt, backend, rollbacks, granted,
                 clobbered>>

(* Mutant: the retry is persisted by the next stage only.                   *)
RetryUnsaved(p) ==
  /\ pc[p] = "answered" /\ state[p].stage = "Verify"
  /\ LET m == [stage |-> "Repair", retries |-> state[p].retries + 1]
     IN /\ state' = [state EXCEPT ![p] = m]
        /\ IF Exhausted(m)
             THEN Goto(p, "stopping") /\ UNCHANGED granted
             ELSE Goto(p, "working") /\ granted' = Counted(granted, MaxRetries)
  /\ spent' = 0
  /\ UNCHANGED <<checkpoint, owner, guard, ledger, failure, attempt, backend, rollbacks,
                 clobbered>>

(* RETRY: the repair is counted and persisted before it is granted.         *)
Retry(p) ==
  /\ pc[p] = "answered" /\ state[p].stage = "Verify"
  /\ LET m == [stage |-> "Repair", retries |-> state[p].retries + 1]
     IN /\ Advance(p, m)
        /\ IF Exhausted(m)
             THEN Goto(p, "stopping") /\ UNCHANGED granted
             ELSE Goto(p, "working") /\ granted' = Counted(granted, MaxRetries)
  /\ UNCHANGED <<owner, guard, ledger, failure, attempt, backend, rollbacks, clobbered>>

RepairRefused(p) ==
  /\ pc[p] = "working" /\ Exhausted(state[p])
  /\ Goto(p, "stopping")
  /\ UNCHANGED <<state, checkpoint, owner, guard, ledger, failure, attempt, backend,
                 history>>

(* VERIFIED: Guard::verified, then the checkpoint.                          *)
Verified(p) ==
  /\ pc[p] = "answered" /\ state[p].stage = "Verify"
  /\ Save([guard EXCEPT !.replans = 0])
  /\ rollbacks' = 0
  /\ Goto(p, "verified")
  /\ UNCHANGED <<state, checkpoint, owner, failure, attempt, backend, spent, granted,
                 clobbered>>

Completed(p) ==
  /\ pc[p] = "verified"
  /\ Advance(p, [state[p] EXCEPT !.stage = "Complete"])
  /\ Goto(p, "stopping")
  /\ UNCHANGED <<owner, guard, ledger, failure, attempt, backend, rollbacks, granted,
                 clobbered>>
-----------------------------------------------------------------------------
(* Guard's drop: the last save, which may fail, and then the lock.          *)
Exit(p) ==
  /\ pc[p] \in {"working", "replanning", "stopping"}
  /\ ledger' = guard \/ ledger' = ledger
  /\ Release(p)
  /\ UNCHANGED <<checkpoint, backend, history>>

Crash(p) ==
  /\ pc[p] # "idle"
  /\ UNCHANGED <<checkpoint, ledger, backend, history>>
  /\ IF owner = p THEN Release(p)
     ELSE /\ Goto(p, "idle") /\ state' = [state EXCEPT ![p] = NewRun]
          /\ UNCHANGED <<owner, guard, failure, attempt>>

Step(p) ==
  \/ Persist(p) \/ OpenRefused(p) \/ Open(p)
  \/ CorrectionRefused(p) \/ AcceptChanges(p) \/ Corrected(p)
  \/ BeforeRequest(p) \/ Dispatch(p) \/ Answered(p) \/ DispatchFails(p)
  \/ Cancel(p) \/ CancelUnconfirmed(p) \/ Cancelled(p) \/ Interrupt(p) \/ DropServer(p)
  \/ BeforeReplan(p) \/ PolicyStop(p)
  \/ Unfinished(p) \/ WorkDone(p) \/ Retry(p) \/ RepairRefused(p)
  \/ Verified(p) \/ Completed(p)
  \/ pc[p] = "stopping" /\ Exit(p)

Next ==
  \/ \E p \in Procs : Step(p) \/ Load(p) \/ Exit(p) \/ Crash(p)
  \/ BackendEnds

Spec == Init /\ [][Next]_vars

(* The owner goes on by itself: the request it waits for ends at the latest *)
(* with its time allowance.                                                 *)
OwnerStep == \E p \in Procs : owner = p /\ Step(p)

FairSpec == Spec /\ WF_vars(OwnerStep)
-----------------------------------------------------------------------------
(* Properties                                                               *)

(* When a request is about to go out no backend session is at work on the   *)
(* repository, over all processes: neither a killed runner nor a            *)
(* cancellation that was not confirmed lets the next request overlap with   *)
(* what it left behind (check, Run::open).                                  *)
NoOverlap == \A p \in Procs : pc[p] = "counted" => backend = {}

(* A session that may still be at work is on record in the ledger, without  *)
(* an outcome or as unresolved, so that whatever process comes next is held *)
(* back (before_request saves before the dispatch, cancellation_unconfirmed *)
(* comes before record_usage).  docs/operating-policy.md: "Unconfirmed      *)
(* cleanup is explicitly reported and blocks further dispatch pending       *)
(* reconciliation."                                                         *)
RunningIsOnRecord ==
  backend \subseteq ledger.pending \cup ledger.unresolved

(* Requests for one stage stay within max_requests_per_stage until its next *)
(* durable result, over all crashes and resumes, unless a concurrent resume *)
(* has put back an older checkpoint.                                        *)
VisitAllowance == ~clobbered => spent <= MaxRequests

(* Rollbacks stay within max_replans_without_verified_progress between two  *)
(* verified milestones: they are counted before they happen.                *)
ReplansBounded == rollbacks <= MaxReplans

(* Repairs stay within --max-verify-retries over all crashes and resumes,   *)
(* unless a concurrent resume has put back an older checkpoint.             *)
RepairAllowance == ~clobbered => granted <= MaxRetries

(* No allowance of the policy is exceeded, whatever crashes, resumes and      *)
(* failed saves come in between: requests, rollbacks and repairs.             *)
AllowancesHold == VisitAllowance /\ ReplansBounded /\ RepairAllowance

(* docs/operating-policy.md: "Exclusive ownership prevents concurrent       *)
(* resumes from consuming one allowance twice."                             *)
AllowanceSpentOnce == granted <= MaxRetries

(* A process that owns the run gives the lock back: the limits let it stop. *)
LockReturned == owner # Nobody ~> owner = Nobody
=============================================================================
