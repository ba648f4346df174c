# A formal model of opsx-build

opsx-build drives AI agents through a fixed sequence of stages that takes one
OpenSpec change from exploration to an archived, committed delivery, and through
whole campaigns of such changes. The agents are unreliable, sessions take hours,
the process is interrupted and resumed at will, and repository state is rolled
back when a change proves too large. What makes the runner correct is therefore
protocol, not computation: what it persists before it acts, what it forgets at a
resume, what it counts and what it deletes. This project models those protocols
in TLA+, checks them with TLC and proves part of them with TLAPS. Paths such as
`src/src/app.rs` are those of the repository's sources (`src/` is the repository).

    tlasany Workflow.tla
    tlc -workers 2 -config Delivery.cfg MCDelivery
    tlapm WorkflowProofs.tla

## 1. The system

### Components, their state and operations

| Component | Source | State | Operations | Modules |
|---|---|---|---|---|
| Workflow engine | `app.rs`, `app/supplied.rs`, `state.rs` | `RunState` in memory and in `last-run.json` | `execute`'s loop, one `run_*` handler per stage, `resume`, `queue_direction` | `Stages`, `ChangeDelivery`, `Workflow` |
| Acceptance gate | `acceptance.rs`, `run_acceptance` | commands, `failures`, `evidence`, `next_stage` (inside the checkpoint) | `is_current`, `run` | `Workflow` |
| Verification evidence | `verification.rs` | `verification`, `archive` in the checkpoint | capture, finish, hand over, compare at the terminal gate | `Handoff` |
| Operating policy | `operating_policy.rs` | `ledger.json`, `owner.lock`, a `Guard` in memory | `open`, `before_request`, `record_usage`, `poll`, `cancellation_unconfirmed`, `before_replan`, `verified`, `review`, `accept_changes`, drop | `OperatingPolicy`, `ReviewTrend` |
| Capacity recovery | `git.rs`, `run_frontier_replan`, `run_terminal_review` | `slice_baseline` in the checkpoint, copies and a stash in the repository's private Git metadata, recovery refs | capture, rollback, release, replan, remediate | `Rollback` |
| Maintainer correction | `app/maintenance.rs` | checkpoint, ledger, baseline, supplied inputs | `accept_changes` | `OperatingPolicy`, `Rollback`, `Preflight`, `Handoff`, `ReviewTrend` |
| Campaign and agenda | `agenda.rs`, `run_workflows`, `assign_agenda` | `campaign`, `agenda`, `automation/slices/` | select the next slice, advance, subdivide, remediate, pause, rewind, forget | `Agenda`, `Campaign` |
| Supplied contracts | `contracts.rs`, `assignment.rs` | versions of protected inputs, the assignment record | input checks, coverage checks, recovery checks | `Assignments`, `Preflight` |
| Contract preflight | `preflight.rs` | `contract-preflight.json` | flush, reuse, review, record | `Preflight` |
| Review history | `review.rs` | findings and open areas of the rounds | record a round, close, retain | `ReviewTrend` |
| Check receipts | `checks.rs` | receipts of executed checks, locks, generations | run, reuse, invalidate | `CheckReceipts`, `CheckRegister` |
| Backends | `claude.rs`, `opencode*.rs`, `codex*.rs` | session, server process, retry counters | invoke, continue, compact, interrupt, retry | `Invocation`, `OpenCodeTurn`, `CodexTurn`, `Backends` |
| Process control | `process.rs` | child, turns and interrupts in progress | stream, interrupt, follow up, stop, kill | `StreamSession` |
| Usage | `usage.rs` | one attempt's record, a journal, `usage.jsonl` | observe, restart, append | `UsageAccounting` |
| Dashboard | `dashboard.rs`, `ui.rs` | panels, confirmations, request to pause | keys, what the runner tells it | `Dashboard` |
| Sidecar, bootstrap rules, protocol parsing, configuration, summary | `sidecar.rs`, `bootstrap.rs`, `skills.rs`, `openspec.rs`, `cli.rs`, `campaign_config.rs`, `run_summary.rs` | mostly none | pure checks, parsing, rendering | none |

### How they interact

`main` → `App::run_inner` builds a `RunState` (or `resume` loads one) and calls
`run_workflows`, which takes the owner lock (`Run::open`) and loops: the preflight of
the supplied inputs, readiness review of the terminal gate, `execute`, then, by its
outcome, replan, remediate, report or start the next change. `execute` dispatches on
the stage; a handler asks its agent through `invoke_fresh` and a backend; the backend
opens an attempt of `usage.rs`, which calls `Guard::before_request` before each
dispatch and `Guard::record_usage` after each outcome; while it waits it polls the
guard and the terminal. Agents call `opsx-build check` on their own, in processes of
its own. The checkpoint, the ledger, the repository and the agents' sessions are the
shared state; the maintainer changes the first two by command and the third at any
time.

### What is hard

* **Crashes.** Every handler is a sequence of external effects and `persist_state`
  calls; a crash between any two must leave a checkpoint from which the run goes on
  without losing a verdict, a count or a baseline.
* **Concurrency.** There is no thread-level sharing worth modelling; the actors are
  a second runner process, a standalone preflight, check helpers, the backend sessions
  that outlive a killed runner, the agents that change the tree while the runner
  waits, and the maintainer.
* **Staleness.** Evidence (acceptance, reviews, receipts, preflight) is about one
  version of the tree; `next_stage`, `failures`, `pending_direction` and the baseline
  outlive the stage that set them.
* **Late events.** Answers of an interrupted or failed turn arrive in the next one.
* **Loops.** Verify/Repair, Acceptance/Repair, escalate/replan, corrective turns and
  provider retries are all cycles that only counters end.

## 2. The modules

| Module | Models |
|---|---|
| `Stages`, `Workflow` | one change at a time through all stages, the gate, stops, resumes, directions, the free-form campaign step |
| `Preflight` | the supplied inputs, their review and its report, beside a standalone preflight, edits and accept-changes |
| `Handoff` | the evidence of a passed Verify at Archive, commit and the terminal gate |
| `ChangeDelivery` | what `Workflow` promises about the delivery of a change |
| `MCDelivery` | `Workflow`, `Preflight` and `Handoff`, for TLC |
| `OperatingPolicy` | runner processes, lock, ledger, requests, cancellation, replans, accept-changes |
| `Assignments` | the assignment record of supplied work, what checks it and what a recovery may change |
| `MCGovernance` | these two |
| `Rollback` | baselines, rollback step by step, subdivision, terminal review, remediation, correction |
| `StreamSession` | one streamed Claude command: turns, interrupts, follow-ups, stops |
| `Agenda`, `Campaign` | order and choice of the slices, iterations and their limit, subdivision, review of the gate, rewind, forget |
| `Invocation`, `OpenCodeTurn`, `CodexTurn`, `Backends` | one invocation of a stage's agent: the retry loops and, for two backends, the turns behind an attempt |
| `Dashboard` | keys, confirmations and the request to pause |
| `MCCampaign` | `Campaign`, `Backends` and `Dashboard` |
| `CheckRegister`, `CheckReceipts` | what check receipts promise, and how helpers keep it |
| `ReviewTrend` | findings over rounds, and the trend that stops repairs |
| `UsageAccounting` | what is charged to an attempt |
| `MCEvidence` | these three |
| `*Proofs` | theorems |
| other `MC*` | instances for the runs that show a disagreement |

Conventions. `mem` (or `state[p]`, `state`) is the `RunState` of a process, `disk`
(`checkpoint`, `durable`) the file; `persist_state` is one atomic step because the code
writes a temporary file and renames it. A definition bears the name of the function or
the outcome it stands for. A handler is split only where another party can act or
where it persists twice. A definition marked "Mutant" is a plausible bug; it is no
part of any specification.

The modules of one `MC` module share no variable. A run chooses one of them as its
`subject`, which never changes, and leaves the others at rest in one fixed initial
state: the state space is the sum of theirs and not the product. A property of one of
them holds trivially where another is the subject. Each module also has a
specification of its own (`PreflightSpec`, `HandoffSpec`, `AssignmentsSpec`, `ChecksSpec`,
...), about which the theorems are stated.

### Workflow

State: `run` (kind of run, gate, YOLO), `mem`, `disk`, `pc`, the product's version
`product`, the change's directory `dir`, whether the agenda or assignment record
passes its structural check `sound`, the request counter `ledger`. The six kinds of
run are the combinations of `RunState` fields the code distinguishes: free-form
change, agenda slice, terminal gate with and without a change of its own, bootstrap,
assignment bootstrap. Everything an agent may do is an action enabled during its
session (`AgentEdits`, `AgentPlans`, `AgentMovesChange`); everything its answer may
be is a disjunct of `SessionEnds` and `VerdictStep`. A pause, policy stop, provider
error, BLOCKED, protocol violation and crash all leave the last checkpoint: one
action, `Interrupt`. History variables record what the delivered code still owes
(`owed`: a review, or only the checks after a late repair), whether the gate failed
after Archive (`late`: from then on repairs are certified by the checks alone), repairs
and directions.

Prompts, sessions, evidence texts, commits and the checks of contract inputs are
abstracted. An Archive agent that answers READY is assumed to have moved the change
(`HonestArchive`): the code believes it (`run_archive`), so nothing else could be
said; the paths where it fails or stays silent are checked without that assumption.

`ChangeDelivery` is the abstract specification: where a delivery is (in the making, at
review, at the checks, ...), what it still owes, whether review and archiving are waived and
whether the checks passed for the product as it is; no retries, allowances, verdicts,
checkpoints, crashes or resumes. `DeliveryPromised` says that `Workflow` implements it. The
mapping reads the phase off the stage of the checkpoint (`Phase`), the change off the
repository and `passed` off the evidence and the product: `owed` and `waived` are the
history variables, everything else (`mem`, `next_stage`, retries, failures, verdicts, the
request counter) has no counterpart. So a resume that reads the checkpoint is a stutter, a
direction that reopens a late stage is a `Reopen`, and an edit after the checks is a
`Disturb`, after which a report is no step of the delivery.

### Preflight

Files are versions, which their hashes tell apart. `checkpoint` is what `last-run.json`
holds of the inputs and settings, `filed` the report, `reviewing` the two processes that
may be about it: the campaign's run, and the standalone command, which opens a run (and a
lock) of its own and so may run beside it. A review is four steps: compare with the
report, read, compare with the inputs again, record. The maintainer edits at any time,
`accept_changes` replaces the checkpoint while no run is open; a run that loaded it before
writes the older one back and then stops at its first check of the inputs.
`PreflightHolds` relates the delivering run to what the reviewer read, which no step of
the code ever looks at as a whole. An input that was changed and changed back during a
review is not noticed (`flickered`).

### Handoff

`tree` is everything outside the change's own directory, `own` where that directory is;
a fingerprint may fail (links, errors of Git). `VerifyStarts` takes it, `Briefed` decides
what the review has to cover (`delivery_count`), `ReviewPassed` compares it again.
`GatePrepares` is `prepare_direct_acceptance`: the review of the terminal gate is left out
if the campaign has one slice and `delivery_unchanged`. The evidence goes with the
checkpoint through commits, the next assignments, corrections and crashes. Only
supplied-contract runs carry it over to the next slice; evidence of two repositories is
never reused for the gate and is not modelled.

### OperatingPolicy

Any number of runner processes (`Procs`) load the checkpoint, persist it, ask for the
lock and work through a reduced Verify/Repair cycle under `--max-verify-retries`.
`backend` is the set of sessions at work, external: they outlive crashes. `guard` is
the ledger in the owner's memory, `ledger` the file; a save may fail where the code
carries on with a noted failure (`SaveOrFail`) and then memory and file differ. A
maintainer acknowledges an unresolved request only when its session has stopped,
which is what the documentation asks of them. `IgnoredInterrupts` says whether a
Codex stage timeout may discard a failed interrupt. Time, costs and summaries are left
out; the trend of review findings is `ReviewTrend`.

### Assignments

`plan` is `assignments.json`, `agenda` the slice files, `shown` whether the rendered
views are current; sessions rewrite all of them at any time, with any of the records in
`Plans`, sound or not. The runner audits before Verify (`Checks`), and after a
subdivision or a remediation compares with what it held when the session began
(`Recovers`). `finished` are the archived slices. A later slice that was begun may take
over parts as its prerequisites, as in the code (`check_recovery`), though the
documentation speaks of unstarted slices only.

### Rollback

`head`, `made`, `agenda`, `anchored` are sets of commits since the slice started;
`tracked` the edits of tracked files against HEAD; `untracked` the files Git sees but
does not track; `copies` the baselines whose copies exist. `reset_to_slice_baseline` is six
steps (anchor, reset, clean, copy, apply, check), each of which a crash can follow.
Agents edit and commit during their sessions, the user whenever the run is stopped.
The stages of a slice are one worker session here, and the agenda's content is seen
only as commits that touch nothing else. `begun` remembers the user's edits when the
slice started; `torn` that a crash has left the checkpoint naming released copies.

### StreamSession

The runner's loop (`run_streaming_with_timeout_and_controls`) and a Claude process,
joined by two pipes: `inbox` (its standard input) and `lines` (its output). A round of
the loop is three steps, so that Claude can act in between: a line or none (`receive`),
limits and keys (`control`), closing the input and killing (`close`); a `continue` of the
code goes from `control` to `receive`. `turns` is `pending_turns` with the purpose of
each turn and the input a follow-up is to give back, `pending` and `request` are
`pending_interrupt`. Claude is external: it takes one input at a time, answers each with
one result line, reads interrupts during a turn, and what it does with them depends on
the `launcher`, chosen once: accept, reject, or ignore. `work` remembers what became of
the last stage command or steering text. Left out are commands without streamed input,
captured output, read errors, and `RestartStage`, which no backend of a streamed input
returns.

### Campaign

The agenda as a set of slices ordered by `Agenda` (component by component), the archived
ones, the checkpoint of the campaign (iterations, counters, the slice it is at) and of
the process. A slice's stages are one session, its rollback one step. A rewind resets the
branch before it forgets the checkpoint, so a rewind cut short leaves a checkpoint that
counts archives that are gone (`torn`). As in the code, a pause at the iteration limit
drops the slice it has already assigned, `local_only` is not carried into the next
iteration, and an archived change matches a slice by the suffix of its name.

### Invocation, OpenCodeTurn, CodexTurn, Backends

`Invocation` is the loop the three backends have in common, with their differences
as guards on `backend`: admission by the policy, attempts, output-limit continuations,
incomplete and missing results, provider retries with their delay, queued controls and
compactions. A Claude attempt has any result here; for OpenCode and Codex the other two
modules supply it, with a server that delivers late, fails, or works on after an error.
OpenCode's commands have no identity until the server has enqueued them; the runner adopts
the one it reads first. Codex may leave unsaid which turn a notification is of, and the
runner takes it for its own. The error of a failed turn and its end are told separately, and
the runner goes on at the error: that such a turn works no more is assumed of the server.
In a provider's backoff OpenCode may be told to wait longer (`Longer`), never shorter.
Claude's inner resends for format compatibility count as one attempt.

### Dashboard

What a key does depends on panels and confirmations the runner fills step by step
(`SetStage`, `SetCampaign`, `StartStream`, ...); `wanted` remembers that the user confirmed
`q`. `Title` composes the panel's title as `model_stage_title` does.

### CheckReceipts and CheckRegister

`CheckRegister` is the abstract specification: a set of genuine passes and the answer of
the last helper. `CheckReceipts` has locks, attempt directories, receipts in several
writes, sequence numbers and generations; helpers race, are killed, and edits disturb
runs. `GenuinePasses` says that it implements `CheckRegister` with the history of passes
as `genuine` and the pass a helper answered with as `answer`:
every step of a helper is a run, a reuse of a genuine pass, or neither.

### ReviewTrend

Rounds of review with any report, accepted or rejected, and any verdict; findings are
retained with the checkpoint, the trend in the policy's ledger, and a process may be
killed between the two saves and before the stage is saved. `accept-changes` has the policy
start its counters again (`Corrected`) and keeps reviews and findings; killed before its
checkpoint is saved, it leaves the stage where it was. The trend may stop a new
change for recurrences of the one before, whose finding numbers also start at 1:
modelled, but no property claims that a stop is never premature.

### UsageAccounting

Claude and Codex report totals of a session, OpenCode steps. The attempt's baseline is
found in the log, or not; lines are cut off, appends fail, counters restart, messages
repeat. By session, `spent` is what it used and `charged` what the lines of the log add up
to; `tail` is what the one exemption is: messages of a Claude attempt without a baseline
that follow a result which becomes the next attempt's baseline.

## 3. The runs

| Run | Instance | States | Result |
|---|---|---|---|
| `Delivery` | stages: all kinds, gate and YOLO on and off, 1 retry, 2 requests per stage, 3 product versions, 1 direction, 2 campaign iterations; inputs: 2 sound and 1 unsound version, 2 introductions, 2 settings, 2 edits; handoff: 3 trees, in 2 of which there is one slice, 2 slices before the gate | 587,000 | all hold |
| `Governance` | policy: 2 processes, 2 requests, limits 1/1/1 (requests, replans, retries); agenda: slices 1, 1.1, 2 and the terminal one, one obligation, one test for the builder, 10 records | 299,000 | all hold |
| `Rollback` | 1 untracked file, 2 snapshots, 1 replan, 1 remediation, 2 commits, corrections | 993,000 | all hold |
| `StreamSession` | threshold 1, 1 limit, 1 stop key, 2 interrupting keys, 1 rejected confusion | 417,000 | all hold |
| `Campaign` | campaign: 3 slices, 1 subdivision, 1 remediation, 2 launches, limits 1 and none; invocation: each backend, 1 output and 1 provider retry, 2 requests, 1 control, 1 late notice, delays of 1 in 2 ticks; keys: 2 slices, 1 process | 974,000 | all hold |
| `Evidence` | checks: 2 checks, 2 helpers, 4 attempts, 2 versions, 1 disturbance; reviews: 2 findings, 2 entries, 2 mishaps, limits 2 and 1; tokens: 2 sessions, 2 models, 3 tokens, 1 setback; symmetric | 1,195,000 | all hold |
| `WorkflowStaleGate` | one gated free-form campaign | | violates `RepairedIsReverified` |
| `ConcurrentResume` | 2 processes | | violates `AllowanceSpentOnce` |
| `IgnoredInterrupt` | with `IgnoredInterrupts` | | violates `RunningIsOnRecord` |
| `BaselineReleasedEarly` | 2 untracked files, no corrections | | violates `RecordedStateRestored` |
| `InterruptedFollowUp` | a slash command during another, no confusions | | violates `CommandAnswered` |
| `LaterFailureLost` | 2 checks, 2 helpers, nothing killed or edited | | violates `LaterFailureWins` |

**Delivery.** `DeliveryPromised` is the refinement of `ChangeDelivery`: which steps a delivery
may take on its way to a report. `ReviewedDelivery` and `ArchivedBeforeCommit` say what holds
of the checkpoint at its stages; `DirectionHeard` is about what resumes may
not lose; `DeliveryEnds` is termination. The exemptions are the code's: the single
delivery of an assignment run is not verified independently; once the gate has failed
after Archive (`late`), repairs are certified by the acceptance commands alone, but never
left uncertified, and nothing is archived without a review even then; and a direction given
while a gated run waits at Acceptance has no later session to be delivered to. `PreflightHolds`: a
campaign
delivers only on inputs a reviewer found READY as they are. `EvidenceHonest`: no session
is told that nothing has changed, and no gate excused its review, on a tree that did not
pass Verify from beginning to end.

**Governance.** `NoOverlap` and `RunningIsOnRecord` are the reconciliation rule;
`AllowancesHold` the durable allowances for requests, replans and repairs;
`LockReturned` says that an owner stops. `NothingLost` and `AssignmentKept` say that a
campaign that is complete has delivered what was asked for, and that a recovery takes
nothing from a delivered slice (unless a review was cut short: the code has then no older
record to compare with).

**Rollback.** `RollbackReproduces` is what a rollback promises, `BaselineKept` what makes
the next one possible, `WorkKept` that neither the user's edits nor any commit is lost,
`RecoveryEnds` termination.

**StreamSession.** `TurnsAnswered` says that the runner's queue is, in order, the
results it has not read, the turn at work and the inputs Claude has not read (`InOrder`),
although interrupts, results and rejections cross in the pipes,
and that the input is closed only when all is answered; `CommandAnswered` that no command
is lost to a slash command; `StopIsFinal` and `CommandEnds` are about stops and about the
two processes waiting for each other. The passing run leaves out one thing that users can
do, ask for a slash command while another one is under way (`Overlapping`): there the
code loses the stage command, as `InterruptedFollowUp` shows.

**Campaign.** `CountedOnce`, `AllowancesKept`: each slice is counted once, and neither
iterations nor subdivisions nor remediations exceed what was allowed, however often the
campaign is resumed. `GateLast`: the terminal gate comes after everything else.
`CampaignEnds`. `AnswersMatch`, `SessionRests`: what an invocation takes for its answer
belongs to its own input, and when it goes on or hands on, nothing of it is at work.
`InvocationEnds`. `PauseHonoured`: a confirmed request to pause survives every update of
the dashboard.

**Evidence.** `GenuinePasses` (the refinement) and `FailureWins`: no reuse without an
undisturbed pass, no pass over a later failure. The exception lasts from a run that began
while a receipt could not be read (`checks.rs:326`) to the next run of the check that reads
them all; what the code does in that window is shown by `LaterFailureLost`. `OpenRetained`: no open finding is dropped.
`StalledRepairs`: repairs without progress are bounded, over crashes between the two
records and corrections of the inputs. `ChargedOnce`: no session is charged more than it spent, but for `tail`.

Deadlock is checked in `Rollback` only: elsewhere a finished run, a run that waits for
the maintainer, and the parts at rest may stop for good.

Each property of a passing run has a mutant of a modelled definition that violates
it, so each can fail for a reason that lies in the code.

### Where the code and its documentation disagree

1. `WorkflowStaleGate`: `gate.next_stage` is never reset after a late acceptance
   failure (`app.rs:3609`), and a free-form campaign hands the gate on. A RETRY in the
   next change is repaired "late": no second Verify, no Archive.
2. `ConcurrentResume`: `resume` writes the checkpoint before it owns the run
   (`app.rs:1542`); a refused second resume puts an older retry count back.
3. `IgnoredInterrupt`: a Codex stage timeout discards a failed interrupt
   (`codex.rs:604`); if the runner then dies before its server does, a session may be
   at work that the ledger calls answered.
4. `BaselineReleasedEarly`: terminal remediation releases the old baseline before the
   new one is armed and persisted (`app.rs:2288-2295`); after a crash in between
   no rollback of that run can succeed if it had untracked files. Passing run
   `Rollback` exempts exactly this window (`torn`), and the same one in
   `accept_changes`.
5. `InterruptedFollowUp`: a result that arrives while an interrupt is pending gets only
   that interrupt's follow-up (`process.rs:465`); if it was the result of an earlier
   `/compact` or `/context`, the stage command that follow-up was to give back is
   dropped, and the stage ends without it.
6. `LaterFailureLost`: a history that cannot be read counts as empty (`checks.rs:611`), so
   the run that finds it so is numbered 1, below an older pass. "A later failure must win"
   (`checks.rs:503-504`) does not hold then: when the receipts can be read again, the older
   pass is reused. Another check's attempt between making its directory and writing its first
   receipt is enough.

The frontier key of the dashboard is never offered, which needs no run to show: the dashboard
compares the panel's title with the bare names of the stages (`dashboard.rs:695`), the runner
adds role and connection to it (`app.rs:4262`), as `Title` and `FrontierAvailable` do in
`Dashboard`; `README.md:2260-2262` promises `f`. `StreamSession` and `Invocation` model the
escalation all the same, as the code behind the key does.

Smaller ones, met while modelling and not shown by a run: `local_only` is lost at the next
iteration (`app.rs:1799`, against 1605-1614); an agenda with slugs of which one is the
suffix of another's change cannot be continued (`agenda.rs:240`); `compact_session` turns
every error but a pause into a warning (`claude.rs:1308`); a retry delay is compared with
the time that was left before the failed attempt (`claude.rs:956`, `codex.rs:1001`);
Propose does not notice changes to other changes if its own is complete
(`app.rs:2892-2915`); a Propose that answers DONE under `--change NAME` has a name and no
change (`app.rs:2868`); a commit retry reads HEAD again after the first attempt
(`app.rs:3016`); a line that is not UTF-8 ends the reader of standard output
(`process.rs:557`); usage reported by Codex only after a crash, or by messages after the
last result of an attempt without a baseline, is charged to the next attempt.

### Bounds

In `Governance` two processes and two requests suffice to overlap, to clobber a checkpoint
and to have one request unresolved while another is asked for; the limits are small enough
to be reached and passed (one retry: the second RETRY exhausts; one replan: the second is
refused). A third request identity adds no states: nothing is asked for while one is
unresolved; and which of the free identities a request gets makes no difference, so one is
chosen (`NewIdentity`). The records include one in which a slice waits for itself, one whose
test is left to the terminal slice, one in which a slice has no work, and pairs in which a
recovery takes prerequisites away. In `Delivery` two product versions tell "as reviewed or
accepted" from "changed since", and a third allows another change between a late failure and
the gate at Complete; two campaign iterations are the fewest with a hand-over; one direction
and one interruption at a time can be placed anywhere; two edits change an input and change
it back, or change it before and during a review; three trees tell one slice from several
and a changed tree from the one reviewed; which of the two sound inputs a behaviour starts
with makes no difference (`MCDelivery` chooses one); with two slices before the gate
evidence is carried over an assignment that is not the gate. In `Rollback` two commits allow
an attempt and a subdivision, or an agenda commit and another; one file can be the user's,
new, changed, deleted or committed; two snapshots are the most any checkpoint and process
refer to at once. In `StreamSession` one limit and one stop key stand for all: the first
stop wins and only its name differs; two keys and one automatic compaction give a second
interrupt, asked for while the first is pending, being followed up or already over. The
threshold is 1 instead of 3 there: it only delays the compaction. In `Campaign` one slice, a
part of it or a remediation, and the gate are the fewest that can come in a wrong order; two
launches leave one crash or pause anywhere; one retry of each kind can be exhausted; one
late notice and one control can arrive at any time (the end of a turn that failed waits until
what is unread was read: if the turn is waited for it comes after that, if not the runner
passes over it wherever it stands); two ticks fit an attempt and a delay, or
two attempts and no delay, and a provider that asks for a longer delay asks for no more than
they are; a limit of one pauses the campaign after every slice, without one
it never does. The protocols differ in what an answer that is incomplete or missing leads
to, which is no matter of the server or the clock: with Codex and OpenCode, Ready is left
out and Verify has no deadline (`Representative`). In `Evidence` two helpers race for one
check or disturb each other with two; four attempts are two runs of each; one disturbance
separates two versions and generations; two entries report two findings in every combination
of new, closed, repeated and unknown; two mishaps are a crash anywhere
and a correction, a replan or a failed acceptance before or after it; three tokens fall
before, in and after a cut-off attempt. Counters in history variables stop one above their
limit. Symmetry is used only in runs without liveness properties, over values the modules
never compare or choose among.

### Fairness

The runner is a sequential program: its own next step is weakly fair. A session ends
because `Guard::poll` ends it with its time allowance (`RequestTimeout`, `Cancel`),
so the end of a session is weakly fair as a whole, without a word about which answer.
`InvocationEnds` uses the same: the loop, the clock and the policy's stop (`StopStep`) are
fair, the servers and the user are not. In `StreamSession` the loop, the grace period and
the kernel's kill are fair; Claude is not, and `CommandEnds` states as its hypothesis that
Claude works through its input, except after a stop. Nothing is assumed of agents' work,
crashes, resumes, edits or the maintainer, and no liveness property needs them.

## 4. The proofs

`GovernanceProofs` is about the operating policy and the assignments. Of the policy it proves,
for every set of processes and requests and every value of the limits, from the named
assumptions in `OperatingPolicy` only:

* `TypeCorrect`: `Spec => []TypeOK`;
* `Recorded`, `OneAtATime`: `[]RunningIsOnRecord`, `[]NoOverlap`, given
  `~IgnoredInterrupts`; without it the run `IgnoredInterrupt` shows them false;
* `RequestsBounded`, `RollbacksBounded`, `RepairsWithinAllowance`, and from them
  `PolicyAllowances`: `[]AllowancesHold`.

None of the safety properties is inductive. The argument goes in four layers:

1. `Exclusive`: a process is at an owner's step exactly if it holds the lock. So in
   each step at most one process uses `guard`, `failure` and `attempt`.
2. `TypeInv`: `TypeOK`, and the request being asked about is one of `Requests`
   whenever a step uses it.
3. `WorkKnown`: a session at work is unresolved in the owner's memory and in the file, or
   it is the owner's own request, pending in both. This is why the order "save, then
   dispatch" matters, why an unconfirmed cancellation must be recorded before its
   outcome, and why a failed save must block the next request: `Clear` is false then.
4. `Accounted`: memory and file agree on the stage key, its count and the replans; the
   rollbacks made are at most those counted; and, until a stale checkpoint is put
   back, the repairs granted are at most the checkpoint's retries and the limit.

Each step lemma has one step per action of `Next` (`NextCases`); updates of ledger
records are lemmas of their own.

Of the assignment record of supplied work it proves `AssignmentTypes` and `WorkRetained`
(`AssignmentsSpec => []NothingLost`) for every inventory and every set of records. The
inductive invariant `AuditedAgenda` says that from the audit before Verify on the agenda
and its record agree, and that the campaign is complete only when its agenda is finished;
edits by sessions need not preserve it, because each leads back through an audit.
`AssignmentsKept` (`AssignmentKept`) adds `KeptInv`: what a recovery is compared with is what
was held when the slice was assigned, that agenda and its record had passed the audit, and
the slice was the next of it. That its prerequisites are delivered follows because they come
before it in the order of the agenda, and no two slices are each before the other
(`BeforeAsymmetric`, for ordinals that are sequences of numbers, as `agenda.rs` parses them).

`WorkflowProofs` is about the delivery of a change, for every kind of run, gate or none, and
all limits. It proves `EngineTypes` and the four properties of the runs, and one that no run
checks, `RepairsWithinBudget` (`[]RepairsBounded`). The engine has some forty actions; each is
first shown to have one of twenty effects on the state the properties look at (`StepEffects`;
`Stays`, for example: requests, stops, edits and plain resumes), and each invariant is then
proved by cases on the effects:

* `Controlled`: the checkpoint is the state of the process, evidence apart; a verdict is
  only given at Verify; a Repair session was granted; a campaign is reported at its end only;
* `ReviewInv`, for `DeliveryReviewed`: what is owed at a stage follows from the stage and, at
  Acceptance, from where the gate leads to. After a late failure the checks are owed
  until the gate passes, because a late repair leads nowhere else (`Rechecked`);
* `ArchiveInv`, for `CommitsArchived`: a change has a directory from Propose on, and behind
  Archive, or at a gate that leads there, it is archived. This theorem, and the next one,
  have the hypothesis `HonestArchive`: an agent that says so falsely is believed by the code;
* `PromiseInv` and `Evident`, for `DeliveryImplemented` (`Spec => DeliveryPromised`): what is
  declined left no change behind, a run without an OpenSpec change archives none, work in
  progress has its review or its checks before it, and evidence is never of a product that is
  yet to come. With these and the two invariants before, initial states map to initial states
  (`InitPromised`) and each effect to a step of `ChangeDelivery` or a stutter
  (`EffectsPromised`, `PassPromised`, `FailPromised`, `StepPromised`); the product and its
  evidence are outside of the effects and have a lemma of their own (`EvidenceKept`);
* `Pending`, for `DirectionDelivered`: a direction waits only where a session that can hear
  it is still to come, in this change or the next;
* `Paid`, for `RepairsWithinBudget`: each repair was paid with a retry, an acceptance failure
  or a direction in the checkpoint, and where one can be granted one is left to spend.

`RollbackProofs` is about capacity recovery, for any files, limits and number of commits.
`Sorted` says where the process can be with which state (types, the checkpoint equal to
memory outside of the changes of baselines, what a rollback is for); on it rest four
invariants, one for each mechanism. `CopiesKept`: a baseline has its copies from before
the checkpoint names it until after it names another, hence `BaselinesKept`. `RolledBack`:
what is restored after each of the six steps of a rollback, hence `RollbacksReproduce`, since
a rollback that is interrupted starts again from the same copies. `BegunRecorded`: all
baselines of a slice record the same edits, the user's; `CommitsKept`: the recovery ref
is written before `HEAD` moves. The four together give `RollbacksKeepWork`. The identity of
a new baseline is one that neither checkpoint nor memory refers to (`UnusedIdentity`), for
which the assumption on `Snapshots` asks for two.

`SuppliedProofs` is about runs with supplied contracts, beside the engine of `WorkflowProofs`,
which it extends.

Of the preflight it proves `PreflightCorrect` (`PreflightSpec => []PreflightHolds`) for every
set of versions, settings and introductions and any number of edits. `PreflightHolds` alone
is not inductive: a report on file may be reused, so the invariant `PreflightTrusted` also
says that a READY in it was read from what its key says (`FiledSound`), that a process past
the comparison holds a key of its own selection (`ProcessSound`), and that the campaign's
process, once it has opened its run, has the selection of the checkpoint.

Of the evidence it proves `HandoffHonest` (`HandoffSpec => EvidenceHonest`) for every set of
contents and any number of slices. Its invariant `EvidenceBacked` has four parts: evidence,
in memory or in `last-run.json`, that is readable has the tree and the slice of the last
review that passed (`Backed`); a review under way began on the tree there is if nobody has
edited it, and covers the whole if that is the only slice (`Beginning`), whence a
steady review of an only slice was one of the whole (`ReviewedWhole`); and only the gate
comes after the last slice (`Numbered`). The assumption `NoEvidence` says only that the
constant for "no evidence" is not evidence.

`EvidenceProofs` is about what a run leaves behind. It proves `ReceiptsTypeCorrect` and
`ReceiptsImplementRegister` (`ChecksSpec => GenuinePasses`), for any number of checks,
helpers, attempts, versions and disturbances: initial states map to initial states, and every
step to a step of `CheckRegister` or a stutter. The invariant `WorkInv` has six parts: a receipt that may be
reused stands for a genuine pass (`ReceiptsGenuine`); helpers at work have attempts of their
own (`OwnAttempts`), unwritten until they run (`Unwritten`), whose receipts then carry what
they set out with (`Carried`); the receipt a helper found is of its key (`PriorOfKey`); and
a helper about to answer stands for a pass (`ReusesPass`). `FailureWinsHolds`
(`[]FailureWins`) adds `HistoryInv`: for a check whose last run read the whole history (one not
in `unread`), the receipts are numbered so that the newest says how the last run ended, and
a helper that holds the lock works on that one.

`StalledRepairsHolds` (`[]StalledRepairs`) is about the review trend. The two counters of the
policy are no bound on the Repair sessions by themselves: a kind of review counts only if the
policy was last told of a review of this kind and change. `TrendInv` says that, unless the
count of sessions just started again, the policy is in step (`InStep`) and its counter is at
most one behind at Verify and not behind at Repair (`CountedRepairs`), so that a session
that is authorized is one of those allowed. A correction starts both counts again
(`AcceptanceKeepsTrend`). A round that is recorded and lost in a crash can
only start the count again; a closure that the policy remembers means that it has
(`RoundInStep`).

`OpenRetainedHolds` (`TrendSpec => OpenRetained`) is about what a report does to the registry,
for any number of findings and entries. `Registered` is the loop of `History::record`, a
recursive function over the entries; that it is defined (`RegistersExist`) and what it has done
after n of them (`RegisteredSoFar`: each has a place of its own with its status, the other
findings are as they were) is shown by induction, from the least number that would fail
(`UpTo`). A report that is accepted names no known finding twice, and the salvaged findings of
one that is rejected are renumbered so that they do not either (`Keepable`); their places are
then an injection into the open findings, which gives the count.

`ChargedOnceHolds` (`UsageSpec => []ChargedOnce`) is about every backend and any number of
sessions, models, tokens and setbacks. By how much the totals of a session are ahead of a
snapshot (`Ahead`) is what an attempt may be charged that starts from it, summed over the
models that the snapshot knows the amount of; `Total` is a fold over the models, and what a
fold adds up to is shown by induction over the subsets, by size (`ByModels`, `Totalled`). `AccountsInv` says that with what is charged already neither of
these exceeds what was spent: what the logs leave to later attempts (`LogsSound`), what the
attempt in progress may be charged by its baseline, by its steps, and by its last total
together with what that leaves to those after (`AttemptSound`). A session that no model has
used has no totals to start from (`UnusedUnknown`), which is why a session of Claude's own
may take over the totals of another; and Codex always has totals (`CodexReported`).

`EvidenceTypes` adds the types of the trend and of the accounts. What is spent is a sum over
the sessions, which the guard of `Work` bounds by `MaxSpent`, but a counter is one model's in
one session, and a session renamed by its backend takes over another's. `SpentBounded` says
that the totals of each session, ahead of zero, are no more than what all sessions spent
(`SumByOne`, `AheadByOne`: a token is one more in both), that an attempt's steps are no more
either, and that snapshots and amounts are within the bound; the types follow (`UsageTyped`).
It is the one place that needs the sessions to be finite in number (`SessionsAssumption`), since
the sum over them would mean nothing otherwise.

`StreamSessionProofs` is about the streamed session, for every threshold and any limits and
keys. `SessionTypes` is its types. `StopIsFinalHolds` is about steps; what makes it hold is a
state invariant (`StopInv`): the input of a cancelled process cannot be written, being
closed or the process gone, and the outcome is set only at the end, to the reason.

`TurnsAnsweredHolds` rests on `Matched`: the runner's queue splits into the turns that have
their result in the pipe, the one at work and those unread. Lemmas say what a message added
to a pipe or taken from it does to that split; with the number of turns sent and when the
input is closed it makes `SessionInv`.

`CommandAnsweredHolds` has the hypothesis that slash commands do not overlap
(`Overlapping = FALSE`), which holds until a user asks for one during another; the run
`InterruptedFollowUp` is the counterexample without it. `AnsweredInv` says of a launcher that
accepts interrupts that there is one turn at a time (`Singled`), that an interrupt always has
an action pending (`Expected`), which is over work and not over a slash command (`OverWork`),
and that interrupted work is still the turn waited for or is given back by its follow-up
(`Returned`); other launchers interrupt nothing. Work not answered is at work or unread
(`Remaining`), and the input of a process that nobody stops is closed only after the answer.

`CampaignProofs` proves `CampaignTypes` and the three invariants of the campaign for every
set of slices, agenda, limit, number of starts, subdivisions and remediations. What all of
it rests on is `Sorted`: the checkpoint is the state of the process, has the stage of the
place the process is at, and as many slices recorded as iterations finished. `CountedOnceHolds`
adds `Counting`: a slice that is assigned is not archived (`Selected`, as a name ends with
itself), so what a campaign has recorded is what it has archived, but for the slice at work.
`AllowancesKeptHolds` adds `Earned` (no more slices archived than iterations begun), `Limited`
(these within the limit, and that within the highest one given) and `Rounds`. `GateLastHolds`
adds `Reviewing`: the gate is assigned when all others are archived, because its number is
the last of those in use (assumed of the constants, as 9999 is), and after a READY of the
frontier neither agenda nor archive changes until the gate is archived.

`PauseIsHonoured` (`DashboardSpec => PauseHonoured`) is about the keys, for any number of slices
and processes. From the top of the loop on the view on the screen, and on the dashboard if
there is one, is that of the slice at work (`Showing`); so the views that the runner presents
are of the same slice, and what was confirmed is on the dashboard until the slice is over
(`Noted`).

`BackendsProofs` is about one invocation on OpenCode or Codex, for any limits and any number
of requests, controls and unread events; the loop is first reduced to four effects on what the
servers see of it (`LoopEffects`: it asks, goes on, ends or rests). `OpenCodeInv` says that
the session works on nothing whenever the loop may go on, and while a turn is waited for has
at most its one input (`OneInput`). Events are read in their order, and those behind the first
that names the input are of its execution (`Ours`): so what counts as its text, its
compaction or its end is (`EventsOfInput`), and what was heard is (`OutputOfInput`). An input
that is yet to be named is the first of its invocation, of which nothing else is in the queue
(`Named`). It gives
`SessionRestsHolds` and OpenCode's part of `AnswersMatchHolds`. `CodexInv` gives the other: the
turn that is waited for is the one started last, and what ends it (`Final`) finds it over,
with nothing said of its work behind it: so no answer, which may not name its turn, is left for
the next turn to take for its own, and no "compacted" for a compaction to find (`WorkRead`,
`OneCompaction`). What is still owed or unread then are ends of turns, which have a name. This
is why a turn that was given up must end the invocation: its late notifications may be told
apart by nothing. The proof showed that the operators for what a settled turn means
(`Meaning`, `CxCompleted`) left the choice between two fitting cases open; they follow the
order of the code now.

`BackendsTypes` (`BackendsSpec => []BackendsTypeOK`) says that the loop is never given a result
it has no case for: a fault that a turn settles to is one that was told (`MeaningType`), and
the same for Codex (`CodexReports`). The server of a backend that is not the invocation's stays
at rest (`OthersRest`). That a delay is a number (`DelayType`) rests on powers of two, which
the provers know nothing of; they count the subsets of a set (`PowerOfTwo`).

The `MC` modules check components that share no variable side by side, so each of them has a
theorem that a behaviour of the whole is one of each part: `GovernanceComposes`,
`DeliveryComposes`, `EvidenceComposes` and, but for fairness, `CampaignComposes`. With these
the theorems about the parts are theorems about what the runs check, and the type invariants of
the runs follow: `GovernanceTypes`, `DeliveryTypes`, `EvidenceTypes`, `ComposedTypes`.

Only model-checked:

* the liveness properties (`DeliveryEnds`, `LockReturned`, `RecoveryEnds`, `CommandEnds`,
  `CampaignEnds`, `InvocationEnds`), which are out of the prover's reach, as ENABLED is.

## 5. Plan

Done: all of the above. Next, in this order:

1. Propose in detail: snapshots of `openspec.rs` before and after, and which change is
   taken for the new one.
2. A Claude attempt of `Invocation` by `StreamSession`, as the two servers are.

## 6. Not modelled

Rendering (of the dashboard only the keys), argument parsing and configuration files,
installation of skills and helper files, sidecar set-up and the run summary hold no protocol
state. Parsers of statuses and streams are inputs of the handlers' actions; TLC would only
enumerate texts. The start of the OpenCode and Codex servers, their permissions, forms and
other threads' messages; the summaries, progress extensions and revisions of a policy;
costs, tools and transcripts of usage; references in documents, generated views and
schema files of supplied contracts; evidence about two repositories; the live output of
acceptance commands; `accept_changes`' rewriting of `openspec/config.yaml`. The
dashboard's request to pause is in its memory only and is lost with the process, as in the
model.

## 7. Hazards

`PROJECT.json` lists the places where this code could go wrong in a way a test would
hardly show, with the properties that would catch it, or why none does.
