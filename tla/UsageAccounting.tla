--------------------------- MODULE UsageAccounting ---------------------------
(***************************************************************************)
(* The token accounts of one backend (src/src/usage.rs; record_usage in    *)
(* src/src/ui.rs): an attempt observes what its backend reports, and its   *)
(* record is appended to usage.jsonl.  Claude and Codex report totals of   *)
(* the session, so an attempt is charged the difference to the totals of   *)
(* the record before it; OpenCode reports steps.  A process may be killed, *)
(* an append may fail, and a line may be cut off.                          *)
(*                                                                         *)
(* The fields of Tokens are accounted alike; one of them, input, is        *)
(* modelled.  Left out: costs, tools, and the transcripts of Codex.        *)
(***************************************************************************)
EXTENDS Naturals, FiniteSets, FiniteSetsExt, Functions, TLC

CONSTANTS
  Sessions,
  Models,        \* the models a session uses
  Unreported,    \* None
  MaxSpent,      \* bound: tokens
  MaxSetbacks    \* bound: failures, restarts of a counter, new sessions by a backend

ASSUME UsageAssumption ==
  /\ MaxSpent \in Nat /\ MaxSetbacks \in Nat /\ Unreported \notin Nat
  /\ Sessions # {} /\ Models # {} /\ IsFiniteSet(Models)

(* What MaxSpent bounds is a sum over the sessions.                          *)
ASSUME SessionsAssumption == IsFiniteSet(Sessions)

VARIABLES
  backend,     \* which backend it is
  counter,     \* the totals that it keeps for a session, by model
  known,       \* RepoLog.snapshots: the last totals by session
  saved,       \* what the lines of usage.jsonl make of them
  cut,         \* its last line is cut off
  attempt,     \* the attempt in progress
  setbacks,    \* so far
  spent,       \* history: tokens spent, by session
  charged,     \* history: tokens on its lines of usage.jsonl
  tail         \* history: those of them that followed the last total of an attempt whose
               \* messages were counted

accounts == <<backend, counter, known, saved, cut, attempt, setbacks, spent, charged, tail>>

Backend == {"claude", "codex", "opencode"}
Amount == 0..MaxSpent
Tokens == Amount \cup {Unreported}

(* A total by model, for those that are named; Codex has one total.         *)
Totals == UNION {[M -> Tokens] : M \in SUBSET Models}
Snapshot == [models : Totals, reported : BOOLEAN]
NoSnapshotYet == [models |-> <<>>, reported |-> FALSE, missing |-> TRUE]
Zero == [models |-> <<>>, reported |-> TRUE]

(* steps: those that the backend took, by number; seen: those it reported;  *)
(* told: how many there were at the last result of Claude (history).         *)
Scope == {"unavailable", "delta", "partial", "steps", "result"}
UsageAttempt ==
  [session : Sessions, fresh : BOOLEAN, baseline : Snapshot \cup {NoSnapshotYet},
   tokens : Tokens, scope : Scope, cumulative : Snapshot \cup {NoSnapshotYet},
   steps : Amount, seen : SUBSET (1..MaxSpent), told : Amount]
NoAttempt == [session |-> Unreported]

UsageTypeOK ==
  /\ backend \in Backend
  /\ counter \in [Sessions -> UNION {[M -> Amount] : M \in SUBSET Models}]
  /\ known \in [Sessions -> Snapshot \cup {NoSnapshotYet}]
  /\ saved \in [Sessions -> Snapshot \cup {NoSnapshotYet}]
  /\ cut \in BOOLEAN
  /\ attempt \in UsageAttempt \cup {NoAttempt}
  /\ setbacks \in 0..MaxSetbacks /\ spent \in [Sessions -> Amount]

UsageInit ==
  /\ backend \in Backend
  /\ counter = [s \in Sessions |-> <<>>]
  /\ known = [s \in Sessions |-> NoSnapshotYet] /\ saved = known
  /\ cut = FALSE /\ attempt = NoAttempt
  /\ setbacks = 0 /\ spent = [s \in Sessions |-> 0] /\ charged = spent /\ tail = spent

Setback == setbacks < MaxSetbacks /\ setbacks' = setbacks + 1
-----------------------------------------------------------------------------
(* Tokens::add: what is not reported makes the sum unknown.                 *)
Plus(a, b) == IF Unreported \in {a, b} THEN Unreported ELSE a + b

(* Tokens::delta                                                            *)
Minus(a, b) == IF Unreported \in {a, b} \/ a < b THEN Unreported ELSE a - b

Of(totals, m) == IF m \in DOMAIN totals THEN totals[m] ELSE 0

(* Tokens::invalidate_decreases                                             *)
Decreased(now, before, m) ==
  m \in DOMAIN before /\ Unreported \notin {now[m], before[m]} /\ now[m] < before[m]

Validated(now, before) ==
  [m \in DOMAIN now |-> IF Decreased(now, before, m) THEN Unreported ELSE now[m]]

(* The sum over models of what was added to their totals.                   *)
Total(amount) == FoldSet(LAMBDA m, sum : Plus(sum, amount[m]), 0, Models)

Added(now, before) ==
  Total([m \in Models |-> IF m \in DOMAIN now THEN Minus(now[m], Of(before, m)) ELSE 0])

Working == attempt # NoAttempt
Unused(s) == counter[s] = <<>>
-----------------------------------------------------------------------------
(* Attempt::new                                                             *)
Begin(s, fresh, baseline) ==
  attempt' = [session |-> s, fresh |-> fresh, baseline |-> baseline, tokens |-> Unreported,
              scope |-> "unavailable", cumulative |-> NoSnapshotYet, steps |-> 0, seen |-> {}, told |-> 0]

(* Claude is given the ID of a new session with its first attempt.          *)
StartNew(s) ==
  /\ ~Working /\ backend = "claude" /\ Unused(s)
  /\ Begin(s, TRUE, Zero)
  /\ UNCHANGED <<backend, counter, known, saved, cut, setbacks, spent, charged, tail>>

StartAgain(s) ==
  /\ ~Working /\ (backend = "claude" => ~Unused(s))
  /\ Begin(s, FALSE, known[s])
  /\ UNCHANGED <<backend, counter, known, saved, cut, setbacks, spent, charged, tail>>

(* UsageLog::fresh, once a thread has been started.                         *)
ThreadStarts(s) ==
  /\ ~Working /\ backend = "codex" /\ Unused(s)
  /\ known' = [known EXCEPT ![s] = Zero]
  /\ UNCHANGED <<backend, counter, saved, cut, attempt, setbacks, spent, charged, tail>>

(* The first event names a session of the backend's own, which starts from   *)
(* nothing or from the totals of the one it continues.                       *)
Renamed(s) ==
  /\ Working /\ backend = "claude" /\ attempt.steps = 0 /\ attempt.cumulative = NoSnapshotYet
  /\ s # attempt.session /\ Unused(s) /\ known[s] = NoSnapshotYet
  /\ Setback
  /\ counter' \in {counter, [counter EXCEPT ![s] = counter[attempt.session]]}
  /\ attempt' = [attempt EXCEPT !.session = s,
                                !.baseline = IF attempt.fresh THEN @ ELSE known[s]]
  /\ UNCHANGED <<backend, known, saved, cut, spent, charged, tail>>
-----------------------------------------------------------------------------
Used(totals, m) ==
  [n \in DOMAIN totals \cup {m} |-> IF n = m THEN Of(totals, m) + 1 ELSE totals[n]]

(* The backend spends a token.                                              *)
Work(m) ==
  LET s == attempt.session
  IN /\ Working /\ SumFunction(spent) < MaxSpent
     /\ backend = "codex" => DOMAIN counter[s] \subseteq {m}
     /\ counter' = [counter EXCEPT ![s] = Used(@, m)]
     /\ attempt' = [attempt EXCEPT !.steps = @ + 1]
     /\ spent' = [spent EXCEPT ![s] = @ + 1]
     /\ UNCHANGED <<backend, known, saved, cut, setbacks, charged, tail>>

(* Its totals start again.                                                  *)
CounterRestarts(s) ==
  /\ Setback /\ ~Unused(s)
  /\ counter' = [counter EXCEPT ![s] = [m \in DOMAIN @ |-> 0]]
  /\ UNCHANGED <<backend, known, saved, cut, attempt, spent, charged, tail>>

(* What a result of Claude says of a model that the baseline knows and the   *)
(* result does not: the totals are not comparable.                           *)
Lost(base, models) == DOMAIN base.models \ models # {}

Claims(models, base, reported) ==
  /\ Working /\ backend = "claude" /\ models \subseteq DOMAIN counter[attempt.session]
  /\ models = {} \/ DOMAIN counter[attempt.session] \ DOMAIN base.models \subseteq models
  /\ IF models = DOMAIN counter[attempt.session] THEN UNCHANGED setbacks ELSE Setback
  /\ LET totals == [m \in models |-> counter[attempt.session][m]]
         now == [models |-> IF base = NoSnapshotYet THEN totals
                            ELSE Validated(totals, base.models),
                 reported |-> reported]
     IN attempt' =
          [attempt EXCEPT
             !.cumulative = now, !.told = attempt.steps,
             !.tokens = IF base = NoSnapshotYet THEN Unreported
                        ELSE IF now.reported /\ base.reported
                          THEN Added(now.models, base.models)
                        ELSE IF attempt.fresh THEN Cardinality({attempt.steps} \ {0})
                        ELSE Unreported,
             !.scope = IF base = NoSnapshotYet THEN "unavailable"
                       ELSE IF now.reported /\ base.reported THEN "delta"
                       ELSE IF attempt.fresh THEN "result" ELSE "unavailable"]
  /\ UNCHANGED <<backend, counter, known, saved, cut, spent, charged, tail>>

(* Mutant: a model that is missing does not matter.                         *)
ResultLoosely(models) == Claims(models, attempt.baseline, models # {})

(* The result of a turn.  It may name no model at all, as an older Claude    *)
(* does that only has the usage of its last turn (at least one step); if it  *)
(* names some, models may be missing that an earlier result has named.       *)
Result(models) ==
  LET base == attempt.baseline
  IN Claims(models, base, models # {} /\ (base # NoSnapshotYet => ~Lost(base, models)))

(* thread/tokenUsage/updated                                                *)
Updated ==
  LET base == attempt.baseline
      totals == counter[attempt.session]
      now == [models |-> IF base = NoSnapshotYet THEN totals
                         ELSE Validated(totals, base.models),
              reported |-> TRUE]
  IN /\ Working /\ backend = "codex" /\ totals # <<>>
     /\ attempt' =
          IF base = NoSnapshotYet
            THEN [attempt EXCEPT !.baseline = now, !.cumulative = now, !.scope = "partial"]
            ELSE [attempt EXCEPT !.cumulative = now, !.tokens = Added(now.models, base.models),
                                 !.scope = IF @ = "partial" THEN @ ELSE "delta"]
     /\ UNCHANGED <<backend, counter, known, saved, cut, setbacks, spent, charged, tail>>

(* Mutant: a step that is reported twice is charged twice.                  *)
StepTwice(n) ==
  /\ Working /\ backend \in {"claude", "opencode"} /\ n <= attempt.steps
  /\ attempt' = [attempt EXCEPT
       !.seen = @ \cup {n},
       !.tokens = IF backend = "opencode" THEN (IF @ = Unreported THEN 1 ELSE @ + 1) ELSE @,
       !.scope = IF backend = "opencode" THEN "steps" ELSE @]
  /\ UNCHANGED <<backend, counter, known, saved, cut, setbacks, spent, charged, tail>>

(* A message of Claude, or a finished step of OpenCode, is reported, again   *)
(* perhaps: Claude's whole output is read again after its stream.            *)
Step(n) ==
  /\ Working /\ backend \in {"claude", "opencode"}
  /\ n <= attempt.steps /\ n \notin attempt.seen
  /\ attempt' = [attempt EXCEPT
       !.seen = @ \cup {n},
       !.tokens = IF backend = "opencode" THEN (IF @ = Unreported THEN 1 ELSE @ + 1) ELSE @,
       !.scope = IF backend = "opencode" THEN "steps" ELSE @]
  /\ UNCHANGED <<backend, counter, known, saved, cut, setbacks, spent, charged, tail>>
-----------------------------------------------------------------------------
(* flush: without a total, the input of Claude's messages is what is known. *)
ByMessages == attempt.scope = "unavailable" /\ backend = "claude" /\ attempt.seen # {}

Tally == IF ByMessages THEN Cardinality(attempt.seen) ELSE attempt.tokens

Line == IF Tally = Unreported THEN 0 ELSE Tally

(* Mutant: a record without totals leaves the baseline as it is.            *)
NotedIfReported(log) ==
  IF attempt.cumulative = NoSnapshotYet THEN log
  ELSE [log EXCEPT ![attempt.session] = attempt.cumulative]

(* UsageLog::append: a record without totals leaves no baseline.            *)
Noted(log) == [log EXCEPT ![attempt.session] = attempt.cumulative]

RecordKept ==
  /\ Working
  /\ known' = Noted(known)
  /\ saved' = IF cut THEN saved ELSE Noted(saved)
  /\ charged' = IF cut THEN charged ELSE [charged EXCEPT ![attempt.session] = @ + Line]
  /\ tail' = IF ~cut /\ ByMessages /\ attempt.cumulative.reported
               THEN [tail EXCEPT ![attempt.session] =
                       @ + Cardinality({n \in attempt.seen : n > attempt.told})]
               ELSE tail
  /\ cut' = FALSE
  /\ attempt' = NoAttempt
  /\ UNCHANGED <<backend, counter, setbacks, spent>>

(* The append fails, before or in the middle of its line.                   *)
RecordUnsaved ==
  /\ Working /\ Setback
  /\ known' = Noted(known)
  /\ cut' \in {cut, TRUE}
  /\ attempt' = NoAttempt
  /\ UNCHANGED <<backend, counter, saved, spent, charged, tail>>

(* record_usage drops a record without a stage.                             *)
RecordUnstaged ==
  /\ Working /\ Setback
  /\ attempt' = NoAttempt
  /\ UNCHANGED <<backend, counter, known, saved, cut, spent, charged, tail>>

(* The process is killed; the next one reads usage.jsonl.                   *)
RecorderKilled ==
  /\ Setback
  /\ attempt' = NoAttempt
  /\ known' = saved
  /\ UNCHANGED <<backend, counter, saved, cut, spent, charged, tail>>

UsageNext ==
  \/ \E s \in Sessions :
       StartNew(s) \/ StartAgain(s) \/ ThreadStarts(s) \/ Renamed(s) \/ CounterRestarts(s)
  \/ \E m \in Models : Work(m)
  \/ \E models \in SUBSET Models : Result(models)
  \/ Updated
  \/ \E n \in 1..MaxSpent : Step(n)
  \/ RecordKept \/ RecordUnsaved \/ RecordUnstaged \/ RecorderKilled

UsageSpec == UsageInit /\ [][UsageNext]_accounts
-----------------------------------------------------------------------------
(* No token is charged twice: the lines of usage.jsonl never add up to more *)
(* than was spent, whatever processes were killed, lines lost, counters      *)
(* restarted, models missing and reports repeated ("Do not attribute that    *)
(* unknown interval to the following attempt", append in usage.rs).  Exempt  *)
(* are messages after the last result of an attempt without a baseline: they *)
(* are counted, and that result is nevertheless the next attempt's baseline. *)
ChargedOnce == \A s \in Sessions : charged[s] <= spent[s] + tail[s]
=============================================================================
