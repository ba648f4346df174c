---------------------------- MODULE CheckReceipts ----------------------------
(***************************************************************************)
(* `opsx-build check` (src/src/checks.rs): helper processes that agents    *)
(* call, several at once, to run a check or to reuse the receipt of an     *)
(* earlier run of it.  A helper takes the lock of the check's key, reads   *)
(* all receipts of the scope, and keeps an attempt of its own in a new     *)
(* directory.  The runner counts failures of the independent acceptance    *)
(* as generations; a stage after a failure is given the new one.           *)
(*                                                                         *)
(* What a check depends on is one version: the repositories, declared      *)
(* dependencies, tools, environment and platform alike.  Left out: several *)
(* changes in one scope, and receipts and logs changed by hand.            *)
(***************************************************************************)
EXTENDS Naturals, FiniteSets

CONSTANTS
  Keys,         \* names of checks
  Helpers,      \* helper processes
  Attempts,     \* directories of attempts
  Versions,     \* what the inputs may be
  Nobody,       \* no helper, no attempt
  MaxDisturbances  \* bound: edits, captures and acceptances that fail, helpers killed

ASSUME CheckAssumption ==
  /\ MaxDisturbances \in Nat /\ Keys # {}
  /\ Nobody \notin Helpers \cup Attempts \cup Versions

VARIABLES
  inputs,      \* what the checks depend on now
  context,     \* the generation in context.json
  locks,       \* who holds the lock of a key
  made,        \* directories of attempts
  written,     \* those with a result.json
  receipt,     \* Record of an attempt
  helper,      \* a helper process
  disturbances,\* so far
  passes,      \* history: runs that passed, with the same inputs before and after
  last,        \* history: how the last run of a check went
  unread,      \* history: the checks whose last run began without their receipts, which
               \* were there and could not be read
  answer       \* history: the pass a helper answered with in this step, if it did

world == <<inputs, context>>
files == <<made, written, receipt>>
history == <<passes, last, unread, answer>>
checks == <<world, locks, files, helper, disturbances, history>>

(* "failed" also stands for timed out, interrupted and not launched.         *)
Outcome == {"running", "passed", "failed"}

Record ==
  [key : Keys, sequence : Nat, generation : 0..MaxDisturbances, inputs : Versions \cup {Nobody},
   outcome : Outcome, clean : BOOLEAN, hashed : BOOLEAN]

Helper ==
  [pc : {"idle", "wait", "locked", "reuse", "run", "running", "ran"}, key : Keys,
   generation : 0..MaxDisturbances, prior : Attempts \cup {Nobody},
   inputs : Versions \cup {Nobody}, attempt : Attempts \cup {Nobody}]

ChecksTypeOK ==
  /\ inputs \in Versions
  /\ context \in 0..MaxDisturbances
  /\ locks \in [Keys -> Helpers \cup {Nobody}]
  /\ made \subseteq Attempts /\ written \subseteq made
  /\ receipt \in [Attempts -> Record]
  /\ helper \in [Helpers -> Helper] /\ disturbances \in 0..MaxDisturbances

Blank ==
  [key |-> CHOOSE k \in Keys : TRUE, sequence |-> 0, generation |-> 0, inputs |-> Nobody,
   outcome |-> "running", clean |-> FALSE, hashed |-> FALSE]

Idle ==
  [pc |-> "idle", key |-> CHOOSE k \in Keys : TRUE, generation |-> 0, prior |-> Nobody,
   inputs |-> Nobody, attempt |-> Nobody]

ChecksInit ==
  /\ inputs \in Versions /\ context = 0
  /\ locks = [k \in Keys |-> Nobody]
  /\ made = {} /\ written = {}
  /\ receipt = [a \in Attempts |-> Blank]
  /\ helper = [h \in Helpers |-> Idle] /\ disturbances = 0
  /\ passes = {} /\ last = [k \in Keys |-> "none"] /\ unread = {} /\ answer = {}

Unanswered == answer' = {} /\ UNCHANGED <<passes, last, unread>>

(* What becomes known of a run of the check.                                *)
Seen(k, what) ==
  /\ answer' = {} /\ UNCHANGED passes
  /\ last' = [last EXCEPT ![k] = what]

Disturbance == disturbances < MaxDisturbances /\ disturbances' = disturbances + 1

At(h, pc) == helper[h].pc = pc
-----------------------------------------------------------------------------
(* run_cli: the context is read before the lock is waited for.              *)
Call(h) ==
  /\ At(h, "idle")
  /\ \E k \in Keys :
       helper' = [helper EXCEPT ![h] = [Idle EXCEPT !.pc = "wait", !.key = k,
                                                    !.generation = context]]
  /\ Unanswered /\ UNCHANGED <<disturbances, world, locks, files>>

(* latest_records: an attempt without a receipt, of whatever key, makes the  *)
(* history unreadable.                                                      *)
Latest(k) ==
  IF made # written THEN {}
  ELSE {a \in written : /\ receipt[a].key = k
                        /\ \A b \in written : receipt[b].key = k =>
                                                receipt[b].sequence <= receipt[a].sequence}

TakeLock(h) ==
  LET k == helper[h].key
  IN /\ At(h, "wait") /\ locks[k] = Nobody
     /\ locks' = [locks EXCEPT ![k] = h]
     /\ \E prior \in (IF Latest(k) = {} THEN {Nobody} ELSE Latest(k)) :
          helper' = [helper EXCEPT ![h].pc = "locked", ![h].prior = prior]
     /\ Unanswered /\ UNCHANGED <<disturbances, world, files>>

(* Mutant: the generation is not compared.                                  *)
ReusableEver(h, now) ==
  LET r == receipt[helper[h].prior]
  IN /\ helper[h].prior # Nobody
     /\ r.outcome = "passed" /\ r.clean
     /\ now # Nobody /\ r.inputs = now
     /\ r.hashed

(* No reason of run and file_reasons speaks against the prior receipt.       *)
Reusable(h, now) ==
  LET r == receipt[helper[h].prior]
  IN /\ helper[h].prior # Nobody
     /\ r.outcome = "passed" /\ r.clean /\ r.generation = helper[h].generation
     /\ now # Nobody /\ r.inputs = now
     /\ r.hashed

Captured(h, now) ==
  LET a == CHOOSE b \in Attempts \ made : TRUE
  IN /\ made' = made \cup {a}
     /\ helper' = [helper EXCEPT ![h].pc = IF Reusable(h, now) THEN "reuse" ELSE "run",
                                 ![h].inputs = now, ![h].attempt = a]

(* capture and create_dir, with a new name.  There are no inputs to compare   *)
(* when the runtime is not stable, no tools are declared or one cannot be    *)
(* read.  The description of a check is always the same here.               *)
Prepare(h) ==
  /\ At(h, "locked") /\ made # Attempts
  /\ \/ Captured(h, inputs) /\ UNCHANGED disturbances
     \/ Captured(h, Nobody) /\ Disturbance
  /\ Unanswered /\ UNCHANGED <<world, locks, written, receipt>>

(* Mutant: an attempt has the sequence of the one before.                   *)
SequenceKept(h) == IF helper[h].prior = Nobody THEN 1 ELSE receipt[helper[h].prior].sequence

Sequence(h) == IF helper[h].prior = Nobody THEN 1 ELSE receipt[helper[h].prior].sequence + 1

Fresh(h) ==
  [key |-> helper[h].key, sequence |-> Sequence(h), generation |-> helper[h].generation,
   inputs |-> helper[h].inputs, outcome |-> "running",
   clean |-> helper[h].inputs # Nobody, hashed |-> FALSE]

Write(h, record) ==
  /\ receipt' = [receipt EXCEPT ![helper[h].attempt] = record]
  /\ written' = written \cup {helper[h].attempt}

Leave(h) ==
  /\ helper' = [helper EXCEPT ![h] = Idle]
  /\ locks' = [k \in Keys |-> IF locks[k] = h THEN Nobody ELSE locks[k]]

PassOf(h) == [key |-> helper[h].key, inputs |-> helper[h].inputs, generation |-> helper[h].generation]

Reuse(h) ==
  /\ At(h, "reuse")
  /\ Write(h, [Fresh(h) EXCEPT !.outcome = "passed", !.hashed = TRUE])
  /\ answer' = {PassOf(h)} /\ UNCHANGED <<passes, last, unread>>
  /\ Leave(h)
  /\ UNCHANGED <<disturbances, world, made>>

(* Receipts of the check are there, but the helper has none of them.         *)
Misread(h) ==
  helper[h].prior = Nobody /\ \E a \in written : receipt[a].key = helper[h].key

Start(h) ==
  /\ At(h, "run")
  /\ Write(h, Fresh(h))
  /\ helper' = [helper EXCEPT ![h].pc = "running"]
  /\ Seen(helper[h].key, "failed")
  /\ unread' = IF Misread(h) THEN unread \cup {helper[h].key} ELSE unread \ {helper[h].key}
  /\ UNCHANGED <<disturbances, world, locks, made>>

(* execute: the outcome is written before the logs are looked at.            *)
Execute(h) ==
  /\ At(h, "running")
  /\ \E outcome \in Outcome \ {"running"} :
       /\ Write(h, [receipt[helper[h].attempt] EXCEPT !.outcome = outcome])
       /\ Seen(helper[h].key, outcome)
  /\ helper' = [helper EXCEPT ![h].pc = "ran"]
  /\ UNCHANGED <<disturbances, world, locks, made, unread>>

Passed(h) ==
  /\ answer' = {} /\ UNCHANGED <<last, unread>>
  /\ passes' = passes \cup
       (IF receipt[helper[h].attempt].outcome = "passed" /\ helper[h].inputs = inputs
        THEN {PassOf(h)} ELSE {})

(* The inputs are captured again: a receipt of inputs that changed is never  *)
(* reused.                                                                  *)
Finish(h) ==
  /\ At(h, "ran")
  /\ LET r == receipt[helper[h].attempt]
     IN Write(h, [r EXCEPT !.clean = @ /\ inputs = r.inputs, !.hashed = TRUE])
  /\ Passed(h) /\ Leave(h)
  /\ UNCHANGED <<disturbances, world, made>>

(* A helper is killed with its agent, or fails; the lock is the system's.    *)
Killed(h) ==
  /\ ~At(h, "idle") /\ Disturbance
  /\ Leave(h)
  /\ Unanswered /\ UNCHANGED <<world, files>>
-----------------------------------------------------------------------------
(* The work goes on meanwhile.                                              *)
Edit ==
  /\ Disturbance /\ inputs' \in Versions \ {inputs}
  /\ Unanswered /\ UNCHANGED <<context, locks, files, helper>>

(* independent_check_failed, and the guidance of the next stage.             *)
IndependentCheckFailed ==
  /\ Disturbance /\ context' = context + 1
  /\ Unanswered /\ UNCHANGED <<inputs, locks, files, helper>>

HelperStep(h) ==
  Call(h) \/ TakeLock(h) \/ Prepare(h) \/ Reuse(h) \/ Start(h) \/ Execute(h) \/ Finish(h) \/ Killed(h)

ChecksNext ==
  (\E h \in Helpers : HelperStep(h)) \/ Edit \/ IndependentCheckFailed

ChecksSpec == ChecksInit /\ [][ChecksNext]_checks
-----------------------------------------------------------------------------
Promised == INSTANCE CheckRegister WITH Generations <- 0..MaxDisturbances, genuine <- passes

(* Whatever helpers are interrupted, raced by edits or by one another, a      *)
(* check that is answered without a run has a run behind it that passed on    *)
(* the same inputs and in the same generation (checks.rs:507), also through   *)
(* a chain of reuses: the receipts implement CheckRegister.                  *)
GenuinePasses == Promised!Register

(* "A later failure must win" (checks.rs:504): no check is answered with an   *)
(* older pass after a run of it that failed or is under way, however many    *)
(* helpers take turns.                                                      *)
LaterFailureWins == \A p \in answer : last[p.key] = "passed"

(* What the code keeps of it.  The exception lasts from a run that began     *)
(* while the history could not be read, which an attempt of any other check  *)
(* causes between its create_dir and its first receipt, to the next run of   *)
(* the check that reads it: the sequence starts again at 1 (checks.rs:611),   *)
(* below that of an older pass.                                             *)
FailureWins == \A p \in answer : p.key \in unread \/ last[p.key] = "passed"
=============================================================================
