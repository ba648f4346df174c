--------------------------- MODULE EvidenceProofs ---------------------------
(***************************************************************************)
(* The check receipts implement CheckRegister, for any number of checks,   *)
(* helpers, attempts, versions and disturbances.  The invariant behind it: *)
(* a receipt that may be reused stands for a genuine pass; helpers at work *)
(* write to attempts of their own, whose receipts carry their key,         *)
(* generation and inputs; and a helper that is about to reuse a receipt    *)
(* stands for the pass of that receipt.                                    *)
(*                                                                         *)
(* And a later failure wins over an older pass: the holder of a key's lock *)
(* works from the newest receipt of the key and writes the next one, so    *)
(* that the newest receipt tells how the last run went, except from a run   *)
(* that begins on a history it cannot read to the next one that reads it.   *)
(*                                                                         *)
(* The review trend stops repairs that get nowhere, for any allowances and *)
(* any number of mishaps: the counter of the kind of review in use keeps   *)
(* up with the Repair sessions since a closure (TrendInv).                 *)
(*                                                                         *)
(* And no report loses an open finding: whatever it says, each finding     *)
(* that is kept has a place of its own in the registry, with the status    *)
(* the report gives it, and the others are as they were (RegisteredSoFar). *)
(*                                                                         *)
(* Last, no token is charged twice, whatever the models, the sessions and  *)
(* the setbacks: by how much a session's totals are ahead of a snapshot is *)
(* what attempts that start from it may still be charged, and with what is *)
(* charged already it never exceeds what was spent (AccountsInv).  Nor is   *)
(* any total, snapshot or attempt more than all sessions spent, so that the *)
(* accounts have their types (SpentBounded).                               *)
(*                                                                         *)
(* All of it holds of the three together, which share nothing.             *)
(***************************************************************************)
EXTENDS MCEvidence, FiniteSetTheorems, WellFoundedInduction, TLAPS

Pass == [key : Keys, inputs : Versions, generation : 0..MaxDisturbances]

Stamp(r) == [key |-> r.key, inputs |-> r.inputs, generation |-> r.generation]

Reused(r) == r.outcome = "passed" /\ r.clean /\ r.hashed

TypeInv ==
  /\ ChecksTypeOK /\ context <= disturbances
  /\ passes \subseteq Pass

ReceiptsGenuine ==
  \A a \in written : Reused(receipt[a]) =>
    receipt[a].inputs \in Versions /\ Stamp(receipt[a]) \in passes

AtWork == {"reuse", "run", "running", "ran"}

OwnAttempts ==
  /\ \A h \in Helpers : helper[h].pc \in AtWork => helper[h].attempt \in made
  /\ \A h, g \in Helpers :
       h # g /\ helper[h].pc \in AtWork /\ helper[g].pc \in AtWork
         => helper[h].attempt # helper[g].attempt

Unwritten ==
  \A h \in Helpers : helper[h].pc \in {"reuse", "run"} => helper[h].attempt \notin written

Carried ==
  \A h \in Helpers : helper[h].pc \in {"running", "ran"} =>
    /\ helper[h].attempt \in written
    /\ Stamp(receipt[helper[h].attempt]) = PassOf(h)
    /\ ~receipt[helper[h].attempt].hashed

PriorOfKey ==
  \A h \in Helpers : helper[h].pc = "locked" /\ helper[h].prior # Nobody =>
    helper[h].prior \in written /\ receipt[helper[h].prior].key = helper[h].key

ReusesPass ==
  \A h \in Helpers : helper[h].pc = "reuse" =>
    helper[h].inputs \in Versions /\ PassOf(h) \in passes

WorkInv == ReceiptsGenuine /\ OwnAttempts /\ Unwritten /\ Carried /\ PriorOfKey /\ ReusesPass
-----------------------------------------------------------------------------
(* Idle helpers and blank receipts name some check.                         *)
LEMMA SomeKey == (CHOOSE k \in Keys : TRUE) \in Keys
BY CheckAssumption

(* What helpers and receipts start as.                                      *)
LEMMA IdleType == Idle \in Helper /\ Blank \in Record
BY SomeKey, CheckAssumption DEF Idle, Blank, Helper, Record, Outcome

(* The types hold before anybody calls.                                     *)
LEMMA InitType == ChecksInit => TypeInv
BY IdleType, CheckAssumption DEF ChecksInit, TypeInv, ChecksTypeOK

(* What the steps have in common: a helper changes, or the attempt it works  *)
(* on gets another receipt.                                                 *)
LEMMA HelperType ==
  ASSUME TypeInv, NEW h \in Helpers, NEW new \in Helper,
         helper' = [helper EXCEPT ![h] = new]
  PROVE  helper' \in [Helpers -> Helper]
BY DEF TypeInv, ChecksTypeOK

(* Writing a receipt to an attempt that was made keeps the files' types.     *)
LEMMA WriteType ==
  ASSUME TypeInv, NEW h \in Helpers, helper[h].attempt \in made,
         NEW record \in Record, Write(h, record)
  PROVE  /\ receipt' \in [Attempts -> Record]
         /\ written' \subseteq made
BY DEF TypeInv, ChecksTypeOK, Write

(* The receipt a helper starts from is one.                                  *)
LEMMA FreshType ==
  ASSUME TypeInv, NEW h \in Helpers
  PROVE  Fresh(h) \in Record
<1>1. helper[h] \in Helper
  BY DEF TypeInv, ChecksTypeOK
<1>2. Sequence(h) \in Nat
  BY <1>1 DEF TypeInv, ChecksTypeOK, Sequence, Record, Helper
<1> QED
  BY <1>1, <1>2 DEF Fresh, Record, Helper, Outcome

(* A helper that leaves is idle and its locks are nobody's.                 *)
LEMMA LeaveType ==
  ASSUME TypeInv, NEW h \in Helpers, Leave(h)
  PROVE  helper' \in [Helpers -> Helper] /\ locks' \in [Keys -> Helpers \cup {Nobody}]
BY IdleType DEF TypeInv, ChecksTypeOK, Leave

(* The attempt that Prepare makes was not there before.                     *)
LEMMA NewAttempt ==
  ASSUME TypeInv, NEW h \in Helpers, NEW now \in Versions \cup {Nobody},
         made # Attempts, Captured(h, now)
  PROVE  \E a \in Attempts \ made :
           /\ made' = made \cup {a}
           /\ helper' = [helper EXCEPT ![h] =
                [helper[h] EXCEPT !.pc = IF Reusable(h, now) THEN "reuse" ELSE "run",
                                  !.inputs = now, !.attempt = a]]
<1> DEFINE a == CHOOSE b \in Attempts \ made : TRUE
<1>1. a \in Attempts \ made
  BY DEF TypeInv, ChecksTypeOK
<1>2. helper[h] \in Helper
  BY DEF TypeInv, ChecksTypeOK
<1> QED
  BY <1>1, <1>2 DEF Captured, Helper, TypeInv, ChecksTypeOK

(* The prior receipt is one of the helper's key.                             *)
LEMMA PriorTaken ==
  ASSUME TypeInv, NEW h \in Helpers, TakeLock(h)
  PROVE  \E prior \in Attempts \cup {Nobody} :
           /\ prior = Nobody \/ (prior \in written /\ receipt[prior].key = helper[h].key)
           /\ helper' = [helper EXCEPT ![h] =
                [helper[h] EXCEPT !.pc = "locked", !.prior = prior]]
<1> DEFINE L == Latest(helper[h].key)
<1>1. PICK prior \in (IF L = {} THEN {Nobody} ELSE L) :
        helper' = [helper EXCEPT ![h].pc = "locked", ![h].prior = prior]
  BY DEF TakeLock
<1>2. L \subseteq Attempts /\ \A a \in L : a \in written /\ receipt[a].key = helper[h].key
  BY DEF Latest, TypeInv, ChecksTypeOK
<1>3. helper[h] \in Helper /\ helper \in [Helpers -> Helper]
  BY DEF TypeInv, ChecksTypeOK
<1>4. helper' = [helper EXCEPT ![h] = [helper[h] EXCEPT !.pc = "locked", !.prior = prior]]
  BY <1>1, <1>3 DEF Helper
<1> QED
  BY <1>1, <1>2, <1>4

(* Every step keeps the types.                                              *)
LEMMA NextType == TypeInv /\ OwnAttempts /\ [ChecksNext]_checks => TypeInv'
<1> SUFFICES ASSUME TypeInv, OwnAttempts, [ChecksNext]_checks PROVE TypeInv'
  OBVIOUS
<1> USE CheckAssumption
<1>a. Disturbance => disturbances' \in 0..MaxDisturbances /\ disturbances' = disturbances + 1
  BY DEF Disturbance, TypeInv, ChecksTypeOK
<1>1. ASSUME NEW h \in Helpers, HelperStep(h) PROVE TypeInv'
  <2>0. helper[h] \in Helper /\ helper \in [Helpers -> Helper]
    BY DEF TypeInv, ChecksTypeOK
  <2>1. CASE Call(h)
    <3>1. PICK k \in Keys :
            helper' = [helper EXCEPT ![h] = [Idle EXCEPT !.pc = "wait", !.key = k,
                                                         !.generation = context]]
      BY <2>1 DEF Call
    <3>2. [Idle EXCEPT !.pc = "wait", !.key = k, !.generation = context] \in Helper
      BY IdleType DEF Helper, TypeInv, ChecksTypeOK
    <3>3. helper' \in [Helpers -> Helper]
      BY <2>0, <3>1, <3>2
    <3> QED
      BY <2>1, <3>3 DEF Call, Unanswered, world, files, TypeInv, ChecksTypeOK
  <2>2. CASE TakeLock(h)
    <3>0. PICK prior \in Attempts \cup {Nobody} :
            helper' = [helper EXCEPT ![h] = [helper[h] EXCEPT !.pc = "locked", !.prior = prior]]
      BY <2>2, PriorTaken
    <3>1. helper' \in [Helpers -> Helper]
      BY <2>0, <3>0 DEF Helper
    <3>2. passes' = passes /\ UNCHANGED <<disturbances, world, files>>
      BY <2>2 DEF TakeLock, Seen, Unanswered
    <3>3. locks' \in [Keys -> Helpers \cup {Nobody}]
      BY <2>0, <2>2 DEF TakeLock, TypeInv, ChecksTypeOK, Helper
    <3> QED
      BY <3>1, <3>2, <3>3 DEF world, files, TypeInv, ChecksTypeOK
  <2>3. CASE Prepare(h)
    <3>1. PICK now \in Versions \cup {Nobody} :
            /\ Captured(h, now)
            /\ disturbances' = disturbances \/ Disturbance
      BY <2>3 DEF Prepare, TypeInv, ChecksTypeOK
    <3>2. PICK a \in Attempts \ made :
            /\ made' = made \cup {a}
            /\ helper' = [helper EXCEPT ![h] =
                 [helper[h] EXCEPT !.pc = IF Reusable(h, now) THEN "reuse" ELSE "run",
                                   !.inputs = now, !.attempt = a]]
      <4>1. made # Attempts
        BY <2>3 DEF Prepare
      <4> QED
        BY <3>1, <4>1, NewAttempt, ZenonT(30)
    <3>3. helper' \in [Helpers -> Helper]
      BY <2>0, <3>2 DEF Helper
    <3>4. UNCHANGED <<world, locks, written, receipt, passes>>
      BY <2>3 DEF Prepare, Unanswered
    <3>5. disturbances' \in 0..MaxDisturbances /\ disturbances <= disturbances'
      BY <1>a, <3>1 DEF TypeInv, ChecksTypeOK
    <3> QED
      BY <3>2, <3>3, <3>4, <3>5 DEF world, TypeInv, ChecksTypeOK
  <2>4. CASE Reuse(h)
    <3>1. Fresh(h) \in Record
      BY FreshType
    <3>2. [Fresh(h) EXCEPT !.outcome = "passed", !.hashed = TRUE] \in Record
      BY <3>1 DEF Record, Outcome
    <3>3. helper[h].attempt \in made
      BY <2>4 DEF Reuse, At, OwnAttempts, AtWork
    <3>4. receipt' \in [Attempts -> Record] /\ written' \subseteq made
      BY <2>4, <3>2, <3>3, WriteType DEF Reuse
    <3>5. helper' \in [Helpers -> Helper] /\ locks' \in [Keys -> Helpers \cup {Nobody}]
      BY <2>4, LeaveType DEF Reuse
    <3> QED
      BY <2>4, <3>4, <3>5 DEF Reuse, world, TypeInv, ChecksTypeOK
  <2>5. CASE Start(h)
    <3>1. Fresh(h) \in Record
      BY FreshType
    <3>2. helper[h].attempt \in made
      BY <2>5 DEF Start, At, OwnAttempts, AtWork
    <3>3. receipt' \in [Attempts -> Record] /\ written' \subseteq made
      BY <2>5, <3>1, <3>2, WriteType DEF Start
    <3>4. helper' \in [Helpers -> Helper]
      BY <2>0, <2>5 DEF Start, Helper
    <3> QED
      BY <2>5, <3>3, <3>4 DEF Start, Seen, world, TypeInv, ChecksTypeOK
  <2>6. CASE Execute(h)
    <3>1. helper[h].attempt \in made
      BY <2>6 DEF Execute, At, OwnAttempts, AtWork
    <3>2. receipt[helper[h].attempt] \in Record
      BY <3>1 DEF TypeInv, ChecksTypeOK
    <3>3. PICK outcome \in Outcome \ {"running"} :
            Write(h, [receipt[helper[h].attempt] EXCEPT !.outcome = outcome])
      BY <2>6 DEF Execute
    <3>4. [receipt[helper[h].attempt] EXCEPT !.outcome = outcome] \in Record
      BY <3>2 DEF Record
    <3>5. receipt' \in [Attempts -> Record] /\ written' \subseteq made
      BY <3>1, <3>3, <3>4, WriteType
    <3>6. helper' \in [Helpers -> Helper]
      BY <2>0, <2>6 DEF Execute, Helper
    <3> QED
      BY <2>6, <3>5, <3>6 DEF Execute, Seen, world, TypeInv, ChecksTypeOK
  <2>7. CASE Finish(h)
    <3> DEFINE r == receipt[helper[h].attempt]
    <3>1. helper[h].attempt \in made
      BY <2>7 DEF Finish, At, OwnAttempts, AtWork
    <3>2. r \in Record
      BY <3>1 DEF TypeInv, ChecksTypeOK
    <3>3. [r EXCEPT !.clean = @ /\ inputs = r.inputs, !.hashed = TRUE] \in Record
      BY <3>2 DEF Record
    <3>4. receipt' \in [Attempts -> Record] /\ written' \subseteq made
      BY <2>7, <3>1, <3>3, WriteType DEF Finish
    <3>5. helper' \in [Helpers -> Helper] /\ locks' \in [Keys -> Helpers \cup {Nobody}]
      BY <2>7, LeaveType DEF Finish
    <3>6. passes' \subseteq Pass
      BY <2>0, <2>7 DEF Finish, Passed, PassOf, Pass, Helper, TypeInv, ChecksTypeOK
    <3> QED
      BY <2>7, <3>4, <3>5, <3>6 DEF Finish, world, TypeInv, ChecksTypeOK
  <2>8. CASE Killed(h)
    <3>1. helper' \in [Helpers -> Helper] /\ locks' \in [Keys -> Helpers \cup {Nobody}]
      BY <2>8, LeaveType DEF Killed
    <3> QED
      BY <1>a, <2>8, <3>1 DEF Killed, Unanswered, world, files, TypeInv, ChecksTypeOK
  <2> QED
    BY <1>1, <2>1, <2>2, <2>3, <2>4, <2>5, <2>6, <2>7, <2>8 DEF HelperStep
<1>2. CASE Edit
  BY <1>a, <1>2 DEF Edit, Unanswered, files, TypeInv, ChecksTypeOK
<1>3. CASE IndependentCheckFailed
  BY <1>a, <1>3 DEF IndependentCheckFailed, Unanswered, files, TypeInv, ChecksTypeOK
<1>4. CASE UNCHANGED checks
  BY <1>4 DEF checks, world, files, history, TypeInv, ChecksTypeOK
<1> QED
  BY <1>1, <1>2, <1>3, <1>4 DEF ChecksNext

(* Nothing is reused before anything ran.                                   *)
LEMMA InitWork == ChecksInit => WorkInv
BY DEF ChecksInit, WorkInv, ReceiptsGenuine, OwnAttempts, AtWork, Unwritten, Carried, PriorOfKey,
       ReusesPass, Idle

(* A helper that leaves is none of those the invariant speaks of.            *)
LEMMA OthersStay ==
  ASSUME TypeInv, NEW h \in Helpers, Leave(h)
  PROVE  /\ helper'[h].pc = "idle"
         /\ \A g \in Helpers \ {h} : helper'[g] = helper[g]
BY DEF TypeInv, ChecksTypeOK, Leave, Idle

(* A helper may write to its own attempt any receipt that keeps its key and, *)
(* if it can be reused, stands for a genuine pass.                          *)
LEMMA WriteKeepsWork ==
  ASSUME TypeInv, WorkInv, NEW h \in Helpers, helper[h].pc \in AtWork,
         NEW record, Write(h, record), passes \subseteq passes', UNCHANGED made,
         record.key = helper[h].key,
         Reused(record) => record.inputs \in Versions /\ Stamp(record) \in passes',
         \A g \in Helpers \ {h} : helper'[g] = helper[g],
         \/ helper'[h].pc = "idle"
         \/ /\ helper'[h].pc \in {"running", "ran"} /\ helper'[h].attempt = helper[h].attempt
            /\ Stamp(record) = PassOf(h)' /\ ~record.hashed
  PROVE  WorkInv'
<1> DEFINE own == helper[h].attempt
<1>1. own \in Attempts /\ own \in made
  BY DEF WorkInv, OwnAttempts, TypeInv, ChecksTypeOK
<1>2. /\ written' = written \cup {own}
      /\ receipt'[own] = record
      /\ \A a \in Attempts \ {own} : receipt'[a] = receipt[a]
  BY <1>1 DEF Write, TypeInv, ChecksTypeOK
<1>3. written \subseteq Attempts /\ made \subseteq Attempts
  BY DEF TypeInv, ChecksTypeOK
<1>4. \A g \in Helpers \ {h} : helper[g].pc \in AtWork => helper[g].attempt # own
  BY DEF WorkInv, OwnAttempts
<1>5. own \in written => receipt[own].key = helper[h].key
  BY DEF WorkInv, Unwritten, Carried, AtWork, Stamp, PassOf
<1>6. ReceiptsGenuine'
  BY <1>2, <1>3 DEF WorkInv, ReceiptsGenuine
<1>7. OwnAttempts'
  BY <1>1 DEF WorkInv, OwnAttempts, AtWork
<1>8. Unwritten'
  BY <1>2, <1>4 DEF WorkInv, Unwritten, AtWork
<1>9. Carried'
  <2> SUFFICES ASSUME NEW g \in Helpers, helper'[g].pc \in {"running", "ran"}
               PROVE  /\ helper'[g].attempt \in written'
                      /\ Stamp(receipt'[helper'[g].attempt]) = PassOf(g)'
                      /\ ~receipt'[helper'[g].attempt].hashed
    BY DEF Carried
  <2>1. CASE g = h
    BY <1>2, <2>1
  <2>2. CASE g # h
    <3>1. helper'[g] = helper[g] /\ PassOf(g)' = PassOf(g)
      BY <2>2 DEF PassOf
    <3>2. helper[g].attempt # own /\ helper[g].attempt \in written
      BY <1>4, <2>2, <3>1 DEF WorkInv, Carried, AtWork
    <3>3. receipt'[helper[g].attempt] = receipt[helper[g].attempt]
      BY <1>2, <1>3, <3>2
    <3> QED
      BY <1>2, <3>1, <3>2, <3>3 DEF WorkInv, Carried
  <2> QED
    BY <2>1, <2>2
<1>10. PriorOfKey'
  <2> SUFFICES ASSUME NEW g \in Helpers, helper'[g].pc = "locked", helper'[g].prior # Nobody
               PROVE  /\ helper'[g].prior \in written'
                      /\ receipt'[helper'[g].prior].key = helper'[g].key
    BY DEF PriorOfKey
  <2>1. helper'[g] = helper[g]
    OBVIOUS
  <2>2. helper[g].prior \in written /\ receipt[helper[g].prior].key = helper[g].key
    BY <2>1 DEF WorkInv, PriorOfKey
  <2> QED
    BY <1>2, <1>3, <1>5, <2>1, <2>2
<1>11. ReusesPass'
  BY DEF WorkInv, ReusesPass, PassOf
<1> QED
  BY <1>6, <1>7, <1>8, <1>9, <1>10, <1>11 DEF WorkInv

(* Every step of a helper, or of the work meanwhile, keeps the receipts      *)
(* genuine and the helpers on attempts of their own.                        *)
LEMMA NextWork == TypeInv /\ WorkInv /\ [ChecksNext]_checks => WorkInv'
<1> SUFFICES ASSUME TypeInv, WorkInv, [ChecksNext]_checks PROVE WorkInv'
  OBVIOUS
<1> USE DEF WorkInv
<1>1. ASSUME NEW h \in Helpers, HelperStep(h) PROVE WorkInv'
  <2>0. helper[h] \in Helper /\ helper \in [Helpers -> Helper]
    BY DEF TypeInv, ChecksTypeOK
  <2>1. CASE Call(h)
    <3>1. PICK k \in Keys :
            helper' = [helper EXCEPT ![h] = [Idle EXCEPT !.pc = "wait", !.key = k,
                                                         !.generation = context]]
      BY <2>1 DEF Call
    <3>2. helper'[h].pc = "wait" /\ \A g \in Helpers \ {h} : helper'[g] = helper[g]
      BY <2>0, <3>1 DEF Idle
    <3>3. UNCHANGED <<files, passes>>
      BY <2>1 DEF Call, Unanswered
    <3> QED
      BY <3>2, <3>3 DEF files, ReceiptsGenuine, OwnAttempts, AtWork, Unwritten, Carried,
                        PriorOfKey, ReusesPass, PassOf
  <2>2. CASE TakeLock(h)
    <3>1. PICK prior \in Attempts \cup {Nobody} :
            /\ prior = Nobody \/ (prior \in written /\ receipt[prior].key = helper[h].key)
            /\ helper' = [helper EXCEPT ![h] = [helper[h] EXCEPT !.pc = "locked", !.prior = prior]]
      BY <2>2, PriorTaken
    <3>2. /\ helper'[h].pc = "locked" /\ helper'[h].prior = prior
          /\ helper'[h].key = helper[h].key
          /\ \A g \in Helpers \ {h} : helper'[g] = helper[g]
      BY <2>0, <3>1 DEF Helper
    <3>3. UNCHANGED <<files, passes>>
      BY <2>2 DEF TakeLock, Seen, Unanswered
    <3> QED
      BY <3>1, <3>2, <3>3 DEF files, ReceiptsGenuine, OwnAttempts, AtWork, Unwritten, Carried,
                        PriorOfKey, ReusesPass, PassOf
  <2>3. CASE Prepare(h)
    <3>1. PICK now \in Versions \cup {Nobody} : Captured(h, now)
      BY <2>3 DEF Prepare, TypeInv, ChecksTypeOK
    <3>2. PICK a \in Attempts \ made :
            /\ made' = made \cup {a}
            /\ helper' = [helper EXCEPT ![h] =
                 [helper[h] EXCEPT !.pc = IF Reusable(h, now) THEN "reuse" ELSE "run",
                                   !.inputs = now, !.attempt = a]]
      BY <2>3, <3>1, NewAttempt DEF Prepare
    <3>3. /\ helper'[h].pc = (IF Reusable(h, now) THEN "reuse" ELSE "run")
          /\ helper'[h].inputs = now /\ helper'[h].attempt = a
          /\ helper'[h].key = helper[h].key /\ helper'[h].generation = helper[h].generation
          /\ \A g \in Helpers \ {h} : helper'[g] = helper[g]
      BY <2>0, <3>2 DEF Helper
    <3>4. UNCHANGED <<written, receipt, passes>> /\ helper[h].pc = "locked"
      BY <2>3 DEF Prepare, Unanswered, At
    <3>5. Reusable(h, now) => now \in Versions /\ PassOf(h)' \in passes'
      BY <3>3, <3>4 DEF Reusable, PriorOfKey, ReceiptsGenuine, Reused, Stamp, PassOf
    <3>6. a \notin written /\ written \subseteq made
      BY DEF TypeInv, ChecksTypeOK
    <3>7. OwnAttempts' /\ Unwritten'
      BY <3>2, <3>3, <3>4, <3>6 DEF OwnAttempts, AtWork, Unwritten
    <3>8. ReusesPass'
      BY <3>3, <3>4, <3>5 DEF ReusesPass, PassOf
    <3>9. ReceiptsGenuine' /\ Carried' /\ PriorOfKey'
      BY <3>3, <3>4 DEF ReceiptsGenuine, Carried, PriorOfKey, PassOf
    <3> QED
      BY <3>7, <3>8, <3>9
  <2>4. CASE Reuse(h)
    <3> DEFINE record == [Fresh(h) EXCEPT !.outcome = "passed", !.hashed = TRUE]
    <3>1. helper[h].pc = "reuse" /\ Write(h, record) /\ UNCHANGED <<made, passes>>
      BY <2>4 DEF Reuse, At
    <3>2. /\ record.key = helper[h].key /\ record.inputs = helper[h].inputs
          /\ Stamp(record) = PassOf(h)
      BY DEF Fresh, Stamp, PassOf
    <3>3. helper[h].inputs \in Versions /\ PassOf(h) \in passes
      BY <3>1 DEF ReusesPass
    <3> HIDE DEF record
    <3> QED
      BY <2>4, <3>1, <3>2, <3>3, OthersStay, WriteKeepsWork DEF Reuse, AtWork
  <2>5. CASE Start(h)
    <3>1. helper[h].pc = "run" /\ Write(h, Fresh(h)) /\ UNCHANGED <<made, passes>>
      BY <2>5 DEF Start, At, Seen
    <3>2. /\ helper'[h] = [helper[h] EXCEPT !.pc = "running"]
          /\ \A g \in Helpers \ {h} : helper'[g] = helper[g]
      BY <2>0, <2>5 DEF Start, Helper
    <3>3. /\ helper'[h].pc = "running" /\ helper'[h].attempt = helper[h].attempt
          /\ PassOf(h)' = PassOf(h)
      BY <2>0, <3>2 DEF Helper, PassOf
    <3>4. /\ Fresh(h).key = helper[h].key /\ Stamp(Fresh(h)) = PassOf(h)
          /\ ~Fresh(h).hashed /\ ~Reused(Fresh(h))
      BY DEF Fresh, Stamp, PassOf, Reused
    <3> QED
      BY <3>1, <3>2, <3>3, <3>4, WriteKeepsWork DEF AtWork
  <2>6. CASE Execute(h)
    <3> DEFINE r == receipt[helper[h].attempt]
    <3>1. PICK outcome \in Outcome : Write(h, [r EXCEPT !.outcome = outcome])
      BY <2>6 DEF Execute
    <3> DEFINE record == [r EXCEPT !.outcome = outcome]
    <3>2. helper[h].pc = "running" /\ UNCHANGED <<made, passes>>
      BY <2>6 DEF Execute, At, Seen
    <3>3. r \in Record /\ Stamp(r) = PassOf(h) /\ ~r.hashed
      BY <3>2 DEF Carried, TypeInv, ChecksTypeOK
    <3>4. /\ record.key = helper[h].key /\ Stamp(record) = PassOf(h)
          /\ ~record.hashed /\ ~Reused(record)
      BY <3>3 DEF Record, Stamp, PassOf, Reused
    <3>5. /\ helper'[h] = [helper[h] EXCEPT !.pc = "ran"]
          /\ \A g \in Helpers \ {h} : helper'[g] = helper[g]
      BY <2>0, <2>6 DEF Execute, Helper
    <3>6. /\ helper'[h].pc = "ran" /\ helper'[h].attempt = helper[h].attempt
          /\ PassOf(h)' = PassOf(h)
      BY <2>0, <3>5 DEF Helper, PassOf
    <3> HIDE DEF record
    <3> QED
      BY <3>1, <3>2, <3>4, <3>5, <3>6, WriteKeepsWork DEF AtWork, record
  <2>7. CASE Finish(h)
    <3> DEFINE r == receipt[helper[h].attempt]
               record == [r EXCEPT !.clean = @ /\ inputs = r.inputs, !.hashed = TRUE]
    <3>1. helper[h].pc = "ran" /\ Write(h, record) /\ UNCHANGED made /\ Leave(h)
      BY <2>7 DEF Finish, At
    <3>2. r \in Record /\ Stamp(r) = PassOf(h)
      BY <3>1 DEF Carried, TypeInv, ChecksTypeOK
    <3>3. /\ record.key = helper[h].key /\ Stamp(record) = PassOf(h)
          /\ record.inputs = helper[h].inputs /\ record.outcome = r.outcome
          /\ record.clean => inputs = helper[h].inputs
      BY <3>2 DEF Record, Stamp, PassOf
    <3>4. /\ passes \subseteq passes'
          /\ r.outcome = "passed" /\ helper[h].inputs = inputs => PassOf(h) \in passes'
      BY <2>7 DEF Finish, Passed
    <3>5. inputs \in Versions
      BY DEF TypeInv, ChecksTypeOK
    <3>6. Reused(record) => record.inputs \in Versions /\ Stamp(record) \in passes'
      BY <3>3, <3>4, <3>5 DEF Reused
    <3> HIDE DEF record
    <3> QED
      BY <3>1, <3>3, <3>4, <3>6, OthersStay, WriteKeepsWork DEF AtWork
  <2>8. CASE Killed(h)
    <3>1. /\ helper'[h].pc = "idle"
          /\ \A g \in Helpers \ {h} : helper'[g] = helper[g]
      BY <2>8, OthersStay DEF Killed
    <3>2. UNCHANGED <<files, passes>>
      BY <2>8 DEF Killed, Unanswered
    <3> QED
      BY <3>1, <3>2 DEF files, ReceiptsGenuine, OwnAttempts, AtWork, Unwritten, Carried,
                        PriorOfKey, ReusesPass, PassOf
  <2> QED
    BY <1>1, <2>1, <2>2, <2>3, <2>4, <2>5, <2>6, <2>7, <2>8 DEF HelperStep
<1>2. CASE Edit
  BY <1>2 DEF Edit, Unanswered, files, ReceiptsGenuine, OwnAttempts, AtWork, Unwritten, Carried,
              PriorOfKey, ReusesPass, PassOf
<1>3. CASE IndependentCheckFailed
  BY <1>3 DEF IndependentCheckFailed, Unanswered, files, ReceiptsGenuine, OwnAttempts, AtWork,
              Unwritten, Carried, PriorOfKey, ReusesPass, PassOf
<1>4. CASE UNCHANGED checks
  BY <1>4 DEF checks, files, history, ReceiptsGenuine, OwnAttempts, AtWork, Unwritten, Carried,
              PriorOfKey, ReusesPass, PassOf
<1> QED
  BY <1>1, <1>2, <1>3, <1>4 DEF ChecksNext
-----------------------------------------------------------------------------
(* A later failure wins over an older pass.                                 *)

Busy == {"locked", "reuse", "run", "running", "ran"}

(* The helpers at work on a key take turns.                                 *)
LocksHeld ==
  \A h \in Helpers : helper[h].pc \in Busy => locks[helper[h].key] = h

Lasts == last \in [Keys -> {"none", "passed", "failed"}]

OfKey(k) == {a \in written : receipt[a].key = k}

Newest(a, k) ==
  a \in OfKey(k) /\ \A b \in OfKey(k) : receipt[b].sequence <= receipt[a].sequence

(* No two receipts of a key are its newest.                                 *)
OneNewest(k) == \A a, b \in OfKey(k) : Newest(a, k) /\ Newest(b, k) => a = b

(* The newest receipt says how the last run went.                           *)
NewestKnown(k) ==
  \A a \in OfKey(k) : Newest(a, k) /\ receipt[a].outcome = "passed" => last[k] = "passed"

(* A helper that has a prior receipt has the newest, and its own is the       *)
(* newest once it runs the check.                                           *)
WorksOnNewest(h) ==
  /\ helper[h].pc \in {"locked", "reuse", "run"} /\ helper[h].prior # Nobody =>
       Newest(helper[h].prior, helper[h].key)
  /\ helper[h].pc = "reuse" =>
       helper[h].prior # Nobody /\ receipt[helper[h].prior].outcome = "passed"
  /\ helper[h].pc \in {"running", "ran"} /\ helper[h].key \notin unread =>
       Newest(helper[h].attempt, helper[h].key)

HistoryInv ==
  /\ Lasts /\ LocksHeld
  /\ \A k \in Keys : k \notin unread => OneNewest(k) /\ NewestKnown(k)
  /\ \A h \in Helpers : WorksOnNewest(h)

(* The checks start without receipts.                                       *)
LEMMA InitHistory == ChecksInit => HistoryInv
BY DEF ChecksInit, HistoryInv, Lasts, LocksHeld, Busy, OfKey, Newest, OneNewest, NewestKnown,
       WorksOnNewest, Idle

(* A helper that leaves gives back its own locks only.                      *)
LEMMA LeaveLocks ==
  ASSUME TypeInv, LocksHeld, NEW h \in Helpers, Leave(h)
  PROVE  LocksHeld'
<1>1. helper'[h].pc = "idle" /\ \A g \in Helpers \ {h} : helper'[g] = helper[g]
  BY OthersStay
<1>2. \A g \in Helpers : helper[g].key \in Keys
  BY DEF TypeInv, ChecksTypeOK, Helper
<1>3. locks' = [k \in Keys |-> IF locks[k] = h THEN Nobody ELSE locks[k]]
  BY DEF Leave
<1> QED
  BY <1>1, <1>2, <1>3 DEF LocksHeld, Busy

(* What a run shows of its check changes the history of that check only.    *)
LEMMA SeenLast ==
  ASSUME Lasts, NEW k \in Keys, NEW what \in {"passed", "failed"}, Seen(k, what)
  PROVE  Lasts' /\ last'[k] = what /\ \A j \in Keys \ {k} : last'[j] = last[j]
BY DEF Lasts, Seen

(* The receipts of a key are written by the holder of its lock, each after   *)
(* the newest so far.                                                       *)
LEMMA WriteKeepsHistory ==
  ASSUME TypeInv, WorkInv, HistoryInv, NEW h \in Helpers, helper[h].pc \in AtWork,
         NEW record \in Record, Write(h, record), record.key = helper[h].key,
         Lasts', \A j \in Keys \ {record.key} : last'[j] = last[j],
         \A j \in Keys \ {record.key} : j \in unread' <=> j \in unread,
         record.key \notin unread' =>
           /\ \A b \in OfKey(record.key) \ {helper[h].attempt} :
                receipt[b].sequence < record.sequence
           /\ record.outcome = "passed" => last'[record.key] = "passed",
         LocksHeld',
         \A g \in Helpers \ {h} : helper'[g] = helper[g],
         \/ helper'[h].pc = "idle"
         \/ /\ helper'[h].pc \in {"running", "ran"} /\ helper'[h].attempt = helper[h].attempt
            /\ helper'[h].key = helper[h].key
  PROVE  HistoryInv'
<1>a. PICK own \in Attempts : own = helper[h].attempt
  BY DEF WorkInv, OwnAttempts, TypeInv, ChecksTypeOK
<1>k. PICK k \in Keys : k = record.key /\ k = helper[h].key
  BY DEF Record
<1>1. written \subseteq Attempts
  BY DEF TypeInv, ChecksTypeOK
<1>2. /\ written' = written \cup {own}
      /\ receipt'[own] = record
      /\ \A a \in Attempts \ {own} : receipt'[a] = receipt[a]
  BY <1>a DEF Write, TypeInv, ChecksTypeOK
<1>3. own \in written => receipt[own].key = k
  BY <1>a, <1>k DEF WorkInv, Unwritten, Carried, AtWork, Stamp, PassOf
<1>4. OfKey(k)' = OfKey(k) \cup {own}
  BY <1>1, <1>2, <1>3, <1>k DEF OfKey
<1>5. \A j \in Keys \ {k} : /\ OfKey(j)' = OfKey(j) /\ own \notin OfKey(j)
                            /\ \A a \in OfKey(j) : receipt'[a] = receipt[a]
  BY <1>1, <1>2, <1>3, <1>k DEF OfKey
<1>6. \A a \in Attempts : receipt[a].sequence \in Nat /\ record.sequence \in Nat
  BY DEF TypeInv, ChecksTypeOK, Record
<1>7. \A j \in Keys : OfKey(j) \subseteq Attempts
  BY <1>1 DEF OfKey
<1>8. ASSUME k \notin unread'
      PROVE  OneNewest(k)' /\ NewestKnown(k)' /\ Newest(own, k)'
  <2>1. /\ \A b \in OfKey(k) \ {own} : receipt'[b] = receipt[b]
                                    /\ receipt[b].sequence < record.sequence
        /\ (record.outcome = "passed" => last'[k] = "passed")
    BY <1>1, <1>2, <1>7, <1>8, <1>a, <1>k
  <2>2. Newest(own, k)'
    <3>1. ASSUME NEW b \in OfKey(k)' PROVE receipt'[b].sequence <= receipt'[own].sequence
      <4>1. CASE b = own
        BY <1>6, <1>2, <4>1
      <4>2. CASE b \in OfKey(k) \ {own}
        BY <1>2, <1>6, <1>7, <2>1, <4>2
      <4> QED
        BY <1>4, <3>1, <4>1, <4>2
    <3> QED
      BY <1>4, <3>1 DEF Newest
  <2>3. \A a \in OfKey(k)' : Newest(a, k)' => a = own
    BY <1>1, <1>2, <1>4, <1>6, <1>7, <2>1 DEF Newest
  <2> QED
    BY <1>2, <2>1, <2>2, <2>3 DEF OneNewest, NewestKnown
<1>9. \A j \in Keys \ {k}, a \in Attempts : Newest(a, j)' <=> Newest(a, j)
  BY <1>5 DEF Newest
<1>10. ASSUME NEW j \in Keys, j # k, j \notin unread'
       PROVE  OneNewest(j)' /\ NewestKnown(j)'
  <2>1. OneNewest(j) /\ NewestKnown(j) /\ last'[j] = last[j]
    BY <1>10, <1>k DEF HistoryInv
  <2>2. /\ OfKey(j)' = OfKey(j) /\ OfKey(j) \subseteq Attempts
        /\ \A a \in OfKey(j) : receipt'[a] = receipt[a] /\ (Newest(a, j)' <=> Newest(a, j))
    BY <1>5, <1>7, <1>9, <1>10
  <2> QED
    BY <2>1, <2>2 DEF OneNewest, NewestKnown
<1>11. ASSUME NEW g \in Helpers PROVE WorksOnNewest(g)'
  <2>1. CASE g = h
    BY <1>8, <1>a, <1>k, <2>1 DEF WorksOnNewest
  <2>2. CASE g # h /\ helper[g].key = k
    <3>1. helper[g].pc \notin Busy
      BY <1>k, <2>2 DEF HistoryInv, LocksHeld, Busy, AtWork
    <3> QED
      BY <2>2, <3>1 DEF WorksOnNewest, Busy
  <2>3. CASE g # h /\ helper[g].key # k
    <3> DEFINE j == helper[g].key
    <3>1. helper'[g] = helper[g] /\ j \in Keys /\ (j \in unread' <=> j \in unread)
      BY <1>k, <2>3 DEF TypeInv, ChecksTypeOK, Helper
    <3>2. WorksOnNewest(g)
      BY DEF HistoryInv
    <3>3. helper[g].attempt \in Attempts \cup {Nobody} /\ helper[g].prior \in Attempts \cup {Nobody}
      BY DEF TypeInv, ChecksTypeOK, Helper
    <3>4. Newest(Nobody, j) => FALSE
      BY <1>7, <3>1, CheckAssumption DEF Newest
    <3>5. helper[g].prior # Nobody /\ Newest(helper[g].prior, j) =>
            receipt'[helper[g].prior] = receipt[helper[g].prior]
      BY <1>5, <2>3, <3>1 DEF Newest
    <3> QED
      BY <1>5, <1>9, <2>3, <3>1, <3>2, <3>3, <3>4, <3>5 DEF WorksOnNewest
  <2> QED
    BY <2>1, <2>2, <2>3
<1> QED
  BY <1>8, <1>10, <1>11 DEF HistoryInv

(* A step that writes no receipt and takes no lock changes the helper at    *)
(* most.                                                                    *)
LEMMA QuietKeepsHistory ==
  ASSUME HistoryInv, UNCHANGED <<written, receipt, last, unread>>, LocksHeld',
         \A g \in Helpers : \/ helper'[g] = helper[g]
                            \/ helper'[g].pc \in {"idle", "wait"}
  PROVE  HistoryInv'
BY DEF HistoryInv, Lasts, OfKey, Newest, OneNewest, NewestKnown, WorksOnNewest

(* What the holder of the lock writes next is the newest receipt, unless it   *)
(* could not read the others.                                               *)
LEMMA HistoryOrders ==
  ASSUME TypeInv, WorkInv, HistoryInv, NEW h \in Helpers
  PROVE  /\ helper[h].pc \in {"reuse", "run"} /\ ~Misread(h) =>
              \A b \in OfKey(helper[h].key) : receipt[b].sequence < Sequence(h)
         /\ helper[h].pc = "reuse" =>
              ~Misread(h) /\ (helper[h].key \notin unread => last[helper[h].key] = "passed")
         /\ helper[h].pc \in {"running", "ran"} /\ helper[h].key \notin unread =>
              /\ \A b \in OfKey(helper[h].key) \ {helper[h].attempt} :
                   receipt[b].sequence < receipt[helper[h].attempt].sequence
              /\ receipt[helper[h].attempt].outcome = "passed" => last[helper[h].key] = "passed"
<1> DEFINE k == helper[h].key
<1>1. k \in Keys
  BY DEF TypeInv, ChecksTypeOK, Helper
<1>2. WorksOnNewest(h) /\ (k \notin unread => OneNewest(k) /\ NewestKnown(k))
  BY <1>1 DEF HistoryInv
<1>3. OfKey(k) \subseteq Attempts
  BY DEF OfKey, TypeInv, ChecksTypeOK
<1>4. \A a \in Attempts : receipt[a].sequence \in Nat
  BY DEF TypeInv, ChecksTypeOK, Record
<1>5. helper[h].pc \in {"reuse", "run"} /\ ~Misread(h) =>
        \A b \in OfKey(k) : receipt[b].sequence < Sequence(h)
  <2>1. helper[h].prior = Nobody /\ ~Misread(h) => OfKey(k) = {}
    BY DEF Misread, OfKey
  <2> QED
    BY <1>2, <1>3, <1>4, <2>1 DEF WorksOnNewest, Newest, Sequence
<1>6. helper[h].pc = "reuse" => ~Misread(h) /\ (k \notin unread => last[k] = "passed")
  BY <1>2 DEF WorksOnNewest, Newest, NewestKnown, Misread
<1>7. ASSUME helper[h].pc \in {"running", "ran"}, k \notin unread
      PROVE  /\ \A b \in OfKey(k) \ {helper[h].attempt} :
                  receipt[b].sequence < receipt[helper[h].attempt].sequence
             /\ receipt[helper[h].attempt].outcome = "passed" => last[k] = "passed"
  <2>1. Newest(helper[h].attempt, k) /\ OneNewest(k) /\ NewestKnown(k)
    BY <1>2, <1>7 DEF WorksOnNewest
  <2>2. \A b \in OfKey(k) : receipt[b].sequence <= receipt[helper[h].attempt].sequence
    BY <2>1 DEF Newest
  <2>3. ASSUME NEW b \in OfKey(k), receipt[b].sequence = receipt[helper[h].attempt].sequence
        PROVE  b = helper[h].attempt
    BY <2>1, <2>3 DEF Newest, OneNewest
  <2> QED
    BY <1>3, <1>4, <2>1, <2>2, <2>3 DEF Newest, NewestKnown
<1> QED
  BY <1>5, <1>6, <1>7

(* The receipts stay in order, the newest telling how the last run went.     *)
LEMMA NextHistory == TypeInv /\ WorkInv /\ HistoryInv /\ [ChecksNext]_checks => HistoryInv'
<1> SUFFICES ASSUME TypeInv, WorkInv, HistoryInv, [ChecksNext]_checks PROVE HistoryInv'
  OBVIOUS
<1>0. Lasts /\ LocksHeld
  BY DEF HistoryInv
<1>1. ASSUME NEW h \in Helpers, HelperStep(h) PROVE HistoryInv'
  <2> DEFINE k == helper[h].key
             own == helper[h].attempt
  <2>0. /\ helper[h] \in Helper /\ helper \in [Helpers -> Helper] /\ k \in Keys
        /\ locks \in [Keys -> Helpers \cup {Nobody}]
    BY DEF TypeInv, ChecksTypeOK, Helper
  <2>1. CASE Call(h)
    <3>1. helper'[h].pc = "wait" /\ \A g \in Helpers \ {h} : helper'[g] = helper[g]
      BY <2>0, <2>1 DEF Call, Idle
    <3>2. UNCHANGED <<locks, written, receipt, last, unread>>
      BY <2>1 DEF Call, Unanswered, files
    <3>3. LocksHeld'
      BY <1>0, <3>1, <3>2 DEF LocksHeld, Busy
    <3> QED
      BY <3>1, <3>2, <3>3, QuietKeepsHistory
  <2>2. CASE TakeLock(h)
    <3>1. PICK prior \in (IF Latest(k) = {} THEN {Nobody} ELSE Latest(k)) :
            helper' = [helper EXCEPT ![h].pc = "locked", ![h].prior = prior]
      BY <2>2 DEF TakeLock
    <3>2. /\ helper'[h].pc = "locked" /\ helper'[h].prior = prior /\ helper'[h].key = k
          /\ \A g \in Helpers \ {h} : helper'[g] = helper[g]
      BY <2>0, <3>1 DEF Helper
    <3>3. /\ locks[k] = Nobody /\ locks' = [locks EXCEPT ![k] = h]
          /\ UNCHANGED <<written, receipt, last, unread>>
      BY <2>2 DEF TakeLock, Unanswered, files
    <3>4. LocksHeld'
      BY <1>0, <2>0, <3>2, <3>3, CheckAssumption DEF LocksHeld, Busy
    <3>5. prior # Nobody => Newest(prior, k)
      <4>1. written \subseteq Attempts
        BY DEF TypeInv, ChecksTypeOK
      <4> QED
        BY <3>1, <4>1, CheckAssumption DEF Latest, Newest, OfKey
    <3>6. \A j \in Keys : OfKey(j)' = OfKey(j) /\ \A a : Newest(a, j)' <=> Newest(a, j)
      BY <3>3 DEF OfKey, Newest
    <3>7. \A j \in Keys : j \notin unread' => OneNewest(j)' /\ NewestKnown(j)'
      BY <3>3 DEF HistoryInv, OneNewest, NewestKnown, OfKey, Newest
    <3>8. WorksOnNewest(h)'
      BY <2>0, <3>2, <3>5, <3>6 DEF WorksOnNewest
    <3>9. ASSUME NEW g \in Helpers, g # h PROVE WorksOnNewest(g)'
      <4>1. helper'[g] = helper[g] /\ helper[g].key \in Keys
        BY <2>0, <3>2, <3>9 DEF Helper
      <4>2. WorksOnNewest(g)
        BY DEF HistoryInv
      <4> QED
        BY <3>3, <3>6, <4>1, <4>2 DEF WorksOnNewest
    <3> QED
      BY <1>0, <3>3, <3>4, <3>7, <3>8, <3>9 DEF HistoryInv, Lasts
  <2>3. CASE Prepare(h)
    <3>1. PICK now \in Versions \cup {Nobody} : Captured(h, now)
      BY <2>3 DEF Prepare, TypeInv, ChecksTypeOK
    <3>2. PICK a \in Attempts \ made :
            /\ made' = made \cup {a}
            /\ helper' = [helper EXCEPT ![h] =
                 [helper[h] EXCEPT !.pc = IF Reusable(h, now) THEN "reuse" ELSE "run",
                                   !.inputs = now, !.attempt = a]]
      BY <2>3, <3>1, NewAttempt DEF Prepare
    <3>3. /\ helper'[h].pc = (IF Reusable(h, now) THEN "reuse" ELSE "run")
          /\ helper'[h].key = k /\ helper'[h].prior = helper[h].prior
          /\ \A g \in Helpers \ {h} : helper'[g] = helper[g]
      BY <2>0, <3>2 DEF Helper
    <3>4. UNCHANGED <<locks, written, receipt, last, unread>> /\ helper[h].pc = "locked"
      BY <2>3 DEF Prepare, Unanswered, At
    <3>5. LocksHeld'
      BY <1>0, <2>0, <3>3, <3>4 DEF LocksHeld, Busy
    <3>6. Reusable(h, now) =>
            helper[h].prior # Nobody /\ receipt[helper[h].prior].outcome = "passed"
      BY DEF Reusable
    <3>7. WorksOnNewest(h)'
      BY <2>0, <3>3, <3>4, <3>6 DEF HistoryInv, WorksOnNewest, OfKey, Newest
    <3> QED
      BY <3>3, <3>4, <3>5, <3>7
      DEF HistoryInv, Lasts, OfKey, Newest, OneNewest, NewestKnown, WorksOnNewest
  <2>4. CASE Reuse(h)
    <3> DEFINE record == [Fresh(h) EXCEPT !.outcome = "passed", !.hashed = TRUE]
    <3>1. helper[h].pc = "reuse" /\ Write(h, record) /\ Leave(h) /\ UNCHANGED <<last, unread>>
      BY <2>4 DEF Reuse, At
    <3>2. Fresh(h) \in Record
      BY FreshType
    <3>3. /\ record \in Record /\ record.key = k /\ record.outcome = "passed"
          /\ record.sequence = Sequence(h)
      BY <3>2 DEF Record, Outcome, Fresh
    <3>4. /\ k \notin unread => last[k] = "passed"
          /\ \A b \in OfKey(k) : receipt[b].sequence < Sequence(h)
      BY <2>0, <3>1, HistoryOrders
    <3>5. LocksHeld' /\ helper'[h].pc = "idle" /\ \A g \in Helpers \ {h} : helper'[g] = helper[g]
      BY <1>0, <3>1, LeaveLocks, OthersStay
    <3> HIDE DEF record
    <3>6. Lasts'
      BY <1>0, <3>1 DEF Lasts
    <3> QED
      BY <3>1, <3>3, <3>4, <3>5, <3>6, WriteKeepsHistory DEF AtWork
  <2>5. CASE Start(h)
    <3>1. /\ helper[h].pc = "run" /\ Write(h, Fresh(h)) /\ Seen(k, "failed") /\ UNCHANGED locks
          /\ unread' = IF Misread(h) THEN unread \cup {k} ELSE unread \ {k}
      BY <2>5 DEF Start, At
    <3>2. Fresh(h) \in Record
      BY FreshType
    <3>3. Fresh(h).key = k /\ Fresh(h).outcome = "running" /\ Fresh(h).sequence = Sequence(h)
      BY DEF Fresh
    <3>4. k \notin unread' => \A b \in OfKey(k) : receipt[b].sequence < Sequence(h)
      BY <2>0, <3>1, HistoryOrders
    <3>5. /\ helper'[h] = [helper[h] EXCEPT !.pc = "running"]
          /\ \A g \in Helpers \ {h} : helper'[g] = helper[g]
      BY <2>0, <2>5 DEF Start, Helper
    <3>6. helper'[h].pc = "running" /\ helper'[h].attempt = own /\ helper'[h].key = k
      BY <2>0, <3>5 DEF Helper
    <3>7. LocksHeld'
      BY <1>0, <2>0, <3>1, <3>5, <3>6 DEF LocksHeld, Busy
    <3>8. Lasts' /\ \A j \in Keys \ {k} : last'[j] = last[j] /\ (j \in unread' <=> j \in unread)
      BY <1>0, <2>0, <3>1, SeenLast
    <3> QED
      BY <3>1, <3>2, <3>3, <3>4, <3>5, <3>6, <3>7, <3>8, WriteKeepsHistory DEF AtWork
  <2>6. CASE Execute(h)
    <3> DEFINE r == receipt[own]
    <3>1. PICK outcome \in {"passed", "failed"} :
            Write(h, [r EXCEPT !.outcome = outcome]) /\ Seen(k, outcome)
      BY <2>6 DEF Execute, Outcome
    <3> DEFINE record == [r EXCEPT !.outcome = outcome]
    <3>2. helper[h].pc = "running" /\ UNCHANGED <<locks, unread>>
      BY <2>6 DEF Execute, At
    <3>3. r \in Record /\ r.key = k
      BY <3>2 DEF WorkInv, Carried, TypeInv, ChecksTypeOK, Stamp, PassOf
    <3>4. /\ record \in Record /\ record.key = k /\ record.outcome = outcome
          /\ record.sequence = r.sequence
      BY <3>3 DEF Record, Outcome
    <3>5. k \notin unread => \A b \in OfKey(k) \ {own} : receipt[b].sequence < r.sequence
      BY <2>0, <3>2, HistoryOrders
    <3>6. /\ helper'[h] = [helper[h] EXCEPT !.pc = "ran"]
          /\ \A g \in Helpers \ {h} : helper'[g] = helper[g]
      BY <2>0, <2>6 DEF Execute, Helper
    <3>7. helper'[h].pc = "ran" /\ helper'[h].attempt = own /\ helper'[h].key = k
      BY <2>0, <3>6 DEF Helper
    <3>8. LocksHeld'
      <4>1. \A g \in Helpers : helper'[g].key = helper[g].key
                              /\ (helper'[g].pc \in Busy => helper[g].pc \in Busy)
        BY <3>2, <3>6, <3>7 DEF Busy
      <4> QED
        BY <1>0, <3>2, <4>1 DEF LocksHeld
    <3>9. Lasts' /\ last'[k] = outcome /\ \A j \in Keys \ {k} : last'[j] = last[j]
      BY <1>0, <2>0, <3>1, SeenLast
    <3>10. Write(h, record)
      BY <3>1
    <3> HIDE DEF record
    <3> QED
      BY <3>2, <3>4, <3>5, <3>6, <3>7, <3>8, <3>9, <3>10, WriteKeepsHistory DEF AtWork
  <2>7. CASE Finish(h)
    <3> DEFINE r == receipt[own]
               record == [r EXCEPT !.clean = @ /\ inputs = r.inputs, !.hashed = TRUE]
    <3>1. helper[h].pc = "ran" /\ Write(h, record) /\ Leave(h) /\ UNCHANGED <<last, unread>>
      BY <2>7 DEF Finish, At, Passed
    <3>2. r \in Record /\ r.key = k
      BY <3>1 DEF WorkInv, Carried, TypeInv, ChecksTypeOK, Stamp, PassOf
    <3>3. /\ record \in Record /\ record.key = k /\ record.outcome = r.outcome
          /\ record.sequence = r.sequence
      BY <3>2 DEF Record
    <3>4. k \notin unread =>
            /\ \A b \in OfKey(k) \ {own} : receipt[b].sequence < r.sequence
            /\ r.outcome = "passed" => last[k] = "passed"
      BY <2>0, <3>1, HistoryOrders
    <3>5. LocksHeld' /\ helper'[h].pc = "idle" /\ \A g \in Helpers \ {h} : helper'[g] = helper[g]
      BY <1>0, <3>1, LeaveLocks, OthersStay
    <3>6. Lasts'
      BY <1>0, <3>1 DEF Lasts
    <3> HIDE DEF record
    <3> QED
      BY <3>1, <3>3, <3>4, <3>5, <3>6, WriteKeepsHistory DEF AtWork
  <2>8. CASE Killed(h)
    <3>1. Leave(h) /\ UNCHANGED <<written, receipt, last, unread>>
      BY <2>8 DEF Killed, Unanswered, files
    <3>2. LocksHeld' /\ helper'[h].pc = "idle" /\ \A g \in Helpers \ {h} : helper'[g] = helper[g]
      BY <1>0, <3>1, LeaveLocks, OthersStay
    <3> QED
      BY <3>1, <3>2, QuietKeepsHistory
  <2> QED
    BY <1>1, <2>1, <2>2, <2>3, <2>4, <2>5, <2>6, <2>7, <2>8 DEF HelperStep
<1>2. CASE Edit \/ IndependentCheckFailed \/ UNCHANGED checks
  <2>1. UNCHANGED <<written, receipt, last, unread, locks, helper>>
    BY <1>2 DEF Edit, IndependentCheckFailed, Unanswered, checks, files, history
  <2>2. LocksHeld'
    BY <1>0, <2>1 DEF LocksHeld
  <2> QED
    BY <2>1, <2>2, QuietKeepsHistory
<1> QED
  BY <1>1, <1>2 DEF ChecksNext

-----------------------------------------------------------------------------
(* Both invariants hold throughout.                                         *)
LEMMA AlwaysInv == ChecksSpec => [](TypeInv /\ WorkInv)
<1>1. ChecksInit => TypeInv /\ WorkInv
  BY InitType, InitWork
<1>2. TypeInv /\ WorkInv /\ [ChecksNext]_checks => (TypeInv /\ WorkInv)'
  BY NextType, NextWork DEF WorkInv
<1> QED
  BY <1>1, <1>2, PTL DEF ChecksSpec

(* Every variable keeps its type; the generation in the context is never     *)
(* beyond what a receipt may name.                                          *)
THEOREM ReceiptsTypeCorrect == ChecksSpec => []ChecksTypeOK
<1>1. TypeInv => ChecksTypeOK
  BY DEF TypeInv
<1> QED
  BY <1>1, AlwaysInv, PTL

(* Every step of the helpers is a step of the register or changes nothing    *)
(* there.                                                                   *)
LEMMA StepRefines ==
  TypeInv /\ TypeInv' /\ WorkInv /\ [ChecksNext]_checks
    => [Promised!RegisterNext]_<<passes, answer>>
<1> SUFFICES ASSUME TypeInv, TypeInv', WorkInv, [ChecksNext]_checks
             PROVE  [Promised!RegisterNext]_<<passes, answer>>
  OBVIOUS
<1> USE DEF Promised!RegisterNext, Promised!NotPassed
<1>1. ASSUME NEW h \in Helpers, HelperStep(h)
      PROVE  [Promised!RegisterNext]_<<passes, answer>>
  <2>1. CASE Call(h) \/ TakeLock(h) \/ Prepare(h) \/ Start(h) \/ Execute(h) \/ Killed(h)
    <3>1. answer' = {} /\ passes' = passes
      BY <2>1 DEF Call, TakeLock, Prepare, Start, Execute, Killed, Unanswered, Seen
    <3> QED
      BY <3>1
  <2>2. CASE Reuse(h)
    <3>1. PassOf(h) \in passes /\ answer' = {PassOf(h)} /\ passes' = passes
      BY <2>2 DEF Reuse, At, WorkInv, ReusesPass
    <3> QED
      BY <3>1 DEF Promised!Reused
  <2>3. CASE Finish(h)
    <3>1. PICK gained \in SUBSET {PassOf(h)} : passes' = passes \cup gained /\ answer' = {}
      BY <2>3 DEF Finish, Passed
    <3>2. passes' = passes \/ (PassOf(h) \in passes' /\ passes' = passes \cup {PassOf(h)})
      BY <3>1
    <3>3. passes' \subseteq Promised!Pass
      BY DEF TypeInv, Pass, Promised!Pass
    <3> QED
      BY <3>1, <3>2, <3>3 DEF Promised!Ran
  <2> QED
    BY <1>1, <2>1, <2>2, <2>3 DEF HelperStep
<1>2. CASE Edit \/ IndependentCheckFailed \/ UNCHANGED checks
  BY <1>2 DEF Edit, IndependentCheckFailed, Unanswered, checks, history
<1> QED
  BY <1>1, <1>2 DEF ChecksNext

(* The receipts implement the register: no check is answered from a receipt  *)
(* without a genuine pass behind it, for any number of helpers.             *)
THEOREM ReceiptsImplementRegister == ChecksSpec => GenuinePasses
<1>1. ChecksInit => Promised!RegisterInit
  BY DEF ChecksInit, Promised!RegisterInit
<1> QED
  BY <1>1, AlwaysInv, StepRefines, PTL DEF ChecksSpec, GenuinePasses, Promised!Register

(* However many helpers take turns, are killed or meet an unreadable history: *)
(* no check is answered with an older pass after a run of it that failed or   *)
(* is under way, unless that run began on a history that could not be read.  *)
THEOREM FailureWinsHolds == ChecksSpec => []FailureWins
<1>1. ChecksInit => HistoryInv /\ FailureWins
  BY InitHistory DEF ChecksInit, FailureWins
<1>2. TypeInv /\ WorkInv /\ HistoryInv /\ [ChecksNext]_checks => HistoryInv'
  BY NextHistory
<1>3. TypeInv /\ WorkInv /\ HistoryInv /\ FailureWins /\ [ChecksNext]_checks => FailureWins'
  <2> SUFFICES ASSUME TypeInv, WorkInv, HistoryInv, FailureWins, [ChecksNext]_checks
               PROVE  FailureWins'
    OBVIOUS
  <2>1. CASE \E h \in Helpers : Reuse(h)
    <3>1. PICK h \in Helpers : Reuse(h)
      BY <2>1
    <3>2. answer' = {PassOf(h)} /\ UNCHANGED <<last, unread>> /\ helper[h].pc = "reuse"
      BY <3>1 DEF Reuse, At
    <3>3. helper[h].key \in unread \/ last[helper[h].key] = "passed"
      BY <3>2, HistoryOrders
    <3> QED
      BY <3>2, <3>3 DEF FailureWins, PassOf
  <2>2. CASE UNCHANGED checks
    BY <2>2 DEF checks, history, FailureWins
  <2>3. CASE ~(\E h \in Helpers : Reuse(h)) /\ ChecksNext
    <3>1. answer' = {}
      BY <2>3 DEF ChecksNext, HelperStep, Call, TakeLock, Prepare, Start, Execute, Finish, Killed,
                  Passed, Seen, Unanswered, Edit, IndependentCheckFailed
    <3> QED
      BY <3>1 DEF FailureWins
  <2> QED
    BY <2>1, <2>2, <2>3
<1> QED
  BY <1>1, <1>2, <1>3, AlwaysInv, PTL DEF ChecksSpec
-----------------------------------------------------------------------------
(* The review trend                                                         *)

Kind(accepted) == IF accepted THEN "structured" ELSE "unstructured"

LedgerShape ==
  /\ ledger = [last |-> ledger.last, change |-> ledger.change,
               pending |-> ledger.pending, pendingChange |-> ledger.pendingChange,
               noProgress |-> ledger.noProgress, unassessable |-> ledger.unassessable,
               recurrences |-> ledger.recurrences]
  /\ ledger.noProgress \in Nat /\ ledger.unassessable \in Nat
  /\ ledger.pendingChange \in Nat /\ ledger.pendingChange <= change

(* The counter of the policy that the kind of review in use drives.         *)
Counted == IF structured THEN ledger.noProgress ELSE ledger.unassessable

(* The policy was last told of a review of this change, of this kind.       *)
InStep == ledger.change = change /\ ledger.last = Kind(structured)

(* What the Repair sessions so far have cost, by the stage persisted: at    *)
(* Verify the last of them may not be counted yet.                          *)
CountedRepairs ==
  /\ stage = "Verify" /\ next = "Verify" =>
       stalled = 0 \/ (InStep /\ stalled <= Counted + 1)
  /\ stage = "Repair" \/ next = "Repair" => InStep /\ stalled <= Counted
  /\ stage = "done" \/ next = "done" => InStep /\ stalled = 0

(* A round is recorded and told at Verify; a closure in it, or in one the    *)
(* policy remembers, starts the count again.                                *)
RoundInStep ==
  /\ round # NoRound => stage = "Verify" /\ next = "Verify"
  /\ round # NoRound => round.structured = structured
  /\ round.closed # {} => stalled = 0
  /\ Earlier # {} => stage = "Verify" /\ next = "Verify" /\ stalled = 0

TrendInv ==
  /\ stage \in {"Verify", "Repair", "done"} /\ next \in {"Verify", "Repair", "done"}
  /\ next # stage => stage = "Verify"
  /\ structured \in BOOLEAN /\ stalled \in Nat /\ change \in Nat \ {0}
  /\ LedgerShape /\ CountedRepairs /\ RoundInStep /\ StalledRepairs
(* A round of review that is recorded keeps the count, and starts it again   *)
(* when the kind of review changes (Recorded).                              *)
LEMMA RecordedKeepsTrend ==
  ASSUME TrendInv, Reviewing, NEW verdict, NEW accepted \in BOOLEAN, NEW closed, NEW reopened,
         Recorded(verdict, accepted, closed, reopened), UNCHANGED <<stage, next, change, ledger>>
  PROVE  TrendInv'
<1>1. stage = "Verify" /\ next = "Verify"
  BY DEF Reviewing, AtRest
<1>2. /\ round'.structured = accepted /\ round'.closed = closed
      /\ structured' = accepted
      /\ stalled' = IF closed # {} \/ accepted # structured THEN 0 ELSE stalled
  BY DEF Recorded
<1>3. Earlier' = Earlier
  BY DEF Earlier
<1>4. LedgerShape'
  BY DEF TrendInv, LedgerShape
<1>5. CountedRepairs'
  BY <1>1, <1>2 DEF TrendInv, CountedRepairs, InStep, Kind, Counted
<1>6. RoundInStep'
  BY <1>1, <1>2, <1>3 DEF TrendInv, RoundInStep
<1>7. StalledRepairs'
  BY <1>2, TrendAssumption DEF TrendInv, StalledRepairs
<1> QED
  BY <1>1, <1>2, <1>4, <1>5, <1>6, <1>7 DEF TrendInv

(* What Guard::review makes of the recorded round: the counter of its kind   *)
(* goes up unless something was closed or the kind is a new one.            *)
LEMMA ReviewedCounts ==
  ASSUME TrendInv, round # NoRound
  PROVE  /\ Reviewed = [last |-> Reviewed.last, change |-> Reviewed.change,
                        pending |-> Reviewed.pending, pendingChange |-> Reviewed.pendingChange,
                        noProgress |-> Reviewed.noProgress, unassessable |-> Reviewed.unassessable,
                        recurrences |-> Reviewed.recurrences]
         /\ Reviewed.noProgress \in Nat /\ Reviewed.unassessable \in Nat
         /\ Reviewed.last = Kind(structured) /\ Reviewed.change = change
         /\ Reviewed.pending = {} /\ Reviewed.pendingChange = 0
         /\ round.verdict = "Retry" =>
              stalled <= IF structured THEN Reviewed.noProgress ELSE Reviewed.unassessable
<1>1. round.structured = structured /\ stage = "Verify" /\ next = "Verify"
  BY DEF TrendInv, RoundInStep
<1>2. ledger.noProgress \in Nat /\ ledger.unassessable \in Nat
  BY DEF TrendInv, LedgerShape
<1>3. /\ Reviewed.last = Kind(structured) /\ Reviewed.change = change
      /\ Reviewed.pending = {} /\ Reviewed.pendingChange = 0
      /\ Reviewed.noProgress \in Nat /\ Reviewed.unassessable \in Nat
  BY <1>1, <1>2 DEF Reviewed, Kind
<1>4. Reviewed = [last |-> Reviewed.last, change |-> Reviewed.change,
                  pending |-> Reviewed.pending, pendingChange |-> Reviewed.pendingChange,
                  noProgress |-> Reviewed.noProgress, unassessable |-> Reviewed.unassessable,
                  recurrences |-> Reviewed.recurrences]
  BY DEF Reviewed
<1>5. ASSUME round.verdict = "Retry"
      PROVE  stalled <= IF structured THEN Reviewed.noProgress ELSE Reviewed.unassessable
  <2>1. CASE stalled = 0
    BY <2>1, <1>3
  <2>2. CASE stalled # 0
    <3>1. InStep /\ stalled <= Counted + 1
      BY <2>2, <1>1 DEF TrendInv, CountedRepairs
    <3>2. round.closed = {} /\ Earlier = {}
      BY <2>2 DEF TrendInv, RoundInStep
    <3>3. structured => Reviewed.noProgress = ledger.noProgress + 1
      BY <1>1, <1>5, <3>1, <3>2 DEF Reviewed, InStep, Kind
    <3>4. ~structured => Reviewed.unassessable = ledger.unassessable + 1
      BY <1>1, <1>5, <3>1 DEF Reviewed, InStep, Kind
    <3> QED
      BY <3>1, <3>3, <3>4 DEF Counted
  <2> QED
    BY <2>1, <2>2
<1> QED
  BY <1>3, <1>4, <1>5

(* Three fields of a ledger are replaced, the others are as they were.      *)
LEMMA LedgerReplaced ==
  ASSUME NEW l, NEW c, NEW p, NEW pc, NEW n, NEW u, NEW r, NEW pNew, NEW pcNew, NEW rNew
  PROVE  [[last |-> l, change |-> c, pending |-> p, pendingChange |-> pc,
           noProgress |-> n, unassessable |-> u, recurrences |-> r]
            EXCEPT !.pending = pNew, !.pendingChange = pcNew, !.recurrences = rNew]
         = [last |-> l, change |-> c, pending |-> pNew, pendingChange |-> pcNew,
            noProgress |-> n, unassessable |-> u, recurrences |-> rNew]
<1> DEFINE L(q, qc, s) == [last |-> l, change |-> c, pending |-> q, pendingChange |-> qc,
                           noProgress |-> n, unassessable |-> u, recurrences |-> s]
<1>1. [L(p, pc, r) EXCEPT !.pending = pNew] = L(pNew, pc, r)
  OBVIOUS
<1>2. [L(pNew, pc, r) EXCEPT !.pendingChange = pcNew] = L(pNew, pcNew, r)
  OBVIOUS
<1>3. [L(pNew, pcNew, r) EXCEPT !.recurrences = rNew] = L(pNew, pcNew, rNew)
  OBVIOUS
<1> HIDE DEF L
<1>4. [L(p, pc, r) EXCEPT !.pending = pNew, !.pendingChange = pcNew, !.recurrences = rNew]
      = L(pNew, pcNew, rNew)
  BY <1>1, <1>2, <1>3
<1> QED
  BY <1>4 DEF L

(* The recurrences are no concern of the count: incomplete_review remembers *)
(* the closures, and nothing that is counted.                               *)
LEMMA IncompleteRemembers ==
  ASSUME TrendInv, round # NoRound, TellIncomplete
  PROVE  /\ LedgerShape'
         /\ ledger'.last = ledger.last /\ ledger'.change = ledger.change
         /\ ledger'.noProgress = ledger.noProgress
         /\ ledger'.unassessable = ledger.unassessable
         /\ Earlier' = round.closed \cup Earlier
<1> DEFINE told == [ledger EXCEPT !.pending = round.closed \cup Earlier, !.pendingChange = change,
                                  !.recurrences = Reopening(@)]
<1>1. ledger' = told /\ change' = change
  BY DEF TellIncomplete, Tell, registry
<1>2. /\ ledger = [last |-> ledger.last, change |-> ledger.change,
                   pending |-> ledger.pending, pendingChange |-> ledger.pendingChange,
                   noProgress |-> ledger.noProgress, unassessable |-> ledger.unassessable,
                   recurrences |-> ledger.recurrences]
      /\ ledger.noProgress \in Nat /\ ledger.unassessable \in Nat
      /\ change \in Nat \ {0}
  BY DEF TrendInv, LedgerShape
<1>3. told = [last |-> ledger.last, change |-> ledger.change,
              pending |-> round.closed \cup Earlier, pendingChange |-> change,
              noProgress |-> ledger.noProgress, unassessable |-> ledger.unassessable,
              recurrences |-> Reopening(ledger.recurrences)]
  <2>1. PICK l, c, p, pc, n, u, r :
          ledger = [last |-> l, change |-> c, pending |-> p, pendingChange |-> pc,
                    noProgress |-> n, unassessable |-> u, recurrences |-> r]
    BY <1>2, Zenon
  <2>2. /\ ledger.last = l /\ ledger.change = c /\ ledger.noProgress = n
        /\ ledger.unassessable = u /\ ledger.recurrences = r
    BY <2>1
  <2>3. told = [last |-> l, change |-> c, pending |-> round.closed \cup Earlier,
                pendingChange |-> change, noProgress |-> n, unassessable |-> u,
                recurrences |-> Reopening(r)]
    <3>1. told = [ledger EXCEPT !.pending = round.closed \cup Earlier, !.pendingChange = change,
                                !.recurrences = Reopening(r)]
      BY <2>2
    <3> HIDE DEF told
    <3> DEFINE now == [last |-> l, change |-> c, pending |-> p, pendingChange |-> pc,
                       noProgress |-> n, unassessable |-> u, recurrences |-> r]
    <3>2. told = [now EXCEPT !.pending = round.closed \cup Earlier, !.pendingChange = change,
                             !.recurrences = Reopening(r)]
      BY <2>1, <3>1
    <3> QED
      BY <3>2, LedgerReplaced
  <2> QED
    BY <2>2, <2>3, Zenon
<1>4. LedgerShape'
  BY <1>1, <1>2, <1>3 DEF LedgerShape
<1> HIDE DEF told
<1>5. Earlier' = round.closed \cup Earlier
  <2>1. told.pendingChange = change /\ told.pending = round.closed \cup Earlier
    BY <1>3
  <2>2. Earlier' = IF told.pendingChange = change THEN told.pending ELSE {}
    BY <1>1 DEF Earlier
  <2> QED
    BY <2>1, <2>2
<1> QED
  BY <1>1, <1>3, <1>4, <1>5

(* The count begins in step with the policy's ledger (TrendInit).           *)
LEMMA TrendInvInit == TrendInit => TrendInv
<1> SUFFICES ASSUME TrendInit PROVE TrendInv
  OBVIOUS
<1>1. /\ stage = "Verify" /\ next = "Verify" /\ stalled = 0 /\ structured = FALSE /\ change = 1
      /\ round = NoRound
  BY DEF TrendInit
<1>2. LedgerShape
  <2> DEFINE first == [last |-> "none", change |-> 0, pending |-> {}, pendingChange |-> 0,
                       noProgress |-> 0, unassessable |-> 0, recurrences |-> NoRecurrences]
  <2>1. /\ first.last = "none" /\ first.change = 0 /\ first.pending = {}
        /\ first.pendingChange = 0 /\ first.noProgress = 0 /\ first.unassessable = 0
        /\ first.recurrences = NoRecurrences
    OBVIOUS
  <2>2. first = [last |-> first.last, change |-> first.change, pending |-> first.pending,
                 pendingChange |-> first.pendingChange, noProgress |-> first.noProgress,
                 unassessable |-> first.unassessable, recurrences |-> first.recurrences]
    BY <2>1
  <2>3. ledger = first
    BY DEF TrendInit
  <2> HIDE DEF first
  <2> QED
    BY <1>1, <2>1, <2>2, <2>3 DEF LedgerShape
<1>3. Earlier = {} /\ round.closed = {}
  BY <1>1 DEF TrendInit, Earlier, NoRound
<1>4. CountedRepairs
  BY <1>1 DEF CountedRepairs
<1>5. RoundInStep
  BY <1>1, <1>3 DEF RoundInStep
<1>6. stalled <= MaxNoProgress
  BY <1>1, TrendAssumption
<1>7. structured \in BOOLEAN
  BY <1>1
<1> QED
  BY <1>1, <1>2, <1>4, <1>5, <1>6, <1>7 DEF TrendInv, StalledRepairs

(* Rounds of review: what a report is worth does not matter to the count,    *)
(* only whether it was accepted and what it closed.                         *)
LEMMA RoundsKeepTrend ==
  ASSUME TrendInv, RoundWithoutReport \/ RoundWithReport
  PROVE  TrendInv'
<1>1. CASE RoundWithoutReport
  <2>1. PICK verdict \in Verdict : Recorded(verdict, FALSE, {}, {})
    BY <1>1 DEF RoundWithoutReport
  <2>2. Reviewing /\ UNCHANGED <<stage, next, change, ledger>>
    BY <1>1 DEF RoundWithoutReport, registry
  <2> QED
    BY <2>1, <2>2, RecordedKeepsTrend
<1>2. CASE RoundWithReport
  <2>1. PICK effect \in {Effect(report) : report \in Reports} :
          \E verdict \in effect.verdicts :
            Recorded(verdict, effect.accepted, effect.closed, effect.reopened)
    BY <1>2 DEF RoundWithReport
  <2>2. PICK report \in Reports : effect = Effect(report)
    BY <2>1
  <2>3. effect.accepted \in BOOLEAN
    <3>1. effect.accepted = Accepted(report)
      BY <2>2 DEF Effect
    <3>2. Accepted(report) \in BOOLEAN
      BY Zenon DEF Accepted
    <3> QED
      BY <3>1, <3>2
  <2>4. Reviewing /\ UNCHANGED <<stage, next, change, ledger>>
    BY <1>2 DEF RoundWithReport
  <2>5. PICK verdict \in effect.verdicts :
          Recorded(verdict, effect.accepted, effect.closed, effect.reopened)
    BY <2>1
  <2> QED
    BY <2>3, <2>4, <2>5, RecordedKeepsTrend
<1> QED
  BY <1>1, <1>2

(* The policy is told of the round, or the process stops without telling it. *)
LEMMA TellingKeepsTrend ==
  ASSUME TrendInv, TellVerified \/ TellRetry \/ TellIncomplete \/ Stopped
  PROVE  TrendInv'
<1> USE DEF TrendInv
<1>1. /\ round # NoRound
      /\ stage = "Verify" /\ next = "Verify"
  <2>1. round.verdict # "none"
    BY DEF TellVerified, TellRetry, TellIncomplete, Stopped
  <2>2. round # NoRound
    BY <2>1 DEF NoRound
  <2> QED
    BY <2>2 DEF RoundInStep
<1>2. /\ round' = NoRound /\ NoRound.closed = {}
      /\ stage' = stage /\ change' = change /\ structured' = structured
      /\ stalled' = IF next' = "done" THEN 0 ELSE stalled
  BY DEF TellVerified, TellRetry, TellIncomplete, Stopped, Tell, registry, NoRound
<1>3. stalled \in Nat /\ change \in Nat \ {0} /\ structured \in BOOLEAN /\ stalled <= MaxNoProgress
  BY DEF StalledRepairs
<1>4. stalled' \in Nat /\ StalledRepairs'
  BY <1>2, <1>3, TrendAssumption DEF StalledRepairs
<1>5. ASSUME ledger' = Reviewed
      PROVE  /\ LedgerShape' /\ InStep' /\ Earlier' = {}
             /\ round.verdict = "Retry" => stalled <= Counted'
  <2>1. /\ Reviewed.pending = {} /\ Reviewed.pendingChange = 0
        /\ Reviewed.last = Kind(structured) /\ Reviewed.change = change
        /\ round.verdict = "Retry" =>
              stalled <= IF structured THEN Reviewed.noProgress ELSE Reviewed.unassessable
    BY <1>1, ReviewedCounts
  <2>2. LedgerShape'
    BY <1>1, <1>2, <1>3, <1>5, ReviewedCounts DEF LedgerShape
  <2>3. InStep' /\ Earlier' = {}
    BY <1>2, <1>5, <2>1 DEF InStep, Earlier, Kind
  <2>4. round.verdict = "Retry" => stalled <= Counted'
    BY <1>2, <1>5, <2>1 DEF Counted
  <2> QED
    BY <2>2, <2>3, <2>4
<1>6. CASE TellVerified
  <2>1. ledger' = Reviewed /\ next' = "done" /\ stalled' = 0
    BY <1>2, <1>6 DEF TellVerified, Tell
  <2> QED
    BY <1>1, <1>2, <1>3, <1>4, <1>5, <2>1 DEF CountedRepairs, RoundInStep
<1>7. CASE TellRetry
  <2>1. ledger' = Reviewed /\ next' = "Repair" /\ stalled' = stalled /\ round.verdict = "Retry"
    BY <1>2, <1>7 DEF TellRetry, Tell
  <2> QED
    BY <1>1, <1>2, <1>3, <1>4, <1>5, <2>1 DEF CountedRepairs, RoundInStep
<1>8. CASE TellIncomplete
  <2>1. next' = "Verify" /\ stalled' = stalled
    BY <1>1, <1>2, <1>8 DEF TellIncomplete, Tell
  <2>2. LedgerShape' /\ InStep' = InStep /\ Counted' = Counted
        /\ Earlier' = round.closed \cup Earlier
    BY <1>1, <1>2, <1>8, IncompleteRemembers DEF InStep, Kind, Counted
  <2>3. CountedRepairs'
    BY <1>1, <1>2, <2>1, <2>2 DEF CountedRepairs
  <2>4. RoundInStep'
    BY <1>1, <1>2, <2>1, <2>2 DEF RoundInStep
  <2> QED
    BY <1>1, <1>2, <1>3, <1>4, <2>1, <2>2, <2>3, <2>4
<1>9. CASE Stopped
  <2>1. next' = "Verify" /\ stalled' = stalled /\ ledger' = ledger
    BY <1>1, <1>2, <1>9 DEF Stopped, Tell
  <2>2. InStep' = InStep /\ Counted' = Counted /\ Earlier' = Earlier
    BY <1>2, <2>1 DEF InStep, Kind, Counted, Earlier
  <2>3. CountedRepairs'
    BY <1>1, <1>2, <2>1, <2>2 DEF CountedRepairs
  <2>4. RoundInStep'
    BY <1>1, <1>2, <2>1, <2>2 DEF RoundInStep
  <2>5. LedgerShape'
    BY <1>2, <2>1 DEF LedgerShape
  <2> QED
    BY <1>1, <1>2, <1>3, <1>4, <2>1, <2>3, <2>4, <2>5
<1> QED
  BY <1>6, <1>7, <1>8, <1>9

(* The steps between two rounds: Advance, Repair, Crash, AcceptanceFailed.   *)
LEMMA SessionsKeepTrend ==
  ASSUME TrendInv, Advance \/ Repair \/ Crash \/ AcceptanceFailed
  PROVE  TrendInv'
<1>1. /\ change' = change /\ structured' = structured /\ ledger' = ledger
      /\ round' \in {round, NoRound} /\ NoRound.closed = {}
  BY DEF Advance, Repair, Crash, AcceptanceFailed, registry, memory, NoRound
<1>2. InStep' = InStep /\ Counted' = Counted /\ Earlier' = Earlier
  BY <1>1 DEF InStep, Kind, Counted, Earlier
<1>3. LedgerShape'
  BY <1>1 DEF TrendInv, LedgerShape
<1>4. /\ stalled \in Nat /\ stalled <= MaxNoProgress /\ Counted \in Nat
      /\ structured \in BOOLEAN /\ change \in Nat \ {0}
  BY DEF TrendInv, StalledRepairs, LedgerShape, Counted
<1>5. CASE Advance
  <2>1. stage = "Verify" /\ next # "Verify" /\ stage' = next /\ next' = next
        /\ round' = round /\ stalled' = stalled
    BY <1>5 DEF Advance, memory, TrendInv
  <2>2. round = NoRound /\ Earlier = {}
    BY <2>1 DEF TrendInv, RoundInStep
  <2>3. CountedRepairs'
    BY <1>2, <2>1 DEF TrendInv, CountedRepairs
  <2>4. RoundInStep'
    BY <1>1, <1>2, <2>1, <2>2 DEF RoundInStep
  <2> QED
    BY <1>1, <1>3, <1>4, <2>1, <2>3, <2>4 DEF TrendInv, StalledRepairs
<1>6. CASE Repair
  <2>1. /\ stage = "Repair" /\ next = "Repair" /\ round = NoRound
        /\ stage' = "Verify" /\ next' = "Verify" /\ round' = round
        /\ stalled' = stalled + 1
        /\ Counted < MaxNoProgress
    BY <1>6 DEF Repair, AtRest, Authorized, Counted
  <2>2. InStep /\ stalled <= Counted /\ Earlier = {}
    BY <2>1 DEF TrendInv, CountedRepairs, RoundInStep
  <2>3. stalled + 1 <= MaxNoProgress
    BY <1>4, <2>1, <2>2, TrendAssumption
  <2>4. CountedRepairs'
    BY <1>2, <1>4, <2>1, <2>2 DEF CountedRepairs
  <2>5. RoundInStep'
    BY <1>1, <1>2, <2>1, <2>2 DEF RoundInStep
  <2> QED
    BY <1>1, <1>3, <1>4, <2>1, <2>3, <2>4, <2>5 DEF TrendInv, StalledRepairs
<1>7. CASE Crash
  <2>1. /\ stage = "Verify" /\ stage' = "Verify" /\ next' = "Verify" /\ round' = NoRound
        /\ stalled' = stalled
    <3>1. stage = "Verify"
      BY <1>7 DEF Crash, AtRest, TrendInv, RoundInStep
    <3> QED
      BY <1>7, <3>1 DEF Crash
  <2>2. stalled = 0 \/ (InStep /\ stalled <= Counted + 1)
    BY <1>4, <2>1 DEF TrendInv, CountedRepairs
  <2>3. CountedRepairs'
    BY <1>2, <2>1, <2>2 DEF CountedRepairs
  <2>4. RoundInStep'
    BY <1>1, <1>2, <2>1 DEF TrendInv, RoundInStep
  <2> QED
    BY <1>1, <1>3, <1>4, <2>1, <2>3, <2>4 DEF TrendInv, StalledRepairs
<1>8. CASE AcceptanceFailed
  <2>1. /\ stage = "done" /\ round = NoRound /\ round' = round
        /\ stage' = "Repair" /\ next' = "Repair" /\ stalled' = stalled
    BY <1>8 DEF AcceptanceFailed, AtRest
  <2>2. InStep /\ stalled = 0 /\ Earlier = {}
    BY <2>1 DEF TrendInv, CountedRepairs, RoundInStep
  <2>3. CountedRepairs'
    BY <1>2, <1>4, <2>1, <2>2 DEF CountedRepairs
  <2>4. RoundInStep'
    BY <1>1, <1>2, <2>1, <2>2 DEF RoundInStep
  <2> QED
    BY <1>1, <1>3, <1>4, <2>1, <2>3, <2>4 DEF TrendInv, StalledRepairs
<1> QED
  BY <1>5, <1>6, <1>7, <1>8

(* A replan leads to a change that the ledger does not know.                *)
LEMMA ReplanKeepsTrend ==
  ASSUME TrendInv, Replanned
  PROVE  TrendInv'
<1>1. /\ stage' = "Verify" /\ next' = "Verify" /\ change' = change + 1
      /\ stalled' = 0 /\ structured' = FALSE /\ round = NoRound
      /\ round' = round /\ ledger' = ledger /\ NoRound.closed = {}
  BY DEF Replanned, AtRest, NoRound
<1>2. change \in Nat \ {0} /\ ledger.pendingChange \in Nat /\ ledger.pendingChange <= change
  BY DEF TrendInv, LedgerShape
<1>3. LedgerShape'
  BY <1>1, <1>2 DEF TrendInv, LedgerShape
<1>4. Earlier' = {}
  BY <1>1, <1>2 DEF Earlier
<1>5. structured' \in BOOLEAN /\ change' \in Nat \ {0}
  <2>1. structured' \in BOOLEAN
    BY <1>1
  <2>2. change' \in Nat \ {0}
    BY <1>1, <1>2
  <2> QED
    BY <2>1, <2>2
<1>6. CountedRepairs' /\ RoundInStep'
  BY <1>1, <1>4 DEF CountedRepairs, RoundInStep
<1> QED
  BY <1>1, <1>3, <1>5, <1>6, TrendAssumption DEF TrendInv, StalledRepairs

(* The maintainer's correction leaves nothing counted and nothing stalled.   *)
LEMMA AcceptanceKeepsTrend ==
  ASSUME TrendInv, AcceptChanges
  PROVE  TrendInv'
<1>1. /\ stage' \in {stage, "Verify"} /\ next' = stage' /\ change' = change
      /\ stalled' = 0 /\ structured' = structured /\ round = NoRound /\ round' = round
      /\ ledger' = Corrected
  BY DEF AcceptChanges, AtRest, registry
<1>2. /\ stage' \in Stage /\ change' \in Nat \ {0} /\ structured' \in BOOLEAN
  BY <1>1 DEF TrendInv, Stage
<1>3. LedgerShape'
  BY <1>1, TrendAssumption DEF TrendInv, LedgerShape, Corrected
<1>4. Earlier' = {} /\ InStep' = InStep
  BY <1>1 DEF Earlier, InStep, Kind, Corrected
<1>5. CountedRepairs' /\ RoundInStep'
  BY <1>1, <1>4 DEF TrendInv, CountedRepairs, RoundInStep, Corrected, Counted
<1> QED
  BY <1>1, <1>2, <1>3, <1>5, TrendAssumption DEF TrendInv, StalledRepairs

LEMMA TrendInvNext == TrendInv /\ [TrendNext]_trend => TrendInv'
<1> SUFFICES ASSUME TrendInv, [TrendNext]_trend PROVE TrendInv'
  OBVIOUS
<1>1. CASE UNCHANGED trend
  BY <1>1 DEF trend, registry, memory, progress, TrendInv, LedgerShape, CountedRepairs, RoundInStep,
     StalledRepairs, InStep, Counted, Earlier, Kind
<1> QED
  BY <1>1, RoundsKeepTrend, TellingKeepsTrend, SessionsKeepTrend, ReplanKeepsTrend,
     AcceptanceKeepsTrend DEF TrendNext

(* However many processes are killed between the record of a round and the  *)
(* policy's: no more Repair sessions than max_no_progress_reviews follow one *)
(* another while reviews close nothing (Guard::check, Guard::review).       *)
THEOREM StalledRepairsHolds == TrendSpec => []StalledRepairs
<1>1. TrendInv => StalledRepairs
  BY DEF TrendInv
<1> QED
  BY <1>1, TrendInvInit, TrendInvNext, PTL DEF TrendSpec
-----------------------------------------------------------------------------
(* What is registered of a report                                           *)

(* A set of numbers has a least one: there is no induction over the findings *)
(* of a report without it.                                                  *)
LEMMA LeastNumber ==
  ASSUME NEW T, T \subseteq Nat, T # {}
  PROVE  \E x \in T : \A y \in T : x <= y
<1> DEFINE R == {p \in Nat \X Nat : p[1] < p[2]}
<1>1. IsWellFoundedOn(R, Nat)
  BY NatLessThanWellFounded, Zenon DEF OpToRel
<1> HIDE DEF R
<1>2. PICK x \in T : \A y \in T : ~(<<y, x>> \in R)
  BY <1>1, WFMin
<1>3. ASSUME NEW y \in T PROVE x <= y
  <2>1. x \in Nat /\ y \in Nat
    OBVIOUS
  <2>2. y < x => <<y, x>> \in R
    BY <2>1 DEF R
  <2> QED
    BY <1>2, <2>1, <2>2
<1> QED
  BY <1>3

(* Whatever holds of no finding, and with every finding of one more, holds   *)
(* of all of a bounded report.                                              *)
LEMMA UpTo ==
  ASSUME NEW m \in Nat, NEW T, 0 \in T,
         \A n \in 0..m : n # m /\ n \in T => n + 1 \in T
  PROVE  0..m \subseteq T
<1> SUFFICES ASSUME NEW k \in 0..m, k \notin T PROVE FALSE
  OBVIOUS
<1> DEFINE missed == {n \in 0..m : n \notin T}
<1>1. PICK x \in missed : \A y \in missed : x <= y
  <2>1. missed \subseteq Nat /\ missed # {}
    OBVIOUS
  <2> HIDE DEF missed
  <2> QED
    BY <2>1, LeastNumber
<1>2. x \in Nat /\ x # 0 /\ x - 1 \in 0..m /\ x - 1 # m
  BY <1>1
<1>3. x - 1 \notin missed
  BY <1>1, <1>2
<1>4. (x - 1) + 1 \in T
  BY <1>2, <1>3
<1> QED
  BY <1>1, <1>2, <1>4

(* One more of the findings that are kept.                                   *)
PutNext(kept, others, n) == IF n \in DOMAIN kept THEN Put(others, kept[n]) ELSE others

(* `g` tells the findings after each of the first m that are kept.           *)
Registers(g, kept, m) ==
  g = [n \in 0..m |-> IF n = 0 THEN findings ELSE PutNext(kept, g[n - 1], n)]

(* However many are kept, there are findings after each.                     *)
LEMMA RegistersExist ==
  ASSUME NEW kept, NEW m \in Nat
  PROVE  \E g : Registers(g, kept, m)
<1> DEFINE T == {n \in 0..m : \E g : Registers(g, kept, n)}
<1>1. 0 \in T
  <2>1. Registers([n \in 0..0 |-> findings], kept, 0)
    BY DEF Registers
  <2> QED
    BY <2>1
<1>2. ASSUME NEW n \in 0..m, n # m, n \in T PROVE n + 1 \in T
  <2>1. PICK g : Registers(g, kept, n)
    BY <1>2
  <2> DEFINE h == [k \in 0..(n + 1) |-> IF k = n + 1 THEN PutNext(kept, g[n], n + 1) ELSE g[k]]
             next_(k) == IF k = 0 THEN findings ELSE PutNext(kept, h[k - 1], k)
  <2>2. \A k \in 0..n : g[k] = IF k = 0 THEN findings ELSE PutNext(kept, g[k - 1], k)
    <3>1. g = [k \in 0..n |-> IF k = 0 THEN findings ELSE PutNext(kept, g[k - 1], k)]
      BY <2>1 DEF Registers
    <3> QED
      BY <3>1
  <2>3. \A k \in 0..(n + 1) : h[k] = next_(k)
    <3> SUFFICES ASSUME NEW k \in 0..(n + 1) PROVE h[k] = next_(k)
      OBVIOUS
    <3>1. CASE k = n + 1
      <4>1. k - 1 = n /\ k # 0 /\ n \in 0..(n + 1) /\ n # n + 1
        BY <3>1
      <4>2. h[n] = g[n]
        BY <4>1
      <4> QED
        BY <3>1, <4>1, <4>2
    <3>2. CASE k # n + 1
      <4>1. k \in 0..n
        BY <3>2
      <4>2. k # 0 => h[k - 1] = g[k - 1]
        BY <4>1
      <4> QED
        BY <2>2, <3>2, <4>1, <4>2
    <3> QED
      BY <3>1, <3>2
  <2> HIDE DEF next_
  <2>4. h = [k \in 0..(n + 1) |-> next_(k)]
    BY <2>3
  <2>5. Registers(h, kept, n + 1)
    BY <2>4 DEF Registers, next_
  <2> QED
    BY <1>2, <2>5
<1>3. 0..m \subseteq T
  <2> HIDE DEF T
  <2> QED
    BY <1>1, <1>2, UpTo
<1>4. m \in T
  BY <1>3
<1> QED
  BY <1>4

(* What is registered is what there is after the last.                       *)
LEMMA Registering ==
  ASSUME NEW kept
  PROVE  \E g : Registers(g, kept, MaxEntries) /\ Registered(kept) = g[MaxEntries]
<1> DEFINE g == CHOOSE f : Registers(f, kept, MaxEntries)
<1>1. Registers(g, kept, MaxEntries)
  BY RegistersExist, TrendAssumption
<1>2. Registered(kept) = g[MaxEntries]
  BY DEF Registered, Registers, PutNext
<1> QED
  BY <1>1, <1>2

(* Where the i-th finding of a report ends up.                               *)
Place(g, kept, i) == IF kept[i].id \in DOMAIN findings THEN kept[i].id ELSE Len(g[i])

(* After n findings: each of them has a place of its own, with the status    *)
(* reported, and a finding that was there is as it was or as reported.      *)
RegisteredSoFar(g, kept, n) ==
  /\ g[n] \in Seq(Status) /\ Len(findings) <= Len(g[n])
  /\ \A i \in DOMAIN kept : i <= n =>
       /\ Place(g, kept, i) \in DOMAIN g[n] /\ g[n][Place(g, kept, i)] = kept[i].status
       /\ kept[i].id \notin DOMAIN findings => Len(findings) < Place(g, kept, i)
  /\ \A i, j \in DOMAIN kept :
       i <= n /\ j <= n /\ Place(g, kept, i) = Place(g, kept, j) => i = j
  /\ \A f \in DOMAIN findings :
       \/ g[n][f] = findings[f]
       \/ \E i \in DOMAIN kept : kept[i].id = f /\ kept[i].status = g[n][f]

(* Findings with a known ID have one each, as a review that is accepted has  *)
(* and as the findings salvaged from another are given.                     *)
Keepable(kept) ==
  /\ DOMAIN kept \subseteq 1..MaxEntries
  /\ \A i \in DOMAIN kept : kept[i].status \in Status
  /\ \A i, j \in DOMAIN kept : kept[i].id \in DOMAIN findings /\ kept[i].id = kept[j].id => i = j

(* A finding with a known ID takes the place of the one that was there.      *)
LEMMA PutKnown ==
  ASSUME findings \in Seq(Status), NEW kept, Keepable(kept), NEW g, NEW n \in Nat,
         n + 1 \in DOMAIN kept, kept[n + 1].id \in DOMAIN findings,
         g[n + 1] = Put(g[n], kept[n + 1]), RegisteredSoFar(g, kept, n)
  PROVE  RegisteredSoFar(g, kept, n + 1)
<1> DEFINE f == kept[n + 1].id
           s == g[n]
           t == g[n + 1]
<1>1. s \in Seq(Status) /\ Len(findings) <= Len(s) /\ f \in 1..Len(findings) /\ f \in DOMAIN s
      /\ DOMAIN findings = 1..Len(findings) /\ DOMAIN s = 1..Len(s) /\ DOMAIN findings \subseteq DOMAIN s
      /\ Len(s) \in Nat /\ Len(findings) \in Nat
  BY DEF RegisteredSoFar
<1>2. /\ t = [s EXCEPT ![f] = kept[n + 1].status] /\ kept[n + 1].status \in Status
      /\ t \in Seq(Status) /\ Len(t) = Len(s) /\ DOMAIN t = DOMAIN s
      /\ t[f] = kept[n + 1].status
      /\ \A k \in DOMAIN s : k # f => t[k] = s[k]
  BY <1>1 DEF Put, Keepable
<1>3. Place(g, kept, n + 1) = f
  BY DEF Place
<1>4. ASSUME NEW i \in DOMAIN kept, i <= n
      PROVE  /\ Place(g, kept, i) \in DOMAIN s /\ Place(g, kept, i) # f
             /\ s[Place(g, kept, i)] = kept[i].status
             /\ kept[i].id \notin DOMAIN findings => Len(findings) < Place(g, kept, i)
  <2>1. i # n + 1
    BY <1>4 DEF Keepable
  <2>2. kept[i].id \in DOMAIN findings => Place(g, kept, i) # f
    BY <2>1 DEF Keepable, Place
  <2> QED
    BY <1>1, <1>4, <2>2 DEF RegisteredSoFar
<1>5. \A i \in DOMAIN kept : i <= n + 1 => i <= n \/ i = n + 1
  BY DEF Keepable
<1>6. t \in Seq(Status) /\ Len(findings) <= Len(t)
  BY <1>1, <1>2
<1>7. \A i \in DOMAIN kept : i <= n + 1 =>
        /\ Place(g, kept, i) \in DOMAIN t /\ t[Place(g, kept, i)] = kept[i].status
        /\ kept[i].id \notin DOMAIN findings => Len(findings) < Place(g, kept, i)
  BY <1>1, <1>2, <1>3, <1>4, <1>5
<1>8. \A i, j \in DOMAIN kept :
        i <= n + 1 /\ j <= n + 1 /\ Place(g, kept, i) = Place(g, kept, j) => i = j
  BY <1>3, <1>4, <1>5 DEF RegisteredSoFar
<1>9. \A k \in DOMAIN findings :
        \/ t[k] = findings[k]
        \/ \E i \in DOMAIN kept : kept[i].id = k /\ kept[i].status = t[k]
  <2> SUFFICES ASSUME NEW k \in DOMAIN findings
               PROVE  \/ t[k] = findings[k]
                      \/ \E i \in DOMAIN kept : kept[i].id = k /\ kept[i].status = t[k]
    OBVIOUS
  <2>1. CASE k = f
    BY <1>2, <2>1
  <2>2. CASE k # f
    <3>1. t[k] = s[k]
      BY <1>1, <1>2, <2>2
    <3> QED
      BY <3>1 DEF RegisteredSoFar
  <2> QED
    BY <2>1, <2>2
<1> QED
  BY <1>6, <1>7, <1>8, <1>9 DEF RegisteredSoFar

(* A finding with a new ID goes after all that are there.                    *)
LEMMA PutNew ==
  ASSUME findings \in Seq(Status), NEW kept, Keepable(kept), NEW g, NEW n \in Nat,
         n + 1 \in DOMAIN kept, kept[n + 1].id \notin DOMAIN findings,
         g[n + 1] = Put(g[n], kept[n + 1]), RegisteredSoFar(g, kept, n)
  PROVE  RegisteredSoFar(g, kept, n + 1)
<1> DEFINE s == g[n]
           t == g[n + 1]
<1>1. s \in Seq(Status) /\ Len(findings) <= Len(s)
      /\ DOMAIN findings = 1..Len(findings) /\ DOMAIN s = 1..Len(s)
      /\ DOMAIN findings \subseteq DOMAIN s /\ Len(s) \in Nat /\ Len(findings) \in Nat
  BY DEF RegisteredSoFar
<1>2. /\ t = Append(s, kept[n + 1].status) /\ kept[n + 1].status \in Status
      /\ t \in Seq(Status) /\ Len(t) = Len(s) + 1 /\ DOMAIN t = 1..(Len(s) + 1)
      /\ t[Len(s) + 1] = kept[n + 1].status
      /\ \A k \in DOMAIN s : t[k] = s[k]
  BY <1>1 DEF Put, Keepable
<1>3. Place(g, kept, n + 1) = Len(s) + 1
  BY <1>2 DEF Place
<1>4. ASSUME NEW i \in DOMAIN kept, i <= n
      PROVE  /\ Place(g, kept, i) \in DOMAIN s
             /\ s[Place(g, kept, i)] = kept[i].status
             /\ kept[i].id \notin DOMAIN findings => Len(findings) < Place(g, kept, i)
  BY <1>4 DEF RegisteredSoFar
<1>5. \A i \in DOMAIN kept : i <= n + 1 => i <= n \/ i = n + 1
  BY DEF Keepable
<1>6. t \in Seq(Status) /\ Len(findings) <= Len(t)
  BY <1>1, <1>2
<1>7. \A i \in DOMAIN kept : i <= n + 1 =>
        /\ Place(g, kept, i) \in DOMAIN t /\ t[Place(g, kept, i)] = kept[i].status
        /\ kept[i].id \notin DOMAIN findings => Len(findings) < Place(g, kept, i)
  BY <1>1, <1>2, <1>3, <1>4, <1>5
<1>8. \A i, j \in DOMAIN kept :
        i <= n + 1 /\ j <= n + 1 /\ Place(g, kept, i) = Place(g, kept, j) => i = j
  BY <1>1, <1>3, <1>4, <1>5 DEF RegisteredSoFar
<1>9. \A k \in DOMAIN findings :
        \/ t[k] = findings[k]
        \/ \E i \in DOMAIN kept : kept[i].id = k /\ kept[i].status = t[k]
  BY <1>1, <1>2 DEF RegisteredSoFar
<1> QED
  BY <1>6, <1>7, <1>8, <1>9 DEF RegisteredSoFar

(* The findings once all that are kept have been registered.                 *)
LEMMA RegisteredAll ==
  ASSUME findings \in Seq(Status), NEW kept, Keepable(kept), NEW g,
         Registers(g, kept, MaxEntries)
  PROVE  RegisteredSoFar(g, kept, MaxEntries)
<1> DEFINE T == {n \in 0..MaxEntries : RegisteredSoFar(g, kept, n)}
<1>0. \A n \in 0..MaxEntries : g[n] = IF n = 0 THEN findings ELSE PutNext(kept, g[n - 1], n)
  <2>1. g = [n \in 0..MaxEntries |-> IF n = 0 THEN findings ELSE PutNext(kept, g[n - 1], n)]
    BY DEF Registers
  <2> QED
    BY <2>1
<1>1. 0 \in T
  <2>1. g[0] = findings /\ 0 \in 0..MaxEntries
    BY <1>0, TrendAssumption
  <2>2. \A i \in DOMAIN kept : ~(i <= 0)
    BY TrendAssumption DEF Keepable
  <2> QED
    BY <2>1, <2>2 DEF RegisteredSoFar
<1>2. ASSUME NEW n \in 0..MaxEntries, n # MaxEntries, n \in T PROVE n + 1 \in T
  <2>1. n \in Nat /\ n + 1 \in 0..MaxEntries /\ RegisteredSoFar(g, kept, n)
        /\ g[n + 1] = PutNext(kept, g[n], n + 1)
    BY <1>0, <1>2, TrendAssumption
  <2>2. CASE n + 1 \notin DOMAIN kept
    <3>1. g[n + 1] = g[n] /\ \A i \in DOMAIN kept : i <= n + 1 => i <= n
      BY <2>1, <2>2, TrendAssumption DEF PutNext, Keepable
    <3> QED
      BY <2>1, <3>1 DEF RegisteredSoFar
  <2>3. CASE n + 1 \in DOMAIN kept
    BY <2>1, <2>3, PutKnown, PutNew DEF PutNext
  <2> QED
    BY <2>2, <2>3
<1>3. MaxEntries \in T
  <2> HIDE DEF T
  <2>1. 0..MaxEntries \subseteq T
    BY <1>1, <1>2, UpTo, TrendAssumption
  <2> QED
    BY <2>1, TrendAssumption
<1> QED
  BY <1>3

(* Every finding kept as open is an open one of the registry, and no two of  *)
(* them are the same.                                                       *)
LEMMA OpenCounted ==
  ASSUME NEW kept, Keepable(kept), NEW g, RegisteredSoFar(g, kept, MaxEntries),
         findings' = g[MaxEntries], NEW O, O \subseteq DOMAIN kept,
         \A i \in O : kept[i].status = "open"
  PROVE  Cardinality(O) <= Cardinality(Open')
<1> DEFINE h == [i \in O |-> Place(g, kept, i)]
<1>1. \A i \in DOMAIN kept : i <= MaxEntries
  BY TrendAssumption DEF Keepable
<1>2. h \in Injection(O, Open')
  <2>1. \A i \in O : Place(g, kept, i) \in Open'
    BY <1>1 DEF RegisteredSoFar, Open
  <2>2. h \in [O -> Open']
    BY <2>1
  <2>3. \A i, j \in O : Place(g, kept, i) = Place(g, kept, j) => i = j
    BY <1>1 DEF RegisteredSoFar
  <2> QED
    BY <2>2, <2>3 DEF Injection, IsInjective
<1>3. IsFiniteSet(Open')
  <2>1. findings' \in Seq(Status)
    BY DEF RegisteredSoFar
  <2>2. Open' \subseteq 1..Len(findings') /\ Len(findings') \in Nat
    BY <2>1 DEF Open
  <2>3. \A n \in Nat : IsFiniteSet(1..n)
    BY FS_Interval
  <2>4. IsFiniteSet(1..Len(findings'))
    BY <2>2, <2>3
  <2> QED
    BY <2>2, <2>4, FS_Subset
<1> QED
  BY <1>2, <1>3, FS_Injection

(* What the entries of a report are.                                         *)
LEMMA ReportShape ==
  ASSUME NEW report \in Reports
  PROVE  /\ DOMAIN report.entries \subseteq 1..MaxEntries
         /\ \A i \in DOMAIN report.entries : report.entries[i] \in Entry
<1>1. report.entries \in Entries
  BY DEF Reports
<1>2. PICK n \in 0..MaxEntries : report.entries \in [1..n -> Entry]
  BY <1>1 DEF Entries
<1> QED
  BY <1>2, TrendAssumption

(* What is kept of a report can be registered; of a report that is rejected  *)
(* nothing is kept but what it says is open.                                *)
LEMMA KeptOfReport ==
  ASSUME findings \in Seq(Status), NEW report \in Reports
  PROVE  /\ Accepted(report) => Keepable(report.entries)
         /\ Keepable(Salvaged(report.entries))
         /\ DOMAIN Salvaged(report.entries) =
              {i \in DOMAIN report.entries : report.entries[i].status = "open"}
         /\ \A i \in DOMAIN Salvaged(report.entries) : Salvaged(report.entries)[i].status = "open"
<1> DEFINE e == report.entries
           O == {i \in DOMAIN e : e[i].status = "open"}
<1>1. DOMAIN e \subseteq 1..MaxEntries /\ \A i \in DOMAIN e : e[i] \in Entry
  BY ReportShape
<1>2. New \notin DOMAIN findings
  BY DEF New
<1>3. Accepted(report) => Keepable(e)
  BY <1>1, <1>2 DEF Accepted, Keepable, Entry
<1>4. Salvaged(e) = [i \in O |-> IF \E j \in O : j < i /\ e[j].id = e[i].id
                                 THEN [e[i] EXCEPT !.id = New] ELSE e[i]]
  BY DEF Salvaged
<1>5. DOMAIN Salvaged(e) = O
  BY <1>4
<1>6. ASSUME NEW i \in O
      PROVE  /\ Salvaged(e)[i].status = "open"
             /\ Salvaged(e)[i].id =
                  IF \E j \in O : j < i /\ e[j].id = e[i].id THEN New ELSE e[i].id
  <2>1. e[i] \in Entry
    BY <1>1
  <2> QED
    BY <1>4, <2>1 DEF Entry
<1>7. Keepable(Salvaged(e))
  <2>1. ASSUME NEW i \in O, NEW j \in O, Salvaged(e)[i].id \in DOMAIN findings,
               Salvaged(e)[i].id = Salvaged(e)[j].id
        PROVE  i = j
    <3>1. e[i].id = e[j].id /\ ~(i < j) /\ ~(j < i)
      BY <1>2, <1>6, <2>1
    <3>2. i \in Nat /\ j \in Nat
      BY <1>1
    <3> QED
      BY <3>1, <3>2
  <2> QED
    BY <1>1, <1>5, <1>6, <2>1 DEF Keepable, Status
<1> QED
  BY <1>3, <1>5, <1>6, <1>7

(* A round with a report retains what was open and what it reports open.     *)
LEMMA RoundRetains ==
  ASSUME findings \in Seq(Status), RoundWithReport
  PROVE  /\ findings' \in Seq(Status)
         /\ Open \ disposed' \subseteq Open'
         /\ reported' <= Cardinality(Open')
<1>1. PICK report \in Reports :
        /\ findings' = Effect(report).findings
        /\ disposed' = Effect(report).disposed /\ reported' = Effect(report).reported
  BY DEF RoundWithReport
<1> DEFINE e == report.entries
           kept == IF Accepted(report) THEN e ELSE Salvaged(e)
           O == {i \in DOMAIN e : e[i].status = "open"}
<1>2. /\ findings' = Registered(kept)
      /\ reported' = Cardinality(O)
      /\ disposed' = IF Accepted(report) /\ report.evidenced
                     THEN Named(e, "open", "closed") \cup Named(e, "open", "observation") ELSE {}
  BY <1>1 DEF Effect
<1>3. Keepable(kept) /\ O \subseteq DOMAIN kept /\ \A i \in O : kept[i].status = "open"
  BY KeptOfReport
<1> HIDE DEF kept
<1>4. PICK g : Registers(g, kept, MaxEntries) /\ Registered(kept) = g[MaxEntries]
  BY Registering
<1>5. RegisteredSoFar(g, kept, MaxEntries) /\ findings' = g[MaxEntries]
  BY <1>2, <1>3, <1>4, RegisteredAll
<1>6. findings' \in Seq(Status) /\ DOMAIN findings \subseteq DOMAIN findings'
  BY <1>5 DEF RegisteredSoFar
<1>7. reported' <= Cardinality(Open')
  BY <1>2, <1>3, <1>5, OpenCounted
<1>8. ASSUME NEW f \in Open, f \notin disposed' PROVE f \in Open'
  <2>1. f \in DOMAIN findings /\ findings[f] = "open"
    BY DEF Open
  <2>2. CASE findings'[f] = findings[f]
    BY <1>6, <2>1, <2>2 DEF Open
  <2>3. CASE findings'[f] # findings[f]
    <3>1. PICK i \in DOMAIN kept : kept[i].id = f /\ kept[i].status = findings'[f]
      BY <1>5, <2>1, <2>3 DEF RegisteredSoFar
    <3>2. Accepted(report) /\ kept = e
      BY <2>1, <2>3, <3>1, KeptOfReport DEF kept
    <3>3. i \in DOMAIN e /\ e[i] \in Entry /\ e[i].id = f /\ e[i].status # "open"
      BY <2>1, <2>3, <3>1, <3>2, ReportShape
    <3>4. report.evidenced
      BY <2>1, <3>2, <3>3 DEF Accepted, Disposes
    <3>5. e[i].status \in {"closed", "observation"}
          /\ e[i] = [id |-> f, status |-> e[i].status]
      BY <3>3 DEF Entry, Status
    <3>6. f \in disposed'
      BY <1>2, <2>1, <3>2, <3>3, <3>4, <3>5 DEF Named
    <3> QED
      BY <1>8, <3>6
  <2> QED
    BY <2>2, <2>3
<1> QED
  BY <1>6, <1>7, <1>8

(* Whatever else happens: the findings are as they were, unless they are     *)
(* another change's.                                                        *)
LEMMA StepRetains ==
  ASSUME findings \in Seq(Status), change \in Nat, TrendNext
  PROVE  /\ findings' \in Seq(Status) /\ change' \in Nat
         /\ change' = change => Open \ disposed' \subseteq Open'
         /\ reported' <= Cardinality(Open')
<1>1. CASE RoundWithReport
  BY <1>1, RoundRetains DEF RoundWithReport
<1>2. CASE ~RoundWithReport
  <2>1. reported' = 0 /\ findings' \in Seq(Status) /\ change' \in Nat
        /\ (findings' = findings \/ change' # change)
    <3>1. CASE Replanned
      <4>1. change' = change + 1 /\ findings' = <<>> /\ reported' = 0
        BY <3>1 DEF Replanned, Settled
      <4> QED
        BY <4>1
    <3>2. CASE ~Replanned
      BY <1>2, <3>2
      DEF TrendNext, RoundWithoutReport, TellVerified, TellRetry, TellIncomplete, Stopped, Tell,
          Advance, Repair, Crash, AcceptanceFailed, AcceptChanges, registry, Settled
    <3> QED
      BY <3>1, <3>2
  <2>2. Cardinality(Open') \in Nat
    <3>1. Open' \subseteq 1..Len(findings') /\ Len(findings') \in Nat
      BY <2>1 DEF Open
    <3>2. IsFiniteSet(1..Len(findings'))
      BY <3>1, FS_Interval
    <3>3. IsFiniteSet(Open')
      BY <3>1, <3>2, FS_Subset
    <3> QED
      BY <3>3, FS_CardinalityType
  <2>3. findings' = findings => Open' = Open
    BY DEF Open
  <2> QED
    BY <2>1, <2>2, <2>3
<1> QED
  BY <1>1, <1>2

(* An open finding stays open until an accepted report disposes of it with   *)
(* evidence, and every finding reported open is retained as one             *)
(* (History::record), for any number of findings, entries, rounds, crashes  *)
(* and replans.                                                             *)
THEOREM OpenRetainedHolds == TrendSpec => OpenRetained
<1> DEFINE Sound == findings \in Seq(Status) /\ change \in Nat
           Retained == (change' = change => Open \ disposed' \subseteq Open')
                       /\ reported' <= Cardinality(Open')
<1>1. TrendInit => Sound
  BY DEF TrendInit
<1>2. Sound /\ [TrendNext]_trend => Sound'
  BY StepRetains DEF trend, registry
<1>3. Sound /\ [TrendNext]_trend => [Retained]_trend
  BY StepRetains
<1>4. TrendSpec => [][Retained]_trend
  BY <1>1, <1>2, <1>3, PTL DEF TrendSpec
<1> QED
  BY <1>4, PTL DEF OpenRetained
-----------------------------------------------------------------------------
(* The types of the review trend                                            *)

(* A round is recorded only while no counter of the policy is used up, and  *)
(* nothing is counted before the policy is told of it; only a replan, of    *)
(* which there are so many, leads to another change.                        *)
TrendBounded == TrendTypeOK /\ (round # NoRound => Authorized) /\ change <= mishaps + 1

(* What a report that is registered says is of findings that there are.      *)
LEMMA ReportTypes ==
  ASSUME TrendTypeOK, RoundWithReport
  PROVE  /\ findings' \in Seq(Status) /\ Len(findings') <= MaxFindings /\ unfinished' \in BOOLEAN
         /\ round' \in Round /\ structured' \in BOOLEAN /\ stalled' \in Nat
         /\ disposed' \subseteq Ids /\ reported' \in Nat
<1>1. findings \in Seq(Status) /\ DOMAIN findings \subseteq Ids
  <2>1. findings \in Seq(Status) /\ Len(findings) <= MaxFindings
    BY DEF TrendTypeOK
  <2>2. DOMAIN findings = 1..Len(findings) /\ Len(findings) \in Nat
    BY <2>1
  <2> QED
    BY <2>1, <2>2, TrendAssumption DEF Ids
<1>2. findings' \in Seq(Status)
  BY <1>1, RoundRetains
<1>3. PICK report \in Reports :
        /\ Len(Effect(report).findings) <= MaxFindings
        /\ findings' = Effect(report).findings /\ unfinished' = Effect(report).unfinished
        /\ \E verdict \in Effect(report).verdicts :
             Recorded(verdict, Effect(report).accepted, Effect(report).closed, Effect(report).reopened)
        /\ disposed' = Effect(report).disposed /\ reported' = Effect(report).reported
  BY DEF RoundWithReport
<1>4. \A entries, old, new : Named(entries, old, new) \subseteq Ids
  BY <1>1 DEF Named
<1>5. Effect(report).closed \subseteq Ids /\ Effect(report).reopened \subseteq Ids
      /\ Effect(report).disposed \subseteq Ids
  BY <1>4 DEF Effect
<1>6. Effect(report).accepted \in BOOLEAN /\ Effect(report).verdicts \subseteq Verdict
  BY DEF Effect, Accepted, Concluded, Verdict
<1>7. round' \in Round /\ structured' \in BOOLEAN /\ stalled' \in Nat
  <2>1. PICK verdict \in Verdict :
          Recorded(verdict, Effect(report).accepted, Effect(report).closed, Effect(report).reopened)
    BY <1>3, <1>6
  <2>2. stalled \in Nat
    BY DEF TrendTypeOK
  <2> HIDE DEF Effect
  <2> QED
    BY <1>5, <1>6, <2>1, <2>2 DEF Recorded, Round
<1>8. unfinished' \in BOOLEAN
  BY <1>3 DEF Effect, TrendTypeOK
<1>9. reported' \in Nat
  <2> DEFINE O == {i \in DOMAIN report.entries : report.entries[i].status = "open"}
  <2>1. O \subseteq 1..MaxEntries
    BY ReportShape
  <2>2. IsFiniteSet(1..MaxEntries)
    BY FS_Interval, TrendAssumption
  <2>3. Cardinality(O) \in Nat
    BY <2>1, <2>2, FS_Subset, FS_CardinalityType
  <2> QED
    BY <1>3, <2>3 DEF Effect
<1> QED
  BY <1>2, <1>3, <1>5, <1>7, <1>8, <1>9

(* A review that the policy is told of counts for one at most, and it was    *)
(* authorized.                                                              *)
LEMMA ToldTypes ==
  ASSUME TrendBounded, round # NoRound
  PROVE  /\ Reviewed \in Ledger
         /\ [ledger EXCEPT !.pending = round.closed \cup Earlier, !.pendingChange = change,
                           !.recurrences = Reopening(@)] \in Ledger
<1>1. /\ ledger \in Ledger /\ round \in Round /\ change \in Nat
      /\ ledger.noProgress < MaxNoProgress /\ ledger.unassessable < MaxNoProgress
      /\ \A f \in Ids : ledger.recurrences[f] < MaxRecurring
  BY TrendAssumption DEF TrendBounded, TrendTypeOK, Authorized
<1>2. /\ ledger.noProgress + 1 \in 0..MaxNoProgress
      /\ ledger.unassessable + 1 \in 0..MaxNoProgress /\ 0 \in 0..MaxNoProgress
  BY <1>1, TrendAssumption DEF Ledger
<1>3. ASSUME NEW recurrences \in [Ids -> 0..MaxRecurring],
             \A f \in Ids : recurrences[f] < MaxRecurring
      PROVE  Reopening(recurrences) \in [Ids -> 0..MaxRecurring]
  <2>1. \A f \in Ids : recurrences[f] \in 0..MaxRecurring /\ recurrences[f] + 1 \in 0..MaxRecurring
    BY <1>3, TrendAssumption
  <2> QED
    BY <2>1 DEF Reopening
<1>4. ledger.recurrences \in [Ids -> 0..MaxRecurring]
  BY <1>1 DEF Ledger
<1>5. /\ NoRecurrences \in [Ids -> 0..MaxRecurring]
      /\ \A f \in Ids : NoRecurrences[f] < MaxRecurring
  BY TrendAssumption DEF NoRecurrences
<1>6. Reopening(ledger.recurrences) \in [Ids -> 0..MaxRecurring]
      /\ Reopening(NoRecurrences) \in [Ids -> 0..MaxRecurring]
  BY <1>1, <1>3, <1>4, <1>5
<1>7. round.closed \cup Earlier \subseteq Ids
  BY <1>1 DEF Round, Ledger, Earlier
<1>8. Reviewed \in Ledger
  BY <1>1, <1>2, <1>6 DEF Reviewed, Ledger
<1> QED
  BY <1>1, <1>6, <1>7, <1>8 DEF Ledger

LEMMA TrendTypesNext == TrendBounded /\ [TrendNext]_trend => TrendBounded'
<1> SUFFICES ASSUME TrendBounded, [TrendNext]_trend PROVE TrendBounded'
  OBVIOUS
<1>0. TrendTypeOK /\ (round # NoRound => Authorized) /\ change <= mishaps + 1
  BY DEF TrendBounded
<1>1. CASE RoundWithoutReport
  <2>1. PICK verdict \in Verdict : Recorded(verdict, FALSE, {}, {})
    BY <1>1 DEF RoundWithoutReport
  <2>2. round' \in Round /\ structured' \in BOOLEAN /\ stalled' \in Nat
    BY <1>0, <2>1 DEF Recorded, Round, TrendTypeOK
  <2> QED
    BY <1>0, <1>1, <2>2 DEF RoundWithoutReport, Reviewing, Authorized, Settled, registry, TrendBounded,
       TrendTypeOK
<1>2. CASE RoundWithReport
  <2>1. /\ findings' \in Seq(Status) /\ Len(findings') <= MaxFindings /\ unfinished' \in BOOLEAN
        /\ round' \in Round /\ structured' \in BOOLEAN /\ stalled' \in Nat
        /\ disposed' \subseteq Ids /\ reported' \in Nat
    BY <1>0, <1>2, ReportTypes
  <2>2. Authorized /\ UNCHANGED <<stage, next, change, ledger, mishaps>>
    BY <1>2 DEF RoundWithReport, Reviewing
  <2> QED
    BY <1>0, <2>1, <2>2 DEF Authorized, TrendBounded, TrendTypeOK
<1>3. ASSUME NEW update \in Ledger, NEW to \in Stage, Tell(update, to) PROVE TrendBounded'
  <2>1. /\ ledger' \in Ledger /\ next' \in Stage /\ round' = NoRound /\ stalled' \in Nat
        /\ disposed' = {} /\ reported' = 0
        /\ UNCHANGED <<stage, change, findings, unfinished, mishaps, structured>>
    BY <1>0, <1>3 DEF Tell, Settled, registry, TrendTypeOK
  <2>2. NoRound \in Round
    BY DEF NoRound, Round
  <2> QED
    BY <1>0, <2>1, <2>2 DEF TrendBounded, TrendTypeOK
<1>4. CASE TellVerified \/ TellRetry \/ TellIncomplete
  <2>1. round # NoRound
    BY <1>4 DEF TellVerified, TellRetry, TellIncomplete, NoRound
  <2>2. stage \in Stage /\ "done" \in Stage /\ "Repair" \in Stage
    BY <1>0 DEF TrendTypeOK, Stage
  <2> QED
    BY <1>3, <1>4, <2>1, <2>2, ToldTypes DEF TellVerified, TellRetry, TellIncomplete
<1>5. CASE Stopped
  BY <1>0, <1>3, <1>5 DEF Stopped, TrendTypeOK
<1>6. CASE Advance
  BY <1>0, <1>6 DEF Advance, Settled, registry, memory, TrendBounded, TrendTypeOK, Authorized
<1>7. CASE Repair
  BY <1>0, <1>7 DEF Repair, AtRest, Settled, registry, TrendBounded, TrendTypeOK, Stage
<1>8. CASE Crash
  BY <1>0, <1>8, TrendAssumption DEF Crash, Mishap, Settled, registry, TrendBounded, TrendTypeOK,
     NoRound, Round
<1>9. CASE AcceptanceFailed
  BY <1>0, <1>9, TrendAssumption DEF AcceptanceFailed, AtRest, Mishap, Settled, registry, TrendBounded,
     TrendTypeOK, Stage
<1>10. CASE Replanned
  <2>1. findings' \in Seq(Status) /\ Len(findings') <= MaxFindings
    <3>1. <<>> \in Seq(Status) /\ Len(<<>>) = 0
      OBVIOUS
    <3>2. findings' = <<>>
      BY <1>10 DEF Replanned
    <3> QED
      BY <3>1, <3>2, TrendAssumption
  <2>2. change' \in 1..(MaxMishaps + 1) /\ mishaps' \in 0..MaxMishaps /\ change' <= mishaps' + 1
    BY <1>0, <1>10, TrendAssumption DEF Replanned, Mishap, TrendTypeOK
  <2>3. stalled' \in Nat
    BY <1>10 DEF Replanned
  <2> QED
    BY <1>0, <1>10, <2>1, <2>2, <2>3 DEF Replanned, AtRest, Settled, TrendBounded, TrendTypeOK, Stage
<1>11. CASE AcceptChanges
  <2>1. ledger' \in Ledger
    BY <1>0, <1>11, TrendAssumption DEF AcceptChanges, Corrected, Ledger, NoRecurrences, TrendTypeOK
  <2>2. mishaps' \in 0..MaxMishaps /\ mishaps' = mishaps + 1
    BY <1>0, <1>11, TrendAssumption DEF AcceptChanges, Mishap, TrendTypeOK
  <2>3. /\ stage' \in Stage /\ next' \in Stage /\ stalled' = 0 /\ structured' = structured
        /\ round = NoRound /\ round' = round /\ disposed' = {} /\ reported' = 0
        /\ change' = change /\ findings' = findings /\ unfinished' = unfinished
    BY <1>0, <1>11 DEF AcceptChanges, AtRest, Settled, registry, TrendTypeOK, Stage
  <2>4. change' <= mishaps' + 1
    <3>1. change \in Nat /\ mishaps \in Nat /\ change <= mishaps + 1
      BY <1>0, TrendAssumption DEF TrendTypeOK
    <3>2. change <= (mishaps + 1) + 1
      BY <3>1
    <3> QED
      BY <2>2, <2>3, <3>2, Zenon
  <2>5. TrendTypeOK'
    BY <1>0, <2>1, <2>2, <2>3 DEF TrendTypeOK
  <2> QED
    BY <2>3, <2>4, <2>5 DEF TrendBounded
<1>12. CASE UNCHANGED trend
  BY <1>0, <1>12 DEF trend, registry, memory, progress, TrendBounded, TrendTypeOK, Authorized
<1> QED
  BY <1>1, <1>2, <1>4, <1>5, <1>6, <1>7, <1>8, <1>9, <1>10, <1>11, <1>12 DEF TrendNext

(* The counters of the policy's review ledger never pass their limits, and   *)
(* what it remembers of rounds is of findings that are registered.          *)
LEMMA TrendTypes == TrendSpec => []TrendTypeOK
<1>1. TrendInit => TrendBounded
  <2> SUFFICES ASSUME TrendInit PROVE TrendBounded
    OBVIOUS
  <2>1. findings \in Seq(Status) /\ Len(findings) <= MaxFindings
    <3>1. <<>> \in Seq(Status) /\ Len(<<>>) = 0
      OBVIOUS
    <3>2. findings = <<>>
      BY DEF TrendInit
    <3> QED
      BY <3>1, <3>2, TrendAssumption
  <2>2. NoRound \in Round
    BY DEF NoRound, Round
  <2>3. ledger \in Ledger
    BY TrendAssumption DEF TrendInit, Ledger, NoRecurrences
  <2>4. change \in 1..(MaxMishaps + 1) /\ mishaps \in 0..MaxMishaps /\ change <= mishaps + 1
    BY TrendAssumption DEF TrendInit
  <2>5. stalled \in Nat /\ reported \in Nat
    BY DEF TrendInit
  <2> QED
    BY <2>1, <2>2, <2>3, <2>4, <2>5 DEF TrendInit, TrendBounded, TrendTypeOK, Stage
<1>2. TrendBounded => TrendTypeOK
  BY DEF TrendBounded
<1> QED
  BY <1>1, <1>2, TrendTypesNext, PTL DEF TrendSpec
-----------------------------------------------------------------------------
(* Sums over the models, and over the sessions                               *)

(* The one that a sum takes next.                                            *)
OneOf(M) == CHOOSE m \in M : TRUE

(* `g` tells the sum for each of the sets in U.                              *)
Sums(g, amount, U) ==
  g = [M \in U |-> IF M = {} THEN 0 ELSE Plus(g[M \ {OneOf(M)}], amount[OneOf(M)])]

Within(S, n) == {M \in SUBSET S : Cardinality(M) <= n}

LEMMA OneLess ==
  ASSUME NEW S, IsFiniteSet(S), NEW M \in SUBSET S
  PROVE  /\ IsFiniteSet(M) /\ Cardinality(M) \in Nat /\ Cardinality(M) <= Cardinality(S)
         /\ M = {} <=> Cardinality(M) = 0
         /\ M # {} => /\ OneOf(M) \in M /\ OneOf(M) \in S /\ M \ {OneOf(M)} \in SUBSET S
                      /\ Cardinality(M \ {OneOf(M)}) = Cardinality(M) - 1
<1>1. IsFiniteSet(M) /\ Cardinality(M) <= Cardinality(S)
  BY FS_Subset
<1>2. Cardinality(M) \in Nat
  BY <1>1, FS_CardinalityType
<1>3. M = {} <=> Cardinality(M) = 0
  BY <1>1, FS_EmptySet
<1>4. ASSUME M # {}
      PROVE  /\ OneOf(M) \in M /\ OneOf(M) \in S /\ M \ {OneOf(M)} \in SUBSET S
             /\ Cardinality(M \ {OneOf(M)}) = Cardinality(M) - 1
  <2>1. OneOf(M) \in M
    BY <1>4 DEF OneOf
  <2> QED
    BY <1>1, <2>1, FS_RemoveElement
<1> QED
  BY <1>1, <1>2, <1>3, <1>4

(* Whatever holds of the empty set, and of a set if it does without one of   *)
(* its members, holds of every finite set.                                  *)
LEMMA ByMembers ==
  ASSUME NEW S, IsFiniteSet(S), NEW T, {} \in T,
         \A M \in SUBSET S : M # {} /\ M \ {OneOf(M)} \in T => M \in T
  PROVE  S \in T
<1> SUFFICES ASSUME S \notin T PROVE FALSE
  OBVIOUS
<1> DEFINE missed == {n \in Nat : \E M \in SUBSET S : Cardinality(M) = n /\ M \notin T}
<1>1. PICK x \in missed : \A y \in missed : x <= y
  <2>1. missed \subseteq Nat /\ missed # {}
    BY OneLess
  <2> HIDE DEF missed
  <2> QED
    BY <2>1, LeastNumber
<1>2. PICK M \in SUBSET S : Cardinality(M) = x /\ M \notin T
  BY <1>1
<1>3. M # {} /\ M \ {OneOf(M)} \in SUBSET S /\ Cardinality(M \ {OneOf(M)}) = x - 1
      /\ x \in Nat /\ x - 1 \in Nat
  <2>1. M # {}
    BY <1>2
  <2>2. Cardinality(M) \in Nat /\ Cardinality(M) # 0
    BY <2>1, OneLess
  <2>3. M \ {OneOf(M)} \in SUBSET S /\ Cardinality(M \ {OneOf(M)}) = Cardinality(M) - 1
    BY <2>1, OneLess
  <2> QED
    BY <1>2, <2>1, <2>2, <2>3
<1>4. M \ {OneOf(M)} \in T
  <2>1. x - 1 \notin missed
    BY <1>1, <1>3
  <2> QED
    BY <1>3, <2>1
<1> QED
  BY <1>2, <1>3, <1>4

(* There are sums for all sets of them.                                      *)
LEMMA SumsExist ==
  ASSUME NEW S, IsFiniteSet(S), NEW amount
  PROVE  \E g : Sums(g, amount, SUBSET S)
<1> DEFINE m == Cardinality(S)
           T == {n \in 0..m : \E g : Sums(g, amount, Within(S, n))}
<1>0. m \in Nat
  BY OneLess
<1>1. 0 \in T
  <2>1. Within(S, 0) = {{}}
    <3>1. \A M \in SUBSET S : Cardinality(M) <= 0 <=> M = {}
      <4> SUFFICES ASSUME NEW M \in SUBSET S PROVE Cardinality(M) <= 0 <=> M = {}
        OBVIOUS
      <4>1. Cardinality(M) \in Nat /\ (M = {} <=> Cardinality(M) = 0)
        BY OneLess
      <4> QED
        BY <4>1
    <3> QED
      BY <3>1 DEF Within
  <2>2. Sums([M \in {{}} |-> 0], amount, Within(S, 0))
    BY <2>1 DEF Sums
  <2> QED
    BY <1>0, <2>2
<1>2. ASSUME NEW n \in 0..m, n # m, n \in T PROVE n + 1 \in T
  <2>1. PICK g : Sums(g, amount, Within(S, n))
    BY <1>2
  <2> DEFINE h == [M \in Within(S, n + 1) |->
                     IF M \in Within(S, n) THEN g[M] ELSE Plus(g[M \ {OneOf(M)}], amount[OneOf(M)])]
             next_(M) == IF M = {} THEN 0 ELSE Plus(h[M \ {OneOf(M)}], amount[OneOf(M)])
  <2>2. \A M \in Within(S, n) : g[M] = IF M = {} THEN 0 ELSE Plus(g[M \ {OneOf(M)}], amount[OneOf(M)])
    <3>1. g = [M \in Within(S, n) |-> IF M = {} THEN 0 ELSE Plus(g[M \ {OneOf(M)}], amount[OneOf(M)])]
      BY <2>1 DEF Sums
    <3> QED
      BY <3>1
  <2>3. n \in Nat /\ \A M \in Within(S, n + 1) : M # {} => M \ {OneOf(M)} \in Within(S, n)
    <3>1. n \in Nat
      BY <1>0
    <3>2. ASSUME NEW M \in Within(S, n + 1), M # {} PROVE M \ {OneOf(M)} \in Within(S, n)
      <4>1. M \in SUBSET S /\ Cardinality(M) <= n + 1
        BY DEF Within
      <4>2. /\ Cardinality(M) \in Nat /\ M \ {OneOf(M)} \in SUBSET S
            /\ Cardinality(M \ {OneOf(M)}) = Cardinality(M) - 1
        BY <3>2, <4>1, OneLess
      <4>3. Cardinality(M \ {OneOf(M)}) <= n
        BY <3>1, <4>1, <4>2
      <4> QED
        BY <4>2, <4>3 DEF Within
    <3> QED
      BY <3>1, <3>2
  <2>4. Within(S, n) \subseteq Within(S, n + 1) /\ {} \in Within(S, n)
    <3>1. ASSUME NEW M \in SUBSET S
          PROVE  Cardinality(M) \in Nat /\ (M = {} => Cardinality(M) = 0)
      BY OneLess
    <3> QED
      BY <2>3, <3>1 DEF Within
  <2>5. \A M \in Within(S, n + 1) : h[M] = next_(M)
    <3> SUFFICES ASSUME NEW M \in Within(S, n + 1) PROVE h[M] = next_(M)
      OBVIOUS
    <3>1. M # {} => h[M \ {OneOf(M)}] = g[M \ {OneOf(M)}]
      BY <2>3, <2>4
    <3>2. CASE M \in Within(S, n)
      BY <2>2, <3>1, <3>2
    <3>3. CASE M \notin Within(S, n)
      BY <2>4, <3>1, <3>3
    <3> QED
      BY <3>2, <3>3
  <2> HIDE DEF next_
  <2>6. h = [M \in Within(S, n + 1) |-> next_(M)]
    BY <2>5
  <2>7. Sums(h, amount, Within(S, n + 1))
    BY <2>6 DEF Sums, next_
  <2>8. n + 1 \in 0..m
    BY <1>0, <1>2
  <2> QED
    BY <2>7, <2>8
<1>3. 0..m \subseteq T
  <2> HIDE DEF T
  <2> QED
    BY <1>0, <1>1, <1>2, UpTo
<1>4. PICK g : Sums(g, amount, Within(S, m))
  BY <1>0, <1>3
<1>5. Within(S, m) = SUBSET S
  BY OneLess DEF Within
<1> QED
  BY <1>4, <1>5

(* A total is the last of these sums.                                        *)
LEMMA Totalled ==
  ASSUME NEW amount
  PROVE  \E g : /\ Total(amount) = g[Models]
                /\ g[{}] = 0
                /\ \A M \in SUBSET Models :
                     M # {} => g[M] = Plus(g[M \ {OneOf(M)}], amount[OneOf(M)])
<1> DEFINE g == CHOOSE f : Sums(f, amount, SUBSET Models)
<1>1. Sums(g, amount, SUBSET Models)
  BY SumsExist, UsageAssumption
<1>2. Total(amount) = g[Models]
  BY DEF Total, FoldSet, MapThenFoldSet, Sums, OneOf
<1>3. g = [M \in SUBSET Models |-> IF M = {} THEN 0 ELSE Plus(g[M \ {OneOf(M)}], amount[OneOf(M)])]
  BY <1>1 DEF Sums
<1> HIDE DEF g
<1>4. \A M \in SUBSET Models : g[M] = IF M = {} THEN 0 ELSE Plus(g[M \ {OneOf(M)}], amount[OneOf(M)])
  BY <1>3
<1> QED
  BY <1>2, <1>4

Amounts == [Models -> Nat \cup {Unreported}]

(* A total is no more than another, but for what one model has more, if it   *)
(* is known.                                                                *)
LEMMA TotalAtMost ==
  ASSUME NEW amount \in Amounts, NEW bound \in [Models -> Nat], NEW more,
         \A m \in Models : amount[m] # Unreported =>
                             amount[m] <= bound[m] + (IF m = more THEN 1 ELSE 0)
  PROVE  /\ Total(bound) \in Nat /\ Total(amount) \in Nat \cup {Unreported}
         /\ Total(amount) # Unreported =>
              Total(amount) <= Total(bound) + (IF more \in Models THEN 1 ELSE 0)
<1>1. PICK g : /\ Total(amount) = g[Models]
               /\ g[{}] = 0
               /\ \A M \in SUBSET Models :
                    M # {} => g[M] = Plus(g[M \ {OneOf(M)}], amount[OneOf(M)])
  BY Totalled
<1>2. PICK h : /\ Total(bound) = h[Models]
               /\ h[{}] = 0
               /\ \A M \in SUBSET Models :
                    M # {} => h[M] = Plus(h[M \ {OneOf(M)}], bound[OneOf(M)])
  BY Totalled
<1> DEFINE T == {M \in SUBSET Models :
                   /\ h[M] \in Nat /\ g[M] \in Nat \cup {Unreported}
                   /\ g[M] # Unreported => g[M] <= h[M] + (IF more \in M THEN 1 ELSE 0)}
<1>3. {} \in T
  BY <1>1, <1>2
<1>4. ASSUME NEW M \in SUBSET Models, M # {}, M \ {OneOf(M)} \in T PROVE M \in T
  <2> DEFINE m == OneOf(M)
             rest == M \ {m}
  <2>1. m \in M /\ m \in Models /\ m \notin rest
    BY <1>4, OneLess, UsageAssumption
  <2>2. /\ h[rest] \in Nat /\ g[rest] \in Nat \cup {Unreported}
        /\ g[rest] # Unreported => g[rest] <= h[rest] + (IF more \in rest THEN 1 ELSE 0)
    BY <1>4
  <2>3. g[M] = Plus(g[rest], amount[m]) /\ h[M] = Plus(h[rest], bound[m])
    BY <1>1, <1>2, <1>4
  <2>4. bound[m] \in Nat /\ amount[m] \in Nat \cup {Unreported}
        /\ (amount[m] # Unreported => amount[m] <= bound[m] + (IF m = more THEN 1 ELSE 0))
    BY <2>1 DEF Amounts
  <2>5. Unreported \notin Nat
    BY UsageAssumption
  <2>6. more \in M <=> more \in rest \/ more = m
    BY <2>1
  <2> HIDE DEF m, rest
  <2>7. h[M] = h[rest] + bound[m] /\ h[M] \in Nat
    BY <2>2, <2>3, <2>4, <2>5 DEF Plus
  <2>8. CASE g[rest] = Unreported \/ amount[m] = Unreported
    <3>1. g[M] = Unreported
      BY <2>3, <2>8 DEF Plus
    <3> QED
      BY <2>7, <3>1
  <2>9. CASE g[rest] # Unreported /\ amount[m] # Unreported
    <3>1. g[M] = g[rest] + amount[m]
      BY <2>3, <2>9 DEF Plus
    <3>2. g[rest] \in Nat /\ amount[m] \in Nat
      BY <2>2, <2>4, <2>9
    <3>3. g[rest] <= h[rest] + (IF more \in rest THEN 1 ELSE 0)
          /\ amount[m] <= bound[m] + (IF m = more THEN 1 ELSE 0)
      BY <2>2, <2>4, <2>9
    <3>4. ~(more \in rest /\ m = more)
      BY <2>1
    <3>5. g[M] <= h[M] + (IF more \in M THEN 1 ELSE 0)
      BY <2>2, <2>4, <2>6, <2>7, <3>1, <3>2, <3>3, <3>4
    <3> QED
      BY <2>7, <3>1, <3>2, <3>5
  <2> QED
    BY <2>8, <2>9
<1>5. Models \in T
  <2> HIDE DEF T
  <2> QED
    BY <1>3, <1>4, UsageAssumption, ByMembers
<1> QED
  BY <1>1, <1>2, <1>5

(* Of nothing the total is nothing.                                          *)
LEMMA TotalOfNothing ==
  ASSUME NEW amount, \A m \in Models : amount[m] = 0
  PROVE  Total(amount) = 0
<1>1. PICK g : /\ Total(amount) = g[Models]
               /\ g[{}] = 0
               /\ \A M \in SUBSET Models :
                    M # {} => g[M] = Plus(g[M \ {OneOf(M)}], amount[OneOf(M)])
  BY Totalled
<1> DEFINE T == {M \in SUBSET Models : g[M] = 0}
<1>2. {} \in T
  BY <1>1
<1>3. ASSUME NEW M \in SUBSET Models, M # {}, M \ {OneOf(M)} \in T PROVE M \in T
  <2>1. amount[OneOf(M)] = 0 /\ g[M \ {OneOf(M)}] = 0
    BY <1>3, OneLess, UsageAssumption
  <2>2. g[M] = Plus(0, 0)
    BY <1>1, <1>3, <2>1
  <2> QED
    BY <2>2, UsageAssumption DEF Plus
<1>4. Models \in T
  <2> HIDE DEF T
  <2> QED
    BY <1>2, <1>3, UsageAssumption, ByMembers
<1> QED
  BY <1>1, <1>4
-----------------------------------------------------------------------------
(* What is charged for a session, and what may still be                      *)

Counter == UNION {[M -> Nat] : M \in SUBSET Models}
Counts == UNION {[M -> Nat \cup {Unreported}] : M \in SUBSET Models}
Snapshots == [models : Counts, reported : BOOLEAN] \cup {NoSnapshotYet}

Excess(totals, base, m) ==
  IF m \in DOMAIN totals /\ Of(base, m) # Unreported /\ Of(base, m) <= totals[m]
  THEN totals[m] - Of(base, m) ELSE 0

(* What a result would charge now to an attempt that starts from a snapshot. *)
Ahead(totals, snapshot) ==
  IF snapshot.reported THEN Total([m \in Models |-> Excess(totals, snapshot.models, m)]) ELSE 0

(* A snapshot is a function of models, known or not.                         *)
LEMMA SnapshotShape ==
  ASSUME NEW snapshot \in Snapshots
  PROVE  /\ snapshot.reported \in BOOLEAN
         /\ DOMAIN snapshot.models \subseteq Models
         /\ \A m : Of(snapshot.models, m) \in Nat \cup {Unreported}
<1>1. CASE snapshot = NoSnapshotYet
  BY <1>1 DEF NoSnapshotYet, Of
<1>2. CASE snapshot # NoSnapshotYet
  <2>1. snapshot.models \in Counts /\ snapshot.reported \in BOOLEAN
    BY <1>2 DEF Snapshots
  <2>2. PICK M \in SUBSET Models : snapshot.models \in [M -> Nat \cup {Unreported}]
    BY <2>1 DEF Counts
  <2> QED
    BY <2>1, <2>2 DEF Of
<1> QED
  BY <1>1, <1>2

(* So is a counter, and it is known.                                         *)
LEMMA CounterShape ==
  ASSUME NEW totals \in Counter
  PROVE  /\ DOMAIN totals \subseteq Models
         /\ \A m \in DOMAIN totals : totals[m] \in Nat
         /\ \A m : Of(totals, m) \in Nat
<1>1. PICK M \in SUBSET Models : totals \in [M -> Nat]
  BY DEF Counter
<1> QED
  BY <1>1 DEF Of

LEMMA ExcessType ==
  ASSUME NEW totals \in Counter, NEW snapshot \in Snapshots
  PROVE  /\ \A m \in Models : Excess(totals, snapshot.models, m) \in Nat
         /\ [m \in Models |-> Excess(totals, snapshot.models, m)] \in [Models -> Nat]
<1>1. ASSUME NEW m \in Models PROVE Excess(totals, snapshot.models, m) \in Nat
  <2>1. Of(snapshot.models, m) \in Nat \cup {Unreported}
    BY SnapshotShape
  <2>2. m \in DOMAIN totals => totals[m] \in Nat
    BY CounterShape
  <2> QED
    BY <2>1, <2>2 DEF Excess
<1> QED
  BY <1>1

(* A total is no more than another if no model has more.                     *)
LEMMA TotalAtMostThat ==
  ASSUME NEW amount \in Amounts, NEW bound \in [Models -> Nat],
         \A m \in Models : amount[m] # Unreported => amount[m] <= bound[m]
  PROVE  /\ Total(bound) \in Nat /\ Total(amount) \in Nat \cup {Unreported}
         /\ Total(amount) # Unreported => Total(amount) <= Total(bound)
<1>1. PICK none : none \notin Models
  BY NoSetContainsEverything
<1>2. \A m \in Models : amount[m] # Unreported =>
                          amount[m] <= bound[m] + (IF m = none THEN 1 ELSE 0)
  BY <1>1
<1>3. /\ Total(bound) \in Nat /\ Total(amount) \in Nat \cup {Unreported}
      /\ Total(amount) # Unreported =>
           Total(amount) <= Total(bound) + (IF none \in Models THEN 1 ELSE 0)
  BY <1>2, TotalAtMost
<1> QED
  BY <1>1, <1>3

LEMMA AheadType ==
  ASSUME NEW totals \in Counter, NEW snapshot \in Snapshots
  PROVE  Ahead(totals, snapshot) \in Nat
<1> DEFINE excess == [m \in Models |-> Excess(totals, snapshot.models, m)]
<1>1. excess \in [Models -> Nat] /\ excess \in Amounts
  BY ExcessType DEF Amounts
<1> HIDE DEF excess
<1>2. \A m \in Models : excess[m] # Unreported => excess[m] <= excess[m]
  BY <1>1
<1>3. Total(excess) \in Nat
  BY <1>1, <1>2, TotalAtMostThat
<1> QED
  BY <1>3 DEF Ahead, excess

(* Nothing is ahead of a snapshot of these very totals, nor if they are zero.*)
LEMMA AheadOfOwn ==
  ASSUME NEW totals \in Counter, NEW snapshot \in Snapshots,
         snapshot.reported =>
           \A m \in DOMAIN totals : Of(snapshot.models, m) \in {totals[m], Unreported}
                                      \/ totals[m] = 0
  PROVE  Ahead(totals, snapshot) = 0
<1>1. CASE ~snapshot.reported
  BY <1>1 DEF Ahead
<1>2. CASE snapshot.reported
  <2> DEFINE excess == [m \in Models |-> Excess(totals, snapshot.models, m)]
  <2>1. ASSUME NEW m \in Models PROVE Excess(totals, snapshot.models, m) = 0
    <3>1. Of(snapshot.models, m) \in Nat \cup {Unreported}
      BY SnapshotShape
    <3>2. m \in DOMAIN totals => totals[m] \in Nat
      BY CounterShape
    <3> QED
      BY <1>2, <3>1, <3>2 DEF Excess
  <2>2. \A m \in Models : excess[m] = 0
    BY <2>1
  <2> HIDE DEF excess
  <2>3. Total(excess) = 0
    BY <2>2, TotalOfNothing
  <2> QED
    BY <1>2, <2>3 DEF Ahead, excess
<1> QED
  BY <1>1, <1>2

(* A token makes a difference of at most one token.                          *)
LEMMA AheadByOne ==
  ASSUME NEW totals \in Counter, NEW snapshot \in Snapshots, NEW used \in Models,
         NEW now \in Counter, DOMAIN now = DOMAIN totals \cup {used},
         \A m \in DOMAIN now : now[m] = IF m = used THEN Of(totals, m) + 1 ELSE totals[m]
  PROVE  Ahead(now, snapshot) <= Ahead(totals, snapshot) + 1
<1>1. CASE ~snapshot.reported
  BY <1>1 DEF Ahead
<1>2. CASE snapshot.reported
  <2> DEFINE after == [m \in Models |-> Excess(now, snapshot.models, m)]
             before == [m \in Models |-> Excess(totals, snapshot.models, m)]
  <2>1. after \in Amounts /\ after \in [Models -> Nat] /\ before \in [Models -> Nat]
    BY ExcessType DEF Amounts
  <2>2. ASSUME NEW m \in Models
        PROVE  after[m] <= before[m] + (IF m = used THEN 1 ELSE 0)
    <3>1. Of(snapshot.models, m) \in Nat \cup {Unreported}
      BY SnapshotShape
    <3>2. /\ m \in DOMAIN totals => totals[m] \in Nat
          /\ Of(totals, m) \in Nat
      BY CounterShape
    <3>3. after[m] = Excess(now, snapshot.models, m)
          /\ before[m] = Excess(totals, snapshot.models, m)
      OBVIOUS
    <3> QED
      BY <3>1, <3>2, <3>3, UsageAssumption DEF Excess, Of
  <2> HIDE DEF after, before
  <2>3. /\ Total(before) \in Nat /\ Total(after) \in Nat \cup {Unreported}
        /\ Total(after) # Unreported => Total(after) <= Total(before) + 1
    BY <2>1, <2>2, TotalAtMost
  <2>4. Ahead(now, snapshot) = Total(after) /\ Ahead(totals, snapshot) = Total(before)
    BY <1>2 DEF Ahead, after, before
  <2>5. Ahead(now, snapshot) \in Nat
    BY AheadType
  <2> QED
    BY <2>3, <2>4, <2>5, UsageAssumption
<1> QED
  BY <1>1, <1>2

(* What a result charges is what it was ahead of the baseline.               *)
LEMMA AddedIsAhead ==
  ASSUME NEW totals \in Counter, NEW base \in Snapshots, base.reported,
         NEW now, DOMAIN now \subseteq DOMAIN totals,
         \A m \in DOMAIN now : now[m] \in {totals[m], Unreported}
  PROVE  /\ Added(now, base.models) \in Nat \cup {Unreported}
         /\ Added(now, base.models) # Unreported =>
              Added(now, base.models) <= Ahead(totals, base)
<1> DEFINE gain == [m \in Models |-> IF m \in DOMAIN now THEN Minus(now[m], Of(base.models, m)) ELSE 0]
           excess == [m \in Models |-> Excess(totals, base.models, m)]
<1>1. excess \in [Models -> Nat]
  BY ExcessType
<1>2. ASSUME NEW m \in Models
      PROVE  /\ gain[m] \in Nat \cup {Unreported}
             /\ gain[m] # Unreported => gain[m] <= excess[m]
  <2>1. Of(base.models, m) \in Nat \cup {Unreported}
    BY SnapshotShape
  <2>2. m \in DOMAIN totals => totals[m] \in Nat
    BY CounterShape
  <2>3. excess[m] = Excess(totals, base.models, m) /\ excess[m] \in Nat
    BY <1>1
  <2>4. CASE m \notin DOMAIN now
    BY <2>3, <2>4
  <2>5. CASE m \in DOMAIN now
    <3>1. gain[m] = Minus(now[m], Of(base.models, m)) /\ now[m] \in {totals[m], Unreported}
          /\ m \in DOMAIN totals
      BY <2>5
    <3> QED
      BY <2>1, <2>2, <2>3, <3>1, UsageAssumption DEF Minus, Excess
  <2> QED
    BY <2>4, <2>5
<1>3. gain \in Amounts
  BY <1>2 DEF Amounts
<1>4. Added(now, base.models) = Total(gain)
  BY DEF Added
<1>5. Ahead(totals, base) = Total(excess)
  BY DEF Ahead
<1> HIDE DEF gain, excess
<1> QED
  BY <1>1, <1>2, <1>3, <1>4, <1>5, TotalAtMostThat
-----------------------------------------------------------------------------
(* The invariant of the accounts                                            *)

AttemptType ==
  [session : Sessions, fresh : BOOLEAN, baseline : Snapshots, tokens : Nat \cup {Unreported},
   scope : Scope, cumulative : Snapshots, steps : Nat, seen : SUBSET Nat, told : Nat]

AccountsType ==
  /\ backend \in Backend
  /\ counter \in [Sessions -> Counter]
  /\ known \in [Sessions -> Snapshots] /\ saved \in [Sessions -> Snapshots]
  /\ attempt \in AttemptType \cup {NoAttempt}
  /\ spent \in [Sessions -> Nat] /\ charged \in [Sessions -> Nat] /\ tail \in [Sessions -> Nat]

(* So much may still be charged for a session.                               *)
Chargeable(s, tokens) == charged[s] + tokens <= spent[s] + tail[s]

(* What may come to be charged to an attempt that starts from a log's last   *)
(* snapshot of its session.                                                 *)
LogsSound ==
  \A s \in Sessions :
    /\ Chargeable(s, Ahead(counter[s], known[s])) /\ Chargeable(s, Ahead(counter[s], saved[s]))

(* Claude's result counts what a model has used: without one, no totals.     *)
NothingKnown(s) == DOMAIN counter[s] = {}

UnusedUnknown ==
  backend = "claude" =>
    \A s \in Sessions : NothingKnown(s) => ~known[s].reported /\ ~saved[s].reported

(* The attempt: what it may be charged, by its baseline and by its steps, is *)
(* not charged yet, nor is what its last total leaves to the attempts after. *)
AttemptSound ==
  LET s == attempt.session
      left == Ahead(counter[s], attempt.cumulative)
  IN /\ attempt.seen \subseteq 1..attempt.steps /\ attempt.told <= attempt.steps
     /\ Chargeable(s, Ahead(counter[s], attempt.baseline))
     /\ Chargeable(s, attempt.steps)
     /\ Chargeable(s, attempt.told + left)
     /\ IF backend = "opencode"
        THEN /\ ~attempt.cumulative.reported
             /\ attempt.tokens # Unreported => attempt.tokens <= Cardinality(attempt.seen)
        ELSE /\ attempt.tokens # Unreported => Chargeable(s, attempt.tokens + left)
             /\ attempt.cumulative = NoSnapshotYet => attempt.tokens = Unreported
     /\ attempt.fresh /\ attempt.steps = 0 => NothingKnown(s)
     /\ backend = "claude" /\ NothingKnown(s) => ~attempt.cumulative.reported

AccountsInv ==
  /\ AccountsType /\ LogsSound /\ UnusedUnknown
  /\ Working => AttemptSound

(* Codex reports totals always: its snapshots have some, or are none.        *)
Plain(snapshot) == snapshot.reported \/ snapshot = NoSnapshotYet

CodexReported ==
  backend = "codex" =>
    /\ \A s \in Sessions : Plain(known[s]) /\ Plain(saved[s])
    /\ Working => Plain(attempt.baseline) /\ Plain(attempt.cumulative)

LEMMA ZeroSnapshot == Zero \in Snapshots /\ NoSnapshotYet \in Snapshots /\ ~NoSnapshotYet.reported
<1>1. <<>> \in Counts
  <2>1. <<>> \in [{} -> Nat \cup {Unreported}]
    OBVIOUS
  <2> QED
    BY <2>1 DEF Counts
<1> QED
  BY <1>1 DEF Zero, Snapshots, NoSnapshotYet

LEMMA NoTotals == <<>> \in Counter /\ DOMAIN <<>> = {}
<1>1. <<>> \in [{} -> Nat]
  OBVIOUS
<1> QED
  BY <1>1 DEF Counter

(* Nothing has been spent.                                                   *)
LEMMA AccountsInitially == UsageInit => AccountsInv
<1> SUFFICES ASSUME UsageInit PROVE AccountsInv
  OBVIOUS
<1>1. /\ backend \in Backend
      /\ counter = [s \in Sessions |-> <<>>]
      /\ known = [s \in Sessions |-> NoSnapshotYet] /\ saved = known
      /\ attempt = NoAttempt
      /\ spent = [s \in Sessions |-> 0] /\ charged = spent /\ tail = spent
  BY DEF UsageInit
<1>2. AccountsType
  BY <1>1, ZeroSnapshot, NoTotals DEF AccountsType
<1>3. LogsSound
  <2>1. \A s \in Sessions : Ahead(counter[s], known[s]) = 0
    BY <1>1, ZeroSnapshot DEF Ahead
  <2> QED
    BY <1>1, <2>1 DEF LogsSound, Chargeable
<1>4. UnusedUnknown
  BY <1>1, ZeroSnapshot DEF UnusedUnknown
<1> QED
  BY <1>1, <1>2, <1>3, <1>4 DEF AccountsInv, Working

(* What the types say of one session.                                        *)
LEMMA AccountTypes ==
  ASSUME AccountsType, NEW s \in Sessions
  PROVE  /\ counter[s] \in Counter
         /\ known[s] \in Snapshots /\ saved[s] \in Snapshots
         /\ Ahead(counter[s], known[s]) \in Nat /\ Ahead(counter[s], saved[s]) \in Nat
         /\ spent[s] \in Nat /\ charged[s] \in Nat /\ tail[s] \in Nat
<1>1. counter[s] \in Counter /\ known[s] \in Snapshots /\ saved[s] \in Snapshots
      /\ spent[s] \in Nat /\ charged[s] \in Nat /\ tail[s] \in Nat
  BY DEF AccountsType
<1> QED
  BY <1>1, AheadType

(* What they say of the attempt in progress.                                 *)
LEMMA AttemptTypes ==
  ASSUME AccountsType, Working
  PROVE  /\ attempt \in AttemptType /\ attempt.session \in Sessions
         /\ attempt.fresh \in BOOLEAN /\ attempt.steps \in Nat /\ attempt.told \in Nat
         /\ attempt.baseline \in Snapshots /\ attempt.cumulative \in Snapshots
         /\ attempt.tokens \in Nat \cup {Unreported}
         /\ Ahead(counter[attempt.session], attempt.baseline) \in Nat
         /\ Ahead(counter[attempt.session], attempt.cumulative) \in Nat
<1>1. attempt \in AttemptType
  BY DEF AccountsType, Working
<1>2. /\ attempt.session \in Sessions /\ attempt.fresh \in BOOLEAN
      /\ attempt.steps \in Nat /\ attempt.told \in Nat
      /\ attempt.baseline \in Snapshots /\ attempt.cumulative \in Snapshots
      /\ attempt.tokens \in Nat \cup {Unreported}
  BY <1>1 DEF AttemptType
<1>3. counter[attempt.session] \in Counter
  BY <1>2, AccountTypes
<1> QED
  BY <1>1, <1>2, <1>3, AheadType

(* An attempt begins with a baseline that its session allows.                *)
LEMMA BeginSound ==
  ASSUME AccountsInv, NEW s \in Sessions, NEW fresh \in BOOLEAN, NEW base \in Snapshots,
         Begin(s, fresh, base), fresh => NothingKnown(s),
         Chargeable(s, Ahead(counter[s], base)),
         UNCHANGED <<backend, counter, known, saved, spent, charged, tail>>
  PROVE  AccountsInv'
<1>1. attempt' = [session |-> s, fresh |-> fresh, baseline |-> base, tokens |-> Unreported,
                  scope |-> "unavailable", cumulative |-> NoSnapshotYet, steps |-> 0, seen |-> {},
                  told |-> 0]
  BY DEF Begin
<1>2. attempt' \in AttemptType
  BY <1>1, ZeroSnapshot DEF AttemptType, Scope
<1>3. AccountsType'
  BY <1>2 DEF AccountsInv, AccountsType
<1>4. LogsSound' /\ UnusedUnknown'
  BY DEF AccountsInv, LogsSound, UnusedUnknown, Chargeable, NothingKnown
<1>5. AttemptSound'
  <2>1. Ahead(counter[s], NoSnapshotYet) = 0
    BY ZeroSnapshot DEF Ahead
  <2>2. charged[s] <= spent[s] + tail[s]
    BY AccountTypes DEF AccountsInv, LogsSound, Chargeable
  <2>3. charged[s] \in Nat
    BY AccountTypes DEF AccountsInv
  <2> QED
    BY <1>1, <2>1, <2>2, <2>3, ZeroSnapshot DEF AttemptSound, Chargeable, NothingKnown
<1> QED
  BY <1>3, <1>4, <1>5 DEF AccountsInv

LEMMA StartsSound ==
  ASSUME AccountsInv, NEW s \in Sessions, StartNew(s) \/ StartAgain(s) \/ ThreadStarts(s)
  PROVE  AccountsInv'
<1>1. counter[s] \in Counter /\ known[s] \in Snapshots /\ charged[s] \in Nat
      /\ Chargeable(s, Ahead(counter[s], known[s])) /\ Ahead(counter[s], known[s]) \in Nat
      /\ spent[s] \in Nat /\ tail[s] \in Nat
  BY AccountTypes DEF AccountsInv, LogsSound
<1>2. ASSUME Unused(s)
      PROVE  NothingKnown(s) /\ Chargeable(s, Ahead(counter[s], Zero))
  <2>1. NothingKnown(s)
    BY <1>2, NoTotals DEF Unused, NothingKnown
  <2>2. Ahead(counter[s], Zero) = 0
    BY <1>1, <2>1, AheadOfOwn, ZeroSnapshot DEF NothingKnown
  <2>3. Chargeable(s, 0)
    BY <1>1 DEF Chargeable
  <2> QED
    BY <2>1, <2>2, <2>3
<1>3. CASE StartNew(s)
  BY <1>2, <1>3, ZeroSnapshot, BeginSound DEF StartNew
<1>4. CASE StartAgain(s)
  BY <1>1, <1>4, BeginSound DEF StartAgain
<1>5. CASE ThreadStarts(s)
  <2>1. /\ known' = [known EXCEPT ![s] = Zero] /\ backend = "codex" /\ ~Working /\ Unused(s)
        /\ UNCHANGED <<backend, counter, saved, attempt, spent, charged, tail>>
    BY <1>5 DEF ThreadStarts
  <2>2. AccountsType'
    BY <2>1, ZeroSnapshot DEF AccountsInv, AccountsType
  <2>3. \A x \in Sessions : known'[x] = IF x = s THEN Zero ELSE known[x]
    BY <2>1 DEF AccountsInv, AccountsType
  <2>4. LogsSound'
    BY <1>2, <2>1, <2>3 DEF AccountsInv, LogsSound, Chargeable
  <2>5. UnusedUnknown' /\ ~Working'
    BY <2>1 DEF UnusedUnknown, Working
  <2> QED
    BY <2>2, <2>4, <2>5 DEF AccountsInv
<1> QED
  BY <1>3, <1>4, <1>5

(* The attempt goes on in a session of which nothing is known.               *)
LEMMA RenamedSound ==
  ASSUME AccountsInv, NEW s \in Sessions, Renamed(s)
  PROVE  AccountsInv'
<1> DEFINE old == attempt.session
<1>1. /\ Working /\ backend = "claude" /\ attempt.steps = 0 /\ attempt.cumulative = NoSnapshotYet
      /\ s # old /\ Unused(s) /\ known[s] = NoSnapshotYet
      /\ counter' \in {counter, [counter EXCEPT ![s] = counter[old]]}
      /\ attempt' = [attempt EXCEPT !.session = s,
                       !.baseline = IF attempt.fresh THEN attempt.baseline ELSE known[s]]
      /\ UNCHANGED <<backend, known, saved, spent, charged, tail>>
  BY DEF Renamed
<1>2. AccountsType /\ LogsSound /\ UnusedUnknown /\ AttemptSound
  BY <1>1 DEF AccountsInv
<1>3. /\ attempt \in AttemptType /\ old \in Sessions /\ attempt.fresh \in BOOLEAN
      /\ attempt.baseline \in Snapshots /\ attempt.told \in Nat
  BY <1>1, <1>2, AttemptTypes
<1>4. /\ counter[s] \in Counter /\ counter[old] \in Counter /\ known[s] \in Snapshots
      /\ saved[s] \in Snapshots /\ charged[s] \in Nat /\ spent[s] \in Nat /\ tail[s] \in Nat
      /\ Ahead(counter[s], known[s]) \in Nat
  BY <1>2, <1>3, AccountTypes
<1>5. NothingKnown(s) /\ ~known[s].reported /\ ~saved[s].reported
  <2>1. NothingKnown(s)
    BY <1>1, NoTotals DEF Unused, NothingKnown
  <2> QED
    BY <1>1, <1>2, <2>1 DEF UnusedUnknown
<1>6. /\ counter' \in [Sessions -> Counter]
      /\ counter'[s] \in {counter[s], counter[old]}
      /\ \A x \in Sessions : x # s => counter'[x] = counter[x]
  BY <1>1, <1>2, <1>4 DEF AccountsType
<1>7. /\ attempt' \in AttemptType
      /\ attempt'.session = s
      /\ attempt'.baseline = IF attempt.fresh THEN attempt.baseline ELSE known[s]
      /\ attempt'.fresh = attempt.fresh /\ attempt'.steps = 0 /\ attempt'.seen = attempt.seen
      /\ attempt'.told = attempt.told /\ attempt'.tokens = attempt.tokens
      /\ attempt'.cumulative = NoSnapshotYet
  BY <1>1, <1>3, <1>4 DEF AttemptType
<1>8. AccountsType'
  BY <1>1, <1>2, <1>6, <1>7 DEF AccountsType
<1>9. LogsSound'
  <2>1. ASSUME NEW x \in Sessions
        PROVE  (Chargeable(x, Ahead(counter[x], known[x])) /\ Chargeable(x, Ahead(counter[x], saved[x])))'
    <3>1. CASE x = s
      <4>1. Ahead(counter[s], known[s])' = 0 /\ Ahead(counter[s], saved[s])' = 0
        BY <1>1, <1>5 DEF Ahead
      <4>2. charged[s] <= spent[s] + tail[s]
        BY <1>2, <1>4 DEF LogsSound, Chargeable
      <4> QED
        BY <1>1, <1>4, <3>1, <4>1, <4>2 DEF Chargeable
    <3>2. CASE x # s
      BY <1>1, <1>2, <1>6, <3>2 DEF LogsSound, Chargeable
    <3> QED
      BY <3>1, <3>2
  <2> QED
    BY <2>1 DEF LogsSound
<1>10. UnusedUnknown'
  BY <1>1, <1>2, <1>5, <1>6 DEF UnusedUnknown, NothingKnown
<1>11. AttemptSound'
  <2>1. charged[s] <= spent[s] + tail[s]
    BY <1>2, <1>4 DEF LogsSound, Chargeable
  <2>2. attempt.fresh => NothingKnown(s)'
    BY <1>1, <1>2, <1>5, <1>6 DEF AttemptSound, NothingKnown
  <2>3. Ahead(counter'[s], attempt'.baseline) = 0
    <3>1. CASE attempt.fresh
      <4>1. counter'[s] \in Counter /\ DOMAIN counter'[s] = {}
        BY <1>6, <2>2, <3>1 DEF NothingKnown
      <4> QED
        BY <1>3, <1>7, <3>1, <4>1, AheadOfOwn
    <3>2. CASE ~attempt.fresh
      BY <1>5, <1>7, <3>2 DEF Ahead
    <3> QED
      BY <1>3, <3>1, <3>2
  <2>4. Ahead(counter'[s], NoSnapshotYet) = 0
    BY ZeroSnapshot DEF Ahead
  <2>5. attempt.told = 0 /\ attempt.tokens = Unreported /\ attempt.seen \subseteq 1..0
    BY <1>1, <1>2, <1>3 DEF AttemptSound
  <2> QED
    BY <1>1, <1>4, <1>7, <2>1, <2>2, <2>3, <2>4, <2>5, ZeroSnapshot DEF AttemptSound, Chargeable
<1> QED
  BY <1>8, <1>9, <1>10, <1>11 DEF AccountsInv

(* A token more is spent: on the session, and by the attempt.                *)
LEMMA WorkSound ==
  ASSUME AccountsInv, NEW m \in Models, Work(m)
  PROVE  AccountsInv'
<1> DEFINE s == attempt.session
           totals == counter[s]
           now == Used(totals, m)
<1>1. /\ Working
      /\ counter' = [counter EXCEPT ![s] = now]
      /\ attempt' = [attempt EXCEPT !.steps = attempt.steps + 1]
      /\ spent' = [spent EXCEPT ![s] = spent[s] + 1]
      /\ UNCHANGED <<backend, known, saved, charged, tail>>
  BY DEF Work
<1>2. AccountsType /\ LogsSound /\ UnusedUnknown /\ AttemptSound
  BY <1>1 DEF AccountsInv
<1>3. /\ attempt \in AttemptType /\ s \in Sessions /\ attempt.steps \in Nat /\ attempt.told \in Nat
      /\ attempt.baseline \in Snapshots /\ attempt.cumulative \in Snapshots
      /\ attempt.tokens \in Nat \cup {Unreported}
      /\ Ahead(totals, attempt.baseline) \in Nat /\ Ahead(totals, attempt.cumulative) \in Nat
  BY <1>1, <1>2, AttemptTypes
<1>4. /\ totals \in Counter /\ known[s] \in Snapshots /\ saved[s] \in Snapshots
      /\ Ahead(totals, known[s]) \in Nat /\ Ahead(totals, saved[s]) \in Nat
      /\ charged[s] \in Nat /\ spent[s] \in Nat /\ tail[s] \in Nat
  BY <1>2, <1>3, AccountTypes
<1>5. /\ DOMAIN now = DOMAIN totals \cup {m}
      /\ \A x \in DOMAIN now : now[x] = IF x = m THEN Of(totals, m) + 1 ELSE totals[x]
  BY DEF Used
<1>6. now \in Counter
  <2>1. DOMAIN now \subseteq Models /\ \A x \in DOMAIN now : now[x] \in Nat
    BY <1>4, <1>5, CounterShape
  <2>2. now = [x \in DOMAIN now |-> now[x]]
    BY DEF Used
  <2> HIDE DEF now
  <2>3. now \in [DOMAIN now -> Nat]
    BY <2>1, <2>2
  <2> QED
    BY <2>1, <2>3 DEF Counter
<1>7. \A snapshot \in Snapshots : /\ Ahead(now, snapshot) \in Nat
                                  /\ Ahead(now, snapshot) <= Ahead(totals, snapshot) + 1
  <2> HIDE DEF now, totals
  <2> QED
    BY <1>4, <1>5, <1>6, AheadByOne, AheadType
<1> HIDE DEF now
<1>8. /\ counter' \in [Sessions -> Counter] /\ counter'[s] = now
      /\ \A x \in Sessions : x # s => counter'[x] = counter[x] /\ spent'[x] = spent[x]
      /\ spent' \in [Sessions -> Nat] /\ spent'[s] = spent[s] + 1
  BY <1>1, <1>2, <1>3, <1>4, <1>6 DEF AccountsType
<1>9. /\ attempt' \in AttemptType /\ attempt'.session = s /\ attempt'.steps = attempt.steps + 1
      /\ attempt'.fresh = attempt.fresh /\ attempt'.baseline = attempt.baseline
      /\ attempt'.tokens = attempt.tokens /\ attempt'.cumulative = attempt.cumulative
      /\ attempt'.seen = attempt.seen /\ attempt'.told = attempt.told
  BY <1>1, <1>3 DEF AttemptType
<1>10. AccountsType'
  BY <1>1, <1>2, <1>8, <1>9 DEF AccountsType
<1>11. LogsSound'
  <2>1. ASSUME NEW x \in Sessions
        PROVE  (Chargeable(x, Ahead(counter[x], known[x])) /\ Chargeable(x, Ahead(counter[x], saved[x])))'
    <3>1. CASE x = s
      <4>1. /\ Ahead(now, known[s]) \in Nat /\ Ahead(now, known[s]) <= Ahead(totals, known[s]) + 1
            /\ Ahead(now, saved[s]) \in Nat /\ Ahead(now, saved[s]) <= Ahead(totals, saved[s]) + 1
        BY <1>4, <1>7
      <4> QED
        BY <1>1, <1>2, <1>3, <1>4, <1>8, <3>1, <4>1 DEF LogsSound, Chargeable
    <3>2. CASE x # s
      BY <1>1, <1>2, <1>8, <3>2 DEF LogsSound, Chargeable
    <3> QED
      BY <3>1, <3>2
  <2> QED
    BY <2>1 DEF LogsSound
<1>12. UnusedUnknown'
  BY <1>1, <1>2, <1>5, <1>8 DEF UnusedUnknown, NothingKnown
<1>13. AttemptSound'
  <2>1. /\ Ahead(now, attempt.baseline) \in Nat
        /\ Ahead(now, attempt.baseline) <= Ahead(totals, attempt.baseline) + 1
        /\ Ahead(now, attempt.cumulative) \in Nat
        /\ Ahead(now, attempt.cumulative) <= Ahead(totals, attempt.cumulative) + 1
    BY <1>3, <1>7
  <2>2. /\ attempt.seen \subseteq 1..(attempt.steps + 1) /\ attempt.told <= attempt.steps + 1
    BY <1>2, <1>3 DEF AttemptSound
  <2>3. DOMAIN counter'[s] # {} /\ attempt.steps + 1 # 0
    BY <1>3, <1>5, <1>8
  <2>4. /\ Chargeable(s, Ahead(totals, attempt.baseline)) /\ Chargeable(s, attempt.steps)
        /\ Chargeable(s, attempt.told + Ahead(totals, attempt.cumulative))
    BY <1>2 DEF AttemptSound
  <2>5. /\ charged[s] + Ahead(now, attempt.baseline) <= spent[s] + 1 + tail[s]
        /\ charged[s] + (attempt.steps + 1) <= spent[s] + 1 + tail[s]
        /\ charged[s] + (attempt.told + Ahead(now, attempt.cumulative)) <= spent[s] + 1 + tail[s]
    BY <1>3, <1>4, <2>1, <2>4 DEF Chargeable
  <2>6. ASSUME backend # "opencode", attempt.tokens # Unreported
        PROVE  charged[s] + (attempt.tokens + Ahead(now, attempt.cumulative))
                 <= spent[s] + 1 + tail[s]
    <3>1. Chargeable(s, attempt.tokens + Ahead(totals, attempt.cumulative))
      BY <1>2, <2>6 DEF AttemptSound
    <3> QED
      BY <1>3, <1>4, <2>1, <2>6, <3>1 DEF Chargeable
  <2> QED
    BY <1>1, <1>2, <1>8, <1>9, <2>2, <2>3, <2>5, <2>6
    DEF AttemptSound, Chargeable, NothingKnown
<1> QED
  BY <1>10, <1>11, <1>12, <1>13 DEF AccountsInv

(* Totals that start again are ahead of nothing.                             *)
LEMMA RestartSound ==
  ASSUME AccountsInv, NEW s \in Sessions, CounterRestarts(s)
  PROVE  AccountsInv'
<1> DEFINE now == [m \in DOMAIN counter[s] |-> 0]
<1>1. /\ counter' = [counter EXCEPT ![s] = now]
      /\ UNCHANGED <<backend, known, saved, attempt, spent, charged, tail>>
  BY DEF CounterRestarts
<1>2. AccountsType /\ LogsSound /\ UnusedUnknown /\ (Working => AttemptSound)
  BY DEF AccountsInv
<1>3. counter[s] \in Counter /\ known[s] \in Snapshots /\ saved[s] \in Snapshots
      /\ Ahead(counter[s], known[s]) \in Nat
      /\ charged[s] \in Nat /\ spent[s] \in Nat /\ tail[s] \in Nat
  BY <1>2, AccountTypes
<1>4. now \in Counter
  <2>1. DOMAIN counter[s] \in SUBSET Models /\ now \in [DOMAIN counter[s] -> Nat]
    BY <1>3, CounterShape
  <2> QED
    BY <2>1 DEF Counter
<1>5. \A snapshot \in Snapshots : Ahead(now, snapshot) = 0
  BY <1>4, AheadOfOwn
<1>6. DOMAIN now = DOMAIN counter[s]
  OBVIOUS
<1> HIDE DEF now
<1>7. /\ counter' \in [Sessions -> Counter] /\ counter'[s] = now
      /\ \A x \in Sessions : x # s => counter'[x] = counter[x]
      /\ \A x \in Sessions : DOMAIN counter'[x] = DOMAIN counter[x]
  BY <1>1, <1>2, <1>4, <1>6 DEF AccountsType
<1>8. AccountsType'
  BY <1>1, <1>2, <1>7 DEF AccountsType
<1>9. charged[s] <= spent[s] + tail[s]
  BY <1>2, <1>3 DEF LogsSound, Chargeable
<1>10. LogsSound'
  <2>1. ASSUME NEW x \in Sessions
        PROVE  (Chargeable(x, Ahead(counter[x], known[x])) /\ Chargeable(x, Ahead(counter[x], saved[x])))'
    <3>1. CASE x = s
      BY <1>1, <1>3, <1>5, <1>7, <1>9, <3>1 DEF Chargeable
    <3>2. CASE x # s
      BY <1>1, <1>2, <1>7, <3>2 DEF LogsSound, Chargeable
    <3> QED
      BY <3>1, <3>2
  <2> QED
    BY <2>1 DEF LogsSound
<1>11. UnusedUnknown'
  BY <1>1, <1>2, <1>7 DEF UnusedUnknown, NothingKnown
<1>12. ASSUME Working PROVE AttemptSound'
  <2>1. /\ attempt.session \in Sessions /\ attempt.told \in Nat
        /\ attempt.baseline \in Snapshots /\ attempt.cumulative \in Snapshots
        /\ attempt.tokens \in Nat \cup {Unreported}
        /\ Ahead(counter[attempt.session], attempt.cumulative) \in Nat
    BY <1>2, <1>12, AttemptTypes
  <2>2. CASE attempt.session # s
    <3>1. counter'[attempt.session] = counter[attempt.session]
      BY <1>7, <2>1, <2>2
    <3>2. AttemptSound' = AttemptSound
      BY <1>1, <3>1 DEF AttemptSound, Chargeable, NothingKnown
    <3> QED
      BY <1>2, <1>12, <3>2
  <2>3. CASE attempt.session = s
    <3>1. Ahead(now, attempt.cumulative) = 0 /\ Ahead(now, attempt.baseline) = 0
      BY <1>5, <2>1
    <3>2. Chargeable(s, attempt.told)
          /\ (backend # "opencode" /\ attempt.tokens # Unreported => Chargeable(s, attempt.tokens))
      BY <1>2, <1>3, <1>12, <2>1, <2>3 DEF AttemptSound, Chargeable
    <3>3. NothingKnown(s)' <=> NothingKnown(s)
      BY <1>7 DEF NothingKnown
    <3> QED
      BY <1>1, <1>2, <1>3, <1>7, <1>9, <1>12, <2>1, <2>3, <3>1, <3>2, <3>3
      DEF AttemptSound, Chargeable
  <2> QED
    BY <2>2, <2>3
<1> QED
  BY <1>1, <1>8, <1>10, <1>11, <1>12 DEF AccountsInv, Working

(* The messages or steps that are seen are as many as were taken, at most.   *)
LEMMA SeenCounted ==
  ASSUME NEW steps \in Nat, NEW seen \in SUBSET Nat, seen \subseteq 1..steps
  PROVE  IsFiniteSet(seen) /\ Cardinality(seen) \in Nat /\ Cardinality(seen) <= steps
<1>1. IsFiniteSet(1..steps) /\ Cardinality(1..steps) = steps
  BY FS_Interval
<1>2. IsFiniteSet(seen) /\ Cardinality(seen) <= steps
  BY <1>1, FS_Subset
<1> QED
  BY <1>2, FS_CardinalityType

(* What an attempt observes changes nothing but the attempt.                 *)
LEMMA ObservedSound ==
  ASSUME AccountsInv, attempt' \in AttemptType, AttemptSound',
         UNCHANGED <<backend, counter, known, saved, spent, charged, tail>>
  PROVE  AccountsInv'
<1>1. AccountsType'
  BY DEF AccountsInv, AccountsType
<1>2. LogsSound' /\ UnusedUnknown'
  BY DEF AccountsInv, LogsSound, UnusedUnknown, Chargeable, NothingKnown
<1> QED
  BY <1>1, <1>2 DEF AccountsInv

LEMMA StepSound ==
  ASSUME AccountsInv, NEW n \in 1..MaxSpent, Step(n)
  PROVE  AccountsInv'
<1> DEFINE more == IF attempt.tokens = Unreported THEN 1 ELSE attempt.tokens + 1
           tokens == IF backend = "opencode" THEN more ELSE attempt.tokens
           scope == IF backend = "opencode" THEN "steps" ELSE attempt.scope
<1>1. /\ Working /\ n <= attempt.steps /\ n \notin attempt.seen
      /\ attempt' = [attempt EXCEPT !.seen = attempt.seen \cup {n}, !.tokens = tokens,
                                    !.scope = scope]
      /\ UNCHANGED <<backend, counter, known, saved, spent, charged, tail>>
  BY DEF Step
<1>2. AccountsType /\ AttemptSound
  BY <1>1 DEF AccountsInv
<1>3. /\ attempt \in AttemptType /\ attempt.steps \in Nat /\ attempt.tokens \in Nat \cup {Unreported}
  BY <1>1, <1>2, AttemptTypes
<1>4. attempt.seen \in SUBSET Nat /\ attempt.seen \subseteq 1..attempt.steps /\ attempt.scope \in Scope
  BY <1>2, <1>3 DEF AttemptSound, AttemptType
<1>5. tokens \in Nat \cup {Unreported} /\ scope \in Scope /\ n \in Nat /\ n \in 1..attempt.steps
  BY <1>1, <1>3, <1>4, UsageAssumption DEF Scope
<1>6. backend = "opencode" /\ tokens # Unreported => tokens <= Cardinality(attempt.seen \cup {n})
  <2>1. IsFiniteSet(attempt.seen) /\ Cardinality(attempt.seen) \in Nat
    BY <1>3, <1>4, SeenCounted
  <2>2. Cardinality(attempt.seen \cup {n}) = Cardinality(attempt.seen) + 1
    BY <1>1, <2>1, FS_AddElement
  <2>3. backend = "opencode" /\ attempt.tokens # Unreported =>
          attempt.tokens <= Cardinality(attempt.seen)
    BY <1>2 DEF AttemptSound
  <2> QED
    BY <1>3, <2>1, <2>2, <2>3
<1>7. backend # "opencode" => tokens = attempt.tokens
  OBVIOUS
<1> HIDE DEF tokens, scope
<1>8. /\ attempt' \in AttemptType
      /\ attempt'.session = attempt.session /\ attempt'.steps = attempt.steps
      /\ attempt'.fresh = attempt.fresh /\ attempt'.baseline = attempt.baseline
      /\ attempt'.tokens = tokens /\ attempt'.cumulative = attempt.cumulative
      /\ attempt'.seen = attempt.seen \cup {n} /\ attempt'.told = attempt.told
  BY <1>1, <1>3, <1>4, <1>5 DEF AttemptType
<1>9. AttemptSound'
  BY <1>1, <1>2, <1>4, <1>5, <1>6, <1>7, <1>8 DEF AttemptSound, Chargeable, NothingKnown
<1> QED
  BY <1>1, <1>8, <1>9, ObservedSound

(* A total that is reported leaves nothing before it: what it is ahead of    *)
(* the baseline is for the attempt, what comes is for those after.           *)
LEMMA TotalSound ==
  ASSUME AccountsInv, Working, backend # "opencode",
         attempt' \in AttemptType,
         attempt'.session = attempt.session, attempt'.steps = attempt.steps,
         attempt'.seen = attempt.seen, attempt'.fresh = attempt.fresh,
         attempt'.cumulative # NoSnapshotYet, attempt'.told <= attempt.steps,
         Ahead(counter[attempt.session], attempt'.cumulative) = 0,
         Chargeable(attempt.session, Ahead(counter[attempt.session], attempt'.baseline)),
         attempt'.tokens # Unreported => Chargeable(attempt.session, attempt'.tokens),
         backend = "claude" /\ NothingKnown(attempt.session) => ~attempt'.cumulative.reported,
         UNCHANGED <<backend, counter, known, saved, spent, charged, tail>>
  PROVE  AccountsInv'
<1> DEFINE s == attempt.session
<1>1. AccountsType /\ AttemptSound
  BY DEF AccountsInv
<1>2. s \in Sessions /\ attempt.steps \in Nat
  BY <1>1, AttemptTypes
<1>3. charged[s] \in Nat /\ spent[s] \in Nat /\ tail[s] \in Nat
  BY <1>1, <1>2, AccountTypes
<1>4. attempt'.told \in Nat /\ attempt'.tokens \in Nat \cup {Unreported}
  BY DEF AttemptType
<1>5. Chargeable(s, attempt'.told)
  <2>1. Chargeable(s, attempt.steps)
    BY <1>1 DEF AttemptSound
  <2> QED
    BY <1>2, <1>3, <1>4, <2>1 DEF Chargeable
<1>6. attempt'.told + 0 = attempt'.told
      /\ (attempt'.tokens # Unreported => attempt'.tokens + 0 = attempt'.tokens)
  BY <1>4
<1>7. AttemptSound'
  BY <1>1, <1>5, <1>6 DEF AttemptSound, Chargeable, NothingKnown
<1> QED
  BY <1>7, ObservedSound

(* Functions of some models, with amounts that may be unknown.               *)
LEMMA CountsShape ==
  ASSUME NEW f, NEW M \in SUBSET Models, f \in [M -> Nat \cup {Unreported}], NEW shown \in BOOLEAN
  PROVE  [models |-> f, reported |-> shown] \in Snapshots \ {NoSnapshotYet}
<1>1. f \in Counts
  BY DEF Counts
<1>2. [models |-> f, reported |-> shown] # NoSnapshotYet
  <2>1. "missing" \in DOMAIN NoSnapshotYet
    BY DEF NoSnapshotYet
  <2>2. "missing" \notin DOMAIN [models |-> f, reported |-> shown]
    OBVIOUS
  <2> QED
    BY <2>1, <2>2
<1> QED
  BY <1>1, <1>2 DEF Snapshots

(* Validated against a baseline, an amount is what it was or unknown.        *)
LEMMA ValidatedShape ==
  ASSUME NEW totals \in Counter, NEW models \in SUBSET Models, models \subseteq DOMAIN totals,
         NEW before
  PROVE  LET now == Validated([m \in models |-> totals[m]], before)
         IN /\ DOMAIN now = models /\ now \in [models -> Nat \cup {Unreported}]
            /\ \A m \in models : now[m] \in {totals[m], Unreported}
<1>1. \A m \in models : totals[m] \in Nat
  BY CounterShape
<1> QED
  BY <1>1 DEF Validated

(* A result of Claude.                                                      *)
LEMMA ResultSound ==
  ASSUME AccountsInv, NEW models \in SUBSET Models, Result(models)
  PROVE  AccountsInv'
<1> DEFINE s == attempt.session
           base == attempt.baseline
           comparable == models # {} /\ (base # NoSnapshotYet => ~Lost(base, models))
           shown == [m \in models |-> counter[s][m]]
           amounts == IF base = NoSnapshotYet THEN shown ELSE Validated(shown, base.models)
           now == [models |-> amounts, reported |-> comparable]
           tokens == IF base = NoSnapshotYet THEN Unreported
                     ELSE IF now.reported /\ base.reported THEN Added(now.models, base.models)
                     ELSE IF attempt.fresh THEN Cardinality({attempt.steps} \ {0})
                     ELSE Unreported
           scope == IF base = NoSnapshotYet THEN "unavailable"
                    ELSE IF now.reported /\ base.reported THEN "delta"
                    ELSE IF attempt.fresh THEN "result" ELSE "unavailable"
<1>1. /\ Working /\ backend = "claude" /\ models \subseteq DOMAIN counter[s]
      /\ models = {} \/ DOMAIN counter[s] \ DOMAIN base.models \subseteq models
      /\ attempt' = [attempt EXCEPT !.cumulative = now, !.told = attempt.steps,
                                    !.tokens = tokens, !.scope = scope]
      /\ UNCHANGED <<backend, counter, known, saved, spent, charged, tail>>
  BY DEF Result, Claims
<1>2. AccountsType /\ AttemptSound
  BY <1>1 DEF AccountsInv
<1>3. /\ attempt \in AttemptType /\ s \in Sessions /\ attempt.steps \in Nat
      /\ base \in Snapshots /\ attempt.fresh \in BOOLEAN
      /\ Ahead(counter[s], base) \in Nat
  BY <1>1, <1>2, AttemptTypes
<1>4. counter[s] \in Counter /\ charged[s] \in Nat /\ spent[s] \in Nat /\ tail[s] \in Nat
  BY <1>2, <1>3, AccountTypes
<1>5. /\ DOMAIN amounts = models /\ amounts \in [models -> Nat \cup {Unreported}]
      /\ \A m \in models : amounts[m] \in {counter[s][m], Unreported}
  <2>1. CASE base = NoSnapshotYet
    <3>1. \A m \in models : counter[s][m] \in Nat
      BY <1>1, <1>4, CounterShape
    <3> QED
      BY <2>1, <3>1
  <2>2. CASE base # NoSnapshotYet
    <3>1. amounts = Validated(shown, base.models)
      BY <2>2
    <3> HIDE DEF amounts
    <3> QED
      BY <1>1, <1>4, <3>1, ValidatedShape
  <2> QED
    BY <2>1, <2>2
<1> HIDE DEF amounts, comparable
<1>6. comparable \in BOOLEAN
  BY Zenon DEF comparable
<1>7. now \in Snapshots /\ now # NoSnapshotYet /\ now.models = amounts /\ now.reported = comparable
  <2>1. now.models = amounts /\ now.reported = comparable
    OBVIOUS
  <2> QED
    BY <1>5, <1>6, <2>1, CountsShape
<1>8. comparable => models # {} /\ models = DOMAIN counter[s]
  <2>1. base = NoSnapshotYet => DOMAIN base.models = {}
    BY DEF NoSnapshotYet
  <2>2. comparable => models # {} /\ (base = NoSnapshotYet \/ DOMAIN base.models \subseteq models)
    BY DEF comparable, Lost
  <2> QED
    BY <1>1, <2>1, <2>2
<1> HIDE DEF now
<1>9. Ahead(counter[s], now) = 0
  <2>1. ASSUME now.reported, NEW m \in DOMAIN counter[s]
        PROVE  Of(now.models, m) \in {counter[s][m], Unreported}
    BY <1>5, <1>7, <1>8, <2>1 DEF Of
  <2> QED
    BY <1>4, <1>7, <2>1, AheadOfOwn
<1>10. /\ tokens \in Nat \cup {Unreported}
       /\ tokens # Unreported => Chargeable(s, tokens)
  <2>1. Chargeable(s, Ahead(counter[s], base)) /\ Chargeable(s, attempt.steps)
    BY <1>2 DEF AttemptSound
  <2>2. CASE base # NoSnapshotYet /\ now.reported /\ base.reported
    <3>1. tokens = Added(amounts, base.models)
      BY <1>7, <2>2
    <3>2. /\ Added(amounts, base.models) \in Nat \cup {Unreported}
          /\ Added(amounts, base.models) # Unreported =>
               Added(amounts, base.models) <= Ahead(counter[s], base)
      BY <1>1, <1>3, <1>4, <1>5, <2>2, AddedIsAhead
    <3> HIDE DEF tokens
    <3> QED
      BY <1>3, <1>4, <2>1, <3>1, <3>2 DEF Chargeable
  <2>3. CASE base # NoSnapshotYet /\ ~(now.reported /\ base.reported) /\ attempt.fresh
    <3>1. tokens = Cardinality({attempt.steps} \ {0})
      BY <2>3
    <3>2. Cardinality({attempt.steps} \ {0}) \in Nat
          /\ Cardinality({attempt.steps} \ {0}) <= attempt.steps
      <4>1. {attempt.steps} \ {0} \in SUBSET Nat /\ {attempt.steps} \ {0} \subseteq 1..attempt.steps
        BY <1>3
      <4> QED
        BY <1>3, <4>1, SeenCounted
    <3> HIDE DEF tokens
    <3> QED
      BY <1>3, <1>4, <2>1, <3>1, <3>2 DEF Chargeable
  <2>4. CASE base = NoSnapshotYet \/ (~(now.reported /\ base.reported) /\ ~attempt.fresh)
    BY <2>4
  <2> QED
    BY <1>3, <2>2, <2>3, <2>4
<1>11. scope \in Scope
  BY DEF Scope
<1> HIDE DEF tokens, scope
<1>12. /\ attempt' \in AttemptType
       /\ attempt'.session = s /\ attempt'.steps = attempt.steps /\ attempt'.seen = attempt.seen
       /\ attempt'.fresh = attempt.fresh /\ attempt'.baseline = base
       /\ attempt'.tokens = tokens /\ attempt'.cumulative = now /\ attempt'.told = attempt.steps
  BY <1>1, <1>3, <1>7, <1>10, <1>11 DEF AttemptType
<1>13. Chargeable(s, Ahead(counter[s], base))
  BY <1>2 DEF AttemptSound
<1>14. NothingKnown(s) => ~now.reported
  BY <1>7, <1>8 DEF NothingKnown
<1> QED
  BY <1>1, <1>3, <1>7, <1>9, <1>10, <1>12, <1>13, <1>14, TotalSound

(* An update of Codex: the first one, without a baseline, becomes it.        *)
LEMMA UpdatedSound ==
  ASSUME AccountsInv, CodexReported, Updated
  PROVE  AccountsInv'
<1> DEFINE s == attempt.session
           base == attempt.baseline
           totals == counter[s]
           amounts == IF base = NoSnapshotYet THEN totals ELSE Validated(totals, base.models)
           now == [models |-> amounts, reported |-> TRUE]
           scope == IF attempt.scope = "partial" THEN attempt.scope ELSE "delta"
<1>1. /\ Working /\ backend = "codex"
      /\ attempt' = IF base = NoSnapshotYet
            THEN [attempt EXCEPT !.baseline = now, !.cumulative = now, !.scope = "partial"]
            ELSE [attempt EXCEPT !.cumulative = now, !.tokens = Added(now.models, base.models),
                                 !.scope = scope]
      /\ UNCHANGED <<backend, counter, known, saved, spent, charged, tail>>
  BY DEF Updated
<1>2. AccountsType /\ AttemptSound
  BY <1>1 DEF AccountsInv
<1>3. /\ attempt \in AttemptType /\ s \in Sessions /\ attempt.steps \in Nat /\ base \in Snapshots
      /\ attempt.tokens \in Nat \cup {Unreported} /\ attempt.told \in Nat
      /\ Ahead(totals, base) \in Nat /\ Ahead(totals, attempt.cumulative) \in Nat
  BY <1>1, <1>2, AttemptTypes
<1>4. totals \in Counter /\ charged[s] \in Nat /\ spent[s] \in Nat /\ tail[s] \in Nat
  BY <1>2, <1>3, AccountTypes
<1>5. /\ DOMAIN amounts = DOMAIN totals /\ amounts \in [DOMAIN totals -> Nat \cup {Unreported}]
      /\ \A m \in DOMAIN totals : amounts[m] \in {totals[m], Unreported}
  <2>1. DOMAIN totals \subseteq Models /\ (\A m \in DOMAIN totals : totals[m] \in Nat)
        /\ totals = [m \in DOMAIN totals |-> totals[m]]
    BY <1>4, CounterShape DEF Counter
  <2> HIDE DEF totals
  <2>2. CASE base = NoSnapshotYet
    BY <2>1, <2>2
  <2>3. CASE base # NoSnapshotYet
    BY <2>1, <2>3 DEF Validated
  <2> QED
    BY <2>2, <2>3
<1> HIDE DEF amounts
<1>6. now \in Snapshots /\ now # NoSnapshotYet /\ now.models = amounts /\ now.reported
  <2>1. DOMAIN totals \in SUBSET Models
    BY <1>4, CounterShape
  <2> QED
    BY <1>5, <2>1, CountsShape
<1> HIDE DEF now
<1>7. Ahead(totals, now) = 0
  <2>1. \A m \in DOMAIN totals : Of(now.models, m) \in {totals[m], Unreported}
    BY <1>5, <1>6 DEF Of
  <2> QED
    BY <1>4, <1>6, <2>1, AheadOfOwn
<1>8. Chargeable(s, Ahead(totals, base)) /\ attempt.told <= attempt.steps
      /\ Chargeable(s, attempt.steps)
      /\ (attempt.tokens # Unreported =>
            Chargeable(s, attempt.tokens + Ahead(totals, attempt.cumulative)))
  BY <1>1, <1>2 DEF AttemptSound
<1>9. CASE base = NoSnapshotYet
  <2>1. /\ attempt' \in AttemptType
        /\ attempt'.session = s /\ attempt'.steps = attempt.steps /\ attempt'.seen = attempt.seen
        /\ attempt'.fresh = attempt.fresh /\ attempt'.baseline = now
        /\ attempt'.tokens = attempt.tokens /\ attempt'.cumulative = now
        /\ attempt'.told = attempt.told
    BY <1>1, <1>3, <1>6, <1>9 DEF AttemptType, Scope
  <2>2. /\ Chargeable(s, 0)
        /\ attempt.tokens # Unreported => Chargeable(s, attempt.tokens)
    BY <1>3, <1>4, <1>8 DEF Chargeable
  <2> QED
    BY <1>1, <1>6, <1>7, <1>8, <2>1, <2>2, TotalSound
<1>10. CASE base # NoSnapshotYet
  <2>1. Added(amounts, base.models) \in Nat \cup {Unreported}
        /\ (Added(amounts, base.models) # Unreported => Chargeable(s, Added(amounts, base.models)))
    <3>1. base.reported
      BY <1>1, <1>10 DEF CodexReported, Plain
    <3>2. /\ Added(amounts, base.models) \in Nat \cup {Unreported}
          /\ Added(amounts, base.models) # Unreported =>
               Added(amounts, base.models) <= Ahead(totals, base)
      BY <1>3, <1>4, <1>5, <3>1, AddedIsAhead
    <3> QED
      BY <1>3, <1>4, <1>8, <3>2 DEF Chargeable
  <2>2. scope \in Scope
    BY <1>3 DEF Scope
  <2> HIDE DEF scope
  <2>3. /\ attempt' \in AttemptType
        /\ attempt'.session = s /\ attempt'.steps = attempt.steps /\ attempt'.seen = attempt.seen
        /\ attempt'.fresh = attempt.fresh /\ attempt'.baseline = base
        /\ attempt'.tokens = Added(amounts, base.models) /\ attempt'.cumulative = now
        /\ attempt'.told = attempt.told
    BY <1>1, <1>3, <1>6, <1>10, <2>1, <2>2 DEF AttemptType
  <2> QED
    BY <1>1, <1>6, <1>7, <1>8, <2>1, <2>3, TotalSound
<1> QED
  BY <1>9, <1>10

(* Of Codex, a snapshot is a total, or a thread's zero, or none.             *)
LEMMA CodexReportedKept ==
  ASSUME AccountsType, CodexReported, [UsageNext]_accounts
  PROVE  CodexReported'
<1> SUFFICES ASSUME backend' = "codex"
             PROVE  /\ \A s \in Sessions : Plain(known'[s]) /\ Plain(saved'[s])
                    /\ Working' => Plain(attempt'.baseline) /\ Plain(attempt'.cumulative)
  BY DEF CodexReported, Plain
<1>1. backend = "codex"
  BY DEF UsageNext, accounts, StartNew, StartAgain, ThreadStarts, Renamed, CounterRestarts, Work,
         Result, Claims, Updated, Step, RecordKept, RecordUnsaved, RecordUnstaged, RecorderKilled
<1>2. /\ \A s \in Sessions : Plain(known[s]) /\ Plain(saved[s])
      /\ Working => Plain(attempt.baseline) /\ Plain(attempt.cumulative)
  BY <1>1 DEF CodexReported
<1>3. Plain(Zero) /\ Plain(NoSnapshotYet)
  BY DEF Plain, Zero
<1>4. known \in [Sessions -> Snapshots] /\ saved \in [Sessions -> Snapshots]
      /\ (Working => attempt \in AttemptType)
  BY DEF AccountsType, Working
<1>5. ASSUME NEW s \in Sessions, StartNew(s) \/ Renamed(s)
      PROVE  FALSE
  BY <1>1, <1>5 DEF StartNew, Renamed
<1>6. ASSUME NEW s \in Sessions, StartAgain(s)
      PROVE  /\ \A x \in Sessions : Plain(known'[x]) /\ Plain(saved'[x])
             /\ Plain(attempt'.baseline) /\ Plain(attempt'.cumulative)
  <2>1. /\ attempt'.baseline = known[s] /\ attempt'.cumulative = NoSnapshotYet
        /\ known' = known /\ saved' = saved
    BY <1>6 DEF StartAgain, Begin
  <2> QED
    BY <1>2, <1>3, <2>1
<1>7. ASSUME NEW s \in Sessions, ThreadStarts(s)
      PROVE  ~Working' /\ \A x \in Sessions : Plain(known'[x]) /\ Plain(saved'[x])
  <2>1. /\ ~Working /\ attempt' = attempt /\ saved' = saved
        /\ known' = [known EXCEPT ![s] = Zero]
    BY <1>7 DEF ThreadStarts
  <2> QED
    BY <1>2, <1>3, <1>4, <2>1 DEF Working
<1>8. ASSUME NEW s \in Sessions, CounterRestarts(s)
      PROVE  UNCHANGED <<known, saved, attempt>>
  BY <1>8 DEF CounterRestarts
<1>9. ASSUME NEW m \in Models, Work(m)
      PROVE  /\ Working /\ UNCHANGED <<known, saved>>
             /\ attempt'.baseline = attempt.baseline /\ attempt'.cumulative = attempt.cumulative
  <2>1. Working /\ UNCHANGED <<known, saved>> /\ attempt' = [attempt EXCEPT !.steps = attempt.steps + 1]
    BY <1>9 DEF Work
  <2> QED
    BY <1>4, <2>1 DEF AttemptType
<1>10. ASSUME NEW models \in SUBSET Models, Result(models)
       PROVE  FALSE
  BY <1>1, <1>10 DEF Result, Claims
<1>11. ASSUME NEW n \in 1..MaxSpent, Step(n)
       PROVE  FALSE
  BY <1>1, <1>11 DEF Step
<1>12. ASSUME Updated
       PROVE  /\ \A x \in Sessions : Plain(known'[x]) /\ Plain(saved'[x])
              /\ Plain(attempt'.baseline) /\ Plain(attempt'.cumulative)
  <2> DEFINE base == attempt.baseline
             amounts == IF base = NoSnapshotYet THEN counter[attempt.session]
                        ELSE Validated(counter[attempt.session], base.models)
             now == [models |-> amounts, reported |-> TRUE]
             scope == IF attempt.scope = "partial" THEN attempt.scope ELSE "delta"
  <2>1. /\ Working /\ UNCHANGED <<known, saved>>
        /\ attempt' = IF base = NoSnapshotYet
              THEN [attempt EXCEPT !.baseline = now, !.cumulative = now, !.scope = "partial"]
              ELSE [attempt EXCEPT !.cumulative = now, !.tokens = Added(now.models, base.models),
                                   !.scope = scope]
    BY <1>12 DEF Updated
  <2>2. now.reported
    OBVIOUS
  <2> HIDE DEF now, scope
  <2>3. attempt'.cumulative = now /\ attempt'.baseline \in {now, base}
    BY <1>4, <2>1 DEF AttemptType
  <2> QED
    BY <1>2, <2>1, <2>2, <2>3 DEF Plain
<1>13. ASSUME RecordKept \/ RecordUnsaved
       PROVE  ~Working' /\ \A x \in Sessions : Plain(known'[x]) /\ Plain(saved'[x])
  <2>1. /\ Working /\ attempt' = NoAttempt /\ saved' \in {saved, Noted(saved)}
        /\ known' = Noted(known)
    BY <1>13 DEF RecordKept, RecordUnsaved
  <2>2. \A x \in Sessions : /\ Noted(known)[x] \in {known[x], attempt.cumulative}
                            /\ Noted(saved)[x] \in {saved[x], attempt.cumulative}
    BY <1>4 DEF Noted
  <2>3. \A x \in Sessions : /\ known'[x] \in {known[x], attempt.cumulative}
                            /\ saved'[x] \in {saved[x], attempt.cumulative}
    BY <2>1, <2>2
  <2> QED
    BY <1>2, <2>1, <2>3 DEF Working
<1>14. ASSUME RecordUnstaged \/ RecorderKilled
       PROVE  ~Working' /\ known' \in {known, saved} /\ saved' = saved
  BY <1>14 DEF RecordUnstaged, RecorderKilled, Working
<1>15. CASE UNCHANGED accounts
  BY <1>2, <1>15 DEF accounts, Working
<1> QED
  BY <1>2, <1>5, <1>6, <1>7, <1>8, <1>9, <1>10, <1>11, <1>12, <1>13, <1>14, <1>15
  DEF UsageNext, Working

(* The messages that are seen come before the last total or after it.        *)
LEMMA SeenSplit ==
  ASSUME NEW seen, IsFiniteSet(seen), NEW told \in Nat, NEW steps \in Nat, seen \subseteq 1..steps
  PROVE  LET rest == {n \in seen : n > told}
         IN Cardinality(rest) \in Nat /\ Cardinality(seen) <= told + Cardinality(rest)
<1> DEFINE rest == {n \in seen : n > told}
           before == {n \in seen : ~(n > told)}
<1>1. IsFiniteSet(rest) /\ IsFiniteSet(before)
  <2>1. rest \in SUBSET seen /\ before \in SUBSET seen
    OBVIOUS
  <2> HIDE DEF rest, before
  <2> QED
    BY <2>1, FS_Subset
<1>2. before \subseteq 1..told
  <2>1. \A n \in before : n \in 1..steps /\ ~(n > told)
    OBVIOUS
  <2> HIDE DEF before
  <2>2. \A n \in before : n \in Nat /\ 1 <= n /\ n <= told
    BY <2>1
  <2> QED
    BY <2>2
<1>3. IsFiniteSet(1..told) /\ Cardinality(1..told) = told
  BY FS_Interval
<1>4. Cardinality(before) <= told
  BY <1>2, <1>3, FS_Subset
<1>5. seen = before \cup rest /\ before \cap rest = {}
  OBVIOUS
<1>6. Cardinality(rest) \in Nat /\ Cardinality(before) \in Nat
  BY <1>1, FS_CardinalityType
<1> HIDE DEF rest, before
<1>7. Cardinality(seen) = Cardinality(before) + Cardinality(rest) - Cardinality(before \cap rest)
  BY <1>1, <1>5, FS_Union
<1>8. Cardinality(before \cap rest) = 0
  BY <1>5, FS_EmptySet
<1>9. Cardinality(rest) \in Nat /\ Cardinality(seen) <= told + Cardinality(rest)
  BY <1>4, <1>6, <1>7, <1>8
<1> QED
  BY <1>9 DEF rest

(* What a record is charged was still chargeable, and so is what its totals  *)
(* leave to the attempts that come after it.                                 *)
LEMMA LineSound ==
  ASSUME AccountsInv, Working
  PROVE  LET s == attempt.session
             rest == {n \in attempt.seen : n > attempt.told}
             left == Ahead(counter[s], attempt.cumulative)
         IN /\ Line \in Nat /\ Cardinality(rest) \in Nat
            /\ charged[s] + Line + left
                 <= spent[s] + tail[s] + (IF ByMessages /\ attempt.cumulative.reported
                                          THEN Cardinality(rest) ELSE 0)
<1> DEFINE s == attempt.session
           rest == {n \in attempt.seen : n > attempt.told}
           left == Ahead(counter[s], attempt.cumulative)
           extra == IF ByMessages /\ attempt.cumulative.reported THEN Cardinality(rest) ELSE 0
<1>1. AccountsType /\ AttemptSound
  BY DEF AccountsInv
<1>2. /\ attempt \in AttemptType /\ s \in Sessions /\ attempt.steps \in Nat /\ attempt.told \in Nat
      /\ attempt.tokens \in Nat \cup {Unreported} /\ left \in Nat
  BY <1>1, AttemptTypes
<1>3. charged[s] \in Nat /\ spent[s] \in Nat /\ tail[s] \in Nat
  BY <1>1, <1>2, AccountTypes
<1>4. /\ IsFiniteSet(attempt.seen) /\ Cardinality(attempt.seen) \in Nat
      /\ Cardinality(attempt.seen) <= attempt.steps /\ attempt.seen \subseteq 1..attempt.steps
  <2>1. attempt.seen \in SUBSET Nat /\ attempt.seen \subseteq 1..attempt.steps
    BY <1>1, <1>2 DEF AttemptSound, AttemptType
  <2> QED
    BY <1>2, <2>1, SeenCounted
<1>5. Cardinality(rest) \in Nat /\ Cardinality(attempt.seen) <= attempt.told + Cardinality(rest)
  BY <1>2, <1>4, SeenSplit
<1>6. /\ charged[s] + attempt.steps <= spent[s] + tail[s]
      /\ charged[s] + (attempt.told + left) <= spent[s] + tail[s]
  BY <1>1 DEF AttemptSound, Chargeable
<1>7. Unreported \notin Nat
  BY UsageAssumption
<1>8. ~attempt.cumulative.reported => left = 0
  BY DEF Ahead
<1> HIDE DEF left, rest
<1>9. CASE ByMessages
  <2>1. Line = Cardinality(attempt.seen)
    BY <1>4, <1>7, <1>9 DEF Line, Tally
  <2> QED
    BY <1>2, <1>3, <1>4, <1>5, <1>6, <1>8, <1>9, <2>1 DEF rest, left
<1>10. CASE ~ByMessages /\ attempt.tokens = Unreported
  <2>1. Line = 0
    BY <1>10 DEF Line, Tally
  <2> QED
    BY <1>2, <1>3, <1>5, <1>6, <1>10, <2>1 DEF rest, left
<1>11. CASE ~ByMessages /\ attempt.tokens # Unreported
  <2>1. Line = attempt.tokens /\ attempt.tokens \in Nat
    BY <1>2, <1>11 DEF Line, Tally
  <2>2. charged[s] + (attempt.tokens + left) <= spent[s] + tail[s]
    <3>1. CASE backend = "opencode"
      <4>1. left = 0 /\ attempt.tokens <= Cardinality(attempt.seen)
        BY <1>1, <1>8, <1>11, <3>1 DEF AttemptSound
      <4> QED
        BY <1>3, <1>4, <1>2, <1>6, <2>1, <4>1
    <3>2. CASE backend # "opencode"
      BY <1>1, <1>11, <3>2 DEF AttemptSound, Chargeable, left
    <3> QED
      BY <3>1, <3>2
  <2> QED
    BY <1>2, <1>3, <1>5, <1>11, <2>1, <2>2 DEF rest, left
<1> QED
  BY <1>9, <1>10, <1>11

(* A record is noted, and charged to its session unless its line is lost.    *)
LEMMA RecordKeptSound ==
  ASSUME AccountsInv, RecordKept
  PROVE  AccountsInv'
<1> DEFINE s == attempt.session
           rest == {n \in attempt.seen : n > attempt.told}
           left == Ahead(counter[s], attempt.cumulative)
           counted == ~cut /\ ByMessages /\ attempt.cumulative.reported
<1>1. /\ Working /\ attempt' = NoAttempt
      /\ known' = Noted(known) /\ saved' = IF cut THEN saved ELSE Noted(saved)
      /\ charged' = IF cut THEN charged ELSE [charged EXCEPT ![s] = charged[s] + Line]
      /\ tail' = IF counted THEN [tail EXCEPT ![s] = tail[s] + Cardinality(rest)] ELSE tail
      /\ UNCHANGED <<backend, counter, spent>>
  BY DEF RecordKept
<1>2. AccountsType /\ LogsSound /\ UnusedUnknown /\ AttemptSound
  BY <1>1 DEF AccountsInv
<1>3. /\ s \in Sessions /\ attempt.cumulative \in Snapshots /\ left \in Nat
      /\ attempt.told \in Nat
  BY <1>1, <1>2, AttemptTypes
<1>4. /\ counter[s] \in Counter /\ charged[s] \in Nat /\ spent[s] \in Nat /\ tail[s] \in Nat
      /\ saved[s] \in Snapshots /\ Ahead(counter[s], saved[s]) \in Nat
  BY <1>2, <1>3, AccountTypes
<1>5. /\ Line \in Nat /\ Cardinality(rest) \in Nat
      /\ charged[s] + Line + left
           <= spent[s] + tail[s] + (IF ByMessages /\ attempt.cumulative.reported
                                    THEN Cardinality(rest) ELSE 0)
  BY <1>1, LineSound
<1>6. charged[s] + (attempt.told + left) <= spent[s] + tail[s]
  BY <1>2 DEF AttemptSound, Chargeable
<1> HIDE DEF left, rest
<1>7. /\ Noted(known) \in [Sessions -> Snapshots] /\ Noted(saved) \in [Sessions -> Snapshots]
      /\ \A x \in Sessions :
           /\ Noted(known)[x] = IF x = s THEN attempt.cumulative ELSE known[x]
           /\ Noted(saved)[x] = IF x = s THEN attempt.cumulative ELSE saved[x]
  BY <1>2, <1>3 DEF Noted, AccountsType
<1>8. /\ charged' \in [Sessions -> Nat] /\ tail' \in [Sessions -> Nat]
      /\ \A x \in Sessions : x # s => charged'[x] = charged[x] /\ tail'[x] = tail[x]
      /\ charged'[s] = IF cut THEN charged[s] ELSE charged[s] + Line
      /\ tail'[s] = IF counted THEN tail[s] + Cardinality(rest) ELSE tail[s]
  <2>1. charged[s] + Line \in Nat /\ tail[s] + Cardinality(rest) \in Nat
    BY <1>4, <1>5
  <2> HIDE DEF counted
  <2> QED
    BY <1>1, <1>2, <1>3, <2>1 DEF AccountsType
<1>9. AccountsType'
  BY <1>1, <1>2, <1>7, <1>8 DEF AccountsType
<1>10. LogsSound'
  <2>1. ASSUME NEW x \in Sessions
        PROVE  (Chargeable(x, Ahead(counter[x], known[x])) /\ Chargeable(x, Ahead(counter[x], saved[x])))'
    <3>1. CASE x # s
      <4>1. known'[x] = known[x] /\ saved'[x] = saved[x]
        BY <1>1, <1>7, <3>1
      <4> QED
        BY <1>1, <1>2, <1>8, <3>1, <4>1 DEF LogsSound, Chargeable
    <3>2. CASE x = s /\ cut
      <4>1. known'[s] = attempt.cumulative /\ saved'[s] = saved[s]
        BY <1>1, <1>3, <1>7, <3>2
      <4>2. charged[s] + left <= spent[s] + tail[s]
        BY <1>3, <1>4, <1>6
      <4>3. Chargeable(s, Ahead(counter[s], saved[s]))
        BY <1>2, <1>3 DEF LogsSound
      <4> QED
        BY <1>1, <1>8, <3>2, <4>1, <4>2, <4>3 DEF Chargeable, left
    <3>3. CASE x = s /\ ~cut
      <4>1. known'[s] = attempt.cumulative /\ saved'[s] = attempt.cumulative
        BY <1>1, <1>3, <1>7, <3>3
      <4>2. charged'[s] + left <= spent[s] + tail'[s]
        BY <1>3, <1>4, <1>5, <1>8, <3>3
      <4> QED
        BY <1>1, <3>3, <4>1, <4>2 DEF Chargeable, left
    <3> QED
      BY <3>1, <3>2, <3>3
  <2> QED
    BY <2>1 DEF LogsSound
<1>11. UnusedUnknown'
  <2>1. backend = "claude" /\ NothingKnown(s) => ~attempt.cumulative.reported
    BY <1>2 DEF AttemptSound
  <2> QED
    BY <1>1, <1>2, <1>7, <2>1 DEF UnusedUnknown, NothingKnown
<1> QED
  BY <1>1, <1>9, <1>10, <1>11 DEF AccountsInv, Working

(* A record that is lost, or a process, charges nothing.                     *)
LEMMA RecordLostSound ==
  ASSUME AccountsInv, RecordUnsaved \/ RecordUnstaged \/ RecorderKilled
  PROVE  AccountsInv'
<1>1. AccountsType /\ LogsSound /\ UnusedUnknown /\ (Working => AttemptSound)
  BY DEF AccountsInv
<1>2. /\ attempt' = NoAttempt
      /\ known' \in {known, saved} \/ (Working /\ known' = Noted(known))
      /\ UNCHANGED <<backend, counter, saved, spent, charged, tail>>
  BY DEF RecordUnsaved, RecordUnstaged, RecorderKilled
<1>3. CASE known' \in {known, saved}
  BY <1>1, <1>2, <1>3
  DEF AccountsInv, AccountsType, LogsSound, UnusedUnknown, Working, Chargeable, NothingKnown
<1>4. CASE Working /\ known' = Noted(known)
  <2> DEFINE s == attempt.session
             left == Ahead(counter[s], attempt.cumulative)
  <2>1. /\ s \in Sessions /\ attempt.cumulative \in Snapshots /\ left \in Nat
        /\ attempt.told \in Nat
    BY <1>1, <1>4, AttemptTypes
  <2>2. charged[s] \in Nat /\ spent[s] \in Nat /\ tail[s] \in Nat
    BY <1>1, <2>1, AccountTypes
  <2>3. /\ known' \in [Sessions -> Snapshots]
        /\ \A x \in Sessions : known'[x] = IF x = s THEN attempt.cumulative ELSE known[x]
    BY <1>1, <1>4, <2>1 DEF Noted, AccountsType
  <2>4. /\ Chargeable(s, attempt.told + left)
        /\ backend = "claude" /\ NothingKnown(s) => ~attempt.cumulative.reported
    BY <1>1, <1>4 DEF AttemptSound
  <2>5. Chargeable(s, left)
    BY <2>1, <2>2, <2>4 DEF Chargeable
  <2>6. AccountsType'
    BY <1>1, <1>2, <2>3 DEF AccountsType
  <2>7. LogsSound'
    BY <1>1, <1>2, <2>3, <2>5 DEF LogsSound, Chargeable
  <2>8. UnusedUnknown'
    BY <1>1, <1>2, <2>3, <2>4 DEF UnusedUnknown, NothingKnown
  <2> QED
    BY <1>2, <2>6, <2>7, <2>8 DEF AccountsInv, Working
<1> QED
  BY <1>2, <1>3, <1>4

(* Every step keeps the invariant.                                           *)
LEMMA AccountsNext ==
  ASSUME AccountsInv, CodexReported, [UsageNext]_accounts
  PROVE  AccountsInv'
<1>1. CASE \E s \in Sessions : StartNew(s) \/ StartAgain(s) \/ ThreadStarts(s)
  BY <1>1, StartsSound
<1>2. CASE \E s \in Sessions : Renamed(s)
  BY <1>2, RenamedSound
<1>3. CASE \E s \in Sessions : CounterRestarts(s)
  BY <1>3, RestartSound
<1>4. CASE \E m \in Models : Work(m)
  BY <1>4, WorkSound
<1>5. CASE \E models \in SUBSET Models : Result(models)
  BY <1>5, ResultSound
<1>6. CASE Updated
  BY <1>6, UpdatedSound
<1>7. CASE \E n \in 1..MaxSpent : Step(n)
  BY <1>7, StepSound
<1>8. CASE RecordKept
  BY <1>8, RecordKeptSound
<1>9. CASE RecordUnsaved \/ RecordUnstaged \/ RecorderKilled
  BY <1>9, RecordLostSound
<1>10. CASE UNCHANGED accounts
  BY <1>10
  DEF accounts, AccountsInv, AccountsType, LogsSound, UnusedUnknown, AttemptSound, Working,
      Chargeable, NothingKnown
<1> QED
  BY <1>1, <1>2, <1>3, <1>4, <1>5, <1>6, <1>7, <1>8, <1>9, <1>10 DEF UsageNext

(* No token is charged twice: what the lines of usage.jsonl add up to for a  *)
(* session is never more than it spent, but for the exempt messages.         *)
THEOREM ChargedOnceHolds == UsageSpec => []ChargedOnce
<1>1. UsageInit => AccountsInv /\ CodexReported
  <2>1. UsageInit => CodexReported
    BY DEF UsageInit, CodexReported, Plain, Working
  <2> QED
    BY <2>1, AccountsInitially
<1>2. AccountsInv /\ CodexReported /\ [UsageNext]_accounts => (AccountsInv /\ CodexReported)'
  BY AccountsNext, CodexReportedKept DEF AccountsInv
<1>3. AccountsInv => ChargedOnce
  <2> SUFFICES ASSUME AccountsInv, NEW s \in Sessions
               PROVE  charged[s] <= spent[s] + tail[s]
    BY DEF ChargedOnce
  <2> QED
    BY AccountTypes DEF AccountsInv, LogsSound, Chargeable
<1> QED
  BY <1>1, <1>2, <1>3, PTL DEF UsageSpec
-----------------------------------------------------------------------------
(* The types of the accounts                                                *)

Spent == SumFunction(spent)

(* A sum over the sessions is the last of sums over sets of them.            *)
LEMMA Summed ==
  ASSUME NEW f \in [Sessions -> Nat]
  PROVE  \E g : /\ SumFunction(f) = g[Sessions]
                /\ g[{}] = 0
                /\ \A M \in SUBSET Sessions : g[M] \in Nat
                /\ \A M \in SUBSET Sessions :
                     M # {} => g[M] = f[OneOf(M)] + g[M \ {OneOf(M)}]
<1>1. ASSUME NEW q, q[{}] = 0,
             \A M \in SUBSET Sessions : M # {} /\ q[M \ {OneOf(M)}] \in Nat => q[M] \in Nat,
             NEW M \in SUBSET Sessions
      PROVE  q[M] \in Nat
  <2> DEFINE T == {N \in SUBSET M : q[N] \in Nat}
  <2>1. {} \in T
    BY <1>1
  <2>2. ASSUME NEW N \in SUBSET M, N # {}, N \ {OneOf(N)} \in T PROVE N \in T
    <3>1. N \in SUBSET Sessions /\ q[N \ {OneOf(N)}] \in Nat
      BY <2>2
    <3>2. q[N] \in Nat
      BY <1>1, <2>2, <3>1
    <3> QED
      BY <3>2
  <2>3. IsFiniteSet(M)
    BY FS_Subset, SessionsAssumption
  <2>4. M \in T
    <3> HIDE DEF T
    <3> QED
      BY <2>1, <2>2, <2>3, ByMembers
  <2> QED
    BY <2>4
<1>2. \A M \in SUBSET Sessions :
        M # {} => f[OneOf(M)] \in Nat /\ M \ {OneOf(M)} \in SUBSET Sessions
  <2> SUFFICES ASSUME NEW M \in SUBSET Sessions, M # {}
               PROVE  f[OneOf(M)] \in Nat /\ M \ {OneOf(M)} \in SUBSET Sessions
    OBVIOUS
  <2>1. OneOf(M) \in Sessions /\ M \ {OneOf(M)} \in SUBSET Sessions
    BY OneLess, SessionsAssumption
  <2> QED
    BY <2>1
<1>3. PICK p : Sums(p, f, SUBSET Sessions)
  BY SumsExist, SessionsAssumption
<1>4. \A M \in SUBSET Sessions : p[M] = IF M = {} THEN 0 ELSE Plus(p[M \ {OneOf(M)}], f[OneOf(M)])
  <2>1. p = [M \in SUBSET Sessions |->
               IF M = {} THEN 0 ELSE Plus(p[M \ {OneOf(M)}], f[OneOf(M)])]
    BY <1>3 DEF Sums
  <2> QED
    BY <2>1
<1>5. ASSUME NEW M \in SUBSET Sessions, M # {}, p[M \ {OneOf(M)}] \in Nat
      PROVE  p[M] \in Nat /\ p[M] = f[OneOf(M)] + p[M \ {OneOf(M)}]
  BY <1>2, <1>4, <1>5, UsageAssumption DEF Plus
<1>6. \A M \in SUBSET Sessions : p[M] \in Nat
  BY <1>1, <1>4, <1>5
<1>7. \A M \in SUBSET Sessions : M # {} => p[M] = f[OneOf(M)] + p[M \ {OneOf(M)}]
  BY <1>2, <1>5, <1>6
<1> DEFINE Adds(h) == h = [M \in SUBSET Sessions |->
                             IF M = {} THEN 0 ELSE f[OneOf(M)] + h[M \ {OneOf(M)}]]
           g == CHOOSE h : Adds(h)
<1>8. Adds([M \in SUBSET Sessions |-> p[M]])
  <2> DEFINE h == [M \in SUBSET Sessions |-> p[M]]
             next_(M) == IF M = {} THEN 0 ELSE f[OneOf(M)] + h[M \ {OneOf(M)}]
  <2>1. ASSUME NEW M \in SUBSET Sessions PROVE h[M] = next_(M)
    <3>1. M # {} => h[M \ {OneOf(M)}] = p[M \ {OneOf(M)}]
      BY <1>2
    <3> QED
      BY <1>4, <1>7, <3>1
  <2> HIDE DEF next_
  <2>2. h = [M \in SUBSET Sessions |-> next_(M)]
    BY <2>1
  <2> QED
    BY <2>2 DEF next_
<1>9. Adds(g)
  <2> HIDE DEF Adds
  <2> QED
    BY <1>8
<1>10. SumFunction(f) = g[Sessions]
  BY DEF SumFunction, SumFunctionOnSet, FoldFunctionOnSet, MapThenFoldSet, OneOf
<1> HIDE DEF g
<1>11. \A M \in SUBSET Sessions : g[M] = IF M = {} THEN 0 ELSE f[OneOf(M)] + g[M \ {OneOf(M)}]
  BY <1>9
<1>12. \A M \in SUBSET Sessions : g[M] \in Nat
  <2>1. g[{}] = 0
    BY <1>11
  <2>2. ASSUME NEW M \in SUBSET Sessions, M # {}, g[M \ {OneOf(M)}] \in Nat
        PROVE  g[M] \in Nat
    BY <1>2, <1>11, <2>2
  <2> QED
    BY <1>1, <2>1, <2>2
<1> QED
  BY <1>10, <1>11, <1>12

(* What one session spent is no more than all, and nothing adds to nothing.  *)
LEMMA SumBounds ==
  ASSUME NEW f \in [Sessions -> Nat]
  PROVE  /\ SumFunction(f) \in Nat
         /\ (\A s \in Sessions : f[s] <= SumFunction(f))
         /\ (\A s \in Sessions : f[s] = 0) => SumFunction(f) = 0
<1>1. PICK g : /\ SumFunction(f) = g[Sessions]
               /\ g[{}] = 0
               /\ \A M \in SUBSET Sessions : g[M] \in Nat
               /\ \A M \in SUBSET Sessions : M # {} => g[M] = f[OneOf(M)] + g[M \ {OneOf(M)}]
  BY Summed
<1> DEFINE T == {M \in SUBSET Sessions :
                   /\ \A s \in M : f[s] <= g[M]
                   /\ (\A s \in M : f[s] = 0) => g[M] = 0}
<1>2. {} \in T
  BY <1>1
<1>3. ASSUME NEW M \in SUBSET Sessions, M # {}, M \ {OneOf(M)} \in T PROVE M \in T
  <2> DEFINE m == OneOf(M)
             rest == M \ {m}
  <2>1. m \in M /\ m \in Sessions /\ rest \in SUBSET Sessions
    BY <1>3, OneLess, SessionsAssumption
  <2>2. g[M] = f[m] + g[rest] /\ g[rest] \in Nat /\ f[m] \in Nat
    BY <1>1, <1>3, <2>1
  <2>3. (\A s \in rest : f[s] <= g[rest]) /\ ((\A s \in rest : f[s] = 0) => g[rest] = 0)
    BY <1>3
  <2>4. \A s \in M : f[s] \in Nat /\ (s = m \/ s \in rest)
    BY <2>1
  <2> HIDE DEF m, rest
  <2>5. \A s \in M : f[s] <= g[M]
    BY <2>2, <2>3, <2>4
  <2>6. (\A s \in M : f[s] = 0) => g[M] = 0
    BY <2>1, <2>2, <2>3, <2>4 DEF rest
  <2> QED
    BY <2>5, <2>6
<1>4. Sessions \in T
  <2> HIDE DEF T
  <2> QED
    BY <1>2, <1>3, ByMembers, SessionsAssumption
<1> QED
  BY <1>1, <1>4

(* A token more for a session is a token more in all.                        *)
LEMMA SumByOne ==
  ASSUME NEW f \in [Sessions -> Nat], NEW more \in Sessions
  PROVE  SumFunction([f EXCEPT ![more] = @ + 1]) = SumFunction(f) + 1
<1> DEFINE h == [f EXCEPT ![more] = @ + 1]
<1>1. h \in [Sessions -> Nat] /\ \A s \in Sessions : h[s] = f[s] + (IF s = more THEN 1 ELSE 0)
  OBVIOUS
<1> HIDE DEF h
<1>2. PICK g : /\ SumFunction(f) = g[Sessions]
               /\ g[{}] = 0
               /\ \A M \in SUBSET Sessions : g[M] \in Nat
               /\ \A M \in SUBSET Sessions : M # {} => g[M] = f[OneOf(M)] + g[M \ {OneOf(M)}]
  BY Summed
<1>3. PICK p : /\ SumFunction(h) = p[Sessions]
               /\ p[{}] = 0
               /\ \A M \in SUBSET Sessions : p[M] \in Nat
               /\ \A M \in SUBSET Sessions : M # {} => p[M] = h[OneOf(M)] + p[M \ {OneOf(M)}]
  BY <1>1, Summed
<1> DEFINE T == {M \in SUBSET Sessions : p[M] = g[M] + (IF more \in M THEN 1 ELSE 0)}
<1>4. {} \in T
  BY <1>2, <1>3
<1>5. ASSUME NEW M \in SUBSET Sessions, M # {}, M \ {OneOf(M)} \in T PROVE M \in T
  <2> DEFINE m == OneOf(M)
             rest == M \ {m}
  <2>1. m \in M /\ m \in Sessions /\ rest \in SUBSET Sessions
    BY <1>5, OneLess, SessionsAssumption
  <2>2. g[M] = f[m] + g[rest] /\ g[rest] \in Nat /\ f[m] \in Nat
    BY <1>2, <1>5, <2>1
  <2>3. p[M] = h[m] + p[rest] /\ h[m] = f[m] + (IF m = more THEN 1 ELSE 0)
    BY <1>1, <1>3, <1>5, <2>1
  <2>4. p[rest] = g[rest] + (IF more \in rest THEN 1 ELSE 0)
    BY <1>5
  <2>5. (more \in M <=> more \in rest \/ more = m) /\ m \notin rest
    BY <2>1
  <2> HIDE DEF m, rest
  <2>6. p[M] = g[M] + (IF more \in M THEN 1 ELSE 0)
    BY <2>2, <2>3, <2>4, <2>5
  <2> QED
    BY <2>6
<1>6. Sessions \in T
  <2> HIDE DEF T
  <2> QED
    BY <1>4, <1>5, ByMembers, SessionsAssumption
<1> QED
  BY <1>2, <1>3, <1>6 DEF h

(* What a session's totals have of one model is no more than all of them,    *)
(* nor is what they are ahead of some snapshot.                              *)
LEMMA EntryAtMost ==
  ASSUME NEW totals \in Counter
  PROVE  /\ Ahead(totals, Zero) \in Nat
         /\ \A m \in DOMAIN totals : totals[m] <= Ahead(totals, Zero)
         /\ \A base \in Snapshots : Ahead(totals, base) <= Ahead(totals, Zero)
<1> DEFINE all == [m \in Models |-> Excess(totals, Zero.models, m)]
<1>1. Ahead(totals, Zero) = Total(all) /\ Ahead(totals, Zero) \in Nat
  BY ZeroSnapshot, AheadType DEF Ahead, Zero
<1>2. all \in [Models -> Nat]
  BY ExcessType, ZeroSnapshot
<1>3. \A m \in DOMAIN totals : m \in Models /\ all[m] = totals[m] /\ totals[m] \in Nat
  <2> SUFFICES ASSUME NEW m \in DOMAIN totals
               PROVE  m \in Models /\ all[m] = totals[m] /\ totals[m] \in Nat
    OBVIOUS
  <2>1. m \in Models /\ totals[m] \in Nat
    BY CounterShape
  <2>2. Of(Zero.models, m) = 0
    BY NoTotals DEF Of, Zero
  <2> QED
    BY <2>1, <2>2, UsageAssumption DEF Excess
<1>4. ASSUME NEW m \in Models PROVE all[m] <= Total(all)
  <2>1. PICK g : /\ Total(all) = g[Models]
                 /\ g[{}] = 0
                 /\ \A M \in SUBSET Models :
                      M # {} => g[M] = Plus(g[M \ {OneOf(M)}], all[OneOf(M)])
    BY Totalled
  <2> HIDE DEF all
  <2> DEFINE T == {M \in SUBSET Models : g[M] \in Nat /\ (m \in M => all[m] <= g[M])}
  <2>2. {} \in T
    BY <2>1
  <2>3. ASSUME NEW M \in SUBSET Models, M # {}, M \ {OneOf(M)} \in T PROVE M \in T
    <3> DEFINE n == OneOf(M)
               rest == M \ {n}
    <3>1. n \in M /\ n \in Models
      BY <2>3, OneLess, UsageAssumption
    <3>2. g[M] = Plus(g[rest], all[n]) /\ g[rest] \in Nat /\ all[n] \in Nat
          /\ (m \in rest => all[m] <= g[rest])
      BY <1>2, <2>1, <2>3, <3>1
    <3>3. m \in M => m \in rest \/ m = n
      OBVIOUS
    <3>4. all[m] \in Nat
      BY <1>2
    <3> HIDE DEF n, rest
    <3>5. g[M] = g[rest] + all[n]
      BY <3>2, UsageAssumption DEF Plus
    <3>6. g[M] \in Nat /\ (m \in M => all[m] <= g[M])
      BY <3>2, <3>3, <3>4, <3>5
    <3> QED
      BY <3>6
  <2>4. Models \in T
    <3> HIDE DEF T
    <3> QED
      BY <2>2, <2>3, ByMembers, UsageAssumption
  <2> QED
    BY <2>1, <2>4
<1>5. ASSUME NEW base \in Snapshots PROVE Ahead(totals, base) <= Ahead(totals, Zero)
  <2> DEFINE some == [m \in Models |-> Excess(totals, base.models, m)]
  <2>1. some \in [Models -> Nat] /\ some \in Amounts
    BY ExcessType DEF Amounts
  <2>2. ASSUME NEW m \in Models PROVE some[m] <= all[m]
    <3>1. Of(base.models, m) \in Nat \cup {Unreported}
      BY SnapshotShape
    <3>2. some[m] = Excess(totals, base.models, m) /\ all[m] \in Nat
      BY <1>2
    <3>3. m \in DOMAIN totals => totals[m] \in Nat /\ all[m] = totals[m]
      BY <1>3
    <3> HIDE DEF all, some
    <3> QED
      BY <3>1, <3>2, <3>3 DEF Excess
  <2> HIDE DEF all, some
  <2>3. Total(some) \in Nat \cup {Unreported} /\ (Total(some) # Unreported => Total(some) <= Total(all))
    BY <1>2, <2>1, <2>2, TotalAtMostThat
  <2>4. Total(some) \in Nat
    BY <2>1, TotalAtMostThat
  <2>5. Ahead(totals, base) \in {0, Total(some)}
    BY DEF Ahead, some
  <2> QED
    BY <1>1, <2>3, <2>4, <2>5, UsageAssumption
<1> HIDE DEF all
<1> QED
  BY <1>1, <1>3, <1>4, <1>5

(* No counter and no snapshot has more than was spent in all, no attempt is *)
(* told of more, and of that there are MaxSpent.                            *)
Noticed == Snapshot \cup {NoSnapshotYet}

SpentBounded ==
  /\ cut \in BOOLEAN /\ setbacks \in 0..MaxSetbacks
  /\ Spent <= MaxSpent /\ \A s \in Sessions : Ahead(counter[s], Zero) <= Spent
  /\ known \in [Sessions -> Noticed] /\ saved \in [Sessions -> Noticed]
  /\ Working => /\ attempt.steps <= Spent /\ attempt.tokens \in Tokens
                /\ attempt.baseline \in Noticed /\ attempt.cumulative \in Noticed

LEMMA CountersBounded ==
  ASSUME AccountsType, SpentBounded, NEW s \in Sessions
  PROVE  /\ Spent \in Nat /\ Spent <= MaxSpent
         /\ counter[s] \in Counter
         /\ \A m \in DOMAIN counter[s] : counter[s][m] \in Amount
         /\ \A base \in Snapshots : Ahead(counter[s], base) \in Amount
<1>1. Spent \in Nat /\ Spent <= MaxSpent
  BY SumBounds DEF AccountsType, SpentBounded, Spent
<1>2. counter[s] \in Counter
  BY AccountTypes
<1>3. Ahead(counter[s], Zero) \in Nat /\ Ahead(counter[s], Zero) <= Spent
  BY <1>2, EntryAtMost DEF SpentBounded
<1>4. ASSUME NEW m \in DOMAIN counter[s] PROVE counter[s][m] \in Amount
  <2>1. counter[s][m] \in Nat /\ counter[s][m] <= Ahead(counter[s], Zero)
    BY <1>2, CounterShape, EntryAtMost
  <2> QED
    BY <1>1, <1>3, <2>1, UsageAssumption DEF Amount
<1>5. ASSUME NEW base \in Snapshots PROVE Ahead(counter[s], base) \in Amount
  <2>1. Ahead(counter[s], base) \in Nat /\ Ahead(counter[s], base) <= Ahead(counter[s], Zero)
    BY <1>2, AheadType, EntryAtMost
  <2> QED
    BY <1>1, <1>3, <2>1, UsageAssumption DEF Amount
<1> QED
  BY <1>1, <1>2, <1>4, <1>5

(* The types follow.                                                        *)
LEMMA UsageTyped == AccountsInv /\ SpentBounded => UsageTypeOK
<1> SUFFICES ASSUME AccountsInv, SpentBounded PROVE UsageTypeOK
  OBVIOUS
<1>1. AccountsType
  BY DEF AccountsInv
<1>2. counter \in [Sessions -> UNION {[M -> Amount] : M \in SUBSET Models}]
  <2>1. ASSUME NEW s \in Sessions
        PROVE  counter[s] \in UNION {[M -> Amount] : M \in SUBSET Models}
    <3>1. PICK M \in SUBSET Models : counter[s] \in [M -> Nat]
      BY <1>1, CountersBounded DEF Counter
    <3>2. \A m \in M : counter[s][m] \in Amount
      BY <1>1, <3>1, CountersBounded
    <3>3. counter[s] \in [M -> Amount]
      BY <3>1, <3>2
    <3> QED
      BY <3>3
  <2>2. counter \in [Sessions -> Counter]
    BY <1>1 DEF AccountsType
  <2> QED
    BY <2>1, <2>2
<1>3. spent \in [Sessions -> Amount]
  <2>1. spent \in [Sessions -> Nat] /\ Spent <= MaxSpent
    BY <1>1 DEF AccountsType, SpentBounded
  <2>2. Spent \in Nat /\ \A s \in Sessions : spent[s] \in Nat /\ spent[s] <= Spent
    BY <2>1, SumBounds DEF Spent
  <2>3. \A s \in Sessions : spent[s] \in Amount
    BY <2>1, <2>2, UsageAssumption DEF Amount
  <2> QED
    BY <2>1, <2>3
<1>4. ASSUME Working PROVE attempt \in UsageAttempt
  <2>1. /\ attempt \in AttemptType /\ attempt.session \in Sessions
        /\ attempt.steps \in Nat /\ attempt.told \in Nat
    BY <1>1, <1>4, AttemptTypes
  <2>2. /\ attempt.seen \subseteq 1..attempt.steps /\ attempt.told <= attempt.steps
    BY <1>4 DEF AccountsInv, AttemptSound
  <2>3. Spent \in Nat /\ Spent <= MaxSpent /\ attempt.steps <= Spent
    BY <1>1, <1>4, <2>1, CountersBounded DEF SpentBounded
  <2>4. /\ attempt.steps \in Amount /\ attempt.told \in Amount
        /\ attempt.seen \in SUBSET (1..MaxSpent)
    BY <2>1, <2>2, <2>3, UsageAssumption DEF Amount
  <2>5. /\ attempt.tokens \in Tokens
        /\ attempt.baseline \in Noticed /\ attempt.cumulative \in Noticed
    BY <1>4 DEF SpentBounded
  <2> QED
    BY <2>1, <2>4, <2>5 DEF AttemptType, UsageAttempt, Noticed
<1> QED
  BY <1>1, <1>2, <1>3, <1>4 DEF AccountsType, SpentBounded, UsageTypeOK, Noticed, Working

LEMMA ZeroNoticed == Zero \in Noticed /\ NoSnapshotYet \in Noticed
<1>1. <<>> \in [{} -> Tokens]
  OBVIOUS
<1>2. <<>> \in Totals
  BY <1>1 DEF Totals
<1> QED
  BY <1>2 DEF Noticed, Snapshot, Zero

LEMMA BoundedInitially == UsageInit => SpentBounded
<1> SUFFICES ASSUME UsageInit PROVE SpentBounded
  OBVIOUS
<1>1. /\ counter = [s \in Sessions |-> <<>>] /\ spent = [s \in Sessions |-> 0]
      /\ known = [s \in Sessions |-> NoSnapshotYet] /\ saved = known /\ attempt = NoAttempt
      /\ cut = FALSE /\ setbacks = 0
  BY DEF UsageInit
<1>2. Spent = 0
  <2>1. spent \in [Sessions -> Nat] /\ \A s \in Sessions : spent[s] = 0
    BY <1>1
  <2> QED
    BY <2>1, SumBounds DEF Spent
<1> DEFINE none == <<>>
<1>3. none \in Counter /\ DOMAIN none = {}
  BY NoTotals
<1>4. counter = [s \in Sessions |-> none]
  BY <1>1
<1> HIDE DEF none
<1>5. \A s \in Sessions : Ahead(counter[s], Zero) = 0
  <2>1. Ahead(none, Zero) = 0
    BY <1>3, ZeroSnapshot, AheadOfOwn
  <2> QED
    BY <1>4, <2>1
<1>6. known \in [Sessions -> Noticed] /\ saved \in [Sessions -> Noticed]
  BY <1>1, ZeroNoticed
<1>7. cut \in BOOLEAN
  BY <1>1
<1>8. ~Working
  BY <1>1 DEF Working
<1>9. setbacks = 0
  BY <1>1
<1>10. setbacks \in 0..MaxSetbacks /\ 0 <= MaxSpent
  BY <1>9, UsageAssumption
<1> QED
  BY <1>2, <1>5, <1>6, <1>7, <1>8, <1>10 DEF SpentBounded

(* An observation changes nothing but the attempt.                          *)
LEMMA ObservedBounded ==
  ASSUME SpentBounded, UNCHANGED <<counter, known, saved, cut, spent>>,
         setbacks' \in 0..MaxSetbacks,
         attempt'.steps <= Spent, attempt'.tokens \in Tokens,
         attempt'.baseline \in Noticed, attempt'.cumulative \in Noticed
  PROVE  SpentBounded'
  BY DEF SpentBounded, Spent

LEMMA StartsBounded ==
  ASSUME AccountsType, SpentBounded,
         NEW s \in Sessions, StartNew(s) \/ StartAgain(s) \/ ThreadStarts(s)
  PROVE  SpentBounded'
<1>1. ASSUME NEW fresh, NEW base \in Noticed, Begin(s, fresh, base),
             UNCHANGED <<counter, known, saved, cut, setbacks, spent>>
      PROVE  SpentBounded'
  <2>1. /\ attempt'.steps = 0 /\ attempt'.tokens = Unreported
        /\ attempt'.baseline = base /\ attempt'.cumulative = NoSnapshotYet
    BY <1>1 DEF Begin
  <2>2. 0 <= Spent
    BY CountersBounded
  <2> QED
    BY <1>1, <2>1, <2>2, ZeroNoticed, ObservedBounded DEF Tokens, SpentBounded
<1>2. CASE StartNew(s)
  BY <1>1, <1>2, ZeroNoticed DEF StartNew
<1>3. CASE StartAgain(s)
  <2>1. known[s] \in Noticed
    BY DEF SpentBounded
  <2> QED
    BY <1>1, <1>3, <2>1 DEF StartAgain
<1>4. CASE ThreadStarts(s)
  BY <1>4, ZeroNoticed DEF ThreadStarts, SpentBounded, Working, Spent
<1> QED
  BY <1>2, <1>3, <1>4

(* The session that goes on has the totals of the one before, or none.       *)
LEMMA RenamedBounded ==
  ASSUME AccountsType, SpentBounded, NEW s \in Sessions, Renamed(s)
  PROVE  SpentBounded'
<1> DEFINE old == attempt.session
<1>1. /\ Working /\ setbacks < MaxSetbacks /\ setbacks' = setbacks + 1
      /\ counter' \in {counter, [counter EXCEPT ![s] = counter[old]]}
      /\ attempt' = [attempt EXCEPT !.session = s,
                       !.baseline = IF attempt.fresh THEN attempt.baseline ELSE known[s]]
      /\ UNCHANGED <<known, saved, cut, spent>>
  BY DEF Renamed, Setback
<1>2. /\ attempt \in AttemptType /\ old \in Sessions
  BY <1>1, AttemptTypes
<1>3. /\ attempt'.steps = attempt.steps /\ attempt'.tokens = attempt.tokens
      /\ attempt'.baseline \in {attempt.baseline, known[s]}
      /\ attempt'.cumulative = attempt.cumulative
  BY <1>1, <1>2 DEF AttemptType
<1>4. \A x \in Sessions : Ahead(counter'[x], Zero) <= Spent
  <2>1. \A x \in Sessions : counter'[x] \in {counter[x], counter[old]}
    BY <1>1, <1>2 DEF AccountsType
  <2> QED
    BY <1>2, <2>1 DEF SpentBounded
<1>5. known[s] \in Noticed
  BY DEF SpentBounded
<1> QED
  BY <1>1, <1>3, <1>4, <1>5, UsageAssumption DEF SpentBounded, Spent, Working

LEMMA RestartBounded ==
  ASSUME AccountsType, SpentBounded, NEW s \in Sessions, CounterRestarts(s)
  PROVE  SpentBounded'
<1> DEFINE now == [m \in DOMAIN counter[s] |-> 0]
<1>1. /\ setbacks < MaxSetbacks /\ setbacks' = setbacks + 1
      /\ counter' = [counter EXCEPT ![s] = now]
      /\ UNCHANGED <<known, saved, cut, attempt, spent>>
  BY DEF CounterRestarts, Setback
<1>2. now \in Counter /\ \A m \in DOMAIN now : now[m] = 0
  <2>1. DOMAIN counter[s] \in SUBSET Models /\ now \in [DOMAIN counter[s] -> Nat]
    BY AccountTypes, CounterShape
  <2> QED
    BY <2>1 DEF Counter
<1> HIDE DEF now
<1>3. Ahead(now, Zero) = 0 /\ 0 <= Spent
  BY <1>2, ZeroSnapshot, AheadOfOwn, CountersBounded
<1>4. \A x \in Sessions : Ahead(counter'[x], Zero) <= Spent
  BY <1>1, <1>3 DEF AccountsType, SpentBounded
<1> QED
  BY <1>1, <1>4, UsageAssumption DEF SpentBounded, Spent, Working

(* A token that a session spends is one more in all.                         *)
LEMMA WorkBounded ==
  ASSUME AccountsType, SpentBounded, NEW m \in Models, Work(m)
  PROVE  SpentBounded'
<1> DEFINE s == attempt.session
           now == Used(counter[s], m)
<1>1. /\ Working /\ Spent < MaxSpent
      /\ counter' = [counter EXCEPT ![s] = now]
      /\ attempt' = [attempt EXCEPT !.steps = attempt.steps + 1]
      /\ spent' = [spent EXCEPT ![s] = @ + 1]
      /\ UNCHANGED <<known, saved, cut, setbacks>>
  BY DEF Work, Spent
<1>2. attempt \in AttemptType /\ s \in Sessions /\ attempt.steps \in Nat
  BY <1>1, AttemptTypes
<1>3. counter[s] \in Counter /\ Spent \in Nat
  BY <1>2, CountersBounded
<1>4. Spent' = Spent + 1
  BY <1>1, <1>2, SumByOne DEF AccountsType, Spent
<1>5. /\ DOMAIN now = DOMAIN counter[s] \cup {m}
      /\ \A x \in DOMAIN now : now[x] = IF x = m THEN Of(counter[s], m) + 1 ELSE counter[s][x]
  BY DEF Used
<1>6. now \in Counter
  <2>1. DOMAIN now \subseteq Models /\ \A x \in DOMAIN now : now[x] \in Nat
    BY <1>3, <1>5, CounterShape
  <2>2. now = [x \in DOMAIN now |-> now[x]]
    BY DEF Used
  <2> HIDE DEF now
  <2>3. now \in [DOMAIN now -> Nat]
    BY <2>1, <2>2
  <2> QED
    BY <2>1, <2>3 DEF Counter
<1>7. Ahead(now, Zero) \in Nat /\ Ahead(now, Zero) <= Ahead(counter[s], Zero) + 1
  <2> HIDE DEF now
  <2> QED
    BY <1>3, <1>5, <1>6, AheadByOne, AheadType, ZeroSnapshot
<1> HIDE DEF now
<1>8. \A x \in Sessions : Ahead(counter[x], Zero) \in Nat
  BY AccountTypes, AheadType, ZeroSnapshot
<1>9. \A x \in Sessions : Ahead(counter'[x], Zero) <= Spent + 1
  <2>1. \A x \in Sessions : counter'[x] = IF x = s THEN now ELSE counter[x]
    BY <1>1 DEF AccountsType
  <2>2. \A x \in Sessions : Ahead(counter[x], Zero) <= Spent
    BY DEF SpentBounded
  <2> QED
    BY <1>2, <1>3, <1>7, <1>8, <2>1, <2>2
<1>10. /\ attempt'.steps = attempt.steps + 1 /\ attempt'.tokens = attempt.tokens
       /\ attempt'.baseline = attempt.baseline /\ attempt'.cumulative = attempt.cumulative
  BY <1>1, <1>2 DEF AttemptType
<1> QED
  BY <1>1, <1>2, <1>3, <1>4, <1>9, <1>10, UsageAssumption DEF SpentBounded, Working

LEMMA StepBounded ==
  ASSUME AccountsInv, SpentBounded, NEW n \in 1..MaxSpent, Step(n)
  PROVE  SpentBounded'
<1>1. AccountsInv'
  BY StepSound
<1> DEFINE more == IF attempt.tokens = Unreported THEN 1 ELSE attempt.tokens + 1
           tokens == IF backend = "opencode" THEN more ELSE attempt.tokens
           scope == IF backend = "opencode" THEN "steps" ELSE attempt.scope
<1>2. /\ Working
      /\ attempt' = [attempt EXCEPT !.seen = attempt.seen \cup {n}, !.tokens = tokens,
                                    !.scope = scope]
      /\ UNCHANGED <<backend, counter, known, saved, cut, setbacks, spent>>
  BY DEF Step
<1>3. attempt \in AttemptType /\ attempt.steps \in Nat
  BY <1>2, AttemptTypes DEF AccountsInv
<1> HIDE DEF tokens, scope
<1>4. /\ attempt'.steps = attempt.steps /\ attempt'.tokens = tokens
      /\ attempt'.baseline = attempt.baseline /\ attempt'.cumulative = attempt.cumulative
      /\ "steps" \in DOMAIN attempt'
  BY <1>2, <1>3 DEF AttemptType
<1>5. tokens \in Tokens
  <2>1. CASE backend = "opencode"
    <3>1. attempt' # NoAttempt
      <4>1. "steps" \notin DOMAIN NoAttempt
        BY DEF NoAttempt
      <4> QED
        BY <1>4, <4>1
    <3>2. attempt' \in AttemptType /\ AttemptSound'
      BY <1>1, <3>1 DEF AccountsInv, AccountsType, Working
    <3>3. attempt'.seen \in SUBSET Nat /\ attempt'.seen \subseteq 1..attempt.steps
          /\ tokens \in Nat \cup {Unreported}
          /\ (tokens # Unreported => tokens <= Cardinality(attempt'.seen))
      BY <1>2, <1>4, <2>1, <3>2 DEF AttemptType, AttemptSound
    <3>4. Cardinality(attempt'.seen) \in Nat /\ Cardinality(attempt'.seen) <= attempt.steps
      BY <1>3, <3>3, SeenCounted
    <3>5. attempt.steps <= Spent /\ Spent \in Nat /\ Spent <= MaxSpent
      BY <1>2, AttemptTypes, CountersBounded DEF AccountsInv, SpentBounded
    <3> QED
      BY <1>3, <3>3, <3>4, <3>5, UsageAssumption DEF Tokens, Amount
  <2>2. CASE backend # "opencode"
    BY <1>2, <2>2 DEF SpentBounded, tokens
  <2> QED
    BY <2>1, <2>2
<1>6. /\ setbacks' \in 0..MaxSetbacks /\ attempt'.steps <= Spent
      /\ attempt'.baseline \in Noticed /\ attempt'.cumulative \in Noticed
  BY <1>2, <1>4 DEF SpentBounded
<1> QED
  BY <1>2, <1>4, <1>5, <1>6, ObservedBounded

(* What some models report, or do not, is a snapshot within the bound.       *)
LEMMA ShownNoticed ==
  ASSUME NEW M \in SUBSET Models, NEW f \in [M -> Tokens], NEW shown \in BOOLEAN
  PROVE  [models |-> f, reported |-> shown] \in Noticed
<1>1. f \in Totals
  BY DEF Totals
<1> QED
  BY <1>1 DEF Noticed, Snapshot

(* So is what is charged for it.                                            *)
LEMMA AddedBounded ==
  ASSUME AccountsType, SpentBounded, NEW s \in Sessions, NEW base \in Snapshots, base.reported,
         NEW now, DOMAIN now \subseteq DOMAIN counter[s],
         \A m \in DOMAIN now : now[m] \in {counter[s][m], Unreported}
  PROVE  Added(now, base.models) \in Tokens
<1>1. counter[s] \in Counter /\ Ahead(counter[s], base) \in Amount
  BY CountersBounded
<1>2. /\ Added(now, base.models) \in Nat \cup {Unreported}
      /\ Added(now, base.models) # Unreported => Added(now, base.models) <= Ahead(counter[s], base)
  BY <1>1, AddedIsAhead
<1> QED
  BY <1>1, <1>2, UsageAssumption DEF Tokens, Amount

LEMMA ResultBounded ==
  ASSUME AccountsInv, SpentBounded, NEW models \in SUBSET Models, Result(models)
  PROVE  SpentBounded'
<1> DEFINE s == attempt.session
           base == attempt.baseline
           comparable == models # {} /\ (base # NoSnapshotYet => ~Lost(base, models))
           shown == [m \in models |-> counter[s][m]]
           amounts == IF base = NoSnapshotYet THEN shown ELSE Validated(shown, base.models)
           now == [models |-> amounts, reported |-> comparable]
           tokens == IF base = NoSnapshotYet THEN Unreported
                     ELSE IF now.reported /\ base.reported THEN Added(now.models, base.models)
                     ELSE IF attempt.fresh THEN Cardinality({attempt.steps} \ {0})
                     ELSE Unreported
           scope == IF base = NoSnapshotYet THEN "unavailable"
                    ELSE IF now.reported /\ base.reported THEN "delta"
                    ELSE IF attempt.fresh THEN "result" ELSE "unavailable"
<1>1. /\ Working /\ models \subseteq DOMAIN counter[s]
      /\ attempt' = [attempt EXCEPT !.cumulative = now, !.told = attempt.steps,
                                    !.tokens = tokens, !.scope = scope]
      /\ UNCHANGED <<counter, known, saved, cut, spent>>
  BY DEF Result, Claims
<1>2. setbacks' \in 0..MaxSetbacks
  <2>1. setbacks' = setbacks \/ (setbacks < MaxSetbacks /\ setbacks' = setbacks + 1)
    BY DEF Result, Claims, Setback
  <2>2. setbacks \in 0..MaxSetbacks
    BY DEF SpentBounded
  <2> QED
    BY <2>1, <2>2, UsageAssumption
<1>3. AccountsType /\ attempt \in AttemptType /\ s \in Sessions /\ attempt.steps \in Nat
      /\ base \in Snapshots
  BY <1>1, AttemptTypes DEF AccountsInv
<1>4. counter[s] \in Counter /\ \A m \in DOMAIN counter[s] : counter[s][m] \in Amount
  BY <1>3, CountersBounded
<1>5. /\ DOMAIN amounts = models /\ amounts \in [models -> Nat \cup {Unreported}]
      /\ \A m \in models : amounts[m] \in {counter[s][m], Unreported}
  <2>1. CASE base = NoSnapshotYet
    <3>1. \A m \in models : counter[s][m] \in Nat
      BY <1>1, <1>4, CounterShape
    <3> QED
      BY <2>1, <3>1
  <2>2. CASE base # NoSnapshotYet
    <3>1. amounts = Validated(shown, base.models)
      BY <2>2
    <3> HIDE DEF amounts
    <3> QED
      BY <1>1, <1>4, <3>1, ValidatedShape
  <2> QED
    BY <2>1, <2>2
<1> HIDE DEF amounts, comparable
<1>6. now \in Noticed /\ now.models = amounts
  <2>1. comparable \in BOOLEAN
    BY Zenon DEF comparable
  <2>2. amounts \in [models -> Tokens]
    <3>1. \A m \in models : amounts[m] \in Tokens
      BY <1>1, <1>4, <1>5 DEF Tokens
    <3> QED
      BY <1>5, <3>1
  <2>3. now.models = amounts
    OBVIOUS
  <2> QED
    BY <2>1, <2>2, <2>3, ShownNoticed
<1> HIDE DEF now
<1>7. tokens \in Tokens
  <2>1. base.reported => Added(now.models, base.models) \in Tokens
    BY <1>1, <1>3, <1>5, <1>6, AddedBounded
  <2>2. Cardinality({attempt.steps} \ {0}) \in Tokens
    <3>1. {attempt.steps} \ {0} \in SUBSET Nat /\ {attempt.steps} \ {0} \subseteq 1..attempt.steps
      BY <1>3
    <3>2. Cardinality({attempt.steps} \ {0}) \in Nat
          /\ Cardinality({attempt.steps} \ {0}) <= attempt.steps
      BY <1>3, <3>1, SeenCounted
    <3>3. attempt.steps <= Spent /\ Spent \in Nat /\ Spent <= MaxSpent
      BY <1>1, <1>3, CountersBounded DEF SpentBounded
    <3> QED
      BY <1>3, <3>2, <3>3, UsageAssumption DEF Tokens, Amount
  <2> QED
    BY <2>1, <2>2 DEF Tokens
<1> HIDE DEF tokens, scope
<1>8. /\ attempt'.steps = attempt.steps /\ attempt'.tokens = tokens
      /\ attempt'.baseline = base /\ attempt'.cumulative = now
  BY <1>1, <1>3 DEF AttemptType
<1>9. attempt.steps <= Spent /\ base \in Noticed
  BY <1>1 DEF SpentBounded
<1> QED
  BY <1>1, <1>2, <1>6, <1>7, <1>8, <1>9, ObservedBounded

LEMMA UpdatedBounded ==
  ASSUME AccountsInv, CodexReported, SpentBounded, Updated
  PROVE  SpentBounded'
<1> DEFINE s == attempt.session
           base == attempt.baseline
           totals == counter[s]
           amounts == IF base = NoSnapshotYet THEN totals ELSE Validated(totals, base.models)
           now == [models |-> amounts, reported |-> TRUE]
           scope == IF attempt.scope = "partial" THEN attempt.scope ELSE "delta"
<1>1. /\ Working /\ backend = "codex"
      /\ attempt' = IF base = NoSnapshotYet
            THEN [attempt EXCEPT !.baseline = now, !.cumulative = now, !.scope = "partial"]
            ELSE [attempt EXCEPT !.cumulative = now, !.tokens = Added(now.models, base.models),
                                 !.scope = scope]
      /\ UNCHANGED <<counter, known, saved, cut, setbacks, spent>>
  BY DEF Updated
<1>2. AccountsType /\ attempt \in AttemptType /\ s \in Sessions /\ base \in Snapshots
  BY <1>1, AttemptTypes DEF AccountsInv
<1>3. totals \in Counter /\ \A m \in DOMAIN totals : totals[m] \in Amount
  BY <1>2, CountersBounded
<1>4. /\ DOMAIN amounts = DOMAIN totals /\ amounts \in [DOMAIN totals -> Tokens]
      /\ \A m \in DOMAIN totals : amounts[m] \in {totals[m], Unreported}
      /\ DOMAIN totals \in SUBSET Models
  <2>1. DOMAIN totals \subseteq Models /\ totals = [m \in DOMAIN totals |-> totals[m]]
    BY <1>3, CounterShape DEF Counter
  <2> HIDE DEF totals
  <2>2. CASE base = NoSnapshotYet
    BY <1>3, <2>1, <2>2 DEF Tokens
  <2>3. CASE base # NoSnapshotYet
    BY <1>3, <2>1, <2>3 DEF Validated, Tokens
  <2> QED
    BY <2>2, <2>3
<1> HIDE DEF amounts
<1>5. now \in Noticed /\ now.models = amounts
  BY <1>4, ShownNoticed
<1> HIDE DEF now
<1>6. base # NoSnapshotYet => Added(amounts, base.models) \in Tokens
  <2>1. base # NoSnapshotYet => base.reported
    BY <1>1 DEF CodexReported, Plain
  <2> QED
    BY <1>2, <1>4, <2>1, AddedBounded
<1>7. /\ attempt.steps <= Spent /\ attempt.tokens \in Tokens /\ base \in Noticed
      /\ setbacks' \in 0..MaxSetbacks
  BY <1>1 DEF SpentBounded
<1> HIDE DEF scope
<1>8. /\ attempt'.steps = attempt.steps /\ attempt'.cumulative = now
      /\ attempt'.baseline \in {base, now}
      /\ attempt'.tokens \in Tokens
  BY <1>1, <1>2, <1>5, <1>6, <1>7 DEF AttemptType
<1> QED
  BY <1>1, <1>5, <1>7, <1>8, ObservedBounded

(* A record leaves its snapshot, and no attempt.                            *)
LEMMA RecordBounded ==
  ASSUME SpentBounded, AccountsType,
         RecordKept \/ RecordUnsaved \/ RecordUnstaged \/ RecorderKilled
  PROVE  SpentBounded'
<1>1. ASSUME Working
      PROVE  Noted(known) \in [Sessions -> Noticed] /\ Noted(saved) \in [Sessions -> Noticed]
  BY <1>1 DEF Noted, SpentBounded
<1>2. /\ attempt' = NoAttempt /\ UNCHANGED <<counter, spent>>
      /\ known' \in {known, saved} \/ (Working /\ known' = Noted(known))
      /\ saved' = saved \/ (Working /\ saved' = Noted(saved))
      /\ cut' \in {cut, TRUE, FALSE}
      /\ setbacks' = setbacks \/ (setbacks < MaxSetbacks /\ setbacks' = setbacks + 1)
  BY DEF RecordKept, RecordUnsaved, RecordUnstaged, RecorderKilled, Setback
<1>3. setbacks' \in 0..MaxSetbacks
  BY <1>2, UsageAssumption DEF SpentBounded
<1> QED
  BY <1>1, <1>2, <1>3 DEF SpentBounded, Spent, Working

LEMMA BoundedNext ==
  ASSUME AccountsInv, CodexReported, SpentBounded, [UsageNext]_accounts
  PROVE  SpentBounded'
<1>1. AccountsType
  BY DEF AccountsInv
<1>2. CASE \E s \in Sessions : StartNew(s) \/ StartAgain(s) \/ ThreadStarts(s)
  BY <1>1, <1>2, StartsBounded
<1>3. CASE \E s \in Sessions : Renamed(s)
  BY <1>1, <1>3, RenamedBounded
<1>4. CASE \E s \in Sessions : CounterRestarts(s)
  BY <1>1, <1>4, RestartBounded
<1>5. CASE \E m \in Models : Work(m)
  BY <1>1, <1>5, WorkBounded
<1>6. CASE \E models \in SUBSET Models : Result(models)
  BY <1>6, ResultBounded
<1>7. CASE Updated
  BY <1>7, UpdatedBounded
<1>8. CASE \E n \in 1..MaxSpent : Step(n)
  BY <1>8, StepBounded
<1>9. CASE RecordKept \/ RecordUnsaved \/ RecordUnstaged \/ RecorderKilled
  BY <1>1, <1>9, RecordBounded
<1>10. CASE UNCHANGED accounts
  BY <1>10 DEF accounts, SpentBounded, Spent, Working
<1> QED
  BY <1>2, <1>3, <1>4, <1>5, <1>6, <1>7, <1>8, <1>9, <1>10 DEF UsageNext

(* The accounts have their types, whatever is spent: no total, no snapshot   *)
(* and no attempt comes to hold more than all sessions have spent.           *)
LEMMA UsageTypes == UsageSpec => []UsageTypeOK
<1>1. UsageInit => AccountsInv /\ CodexReported /\ SpentBounded
  <2>1. UsageInit => CodexReported
    BY DEF UsageInit, CodexReported, Plain, Working
  <2> QED
    BY <2>1, AccountsInitially, BoundedInitially
<1>2. AccountsInv /\ CodexReported /\ SpentBounded /\ [UsageNext]_accounts
        => (AccountsInv /\ CodexReported /\ SpentBounded)'
  BY AccountsNext, CodexReportedKept, BoundedNext DEF AccountsInv
<1> QED
  BY <1>1, <1>2, UsageTyped, PTL DEF UsageSpec
-----------------------------------------------------------------------------
(* The receipts, the trend and the accounts, together                        *)

(* A behaviour of the composed system is one of each of its parts, at work or *)
(* at rest, so all that is proved of the parts holds where they are checked.  *)
THEOREM EvidenceComposes == Spec => ChecksSpec /\ TrendSpec /\ UsageSpec
<1>1. Init => ChecksInit /\ TrendInit /\ UsageInit
  BY DEF Init
<1>2. [Next]_<<subject, checks, trend, accounts>>
        => [ChecksNext]_checks /\ [TrendNext]_trend /\ [UsageNext]_accounts
  BY DEF Next
<1> QED
  BY <1>1, <1>2, PTL DEF Spec, ChecksSpec, TrendSpec, UsageSpec

(* The type invariant of the three together; the accounts' half of it says    *)
(* that no total, snapshot or attempt comes to hold more than was spent.      *)
THEOREM EvidenceTypes == Spec => []EvidenceTypeOK
<1>1. ChecksTypeOK /\ TrendTypeOK /\ UsageTypeOK => EvidenceTypeOK
  BY DEF EvidenceTypeOK
<1> QED
  BY <1>1, EvidenceComposes, ReceiptsTypeCorrect, TrendTypes, UsageTypes, PTL
=============================================================================
