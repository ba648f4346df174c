----------------------------- MODULE ReviewTrend -----------------------------
(***************************************************************************)
(* What the rounds of independent review leave behind: the findings a      *)
(* change retains (src/src/review.rs), recorded with the checkpoint, and   *)
(* the trend the operating policy keeps of them in its own ledger          *)
(* (src/src/operating_policy.rs), which stops repairs that get nowhere.    *)
(* The two are saved one after the other, and a process may be killed in   *)
(* between.                                                                *)
(*                                                                         *)
(* Left out: --max-verify-retries and the requests of a stage (module      *)
(* OperatingPolicy), stages other than Verify and Repair (module           *)
(* Workflow), direct delivery, policies revised during a run, and a        *)
(* correction accepted once the change is archived, which begins another.  *)
(***************************************************************************)
EXTENDS Naturals, Sequences, FiniteSets

CONSTANTS
  MaxNoProgress,  \* max_no_progress_reviews
  MaxRecurring,   \* max_recurring_finding_reviews
  MaxFindings,    \* bound: findings registered for a change
  MaxEntries,     \* bound: findings in a report
  MaxMishaps      \* bound: processes killed, changes replanned, acceptances failed,
                  \* corrections accepted

ASSUME TrendAssumption ==
  /\ MaxNoProgress \in Nat \ {0} /\ MaxRecurring \in Nat \ {0}
  /\ MaxFindings \in Nat /\ MaxEntries \in Nat /\ MaxMishaps \in Nat

VARIABLES
  stage,       \* as the checkpoint has it; "done": accepted, or yet to be
  change,      \* which change is under review
  findings,    \* the status of each finding; its number is its ID
  unfinished,  \* a retained area is not reviewed
  round,       \* the Round that was recorded and is to be acted upon
  next,        \* the stage to be persisted, the policy having been told
  ledger,      \* of the policy
  mishaps,     \* so far
  structured,  \* history: the last round had a report that was accepted
  stalled,     \* history: Repair sessions since a round with a closure, or reported
               \* unlike the one before, or that verified, or since a correction
  disposed,    \* history: findings an accepted report disposes of in this step
  reported     \* history: open findings reported in this step

memory == <<round, next>>
registry == <<change, findings, unfinished>>
progress == <<structured, stalled, disposed, reported>>
trend == <<stage, registry, memory, ledger, mishaps, progress>>

Status == {"open", "closed", "observation"}
Ids == 1..MaxFindings
Verdict == {"Verified", "Retry", "Blocked", "Incomplete"}
Stage == {"Verify", "Repair", "done"}

Round ==
  [verdict : Verdict \cup {"none"}, structured : BOOLEAN, closed : SUBSET Ids, reopened : SUBSET Ids]

(* The last entry of `reviews`, the closures and change of incomplete_review,*)
(* and the counters.                                                        *)
Ledger ==
  [last : {"none", "structured", "unstructured"}, change : Nat,
   pending : SUBSET Ids, pendingChange : Nat,
   noProgress : 0..MaxNoProgress, unassessable : 0..MaxNoProgress,
   recurrences : [Ids -> 0..MaxRecurring]]

TrendTypeOK ==
  /\ stage \in Stage /\ change \in 1..(MaxMishaps + 1)
  /\ findings \in Seq(Status) /\ Len(findings) <= MaxFindings /\ unfinished \in BOOLEAN
  /\ round \in Round /\ next \in Stage /\ ledger \in Ledger
  /\ mishaps \in 0..MaxMishaps
  /\ structured \in BOOLEAN /\ stalled \in Nat /\ disposed \subseteq Ids /\ reported \in Nat

NoRecurrences == [f \in Ids |-> 0]

NoRound == [verdict |-> "none", structured |-> FALSE, closed |-> {}, reopened |-> {}]

TrendInit ==
  /\ stage = "Verify" /\ change = 1
  /\ findings = <<>> /\ unfinished = FALSE
  /\ round = NoRound /\ next = stage
  /\ ledger = [last |-> "none", change |-> 0, pending |-> {}, pendingChange |-> 0,
               noProgress |-> 0, unassessable |-> 0, recurrences |-> NoRecurrences]
  /\ mishaps = 0 /\ structured = FALSE /\ stalled = 0 /\ disposed = {} /\ reported = 0

Mishap == mishaps < MaxMishaps /\ mishaps' = mishaps + 1

Settled == disposed' = {} /\ reported' = 0
-----------------------------------------------------------------------------
(* The report of a reviewer                                                 *)

New == 0                   \* the empty ID
Unknown == MaxFindings + 1

Entry == [id : {New, Unknown} \cup DOMAIN findings, status : Status]

Entries == UNION {[1..n -> Entry] : n \in 0..MaxEntries}

(* `evidenced`: its findings name sources, evidence and repairs.  Of the areas*)
(* one matters, which may be retained as unfinished; "other" reports only    *)
(* others, all reviewed.  What a report without areas, or with one area      *)
(* twice, leads to is among the effects of these.  The order of findings     *)
(* matters only to those with the same ID.                                  *)
Reports ==
  [entries : {e \in Entries : \A i, j \in DOMAIN e : i < j => e[i].id <= e[j].id},
   evidenced : BOOLEAN, area : {"partial", "reviewed", "other"}]

HasOpen(report) == \E i \in DOMAIN report.entries : report.entries[i].status = "open"

Disposes(entry) ==
  /\ entry.id \in DOMAIN findings /\ findings[entry.id] = "open" /\ entry.status # "open"

Accepted(report) ==
  \A i \in DOMAIN report.entries :
     LET entry == report.entries[i]
     IN /\ entry.id # Unknown
        /\ entry.id = New => entry.status # "closed"
        /\ \A j \in DOMAIN report.entries :
             report.entries[j].id = entry.id /\ entry.id # New => i = j
        /\ entry.status # "observation" \/ Disposes(entry) => report.evidenced

(* normalize_review: a verdict its own report does not bear out, or whose     *)
(* report is rejected, concludes nothing.                                   *)
Concluded(verdict, report, accepted) ==
  IF /\ verdict \in {"Verified", "Retry"}
     /\ \/ report.area = "partial"
        \/ (verdict = "Retry") # HasOpen(report)
        \/ ~accepted
  THEN "Incomplete" ELSE verdict

Put(known, entry) ==
  IF entry.id \in DOMAIN findings
  THEN [known EXCEPT ![entry.id] = entry.status] ELSE Append(known, entry.status)

(* Mutant: of a rejected report only the findings with known IDs are kept.   *)
SalvagedKnown(entries) ==
  [i \in {i \in DOMAIN entries : entries[i].status = "open" /\ entries[i].id \in DOMAIN findings} |->
     entries[i]]

(* What is kept of a rejected report: its open findings, with new IDs for    *)
(* the unknown ones and for the second of two with the same ID.             *)
Salvaged(entries) ==
  LET kept == {i \in DOMAIN entries : entries[i].status = "open"}
  IN [i \in kept |-> IF \E j \in kept : j < i /\ entries[j].id = entries[i].id
                     THEN [entries[i] EXCEPT !.id = New] ELSE entries[i]]

(* The findings once the entries that are kept have been put, in their order.*)
Registered(kept) ==
  LET after[n \in 0..MaxEntries] ==
        IF n = 0 THEN findings
        ELSE IF n \in DOMAIN kept THEN Put(after[n - 1], kept[n]) ELSE after[n - 1]
  IN after[MaxEntries]

Named(entries, old, new) ==
  {f \in DOMAIN findings : /\ findings[f] = old
                           /\ \E i \in DOMAIN entries : entries[i] = [id |-> f, status |-> new]}
-----------------------------------------------------------------------------
(* Mutant: rounds that close nothing are counted and not looked at.          *)
AuthorizedRegardless ==
  /\ ledger.unassessable < MaxNoProgress
  /\ \A f \in Ids : ledger.recurrences[f] < MaxRecurring

(* Guard::check, before every request.                                      *)
Authorized ==
  /\ ledger.noProgress < MaxNoProgress /\ ledger.unassessable < MaxNoProgress
  /\ \A f \in Ids : ledger.recurrences[f] < MaxRecurring

(* A round of Verify is recorded and persisted with the checkpoint.          *)
Recorded(verdict, accepted, closed, reopened) ==
  /\ round' = [verdict |-> verdict, structured |-> accepted, closed |-> closed,
               reopened |-> reopened]
  /\ structured' = accepted
  /\ stalled' = IF closed # {} \/ accepted # structured THEN 0 ELSE stalled

AtRest == round = NoRound /\ next = stage

Reviewing == stage = "Verify" /\ AtRest /\ Authorized

RoundWithoutReport ==
  /\ Reviewing
  /\ \E verdict \in Verdict : Recorded(verdict, FALSE, {}, {})
  /\ Settled
  /\ UNCHANGED <<stage, next, registry, ledger, mishaps>>

(* What History::record makes of a report.                                  *)
Effect(report) ==
  LET accepted == Accepted(report)
      kept == IF accepted THEN report.entries ELSE Salvaged(report.entries)
      closed == IF accepted THEN Named(kept, "open", "closed") ELSE {}
  IN [findings |-> Registered(kept),
      unfinished |-> IF ~accepted THEN unfinished
                     ELSE report.area = "partial" \/ (unfinished /\ report.area # "reviewed"),
      accepted |-> accepted, closed |-> closed, reopened |-> Named(kept, "closed", "open"),
      verdicts |-> {Concluded(verdict, report, accepted) : verdict \in Verdict},
      disposed |-> IF accepted /\ report.evidenced
                   THEN closed \cup Named(kept, "open", "observation") ELSE {},
      reported |-> Cardinality({i \in DOMAIN report.entries : report.entries[i].status = "open"})]

RoundWithReport ==
  /\ Reviewing
  /\ \E effect \in {Effect(report) : report \in Reports} :
       /\ Len(effect.findings) <= MaxFindings
       /\ findings' = effect.findings /\ unfinished' = effect.unfinished
       /\ \E verdict \in effect.verdicts :
            Recorded(verdict, effect.accepted, effect.closed, effect.reopened)
       /\ disposed' = effect.disposed /\ reported' = effect.reported
  /\ UNCHANGED <<stage, next, change, ledger, mishaps>>
-----------------------------------------------------------------------------
(* The process with a recorded round                                        *)

Earlier == IF ledger.pendingChange = change THEN ledger.pending ELSE {}

Reopening(recurrences) ==
  [f \in Ids |-> IF f \in round.reopened THEN recurrences[f] + 1 ELSE recurrences[f]]

(* Mutant: reviews without a report do not count.                           *)
ReviewedStructured ==
  LET same == ledger.change = change
      kind == IF round.structured THEN "structured" ELSE "unstructured"
      repeated == round.verdict = "Retry" /\ same /\ kind = ledger.last
  IN [last |-> kind, change |-> change, pending |-> {}, pendingChange |-> 0,
      noProgress |-> IF repeated /\ round.structured /\ round.closed \cup Earlier = {}
                     THEN ledger.noProgress + 1 ELSE 0,
      unassessable |-> 0,
      recurrences |-> Reopening(IF same THEN ledger.recurrences ELSE NoRecurrences)]

(* Guard::review: only a RETRY like the one before it is no progress.        *)
Reviewed ==
  LET same == ledger.change = change
      kind == IF round.structured THEN "structured" ELSE "unstructured"
      repeated == round.verdict = "Retry" /\ same /\ kind = ledger.last
  IN [last |-> kind, change |-> change, pending |-> {}, pendingChange |-> 0,
      noProgress |-> IF repeated /\ round.structured /\ round.closed \cup Earlier = {}
                     THEN ledger.noProgress + 1 ELSE 0,
      unassessable |-> IF repeated /\ ~round.structured THEN ledger.unassessable + 1 ELSE 0,
      recurrences |-> Reopening(IF same THEN ledger.recurrences ELSE NoRecurrences)]

Tell(update, stageNext) ==
  /\ ledger' = update /\ next' = stageNext /\ round' = NoRound
  /\ stalled' = IF next' = "done" THEN 0 ELSE stalled
  /\ Settled /\ UNCHANGED <<stage, registry, mishaps, structured>>

Clear == ~unfinished /\ \A f \in DOMAIN findings : findings[f] # "open"

TellVerified == round.verdict = "Verified" /\ Clear /\ Tell(Reviewed, "done")

TellRetry == round.verdict = "Retry" /\ Tell(Reviewed, "Repair")

(* Guard::incomplete_review; a fresh verifier goes on.                       *)
TellIncomplete ==
  /\ round.verdict = "Incomplete"
  /\ Tell([ledger EXCEPT !.pending = round.closed \cup Earlier, !.pendingChange = change,
                         !.recurrences = Reopening(@)], stage)

(* BLOCKED, and VERIFIED with findings or areas left, end the process; the   *)
(* policy is not told.                                                      *)
Stopped ==
  /\ round.verdict = "Blocked" \/ (round.verdict = "Verified" /\ ~Clear)
  /\ Tell(ledger, stage)

(* The next stage is persisted after the policy has saved its ledger.        *)
Advance ==
  /\ next # stage
  /\ stage' = next
  /\ Settled /\ UNCHANGED <<registry, memory, ledger, mishaps, structured, stalled>>

(* A Repair that is ready; whatever it claims, the findings are as they were.*)
Repair ==
  /\ stage = "Repair" /\ AtRest /\ Authorized
  /\ stage' = "Verify" /\ next' = "Verify"
  /\ stalled' = stalled + 1
  /\ Settled /\ UNCHANGED <<registry, round, ledger, mishaps, structured>>

(* The process is killed; the next one resumes at the stage.                 *)
Crash ==
  /\ ~AtRest /\ Mishap
  /\ round' = NoRound /\ next' = stage
  /\ Settled /\ UNCHANGED <<stage, registry, ledger, structured, stalled>>

(* Acceptance fails after all: Repair, without a round of review.            *)
AcceptanceFailed ==
  /\ stage = "done" /\ AtRest /\ Mishap
  /\ stage' = "Repair" /\ next' = "Repair"
  /\ Settled /\ UNCHANGED <<registry, round, ledger, structured, stalled>>

(* reset_for_scope_change: a Repair turns out too large, and a replan leads  *)
(* to other changes; the policy is not told.                                *)
Replanned ==
  /\ stage = "Repair" /\ AtRest /\ Authorized /\ Mishap
  /\ stage' = "Verify" /\ next' = "Verify"
  /\ change' = change + 1 /\ findings' = <<>> /\ unfinished' = FALSE
  /\ stalled' = 0 /\ structured' = FALSE
  /\ Settled /\ UNCHANGED <<round, ledger>>

(* What the policy keeps when the maintainer grants another attempt.        *)
Corrected ==
  [last |-> ledger.last, change |-> ledger.change, pending |-> {}, pendingChange |-> 0,
   noProgress |-> 0, unassessable |-> 0, recurrences |-> NoRecurrences]

(* --accept-changes, of a campaign that does not run.  The policy saves its  *)
(* ledger before the checkpoint goes back to planning: killed in between,   *)
(* the stage is as it was.                                                  *)
AcceptChanges ==
  /\ AtRest /\ Mishap
  /\ stage' \in {stage, "Verify"} /\ next' = stage'
  /\ ledger' = Corrected /\ stalled' = 0
  /\ Settled /\ UNCHANGED <<registry, round, structured>>

TrendNext ==
  \/ RoundWithoutReport \/ RoundWithReport
  \/ TellVerified \/ TellRetry \/ TellIncomplete \/ Stopped \/ Advance
  \/ Repair \/ Crash \/ AcceptanceFailed \/ Replanned \/ AcceptChanges

TrendSpec == TrendInit /\ [][TrendNext]_trend
-----------------------------------------------------------------------------
Open == {f \in DOMAIN findings : findings[f] = "open"}

(* However a round ends, rejected report, crash or stop: an open finding     *)
(* stays open until a report that is accepted disposes of it with evidence   *)
(* ("Reported open blockers remain retained", review.rs:277), and every      *)
(* finding reported open is retained as one.                                *)
OpenRetained ==
  [][/\ change' = change => Open \ disposed' \subseteq Open'
     /\ reported' <= Cardinality(Open')]_trend

(* No more Repair sessions than allowed follow one another while reviews     *)
(* close nothing, wherever processes are killed between the two records     *)
(* (docs/operating-policy.md:18): a stall lost in the middle would buy a     *)
(* free Repair each time.  Only the maintainer grants another attempt.      *)
StalledRepairs == stalled <= MaxNoProgress
=============================================================================
