-------------------------- MODULE GovernanceProofs --------------------------
(***************************************************************************)
(* What governs a campaign.  First, what holds of the operating policy for *)
(* any number of processes and requests and any limits, without fairness.  *)
(*                                                                         *)
(* No supplied work is lost in the assignments: from the check before      *)
(* Verify on, the agenda and its record agree (AuditedAgenda), and          *)
(* deliveries are never taken back.  And the order of delivery: a slice    *)
(* about to be begun is the next of a sound agenda, and recoveries are      *)
(* compared with the record held when it was assigned (KeptInv), since the *)
(* order of ordinals is strict.                                            *)
(*                                                                         *)
(* Both hold of the two together, which share nothing.                     *)
(***************************************************************************)
EXTENDS MCGovernance, TLAPS

(* One action of a process at a time: the disjuncts of Next.                *)
LEMMA NextCases ==
  ASSUME [Next]_vars
  PROVE  \/ \E p \in Procs :
              \/ Load(p) \/ Persist(p) \/ OpenRefused(p) \/ Open(p)
              \/ CorrectionRefused(p) \/ AcceptChanges(p) \/ Corrected(p)
              \/ BeforeRequest(p) \/ Dispatch(p) \/ Answered(p) \/ DispatchFails(p)
              \/ Cancel(p) \/ CancelUnconfirmed(p) \/ Cancelled(p) \/ Interrupt(p)
              \/ DropServer(p) \/ BeforeReplan(p) \/ PolicyStop(p)
              \/ Unfinished(p) \/ WorkDone(p) \/ Retry(p) \/ RepairRefused(p)
              \/ Verified(p) \/ Completed(p)
              \/ Exit(p) \/ Crash(p)
         \/ BackendEnds
         \/ UNCHANGED vars
  BY DEF Next, Step
-----------------------------------------------------------------------------
(* The updates of a ledger and of a RunState that the actions make.         *)
LEMMA LedgerFields ==
  ASSUME NEW g \in Ledger
  PROVE  /\ g.pending \subseteq Requests /\ g.unresolved \subseteq Requests
         /\ g.key \in Stage \cup {"none"} /\ g.used \in 0..MaxRequests
         /\ g.replans \in 0..MaxReplans
  BY DEF Ledger

LEMMA PendingUpdate ==
  ASSUME NEW g \in Ledger, NEW pending \in SUBSET Requests
  PROVE  LET h == [g EXCEPT !.pending = pending]
         IN  /\ h \in Ledger /\ h.pending = pending /\ h.unresolved = g.unresolved
             /\ h.key = g.key /\ h.used = g.used /\ h.replans = g.replans
  BY DEF Ledger

LEMMA UnresolvedUpdate ==
  ASSUME NEW g \in Ledger, NEW unresolved \in SUBSET Requests
  PROVE  LET h == [g EXCEPT !.unresolved = unresolved]
         IN  /\ h \in Ledger /\ h.pending = g.pending /\ h.unresolved = unresolved
             /\ h.key = g.key /\ h.used = g.used /\ h.replans = g.replans
  BY DEF Ledger

LEMMA ReplansUpdate ==
  ASSUME NEW g \in Ledger, NEW replans \in 0..MaxReplans
  PROVE  LET h == [g EXCEPT !.replans = replans]
         IN  /\ h \in Ledger /\ h.pending = g.pending /\ h.unresolved = g.unresolved
             /\ h.key = g.key /\ h.used = g.used /\ h.replans = replans
  BY DEF Ledger

LEMMA AllowanceUpdate ==
  ASSUME NEW g \in Ledger, NEW key \in Stage \cup {"none"},
         NEW used \in 0..MaxRequests, NEW replans \in 0..MaxReplans
  PROVE  LET h == [g EXCEPT !.key = key, !.used = used, !.replans = replans]
         IN  /\ h \in Ledger /\ h.pending = g.pending /\ h.unresolved = g.unresolved
             /\ h.key = key /\ h.used = used /\ h.replans = replans
  BY DEF Ledger

LEMMA ReopenedType ==
  ASSUME ledger \in Ledger, NEW acks
  PROVE  /\ Reopened(acks) \in Ledger
         /\ Reopened(acks).unresolved = (ledger.unresolved \cup ledger.pending) \ acks
         /\ Reopened(acks).pending = ledger.pending \ acks
         /\ Reopened(acks).key = ledger.key /\ Reopened(acks).used = ledger.used
         /\ Reopened(acks).replans = ledger.replans
  BY DEF Reopened, Ledger

(* A save may fail; the ledger in memory is the new one all the same.       *)
LEMMA SaveOrFailEffect ==
  ASSUME ledger \in Ledger, failure \in BOOLEAN, NEW g \in Ledger, SaveOrFail(g)
  PROVE  guard' = g /\ ledger' \in {g, ledger} /\ failure' \in BOOLEAN
  BY DEF SaveOrFail, Save

(* record_usage settles the attempt in memory, and on disk unless the save  *)
(* fails.                                                                   *)
LEMMA RecordUsageEffect ==
  ASSUME guard \in Ledger, ledger \in Ledger, failure \in BOOLEAN, RecordUsage
  PROVE  /\ guard' \in Ledger /\ ledger' \in Ledger /\ failure' \in BOOLEAN
         /\ guard'.pending = guard.pending \ {attempt}
         /\ guard'.unresolved = guard.unresolved
         /\ guard'.key = guard.key /\ guard'.used = guard.used
         /\ guard'.replans = guard.replans
         /\ ledger' \in {guard', ledger}
<1> DEFINE g == [guard EXCEPT !.pending = @ \ {attempt}]
<1>1. /\ g \in Ledger /\ g.pending = guard.pending \ {attempt}
      /\ g.unresolved = guard.unresolved
      /\ g.key = guard.key /\ g.used = guard.used /\ g.replans = guard.replans
  BY LedgerFields, PendingUpdate
<1>2. SaveOrFail(g)
  BY DEF RecordUsage
<1> HIDE DEF g
<1> QED
  BY <1>1, <1>2, SaveOrFailEffect

(* cancellation_unconfirmed makes what is pending unresolved.               *)
LEMMA CancelUnconfirmedEffect ==
  ASSUME guard \in Ledger, ledger \in Ledger, failure \in BOOLEAN,
         NEW p \in Procs, CancelUnconfirmed(p)
  PROVE  /\ guard' \in Ledger /\ ledger' \in Ledger /\ failure' \in BOOLEAN
         /\ guard'.pending = guard.pending
         /\ guard'.unresolved = guard.unresolved \cup guard.pending
         /\ guard'.key = guard.key /\ guard'.used = guard.used
         /\ guard'.replans = guard.replans
         /\ ledger' \in {guard', ledger}
<1> DEFINE g == [guard EXCEPT !.unresolved = @ \cup guard.pending]
<1>1. guard.unresolved \cup guard.pending \in SUBSET Requests
  BY LedgerFields
<1>2. /\ g \in Ledger /\ g.pending = guard.pending
      /\ g.unresolved = guard.unresolved \cup guard.pending
      /\ g.key = guard.key /\ g.used = guard.used /\ g.replans = guard.replans
  BY <1>1, UnresolvedUpdate
<1>3. SaveOrFail(g)
  BY DEF CancelUnconfirmed
<1> HIDE DEF g
<1> QED
  BY <1>2, <1>3, SaveOrFailEffect

(* before_request counts the request in memory and on disk, within the      *)
(* limit.                                                                   *)
LEMMA BeforeRequestEffect ==
  ASSUME guard \in Ledger, NEW p \in Procs, state[p] \in RunState, BeforeRequest(p)
  PROVE  /\ guard' \in Ledger /\ ledger' = guard'
         /\ guard'.unresolved = guard.unresolved /\ guard'.replans = guard.replans
         /\ guard'.key = state[p].stage /\ guard'.used = Used(p) + 1
         /\ attempt' \in Requests /\ attempt' \in guard'.pending
<1> DEFINE counted(r) == [guard EXCEPT !.pending = @ \cup {r}, !.key = state[p].stage,
                                      !.used = Used(p) + 1]
<1>1. PICK r \in Identities : guard' = counted(r) /\ ledger' = counted(r) /\ attempt' = r
  <2>1. NewIdentity \in Identities
    BY DEF BeforeRequest, NewIdentity
  <2> QED
    BY <2>1 DEF BeforeRequest, Save
<1>2. r \in Requests
  BY DEF Identities
<1>3. Used(p) + 1 \in 0..MaxRequests
  <2>1. Used(p) \in 0..MaxRequests
    BY LedgerFields, LimitsAssumption DEF Used
  <2> QED
    BY <2>1, LimitsAssumption DEF BeforeRequest
<1>4. state[p].stage \in Stage \cup {"none"} /\ guard.pending \cup {r} \in SUBSET Requests
  BY <1>2, LedgerFields DEF RunState
<1>5. PICK pending \in SUBSET Requests, key \in Stage \cup {"none"}, used \in 0..MaxRequests :
        /\ pending = guard.pending \cup {r} /\ key = state[p].stage /\ used = Used(p) + 1
  BY <1>3, <1>4
<1>6. counted(r) = [guard EXCEPT !.pending = pending, !.key = key, !.used = used]
  BY <1>5
<1>7. /\ counted(r) \in Ledger /\ counted(r).pending = pending
      /\ counted(r).unresolved = guard.unresolved /\ counted(r).replans = guard.replans
      /\ counted(r).key = key /\ counted(r).used = used
  <2> DEFINE h == [guard EXCEPT !.pending = pending, !.key = key, !.used = used]
  <2>1. /\ h \in Ledger /\ h.pending = pending /\ h.unresolved = guard.unresolved
        /\ h.key = key /\ h.used = used /\ h.replans = guard.replans
    BY DEF Ledger
  <2> HIDE DEF counted, h
  <2>2. counted(r) = h
    BY <1>6 DEF h
  <2> QED
    BY <2>1, <2>2
<1> HIDE DEF counted
<1> QED
  BY <1>1, <1>2, <1>5, <1>7

LEMMA NewRunType == NewRun \in RunState
  BY DEF NewRun, RunState, Stage

LEMMA RunStateUpdates ==
  ASSUME NEW m \in RunState, NEW stage \in Stage
  PROVE  /\ m.stage \in Stage /\ m.retries \in Nat
         /\ [m EXCEPT !.stage = stage] \in RunState
         /\ [stage |-> stage, retries |-> m.retries + 1] \in RunState
  BY DEF RunState, Stage
-----------------------------------------------------------------------------
(* owner.lock: a process is past Run::open exactly while it is the owner.   *)
Exclusive ==
  /\ pc \in [Procs -> Starting \cup Owning]
  /\ \A p \in Procs : pc[p] \in Owning <=> owner = p

(* Only one process at a time works on a run, and only under its lock.      *)
LEMMA OwnerExclusive == Spec => []Exclusive
<1> USE DEF Exclusive, Starting, Owning
<1>1. Init => Exclusive
  BY NobodyAssumption DEF Init
<1>2. Exclusive /\ [Next]_vars => Exclusive'
  <2> SUFFICES ASSUME Exclusive, [Next]_vars PROVE Exclusive'
    OBVIOUS
  <2> USE NobodyAssumption DEF Goto
  <2>1. ASSUME NEW p \in Procs, Load(p) \/ Persist(p) \/ OpenRefused(p) \/ CorrectionRefused(p)
        PROVE Exclusive'
    BY <2>1 DEF Load, Persist, OpenRefused, CorrectionRefused
  <2>2. ASSUME NEW p \in Procs, Open(p) \/ AcceptChanges(p) PROVE Exclusive'
    BY <2>2 DEF Open, AcceptChanges
  <2>3. ASSUME NEW p \in Procs, Corrected(p) \/ Exit(p) PROVE Exclusive'
    BY <2>3 DEF Corrected, Exit, Release
  <2>4. ASSUME NEW p \in Procs, Crash(p) PROVE Exclusive'
    BY <2>4 DEF Crash, Release
  <2>5. ASSUME NEW p \in Procs,
               BeforeRequest(p) \/ Dispatch(p) \/ Answered(p) \/ DispatchFails(p)
        PROVE Exclusive'
    BY <2>5 DEF BeforeRequest, Working, Dispatch, Answered, DispatchFails
  <2>6. ASSUME NEW p \in Procs,
               \/ Cancel(p) \/ CancelUnconfirmed(p) \/ Cancelled(p) \/ Interrupt(p)
               \/ DropServer(p) \/ BeforeReplan(p) \/ PolicyStop(p)
        PROVE Exclusive'
    BY <2>6 DEF Cancel, CancelUnconfirmed, Cancelled, Interrupt, DropServer, BeforeReplan,
                PolicyStop, Working
  <2>7. ASSUME NEW p \in Procs,
               \/ Unfinished(p) \/ WorkDone(p) \/ Retry(p) \/ RepairRefused(p)
               \/ Verified(p) \/ Completed(p)
        PROVE Exclusive'
    BY <2>7 DEF Unfinished, WorkDone, Retry, RepairRefused, Verified, Completed
  <2>8. CASE BackendEnds \/ UNCHANGED vars
    BY <2>8 DEF BackendEnds, vars
  <2> QED
    BY NextCases, <2>1, <2>2, <2>3, <2>4, <2>5, <2>6, <2>7, <2>8
<1> QED
  BY <1>1, <1>2, PTL DEF Spec
-----------------------------------------------------------------------------
(* The requests in the hands of a process are real ones.                    *)
Asked ==
  \A p \in Procs : pc[p] \in {"counted", "waiting", "cancelling", "interrupted"}
                     => attempt \in Requests

TypeInv == TypeOK /\ Asked

LEMMA TypeInvStep ==
  ASSUME TypeInv, Exclusive, [Next]_vars
  PROVE  TypeInv'
<1>a. /\ guard \in Ledger /\ ledger \in Ledger /\ failure \in BOOLEAN
      /\ \A p \in Procs : state[p] \in RunState
  BY DEF TypeInv, TypeOK
<1> USE NobodyAssumption
    DEF TypeInv, TypeOK, Asked, Exclusive, Goto, Save, Starting, Owning, history
<1>1. ASSUME NEW p \in Procs, Load(p) PROVE TypeInv'
  BY <1>1 DEF Load
<1>2. ASSUME NEW p \in Procs, Persist(p) PROVE TypeInv'
  <2>1. checkpoint' \in RunState /\ clobbered' \in BOOLEAN
    BY <1>2, <1>a DEF Persist
  <2> QED
    BY <1>2, <2>1 DEF Persist
<1>3. ASSUME NEW p \in Procs, OpenRefused(p) PROVE TypeInv'
  BY <1>3, NewRunType DEF OpenRefused
<1>4. ASSUME NEW p \in Procs, Open(p) PROVE TypeInv'
  BY <1>4, <1>a, ReopenedType DEF Open
<1>5. ASSUME NEW p \in Procs, CorrectionRefused(p) PROVE TypeInv'
  BY <1>5, <1>a, ReopenedType, NewRunType DEF CorrectionRefused
<1>6. ASSUME NEW p \in Procs, AcceptChanges(p) PROVE TypeInv'
  <2>1. 0 \in 0..MaxRequests /\ 0 \in 0..MaxReplans
    BY LimitsAssumption
  <2>2. [ledger EXCEPT !.key = "none", !.used = 0, !.replans = 0] \in Ledger
    BY <1>a, <2>1, AllowanceUpdate
  <2> QED
    BY <1>6, <2>2 DEF AcceptChanges
<1>7. ASSUME NEW p \in Procs, Corrected(p) PROVE TypeInv'
  BY <1>7, NewRunType DEF Corrected, Release
<1>8. ASSUME NEW p \in Procs, BeforeRequest(p) PROVE TypeInv'
  BY <1>8, <1>a, BeforeRequestEffect DEF BeforeRequest
<1>9. ASSUME NEW p \in Procs, Dispatch(p) PROVE TypeInv'
  BY <1>9, LimitsAssumption DEF Dispatch, Counted
<1>10. ASSUME NEW p \in Procs, Answered(p) PROVE TypeInv'
  BY <1>10, <1>a, RecordUsageEffect DEF Answered
<1>11. ASSUME NEW p \in Procs, DispatchFails(p) PROVE TypeInv'
  BY <1>11, <1>a, RecordUsageEffect DEF DispatchFails
<1>12. ASSUME NEW p \in Procs, Cancel(p) \/ Cancelled(p) PROVE TypeInv'
  BY <1>12, <1>a, RecordUsageEffect DEF Cancel, Cancelled
<1>13. ASSUME NEW p \in Procs, CancelUnconfirmed(p) PROVE TypeInv'
  <2>1. guard' \in Ledger /\ ledger' \in Ledger /\ failure' \in BOOLEAN
    BY <1>13, <1>a, CancelUnconfirmedEffect
  <2> QED
    BY <1>13, <2>1 DEF CancelUnconfirmed
<1>20. ASSUME NEW p \in Procs, Interrupt(p) PROVE TypeInv'
  BY <1>20, <1>a, RecordUsageEffect DEF Interrupt
<1>14. ASSUME NEW p \in Procs, DropServer(p) PROVE TypeInv'
  BY <1>14 DEF DropServer
<1>15. ASSUME NEW p \in Procs, BeforeReplan(p) PROVE TypeInv'
  <2>1. guard.replans + 1 \in 0..MaxReplans
    BY <1>15, <1>a, LedgerFields, LimitsAssumption DEF BeforeReplan
  <2>2. guard' \in Ledger /\ ledger' \in Ledger
    BY <1>15, <1>a, <2>1, ReplansUpdate DEF BeforeReplan
  <2> QED
    BY <1>15, <2>2, LimitsAssumption DEF BeforeReplan, Counted
<1>16. ASSUME NEW p \in Procs, PolicyStop(p) PROVE TypeInv'
  BY <1>16 DEF PolicyStop, Working
<1>17. ASSUME NEW p \in Procs, Unfinished(p) \/ RepairRefused(p) PROVE TypeInv'
  BY <1>17 DEF Unfinished, RepairRefused
<1>18. ASSUME NEW p \in Procs, WorkDone(p) \/ Completed(p) PROVE TypeInv'
  <2>1. /\ [state[p] EXCEPT !.stage = "Verify"] \in RunState
        /\ [state[p] EXCEPT !.stage = "Complete"] \in RunState
    BY <1>a, RunStateUpdates DEF Stage
  <2>2. PICK m \in RunState : Advance(p, m)
    BY <1>18, <2>1 DEF WorkDone, Completed
  <2> QED
    BY <1>18, <2>2 DEF WorkDone, Completed, Advance
<1>19. ASSUME NEW p \in Procs, Retry(p) PROVE TypeInv'
  <2>1. [stage |-> "Repair", retries |-> state[p].retries + 1] \in RunState
    BY <1>a, RunStateUpdates DEF Stage
  <2>2. PICK m \in RunState : Advance(p, m)
    BY <1>19, <2>1 DEF Retry
  <2>3. granted' \in Nat
    BY <1>19, LimitsAssumption DEF Retry, Counted
  <2> QED
    BY <1>19, <2>2, <2>3 DEF Retry, Advance
<1>21. ASSUME NEW p \in Procs, Verified(p) PROVE TypeInv'
  <2>1. guard' \in Ledger /\ ledger' \in Ledger
    BY <1>21, <1>a, LimitsAssumption, ReplansUpdate DEF Verified
  <2> QED
    BY <1>21, <2>1 DEF Verified
<1>23. ASSUME NEW p \in Procs, Exit(p) PROVE TypeInv'
  BY <1>23, NewRunType DEF Exit, Release
<1>24. ASSUME NEW p \in Procs, Crash(p) PROVE TypeInv'
  BY <1>24, NewRunType, ZenonT(30) DEF Crash, Release
<1>25. CASE BackendEnds \/ UNCHANGED vars
  BY <1>25 DEF BackendEnds, vars
<1> QED
  BY NextCases, <1>1, <1>2, <1>3, <1>4, <1>5, <1>6, <1>7, <1>8, <1>9, <1>10, <1>11,
     <1>12, <1>13, <1>14, <1>15, <1>16, <1>17, <1>18, <1>19, <1>20, <1>21,
     <1>23, <1>24, <1>25

LEMMA TypeInvHolds == Spec => []TypeInv
<1>1. Init => TypeInv
  <2> SUFFICES ASSUME Init PROVE TypeInv
    OBVIOUS
  <2>1. ledger \in Ledger
    BY LimitsAssumption DEF Init, Ledger
  <2> QED
    BY <2>1, NewRunType DEF Init, TypeInv, TypeOK, Asked, Starting
<1>2. TypeInv /\ Exclusive /\ [Next]_vars => TypeInv'
  BY TypeInvStep
<1> QED
  BY <1>1, <1>2, OwnerExclusive, PTL DEF Spec

(* The type invariant: the counters of the ledger never pass their limits,  *)
(* whatever is refused, saved or lost (before_request, before_replan).      *)
THEOREM TypeCorrect == Spec => []TypeOK
<1>1. TypeInv => TypeOK
  BY DEF TypeInv
<1> QED
  BY <1>1, TypeInvHolds, PTL
-----------------------------------------------------------------------------
(* Why no request overlaps with another one, once every failed interrupt is *)
(* recorded: what may be at work is known as unresolved, except for the one *)
(* request that the owner itself waits for, which is pending in memory and  *)
(* on disk.  A request is counted only while nothing is unresolved.         *)
WorkKnown ==
  /\ RunningIsOnRecord
  /\ \A p \in Procs :
       /\ pc[p] \in Owning \ {"waiting"} => backend \subseteq guard.unresolved
       /\ pc[p] = "counted" => guard.unresolved = {}
       /\ pc[p] = "waiting" => backend \subseteq {attempt}
       /\ pc[p] \in {"counted", "waiting"} =>
            attempt \in guard.pending /\ attempt \in ledger.pending

LEMMA WorkKnownStep ==
  ASSUME ~IgnoredInterrupts, TypeInv, Exclusive, WorkKnown, [Next]_vars
  PROVE  WorkKnown'
<1>a. /\ guard \in Ledger /\ ledger \in Ledger /\ failure \in BOOLEAN
      /\ \A p \in Procs : state[p] \in RunState
      /\ backend \subseteq Requests
  BY DEF TypeInv, TypeOK
<1> USE NobodyAssumption
    DEF WorkKnown, RunningIsOnRecord, Exclusive, Goto, Save, Starting, Owning, history
<1>1. ASSUME NEW p \in Procs, Load(p) PROVE WorkKnown'
  BY <1>1 DEF Load
<1>2. ASSUME NEW p \in Procs, Persist(p) PROVE WorkKnown'
  BY <1>2 DEF Persist
<1>3. ASSUME NEW p \in Procs, OpenRefused(p) PROVE WorkKnown'
  BY <1>3 DEF OpenRefused
<1>4. ASSUME NEW p \in Procs, Open(p) PROVE WorkKnown'
  <2>1. PICK acks \in SUBSET (Reopened({}).unresolved \ backend) : Save(Reopened(acks))
    BY <1>4 DEF Open
  <2>2. backend \subseteq guard'.unresolved /\ guard' = ledger'
    BY <1>a, <2>1, ReopenedType
  <2> QED
    BY <1>4, <2>2 DEF Open
<1>5. ASSUME NEW p \in Procs, CorrectionRefused(p) PROVE WorkKnown'
  <2>1. backend \subseteq ledger'.unresolved
    BY <1>5, <1>a, ReopenedType DEF CorrectionRefused
  <2> QED
    BY <1>5, <2>1 DEF CorrectionRefused
<1>6. ASSUME NEW p \in Procs, AcceptChanges(p) PROVE WorkKnown'
  <2>1. backend = {}
    BY <1>6, <1>a, ReopenedType DEF AcceptChanges
  <2> QED
    BY <1>6, <2>1 DEF AcceptChanges
<1>7. ASSUME NEW p \in Procs, Corrected(p) PROVE WorkKnown'
  BY <1>7 DEF Corrected, Release
<1>8. ASSUME NEW p \in Procs, BeforeRequest(p) PROVE WorkKnown'
  <2>1. guard.unresolved = {} /\ backend = {}
    BY <1>8 DEF BeforeRequest, Clear, Working
  <2> QED
    BY <1>8, <1>a, <2>1, BeforeRequestEffect DEF BeforeRequest
<1>9. ASSUME NEW p \in Procs, Dispatch(p) PROVE WorkKnown'
  BY <1>9 DEF Dispatch
<1>10. ASSUME NEW p \in Procs, Answered(p) PROVE WorkKnown'
  <2>1. backend = {}
    BY <1>10 DEF Answered
  <2> QED
    BY <1>10, <2>1 DEF Answered
<1>11. ASSUME NEW p \in Procs, DispatchFails(p) PROVE WorkKnown'
  BY <1>11 DEF DispatchFails
<1>12. ASSUME NEW p \in Procs, Cancel(p) PROVE WorkKnown'
  <2>1. backend' = {}
    BY <1>12 DEF Cancel
  <2> QED
    BY <1>12, <2>1 DEF Cancel
<1>13. ASSUME NEW p \in Procs, CancelUnconfirmed(p) PROVE WorkKnown'
  <2>1. backend \subseteq guard'.unresolved /\ ledger' \in {guard', ledger}
    BY <1>13, <1>a, CancelUnconfirmedEffect DEF CancelUnconfirmed
  <2> QED
    BY <1>13, <2>1 DEF CancelUnconfirmed
<1>24. ASSUME NEW p \in Procs, Cancelled(p) PROVE WorkKnown'
  <2>1. guard'.unresolved = guard.unresolved /\ ledger' \in {guard', ledger}
    BY <1>24, <1>a, RecordUsageEffect DEF Cancelled
  <2> QED
    BY <1>24, <2>1 DEF Cancelled
<1>25. ASSUME NEW p \in Procs, Interrupt(p) PROVE WorkKnown'
  <2>1. backend' = {}
    BY <1>25 DEF Interrupt
  <2> QED
    BY <1>25, <2>1 DEF Interrupt
<1>14. ASSUME NEW p \in Procs, DropServer(p) PROVE WorkKnown'
  BY <1>14 DEF DropServer
<1>15. ASSUME NEW p \in Procs, BeforeReplan(p) PROVE WorkKnown'
  <2>1. backend = {}
    BY <1>15 DEF BeforeReplan, Clear
  <2> QED
    BY <1>15, <2>1 DEF BeforeReplan
<1>16. ASSUME NEW p \in Procs, PolicyStop(p) PROVE WorkKnown'
  BY <1>16 DEF PolicyStop, Working
<1>17. ASSUME NEW p \in Procs, Unfinished(p) \/ RepairRefused(p) PROVE WorkKnown'
  BY <1>17 DEF Unfinished, RepairRefused
<1>18. ASSUME NEW p \in Procs, WorkDone(p) \/ Completed(p) \/ Retry(p) PROVE WorkKnown'
  BY <1>18 DEF WorkDone, Completed, Retry, Advance
<1>19. ASSUME NEW p \in Procs, Verified(p) PROVE WorkKnown'
  <2>1. guard'.unresolved = guard.unresolved /\ ledger' = guard'
    BY <1>19, <1>a, LimitsAssumption, ReplansUpdate DEF Verified
  <2> QED
    BY <1>19, <2>1 DEF Verified
<1>20. ASSUME NEW p \in Procs, Exit(p) PROVE WorkKnown'
  BY <1>20 DEF Exit, Release
<1>21. ASSUME NEW p \in Procs, Crash(p) PROVE WorkKnown'
  BY <1>21 DEF Crash, Release
<1>22. CASE BackendEnds
  BY <1>22 DEF BackendEnds
<1>23. CASE UNCHANGED vars
  BY <1>23 DEF vars
<1> QED
  BY NextCases, <1>1, <1>2, <1>3, <1>4, <1>5, <1>6, <1>7, <1>8, <1>9, <1>10, <1>11,
     <1>12, <1>13, <1>14, <1>15, <1>16, <1>17, <1>18, <1>19, <1>20, <1>21, <1>22, <1>23,
     <1>24, <1>25

LEMMA WorkKnownHolds ==
  ASSUME ~IgnoredInterrupts
  PROVE  Spec => []WorkKnown
<1>1. Init => WorkKnown
  BY DEF Init, WorkKnown, RunningIsOnRecord, Owning
<1>2. WorkKnown /\ TypeInv /\ Exclusive /\ [Next]_vars => WorkKnown'
  BY WorkKnownStep
<1> QED
  BY <1>1, <1>2, TypeInvHolds, OwnerExclusive, PTL DEF Spec

(* No session is at work unrecorded (before_request saves before the        *)
(* dispatch, cancellation_unconfirmed before record_usage), as long as no   *)
(* stage timeout discards a failed interrupt.                               *)
THEOREM Recorded ==
  ASSUME ~IgnoredInterrupts
  PROVE  Spec => []RunningIsOnRecord
<1>1. WorkKnown => RunningIsOnRecord
  BY DEF WorkKnown
<1> QED
  BY <1>1, WorkKnownHolds, PTL

(* When a request goes out nothing else is at work, over all processes,     *)
(* crashes and resumes (check, Run::open).                                  *)
THEOREM OneAtATime ==
  ASSUME ~IgnoredInterrupts
  PROVE  Spec => []NoOverlap
<1>1. WorkKnown => NoOverlap
  BY DEF WorkKnown, NoOverlap, Owning
<1> QED
  BY <1>1, WorkKnownHolds, PTL
-----------------------------------------------------------------------------
(* Why no crash or resume gives an allowance back: memory and disk agree on *)
(* what is counted, and every counted thing is on disk before it happens.   *)
Allowed == IF ledger.key = checkpoint.stage THEN ledger.used ELSE 0

Accounted ==
  /\ guard.key = ledger.key /\ guard.used = ledger.used /\ guard.replans = ledger.replans
  /\ rollbacks <= ledger.replans
  /\ \A p \in Procs : pc[p] = "corrected" => spent = 0
  /\ ~clobbered =>
       /\ granted <= checkpoint.retries /\ granted <= MaxRetries
       /\ spent <= Allowed
       /\ \A p \in Procs :
            /\ pc[p] \in Owning \ {"corrected"} => state[p] = checkpoint
            /\ pc[p] = "counted" => spent < Allowed

LEMMA AccountedStep ==
  ASSUME TypeInv, Exclusive, Accounted, [Next]_vars
  PROVE  Accounted'
<1>a. /\ guard \in Ledger /\ ledger \in Ledger /\ failure \in BOOLEAN
      /\ \A p \in Procs : state[p] \in RunState
      /\ state \in [Procs -> RunState] /\ checkpoint \in RunState
      /\ spent \in Nat /\ granted \in Nat /\ rollbacks \in Nat
      /\ ledger.used \in 0..MaxRequests /\ ledger.replans \in 0..MaxReplans
      /\ MaxRequests \in Nat /\ MaxReplans \in Nat /\ MaxRetries \in Nat
  BY LedgerFields, LimitsAssumption DEF TypeInv, TypeOK
<1>b. checkpoint.retries \in Nat /\ Allowed \in 0..MaxRequests
  BY <1>a DEF RunState, Allowed
<1>c. NewRun \in RunState /\ NewRun.retries = 0
  BY NewRunType DEF NewRun
<1> USE NobodyAssumption DEF Accounted, Exclusive, Goto, Save, Starting, Owning, history
<1>1. ASSUME NEW p \in Procs, Load(p) PROVE Accounted'
  BY <1>1, <1>a DEF Load, Allowed
<1>2. ASSUME NEW p \in Procs, Persist(p) PROVE Accounted'
  BY <1>2, <1>a DEF Persist, Allowed
<1>3. ASSUME NEW p \in Procs, OpenRefused(p) PROVE Accounted'
  BY <1>3, <1>a DEF OpenRefused, Allowed
<1>4. ASSUME NEW p \in Procs, Open(p) PROVE Accounted'
  <2>1. /\ guard' = ledger' /\ ledger'.key = ledger.key /\ ledger'.used = ledger.used
        /\ ledger'.replans = ledger.replans
    BY <1>4, <1>a, ReopenedType DEF Open
  <2> QED
    BY <1>4, <1>a, <2>1 DEF Open, Allowed
<1>5. ASSUME NEW p \in Procs, CorrectionRefused(p) PROVE Accounted'
  <2>1. /\ guard' = ledger' /\ ledger'.key = ledger.key /\ ledger'.used = ledger.used
        /\ ledger'.replans = ledger.replans
    BY <1>5, <1>a, ReopenedType DEF CorrectionRefused
  <2> QED
    BY <1>5, <1>a, <2>1 DEF CorrectionRefused, Allowed
<1>6. ASSUME NEW p \in Procs, AcceptChanges(p) PROVE Accounted'
  <2>1. 0 \in 0..MaxRequests /\ 0 \in 0..MaxReplans
    BY LimitsAssumption
  <2> DEFINE cleared == [ledger EXCEPT !.key = "none", !.used = 0, !.replans = 0]
  <2>2. cleared.replans = 0 /\ cleared.used = 0
    <3>1. PICK key \in Stage \cup {"none"}, used \in 0..MaxRequests, replans \in 0..MaxReplans :
             key = "none" /\ used = 0 /\ replans = 0
      BY <2>1
    <3> DEFINE h == [ledger EXCEPT !.key = key, !.used = used, !.replans = replans]
    <3>2. h.replans = replans /\ h.used = used
      BY <1>a DEF Ledger
    <3>3. cleared = h
      BY <3>1
    <3> HIDE DEF cleared, h
    <3> QED
      BY <3>1, <3>2, <3>3
  <2>3. guard' = cleared /\ ledger' = cleared
    BY <1>6 DEF AcceptChanges
  <2> HIDE DEF cleared
  <2> QED
    BY <1>6, <1>a, <2>2, <2>3 DEF AcceptChanges, Allowed
<1>7. ASSUME NEW p \in Procs, Corrected(p) PROVE Accounted'
  BY <1>7, <1>a, <1>c DEF Corrected, Release, Allowed
<1>8. ASSUME NEW p \in Procs, BeforeRequest(p) PROVE Accounted'
  <2>1. /\ ledger' = guard' /\ guard'.replans = guard.replans
        /\ guard'.key = state[p].stage /\ guard'.used = Used(p) + 1
    BY <1>8, <1>a, BeforeRequestEffect
  <2>2. ~clobbered => Used(p) = Allowed
    BY <1>8 DEF BeforeRequest, Working, Used, Allowed
  <2>3. ~clobbered => Allowed' = Allowed + 1
    BY <1>8, <2>1, <2>2 DEF BeforeRequest, Working, Allowed
  <2> QED
    BY <1>8, <1>a, <1>b, <2>1, <2>3 DEF BeforeRequest, Working
<1>9. ASSUME NEW p \in Procs, Dispatch(p) PROVE Accounted'
  <2>1. ~clobbered => spent' <= Allowed'
    BY <1>9, <1>a, <1>b DEF Dispatch, Counted, Allowed
  <2> QED
    BY <1>9, <1>a, <2>1 DEF Dispatch
<1>10. ASSUME NEW p \in Procs,
              \/ Answered(p) \/ DispatchFails(p) \/ Cancel(p) \/ Cancelled(p)
              \/ Interrupt(p) \/ CancelUnconfirmed(p)
       PROVE Accounted'
  <2>1. /\ guard'.key = guard.key /\ guard'.used = guard.used
        /\ guard'.replans = guard.replans /\ ledger' \in {guard', ledger}
    <3>1. CASE RecordUsage
      BY <1>a, <3>1, RecordUsageEffect
    <3>2. CASE CancelUnconfirmed(p)
      BY <1>a, <3>2, CancelUnconfirmedEffect
    <3> QED
      BY <1>10, <3>1, <3>2 DEF Answered, DispatchFails, Cancel, Cancelled, Interrupt
  <2>2. /\ guard'.key = ledger'.key /\ ledger'.key = ledger.key
        /\ guard'.used = ledger'.used /\ ledger'.used = ledger.used
        /\ guard'.replans = ledger'.replans /\ ledger'.replans = ledger.replans
    BY <2>1
  <2> QED
    BY <1>10, <1>a, <2>2
    DEF Answered, DispatchFails, Cancel, Cancelled, Interrupt, CancelUnconfirmed, Allowed
<1>14. ASSUME NEW p \in Procs, DropServer(p) PROVE Accounted'
  BY <1>14, <1>a DEF DropServer, Allowed
<1>15. ASSUME NEW p \in Procs, BeforeReplan(p) PROVE Accounted'
  <2>1. guard.replans + 1 \in 0..MaxReplans
    BY <1>15, <1>a DEF BeforeReplan
  <2>2. /\ ledger' = guard' /\ guard'.replans = guard.replans + 1
        /\ guard'.key = guard.key /\ guard'.used = guard.used
    BY <1>15, <1>a, <2>1, ReplansUpdate DEF BeforeReplan
  <2> QED
    BY <1>15, <1>a, <2>2 DEF BeforeReplan, Counted, Allowed
<1>16. ASSUME NEW p \in Procs, PolicyStop(p) PROVE Accounted'
  BY <1>16, <1>a DEF PolicyStop, Working, Allowed
<1>17. ASSUME NEW p \in Procs, Unfinished(p) \/ RepairRefused(p) PROVE Accounted'
  BY <1>17, <1>a DEF Unfinished, RepairRefused, Allowed
<1>18. ASSUME NEW p \in Procs, WorkDone(p) \/ Completed(p) PROVE Accounted'
  <2>1. PICK m \in RunState : Advance(p, m) /\ m.retries = state[p].retries
    BY <1>18, <1>a DEF WorkDone, Completed, RunState, Stage
  <2>2. spent' = 0 /\ Allowed' \in Nat
    BY <1>18, <1>a, <2>1 DEF WorkDone, Completed, Advance, Allowed
  <2> QED
    BY <1>18, <1>a, <2>1, <2>2 DEF WorkDone, Completed, Advance
<1>19. ASSUME NEW p \in Procs, Retry(p) PROVE Accounted'
  <2>1. PICK m \in RunState : Advance(p, m) /\ m.retries = state[p].retries + 1
    BY <1>19, <1>a DEF Retry, RunState, Stage
  <2>2. spent' = 0 /\ Allowed' \in Nat
    BY <1>19, <1>a, <2>1 DEF Retry, Advance, Allowed
  <2>3. granted' <= granted + 1 /\ granted' \in Nat
    BY <1>19, <1>a DEF Retry, Counted
  <2>4. ~clobbered => granted' <= MaxRetries
    BY <1>19, <1>a, <1>b DEF Retry, Counted, Exhausted
  <2> QED
    BY <1>19, <1>a, <1>b, <2>1, <2>2, <2>3, <2>4 DEF Retry, Advance
<1>20. ASSUME NEW p \in Procs, Verified(p) PROVE Accounted'
  <2>1. /\ ledger' = guard' /\ guard'.replans = 0
        /\ guard'.key = guard.key /\ guard'.used = guard.used
    <3>1. 0 \in 0..MaxReplans
      BY LimitsAssumption
    <3> QED
      BY <1>20, <1>a, <3>1, ReplansUpdate DEF Verified
  <2> QED
    BY <1>20, <1>a, <2>1 DEF Verified, Allowed
<1>21. ASSUME NEW p \in Procs, Exit(p) PROVE Accounted'
  BY <1>21, <1>a DEF Exit, Release, Allowed
<1>22. ASSUME NEW p \in Procs, Crash(p) PROVE Accounted'
  BY <1>22, <1>a DEF Crash, Release, Allowed
<1>23. CASE BackendEnds \/ UNCHANGED vars
  BY <1>23, <1>a DEF BackendEnds, vars, Allowed
<1> QED
  BY NextCases, <1>1, <1>2, <1>3, <1>4, <1>5, <1>6, <1>7, <1>8, <1>9, <1>10,
     <1>14, <1>15, <1>16, <1>17, <1>18, <1>19, <1>20, <1>21, <1>22, <1>23

LEMMA AccountedHolds == Spec => []Accounted
<1>1. Init => Accounted
  BY LimitsAssumption DEF Init, Accounted, Owning, Allowed, NewRun
<1>2. Accounted /\ TypeInv /\ Exclusive /\ [Next]_vars => Accounted'
  BY AccountedStep
<1> QED
  BY <1>1, <1>2, TypeInvHolds, OwnerExclusive, PTL DEF Spec

(* Requests for a stage stay within max_requests_per_stage until its next   *)
(* durable result, unless a concurrent resume has put back a checkpoint.    *)
THEOREM RequestsBounded == Spec => []VisitAllowance
<1>1. TypeInv /\ Accounted => VisitAllowance
  <2> SUFFICES ASSUME TypeInv, Accounted, ~clobbered PROVE spent <= MaxRequests
    BY DEF VisitAllowance
  <2>1. ledger \in Ledger /\ spent \in Nat
    BY DEF TypeInv, TypeOK
  <2>2. ledger.used \in 0..MaxRequests
    BY <2>1, LedgerFields
  <2> QED
    BY <2>1, <2>2, LimitsAssumption DEF Accounted, Allowed
<1> QED
  BY <1>1, TypeInvHolds, AccountedHolds, PTL

(* Rollbacks stay within their limit between two verified milestones.       *)
THEOREM RollbacksBounded == Spec => []ReplansBounded
<1>1. TypeInv /\ Accounted => ReplansBounded
  <2> SUFFICES ASSUME TypeInv, Accounted PROVE rollbacks <= MaxReplans
    BY DEF ReplansBounded
  <2>1. ledger \in Ledger /\ rollbacks \in Nat
    BY DEF TypeInv, TypeOK
  <2>2. ledger.replans \in 0..MaxReplans
    BY <2>1, LedgerFields
  <2> QED
    BY <2>1, <2>2, LimitsAssumption DEF Accounted
<1> QED
  BY <1>1, TypeInvHolds, AccountedHolds, PTL

(* Repairs stay within --max-verify-retries over all crashes and resumes,   *)
(* unless a concurrent resume has put back a checkpoint.                    *)
THEOREM RepairsWithinAllowance == Spec => []RepairAllowance
<1>1. TypeInv /\ Accounted => RepairAllowance
  <2> SUFFICES ASSUME TypeInv, Accounted, ~clobbered PROVE granted <= MaxRetries
    BY DEF RepairAllowance
  <2>1. checkpoint.retries \in Nat /\ granted \in Nat
    BY DEF TypeInv, TypeOK, RunState
  <2> QED
    BY <2>1, LimitsAssumption DEF Accounted
<1> QED
  BY <1>1, TypeInvHolds, AccountedHolds, PTL

(* All three together, as the run of the policy checks them.                 *)
THEOREM PolicyAllowances == Spec => []AllowancesHold
<1>1. VisitAllowance /\ ReplansBounded /\ RepairAllowance => AllowancesHold
  BY DEF AllowancesHold
<1> QED
  BY <1>1, RequestsBounded, RollbacksBounded, RepairsWithinAllowance, PTL
-----------------------------------------------------------------------------
(* The assignments of a supplied agenda                                     *)

AuditedAgenda ==
  /\ turn \in {"archive", "next", "done"} => Checks(plan, agenda, shown)
  /\ turn = "done" => agenda \subseteq finished

(* The steps of an assignment, by name.                                     *)
LEMMA AssignmentsCases ==
  ASSUME [AssignmentsNext]_assignments
  PROVE  \/ Assign \/ BeginSlice \/ MaintainerRepairs \/ Session \/ Verify \/ ArchiveSlice
         \/ Escalates \/ SubdivisionAccepted
         \/ ReviewStarts \/ ReviewReady \/ RemediationAccepted \/ ReviewRejected
         \/ ReviewCutShort \/ UNCHANGED assignments
  BY DEF AssignmentsNext

(* A record that sessions write lists slices, and a rewritten agenda is a set *)
(* of files.                                                                *)
LEMMA WrittenFiles ==
  ASSUME NEW p \in Plans
  PROVE  p \in AssignmentRecord /\ p.slices \subseteq Deliveries /\ p.slices \cup {Final} \in SliceFiles
<1>1. p \in AssignmentRecord
  BY AssignmentsAssumption
<1>2. p.slices \subseteq Deliveries
  <2> DEFINE Requires == UNION {[S -> SUBSET Deliveries] : S \in SUBSET Deliveries}
             Accountable == UNION {[O -> Deliveries] : O \in SUBSET Obligations}
             Contributors == UNION {[O -> SUBSET Deliveries] : O \in SUBSET Obligations}
             Routes == UNION {[A -> SUBSET (Deliveries \cup {Final})] : A \in SUBSET Acceptances}
  <2>1. p \in [slices : SUBSET Deliveries, requires : Requires, accountable : Accountable,
               contributors : Contributors, routes : Routes]
    BY <1>1 DEF AssignmentRecord
  <2> HIDE DEF Requires, Accountable, Contributors, Routes
  <2> QED
    BY <2>1
<1> QED
  BY <1>1, <1>2 DEF SliceFiles

(* The first agenda has its types.                                          *)
LEMMA TypeInitially == AssignmentsInit => AssignmentsTypeOK
<1> SUFFICES ASSUME AssignmentsInit PROVE AssignmentsTypeOK
  OBVIOUS
<1>1. plan \in Plans /\ agenda = plan.slices \cup {Final} /\ shown = TRUE
  BY DEF AssignmentsInit
<1>2. agenda \in SliceFiles
  BY <1>1, WrittenFiles
<1>3. held \in Held
  BY <1>1, <1>2 DEF AssignmentsInit, Held
<1> QED
  BY <1>1, <1>2, <1>3 DEF AssignmentsInit, AssignmentsTypeOK, SliceFiles

(* Whatever sessions edit keeps its type.                                   *)
LEMMA EditedTypes ==
  ASSUME AssignmentsTypeOK, Edited
  PROVE  plan' \in Plans /\ agenda' \in SliceFiles /\ shown' \in BOOLEAN
  BY WrittenFiles DEF Edited, AssignmentsTypeOK

(* Every step keeps the types.                                              *)
LEMMA TypeStep ==
  ASSUME AssignmentsTypeOK, [AssignmentsNext]_assignments
  PROVE  AssignmentsTypeOK'
<1> USE DEF AssignmentsTypeOK, Goes, agendaOf
<1>1. CASE Assign
  <2>1. CASE \E s \in agenda : IsNext(s, agenda)
    BY <1>1, <2>1 DEF Assign, Hold, Held, SliceFiles
  <2>2. CASE ~ \E s \in agenda : IsNext(s, agenda)
    BY <1>1, <2>2 DEF Assign
  <2> QED
    BY <2>1, <2>2
<1>2. CASE BeginSlice
  BY <1>2 DEF BeginSlice
<1>3. CASE MaintainerRepairs
  BY <1>3, EditedTypes DEF MaintainerRepairs
<1>4. CASE Session
  BY <1>4, EditedTypes DEF Session
<1>5. CASE Verify
  BY <1>5 DEF Verify
<1>6. CASE ArchiveSlice
  BY <1>6 DEF ArchiveSlice, SliceFiles
<1>7. CASE Escalates
  BY <1>7 DEF Escalates, Restores, Held
<1>8. CASE SubdivisionAccepted
  BY <1>8, EditedTypes DEF SubdivisionAccepted, Hold, Held
<1>9. CASE ReviewStarts
  BY <1>9 DEF ReviewStarts
<1>10. CASE ReviewReady
  BY <1>10 DEF ReviewReady
<1>11. CASE RemediationAccepted
  <2>1. agenda' \in SliceFiles /\ plan' \in Plans /\ shown' \in BOOLEAN
    BY <1>11, EditedTypes DEF RemediationAccepted
  <2>2. assigned' \in Deliveries
    BY <1>11, <2>1 DEF RemediationAccepted, SliceFiles
  <2> QED
    BY <1>11, <2>1, <2>2 DEF RemediationAccepted, Hold, Held
<1>12. CASE ReviewRejected
  BY <1>12 DEF ReviewRejected, Restores, Held
<1>13. CASE ReviewCutShort
  BY <1>13, EditedTypes DEF ReviewCutShort
<1>14. CASE UNCHANGED assignments
  BY <1>14 DEF assignments
<1> QED
  BY AssignmentsCases, <1>1, <1>2, <1>3, <1>4, <1>5, <1>6, <1>7, <1>8, <1>9, <1>10, <1>11,
     <1>12, <1>13, <1>14

(* The variables of the assignment keep their types.                         *)
THEOREM AssignmentTypes == AssignmentsSpec => []AssignmentsTypeOK
  BY TypeInitially, TypeStep, PTL DEF AssignmentsSpec

(* The first agenda was checked.                                            *)
LEMMA AuditedInitially == AssignmentsInit => AuditedAgenda
  BY DEF AssignmentsInit, AuditedAgenda

(* An agenda is checked before Verify, and nothing edits it until the next    *)
(* slice is assigned.                                                       *)
LEMMA AuditedStep ==
  ASSUME AuditedAgenda, AssignmentsTypeOK, [AssignmentsNext]_assignments
  PROVE  AuditedAgenda'
<1> USE DEF AuditedAgenda, Goes, agendaOf
<1>1. CASE Assign
  BY <1>1 DEF Assign
<1>2. CASE BeginSlice
  BY <1>2 DEF BeginSlice
<1>3. CASE MaintainerRepairs
  BY <1>3 DEF MaintainerRepairs
<1>4. CASE Session
  BY <1>4 DEF Session
<1>5. CASE Verify
  BY <1>5 DEF Verify
<1>6. CASE ArchiveSlice
  BY <1>6 DEF ArchiveSlice
<1>7. CASE Escalates
  BY <1>7 DEF Escalates
<1>8. CASE SubdivisionAccepted
  BY <1>8 DEF SubdivisionAccepted
<1>9. CASE ReviewStarts
  BY <1>9 DEF ReviewStarts
<1>10. CASE ReviewReady
  BY <1>10 DEF ReviewReady
<1>11. CASE RemediationAccepted
  BY <1>11 DEF RemediationAccepted
<1>12. CASE ReviewRejected
  BY <1>12 DEF ReviewRejected
<1>13. CASE ReviewCutShort
  BY <1>13 DEF ReviewCutShort
<1>14. CASE UNCHANGED assignments
  BY <1>14 DEF assignments
<1> QED
  BY AssignmentsCases, <1>1, <1>2, <1>3, <1>4, <1>5, <1>6, <1>7, <1>8, <1>9, <1>10, <1>11,
     <1>12, <1>13, <1>14

(* The agenda and its record agree whenever a slice is looked for.            *)
LEMMA AuditedThroughout == AssignmentsSpec => []AuditedAgenda
  BY AuditedInitially, AuditedStep, AssignmentTypes, PTL DEF AssignmentsSpec

(* When a campaign is complete, the slice that accounts for each obligation    *)
(* was delivered, a test of the builder's has a delivered slice before the     *)
(* terminal one, and so was every prerequisite.                             *)
THEOREM WorkRetained == AssignmentsSpec => []NothingLost
<1>1. AssignmentsTypeOK /\ AuditedAgenda => NothingLost
  <2> SUFFICES ASSUME AssignmentsTypeOK, AuditedAgenda, turn = "done" PROVE NothingLost
    BY DEF NothingLost
  <2>1. RecordSound(plan) /\ plan.slices \cup {Final} \subseteq finished
    BY DEF AuditedAgenda, Checks
  <2>2. plan.slices \subseteq Deliveries /\ Final \notin Deliveries
    BY WrittenFiles, AssignmentsAssumption DEF AssignmentsTypeOK
  <2>3. \A o \in Obligations \ Contexts :
          o \in DOMAIN plan.accountable /\ plan.accountable[o] \in finished
    BY <2>1 DEF RecordSound, Allocated
  <2>4. ASSUME NEW a \in BuilderTests PROVE plan.routes[a] \cap (finished \ {Final}) # {}
    <3>1. a \in Acceptances
      BY AssignmentsAssumption DEF InventorySound
    <3>2. /\ plan.routes[a] # {} /\ plan.routes[a] # {Final}
          /\ plan.routes[a] \subseteq plan.slices \cup {Final}
      BY <2>1, <3>1, <2>4 DEF RecordSound, Routed
    <3>3. PICK s \in plan.routes[a] : s # Final
      BY <3>2
    <3> QED
      BY <3>2, <3>3, <2>1, <2>2
  <2>5. \A s \in plan.slices : plan.requires[s] \subseteq finished
    BY <2>1 DEF RecordSound, Ordered
  <2> QED
    BY <2>3, <2>4, <2>5 DEF NothingLost
<1> QED
  BY <1>1, AssignmentTypes, AuditedThroughout, PTL
-----------------------------------------------------------------------------
(* The order of slices, on which prerequisites rest, is strict.              *)
LEMMA PartsEqual ==
  ASSUME NEW a \in Seq(Nat), NEW b \in Seq(Nat), IsPrefix(a, b)
  PROVE  Len(a) <= Len(b) /\ \A i \in 1..Len(a) : a[i] = b[i]
<1>1. Len(a) <= Len(b) /\ SubSeq(a, 1, Len(a)) = SubSeq(b, 1, Len(a))
  BY DEF IsPrefix
<1>2. ASSUME NEW i \in 1..Len(a) PROVE a[i] = b[i]
  <2>1. SubSeq(a, 1, Len(a))[i] = a[i]
    OBVIOUS
  <2>2. SubSeq(b, 1, Len(a))[i] = b[i]
    BY <1>1
  <2> QED
    BY <1>1, <2>1, <2>2
<1> QED
  BY <1>1, <1>2

(* The first difference decides.                                             *)
Less(x, y) ==
  \E i \in 1..Len(x) :
    /\ i <= Len(y) /\ x[i] < y[i]
    /\ \A j \in 1..(i - 1) : x[j] = y[j]

LEMMA LessAsymmetric ==
  ASSUME NEW x \in Seq(Nat), NEW y \in Seq(Nat), Less(x, y)
  PROVE  ~Less(y, x)
<1> SUFFICES ASSUME Less(y, x) PROVE FALSE
  OBVIOUS
<1>1. PICK i \in 1..Len(x) :
        i <= Len(y) /\ x[i] < y[i] /\ \A j \in 1..(i - 1) : x[j] = y[j]
  BY DEF Less
<1>2. PICK k \in 1..Len(y) :
        k <= Len(x) /\ y[k] < x[k] /\ \A j \in 1..(k - 1) : y[j] = x[j]
  BY DEF Less
<1>3. Len(x) \in Nat /\ Len(y) \in Nat
  OBVIOUS
<1>4. /\ i \in Nat /\ k \in Nat /\ i >= 1 /\ k >= 1
      /\ i \in 1..Len(y) /\ k \in 1..Len(x)
  BY <1>1, <1>2, <1>3
<1>5. x[i] \in Nat /\ y[i] \in Nat
  BY <1>1, <1>4
<1>6. x[k] \in Nat /\ y[k] \in Nat
  BY <1>2, <1>4
<1>7. CASE i < k
  <2>1. y[i] = x[i]
    BY <1>2, <1>4, <1>7
  <2> QED
    BY <1>1, <1>5, <2>1
<1>8. CASE k < i
  <2>1. x[k] = y[k]
    BY <1>1, <1>4, <1>8
  <2> QED
    BY <1>2, <1>6, <2>1
<1>9. CASE i = k
  BY <1>1, <1>2, <1>5, <1>9
<1> QED
  BY <1>4, <1>7, <1>8, <1>9

(* What starts another has no difference to it.                              *)
LEMMA PrefixNotLess ==
  ASSUME NEW x \in Seq(Nat), NEW y \in Seq(Nat), IsPrefix(x, y)
  PROVE  ~Less(y, x)
<1> SUFFICES ASSUME Less(y, x) PROVE FALSE
  OBVIOUS
<1>1. PICK i \in 1..Len(y) : i <= Len(x) /\ y[i] < x[i]
  BY DEF Less
<1>2. Len(x) \in Nat /\ Len(y) \in Nat
  OBVIOUS
<1>3. i \in 1..Len(x)
  BY <1>1, <1>2
<1>4. x[i] = y[i] /\ x[i] \in Nat
  BY <1>3, PartsEqual
<1> QED
  BY <1>1, <1>4

(* Prefixes of each other are equal.                                         *)
LEMMA PrefixesEqual ==
  ASSUME NEW x \in Seq(Nat), NEW y \in Seq(Nat), IsPrefix(x, y), IsPrefix(y, x)
  PROVE  x = y
<1>1. Len(x) \in Nat /\ Len(y) \in Nat /\ Len(x) <= Len(y) /\ Len(y) <= Len(x)
  BY PartsEqual
<1>2. Len(x) = Len(y)
  BY <1>1
<1>3. \A i \in 1..Len(x) : x[i] = y[i]
  BY PartsEqual
<1> QED
  BY <1>2, <1>3

(* Two slices are not each before the other.                                 *)
LEMMA BeforeAsymmetric ==
  ASSUME NEW s \in Deliveries, NEW t \in Deliveries, Before(s, t)
  PROVE  ~Before(t, s)
<1>1. PICK a \in Seq(Nat) : a = s.ordinal
  BY AssignmentsAssumption
<1>2. PICK b \in Seq(Nat) : b = t.ordinal
  BY AssignmentsAssumption
<1>3. /\ IsStrictPrefix(a, b) \/ Less(a, b)
      /\ Before(t, s) => IsStrictPrefix(b, a) \/ Less(b, a)
  BY <1>1, <1>2 DEF Before, Less
<1>4. ~(IsStrictPrefix(a, b) /\ IsStrictPrefix(b, a))
  BY PrefixesEqual DEF IsStrictPrefix
<1>5. ~(IsStrictPrefix(a, b) /\ Less(b, a)) /\ ~(IsStrictPrefix(b, a) /\ Less(a, b))
  BY PrefixNotLess DEF IsStrictPrefix
<1>6. ~(Less(a, b) /\ Less(b, a))
  BY LessAsymmetric
<1> QED
  BY <1>3, <1>4, <1>5, <1>6
-----------------------------------------------------------------------------
(* What is compared with is what was held when the slice was assigned, and   *)
(* the slice is the next of an agenda that agrees with its record; a review   *)
(* that was cut short apart.                                                *)
KeptInv ==
  /\ Checks(held.plan, held.files, held.shown)
  /\ turn \in {"review", "reviewing", "remedying"} => assigned = Final
  /\ turn \notin {"next", "done"} => assigned \notin finished
  /\ turn = "propose" /\ assigned # Final =>
       Checks(plan, agenda, shown) /\ IsNext(assigned, agenda)
  /\ turn \in {"propose", "review"} /\ ~cutShort =>
       plan = held.plan /\ agenda = held.files /\ shown = held.shown
  /\ turn \in {"frontier", "remedying"} => before = held.plan
  /\ turn = "reviewing" /\ ~cutShort => before = held.plan

(* The first agenda is sound and held.                                      *)
LEMMA KeptInitially == AssignmentsInit => KeptInv
<1> SUFFICES ASSUME AssignmentsInit PROVE KeptInv
  OBVIOUS
<1>1. held.plan = plan /\ held.files = agenda /\ held.shown = shown
  BY DEF AssignmentsInit
<1> QED
  BY <1>1 DEF AssignmentsInit, KeptInv

(* Every step keeps it.                                                     *)
LEMMA KeptStep ==
  ASSUME KeptInv, AuditedAgenda, AssignmentsTypeOK, [AssignmentsNext]_assignments
  PROVE  KeptInv'
<1> USE DEF KeptInv, Goes, agendaOf
<1>1. CASE Assign
  <2>1. CASE \E s \in agenda : IsNext(s, agenda)
    BY <1>1, <2>1 DEF Assign, Hold, IsNext, AuditedAgenda
  <2>2. CASE ~ \E s \in agenda : IsNext(s, agenda)
    BY <1>1, <2>2 DEF Assign
  <2> QED
    BY <2>1, <2>2
<1>2. CASE BeginSlice
  BY <1>2 DEF BeginSlice
<1>3. CASE MaintainerRepairs
  BY <1>3 DEF MaintainerRepairs
<1>4. CASE Session
  BY <1>4 DEF Session
<1>5. CASE Verify
  BY <1>5 DEF Verify
<1>6. CASE ArchiveSlice
  BY <1>6 DEF ArchiveSlice
<1>7. CASE Escalates
  BY <1>7 DEF Escalates, Restores
<1>8. CASE SubdivisionAccepted
  BY <1>8 DEF SubdivisionAccepted, Hold, IsNext
<1>9. CASE ReviewStarts
  BY <1>9 DEF ReviewStarts
<1>10. CASE ReviewReady
  BY <1>10 DEF ReviewReady
<1>11. CASE RemediationAccepted
  BY <1>11, AssignmentsAssumption DEF RemediationAccepted, Hold, IsNext
<1>12. CASE ReviewRejected
  BY <1>12 DEF ReviewRejected, Restores
<1>13. CASE ReviewCutShort
  <2>1. ~cutShort' => held.plan = plan' /\ held.files = agenda' /\ held.shown = shown'
    <3>1. ~cutShort' => [plan |-> plan', files |-> agenda', shown |-> shown'] = held
      BY <1>13, Zenon DEF ReviewCutShort
    <3> QED
      BY <3>1
  <2> QED
    BY <1>13, <2>1 DEF ReviewCutShort
<1>14. CASE UNCHANGED assignments
  BY <1>14 DEF assignments, IsNext
<1> QED
  BY AssignmentsCases, <1>1, <1>2, <1>3, <1>4, <1>5, <1>6, <1>7, <1>8, <1>9, <1>10, <1>11,
     <1>12, <1>13, <1>14

(* What precedes the next slice is delivered.                                *)
LEMMA NextIsReady ==
  ASSUME AssignmentsTypeOK, Checks(plan, agenda, shown), IsNext(assigned, agenda),
         assigned # Final
  PROVE  plan.requires[assigned] \subseteq finished
<1>1. assigned \in plan.slices /\ plan.slices \subseteq Deliveries /\ assigned \in Deliveries
  BY WrittenFiles DEF AssignmentsTypeOK, Checks, IsNext
<1>2. ASSUME NEW t \in plan.requires[assigned], t \notin finished PROVE FALSE
  <2>1. t \in plan.slices /\ Before(t, assigned)
    BY <1>1, <1>2 DEF Checks, RecordSound, Ordered
  <2>2. t \in Deliveries /\ ~Before(assigned, t)
    BY <1>1, <2>1, BeforeAsymmetric
  <2>3. t # assigned
    BY <2>1, <2>2
  <2>4. Ordered9999(assigned, t)
    BY <1>2, <2>1, <2>3 DEF Checks, IsNext
  <2> QED
    BY <2>2, <2>4, AssignmentsAssumption DEF Ordered9999
<1> QED
  BY <1>2

(* A recovery keeps the share and the prerequisites of what was delivered.   *)
LEMMA DeliveredKept ==
  ASSUME NEW p, NEW old, NEW failed \in SUBSET {assigned}, Recovers(p, old, failed),
         NEW s \in old.slices, s \notin failed
  PROVE  KeepsShare(p, old, s) /\ old.requires[s] \subseteq p.requires[s]
<1>1. KeepsShare(p, old, s) /\ KeepsRequires(p, old, s, failed)
  BY DEF Recovers
<1>2. old.requires[s] \subseteq p.requires[s]
  BY <1>1 DEF KeepsRequires
<1> QED
  BY <1>1, <1>2

(* A slice is begun when its prerequisites are delivered, and no recovery     *)
(* that is accepted takes from a delivered slice what it had, a terminal      *)
(* review that was cut short apart; for every inventory and all records that  *)
(* sessions may write.                                                      *)
THEOREM AssignmentsKept == AssignmentsSpec => AssignmentKept
<1>1. KeptInv /\ AuditedAgenda /\ AssignmentsTypeOK /\ [AssignmentsNext]_assignments => KeptInv'
  BY KeptStep
<1>2. KeptInv /\ AssignmentsTypeOK =>
        (BeginSlice /\ assigned # Final => plan.requires[assigned] \subseteq finished)
  BY NextIsReady DEF BeginSlice, KeptInv
<1>3. ASSUME KeptInv, SubdivisionAccepted \/ RemediationAccepted, ~cutShort,
             NEW s \in finished \cap held.plan.slices
      PROVE  KeepsShare(plan', held.plan, s) /\ held.plan.requires[s] \subseteq plan'.requires[s]
  <2>1. CASE SubdivisionAccepted
    <3>1. /\ Recovers(plan', before, {assigned}) /\ before = held.plan
          /\ assigned \notin finished
      BY <1>3, <2>1 DEF SubdivisionAccepted, KeptInv
    <3> QED
      BY <3>1, DeliveredKept
  <2>2. CASE RemediationAccepted
    <3>1. Recovers(plan', before, {}) /\ before = held.plan
      BY <1>3, <2>2 DEF RemediationAccepted, KeptInv
    <3> QED
      BY <3>1, DeliveredKept
  <2> QED
    BY <1>3, <2>1, <2>2
<1>4. KeptInv /\ AssignmentsTypeOK =>
        [/\ BeginSlice /\ assigned # Final => plan.requires[assigned] \subseteq finished
         /\ (SubdivisionAccepted \/ RemediationAccepted) /\ ~cutShort =>
              \A s \in finished \cap held.plan.slices :
                /\ KeepsShare(plan', held.plan, s)
                /\ held.plan.requires[s] \subseteq plan'.requires[s]]_assignments
  BY <1>2, <1>3
<1> QED
  BY <1>1, <1>4, KeptInitially, AssignmentTypes, AuditedThroughout, PTL
  DEF AssignmentsSpec, AssignmentKept
-----------------------------------------------------------------------------
(* The policy and the assignments, together                                  *)

(* A behaviour of the composed system is one of each of its parts, at work or *)
(* at rest, so all that is proved of OperatingPolicy and Assignments holds   *)
(* where the two are checked together.                                      *)
THEOREM GovernanceComposes == GovernanceSpec => Spec /\ AssignmentsSpec
<1>1. GovernanceInit => Init /\ AssignmentsInit
  BY DEF GovernanceInit
<1>2. [GovernanceNext]_everything => [Next]_vars /\ [AssignmentsNext]_assignments
  BY DEF GovernanceNext, everything
<1> QED
  BY <1>1, <1>2, PTL DEF GovernanceSpec, Spec, AssignmentsSpec

(* The type invariant of the two together.                                   *)
THEOREM GovernanceTypes == GovernanceSpec => []GovernanceTypeOK
<1>1. TypeOK /\ AssignmentsTypeOK => GovernanceTypeOK
  BY DEF GovernanceTypeOK
<1> QED
  BY <1>1, GovernanceComposes, TypeCorrect, AssignmentTypes, PTL
=============================================================================
