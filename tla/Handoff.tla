------------------------------ MODULE Handoff ------------------------------
(***************************************************************************)
(* What a passed Verify is worth later (src/src/verification.rs): its        *)
(* evidence is a fingerprint of the files, handed to the sessions that        *)
(* archive and commit the change, and reason to pass over the review of the    *)
(* terminal gate if the campaign had one slice and its tree is the one      *)
(* that was reviewed (prepare_direct_acceptance).                            *)
(*                                                                         *)
(* A supplied-contract campaign of one repository; anyone may edit the tree *)
(* at any time, and the runner may be killed.  Left out: acceptance, which      *)
(* here only fails or passes, and everything a session says.                  *)
(***************************************************************************)
EXTENDS Naturals

CONSTANTS
  Products,      \* contents of the files outside a change's own directory
  OnlySlice,     \* those whose assignment record has one delivery
  Unreadable,       \* what cannot be fingerprinted: a link, an error of Git
  Nothing,       \* no evidence
  MaxSlices      \* bound: slices delivered before the terminal gate

ASSUME HandoffAssumption == OnlySlice \subseteq Products /\ MaxSlices \in Nat \ {0}

VARIABLES
  tree,      \* the files as they are now
  own,          \* where the directory of the change is
  state,          \* RunState, in memory
  durable,      \* the same in last-run.json
  session,      \* what is under way
  began,        \* verification_inputs; the tree then; whether the whole is reviewed
  reviewed,     \* history: what passed Verify last, if it was the same all along
  told          \* history: what a session is told has changed since Verify

handoff == <<tree, own, state, durable, session, began, reviewed, told>>

Slices == 1..MaxSlices + 1        \* the last one: the gate
Files == [tree : Products, own : {"active", "archived"}]
Evidence == [slice : Slices, files : Files \cup {Unreadable}]

RunOfSlice ==
  [stage : {"work", "verify", "archive", "commit", "gate", "acceptance", "done"},
   slice : Slices, gate : BOOLEAN, corrected : BOOLEAN,
   verification : Evidence \cup {Nothing}, archive : Evidence \cup {Nothing}]

(* steady: history, nobody edits meanwhile.                                  *)
Began == [files : Files \cup {Unreadable}, start : Products, whole : BOOLEAN, steady : BOOLEAN]
PassedReview == [slice : Slices, tree : Products, whole : BOOLEAN, steady : BOOLEAN]

ASSUME NoEvidence == Nothing \notin Evidence \cup Began \cup PassedReview

HandoffTypeOK ==
  /\ tree \in Products /\ own \in {"active", "archived"}
  /\ state \in RunOfSlice /\ durable \in RunOfSlice
  /\ session \in {"none", "briefing", "reviewing", "archiving", "committing"}
  /\ began \in Began \cup {Nothing} /\ reviewed \in PassedReview \cup {Nothing}
  /\ told \in {"nothing", "unknown", "unchanged", "changed"}
-----------------------------------------------------------------------------
HandoffInit ==
  /\ tree \in Products /\ own = "active"
  /\ state = [stage |-> "work", slice |-> 1, gate |-> FALSE, corrected |-> FALSE,
            verification |-> Nothing, archive |-> Nothing]
  /\ durable = state /\ session = "none" /\ began = Nothing
  /\ reviewed = Nothing /\ told = "nothing"

(* persist_state *)
Persist(r) == state' = r /\ durable' = r

(* snapshot, with the change's directory where it is.                         *)
Fingerprint(where) == {[tree |-> tree, own |-> where], Unreadable}

AtStage(s) == state.stage = s /\ session = "none"
During(s) == session = s /\ session' = "none" /\ told' = "nothing"

(* Propose and Apply, or Repair.                                             *)
WorkEnds ==
  /\ AtStage("work")
  /\ Persist([state EXCEPT !.stage = "verify", !.corrected = FALSE])
  /\ UNCHANGED <<tree, own, session, began, reviewed, told>>

VerifyStarts ==
  /\ AtStage("verify")
  /\ state' = [state EXCEPT !.verification = Nothing, !.archive = Nothing]
  /\ \E now \in Fingerprint(own) :
       began' = [files |-> now, start |-> tree, whole |-> state.gate, steady |-> TRUE]
  /\ session' = "briefing"
  /\ UNCHANGED <<tree, own, durable, reviewed, told>>

(* The reviewer of the only slice is told to review the whole project.        *)
Briefed ==
  /\ session = "briefing" /\ session' = "reviewing"
  /\ began' = [began EXCEPT !.whole = @ \/ tree \in OnlySlice]
  /\ UNCHANGED <<tree, own, state, durable, reviewed, told>>

(* RETRY, or INCOMPLETE: a fresh session begins with a fingerprint of its own. *)
ReviewRetries ==
  /\ During("reviewing")
  /\ \E s \in {"work", "verify"} : Persist([state EXCEPT !.stage = s])
  /\ began' = Nothing
  /\ UNCHANGED <<tree, own, reviewed>>

(* Mutant: the files are taken when Verify is over.                          *)
FinishedWithNow(now) == [slice |-> state.slice, files |-> now]

(* VerificationEvidence::finish                                             *)
Finished(now) == [slice |-> state.slice, files |-> IF now = began.files THEN now ELSE Unreadable]

ReviewPassed ==
  /\ During("reviewing")
  /\ \E now \in Fingerprint(own) :
       Persist([state EXCEPT !.verification = Finished(now),
                           !.stage = IF state.gate THEN "acceptance" ELSE "archive"])
  /\ reviewed' = IF tree # began.start THEN Nothing
                 ELSE [slice |-> state.slice, tree |-> tree, whole |-> began.whole,
                       steady |-> began.steady]
  /\ began' = Nothing
  /\ UNCHANGED <<tree, own>>

(* evidence_handoff: what of the evidence the session hears.                  *)
Claim(evidence, now) ==
  IF evidence = Nothing THEN "nothing"
  ELSE IF Unreadable \in {evidence.files, now} THEN "unknown"
  ELSE IF evidence.files = now THEN "unchanged" ELSE "changed"

OfChange(evidence) ==
  IF evidence # Nothing /\ (evidence.slice = state.slice \/ state.gate) THEN evidence ELSE Nothing

ArchiveStarts ==
  /\ AtStage("archive")
  /\ \E now \in Fingerprint(own) : told' = Claim(OfChange(state.verification), now)
  /\ state' = [state EXCEPT !.archive = Nothing] /\ session' = "archiving"
  /\ UNCHANGED <<tree, own, durable, began, reviewed>>

(* The change is moved; a session that omits its result leaves no evidence.    *)
ArchiveEnds ==
  /\ During("archiving") /\ own' = "archived"
  /\ \E evidence \in {Nothing} \cup [slice : {state.slice}, files : Fingerprint("archived")] :
       Persist([state EXCEPT !.archive = evidence, !.stage = "commit"])
  /\ UNCHANGED <<tree, began, reviewed>>

CommitStarts ==
  /\ AtStage("commit")
  /\ \E now \in Fingerprint(own) : told' = Claim(OfChange(state.verification), now)
  /\ session' = "committing"
  /\ UNCHANGED <<tree, own, state, durable, began, reviewed>>

CommitEnds ==
  /\ During("committing")
  /\ Persist([state EXCEPT !.stage = "done"])
  /\ UNCHANGED <<tree, own, began, reviewed>>

(* The next assignment; evidence is carried over.                            *)
Successors(r) ==
  {[r EXCEPT !.slice = @ + 1, !.gate = gate, !.stage = IF gate THEN "gate" ELSE "work",
             !.archive = Nothing] : gate \in {g \in BOOLEAN : r.slice = MaxSlices => g}}

SliceAssigned ==
  /\ AtStage("done") /\ ~state.gate
  /\ \E r \in Successors(state) : Persist(r)
  /\ own' = "active"
  /\ UNCHANGED <<tree, session, began, reviewed, told>>

(* delivery_unchanged: the change's own directory has moved.                  *)
DeliveryUnchanged(now) ==
  /\ state.verification # Nothing /\ state.verification.files # Unreadable /\ now # Unreadable
  /\ state.verification.files.tree = now.tree

GatePrepares ==
  /\ AtStage("gate") /\ ~state.corrected
  /\ \E now \in Fingerprint(own) :
       Persist([state EXCEPT !.stage = IF tree \in OnlySlice /\ DeliveryUnchanged(now)
                                       THEN "acceptance" ELSE "verify"])
  /\ UNCHANGED <<tree, own, session, began, reviewed, told>>

(* plan_corrected_terminal: there is work to do before the gate, or not.       *)
CorrectionPlanned ==
  /\ AtStage("gate") /\ state.corrected
  /\ \/ Persist([state EXCEPT !.stage = "verify", !.corrected = FALSE])
     \/ /\ state.slice <= MaxSlices
        /\ Persist([state EXCEPT !.stage = "work", !.gate = FALSE, !.corrected = FALSE])
  /\ UNCHANGED <<tree, own, session, began, reviewed, told>>

AcceptanceEnds ==
  /\ AtStage("acceptance")
  /\ \E s \in {"commit", "work"} : Persist([state EXCEPT !.stage = s])
  /\ UNCHANGED <<tree, own, session, began, reviewed, told>>

(* accept-changes forgets the evidence; a change that is archived has a        *)
(* successor.                                                               *)
CorrectionAccepted ==
  /\ session = "none" /\ state = durable
  /\ LET r == [state EXCEPT !.verification = Nothing, !.archive = Nothing, !.corrected = TRUE,
                          !.stage = IF state.gate THEN "gate" ELSE "work"] IN
     IF own = "archived"
       THEN state.slice <= MaxSlices /\ own' = "active" /\ \E s \in Successors(r) : Persist(s)
       ELSE Persist(r) /\ own' = own
  /\ UNCHANGED <<tree, session, began, reviewed, told>>

SomeoneEdits ==
  /\ tree' \in Products \ {tree}
  /\ began' = IF began = Nothing THEN Nothing ELSE [began EXCEPT !.steady = FALSE]
  /\ UNCHANGED <<own, state, durable, session, reviewed, told>>

RunnerKilled ==
  /\ state # durable \/ session # "none"
  /\ state' = durable /\ session' = "none" /\ began' = Nothing /\ told' = "nothing"
  /\ own' \in {own} \cup {a \in {"archived"} : session = "archiving"}
  /\ UNCHANGED <<tree, durable, reviewed>>

HandoffNext ==
  \/ WorkEnds \/ VerifyStarts \/ Briefed \/ ReviewRetries \/ ReviewPassed
  \/ ArchiveStarts \/ ArchiveEnds \/ CommitStarts \/ CommitEnds
  \/ SliceAssigned \/ GatePrepares \/ CorrectionPlanned \/ AcceptanceEnds
  \/ CorrectionAccepted \/ SomeoneEdits \/ RunnerKilled

HandoffSpec == HandoffInit /\ [][HandoffNext]_handoff
-----------------------------------------------------------------------------
ReviewedNow(whole) ==
  /\ reviewed # Nothing /\ reviewed.tree = tree
  /\ whole /\ reviewed.steady => reviewed.whole

(* Evidence is never better than the review behind it: a session hears that    *)
(* nothing has changed only if the tree is the one that stood from the      *)
(* beginning to the end of a Verify that passed, of its change or of the        *)
(* whole, and the gate is excused its review only by a review of the whole      *)
(* project (src/src/app.rs:1810, "Reuse it only if the delivered tree survived  *)
(* archive/commit").  The exception: a record that was changed before the        *)
(* reviewer was told what to cover, and changed back before the end.            *)
EvidenceHonest ==
  [][/\ (ArchiveStarts \/ CommitStarts) /\ told' = "unchanged" =>
          ReviewedNow(FALSE) /\ (state.gate \/ reviewed.slice = state.slice)
     /\ GatePrepares /\ state'.stage = "acceptance" => ReviewedNow(TRUE)]_handoff
=============================================================================
