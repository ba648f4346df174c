--------------------------- MODULE SuppliedProofs ---------------------------
(***************************************************************************)
(* What a supplied-contract run rests on, for every set of versions,       *)
(* contents and settings, any number of edits and of slices.               *)
(*                                                                         *)
(* What a campaign delivers on has been read by the reviewer who said      *)
(* READY: PreflightTrusted says of every process what its position has     *)
(* established, and of the report on file that a READY in it was read from *)
(* what its key says.                                                      *)
(*                                                                         *)
(* Evidence is never better than its review: EvidenceBacked ties what the  *)
(* state, in memory and in last-run.json, says of the last Verify to the   *)
(* review that passed, and what a review has begun with to the tree.       *)
(*                                                                         *)
(* Both hold beside the stage engine of WorkflowProofs, which shares       *)
(* nothing with them.                                                      *)
(***************************************************************************)
EXTENDS MCDelivery, WorkflowProofs

Opened == {"check", "compare", "review", "read", "write", "deliver"}
Keyed == {"review", "read", "write", "deliver"}

ProcessSound(p) ==
  LET it == reviewing[p] IN
  /\ it.pc # "off" => it.mine \in Selection
  /\ it.pc \in Keyed => it.key \in Key /\ it.key = KeyOf(p, it.key.introduction)

FiledSound == filed # Absent /\ filed.ready /\ ~flickered => filed.read

PreflightTrusted ==
  /\ PreflightTypeOK
  /\ \A p \in {"run", "alone"} : ProcessSound(p)
  /\ reviewing["run"].pc \in Opened => reviewing["run"].mine = checkpoint
  /\ reviewing["run"].pc = "deliver" /\ ~flickered => reviewing["run"].read
  /\ FiledSound

LEMMA PreflightCases ==
  ASSUME [PreflightNext]_preflight
  PROVE  \/ RunLoads \/ RunSaves \/ RunOpens \/ AloneStarts \/ StageBoundary
         \/ AcceptsInputs \/ MaintainerWrites \/ UNCHANGED preflight
         \/ \E p \in {"run", "alone"} :
              \/ CheckInputs(p) \/ Compare(p) \/ ReviewerReads(p) \/ ReviewFails(p)
              \/ ReviewEnds(p) \/ RecordVerdict(p) \/ ProcessKilled(p)
  BY DEF PreflightNext, PreflightStep

LEMMA SelectedTypes ==
  ASSUME supplied \in Supplied, NEW s \in Settings
  PROVE  Selected(s) \in Selection
  BY DEF Supplied, Selection, Selected

LEMMA PreflightInitially == PreflightInit => PreflightTrusted
<1> SUFFICES ASSUME PreflightInit PROVE PreflightTrusted
  OBVIOUS
<1>1. Off \in Process
  BY DEF Off, Process
<1>2. PreflightTypeOK
  <2>1. reviewing \in [{"run", "alone"} -> Process]
    BY <1>1 DEF PreflightInit
  <2>2. writes \in 0..MaxWrites
    BY PreflightAssumption DEF PreflightInit
  <2>3. checkpoint \in Selection \cup {Absent} /\ filed \in FiledReport \cup {Absent}
    BY DEF PreflightInit
  <2> QED
    BY <2>1, <2>2, <2>3 DEF PreflightInit, PreflightTypeOK
<1>3. \A p \in {"run", "alone"} : reviewing[p].pc = "off"
  BY DEF PreflightInit, Off
<1>4. FiledSound
  BY DEF PreflightInit, FiledSound
<1> QED
  BY <1>2, <1>3, <1>4 DEF PreflightTrusted, ProcessSound, Opened, Keyed

(* A process that chooses its inputs, or stops, or moves on.                 *)
LEMMA Moving ==
  ASSUME PreflightTypeOK, NEW p \in {"run", "alone"}, NEW it \in Process,
         reviewing' = [reviewing EXCEPT ![p] = it]
  PROVE  /\ reviewing' \in [{"run", "alone"} -> Process]
         /\ reviewing'[p] = it
         /\ \A q \in {"run", "alone"} \ {p} : reviewing'[q] = reviewing[q]
  BY DEF PreflightTypeOK

LEMMA PreflightKept == PreflightTrusted /\ [PreflightNext]_preflight => PreflightTrusted'
<1> SUFFICES ASSUME PreflightTrusted, [PreflightNext]_preflight PROVE PreflightTrusted'
  OBVIOUS
<1> USE DEF PreflightTrusted
<1>1. CASE RunLoads
  <2>1. PICK s \in Selection : Chooses("run", s, "loaded")
    BY <1>1, SelectedTypes DEF RunLoads, Recorded, PreflightTypeOK
  <2>2. [Off EXCEPT !.pc = "loaded", !.mine = s] \in Process
    BY DEF Off, Process
  <2> QED
    BY <1>1, <2>1, <2>2, Moving DEF RunLoads, Chooses, Off, PreflightTypeOK, ProcessSound,
       FiledSound, Opened, Keyed, KeyOf
<1>2. CASE RunSaves \/ RunOpens
  <2>1. PICK to \in {"saved", "check"} :
          /\ reviewing["run"].pc \in {"loaded", "saved"}
          /\ To("run", to) /\ checkpoint' = reviewing["run"].mine
          /\ UNCHANGED <<supplied, filed, writes, flickered>>
    BY <1>2 DEF RunSaves, RunOpens, Now
  <2>2. [reviewing["run"] EXCEPT !.pc = to] \in Process
    BY DEF PreflightTypeOK, Process
  <2>3. reviewing' = [reviewing EXCEPT !["run"] = [reviewing["run"] EXCEPT !.pc = to]]
    BY <2>1 DEF To, PreflightTypeOK, Process
  <2>4. reviewing["run"].mine \in Selection
    BY <2>1 DEF ProcessSound
  <2> QED
    BY <2>1, <2>2, <2>3, <2>4, Moving DEF PreflightTypeOK, ProcessSound, FiledSound,
       Process, Opened, Keyed, KeyOf
<1>3. CASE AloneStarts
  <2>1. PICK s \in Selection : Chooses("alone", s, "check")
    BY <1>3, SelectedTypes DEF AloneStarts, PreflightTypeOK, Selection
  <2>2. [Off EXCEPT !.pc = "check", !.mine = s] \in Process
    BY DEF Off, Process
  <2> QED
    BY <1>3, <2>1, <2>2, Moving DEF AloneStarts, Chooses, Off, PreflightTypeOK, ProcessSound,
       FiledSound, Opened, Keyed, KeyOf
<1>4. CASE StageBoundary
  <2>1. PICK it \in {Off} \cup {[reviewing["run"] EXCEPT !.pc = to] : to \in {"deliver", "check"}} :
          reviewing' = [reviewing EXCEPT !["run"] = it]
    BY <1>4 DEF StageBoundary, To, Stops, PreflightTypeOK, Process
  <2>2. it \in Process
    <3>1. Off \in Process /\ reviewing["run"] \in Process
      BY DEF Off, Process, PreflightTypeOK
    <3>2. \A to \in {"deliver", "check"} : [reviewing["run"] EXCEPT !.pc = to] \in Process
      BY <3>1 DEF Process
    <3> QED
      BY <3>1, <3>2
  <2> QED
    BY <1>4, <2>1, <2>2, Moving DEF StageBoundary, Now, Off, PreflightTypeOK, Process,
       ProcessSound, FiledSound, Opened, Keyed, KeyOf
<1>5. CASE AcceptsInputs
  BY <1>5, SelectedTypes DEF AcceptsInputs, PreflightTypeOK, ProcessSound, FiledSound,
     Opened, Keyed, KeyOf
<1>6. CASE MaintainerWrites
  BY <1>6, PreflightAssumption DEF MaintainerWrites, PreflightTypeOK, ProcessSound, FiledSound, Opened, Keyed, KeyOf
<1>7. CASE UNCHANGED preflight
  BY <1>7 DEF preflight, PreflightTypeOK, ProcessSound, FiledSound, KeyOf
<1>8. ASSUME NEW p \in {"run", "alone"},
             CheckInputs(p) \/ Compare(p) \/ ReviewerReads(p) \/ ReviewFails(p)
               \/ ReviewEnds(p) \/ RecordVerdict(p) \/ ProcessKilled(p)
      PROVE  PreflightTrusted'
  <2> DEFINE it == reviewing[p]
  <2>1. it \in Process /\ Off \in Process
    BY DEF PreflightTypeOK, Off, Process
  <2>2. CASE Stops(p) /\ UNCHANGED <<supplied, checkpoint, filed, writes, flickered>>
    BY <2>1, <2>2, Moving DEF Stops, Off, PreflightTypeOK, ProcessSound, FiledSound, Opened,
       Keyed, KeyOf
  <2>3. ASSUME NEW to \in {"compare", "write"}, To(p, to),
               it.pc \in {"check", "read"}, to = "write" => it.pc = "read",
               UNCHANGED <<supplied, checkpoint, filed, writes, flickered>>
        PROVE  PreflightTrusted'
    <3>1. reviewing' = [reviewing EXCEPT ![p] = [it EXCEPT !.pc = to]]
      BY <2>3 DEF To, PreflightTypeOK, Process
    <3>2. [it EXCEPT !.pc = to] \in Process
      BY <2>1 DEF Process
    <3> QED
      BY <2>1, <2>3, <3>1, <3>2, Moving DEF PreflightTypeOK, Process, ProcessSound,
         FiledSound, Opened, Keyed, KeyOf
  <2>4. CASE CheckInputs(p)
    BY <2>2, <2>3, <2>4 DEF CheckInputs, Now
  <2>5. CASE ReviewFails(p) \/ ProcessKilled(p)
    BY <2>2, <2>5 DEF ReviewFails, ProcessKilled
  <2>6. CASE ReviewEnds(p)
    BY <2>2, <2>3, <2>6 DEF ReviewEnds, Now
  <2>7. CASE Compare(p)
    <3> DEFINE key == KeyOf(p, supplied.introduction)
    <3>1. key \in Key /\ key.introduction = supplied.introduction
      BY <2>7 DEF Compare, Now, KeyOf, Key, ProcessSound, Selection, Supplied, PreflightTypeOK
    <3>2. CASE ~Applicable(key)
      <4>1. reviewing' = [reviewing EXCEPT ![p] = [it EXCEPT !.pc = "review", !.key = key]]
        BY <2>7, <3>2 DEF Compare
      <4>2. [it EXCEPT !.pc = "review", !.key = key] \in Process
        BY <2>1, <3>1 DEF Process
      <4> HIDE DEF key
      <4>3. key = KeyOf(p, key.introduction)
        BY <3>1 DEF key, KeyOf
      <4>4. UNCHANGED <<supplied, checkpoint, filed, writes, flickered>> /\ it.pc = "compare"
        BY <2>7 DEF Compare, Now
      <4>5. /\ reviewing' \in [{"run", "alone"} -> Process]
            /\ reviewing'[p] = [it EXCEPT !.pc = "review", !.key = key]
            /\ \A q \in {"run", "alone"} \ {p} : reviewing'[q] = reviewing[q]
        BY <4>1, <4>2, Moving
      <4>6. /\ reviewing'[p].pc = "review" /\ reviewing'[p].key = key
            /\ reviewing'[p].mine = it.mine
        BY <2>1, <4>5 DEF Process
      <4>7. \A q \in {"run", "alone"} : ProcessSound(q)'
        <5>1. it.mine \in Selection
          BY <4>4 DEF ProcessSound
        <5>2. ProcessSound(p)'
          BY <3>1, <4>3, <4>6, <5>1 DEF ProcessSound, KeyOf
        <5>3. ASSUME NEW q \in {"run", "alone"} \ {p} PROVE ProcessSound(q)'
          BY <4>5 DEF ProcessSound, KeyOf
        <5> QED
          BY <5>2, <5>3
      <4> QED
        BY <4>4, <4>5, <4>6, <4>7 DEF PreflightTypeOK, FiledSound, Opened
    <3>3. CASE Applicable(key) /\ filed.ready /\ p = "run"
      <4>1. reviewing' = [reviewing EXCEPT ![p] =
              [it EXCEPT !.pc = "deliver", !.key = key, !.read = filed.read /\ filed.key = key]]
        BY <2>7, <3>3 DEF Compare
      <4>2. [it EXCEPT !.pc = "deliver", !.key = key, !.read = filed.read /\ filed.key = key]
              \in Process
        BY <2>1, <3>1, <3>3 DEF Process, Applicable, PreflightTypeOK, FiledReport
      <4> HIDE DEF key
      <4>3. key = KeyOf(p, key.introduction)
        BY <3>1 DEF key, KeyOf
      <4>4. ~flickered => filed.read /\ filed.key = key
        BY <3>3 DEF FiledSound, Applicable
      <4>5. UNCHANGED <<supplied, checkpoint, filed, writes, flickered>> /\ it.pc = "compare"
        BY <2>7 DEF Compare, Now
      <4>6. /\ reviewing' \in [{"run", "alone"} -> Process]
            /\ reviewing'[p] = [it EXCEPT !.pc = "deliver", !.key = key,
                                          !.read = filed.read /\ filed.key = key]
            /\ \A q \in {"run", "alone"} \ {p} : reviewing'[q] = reviewing[q]
        BY <4>1, <4>2, Moving
      <4>7. /\ reviewing'[p].pc = "deliver" /\ reviewing'[p].key = key
            /\ reviewing'[p].mine = it.mine
            /\ reviewing'[p].read = (filed.read /\ filed.key = key)
        BY <2>1, <4>6 DEF Process
      <4>8. \A q \in {"run", "alone"} : ProcessSound(q)'
        <5>1. it.mine \in Selection
          BY <4>5 DEF ProcessSound
        <5>2. ProcessSound(p)'
          BY <3>1, <4>3, <4>7, <5>1 DEF ProcessSound, KeyOf
        <5>3. ASSUME NEW q \in {"run", "alone"} \ {p} PROVE ProcessSound(q)'
          BY <4>6 DEF ProcessSound, KeyOf
        <5> QED
          BY <5>2, <5>3
      <4> QED
        BY <3>3, <4>4, <4>5, <4>6, <4>7, <4>8 DEF PreflightTypeOK, FiledSound, Opened
    <3> QED
      BY <2>2, <2>7, <3>2, <3>3 DEF Compare, Stops
  <2>8. CASE ReviewerReads(p)
    <3> DEFINE seen == supplied = [inputs |-> it.key.inputs, introduction |-> it.key.introduction]
    <3>1. reviewing' = [reviewing EXCEPT ![p] = [it EXCEPT !.pc = "read", !.read = seen]]
      BY <2>8 DEF ReviewerReads, PreflightTypeOK, Process
    <3>2. [it EXCEPT !.pc = "read", !.read = seen] \in Process
      BY <2>1 DEF Process
    <3> HIDE DEF seen
    <3>3. /\ reviewing' \in [{"run", "alone"} -> Process]
          /\ reviewing'[p] = [it EXCEPT !.pc = "read", !.read = seen]
          /\ \A q \in {"run", "alone"} \ {p} : reviewing'[q] = reviewing[q]
      BY <3>1, <3>2, Moving
    <3>4. /\ reviewing'[p].pc = "read" /\ reviewing'[p].key = it.key
          /\ reviewing'[p].mine = it.mine
      BY <2>1, <3>3 DEF Process
    <3>5. /\ it.pc = "review"
          /\ UNCHANGED <<supplied, checkpoint, filed, writes, flickered>>
      BY <2>8 DEF ReviewerReads, Now
    <3>6. \A q \in {"run", "alone"} : ProcessSound(q)'
      <4>1. it.mine \in Selection /\ it.key \in Key /\ it.key = KeyOf(p, it.key.introduction)
        BY <3>5 DEF ProcessSound, Keyed
      <4>2. ProcessSound(p)'
        BY <3>4, <4>1 DEF ProcessSound, KeyOf
      <4>3. ASSUME NEW q \in {"run", "alone"} \ {p} PROVE ProcessSound(q)'
        BY <3>3 DEF ProcessSound, KeyOf
      <4> QED
        BY <4>2, <4>3
    <3> QED
      BY <3>3, <3>4, <3>5, <3>6 DEF PreflightTypeOK, FiledSound, Opened
  <2>9. CASE RecordVerdict(p)
    <3>1. CASE supplied.introduction # it.key.introduction
      BY <2>2, <2>9, <3>1 DEF RecordVerdict
    <3>2. ASSUME NEW ready \in BOOLEAN,
                 filed' = [key |-> it.key, ready |-> ready, read |-> ready /\ it.read],
                 flickered' = (flickered \/ ~it.read),
                 \/ ready /\ p = "run" /\ To(p, "deliver")
                 \/ Stops(p)
          PROVE  PreflightTrusted'
      <4>1. it.pc = "write" /\ it.key \in Key /\ it.read \in BOOLEAN /\ flickered \in BOOLEAN
        BY <2>1, <2>9 DEF RecordVerdict, Now, ProcessSound, Process, Keyed, PreflightTypeOK
      <4>2. filed' \in FiledReport /\ flickered' \in BOOLEAN
        BY <3>2, <4>1 DEF FiledReport
      <4>3. FiledSound'
        BY <3>2, <4>1 DEF FiledSound
      <4>4. UNCHANGED <<supplied, checkpoint, writes>>
        BY <2>9 DEF RecordVerdict
      <4>5. CASE Stops(p)
        <5>1. ~flickered' => ~flickered
          BY <3>2, <4>1
        <5> QED
          BY <2>1, <4>2, <4>3, <4>4, <4>5, <5>1, Moving DEF Stops, Off, PreflightTypeOK,
             ProcessSound, Opened, Keyed, KeyOf
      <4>6. CASE p = "run" /\ To(p, "deliver")
        <5>1. reviewing' = [reviewing EXCEPT ![p] = [it EXCEPT !.pc = "deliver"]]
          BY <4>6 DEF To, PreflightTypeOK, Process
        <5>2. [it EXCEPT !.pc = "deliver"] \in Process
          BY <2>1 DEF Process
        <5>3. ~flickered' => it.read
          BY <3>2, <4>1
        <5> QED
          BY <2>1, <4>1, <4>2, <4>3, <4>4, <4>6, <5>1, <5>2, <5>3, Moving DEF PreflightTypeOK,
             Process, ProcessSound, Opened, Keyed, KeyOf
      <4> QED
        BY <3>2, <4>5, <4>6
    <3> QED
      BY <2>9, <3>1, <3>2 DEF RecordVerdict
  <2> QED
    BY <1>8, <2>4, <2>5, <2>6, <2>7, <2>8, <2>9
<1> QED
  BY <1>1, <1>2, <1>3, <1>4, <1>5, <1>6, <1>7, <1>8, PreflightCases

(* Preflight review (App::preflight, check_preflight): a campaign delivers    *)
(* on the inputs in its checkpoint, and the reviewer who said READY had read   *)
(* exactly these with the introduction and the settings of the report.         *)
THEOREM PreflightCorrect == PreflightSpec => []PreflightHolds
<1>1. PreflightTrusted => PreflightHolds
  BY DEF PreflightTrusted, PreflightHolds, ProcessSound, Opened, Keyed
<1> QED
  BY <1>1, PreflightInitially, PreflightKept, PTL DEF PreflightSpec
-----------------------------------------------------------------------------
Backed(evidence) ==
  evidence # Nothing /\ evidence.files # Unreadable =>
    /\ reviewed # Nothing
    /\ reviewed.tree = evidence.files.tree /\ reviewed.slice = evidence.slice

Beginning ==
  session \in {"briefing", "reviewing"} =>
    /\ began # Nothing
    /\ began.files # Unreadable => began.files.tree = began.start
    /\ began.steady => tree = began.start
    /\ session = "reviewing" /\ began.steady /\ began.start \in OnlySlice => began.whole

ReviewedWhole ==
  reviewed # Nothing /\ reviewed.steady /\ reviewed.tree \in OnlySlice => reviewed.whole

(* Only the gate comes after the last slice.                                 *)
Numbered(r) == r.slice <= MaxSlices \/ r.gate

EvidenceBacked ==
  /\ HandoffTypeOK /\ Beginning /\ ReviewedWhole
  /\ Backed(state.verification) /\ Backed(durable.verification)
  /\ Numbered(state) /\ Numbered(durable)

LEMMA HandoffCases ==
  ASSUME [HandoffNext]_handoff
  PROVE  \/ WorkEnds \/ VerifyStarts \/ Briefed \/ ReviewRetries \/ ReviewPassed
         \/ ArchiveStarts \/ ArchiveEnds \/ CommitStarts \/ CommitEnds
         \/ SliceAssigned \/ GatePrepares \/ CorrectionPlanned \/ AcceptanceEnds
         \/ CorrectionAccepted \/ SomeoneEdits \/ RunnerKilled \/ UNCHANGED handoff
  BY DEF HandoffNext

LEMMA Fingerprints ==
  ASSUME HandoffTypeOK, NEW where \in {"active", "archived"}, NEW now \in Fingerprint(where)
  PROVE  now \in Files \cup {Unreadable} /\ (now # Unreadable => now.tree = tree)
  BY DEF HandoffTypeOK, Fingerprint, Files

(* A step that leaves the tree and the review alone, and reviews nothing, keeps *)
(* the invariant if the evidence in the states it makes was there or is gone.   *)
Older(r) ==
  /\ r \in RunOfSlice /\ Numbered(r)
  /\ r.verification \in {state.verification, durable.verification, Nothing}

LEMMA EvidenceCarried ==
  ASSUME EvidenceBacked, Older(state'), Older(durable'),
         own' \in {"active", "archived"}, session' \in {"none", "archiving", "committing"},
         began' = began \/ began' = Nothing, tree' = tree, reviewed' = reviewed,
         told' \in {"nothing", "unknown", "unchanged", "changed"}
  PROVE  EvidenceBacked'
<1>1. HandoffTypeOK'
  BY DEF EvidenceBacked, HandoffTypeOK, Older
<1>2. Beginning' /\ ReviewedWhole'
  BY DEF EvidenceBacked, Beginning, ReviewedWhole
<1>3. Backed(state.verification)' /\ Backed(durable.verification)'
  BY DEF EvidenceBacked, Backed, Older
<1>4. Numbered(state)' /\ Numbered(durable)'
  BY DEF Older, Numbered
<1> QED
  BY <1>1, <1>2, <1>3, <1>4 DEF EvidenceBacked

LEMMA HandoffInitially == HandoffInit => EvidenceBacked
<1> SUFFICES ASSUME HandoffInit PROVE EvidenceBacked
  OBVIOUS
<1>1. 1 \in Slices
  BY HandoffAssumption DEF Slices
<1>2. state \in RunOfSlice /\ state.verification = Nothing /\ Numbered(state)
  BY <1>1, HandoffAssumption DEF HandoffInit, RunOfSlice, Numbered
<1>3. HandoffTypeOK
  BY <1>2 DEF HandoffInit, HandoffTypeOK
<1> QED
  BY <1>2, <1>3 DEF HandoffInit, EvidenceBacked, Beginning, ReviewedWhole, Backed, Numbered

(* The next slice's number is a number of a slice.                          *)
LEMMA NextSlice ==
  ASSUME NEW r \in RunOfSlice, r.slice <= MaxSlices, NEW s \in Successors(r)
  PROVE  s \in RunOfSlice /\ s.verification = r.verification /\ Numbered(s)
<1>1. r.slice + 1 \in Slices /\ (r.slice # MaxSlices => r.slice + 1 <= MaxSlices)
  BY HandoffAssumption DEF RunOfSlice, Slices
<1>2. PICK gate \in BOOLEAN :
        (r.slice = MaxSlices => gate) /\ s = [r EXCEPT !.slice = @ + 1, !.gate = gate, !.stage = IF gate THEN "gate" ELSE "work",
                      !.archive = Nothing]
  BY DEF Successors
<1> QED
  BY <1>1, <1>2 DEF RunOfSlice, Numbered

LEMMA BackedStep == EvidenceBacked /\ [HandoffNext]_handoff => EvidenceBacked'
<1> SUFFICES ASSUME EvidenceBacked, [HandoffNext]_handoff PROVE EvidenceBacked'
  OBVIOUS
<1>0. /\ tree \in Products /\ own \in {"active", "archived"}
      /\ state \in RunOfSlice /\ durable \in RunOfSlice
      /\ began \in Began \cup {Nothing} /\ reviewed \in PassedReview \cup {Nothing}
      /\ told \in {"nothing", "unknown", "unchanged", "changed"}
      /\ session \in {"none", "briefing", "reviewing", "archiving", "committing"}
      /\ Numbered(state) /\ Numbered(durable)
  BY DEF EvidenceBacked, HandoffTypeOK
<1>1. CASE WorkEnds
  <2>1. Older([state EXCEPT !.stage = "verify", !.corrected = FALSE])
    BY <1>0 DEF Older, RunOfSlice, Numbered
  <2> QED
    BY <1>0, <1>1, <2>1, EvidenceCarried DEF WorkEnds, AtStage, Persist, Older
<1>2. CASE VerifyStarts
  <2>1. PICK now \in Fingerprint(own) :
          began' = [files |-> now, start |-> tree, whole |-> state.gate, steady |-> TRUE]
    BY <1>2 DEF VerifyStarts
  <2>2. now \in Files \cup {Unreadable} /\ (now # Unreadable => now.tree = tree)
    BY <1>0, Fingerprints DEF EvidenceBacked
  <2>3. state' = [state EXCEPT !.verification = Nothing, !.archive = Nothing]
    BY <1>2 DEF VerifyStarts
  <2>4. state' \in RunOfSlice /\ state'.verification = Nothing /\ Numbered(state)'
    BY <1>0, <2>3 DEF RunOfSlice, Numbered
  <2>5. began' \in Began /\ began' # Nothing
    <3>1. state.gate \in BOOLEAN
      BY <1>0 DEF RunOfSlice
    <3>2. began' \in Began
      BY <1>0, <2>1, <2>2, <3>1 DEF Began
    <3> QED
      BY <3>2, NoEvidence
  <2>6. session' = "briefing" /\ UNCHANGED <<tree, own, durable, reviewed, told>>
    BY <1>2 DEF VerifyStarts
  <2>7. HandoffTypeOK'
    BY <1>0, <2>4, <2>5, <2>6 DEF HandoffTypeOK
  <2>8. Beginning'
    BY <2>1, <2>2, <2>5, <2>6 DEF Beginning
  <2> QED
    BY <2>4, <2>6, <2>7, <2>8 DEF EvidenceBacked, ReviewedWhole, Backed, Numbered
<1>3. CASE Briefed
  <2>1. began \in Began /\ session = "briefing"
    BY <1>0, <1>3 DEF Briefed, EvidenceBacked, Beginning
  <2>2. began' = [began EXCEPT !.whole = began.whole \/ tree \in OnlySlice]
    BY <1>3, <2>1 DEF Briefed, Began
  <2>3. began' \in Began /\ began' # Nothing
    BY <2>1, <2>2, NoEvidence DEF Began
  <2>4. session' = "reviewing" /\ UNCHANGED <<tree, own, state, durable, reviewed, told>>
    BY <1>3 DEF Briefed
  <2>5. HandoffTypeOK'
    BY <1>0, <2>3, <2>4 DEF HandoffTypeOK
  <2>6. /\ began'.files = began.files /\ began'.start = began.start /\ began'.steady = began.steady
        /\ tree \in OnlySlice => began'.whole
    BY <2>1, <2>2 DEF Began
  <2>7. Beginning'
    BY <2>1, <2>3, <2>4, <2>6 DEF EvidenceBacked, Beginning
  <2> QED
    BY <2>4, <2>5, <2>7 DEF EvidenceBacked, ReviewedWhole, Backed, Numbered
<1>4. CASE ReviewRetries
  <2>1. PICK s \in {"work", "verify"} : Persist([state EXCEPT !.stage = s])
    BY <1>4 DEF ReviewRetries
  <2>2. Older([state EXCEPT !.stage = s])
    BY <1>0 DEF Older, RunOfSlice, Numbered
  <2> QED
    BY <1>0, <1>4, <2>1, <2>2, EvidenceCarried DEF ReviewRetries, During, Persist, Older
<1>5. CASE ReviewPassed
  <2>1. PICK now \in Fingerprint(own) :
          Persist([state EXCEPT !.verification = Finished(now),
                                !.stage = IF state.gate THEN "acceptance" ELSE "archive"])
    BY <1>5 DEF ReviewPassed
  <2>2. now \in Files \cup {Unreadable} /\ (now # Unreadable => now.tree = tree)
    BY <1>0, Fingerprints DEF EvidenceBacked
  <2>3. session = "reviewing" /\ session' = "none" /\ told' = "nothing" /\ began' = Nothing
        /\ UNCHANGED <<tree, own>>
    BY <1>5 DEF ReviewPassed, During
  <2>4. began \in Began
    BY <1>0, <2>3 DEF EvidenceBacked, Beginning
  <2>5. Finished(now) \in Evidence
    BY <1>0, <2>2 DEF Finished, Evidence, RunOfSlice
  <2>6. state' \in RunOfSlice /\ state'.verification = Finished(now) /\ durable' = state'
        /\ Numbered(state)' /\ Numbered(durable)'
    BY <1>0, <2>1, <2>5 DEF Persist, RunOfSlice, Numbered
  <2>7. CASE tree # began.start
    <3>1. Finished(now).files = Unreadable
      BY <2>2, <2>3, <2>7 DEF Finished, EvidenceBacked, Beginning
    <3>2. reviewed' = Nothing
      BY <1>5, <2>7 DEF ReviewPassed
    <3>3. HandoffTypeOK'
      BY <1>0, <2>3, <2>6, <3>2 DEF HandoffTypeOK
    <3> QED
      BY <2>3, <2>6, <3>1, <3>2, <3>3 DEF EvidenceBacked, Beginning, ReviewedWhole, Backed, Numbered
  <2>8. CASE tree = began.start
    <3>1. reviewed' = [slice |-> state.slice, tree |-> tree, whole |-> began.whole,
                       steady |-> began.steady]
      BY <1>5, <2>8 DEF ReviewPassed
    <3>2. reviewed' \in PassedReview /\ reviewed' # Nothing
      BY <1>0, <2>4, <3>1, NoEvidence DEF PassedReview, Began, RunOfSlice
    <3>3. HandoffTypeOK'
      BY <1>0, <2>3, <2>6, <3>2 DEF HandoffTypeOK
    <3>4. Finished(now).slice = state.slice
          /\ (Finished(now).files # Unreadable => Finished(now).files.tree = tree)
      BY <2>2 DEF Finished
    <3>5. Backed(state.verification)' /\ Backed(durable.verification)'
      BY <2>6, <3>1, <3>2, <3>4 DEF Backed
    <3>6. ReviewedWhole'
      BY <2>3, <2>8, <3>1 DEF ReviewedWhole, EvidenceBacked, Beginning
    <3> QED
      BY <2>3, <2>6, <3>3, <3>5, <3>6 DEF EvidenceBacked, Beginning
  <2> QED
    BY <2>7, <2>8
<1>6. CASE ArchiveStarts
  <2>1. Older([state EXCEPT !.archive = Nothing]) /\ Older(durable)
    BY <1>0 DEF Older, RunOfSlice, Numbered
  <2>2. told' \in {"nothing", "unknown", "unchanged", "changed"}
    BY <1>6 DEF ArchiveStarts, Claim
  <2> QED
    BY <1>0, <1>6, <2>1, <2>2, EvidenceCarried DEF ArchiveStarts, Older
<1>7. CASE ArchiveEnds
  <2>1. PICK evidence \in {Nothing} \cup [slice : {state.slice}, files : Fingerprint("archived")] :
          Persist([state EXCEPT !.archive = evidence, !.stage = "commit"])
    BY <1>7 DEF ArchiveEnds
  <2>2. \A now \in Fingerprint("archived") : now \in Files \cup {Unreadable}
    BY Fingerprints DEF EvidenceBacked
  <2>3. evidence \in Evidence \cup {Nothing}
    BY <1>0, <2>2 DEF Evidence, RunOfSlice
  <2>4. Older([state EXCEPT !.archive = evidence, !.stage = "commit"])
    BY <1>0, <2>3 DEF Older, RunOfSlice, Numbered
  <2> QED
    BY <1>0, <1>7, <2>1, <2>4, EvidenceCarried DEF ArchiveEnds, During, Persist, Older
<1>8. CASE CommitStarts
  <2>1. told' \in {"nothing", "unknown", "unchanged", "changed"}
    BY <1>8 DEF CommitStarts, Claim
  <2> QED
    BY <1>0, <1>8, <2>1, EvidenceCarried DEF CommitStarts, Older
<1>9. CASE CommitEnds
  <2>1. Older([state EXCEPT !.stage = "done"])
    BY <1>0 DEF Older, RunOfSlice, Numbered
  <2> QED
    BY <1>0, <1>9, <2>1, EvidenceCarried DEF CommitEnds, During, Persist, Older
<1>10. CASE SliceAssigned
  <2>1. PICK r \in Successors(state) : Persist(r)
    BY <1>10 DEF SliceAssigned
  <2>2. state.slice <= MaxSlices
    BY <1>0, <1>10 DEF SliceAssigned, Numbered
  <2>3. Older(r)
    BY <1>0, <2>1, <2>2, NextSlice DEF Older
  <2> QED
    BY <1>0, <1>10, <2>1, <2>3, EvidenceCarried DEF SliceAssigned, AtStage, Persist, Older
<1>11. CASE GatePrepares
  <2>1. PICK s \in {"acceptance", "verify"} : Persist([state EXCEPT !.stage = s])
    BY <1>11 DEF GatePrepares
  <2>2. Older([state EXCEPT !.stage = s])
    BY <1>0 DEF Older, RunOfSlice, Numbered
  <2> QED
    BY <1>0, <1>11, <2>1, <2>2, EvidenceCarried DEF GatePrepares, AtStage, Persist, Older
<1>12. CASE CorrectionPlanned
  <2>1. PICK r \in {[state EXCEPT !.stage = "verify", !.corrected = FALSE],
                    [state EXCEPT !.stage = "work", !.gate = FALSE, !.corrected = FALSE]} :
          Persist(r) /\ Numbered(r)
    BY <1>0, <1>12 DEF CorrectionPlanned, RunOfSlice, Numbered
  <2>2. Older(r)
    BY <1>0, <2>1 DEF Older, RunOfSlice
  <2> QED
    BY <1>0, <1>12, <2>1, <2>2, EvidenceCarried DEF CorrectionPlanned, AtStage, Persist, Older
<1>13. CASE AcceptanceEnds
  <2>1. PICK s \in {"commit", "work"} : Persist([state EXCEPT !.stage = s])
    BY <1>13 DEF AcceptanceEnds
  <2>2. Older([state EXCEPT !.stage = s])
    BY <1>0 DEF Older, RunOfSlice, Numbered
  <2> QED
    BY <1>0, <1>13, <2>1, <2>2, EvidenceCarried DEF AcceptanceEnds, AtStage, Persist, Older
<1>14. CASE CorrectionAccepted
  <2> DEFINE r == [state EXCEPT !.verification = Nothing, !.archive = Nothing, !.corrected = TRUE,
                                !.stage = IF state.gate THEN "gate" ELSE "work"]
  <2>1. /\ r \in RunOfSlice /\ Numbered(r)
        /\ r.verification = Nothing /\ r.slice = state.slice
    BY <1>0 DEF RunOfSlice, Numbered
  <2>2. PICK s \in Successors(r) \cup {r} :
          Persist(s) /\ (s = r \/ (s \in Successors(r) /\ state.slice <= MaxSlices))
    <3>1. CASE own = "archived"
      <4>1. state.slice <= MaxSlices /\ \E s \in Successors(r) : Persist(s)
        BY <1>14, <3>1 DEF CorrectionAccepted
      <4> QED
        BY <4>1
    <3>2. CASE own # "archived"
      <4>1. Persist(r)
        BY <1>14, <3>2 DEF CorrectionAccepted
      <4> QED
        BY <4>1
    <3> QED
      BY <3>1, <3>2
  <2> HIDE DEF r
  <2>3. Older(s)
    BY <2>1, <2>2, NextSlice DEF Older
  <2>4. session = "none" /\ own' \in {"active", "archived"}
        /\ UNCHANGED <<tree, session, began, reviewed, told>>
    BY <1>0, <1>14 DEF CorrectionAccepted
  <2> QED
    BY <1>0, <2>2, <2>3, <2>4, EvidenceCarried DEF Persist, Older
<1>15. CASE SomeoneEdits
  <2>1. tree' \in Products /\ UNCHANGED <<own, state, durable, session, reviewed, told>>
    BY <1>15 DEF SomeoneEdits
  <2>2. CASE began = Nothing
    <3>1. began' = Nothing
      BY <1>15, <2>2 DEF SomeoneEdits
    <3> QED
      BY <1>0, <2>1, <2>2, <3>1 DEF EvidenceBacked, HandoffTypeOK, Beginning, ReviewedWhole, Backed, Numbered
  <2>3. CASE began # Nothing
    <3>1. began \in Began /\ began' = [began EXCEPT !.steady = FALSE]
      BY <1>0, <1>15, <2>3 DEF SomeoneEdits
    <3>2. began' \in Began /\ began'.steady = FALSE /\ began'.files = began.files
          /\ began'.start = began.start
      BY <3>1 DEF Began
    <3>3. began' # Nothing
      BY <3>2, NoEvidence
    <3>4. HandoffTypeOK'
      BY <1>0, <2>1, <3>2 DEF HandoffTypeOK
    <3>5. Beginning'
      BY <2>1, <3>2, <3>3 DEF EvidenceBacked, Beginning
    <3> QED
      BY <2>1, <3>4, <3>5 DEF EvidenceBacked, ReviewedWhole, Backed, Numbered
  <2> QED
    BY <2>2, <2>3
<1>16. CASE RunnerKilled
  <2>1. own' \in {"active", "archived"}
    BY <1>0, <1>16 DEF RunnerKilled
  <2> QED
    BY <1>0, <1>16, <2>1, EvidenceCarried DEF RunnerKilled, Older
<1>17. CASE UNCHANGED handoff
  BY <1>17 DEF handoff, EvidenceBacked, HandoffTypeOK, Beginning, ReviewedWhole, Backed, Numbered
<1> QED
  BY <1>1, <1>2, <1>3, <1>4, <1>5, <1>6, <1>7, <1>8, <1>9, <1>10, <1>11, <1>12, <1>13, <1>14,
     <1>15, <1>16, <1>17, HandoffCases

(* Evidence of verification (verification.rs, prepare_direct_acceptance): what  *)
(* the sessions that archive and commit are told, and the gate that passes     *)
(* over its review, rest on a review of the very tree.                        *)
THEOREM HandoffHonest == HandoffSpec => EvidenceHonest
<1> DEFINE Honest ==
      /\ (ArchiveStarts \/ CommitStarts) /\ told' = "unchanged" =>
           ReviewedNow(FALSE) /\ (state.gate \/ reviewed.slice = state.slice)
      /\ GatePrepares /\ state'.stage = "acceptance" => ReviewedNow(TRUE)
<1>1. EvidenceBacked => Honest
  <2> SUFFICES ASSUME EvidenceBacked PROVE Honest
    OBVIOUS
  <2>1. ASSUME ArchiveStarts \/ CommitStarts, told' = "unchanged"
        PROVE  ReviewedNow(FALSE) /\ (state.gate \/ reviewed.slice = state.slice)
    <3>1. PICK now \in Fingerprint(own) : Claim(OfChange(state.verification), now) = "unchanged"
      BY <2>1 DEF ArchiveStarts, CommitStarts
    <3>2. /\ state.verification # Nothing
          /\ state.verification.slice = state.slice \/ state.gate
          /\ state.verification.files # Unreadable /\ now # Unreadable
          /\ state.verification.files = now
      BY <3>1 DEF Claim, OfChange
    <3>3. now.tree = tree
      BY <3>2, Fingerprints DEF EvidenceBacked, HandoffTypeOK
    <3> QED
      BY <3>2, <3>3 DEF EvidenceBacked, Backed, ReviewedNow
  <2>2. ASSUME GatePrepares, state'.stage = "acceptance" PROVE ReviewedNow(TRUE)
    <3>1. PICK now \in Fingerprint(own) :
            state' = [state EXCEPT !.stage = IF tree \in OnlySlice /\ DeliveryUnchanged(now)
                                             THEN "acceptance" ELSE "verify"]
      BY <2>2 DEF GatePrepares, Persist
    <3>2. tree \in OnlySlice /\ DeliveryUnchanged(now)
      BY <2>2, <3>1 DEF EvidenceBacked, HandoffTypeOK, RunOfSlice
    <3>3. now.tree = tree
      BY <3>2, Fingerprints DEF DeliveryUnchanged, EvidenceBacked, HandoffTypeOK
    <3> QED
      BY <3>2, <3>3 DEF DeliveryUnchanged, EvidenceBacked, Backed, ReviewedWhole, ReviewedNow
  <2> QED
    BY <2>1, <2>2
<1>2. EvidenceBacked /\ [HandoffNext]_handoff => [Honest]_handoff
  BY <1>1
<1> HIDE DEF Honest
<1>3. HandoffSpec => [][Honest]_handoff
  BY <1>2, HandoffInitially, BackedStep, PTL DEF HandoffSpec
<1> USE DEF Honest
<1> QED
  BY <1>3 DEF EvidenceHonest
-----------------------------------------------------------------------------
(* The stages, the review of the inputs and the handoff, together            *)

(* A behaviour of the composed system is one of each of its parts, at work or *)
(* at rest, so all that is proved of Workflow, Preflight and Handoff holds   *)
(* where the three are checked together.                                    *)
THEOREM DeliveryComposes == DeliverySpec => Spec /\ PreflightSpec /\ HandoffSpec
<1>1. DeliveryInit => Init /\ PreflightInit /\ HandoffInit
  BY DEF DeliveryInit
<1>2. [DeliveryNext]_everything =>
        [Next]_vars /\ [PreflightNext]_preflight /\ [HandoffNext]_handoff
  BY DEF DeliveryNext, everything
<1> QED
  BY <1>1, <1>2, PTL DEF DeliverySpec, Spec, PreflightSpec, HandoffSpec

(* The type invariant of the three together: every stage, review and handoff *)
(* leaves the values that the states of RunState, of a report on file and of *)
(* last-run.json may have.                                                   *)
THEOREM DeliveryTypes == DeliverySpec => []DeliveryTypeOK
<1>1. PreflightTrusted => PreflightTypeOK
  BY DEF PreflightTrusted
<1>2. EvidenceBacked => HandoffTypeOK
  BY DEF EvidenceBacked
<1>3. TypeOK /\ PreflightTypeOK /\ HandoffTypeOK => DeliveryTypeOK
  BY DEF DeliveryTypeOK
<1>4. PreflightSpec => []PreflightTrusted
  BY PreflightInitially, PreflightKept, PTL DEF PreflightSpec
<1>5. HandoffSpec => []EvidenceBacked
  BY HandoffInitially, BackedStep, PTL DEF HandoffSpec
<1> QED
  BY <1>1, <1>2, <1>3, <1>4, <1>5, DeliveryComposes, EngineTypes, PTL
=============================================================================
