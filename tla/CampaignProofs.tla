--------------------------- MODULE CampaignProofs ---------------------------
(***************************************************************************)
(* The campaign, for all slices, agendas, limits and starts.               *)
(*                                                                         *)
(* Between any two actions the checkpoint can be resumed: Sorted says what  *)
(* it is like at each place of the process, and the After lemmas what each  *)
(* action that builds a new checkpoint leaves in it.                       *)
(*                                                                         *)
(* On this rest the parts of the invariant. Rounds, Limited and Earned      *)
(* give AllowancesKept, Counting gives CountedOnce: a slice that is         *)
(* assigned is not archived (Selected), so no iteration can count another   *)
(* one's slice. Reviewing gives GateLast: when the gate is next every other *)
(* slice has been archived, as its number is the last, and from READY on    *)
(* only the gate itself is archived.                                       *)
(***************************************************************************)
EXTENDS Campaign, Dashboard, FiniteSetTheorems, SequenceTheorems, TLAPS

(* There is a run to resume.                                                *)
Known == disk.stage # "none"

(* The checkpoint is the state of the process.                              *)
Saved ==
  /\ pc \notin {"idle", "rewinding"} => mem = disk /\ Known
  /\ Known \/ disk = NoState

(* The stage of the checkpoint is the one the process is at; a frontier     *)
(* session is for a slice that is too large or for the gate.                *)
Placed ==
  /\ pc \in {"work", "frontier", "session", "again"} => disk.stage = "Propose"
  /\ pc = "work" => ~NeedsReview(disk) /\ ~disk.tooLarge
  /\ pc \in {"archive", "archived"} => disk.stage = "Archive"
  /\ pc = "complete" => disk.stage = "Complete"
  /\ pc = "next" => disk.stage = "Complete" /\ ~disk.bootstrap /\ disk.loop /\ Counted(disk)
  /\ pc \in {"frontier", "session", "again"} =>
       ~disk.bootstrap /\ (disk.tooLarge \/ (Gate(disk) /\ ~disk.ready))
  /\ pc \in {"session", "again"} /\ ~Gate(disk) => disk.replans < MaxReplans
  /\ disk.tooLarge => disk.stage = "Propose"
  /\ disk.stage \in {"Propose", "Archive", "Complete"} /\ ~disk.bootstrap => disk.slice \in Slices
  /\ disk.stage \in {"Archive", "Complete"} /\ Gate(disk) => disk.ready

(* A bootstrap has no slice and has spent nothing.                          *)
Planning ==
  disk.bootstrap /\ Known =>
    /\ disk.slice = NoSlice /\ disk.iteration = 1 /\ disk.completed = <<>>
    /\ disk.remediations = 0 /\ doneSince = {}

(* A single run counts and limits nothing.                                  *)
Single ==
  ~disk.loop => disk.iteration = 1 /\ disk.completed = <<>> /\ disk.limit = 0

(* As many slices are recorded as iterations were finished.                 *)
Lengths ==
  /\ disk.iteration >= 1
  /\ \/ Len(disk.completed) = disk.iteration - 1
     \/ disk.stage = "Complete" /\ Len(disk.completed) = disk.iteration

(* What can be said of the checkpoint without the history.                  *)
Sorted == CampaignTypeOK /\ Saved /\ Placed /\ Planning /\ Single /\ Lengths

(* What is assumed of the constants; no slice is the slice of no slice.     *)
LEMMA Bounds ==
  /\ MaxReplans \in Nat /\ MaxRemediations \in Nat /\ MaxStarts \in Nat
  /\ Limits \cup {0} \subseteq Nat /\ Terminal \in Slices
  /\ NoSlice \notin Slices /\ NoSlice # Terminal
<1>1. NoSlice.ordinal = <<>>
  BY DEF NoSlice
<1>2. \A s \in Slices : s.ordinal # <<>>
  BY CampaignAssumption
<1> QED
  BY <1>1, <1>2, CampaignAssumption

(* A run that has no checkpoint.                                            *)
LEMMA NoStateFields ==
  /\ NoState \in RunState
  /\ NoState.stage = "none" /\ NoState.slice = NoSlice /\ NoState.base = {}
  /\ ~NoState.bootstrap /\ ~NoState.loop /\ NoState.iteration = 1 /\ NoState.limit = 0
  /\ NoState.completed = <<>> /\ ~NoState.localOnly /\ ~NoState.ready /\ ~NoState.tooLarge
  /\ NoState.replans = 0 /\ NoState.remediations = 0
<1>1. <<>> \in Seq(Slices)
  OBVIOUS
<1> QED
  BY <1>1, Bounds DEF NoState, RunState

(* The next state of a campaign.                                            *)
LEMMA NextFields ==
  ASSUME NEW m \in RunState
  PROVE  /\ Next(m) \in RunState
         /\ ~Next(m).bootstrap /\ Next(m).loop /\ Next(m).iteration = m.iteration
         /\ Next(m).limit = m.limit /\ Next(m).completed = m.completed
         /\ ~Next(m).localOnly /\ ~Next(m).ready /\ ~Next(m).tooLarge
         /\ Next(m).remediations = m.remediations
BY NoStateFields DEF Next, NoState, RunState

(* What assigning a slice leaves alone.                                     *)
Same(n, m) ==
  /\ n.bootstrap = m.bootstrap /\ n.loop = m.loop /\ n.iteration = m.iteration
  /\ n.limit = m.limit /\ n.completed = m.completed /\ n.localOnly = m.localOnly
  /\ n.ready = m.ready /\ n.tooLarge = m.tooLarge /\ n.remediations = m.remediations

(* An assigned state has the next slice, or is done; the rest is kept.      *)
LEMMA AssignedFields ==
  ASSUME NEW m \in RunState, NEW n, Assigned(m, n), agenda \subseteq Slices
  PROVE  /\ n \in RunState /\ Same(n, m)
         /\ \/ n.stage = "Done" /\ n.slice = m.slice
            \/ /\ n.stage = "Propose" /\ n.slice \in agenda /\ n.base = agenda
               /\ Selects(agenda, n.slice)
<1>1. CASE \E s \in agenda :
             Selects(agenda, s) /\ n = [m EXCEPT !.stage = "Propose", !.slice = s, !.base = agenda]
  <2>1. PICK s \in agenda :
          Selects(agenda, s) /\ n = [m EXCEPT !.stage = "Propose", !.slice = s, !.base = agenda]
    BY <1>1
  <2>2. n \in RunState /\ n.stage = "Propose" /\ n.slice = s /\ n.base = agenda /\ Same(n, m)
    BY <2>1 DEF RunState, Same
  <2> QED
    BY <2>1, <2>2
<1>2. CASE n = [m EXCEPT !.stage = "Done"]
  BY <1>2 DEF RunState, Same
<1> QED
  BY <1>1, <1>2 DEF Assigned

(* Without a run everything is in order.                                    *)
LEMMA TypesInitially == CampaignInit => Sorted
<1> SUFFICES ASSUME CampaignInit PROVE Sorted
  OBVIOUS
<1>1. mem = NoState /\ disk = NoState /\ pc = "idle"
  BY DEF CampaignInit
<1>2. agenda \subseteq Slices /\ archived \subseteq Slices
  BY CampaignAssumption DEF CampaignInit
<1>3. commits \subseteq [agenda : SUBSET Slices, archived : SUBSET Slices]
  BY <1>2 DEF CampaignInit
<1>4. CampaignTypeOK
  <2>1. mem \in RunState /\ disk \in RunState /\ starts \in 0..MaxStarts
    BY <1>1, Bounds, NoStateFields DEF CampaignInit
  <2>2. doneSince = {} /\ reviewed = {} /\ rounds = 0 /\ allowed = 0 /\ torn = FALSE
        /\ local = FALSE
    BY DEF CampaignInit
  <2> QED
    BY <1>1, <1>2, <1>3, <2>1, <2>2 DEF CampaignTypeOK
<1>5. Len(disk.completed) = 0
  BY <1>1, NoStateFields
<1> QED
  BY <1>1, <1>4, <1>5, NoStateFields, Bounds
     DEF Sorted, Saved, Placed, Planning, Single, Lengths, Known, Gate

(* A commit has the agenda and the archive.                                 *)
LEMMA Committed ==
  ASSUME CampaignTypeOK, Commit
  PROVE  commits' \subseteq [agenda : SUBSET Slices, archived : SUBSET Slices]
<1>1. [agenda |-> agenda, archived |-> archived]
        \in [agenda : SUBSET Slices, archived : SUBSET Slices]
  BY DEF CampaignTypeOK
<1> QED
  BY <1>1 DEF Commit, CampaignTypeOK

(* The states that commands and iterations begin with.                      *)
LEMMA Handed ==
  ASSUME NEW m \in RunState
  PROVE  LET n == [m EXCEPT !.remediations = 0]
         IN /\ n \in RunState /\ n.bootstrap = m.bootstrap /\ n.loop = m.loop
            /\ n.iteration = m.iteration /\ n.limit = m.limit /\ n.completed = m.completed
            /\ n.localOnly = m.localOnly /\ n.ready = m.ready /\ n.tooLarge = m.tooLarge
            /\ n.remediations = 0
BY Bounds DEF RunState

(* One iteration on.                                                        *)
LEMMA Advanced ==
  ASSUME NEW m \in RunState
  PROVE  LET n == [m EXCEPT !.iteration = @ + 1]
         IN /\ n \in RunState /\ n.bootstrap = m.bootstrap /\ n.loop = m.loop
            /\ n.iteration = m.iteration + 1 /\ n.limit = m.limit /\ n.completed = m.completed
            /\ n.localOnly = m.localOnly /\ n.ready = m.ready /\ n.tooLarge = m.tooLarge
            /\ n.remediations = m.remediations
BY Bounds DEF RunState

(* The states that commands begin with.                                     *)
Armed(m, loop, limit, localOnly) ==
  [m EXCEPT !.loop = loop, !.limit = limit, !.localOnly = localOnly]

Planned(m, loop, limit) ==
  [m EXCEPT !.stage = "Propose", !.bootstrap = TRUE, !.loop = loop, !.limit = limit]

(* A state that is armed with the options of the command.                   *)
LEMMA Launched ==
  ASSUME NEW m \in RunState, NEW loop \in BOOLEAN, NEW limit \in Limits \cup {0},
         NEW localOnly \in BOOLEAN, NEW n, n = Armed(m, loop, limit, localOnly)
  PROVE  /\ n \in RunState /\ n.stage = m.stage /\ n.slice = m.slice /\ n.base = m.base
         /\ n.bootstrap = m.bootstrap /\ n.loop = loop
         /\ n.iteration = m.iteration /\ n.limit = limit /\ n.completed = m.completed
         /\ n.localOnly = localOnly /\ n.ready = m.ready /\ n.tooLarge = m.tooLarge
         /\ n.replans = m.replans /\ n.remediations = m.remediations
BY Bounds DEF RunState, Armed

(* A state that plans the agenda.                                           *)
LEMMA Bootstrapped ==
  ASSUME NEW m \in RunState, NEW loop \in BOOLEAN, NEW limit \in Limits \cup {0},
         NEW n, n = Planned(m, loop, limit)
  PROVE  /\ n \in RunState /\ n.stage = "Propose" /\ n.slice = m.slice
         /\ n.bootstrap /\ n.loop = loop
         /\ n.iteration = m.iteration /\ n.limit = limit /\ n.completed = m.completed
         /\ n.localOnly = m.localOnly /\ n.ready = m.ready /\ n.tooLarge = m.tooLarge
         /\ n.remediations = m.remediations
BY Bounds DEF RunState, Planned

(* One more iteration is recorded.                                          *)
LEMMA OneMore ==
  ASSUME NEW m \in RunState, m.slice \in Slices
  PROVE  LET n == [m EXCEPT !.completed = Append(@, m.slice)]
         IN /\ n \in RunState /\ Same(n, m) = (n.completed = m.completed)
            /\ n.stage = m.stage /\ n.slice = m.slice /\ n.base = m.base
            /\ n.completed = Append(m.completed, m.slice)
            /\ Len(n.completed) = Len(m.completed) + 1
            /\ Len(m.completed) \in Nat
<1> DEFINE n == [m EXCEPT !.completed = Append(@, m.slice)]
<1>1. m.completed \in Seq(Slices)
  BY DEF RunState
<1>2. /\ Append(m.completed, m.slice) \in Seq(Slices)
      /\ Len(Append(m.completed, m.slice)) = Len(m.completed) + 1 /\ Len(m.completed) \in Nat
  BY <1>1
<1>3. /\ n \in RunState
      /\ n.completed = Append(m.completed, m.slice)
  BY <1>2 DEF RunState
<1>4. /\ n.stage = m.stage /\ n.slice = m.slice /\ n.base = m.base
      /\ n.bootstrap = m.bootstrap /\ n.loop = m.loop /\ n.iteration = m.iteration
      /\ n.limit = m.limit /\ n.localOnly = m.localOnly
      /\ n.ready = m.ready /\ n.tooLarge = m.tooLarge /\ n.remediations = m.remediations
  BY DEF RunState
<1> QED
  BY <1>2, <1>3, <1>4 DEF Same

(* What the actions that build a new state leave in the checkpoint: a       *)
(* command starts the history afresh.                                       *)
LEMMA AfterLaunch ==
  ASSUME Sorted, Launch
  PROVE  /\ disk' \in RunState /\ mem' = disk' /\ pc' = "loop"
         /\ ~disk'.bootstrap /\ ~disk'.ready /\ ~disk'.tooLarge
         /\ disk'.iteration = 1 /\ disk'.completed = <<>> /\ disk'.remediations = 0
         /\ \/ disk'.stage = "Done"
            \/ /\ disk'.stage = "Propose" /\ disk'.slice \in agenda /\ disk'.base = agenda
               /\ Selects(agenda, disk'.slice)
         /\ ~disk'.loop => disk'.limit = 0
         /\ allowed' = disk'.limit
         /\ doneSince' = {} /\ rounds' = 0 /\ reviewed' = {} /\ torn' = FALSE
         /\ local' \in BOOLEAN /\ starts' \in 0..MaxStarts /\ UNCHANGED repository
<1>0. agenda \subseteq Slices /\ starts \in 0..MaxStarts
  BY DEF Sorted, CampaignTypeOK
<1>1. PICK loop \in BOOLEAN, limit \in Limits :
        LET m == [NoState EXCEPT !.loop = loop, !.limit = IF loop THEN limit ELSE 0,
                                 !.localOnly = local']
        IN /\ \E n \in States(m) : Assigned(m, n) /\ Save(n)
           /\ StartsAfresh(limit, loop)
  BY DEF Launch
<1>2. PICK given \in Limits \cup {0} : given = IF loop THEN limit ELSE 0
  BY ONLY <1>1
<1>3. PICK m : m = Armed(NoState, loop, given, local')
  OBVIOUS
<1>4. PICK n : Assigned(m, n) /\ Save(n)
  BY ONLY <1>1, <1>2, <1>3 DEF Armed
<1>5. pc' = "loop" /\ local' \in BOOLEAN /\ starts' \in 0..MaxStarts /\ UNCHANGED repository
  BY <1>0, Bounds DEF Launch, Started
<1>6. /\ m \in RunState /\ ~m.bootstrap /\ m.loop = loop /\ m.limit = given
      /\ m.iteration = 1 /\ m.completed = <<>> /\ ~m.tooLarge /\ ~m.ready
      /\ m.remediations = 0
  <2>1. /\ loop \in BOOLEAN /\ given \in Limits \cup {0} /\ local' \in BOOLEAN
        /\ NoState \in RunState
    BY <1>1, <1>2, <1>5, NoStateFields
  <2>2. /\ m \in RunState /\ m.bootstrap = NoState.bootstrap /\ m.loop = loop
        /\ m.limit = given /\ m.iteration = NoState.iteration
        /\ m.completed = NoState.completed /\ m.tooLarge = NoState.tooLarge
        /\ m.ready = NoState.ready /\ m.remediations = NoState.remediations
    BY ONLY <2>1, <1>3, Launched
  <2> QED
    BY ONLY <2>2, NoStateFields
<1>7. /\ n \in RunState /\ Same(n, m)
      /\ \/ n.stage = "Done"
         \/ /\ n.stage = "Propose" /\ n.slice \in agenda /\ n.base = agenda
            /\ Selects(agenda, n.slice)
  BY ONLY <1>0, <1>4, <1>6, AssignedFields
<1>8. /\ disk' = n /\ mem' = disk'
      /\ doneSince' = {} /\ rounds' = 0 /\ reviewed' = {} /\ torn' = FALSE
      /\ allowed' = given
  BY ONLY <1>1, <1>2, <1>4 DEF StartsAfresh, Save
<1> QED
  BY ONLY <1>2, <1>5, <1>6, <1>7, <1>8 DEF Same

(* The bootstrap has no slice, and starts the history afresh.               *)
LEMMA AfterBootstrap ==
  ASSUME Sorted, Bootstrap
  PROVE  /\ disk' \in RunState /\ mem' = disk' /\ pc' = "loop"
         /\ disk'.bootstrap /\ ~disk'.ready /\ ~disk'.tooLarge
         /\ disk'.iteration = 1 /\ disk'.completed = <<>> /\ disk'.remediations = 0
         /\ disk'.stage = "Propose" /\ disk'.slice = NoSlice
         /\ ~disk'.loop => disk'.limit = 0
         /\ allowed' = disk'.limit
         /\ doneSince' = {} /\ rounds' = 0 /\ reviewed' = {} /\ torn' = FALSE
         /\ local' \in BOOLEAN /\ starts' \in 0..MaxStarts /\ UNCHANGED repository
<1>0. starts \in 0..MaxStarts
  BY DEF Sorted, CampaignTypeOK
<1>1. PICK loop \in BOOLEAN, limit \in Limits :
        /\ Save([NoState EXCEPT !.stage = "Propose", !.bootstrap = TRUE, !.loop = loop,
                                !.limit = IF loop THEN limit ELSE 0])
        /\ StartsAfresh(limit, loop)
  BY DEF Bootstrap
<1>2. PICK given \in Limits \cup {0} : given = IF loop THEN limit ELSE 0
  BY ONLY <1>1
<1>3. disk' = Planned(NoState, loop, given) /\ mem' = disk'
  BY ONLY <1>1, <1>2 DEF Save, Planned
<1>4. /\ disk' \in RunState /\ disk'.stage = "Propose" /\ disk'.slice = NoState.slice
      /\ disk'.bootstrap /\ disk'.loop = loop
      /\ disk'.iteration = NoState.iteration /\ disk'.limit = given
      /\ disk'.completed = NoState.completed /\ disk'.tooLarge = NoState.tooLarge
      /\ disk'.remediations = NoState.remediations /\ disk'.ready = NoState.ready
  <2>1. loop \in BOOLEAN /\ given \in Limits \cup {0} /\ NoState \in RunState
    BY <1>1, <1>2, NoStateFields
  <2> QED
    BY ONLY <1>3, <2>1, Bootstrapped
<1>5. /\ doneSince' = {} /\ rounds' = 0 /\ reviewed' = {} /\ torn' = FALSE
      /\ allowed' = given
  BY ONLY <1>1, <1>2 DEF StartsAfresh
<1>6. pc' = "loop" /\ local' = FALSE /\ starts' \in 0..MaxStarts /\ UNCHANGED repository
  BY <1>0, Bounds DEF Bootstrap, Started
<1> QED
  BY ONLY <1>2, <1>3, <1>4, <1>5, <1>6, NoStateFields

(* A resumption keeps the slice and what was spent; only the loop, the      *)
(* limit and --local-only may be other.                                     *)
LEMMA AfterResume ==
  ASSUME Sorted, Resume
  PROVE  /\ disk' \in RunState /\ mem' = disk' /\ pc' = "loop" /\ pc = "idle" /\ Known
         /\ disk'.stage = disk.stage /\ disk'.slice = disk.slice /\ disk'.base = disk.base
         /\ disk'.bootstrap = disk.bootstrap /\ disk'.iteration = disk.iteration
         /\ disk'.completed = disk.completed /\ disk'.remediations = disk.remediations
         /\ disk'.ready = disk.ready /\ disk'.tooLarge = disk.tooLarge
         /\ disk.loop => disk'.loop
         /\ disk.localOnly => disk'.localOnly
         /\ ~disk'.loop => disk'.limit = 0
         /\ allowed' = (IF disk.loop THEN Max2(allowed, disk'.limit) ELSE disk'.limit)
         /\ local' \in BOOLEAN /\ starts' \in 0..MaxStarts
         /\ UNCHANGED <<repository, doneSince, rounds, reviewed, torn>>
<1>0. /\ disk \in RunState /\ starts \in 0..MaxStarts /\ disk.limit \in Limits \cup {0}
      /\ disk.loop \in BOOLEAN /\ disk.localOnly \in BOOLEAN
  BY DEF Sorted, CampaignTypeOK, RunState
<1>1. PICK loop \in BOOLEAN, given \in Limits :
        /\ given # 0 => loop
        /\ LET limit == IF given = 0 THEN disk.limit ELSE given
           IN /\ Save([disk EXCEPT !.loop = @ \/ loop, !.limit = limit, !.localOnly = @ \/ local'])
              /\ allowed' = (IF disk.loop THEN Max2(allowed, limit) ELSE limit)
  BY DEF Resume
<1>2. PICK limit \in Limits \cup {0} : limit = IF given = 0 THEN disk.limit ELSE given
  BY ONLY <1>0, <1>1
<1>3. /\ pc = "idle" /\ pc' = "loop" /\ local' \in BOOLEAN /\ starts' \in 0..MaxStarts
      /\ disk.stage # "none" /\ UNCHANGED <<repository, doneSince, rounds, reviewed, torn>>
  BY <1>0, Bounds DEF Resume, Started
<1>4. PICK l \in BOOLEAN, o \in BOOLEAN : l = (disk.loop \/ loop) /\ o = (disk.localOnly \/ local')
  BY ONLY <1>0, <1>1, <1>3
<1>5. /\ disk' = Armed(disk, l, limit, o) /\ mem' = disk'
      /\ allowed' = (IF disk.loop THEN Max2(allowed, limit) ELSE limit)
  BY ONLY <1>1, <1>2, <1>4 DEF Save, Armed
<1>6. l \in BOOLEAN /\ o \in BOOLEAN /\ limit \in Limits \cup {0}
  BY ONLY <1>2, <1>4
<1>7. /\ disk' \in RunState /\ disk'.stage = disk.stage /\ disk'.slice = disk.slice
      /\ disk'.base = disk.base /\ disk'.localOnly = o
      /\ disk'.loop = l /\ disk'.limit = limit
      /\ disk'.bootstrap = disk.bootstrap /\ disk'.iteration = disk.iteration
      /\ disk'.completed = disk.completed /\ disk'.remediations = disk.remediations
      /\ disk'.ready = disk.ready /\ disk'.tooLarge = disk.tooLarge
  BY ONLY <1>0, <1>5, <1>6, Bounds DEF Armed, RunState
<1>8. ~disk'.loop => disk'.limit = 0
  <2>1. ~disk.loop => disk.limit = 0
    BY DEF Sorted, Single
  <2> QED
    BY ONLY <1>1, <1>2, <1>4, <1>7, <2>1
<1>9. (disk.loop => disk'.loop) /\ (disk.localOnly => disk'.localOnly)
  BY ONLY <1>4, <1>7
<1> QED
  BY ONLY <1>3, <1>5, <1>7, <1>8, <1>9 DEF Known

(* The campaign after a bootstrap begins at its first iteration.            *)
LEMMA AfterHandOver ==
  ASSUME Sorted, HandOver
  PROVE  /\ disk' \in RunState /\ mem' = disk' /\ pc' = "loop" /\ mem = disk /\ Known
         /\ disk.stage = "Complete" /\ disk.bootstrap /\ disk.loop
         /\ ~disk'.bootstrap /\ ~disk'.ready /\ ~disk'.tooLarge /\ disk'.loop
         /\ disk'.iteration = 1 /\ disk'.completed = <<>> /\ disk'.remediations = 0
         /\ disk'.limit = disk.limit
         /\ \/ disk'.stage = "Done"
            \/ /\ disk'.stage = "Propose" /\ disk'.slice \in agenda /\ disk'.base = agenda
               /\ Selects(agenda, disk'.slice)
         /\ UNCHANGED <<repository, local, starts, history>>
<1>1. /\ mem = disk /\ disk \in RunState /\ disk.bootstrap /\ disk.loop /\ Known
      /\ disk.stage = "Complete" /\ agenda \subseteq Slices
      /\ disk.iteration = 1 /\ disk.completed = <<>>
  BY DEF HandOver, Sorted, CampaignTypeOK, Saved, Placed, Planning
<1>2. PICK m : m = [Next(disk) EXCEPT !.remediations = 0]
  OBVIOUS
<1>3. PICK n : Assigned(m, n) /\ Save(n)
  BY <1>1, <1>2 DEF HandOver
<1>4. /\ m \in RunState /\ ~m.bootstrap /\ m.loop /\ m.iteration = 1 /\ m.completed = <<>>
      /\ ~m.tooLarge /\ ~m.ready /\ m.remediations = 0 /\ m.limit = disk.limit
  BY ONLY <1>1, <1>2, NextFields, Handed
<1>5. /\ n \in RunState /\ Same(n, m)
      /\ \/ n.stage = "Done"
         \/ /\ n.stage = "Propose" /\ n.slice \in agenda /\ n.base = agenda
            /\ Selects(agenda, n.slice)
  BY ONLY <1>1, <1>3, <1>4, AssignedFields
<1>6. /\ disk' = n /\ mem' = disk' /\ pc' = "loop"
      /\ UNCHANGED <<repository, local, starts, history>>
  BY <1>3 DEF HandOver, Save
<1> QED
  BY ONLY <1>1, <1>4, <1>5, <1>6 DEF Same

(* The next iteration is only begun below the limit, and counts what was    *)
(* recorded.                                                                *)
LEMMA AfterNext ==
  ASSUME Sorted, NextIteration
  PROVE  /\ mem = disk /\ Known /\ pc = "next" /\ disk.stage = "Complete"
         /\ disk.loop /\ ~disk.bootstrap
         /\ disk.iteration \in Nat /\ Len(disk.completed) = disk.iteration
         /\ UNCHANGED <<repository, starts, history>>
         /\ \/ Stop
            \/ /\ disk' \in RunState /\ mem' = disk' /\ pc' = "loop" /\ UNCHANGED local
               /\ ~disk'.bootstrap /\ ~disk'.ready /\ ~disk'.tooLarge /\ disk'.loop
               /\ disk'.iteration = disk.iteration + 1 /\ disk'.completed = disk.completed
               /\ disk'.limit = disk.limit /\ disk'.remediations = disk.remediations
               /\ \/ disk'.stage = "Done"
                  \/ /\ disk'.stage = "Propose" /\ disk'.slice \in agenda /\ disk'.base = agenda
                     /\ Selects(agenda, disk'.slice) /\ ~LimitReached(disk)
<1>1. /\ mem = disk /\ disk \in RunState /\ ~disk.bootstrap /\ disk.loop /\ Known /\ pc = "next"
      /\ disk.stage = "Complete" /\ agenda \subseteq Slices /\ Counted(disk)
  BY DEF NextIteration, Sorted, CampaignTypeOK, Saved, Placed
<1>2. disk.iteration \in Nat /\ Len(disk.completed) = disk.iteration
  BY <1>1 DEF RunState, Counted, Sorted, Lengths
<1>3. PICK m : m = [Next(disk) EXCEPT !.iteration = @ + 1]
  OBVIOUS
<1>4. PICK n : /\ Assigned(m, n)
               /\ IF n.stage # "Done" /\ LimitReached(disk) THEN Stop
                  ELSE Save(n) /\ pc' = "loop" /\ UNCHANGED local
  BY <1>1, <1>3 DEF NextIteration
<1>5. /\ m \in RunState /\ ~m.bootstrap /\ m.loop /\ m.iteration = disk.iteration + 1
      /\ m.completed = disk.completed /\ ~m.tooLarge /\ ~m.ready
      /\ m.limit = disk.limit /\ m.remediations = disk.remediations
  BY ONLY <1>1, <1>3, NextFields, Advanced
<1>6. /\ n \in RunState /\ Same(n, m)
      /\ \/ n.stage = "Done"
         \/ /\ n.stage = "Propose" /\ n.slice \in agenda /\ n.base = agenda
            /\ Selects(agenda, n.slice)
  BY ONLY <1>1, <1>4, <1>5, AssignedFields
<1>7. UNCHANGED <<repository, starts, history>>
  BY DEF NextIteration
<1>8. CASE Stop
  BY ONLY <1>1, <1>2, <1>7, <1>8
<1>9. CASE /\ ~(n.stage # "Done" /\ LimitReached(disk))
           /\ Save(n) /\ pc' = "loop" /\ UNCHANGED local
  BY ONLY <1>1, <1>2, <1>5, <1>6, <1>7, <1>9 DEF Same, Save
<1> QED
  BY ONLY <1>4, <1>8, <1>9

(* The slice is recorded, unless it was when the run was interrupted.       *)
LEMMA AfterRecord ==
  ASSUME Sorted, RecordIteration
  PROVE  /\ mem = disk /\ Known /\ disk.slice \in Slices /\ disk.completed \in Seq(Slices)
         /\ disk.stage = "Complete" /\ disk.loop /\ ~disk.bootstrap
         /\ disk.iteration \in Nat
         /\ disk' \in RunState /\ mem' = disk' /\ pc' = "next"
         /\ disk'.stage = "Complete" /\ disk'.slice = disk.slice /\ disk'.base = disk.base
         /\ disk'.bootstrap = disk.bootstrap /\ disk'.loop = disk.loop
         /\ disk'.iteration = disk.iteration /\ disk'.limit = disk.limit
         /\ disk'.localOnly = disk.localOnly /\ disk'.ready = disk.ready
         /\ disk'.tooLarge = disk.tooLarge /\ disk'.remediations = disk.remediations
         /\ \/ Len(disk.completed) = disk.iteration /\ disk'.completed = disk.completed
            \/ /\ Len(disk.completed) = disk.iteration - 1
               /\ disk'.completed = Append(disk.completed, disk.slice)
               /\ Len(disk'.completed) = disk.iteration
         /\ UNCHANGED <<repository, local, starts, history>>
<1>1. /\ mem = disk /\ disk \in RunState /\ disk.slice \in Slices /\ disk.loop /\ ~disk.bootstrap
      /\ disk.stage = "Complete" /\ Known /\ disk.completed \in Seq(Slices)
      /\ disk.iteration \in Nat
  BY DEF RecordIteration, Sorted, CampaignTypeOK, Saved, Placed, RunState
<1>2. /\ pc' = "next" /\ UNCHANGED <<repository, local, starts, history>>
      /\ Save(IF Counted(disk) THEN disk ELSE [disk EXCEPT !.completed = Append(@, disk.slice)])
  BY <1>1 DEF RecordIteration
<1>3. \/ Len(disk.completed) = disk.iteration - 1 \/ Len(disk.completed) = disk.iteration
  BY DEF Sorted, Lengths
<1>4. CASE Counted(disk)
  <2>1. Len(disk.completed) = disk.iteration
    BY <1>1, <1>3, <1>4 DEF Counted
  <2> QED
    BY ONLY <1>1, <1>2, <1>4, <2>1 DEF Save
<1>5. CASE ~Counted(disk)
  <2>1. Len(disk.completed) = disk.iteration - 1
    BY <1>1, <1>3, <1>5 DEF Counted
  <2>2. PICK n : n = [disk EXCEPT !.completed = Append(@, disk.slice)]
    OBVIOUS
  <2>3. disk' = n /\ mem' = n
    BY ONLY <1>2, <1>5, <2>2 DEF Save
  <2>4. /\ n \in RunState /\ Same(n, disk) = (n.completed = disk.completed)
        /\ n.stage = disk.stage /\ n.slice = disk.slice /\ n.base = disk.base
        /\ n.completed = Append(disk.completed, disk.slice)
        /\ Len(n.completed) = Len(disk.completed) + 1
    BY ONLY <1>1, <2>2, OneMore
  <2>5. /\ n.bootstrap = disk.bootstrap /\ n.loop = disk.loop
        /\ n.iteration = disk.iteration /\ n.limit = disk.limit
        /\ n.localOnly = disk.localOnly /\ n.ready = disk.ready
        /\ n.tooLarge = disk.tooLarge /\ n.remediations = disk.remediations
    BY ONLY <1>1, <2>2 DEF RunState
  <2>6. Len(n.completed) = disk.iteration
    BY ONLY <1>1, <2>1, <2>4
  <2> QED
    BY ONLY <1>1, <1>2, <2>1, <2>3, <2>4, <2>5, <2>6
<1> QED
  BY ONLY <1>4, <1>5

(* A subdivided slice is begun anew, by its own name.                       *)
LEMMA AfterReplanned ==
  ASSUME Sorted, Replanned
  PROVE  /\ mem = disk /\ Known /\ disk.slice # Terminal
         /\ disk.stage = "Propose" /\ ~disk.bootstrap
         /\ disk' \in RunState /\ mem' = disk' /\ pc' = "loop"
         /\ disk'.stage = "Propose" /\ disk'.slice = disk.slice /\ disk'.base = agenda
         /\ disk'.bootstrap = disk.bootstrap /\ disk'.loop = disk.loop
         /\ disk'.iteration = disk.iteration /\ disk'.limit = disk.limit
         /\ disk'.completed = disk.completed
         /\ disk'.ready = disk.ready /\ ~disk'.tooLarge /\ disk'.remediations = disk.remediations
         /\ commits' \subseteq [agenda : SUBSET Slices, archived : SUBSET Slices]
         /\ UNCHANGED <<agenda, archived, local, starts, history>>
<1>1. /\ mem = disk /\ disk \in RunState /\ disk.stage = "Propose" /\ ~disk.bootstrap
      /\ agenda \subseteq Slices /\ disk.slice # Terminal /\ Known
      /\ disk.replans \in 0..MaxReplans /\ disk.replans < MaxReplans
  BY DEF Replanned, InSession, Sorted, CampaignTypeOK, Saved, Placed, RunState, Gate
<1>2. disk.replans + 1 \in 0..MaxReplans
  BY ONLY <1>1, Bounds
<1>3. /\ disk' = [disk EXCEPT !.replans = @ + 1, !.tooLarge = FALSE, !.stage = "Propose",
                              !.base = agenda]
      /\ mem' = disk' /\ pc' = "loop" /\ UNCHANGED <<agenda, archived, local, starts, history>>
  BY <1>1 DEF Replanned, Accept, Save
<1>4. commits' \subseteq [agenda : SUBSET Slices, archived : SUBSET Slices]
  BY Committed DEF Replanned, Sorted
<1>5. /\ disk' \in RunState /\ disk'.stage = "Propose" /\ disk'.slice = disk.slice
      /\ disk'.base = agenda
      /\ disk'.bootstrap = disk.bootstrap /\ disk'.loop = disk.loop
      /\ disk'.iteration = disk.iteration /\ disk'.limit = disk.limit
      /\ disk'.completed = disk.completed
      /\ disk'.ready = disk.ready /\ ~disk'.tooLarge /\ disk'.remediations = disk.remediations
  BY ONLY <1>1, <1>2, <1>3 DEF RunState
<1> QED
  BY ONLY <1>1, <1>3, <1>4, <1>5

(* The slice before the gate costs a round.                                 *)
LEMMA AfterRemediated ==
  ASSUME Sorted, Remediated
  PROVE  /\ mem = disk /\ Known
         /\ disk.stage = "Propose" /\ ~disk.bootstrap
         /\ disk' \in RunState /\ mem' = disk' /\ pc' = "loop"
         /\ disk'.stage = "Propose" /\ disk'.slice \in agenda /\ disk'.slice # Terminal
         /\ Selects(agenda, disk'.slice) /\ disk'.base = agenda
         /\ disk'.bootstrap = disk.bootstrap /\ disk'.loop = disk.loop
         /\ disk'.iteration = disk.iteration /\ disk'.limit = disk.limit
         /\ disk'.completed = disk.completed
         /\ ~disk'.ready /\ ~disk'.tooLarge
         /\ disk.remediations \in Nat /\ disk.remediations < MaxRemediations
         /\ disk'.remediations = disk.remediations + 1 /\ rounds' = rounds + 1
         /\ commits' \subseteq [agenda : SUBSET Slices, archived : SUBSET Slices]
         /\ UNCHANGED <<agenda, archived, local, starts, doneSince, allowed, reviewed, torn>>
<1>1. /\ mem = disk /\ disk \in RunState /\ disk.stage = "Propose" /\ ~disk.bootstrap
      /\ agenda \subseteq Slices /\ Known
      /\ disk.remediations \in 0..MaxRemediations /\ disk.remediations < MaxRemediations
  BY DEF Remediated, InSession, Sorted, CampaignTypeOK, Saved, Placed, RunState, Remediable
<1>2. PICK k \in 0..MaxRemediations : k = disk.remediations + 1 /\ disk.remediations \in Nat
  BY ONLY <1>1, Bounds
<1>3. PICK s \in agenda \ mem.base :
        /\ s # Terminal /\ Selects(agenda, s)
        /\ Accept([mem EXCEPT !.slice = s, !.remediations = @ + 1, !.ready = FALSE,
                              !.tooLarge = FALSE, !.stage = "Propose", !.replans = 0,
                              !.base = agenda])
  BY DEF Remediated
<1>4. /\ disk' = [disk EXCEPT !.slice = s, !.remediations = k, !.ready = FALSE,
                              !.tooLarge = FALSE, !.stage = "Propose", !.replans = 0,
                              !.base = agenda]
      /\ mem' = disk' /\ pc' = "loop" /\ UNCHANGED <<agenda, archived, local, starts>>
  BY ONLY <1>1, <1>2, <1>3 DEF Accept, Save
<1>5. commits' \subseteq [agenda : SUBSET Slices, archived : SUBSET Slices]
  BY Committed DEF Remediated, Sorted
<1>6. rounds' = rounds + 1 /\ UNCHANGED <<doneSince, allowed, reviewed, torn>>
  BY DEF Remediated
<1>7. s \in Slices /\ s \in agenda /\ s # Terminal /\ Selects(agenda, s)
  BY ONLY <1>1, <1>3
<1>8. /\ disk'.stage = "Propose" /\ disk'.slice = s /\ disk'.base = agenda
      /\ disk'.bootstrap = disk.bootstrap /\ disk'.loop = disk.loop
      /\ disk'.iteration = disk.iteration /\ disk'.limit = disk.limit
      /\ disk'.completed = disk.completed
      /\ ~disk'.ready /\ ~disk'.tooLarge /\ disk'.remediations = k
  BY ONLY <1>1, <1>4 DEF RunState
<1>9. disk' \in RunState
  <2>1. /\ disk \in RunState /\ s \in Slices /\ k \in 0..MaxRemediations
        /\ 0 \in 0..MaxReplans /\ agenda \in SUBSET Slices
    BY ONLY <1>1, <1>2, <1>7, Bounds
  <2>2. PICK m : m = [disk EXCEPT !.slice = s, !.remediations = k, !.ready = FALSE]
    OBVIOUS
  <2>3. m \in RunState
    BY ONLY <2>1, <2>2 DEF RunState
  <2>4. PICK n : n = [m EXCEPT !.tooLarge = FALSE, !.stage = "Propose", !.replans = 0,
                               !.base = agenda]
    OBVIOUS
  <2>5. n \in RunState
    BY ONLY <2>1, <2>3, <2>4 DEF RunState
  <2>6. disk' = n
    BY ONLY <1>4, <2>2, <2>4
  <2> QED
    BY ONLY <2>5, <2>6
<1>10. mem' = disk' /\ pc' = "loop" /\ UNCHANGED <<agenda, archived, local, starts>>
  BY ONLY <1>4
<1>11. /\ disk.remediations \in Nat /\ disk.remediations < MaxRemediations
       /\ disk'.remediations = disk.remediations + 1
  BY ONLY <1>1, <1>2, <1>8
<1>12. UNCHANGED <<agenda, archived, local, starts, doneSince, allowed, reviewed, torn>>
  BY ONLY <1>6, <1>10
<1>13. /\ disk'.slice \in agenda /\ disk'.slice # Terminal
       /\ Selects(agenda, disk'.slice) /\ disk'.base = agenda
  BY ONLY <1>7, <1>8
<1> QED
  BY ONLY <1>1, <1>5, <1>6, <1>8, <1>9, <1>10, <1>11, <1>12, <1>13

(* What these actions leave is in order.                                    *)
LEMMA TypesBuilt ==
  ASSUME Sorted,
         \/ Launch \/ Bootstrap \/ Resume \/ HandOver \/ RecordIteration \/ NextIteration
         \/ Replanned \/ Remediated
  PROVE  Sorted'
<1>0. CampaignTypeOK /\ Saved /\ Placed /\ Planning /\ Single /\ Lengths
  BY DEF Sorted
<1>1. disk'.completed = <<>> => Len(disk'.completed) = 0
  OBVIOUS
<1>2. CASE HandOver
  <2>1. CampaignTypeOK'
    BY <1>0, <1>2, AfterHandOver DEF CampaignTypeOK, repository, history
  <2>2. Saved' /\ Placed' /\ Planning' /\ Single' /\ Lengths'
    BY <1>0, <1>1, <1>2, AfterHandOver, Bounds
       DEF Saved, Placed, Planning, Single, Lengths, Known, Gate, history, CampaignTypeOK
  <2> QED
    BY <2>1, <2>2 DEF Sorted
<1>3. CASE RecordIteration
  <2>1. CampaignTypeOK'
    BY <1>0, <1>3, AfterRecord DEF CampaignTypeOK, repository, history
  <2>2. Saved' /\ Placed' /\ Planning' /\ Single' /\ Lengths'
    BY <1>0, <1>1, <1>3, AfterRecord, Bounds
       DEF Counted, Saved, Placed, Planning, Single, Lengths, Known, Gate, history, CampaignTypeOK
  <2> QED
    BY <2>1, <2>2 DEF Sorted
<1>4. CASE NextIteration
  <2>1. CASE Stop
    <3>1. CampaignTypeOK'
      BY <1>0, <1>4, <2>1, AfterNext, NoStateFields DEF CampaignTypeOK, Stop, repository, history
    <3>2. Saved' /\ Placed' /\ Planning' /\ Single' /\ Lengths'
      BY <1>0, <1>4, <2>1, AfterNext
         DEF Saved, Placed, Planning, Single, Lengths, Known, Gate, history, Stop
    <3> QED
      BY <3>1, <3>2 DEF Sorted
  <2>2. CASE ~Stop
    <3>1. CampaignTypeOK'
      BY <1>0, <1>4, <2>2, AfterNext DEF CampaignTypeOK, repository, history
    <3>2. Len(disk'.completed) = disk'.iteration - 1 /\ disk'.iteration >= 1
      BY <1>4, <2>2, AfterNext
    <3>3. Saved' /\ Placed' /\ Planning' /\ Single' /\ Lengths'
      BY <1>0, <1>4, <2>2, <3>2, AfterNext
         DEF Saved, Placed, Planning, Single, Lengths, Known, Gate, CampaignTypeOK
    <3> QED
      BY <3>1, <3>3 DEF Sorted
  <2> QED
    BY <2>1, <2>2
<1>5. CASE Replanned
  <2>1. CampaignTypeOK'
    BY <1>0, <1>5, AfterReplanned DEF CampaignTypeOK, repository, history
  <2>2. Saved' /\ Placed' /\ Planning' /\ Single' /\ Lengths'
    BY <1>0, <1>1, <1>5, AfterReplanned, Bounds
       DEF Saved, Placed, Planning, Single, Lengths, Known, Gate, history, CampaignTypeOK
  <2> QED
    BY <2>1, <2>2 DEF Sorted
<1>6. CASE Remediated
  <2>1. CampaignTypeOK'
    BY <1>0, <1>6, AfterRemediated DEF CampaignTypeOK, repository, history
  <2>2. Saved' /\ Placed' /\ Planning' /\ Single' /\ Lengths'
    BY <1>0, <1>1, <1>6, AfterRemediated, Bounds
       DEF Saved, Placed, Planning, Single, Lengths, Known, Gate, history, CampaignTypeOK
  <2> QED
    BY <2>1, <2>2 DEF Sorted
<1>7. CASE Launch
  <2>1. CampaignTypeOK'
    <3>1. disk' \in RunState /\ disk'.limit \in Nat
      BY <1>7, AfterLaunch, Bounds DEF RunState
    <3>2. allowed' \in Nat
      BY <1>0, <1>7, <3>1, AfterLaunch DEF CampaignTypeOK, Max2
    <3> QED
      BY <1>0, <1>7, <3>2, AfterLaunch DEF CampaignTypeOK, repository, history
  <2>2. Saved' /\ Placed' /\ Planning' /\ Single' /\ Lengths'
    BY <1>0, <1>1, <1>7, AfterLaunch, Bounds
       DEF Saved, Placed, Planning, Single, Lengths, Known, Gate, history, CampaignTypeOK
  <2> QED
    BY <2>1, <2>2 DEF Sorted
<1>8. CASE Bootstrap
  <2>1. CampaignTypeOK'
    <3>1. disk' \in RunState /\ disk'.limit \in Nat
      BY <1>8, AfterBootstrap, Bounds DEF RunState
    <3>2. allowed' \in Nat
      BY <1>0, <1>8, <3>1, AfterBootstrap DEF CampaignTypeOK, Max2
    <3> QED
      BY <1>0, <1>8, <3>2, AfterBootstrap DEF CampaignTypeOK, repository, history
  <2>2. Saved' /\ Placed' /\ Planning' /\ Single' /\ Lengths'
    BY <1>0, <1>1, <1>8, AfterBootstrap, Bounds
       DEF Saved, Placed, Planning, Single, Lengths, Known, Gate, history, CampaignTypeOK
  <2> QED
    BY <2>1, <2>2 DEF Sorted
<1>9. CASE Resume
  <2>1. CampaignTypeOK'
    <3>1. disk' \in RunState /\ disk'.limit \in Nat
      BY <1>9, AfterResume, Bounds DEF RunState
    <3>2. allowed' \in Nat
      BY <1>0, <1>9, <3>1, AfterResume DEF CampaignTypeOK, Max2
    <3> QED
      BY <1>0, <1>9, <3>2, AfterResume DEF CampaignTypeOK, repository, history
  <2>2. Saved' /\ Placed' /\ Planning' /\ Single' /\ Lengths'
    BY <1>0, <1>1, <1>9, AfterResume, Bounds
       DEF Saved, Placed, Planning, Single, Lengths, Known, Gate, history, CampaignTypeOK
  <2> QED
    BY <2>1, <2>2 DEF Sorted
<1> QED
  BY <1>2, <1>3, <1>4, <1>5, <1>6, <1>7, <1>8, <1>9

(* The actions that move the process on, stop it, or change the repository.  *)
Moves ==
  \/ CampaignLoop \/ Work \/ WorkTooLarge \/ Archive \/ FinalCommit \/ Finish \/ OpenFrontier
  \/ NoFrontier \/ Ready \/ FrontierRejected \/ FrontierFails \/ FrontierCommits \/ Rewind
  \/ Crash \/ UNCHANGED campaign

(* The actions that build another state.                                    *)
Builds ==
  \/ Launch \/ Bootstrap \/ Resume \/ HandOver \/ RecordIteration \/ NextIteration
  \/ Replanned \/ Remediated

(* The fields that moves leave alone.                                       *)
Kept ==
  /\ disk'.slice = disk.slice /\ disk'.base = disk.base /\ disk'.bootstrap = disk.bootstrap
  /\ disk'.loop = disk.loop /\ disk'.iteration = disk.iteration /\ disk'.limit = disk.limit
  /\ disk'.completed = disk.completed /\ disk'.localOnly = disk.localOnly
  /\ disk'.remediations = disk.remediations
  /\ UNCHANGED <<rounds, allowed>>

(* The actions by what they do to the checkpoint.                           *)
LEMMA StepCases ==
  ASSUME [CampaignNext]_campaign
  PROVE  Moves \/ Builds \/ Forget \/ ForgetRewound
BY DEF CampaignNext, Runner, Moves, Builds

(* They keep most of the checkpoint, and its stage unless one is completed.  *)
LEMMA AfterMove ==
  ASSUME Sorted, Moves
  PROVE  /\ Kept /\ (Known <=> Known')
         /\ \/ disk'.stage = disk.stage /\ (Archive \/ UNCHANGED doneSince)
            \/ /\ Work /\ disk.stage = "Propose" /\ disk'.stage = "Archive"
               /\ UNCHANGED <<archived, doneSince>>
            \/ /\ FinalCommit /\ disk.stage = "Archive" /\ disk'.stage = "Complete"
               /\ UNCHANGED <<archived, doneSince>>
<1>1. disk \in RunState /\ Saved /\ Placed
  BY DEF Sorted, CampaignTypeOK
<1>2. CASE disk' = disk /\ UNCHANGED <<rounds, allowed>> /\ (Archive \/ UNCHANGED doneSince)
  BY ONLY <1>2 DEF Kept, Known
<1>3. CASE \/ Finish \/ OpenFrontier \/ NoFrontier \/ FrontierRejected \/ FrontierFails
           \/ FrontierCommits \/ Rewind \/ Crash \/ Archive \/ UNCHANGED campaign
  BY <1>2, <1>3 DEF Finish, OpenFrontier, NoFrontier, FrontierRejected, FrontierFails,
     FrontierCommits, Rewind, Crash, Archive, Stop, campaign, history
<1>4. CASE CampaignLoop
  <2>1. CASE mem.localOnly /\ Save([mem EXCEPT !.ready = TRUE]) /\ UNCHANGED <<pc, local>>
    BY <1>1, <1>4, <2>1 DEF CampaignLoop, Save, Saved, Kept, Known, RunState, history
  <2>2. CASE UNCHANGED disk
    BY <1>2, <1>4, <2>2 DEF CampaignLoop, history
  <2> QED
    BY <1>4, <2>1, <2>2 DEF CampaignLoop, Stop
<1>5. CASE Work
  BY <1>1, <1>5 DEF Work, Save, Saved, Placed, Kept, Known, RunState, history
<1>6. CASE WorkTooLarge
  BY <1>1, <1>6 DEF WorkTooLarge, Save, Saved, Kept, Known, RunState, history
<1>7. CASE FinalCommit
  BY <1>1, <1>7 DEF FinalCommit, Save, Saved, Placed, Kept, Known, RunState, history
<1>8. CASE Ready
  BY <1>1, <1>8 DEF Ready, InSession, Accept, Save, Saved, Kept, Known, RunState
<1> QED
  BY <1>3, <1>4, <1>5, <1>6, <1>7, <1>8 DEF Moves

(* Forgetting leaves no checkpoint.                                         *)
LEMMA AfterForget ==
  ASSUME Forget \/ ForgetRewound
  PROVE  disk' = NoState /\ ~Known' /\ UNCHANGED history /\ ~disk'.loop
BY NoStateFields DEF Forget, ForgetRewound, Known

(* A move leaves a checkpoint that is right for the place it goes to.        *)
LEMMA TypesMoved ==
  ASSUME Sorted, Moves
  PROVE  CampaignTypeOK' /\ Saved' /\ Placed'
<1>0. /\ CampaignTypeOK /\ Saved /\ Placed /\ disk \in RunState /\ NoState \in RunState
      /\ agenda \subseteq Slices
  BY NoStateFields DEF Sorted, CampaignTypeOK
<1>1. ASSUME disk' = disk, pc' \in {"idle", "rewinding"} PROVE Saved' /\ Placed'
  BY ONLY <1>0, <1>1 DEF Saved, Placed, Known, Gate
<1>2. ASSUME disk' \in RunState, mem' \in RunState, agenda' \subseteq Slices, local' \in BOOLEAN,
             UNCHANGED <<archived, commits, starts, doneSince, rounds, allowed, reviewed, torn>>,
             pc' \in {"idle", "loop", "work", "archive", "complete", "frontier", "session", "again"}
      PROVE  CampaignTypeOK'
  BY ONLY <1>0, <1>2 DEF CampaignTypeOK
<1>3. CASE CampaignLoop
  <2>1. /\ mem = disk /\ Known /\ pc = "loop" /\ local \in BOOLEAN
        /\ UNCHANGED <<repository, starts, history>>
    BY <1>0, <1>3 DEF CampaignLoop, Saved, CampaignTypeOK
  <2>2. disk.stage \in {"Propose", "Archive", "Complete", "Done"}
    BY <1>0, <2>1 DEF Known, RunState
  <2>3. CASE NeedsReview(mem) /\ Save([mem EXCEPT !.ready = TRUE]) /\ UNCHANGED <<pc, local>>
    <3>1. /\ disk' \in RunState /\ mem' = disk' /\ disk'.stage = disk.stage
          /\ disk'.slice = disk.slice /\ disk'.bootstrap = disk.bootstrap
          /\ disk'.tooLarge = disk.tooLarge /\ disk'.ready /\ disk'.stage = "Propose"
      BY ONLY <1>0, <2>1, <2>3 DEF Save, RunState, NeedsReview
    <3>2. CampaignTypeOK'
      BY <1>0, <1>2, <2>1, <2>3, <3>1 DEF repository, history
    <3>3. Saved' /\ Placed'
      BY ONLY <1>0, <2>1, <2>3, <3>1 DEF Saved, Placed, Known, Gate
    <3> QED
      BY <3>2, <3>3
  <2>4. CASE Stop
    BY <1>0, <1>1, <1>2, <2>1, <2>4 DEF Stop, repository, history
  <2>5. CASE /\ UNCHANGED <<mem, disk, local>>
             /\ \/ pc' = "frontier" /\ NeedsReview(mem)
                \/ pc' = "frontier" /\ mem.tooLarge /\ ~mem.bootstrap
                \/ /\ ~NeedsReview(mem) /\ ~mem.tooLarge
                   /\ \/ mem.stage = "Propose" /\ pc' = "work"
                      \/ mem.stage = "Archive" /\ pc' = "archive"
                      \/ mem.stage = "Complete" /\ pc' = "complete"
    <3>1. CampaignTypeOK'
      BY <1>0, <1>2, <2>1, <2>5 DEF repository, history
    <3>2. disk.bootstrap => ~Gate(disk)
      BY <2>1, Bounds DEF Sorted, Planning, Gate
    <3>3. Saved' /\ Placed'
      BY ONLY <1>0, <2>1, <2>5, <3>2 DEF Saved, Placed, Known, Gate, NeedsReview
    <3> QED
      BY <3>1, <3>3
  <2> QED
    BY ONLY <1>3, <2>1, <2>2, <2>3, <2>4, <2>5 DEF CampaignLoop
<1>4. CASE Work
  <2>1. /\ mem = disk /\ Known /\ pc = "work" /\ local \in BOOLEAN /\ pc' = "archive"
        /\ disk' = [disk EXCEPT !.stage = "Archive"] /\ mem' = disk' /\ agenda' \subseteq Slices
        /\ UNCHANGED <<archived, commits, local, starts, history>>
    BY <1>0, <1>4 DEF Work, Saved, Save, CampaignTypeOK
  <2>2. /\ disk' \in RunState /\ disk'.stage = "Archive" /\ disk'.slice = disk.slice
        /\ disk'.bootstrap = disk.bootstrap /\ disk'.tooLarge = disk.tooLarge
        /\ disk'.ready = disk.ready
    BY ONLY <1>0, <2>1 DEF RunState
  <2>3. CampaignTypeOK'
    BY <1>2, <2>1, <2>2 DEF history
  <2>4. Saved' /\ Placed'
    BY ONLY <1>0, <2>1, <2>2 DEF Saved, Placed, Known, Gate, NeedsReview
  <2> QED
    BY <2>3, <2>4
<1>5. CASE WorkTooLarge
  <2>1. /\ mem = disk /\ Known /\ pc = "work" /\ local \in BOOLEAN /\ pc' = "loop"
        /\ disk' = [disk EXCEPT !.tooLarge = TRUE] /\ mem' = disk'
        /\ UNCHANGED <<repository, local, starts, history>>
    BY <1>0, <1>5 DEF WorkTooLarge, Saved, Save, CampaignTypeOK
  <2>2. /\ disk' \in RunState /\ disk'.stage = disk.stage /\ disk'.slice = disk.slice
        /\ disk'.bootstrap = disk.bootstrap /\ disk'.tooLarge /\ disk'.ready = disk.ready
    BY ONLY <1>0, <2>1 DEF RunState
  <2>3. CampaignTypeOK'
    BY <1>0, <1>2, <2>1, <2>2 DEF repository, history
  <2>4. Saved' /\ Placed'
    BY ONLY <1>0, <2>1, <2>2 DEF Saved, Placed, Known, Gate
  <2> QED
    BY <2>3, <2>4
<1>6. CASE Archive
  <2>1. /\ mem = disk /\ Known /\ pc = "archive" /\ pc' = "archived" /\ mem' = mem /\ disk' = disk
        /\ UNCHANGED <<agenda, commits, local, starts, rounds, allowed, reviewed, torn>>
        /\ \/ UNCHANGED <<archived, doneSince>>
           \/ /\ ~disk.bootstrap /\ archived' = archived \cup {disk.slice}
              /\ doneSince' = doneSince \cup {disk.slice}
    BY <1>0, <1>6 DEF Archive, Saved
  <2>2. ~disk.bootstrap => disk.slice \in Slices
    BY <1>0, <2>1 DEF Placed
  <2>3. CampaignTypeOK'
    BY ONLY <1>0, <2>1, <2>2 DEF CampaignTypeOK
  <2>4. Saved' /\ Placed'
    BY ONLY <1>0, <2>1 DEF Saved, Placed, Known, Gate
  <2> QED
    BY <2>3, <2>4
<1>7. CASE FinalCommit
  <2>1. /\ mem = disk /\ Known /\ pc = "archived" /\ pc' = "complete"
        /\ disk' = [disk EXCEPT !.stage = "Complete"] /\ mem' = disk'
        /\ UNCHANGED <<agenda, archived, local, starts, history>>
    BY <1>0, <1>7 DEF FinalCommit, Saved, Save
  <2>2. /\ disk' \in RunState /\ disk'.stage = "Complete" /\ disk'.slice = disk.slice
        /\ disk'.bootstrap = disk.bootstrap /\ disk'.tooLarge = disk.tooLarge
        /\ disk'.ready = disk.ready
    BY ONLY <1>0, <2>1 DEF RunState
  <2>3. commits' \subseteq [agenda : SUBSET Slices, archived : SUBSET Slices]
    BY <1>0, <1>7, Committed DEF FinalCommit
  <2>4. CampaignTypeOK'
    BY ONLY <1>0, <2>1, <2>2, <2>3 DEF CampaignTypeOK, history
  <2>5. Saved' /\ Placed'
    BY ONLY <1>0, <2>1, <2>2 DEF Saved, Placed, Known, Gate
  <2> QED
    BY <2>4, <2>5
<1>8. CASE Finish \/ NoFrontier \/ FrontierFails
  <2>1. /\ Stop /\ agenda' \in {agenda, mem.base}
        /\ UNCHANGED <<archived, commits, starts, history>> /\ mem = disk
    BY <1>0, <1>8 DEF Finish, NoFrontier, FrontierFails, InSession, repository, Saved
  <2>2. agenda' \subseteq Slices
    BY ONLY <1>0, <2>1 DEF RunState
  <2> QED
    BY <1>0, <1>1, <1>2, <2>1, <2>2 DEF Stop, history
<1>9. CASE OpenFrontier
  <2>1. /\ mem = disk /\ Known /\ pc = "frontier" /\ agenda' \in {agenda, mem.base}
        /\ UNCHANGED <<archived, commits, starts, history>>
        /\ \/ Stop
           \/ ~Exhausted(mem) /\ pc' = "session" /\ UNCHANGED <<mem, disk, local>>
    BY <1>0, <1>9 DEF OpenFrontier, Saved
  <2>2. agenda' \subseteq Slices /\ local \in BOOLEAN
    BY ONLY <1>0, <2>1 DEF RunState, CampaignTypeOK
  <2>3. CASE Stop
    BY <1>0, <1>1, <1>2, <2>1, <2>2, <2>3 DEF Stop, history
  <2>4. CASE ~Exhausted(mem) /\ pc' = "session" /\ UNCHANGED <<mem, disk, local>>
    <3>1. disk.replans \in Nat /\ MaxReplans \in Nat
      BY <1>0, Bounds DEF RunState
    <3>2. ~Gate(disk) => disk.replans < MaxReplans
      BY ONLY <2>1, <2>4, <3>1 DEF Exhausted
    <3>3. CampaignTypeOK'
      BY <1>0, <1>2, <2>1, <2>2, <2>4 DEF history
    <3>4. Saved' /\ Placed'
      BY ONLY <1>0, <2>1, <2>4, <3>2 DEF Saved, Placed, Known, Gate
    <3> QED
      BY <3>3, <3>4
  <2> QED
    BY <2>1, <2>3, <2>4
<1>10. CASE Ready
  <2>1. /\ mem = disk /\ Known /\ pc \in {"session", "again"} /\ pc' = "loop"
        /\ disk' = [disk EXCEPT !.ready = TRUE] /\ mem' = disk' /\ ~mem.tooLarge
        /\ UNCHANGED <<agenda, archived, local, starts, commits, doneSince, rounds, allowed, torn>>
        /\ reviewed' = archived
    BY <1>0, <1>10 DEF Ready, InSession, Accept, Saved, Save
  <2>2. /\ disk' \in RunState /\ disk'.stage = disk.stage /\ disk'.slice = disk.slice
        /\ disk'.bootstrap = disk.bootstrap /\ disk'.tooLarge = disk.tooLarge /\ disk'.ready
    BY ONLY <1>0, <2>1 DEF RunState
  <2>3. CampaignTypeOK'
    BY ONLY <1>0, <2>1, <2>2 DEF CampaignTypeOK
  <2>4. Saved' /\ Placed'
    BY ONLY <1>0, <2>1, <2>2 DEF Saved, Placed, Known, Gate
  <2> QED
    BY <2>3, <2>4
<1>11. CASE FrontierRejected \/ FrontierCommits
  <2>1. /\ mem = disk /\ Known /\ pc \in {"session", "again"} /\ pc' \in {pc, "again"}
        /\ UNCHANGED <<archived, commits, local, mem, disk, starts, history>>
        /\ agenda' \subseteq Slices
    BY <1>0, <1>11 DEF FrontierRejected, FrontierCommits, InSession, Saved, RunState
  <2>2. CampaignTypeOK'
    BY ONLY <1>0, <2>1 DEF CampaignTypeOK, history
  <2>3. Saved' /\ Placed'
    BY ONLY <1>0, <2>1 DEF Saved, Placed, Known, Gate
  <2> QED
    BY <2>2, <2>3
<1>12. CASE Rewind
  <2>1. /\ pc' = "rewinding" /\ UNCHANGED <<commits, local, mem, disk, starts, history>>
        /\ agenda' \subseteq Slices /\ archived' \subseteq Slices
    BY <1>0, <1>12 DEF Rewind, CampaignTypeOK
  <2>2. CampaignTypeOK'
    BY ONLY <1>0, <2>1 DEF CampaignTypeOK, history
  <2> QED
    BY <1>1, <2>1, <2>2
<1>13. CASE Crash
  <2>1. /\ Stop /\ torn' \in BOOLEAN
        /\ UNCHANGED <<repository, starts, doneSince, rounds, allowed, reviewed>>
    BY <1>0, <1>13 DEF Crash, CampaignTypeOK
  <2>2. CampaignTypeOK'
    BY ONLY <1>0, <2>1 DEF CampaignTypeOK, Stop, repository
  <2> QED
    BY <1>1, <2>1, <2>2 DEF Stop
<1>14. CASE UNCHANGED campaign
  <2>1. CampaignTypeOK'
    BY ONLY <1>0, <1>14 DEF CampaignTypeOK, campaign, repository, history
  <2>2. Saved' /\ Placed'
    BY ONLY <1>0, <1>14 DEF Saved, Placed, Known, Gate, NeedsReview, Counted, campaign
  <2> QED
    BY <2>1, <2>2
<1> QED
  BY <1>3, <1>4, <1>5, <1>6, <1>7, <1>8, <1>9, <1>10, <1>11, <1>12, <1>13, <1>14 DEF Moves

(* Every action leaves a checkpoint that is in order.                       *)
LEMMA TypesStep == Sorted /\ [CampaignNext]_campaign => Sorted'
<1> SUFFICES ASSUME Sorted, [CampaignNext]_campaign PROVE Sorted'
  OBVIOUS
<1>1. CASE Moves
  <2>1. CampaignTypeOK' /\ Saved' /\ Placed'
    BY <1>1, TypesMoved
  <2>2. disk.bootstrap /\ Known => UNCHANGED doneSince
    BY <1>1, AfterMove DEF Archive, Sorted, Saved
  <2>3. Planning'
    BY <1>1, <2>2, AfterMove DEF Sorted, Planning, Kept
  <2>4. Single' /\ Lengths'
    BY <1>1, AfterMove DEF Sorted, Single, Lengths, Kept
  <2> QED
    BY <2>1, <2>3, <2>4 DEF Sorted
<1>2. CASE Builds
  BY <1>2, TypesBuilt DEF Builds
<1>3. CASE Forget \/ ForgetRewound
  <2>1. CampaignTypeOK'
    BY <1>3, NoStateFields
       DEF Forget, ForgetRewound, Sorted, CampaignTypeOK, repository, history
  <2>2. Len(disk'.completed) = 0
    BY <1>3, AfterForget, NoStateFields
  <2>3. pc' = "idle" /\ disk' = NoState
    BY <1>3 DEF Forget, ForgetRewound
  <2> QED
    BY ONLY <2>1, <2>2, <2>3, NoStateFields, Bounds
       DEF Sorted, Saved, Placed, Planning, Single, Lengths, Known, Gate
<1> QED
  BY <1>1, <1>2, <1>3, StepCases

(* The checkpoint has the rounds that were accepted.                        *)
Rounds == rounds <= MaxRemediations /\ (Known => rounds = disk.remediations)

(* The rounds of the checkpoint are those accepted since the run began.      *)
LEMMA RoundsStep ==
  ASSUME Sorted, Rounds, [CampaignNext]_campaign
  PROVE  Rounds'
<1>1. CASE Moves
  BY <1>1, AfterMove DEF Rounds, Kept
<1>2. CASE Forget \/ ForgetRewound
  BY <1>2, AfterForget DEF Rounds, history
<1>3. CASE Launch
  BY <1>3, AfterLaunch, Bounds DEF Rounds
<1>4. CASE Bootstrap
  BY <1>4, AfterBootstrap, Bounds DEF Rounds
<1>5. CASE Resume
  BY <1>5, AfterResume DEF Rounds
<1>6. CASE HandOver
  <2>1. disk.remediations = 0
    BY <1>6, AfterHandOver DEF Sorted, Planning
  <2> QED
    BY <1>6, <2>1, AfterHandOver DEF Rounds, history
<1>7. CASE RecordIteration
  BY <1>7, AfterRecord DEF Rounds, history
<1>8. CASE NextIteration
  BY <1>8, AfterNext DEF Rounds, history, Stop, Known
<1>9. CASE Replanned
  BY <1>9, AfterReplanned DEF Rounds, history
<1>10. CASE Remediated
  BY <1>10, AfterRemediated, Bounds DEF Rounds
<1> QED
  BY <1>1, <1>2, <1>3, <1>4, <1>5, <1>6, <1>7, <1>8, <1>9, <1>10, StepCases DEF Builds

(* The iterations are within the limit, and that within the highest one.    *)
Limited ==
  Known /\ disk.loop /\ allowed # 0 =>
    /\ disk.limit # 0 /\ disk.limit <= allowed
    /\ IF disk.stage = "Done" THEN disk.iteration <= allowed + 1 ELSE disk.iteration <= allowed

(* The limit is no higher than one the campaign was given, and no iteration  *)
(* is begun beyond it.                                                      *)
LEMMA LimitedStep ==
  ASSUME Sorted, Limited, [CampaignNext]_campaign
  PROVE  Limited'
<1>0. /\ disk.iteration \in Nat /\ disk.limit \in Nat /\ allowed \in Nat
  BY Bounds DEF Sorted, CampaignTypeOK, RunState
<1>1. CASE Moves
  BY <1>0, <1>1, AfterMove DEF Limited, Kept
<1>2. CASE Forget \/ ForgetRewound
  BY <1>2, AfterForget DEF Limited
<1>3. CASE Launch
  <2>1. disk'.limit \in Nat
    BY <1>3, AfterLaunch, Bounds DEF RunState
  <2> QED
    BY <1>3, <2>1, AfterLaunch DEF Limited
<1>4. CASE Bootstrap
  <2>1. disk'.limit \in Nat
    BY <1>4, AfterBootstrap, Bounds DEF RunState
  <2> QED
    BY <1>4, <2>1, AfterBootstrap DEF Limited
<1>5. CASE Resume
  <2>1. disk'.limit \in Nat
    BY <1>5, AfterResume, Bounds DEF RunState
  <2>2. ~disk.loop => disk.iteration = 1
    BY DEF Sorted, Single
  <2> QED
    BY <1>0, <1>5, <2>1, <2>2, AfterResume DEF Limited, Max2
<1>6. CASE HandOver
  BY <1>0, <1>6, AfterHandOver DEF Limited, history
<1>7. CASE RecordIteration
  BY <1>7, AfterRecord DEF Limited, history
<1>8. CASE NextIteration
  <2>1. CASE Stop
    BY <1>8, <2>1, AfterNext DEF Limited, history, Stop, Known
  <2>2. CASE ~Stop /\ allowed # 0
    <3>1. disk.limit # 0 /\ disk.limit <= allowed /\ disk.iteration <= allowed
      BY <1>8, <2>2, AfterNext DEF Limited
    <3>2. /\ disk'.iteration = disk.iteration + 1 /\ disk'.limit = disk.limit
          /\ allowed' = allowed
          /\ disk'.stage = "Done" \/ (disk'.stage = "Propose" /\ ~LimitReached(disk))
      BY <1>8, <2>2, AfterNext DEF history
    <3>3. disk'.stage = "Propose" => disk.iteration + 1 <= allowed
      BY ONLY <1>0, <3>1, <3>2 DEF LimitReached
    <3> QED
      BY ONLY <1>0, <3>1, <3>2, <3>3 DEF Limited
  <2> QED
    BY <1>8, <2>1, <2>2, AfterNext DEF Limited, history
<1>9. CASE Replanned
  BY <1>9, AfterReplanned DEF Limited, history
<1>10. CASE Remediated
  BY <1>10, AfterRemediated DEF Limited
<1> QED
  BY <1>1, <1>2, <1>3, <1>4, <1>5, <1>6, <1>7, <1>8, <1>9, <1>10, StepCases DEF Builds

(* No more slices are archived than iterations were begun; the slice of an  *)
(* Archive that is repeated counts once.                                    *)
Earned ==
  /\ IsFiniteSet(doneSince)
  /\ Known =>
       /\ disk.stage \in {"Propose", "Done"} => Cardinality(doneSince) < disk.iteration
       /\ disk.stage = "Archive" => Cardinality(doneSince \ {disk.slice}) < disk.iteration
       /\ disk.stage = "Complete" => Cardinality(doneSince) <= disk.iteration

(* A slice more or less.                                                    *)
LEMMA WithoutOne ==
  ASSUME NEW done, NEW s, IsFiniteSet(done)
  PROVE  /\ IsFiniteSet(done \cup {s})
         /\ Cardinality(done) \in Nat /\ Cardinality(done \ {s}) \in Nat
         /\ Cardinality(done \ {s}) <= Cardinality(done)
         /\ Cardinality(done) <= Cardinality(done \ {s}) + 1
<1>1. Cardinality(done) \in Nat
  BY FS_CardinalityType
<1>2. /\ IsFiniteSet(done \ {s})
      /\ Cardinality(done \ {s}) = IF s \in done THEN Cardinality(done) - 1 ELSE Cardinality(done)
  BY FS_RemoveElement
<1>3. Cardinality(done \ {s}) \in Nat
  BY <1>2, FS_CardinalityType
<1> QED
  BY <1>1, <1>2, <1>3, FS_AddElement

(* Every iteration delivers one slice.                                      *)
LEMMA EarnedStep ==
  ASSUME Sorted, Earned, [CampaignNext]_campaign
  PROVE  Earned'
<1>0. disk.iteration \in Nat /\ IsFiniteSet(doneSince) /\ Saved /\ Placed
  BY DEF Sorted, CampaignTypeOK, RunState, Earned
<1>1. /\ Cardinality(doneSince) \in Nat /\ Cardinality(doneSince \ {disk.slice}) \in Nat
      /\ Cardinality(doneSince \ {disk.slice}) <= Cardinality(doneSince)
      /\ Cardinality(doneSince) <= Cardinality(doneSince \ {disk.slice}) + 1
      /\ IsFiniteSet(doneSince \cup {disk.slice})
  BY <1>0, WithoutOne
<1>2. IsFiniteSet({}) /\ Cardinality({}) = 0
  BY FS_EmptySet
<1>3. CASE Moves
  <2>1. CASE Archive
    <3>1. disk.stage = "Archive" /\ mem = disk
      BY <1>0, <2>1 DEF Archive, Saved, Placed
    <3>2. disk' = disk /\ (doneSince' = doneSince \/ doneSince' = doneSince \cup {disk.slice})
      BY <2>1, <3>1 DEF Archive
    <3>3. IsFiniteSet(doneSince') /\ doneSince' \ {disk.slice} = doneSince \ {disk.slice}
      BY <1>0, <1>1, <3>2
    <3> QED
      BY <3>1, <3>2, <3>3 DEF Earned, Known
  <2>2. CASE disk'.stage = disk.stage /\ UNCHANGED doneSince
    BY <1>0, <1>3, <2>2, AfterMove DEF Earned, Kept
  <2>3. CASE disk.stage = "Propose" /\ disk'.stage = "Archive" /\ UNCHANGED doneSince
    BY <1>0, <1>1, <1>3, <2>3, AfterMove DEF Earned, Kept
  <2>4. CASE disk.stage = "Archive" /\ disk'.stage = "Complete" /\ UNCHANGED doneSince
    BY <1>0, <1>1, <1>3, <2>4, AfterMove DEF Earned, Kept
  <2> QED
    BY <1>3, <2>1, <2>2, <2>3, <2>4, AfterMove
<1>4. CASE Forget \/ ForgetRewound
  BY <1>0, <1>4, AfterForget DEF Earned, history
<1>5. CASE Launch
  <2>1. disk'.iteration = 1 /\ disk'.stage \in {"Propose", "Done"} /\ doneSince' = {}
    BY <1>5, AfterLaunch
  <2>2. IsFiniteSet(doneSince') /\ Cardinality(doneSince') = 0
    BY ONLY <1>2, <2>1
  <2> QED
    BY ONLY <2>1, <2>2 DEF Earned
<1>6. CASE Bootstrap
  <2>1. disk'.iteration = 1 /\ disk'.stage \in {"Propose", "Done"} /\ doneSince' = {}
    BY <1>6, AfterBootstrap
  <2>2. IsFiniteSet(doneSince') /\ Cardinality(doneSince') = 0
    BY ONLY <1>2, <2>1
  <2> QED
    BY ONLY <2>1, <2>2 DEF Earned
<1>7. CASE Resume
  BY <1>0, <1>7, AfterResume DEF Earned
<1>8. CASE HandOver
  <2>1. doneSince = {}
    BY <1>8, AfterHandOver DEF Sorted, Planning
  <2>2. /\ disk'.iteration = 1 /\ disk'.stage \in {"Propose", "Done"}
        /\ doneSince' = doneSince
    BY <1>8, AfterHandOver DEF history
  <2>3. IsFiniteSet(doneSince') /\ Cardinality(doneSince') = 0
    BY ONLY <1>2, <2>1, <2>2
  <2> QED
    BY ONLY <2>2, <2>3 DEF Earned
<1>9. CASE RecordIteration
  BY <1>0, <1>9, AfterRecord DEF Earned, history
<1>10. CASE NextIteration
  <2>1. CASE Stop
    BY <1>0, <1>10, <2>1, AfterNext DEF Earned, history, Stop, Known
  <2>2. CASE ~Stop
    <3>1. Cardinality(doneSince) <= disk.iteration
      BY <1>10, AfterNext DEF Earned
    <3>2. /\ disk'.iteration = disk.iteration + 1 /\ disk'.stage \in {"Done", "Propose"}
          /\ doneSince' = doneSince
      BY <1>10, <2>2, AfterNext DEF history
    <3>3. Cardinality(doneSince) < disk'.iteration
      BY <1>0, <1>1, <3>1, <3>2
    <3> QED
      BY <1>0, <3>2, <3>3 DEF Earned
  <2> QED
    BY <2>1, <2>2
<1>11. CASE Replanned
  BY <1>0, <1>11, AfterReplanned DEF Earned, history
<1>12. CASE Remediated
  BY <1>0, <1>12, AfterRemediated DEF Earned
<1> QED
  BY <1>3, <1>4, <1>5, <1>6, <1>7, <1>8, <1>9, <1>10, <1>11, <1>12, StepCases DEF Builds

(* What a slice that is next says of the archive.                           *)
LEMMA Selected ==
  ASSUME NEW slices \in SUBSET Slices, NEW s, Selects(slices, s)
  PROVE  /\ s \in slices /\ s \notin archived
         /\ s = Terminal => \A t \in slices \ {Terminal} : Archives(t) # {}
<1>1. s \in slices /\ Archives(s) = {} /\ IsFirst(s, Pending(slices))
  BY DEF Selects, IsFirst, Pending
<1>2. IsSuffix(s.ordinal, s.ordinal)
  <2>1. s.ordinal \in Seq(Nat)
    BY <1>1, CampaignAssumption
  <2>2. Reverse(s.ordinal) \in Seq(Nat)
    BY <2>1 DEF Reverse
  <2> QED
    BY <2>2 DEF IsSuffix, IsPrefix
<1>3. s \notin archived
  BY <1>1, <1>2 DEF Archives, EndsWith
<1>4. ASSUME s = Terminal, NEW t \in slices \ {Terminal}, Archives(t) = {} PROVE FALSE
  <2>1. t \in Pending(slices)
    BY <1>4, FS_EmptySet DEF Pending
  <2>2. Before(Terminal, t)
    BY <1>1, <1>4, <2>1 DEF IsFirst
  <2>3. /\ Terminal.ordinal \in Seq(Nat) \ {<<>>} /\ t.ordinal \in Seq(Nat) \ {<<>>}
        /\ t.ordinal[1] < Terminal.ordinal[1]
    BY CampaignAssumption
  <2>4. PICK x \in Seq(Nat), y \in Seq(Nat) :
          x = Terminal.ordinal /\ y = t.ordinal /\ x # <<>> /\ y # <<>> /\ y[1] < x[1]
    BY <2>3
  <2>5. x[1] \in Nat /\ y[1] \in Nat /\ Len(x) >= 1 /\ Len(y) >= 1
    BY <2>4
  <2>6. CASE IsPrefix(x, y)
    BY <2>4, <2>5, <2>6 DEF IsPrefix
  <2>7. ASSUME NEW i \in 1..Len(x), i <= Len(y), x[i] < y[i],
               \A j \in 1..(i - 1) : x[j] = y[j]
        PROVE  FALSE
    <3>1. CASE i = 1
      BY <2>4, <2>5, <2>7, <3>1
    <3>2. CASE i # 1
      <4>1. 1 \in 1..(i - 1)
        BY <2>5, <3>2
      <4> QED
        BY <2>4, <2>5, <2>7, <4>1
    <3> QED
      BY <3>1, <3>2
  <2> QED
    BY <2>2, <2>4, <2>6, <2>7 DEF Before, IsStrictPrefix
<1> QED
  BY <1>1, <1>3, <1>4

(* The slices recorded are those archived since the run began, but for the  *)
(* one at work; a slice at work is recorded when its iteration is finished. *)
Counting ==
  Known /\ ~torn =>
    /\ IsInjective(disk.completed) /\ Range(disk.completed) \subseteq doneSince
    /\ disk.stage \in {"Propose", "Done"} => doneSince \subseteq Range(disk.completed)
    /\ doneSince \subseteq Range(disk.completed) \cup {disk.slice}
    /\ disk.stage = "Complete" /\ ~disk.bootstrap => disk.slice \in doneSince
    /\ pc = "archived" /\ ~disk.bootstrap => disk.slice \in doneSince
    /\ disk.stage # "Done" =>
         (disk.slice \in Range(disk.completed) <=> Len(disk.completed) = disk.iteration)
    /\ pc # "rewinding" => doneSince \subseteq archived

(* A slice more is recorded.                                                *)
LEMMA Appended ==
  ASSUME NEW c \in Seq(Slices), NEW s \in Slices
  PROVE  /\ Range(Append(c, s)) = Range(c) \cup {s}
         /\ IsInjective(c) /\ s \notin Range(c) => IsInjective(Append(c, s))
<1>1. /\ Append(c, s) \in Seq(Slices) /\ Len(Append(c, s)) = Len(c) + 1 /\ Len(c) \in Nat
      /\ \A k \in 1..Len(c) : Append(c, s)[k] = c[k]
      /\ Append(c, s)[Len(c) + 1] = s
  OBVIOUS
<1>2. PICK d \in Seq(Slices) : d = Append(c, s)
  BY <1>1
<1>3. DOMAIN d = 1..(Len(c) + 1) /\ DOMAIN c = 1..Len(c)
  BY <1>1, <1>2
<1>4. Range(d) = Range(c) \cup {s}
  <2>1. \A k \in DOMAIN d : d[k] \in Range(c) \cup {s}
    BY <1>1, <1>2, <1>3 DEF Range
  <2>2. \A k \in DOMAIN c : k \in DOMAIN d /\ d[k] = c[k]
    BY <1>1, <1>2, <1>3
  <2>3. Len(c) + 1 \in DOMAIN d /\ d[Len(c) + 1] = s
    BY <1>1, <1>2, <1>3
  <2> QED
    BY ONLY <2>1, <2>2, <2>3 DEF Range
<1>5. ASSUME IsInjective(c), s \notin Range(c) PROVE IsInjective(d)
  <2>1. \A k \in DOMAIN c : c[k] # s
    BY <1>5 DEF Range
  <2> QED
    BY <1>1, <1>2, <1>3, <1>5, <2>1 DEF IsInjective
<1> QED
  BY <1>2, <1>4, <1>5

(* A run begins with nothing recorded.                                      *)
LEMMA NothingRecorded == Range(<<>>) = {} /\ IsInjective(<<>>) /\ Len(<<>>) = 0
BY DEF Range, IsInjective

(* Most moves leave the archive alone.                                      *)
LEMMA MoveCases ==
  ASSUME Sorted, Moves
  PROVE  \/ Archive \/ Rewind \/ Crash \/ FinalCommit
         \/ /\ UNCHANGED <<archived, doneSince, torn>>
            /\ pc' \in {"archived", "rewinding"} => pc' = pc
            /\ pc = "rewinding" => pc' = pc
<1>1. CASE CampaignLoop
  <2>1. pc = "loop" /\ UNCHANGED <<archived, doneSince, torn>>
    BY <1>1 DEF CampaignLoop, repository, history
  <2>2. mem.stage \in {"Propose", "Archive", "Complete", "Done"}
    BY <2>1 DEF Sorted, CampaignTypeOK, Saved, Known, RunState
  <2>3. pc' \in {"loop", "idle", "frontier", "work", "archive", "complete"}
    BY <1>1, <2>1, <2>2 DEF CampaignLoop, Stop
  <2> QED
    BY <2>1, <2>3
<1>2. CASE Work
  BY <1>2 DEF Work, history
<1>3. CASE WorkTooLarge
  BY <1>3 DEF WorkTooLarge, repository, history
<1>4. CASE Finish
  BY <1>4 DEF Finish, Stop, repository, history
<1>5. CASE OpenFrontier
  BY <1>5 DEF OpenFrontier, Stop, history
<1>6. CASE NoFrontier
  BY <1>6 DEF NoFrontier, Stop, repository, history
<1>7. CASE Ready
  BY <1>7 DEF Ready, InSession, Accept
<1>8. CASE FrontierRejected \/ FrontierFails \/ FrontierCommits
  BY <1>8 DEF FrontierRejected, FrontierFails, FrontierCommits, InSession, Stop, history
<1>9. CASE UNCHANGED campaign
  BY <1>9 DEF campaign, repository, history
<1> QED
  BY <1>1, <1>2, <1>3, <1>4, <1>5, <1>6, <1>7, <1>8, <1>9 DEF Moves

(* What is archived is recorded before the next slice is assigned, once: a  *)
(* slice that is assigned is not archived.                                  *)
LEMMA CountingStep ==
  ASSUME Sorted, Counting, [CampaignNext]_campaign
  PROVE  Counting'
<1>0. /\ disk.iteration \in Nat /\ Saved /\ Placed /\ disk.completed \in Seq(Slices)
      /\ agenda \subseteq Slices
  BY DEF Sorted, CampaignTypeOK, RunState
<1>1. CASE Moves
  <2>0. /\ Kept /\ (Known <=> Known')
        /\ \/ disk'.stage = disk.stage
           \/ /\ Work /\ disk.stage = "Propose" /\ disk'.stage = "Archive"
              /\ UNCHANGED <<archived, doneSince>>
           \/ /\ FinalCommit /\ disk.stage = "Archive" /\ disk'.stage = "Complete"
              /\ UNCHANGED <<archived, doneSince>>
    BY ONLY Sorted, <1>1, AfterMove
  <2>1. CASE Archive
    <3>1. /\ mem = disk /\ disk' = disk /\ disk.stage = "Archive" /\ torn' = torn
          /\ pc = "archive" /\ pc' = "archived"
          /\ \/ disk.bootstrap /\ UNCHANGED <<archived, doneSince>>
             \/ /\ archived' = archived \cup {disk.slice}
                /\ doneSince' = doneSince \cup {disk.slice}
      BY <1>0, <2>1 DEF Archive, Saved, Placed
    <3> QED
      BY ONLY Counting, <3>1 DEF Counting, Known
  <2>2. CASE Rewind
    BY <2>0, <2>2 DEF Rewind, Counting, history, Known
  <2>3. CASE Crash
    <3>1. /\ disk' = disk /\ UNCHANGED <<archived, doneSince>> /\ pc' = "idle"
          /\ torn' = (torn \/ (pc = "rewinding" /\ Known))
      BY <2>3 DEF Crash, Stop, repository, Known
    <3> QED
      BY ONLY Counting, <3>1 DEF Counting, Known
  <2>4. CASE FinalCommit
    <3>1. /\ pc = "archived" /\ pc' = "complete" /\ torn' = torn
          /\ UNCHANGED <<archived, doneSince>> /\ mem = disk
      BY <1>0, <2>4 DEF FinalCommit, history, Saved
    <3>2. disk.stage = "Archive" /\ disk'.stage = "Complete"
      BY <1>0, <2>4, <3>1 DEF Placed, FinalCommit, Save, RunState, Sorted, CampaignTypeOK
    <3> QED
      BY ONLY Counting, <2>0, <3>1, <3>2 DEF Counting, Kept
  <2>5. CASE /\ UNCHANGED <<archived, doneSince, torn>> /\ ~FinalCommit
             /\ pc' \in {"archived", "rewinding"} => pc' = pc
             /\ pc = "rewinding" => pc' = pc
    BY ONLY Counting, <2>0, <2>5 DEF Counting, Kept
  <2> QED
    BY ONLY <1>1, <2>1, <2>2, <2>3, <2>4, <2>5, Sorted, MoveCases
<1>2. CASE Forget \/ ForgetRewound
  BY <1>2, AfterForget DEF Counting
<1>3. CASE Launch
  <2>1. /\ disk'.completed = <<>> /\ doneSince' = {} /\ disk'.iteration = 1
        /\ disk'.stage \in {"Propose", "Done"} /\ pc' = "loop"
    BY <1>3, AfterLaunch
  <2> QED
    BY ONLY <2>1, NothingRecorded DEF Counting
<1>4. CASE Bootstrap
  <2>1. /\ disk'.completed = <<>> /\ doneSince' = {} /\ disk'.iteration = 1
        /\ disk'.stage = "Propose" /\ pc' = "loop"
    BY <1>4, AfterBootstrap
  <2> QED
    BY ONLY <2>1, NothingRecorded DEF Counting
<1>5. CASE Resume
  <2>1. /\ disk'.stage = disk.stage /\ disk'.slice = disk.slice
        /\ disk'.bootstrap = disk.bootstrap /\ disk'.iteration = disk.iteration
        /\ disk'.completed = disk.completed /\ pc = "idle" /\ pc' = "loop" /\ Known
        /\ UNCHANGED <<archived, doneSince, torn>>
    BY <1>5, AfterResume DEF repository
  <2> QED
    BY ONLY Counting, <2>1 DEF Counting
<1>6. CASE HandOver
  <2>1. doneSince = {}
    BY <1>6, AfterHandOver DEF Sorted, Planning
  <2>2. /\ disk'.completed = <<>> /\ doneSince' = {} /\ disk'.iteration = 1
        /\ disk'.stage \in {"Propose", "Done"} /\ pc' = "loop"
    BY <1>6, <2>1, AfterHandOver DEF history
  <2> QED
    BY ONLY <2>2, NothingRecorded DEF Counting
<1>7. CASE RecordIteration
  <2>1. /\ Known /\ disk.slice \in Slices /\ disk.stage = "Complete" /\ ~disk.bootstrap
        /\ disk'.stage = "Complete" /\ disk'.slice = disk.slice /\ ~disk'.bootstrap
        /\ disk'.iteration = disk.iteration /\ pc = "complete" /\ pc' = "next"
        /\ UNCHANGED <<archived, doneSince, torn>>
    BY <1>7, AfterRecord DEF RecordIteration, repository, history
  <2>2. CASE disk'.completed = disk.completed
    BY ONLY Counting, <2>1, <2>2 DEF Counting
  <2>3. CASE /\ Len(disk.completed) = disk.iteration - 1
             /\ disk'.completed = Append(disk.completed, disk.slice)
             /\ Len(disk'.completed) = disk.iteration
    <3>1. Len(disk.completed) # disk.iteration
      BY ONLY <1>0, <2>3
    <3>2. /\ Range(disk'.completed) = Range(disk.completed) \cup {disk.slice}
          /\ IsInjective(disk.completed) /\ disk.slice \notin Range(disk.completed)
                => IsInjective(disk'.completed)
      BY ONLY <1>0, <2>1, <2>3, Appended
    <3> QED
      BY ONLY Counting, <2>1, <2>3, <3>1, <3>2 DEF Counting
  <2> QED
    BY <1>7, <2>2, <2>3, AfterRecord
<1>8. CASE NextIteration
  <2>1. CASE Stop
    BY <1>8, <2>1, AfterNext DEF Counting, history, repository, Stop, Known
  <2>2. CASE ~Stop
    <3>1. /\ Known /\ pc = "next" /\ pc' = "loop" /\ disk.stage = "Complete"
          /\ disk.iteration \in Nat /\ Len(disk.completed) = disk.iteration
          /\ disk'.iteration = disk.iteration + 1 /\ disk'.completed = disk.completed
          /\ \/ disk'.stage = "Done"
             \/ disk'.stage = "Propose" /\ Selects(agenda, disk'.slice)
          /\ UNCHANGED <<archived, doneSince, torn>>
      BY <1>8, <2>2, AfterNext DEF history, repository
    <3>2. disk'.stage = "Propose" => disk'.slice \notin archived
      BY <1>0, <3>1, Selected
    <3>3. Len(disk'.completed) # disk'.iteration
      BY ONLY <3>1
    <3>4. ~torn => doneSince \subseteq Range(disk.completed)
      BY ONLY Counting, <3>1 DEF Counting
    <3> QED
      BY ONLY Counting, <3>1, <3>2, <3>3, <3>4 DEF Counting
  <2> QED
    BY <2>1, <2>2
<1>9. CASE Replanned
  <2>1. /\ Known /\ disk.stage = "Propose" /\ disk'.stage = "Propose" /\ disk'.slice = disk.slice
        /\ disk'.iteration = disk.iteration /\ disk'.completed = disk.completed
        /\ pc \in {"session", "again"} /\ pc' = "loop"
        /\ UNCHANGED <<archived, doneSince, torn>>
    BY <1>9, AfterReplanned DEF history, Replanned, InSession
  <2> QED
    BY ONLY Counting, <2>1 DEF Counting
<1>10. CASE Remediated
  <2>1. /\ Known /\ disk.stage = "Propose" /\ disk'.stage = "Propose"
        /\ Selects(agenda, disk'.slice)
        /\ disk'.iteration = disk.iteration /\ disk'.completed = disk.completed
        /\ pc \in {"session", "again"} /\ pc' = "loop"
        /\ UNCHANGED <<archived, doneSince, torn>>
    BY <1>10, AfterRemediated DEF Remediated, InSession
  <2>2. disk'.slice \notin archived
    BY <1>0, <2>1, Selected
  <2>3. Len(disk.completed) # disk.iteration
    <3>1. Len(disk.completed) = disk.iteration - 1
      BY <2>1 DEF Sorted, Lengths
    <3> QED
      BY ONLY <1>0, <3>1
  <2> QED
    BY ONLY Counting, <2>1, <2>2, <2>3 DEF Counting
<1> QED
  BY <1>1, <1>2, <1>3, <1>4, <1>5, <1>6, <1>7, <1>8, <1>9, <1>10, StepCases DEF Builds

(* All slices but the gate are archived.                                    *)
Others(slices, done) == \A s \in slices \ {Terminal} : \E change \in done : EndsWith(change, s)

(* A slice at work is not archived; the gate is at work when the others are;*)
(* and after READY the archive and the agenda are those that were reviewed. *)
Reviewing ==
  Known /\ ~torn /\ pc # "rewinding" =>
    /\ disk.stage = "Propose" /\ ~disk.bootstrap => disk.slice \notin archived
    /\ disk.stage = "Propose" /\ Gate(disk) => Others(disk.base, archived)
    /\ Gate(disk) /\ disk.ready /\ ~disk.localOnly /\ ~disk.tooLarge =>
         agenda = disk.base /\ reviewed = archived \ {Terminal} /\ Others(disk.base, archived)

(* A slice that is assigned is not archived, and the gate only when all others *)
(* are.                                                                     *)
LEMMA AssignedReview ==
  ASSUME NEW s, NEW slices \in SUBSET Slices, Selects(slices, s)
  PROVE  s \notin archived /\ (s = Terminal => Others(slices, archived))
BY Selected DEF Others, Archives

(* What a move says to the review.                                          *)
LEMMA ReviewingMove ==
  ASSUME Sorted, Reviewing, Moves
  PROVE  Reviewing'
<1>0. disk \in RunState /\ Saved /\ Placed /\ Planning /\ Terminal # NoSlice
  BY Bounds DEF Sorted, CampaignTypeOK
<1>1. ASSUME /\ disk'.stage = disk.stage \/ disk'.stage \notin {"none", "Propose"}
             /\ disk'.slice = disk.slice /\ disk'.base = disk.base
             /\ disk'.bootstrap = disk.bootstrap /\ disk'.localOnly = disk.localOnly
             /\ disk'.tooLarge \/ disk.localOnly
                  \/ (disk'.ready = disk.ready /\ disk'.tooLarge = disk.tooLarge)
             /\ UNCHANGED <<archived, reviewed, torn>> /\ pc # "rewinding"
             /\ Known
             /\ agenda' = agenda \/ ~Gate(disk) \/ ~disk.ready \/ disk.tooLarge
             /\ disk'.tooLarge \/ disk.localOnly \/ agenda' = agenda \/ ~Gate(disk) \/ ~disk'.ready
      PROVE  Reviewing'
  BY ONLY Reviewing, <1>1 DEF Reviewing, Gate
<1>2. CASE CampaignLoop
  <2>1. mem = disk /\ pc = "loop" /\ Known /\ UNCHANGED <<agenda, archived, reviewed, torn>>
    BY <1>0, <1>2 DEF CampaignLoop, Saved, repository, history
  <2>2. CASE mem.localOnly /\ Save([mem EXCEPT !.ready = TRUE])
    BY <1>0, <1>1, <2>1, <2>2 DEF Save, RunState
  <2>3. CASE disk' = disk
    BY <1>1, <2>1, <2>3
  <2> QED
    BY <1>2, <2>2, <2>3 DEF CampaignLoop, Stop
<1>3. CASE Work
  <2>1. /\ mem = disk /\ Known /\ pc = "work" /\ disk' = [disk EXCEPT !.stage = "Archive"]
        /\ UNCHANGED <<archived, reviewed, torn>>
        /\ disk.bootstrap \/ agenda' = agenda
    BY <1>0, <1>3 DEF Work, Saved, Save, history
  <2>2. disk.bootstrap => ~Gate(disk)
    BY <1>0, <2>1 DEF Planning, Gate
  <2> QED
    BY <1>0, <1>1, <2>1, <2>2 DEF RunState
<1>4. CASE WorkTooLarge
  <2>1. /\ mem = disk /\ Known /\ pc = "work" /\ disk' = [disk EXCEPT !.tooLarge = TRUE]
        /\ UNCHANGED <<agenda, archived, reviewed, torn>>
    BY <1>0, <1>4 DEF WorkTooLarge, Saved, Save, repository, history
  <2> QED
    BY <1>0, <1>1, <2>1 DEF RunState
<1>5. CASE FinalCommit
  <2>1. /\ mem = disk /\ Known /\ pc = "archived" /\ disk' = [disk EXCEPT !.stage = "Complete"]
        /\ UNCHANGED <<agenda, archived, reviewed, torn>>
    BY <1>0, <1>5 DEF FinalCommit, Saved, Save, history
  <2> QED
    BY <1>0, <1>1, <2>1 DEF RunState
<1>6. CASE Archive
  <2>1. /\ mem = disk /\ Known /\ disk' = disk /\ disk.stage = "Archive" /\ pc = "archive"
        /\ UNCHANGED <<agenda, reviewed, torn>>
        /\ archived' = archived \/ archived' = archived \cup {disk.slice}
    BY <1>0, <1>6 DEF Archive, Saved, Placed
  <2>2. Others(disk.base, archived) => Others(disk.base, archived')
    BY <2>1 DEF Others
  <2> QED
    BY ONLY Reviewing, <2>1, <2>2 DEF Reviewing, Gate, Known
<1>7. CASE Finish \/ NoFrontier
  BY <1>0, <1>1, <1>7 DEF Finish, NoFrontier, Stop, Saved, repository, history
<1>8. CASE OpenFrontier \/ FrontierRejected \/ FrontierFails \/ FrontierCommits
  <2>1. pc \in {"frontier", "session", "again"} /\ disk' = disk
        /\ UNCHANGED <<archived, reviewed, torn>>
    BY <1>8 DEF OpenFrontier, FrontierRejected, FrontierFails, FrontierCommits, InSession, Stop,
       history
  <2>2. Known /\ (~Gate(disk) \/ ~disk.ready \/ disk.tooLarge)
    BY <1>0, <2>1 DEF Saved, Placed
  <2> QED
    BY <1>1, <2>1, <2>2
<1>9. CASE Ready
  <2>1. /\ mem = disk /\ Known /\ pc # "rewinding" /\ disk' = [disk EXCEPT !.ready = TRUE]
        /\ UNCHANGED <<agenda, archived, torn>> /\ reviewed' = archived
        /\ Gate(disk) /\ disk.stage = "Propose" /\ ~disk.bootstrap /\ agenda = disk.base
    BY <1>0, <1>9 DEF Ready, InSession, Accept, Saved, Placed, Save
  <2>2. /\ disk'.stage = disk.stage /\ disk'.slice = disk.slice /\ disk'.base = disk.base
        /\ disk'.bootstrap = disk.bootstrap
    BY <1>0, <2>1 DEF RunState
  <2>3. ~torn => Terminal \notin archived /\ Others(disk.base, archived)
    BY <2>1 DEF Reviewing, Gate
  <2> QED
    BY ONLY <2>1, <2>2, <2>3 DEF Reviewing, Gate
<1>10. CASE Rewind
  BY <1>10 DEF Rewind, Reviewing
<1>11. CASE Crash
  <2>1. /\ disk' = disk /\ UNCHANGED <<agenda, archived, reviewed>>
        /\ torn' = (torn \/ (pc = "rewinding" /\ Known))
    BY <1>11 DEF Crash, Stop, repository, Known
  <2> QED
    BY ONLY Reviewing, <2>1 DEF Reviewing, Known, Gate
<1>12. CASE UNCHANGED campaign
  BY <1>12 DEF campaign, repository, history, Reviewing, Known, Gate
<1> QED
  BY <1>2, <1>3, <1>4, <1>5, <1>6, <1>7, <1>8, <1>9, <1>10, <1>11, <1>12 DEF Moves

(* No slice is archived between the review of the gate and its archiving.   *)
LEMMA ReviewingStep ==
  ASSUME Sorted, Reviewing, [CampaignNext]_campaign
  PROVE  Reviewing'
<1>0. agenda \subseteq Slices
  BY DEF Sorted, CampaignTypeOK
<1>1. CASE Moves
  BY <1>1, ReviewingMove
<1>2. CASE Forget \/ ForgetRewound
  BY <1>2, AfterForget DEF Reviewing
<1>3. ASSUME /\ UNCHANGED <<agenda, archived>> /\ ~disk'.ready /\ ~disk'.bootstrap
             /\ \/ disk'.stage = "Done"
                \/ /\ disk'.stage = "Propose" /\ disk'.base = agenda
                   /\ Selects(agenda, disk'.slice)
      PROVE  Reviewing'
  <2>1. disk'.stage = "Propose" =>
          disk'.slice \notin archived /\ (disk'.slice = Terminal => Others(agenda, archived))
    BY <1>0, <1>3, AssignedReview
  <2> QED
    BY ONLY <1>3, <2>1 DEF Reviewing, Gate
<1>4. CASE Launch
  BY <1>3, <1>4, AfterLaunch DEF repository
<1>5. CASE HandOver
  BY <1>3, <1>5, AfterHandOver DEF repository
<1>6. CASE Remediated
  BY <1>3, <1>6, AfterRemediated
<1>7. CASE Bootstrap
  BY <1>7, AfterBootstrap, Bounds DEF Reviewing, Gate
<1>8. CASE Resume
  <2>1. /\ disk'.stage = disk.stage /\ disk'.slice = disk.slice /\ disk'.base = disk.base
        /\ disk'.bootstrap = disk.bootstrap /\ disk'.ready = disk.ready
        /\ disk'.tooLarge = disk.tooLarge /\ (disk.localOnly => disk'.localOnly)
        /\ Known /\ pc = "idle" /\ UNCHANGED <<agenda, archived, reviewed, torn>>
    BY <1>8, AfterResume DEF repository
  <2> QED
    BY ONLY Reviewing, <2>1 DEF Reviewing, Gate
<1>9. CASE RecordIteration
  <2>1. /\ disk'.stage = "Complete" /\ disk'.slice = disk.slice /\ disk'.base = disk.base
        /\ disk'.ready = disk.ready /\ disk'.localOnly = disk.localOnly
        /\ disk'.tooLarge = disk.tooLarge
        /\ Known /\ pc = "complete" /\ UNCHANGED <<agenda, archived, reviewed, torn>>
    BY <1>9, AfterRecord DEF RecordIteration, repository, history
  <2> QED
    BY ONLY Reviewing, <2>1 DEF Reviewing, Gate
<1>10. CASE NextIteration
  <2>1. CASE Stop
    BY <1>10, <2>1, AfterNext DEF Reviewing, history, repository, Stop, Known, Gate
  <2>2. CASE ~Stop
    BY <1>3, <1>10, <2>2, AfterNext DEF repository
  <2> QED
    BY <2>1, <2>2
<1>11. CASE Replanned
  <2>1. /\ disk'.stage = "Propose" /\ disk'.slice = disk.slice /\ disk.slice # Terminal
        /\ disk.stage = "Propose" /\ ~disk.bootstrap
        /\ Known /\ pc \in {"session", "again"} /\ UNCHANGED <<agenda, archived, reviewed, torn>>
    BY <1>11, AfterReplanned DEF Replanned, InSession, history
  <2> QED
    BY ONLY Reviewing, <2>1 DEF Reviewing, Gate
<1> QED
  BY <1>1, <1>2, <1>4, <1>5, <1>6, <1>7, <1>8, <1>9, <1>10, <1>11, StepCases DEF Builds

(* All of it is inductive; Sorted is what the other parts rest on.          *)
CampaignInv == Sorted /\ Rounds /\ Limited /\ Earned /\ Counting /\ Reviewing

(* Nothing has been run at first.                                           *)
LEMMA InitCampaignInv == CampaignInit => CampaignInv
<1> SUFFICES ASSUME CampaignInit PROVE CampaignInv
  OBVIOUS
<1>1. Sorted
  BY TypesInitially
<1>2. ~Known /\ rounds = 0 /\ doneSince = {}
  BY NoStateFields DEF CampaignInit, Known
<1> QED
  BY <1>1, <1>2, Bounds, FS_EmptySet
     DEF CampaignInv, Rounds, Limited, Earned, Counting, Reviewing

(* Every step keeps the invariant.                                          *)
LEMMA NextCampaignInv == CampaignInv /\ [CampaignNext]_campaign => CampaignInv'
BY TypesStep, RoundsStep, LimitedStep, EarnedStep, CountingStep, ReviewingStep DEF CampaignInv

(* The invariant holds throughout: crashes, resumptions and rewinds         *)
(* included.                                                                *)
THEOREM CampaignAlways == CampaignSpec => []CampaignInv
BY InitCampaignInv, NextCampaignInv, PTL DEF CampaignSpec

(* Checkpoints, agendas and histories have their types, for every number of *)
(* starts, limits, remediations and subdivisions.                           *)
THEOREM CampaignTypes == CampaignSpec => []CampaignTypeOK
<1>1. CampaignInv => CampaignTypeOK
  BY DEF CampaignInv, Sorted
<1> QED
  BY <1>1, CampaignAlways, PTL

(* Interrupted and resumed at any point, the checkpoint has counted each    *)
(* slice archived since the run began once, except the one it is at.        *)
THEOREM CountedOnceHolds == CampaignSpec => []CountedOnce
<1>1. CampaignInv => CountedOnce
  <2> SUFFICES ASSUME CampaignInv, disk.loop, ~torn PROVE CountedOnce
    BY DEF CountedOnce
  <2>1. Known
    BY NoStateFields DEF CampaignInv, Sorted, Saved
  <2> QED
    BY <2>1 DEF CampaignInv, Counting, CountedOnce
<1> QED
  BY <1>1, CampaignAlways, PTL

(* Resumptions add up to no more slices than the highest limit, and no more *)
(* rounds of remediation than allowed (app.rs:1819, 2084).                  *)
THEOREM AllowancesKeptHolds == CampaignSpec => []AllowancesKept
<1>1. CampaignInv => AllowancesKept
  <2> SUFFICES ASSUME CampaignInv PROVE AllowancesKept
    OBVIOUS
  <2>1. rounds <= MaxRemediations
    BY DEF CampaignInv, Rounds
  <2>2. ASSUME allowed # 0, disk.loop PROVE Cardinality(doneSince) <= allowed
    <3>1. Known
      BY <2>2, NoStateFields DEF CampaignInv, Sorted, Saved
    <3>2. /\ disk.iteration \in Nat /\ allowed \in Nat
          /\ disk.stage \in {"Propose", "Archive", "Complete", "Done"}
      BY <3>1 DEF CampaignInv, Sorted, CampaignTypeOK, RunState, Known
    <3>3. IF disk.stage = "Done" THEN disk.iteration <= allowed + 1 ELSE disk.iteration <= allowed
      BY <2>2, <3>1 DEF CampaignInv, Limited
    <3>4. IsFiniteSet(doneSince)
      BY DEF CampaignInv, Earned
    <3>5. /\ Cardinality(doneSince) \in Nat /\ Cardinality(doneSince \ {disk.slice}) \in Nat
          /\ Cardinality(doneSince) <= Cardinality(doneSince \ {disk.slice}) + 1
      BY <3>4, WithoutOne
    <3>6. /\ disk.stage \in {"Propose", "Done"} => Cardinality(doneSince) < disk.iteration
          /\ disk.stage = "Archive" => Cardinality(doneSince \ {disk.slice}) < disk.iteration
          /\ disk.stage = "Complete" => Cardinality(doneSince) <= disk.iteration
      BY <3>1 DEF CampaignInv, Earned
    <3> QED
      BY ONLY <3>2, <3>3, <3>5, <3>6
  <2> QED
    BY <2>1, <2>2 DEF AllowancesKept
<1> QED
  BY <1>1, CampaignAlways, PTL

(* The gate is archived last, on a review that saw everything else archived *)
(* (app.rs:4725), for every agenda and every order of interruptions.        *)
THEOREM GateLastHolds == CampaignSpec => []GateLast
<1>1. CampaignInv => GateLast
  <2> SUFFICES ASSUME CampaignInv, pc = "archived", Gate(mem), ~mem.localOnly, ~torn
               PROVE  /\ \A s \in agenda \ {Terminal} : Archives(s) # {}
                      /\ reviewed = archived \ {Terminal}
    BY DEF GateLast
  <2>1. mem = disk /\ Known /\ disk.ready /\ ~disk.tooLarge
    BY DEF CampaignInv, Sorted, Saved, Placed
  <2>2. agenda = disk.base /\ reviewed = archived \ {Terminal} /\ Others(disk.base, archived)
    BY <2>1 DEF CampaignInv, Reviewing
  <2> QED
    BY <2>2 DEF Others, Archives
<1> QED
  BY <1>1, CampaignAlways, PTL
-----------------------------------------------------------------------------
(* The keys of the dashboard                                                *)

(* From the top of the loop on, the view is of the slice that is at work.    *)
Showing ==
  runner.pc \in {"shown", "stage", "stream", "complete"} =>
    screen.view.slice = runner.slice /\ (Up => board.view.slice = runner.slice)

(* A pause that was confirmed is on the dashboard until the slice is over.   *)
Noted == wanted => Up /\ board.stop /\ board.view.slice = runner.slice

KeysInv ==
  /\ DashboardTypeOK /\ Showing /\ Noted
  /\ control # "None" => runner.pc = "stream"

LEMMA NoBoardIsNone == NoBoard \notin Board
  BY DEF NoBoard, Board

LEMMA KeysInitially == DashboardInit => KeysInv
<1> SUFFICES ASSUME DashboardInit PROVE KeysInv
  OBVIOUS
<1>1. PICK localOnly \in BOOLEAN :
        runner = [pc |-> "loop", slice |-> 0, escalated |-> FALSE, localOnly |-> localOnly,
                  process |-> 0]
  BY DEF DashboardInit
<1>2. /\ screen = [view |-> [slice |-> 0, complete |-> FALSE], continues |-> FALSE, stage |-> <<>>]
      /\ board = NoBoard /\ control = "None" /\ key = "none" /\ wanted = FALSE
  BY <1>1 DEF DashboardInit, Shown
<1>3. runner \in RunnerState /\ screen \in Screen
  BY <1>1, <1>2, DashboardAssumption DEF RunnerState, Screen, View
<1> QED
  BY <1>1, <1>2, <1>3 DEF KeysInv, DashboardTypeOK, Showing, Noted, KeyControl

(* What the view is told of (set_campaign): the same slice keeps the pause.  *)
LEMMA PresentKeeps ==
  ASSUME KeysInv, NEW complete \in BOOLEAN, Present(complete)
  PROVE  /\ screen' \in Screen /\ board' \in Board \cup {NoBoard} /\ Up' = Up
         /\ screen'.view.slice = runner.slice
         /\ Up => /\ board'.view.slice = runner.slice
                  /\ board.view.slice = runner.slice => board'.stop = board.stop
<1> DEFINE view == Shown(runner, complete)
<1>1. view \in View /\ view.slice = runner.slice /\ Bootstraps(runner) \in BOOLEAN
  BY DEF KeysInv, DashboardTypeOK, RunnerState, View, Shown, Bootstraps
<1>2. /\ screen' = [screen EXCEPT !.view = view, !.continues = Bootstraps(runner)]
      /\ board' = IF Up
                    THEN [SetCampaign(board, view) EXCEPT !.continues = Bootstraps(runner)]
                    ELSE board
  BY DEF Present
<1>3. screen \in Screen /\ board \in Board \cup {NoBoard}
  BY DEF KeysInv, DashboardTypeOK
<1> HIDE DEF view
<1>4. screen' \in Screen /\ screen'.view.slice = runner.slice
  BY <1>1, <1>2, <1>3 DEF Screen
<1>5. CASE ~Up
  BY <1>2, <1>3, <1>4, <1>5 DEF Up
<1>6. CASE Up
  <2>1. board \in Board
    BY <1>3, <1>6 DEF Up
  <2>2. /\ SetCampaign(board, view) \in Board /\ SetCampaign(board, view).view = view
        /\ board.view.slice = view.slice => SetCampaign(board, view).stop = board.stop
    BY <1>1, <2>1 DEF SetCampaign, Board
  <2>3. /\ board' \in Board /\ board'.view = SetCampaign(board, view).view
        /\ board'.stop = SetCampaign(board, view).stop
    BY <1>1, <1>2, <1>6, <2>2 DEF Board
  <2> QED
    BY <1>1, <1>4, <1>6, <2>2, <2>3, NoBoardIsNone DEF Up
<1> QED
  BY <1>5, <1>6

(* What the runner does to the dashboard of a stage or a stream: nothing to  *)
(* its view or the pause, or it is entered anew from the screen.             *)
LEMMA BoardKeeps ==
  ASSUME KeysInv, runner.pc \in {"shown", "stage", "stream"}, Goto("stage") \/ Goto("stream"),
         screen' \in Screen, screen'.view = screen.view, UNCHANGED wanted,
         control' = "None", key' = "none", board' \in Board \cup {NoBoard},
         Up => Up' /\ board'.stop = board.stop /\ board'.view = board.view,
         ~Up /\ Up' => board'.view = screen.view
  PROVE  KeysInv'
<1>1. /\ runner' \in RunnerState /\ runner'.slice = runner.slice
      /\ runner'.pc \in {"stage", "stream"}
  BY DEF KeysInv, DashboardTypeOK, RunnerState, Goto
<1>2. DashboardTypeOK'
  BY <1>1 DEF KeysInv, DashboardTypeOK, KeyControl
<1>3. screen.view.slice = runner.slice /\ (Up => board.view.slice = runner.slice)
  BY DEF KeysInv, Showing
<1>4. Showing'
  BY <1>1, <1>3 DEF Showing
<1>5. Noted'
  BY <1>1 DEF KeysInv, Noted
<1> QED
  BY <1>2, <1>4, <1>5 DEF KeysInv

(* What a key does to the dashboard.                                         *)
LEMMA KeyKeeps ==
  ASSUME KeysInv, runner.pc = "stream", Up, UNCHANGED <<runner, screen>>,
         board' \in Board, board'.view = board.view, board.stop => board'.stop,
         control' \in KeyControl, key' \in Keys, wanted' \in BOOLEAN,
         wanted' => wanted \/ board'.stop
  PROVE  KeysInv'
<1>1. DashboardTypeOK'
  BY DEF KeysInv, DashboardTypeOK
<1>2. Up' /\ Showing'
  BY NoBoardIsNone DEF KeysInv, Showing, Up
<1>3. Noted'
  BY <1>2 DEF KeysInv, Showing, Noted
<1> QED
  BY <1>1, <1>2, <1>3 DEF KeysInv

(* The stages and streams that begin and end (set_stage, start_stream).      *)
LEMMA StagesKeep ==
  ASSUME KeysInv, StageShows \/ StreamShows \/ (control = "None" /\ StreamOver)
  PROVE  KeysInv'
<1>1. /\ screen \in Screen /\ board \in Board \cup {NoBoard} /\ runner \in RunnerState
      /\ screen.view \in View /\ screen.continues \in BOOLEAN /\ screen.stage \in Titles \cup {<<>>}
  BY DEF KeysInv, DashboardTypeOK, Screen
<1>2. /\ Entered \in Board /\ Entered.view = screen.view
      /\ \A title \in Titles :
           Staged(Entered, title) \in Board /\ Staged(Entered, title).view = screen.view
      /\ Streaming(Entered) \in Board /\ Streaming(Entered).view = screen.view
  <2>1. Entered \in Board /\ Entered.view = screen.view
    BY <1>1 DEF Entered, Board
  <2>2. \A title \in Titles :
          Staged(Entered, title) \in Board /\ Staged(Entered, title).view = Entered.view
    BY <2>1 DEF Staged, Board
  <2>3. Streaming(Entered) \in Board /\ Streaming(Entered).view = Entered.view
    BY <2>1 DEF Streaming, Board
  <2> QED
    BY <2>1, <2>2, <2>3
<1>3. Up => board \in Board
  BY <1>1 DEF Up
<1>4. CASE StageShows
  <2>1. PICK stage \in Stages, who \in {"worker", "frontier"} :
          /\ screen' = [screen EXCEPT !.stage = Title(stage, who)]
          /\ board' \in IF Up THEN {Staged(board, Title(stage, who))}
                        ELSE {Staged(Entered, Title(stage, who)), NoBoard}
    BY <1>4 DEF StageShows, Stages
  <2> DEFINE title == Title(stage, who)
  <2>2. title \in Titles
    BY DEF Titles
  <2> HIDE DEF title
  <2>3. screen' = [screen EXCEPT !.stage = title]
        /\ board' \in IF Up THEN {Staged(board, title)} ELSE {Staged(Entered, title), NoBoard}
    BY <2>1 DEF title
  <2>4. screen' \in Screen /\ screen'.view = screen.view
    BY <1>1, <2>2, <2>3 DEF Screen
  <2>5. Up => /\ Staged(board, title) \in Board /\ Staged(board, title).view = board.view
              /\ Staged(board, title).stop = board.stop
    BY <1>3, <2>2 DEF Staged, Board
  <2>6. /\ runner.pc = "shown" /\ Goto("stage") /\ control' = "None" /\ key' = "none"
        /\ wanted' = wanted
    BY <1>4 DEF StageShows, NoKey
  <2>7. /\ board' \in Board \cup {NoBoard} /\ (Up => Up' /\ board'.stop = board.stop)
        /\ (Up => board'.view = board.view) /\ (~Up /\ Up' => board'.view = screen.view)
    BY <1>2, <2>2, <2>3, <2>5, NoBoardIsNone DEF Up
  <2> QED
    BY <2>4, <2>6, <2>7, BoardKeeps
<1>5. CASE StreamShows
  <2>1. /\ runner.pc = "stage" /\ Goto("stream") /\ control' = "None" /\ key' = "none"
        /\ UNCHANGED <<screen, wanted>>
        /\ board' \in IF Up THEN {Streaming(board)} ELSE {Streaming(Entered), NoBoard}
    BY <1>5 DEF StreamShows, NoKey
  <2>2. Up => /\ Streaming(board) \in Board /\ Streaming(board).view = board.view
              /\ Streaming(board).stop = board.stop
    BY <1>3 DEF Streaming, Board
  <2>3. /\ board' \in Board \cup {NoBoard} /\ (Up => Up' /\ board'.stop = board.stop)
        /\ (Up => board'.view = board.view) /\ (~Up /\ Up' => board'.view = screen.view)
    BY <1>2, <2>1, <2>2, NoBoardIsNone DEF Up
  <2> QED
    BY <1>1, <2>1, <2>3, BoardKeeps
<1>6. CASE StreamOver
  <2>1. PICK success \in BOOLEAN :
          board' = IF Up /\ ~success THEN [board EXCEPT !.running = FALSE] ELSE board
    BY <1>6 DEF StreamOver
  <2>2. /\ runner.pc = "stream" /\ Goto("stage") /\ control' = "None" /\ key' = "none"
        /\ UNCHANGED <<screen, wanted>>
    BY <1>6 DEF StreamOver, NoKey
  <2>3. Up => /\ [board EXCEPT !.running = FALSE] \in Board
              /\ [board EXCEPT !.running = FALSE].view = board.view
              /\ [board EXCEPT !.running = FALSE].stop = board.stop
    BY <1>3 DEF Board
  <2>4. /\ board' \in Board \cup {NoBoard} /\ (Up => Up' /\ board'.stop = board.stop)
        /\ (Up => board'.view = board.view) /\ (~Up => ~Up')
    BY <1>1, <2>1, <2>3, NoBoardIsNone DEF Up
  <2> QED
    BY <1>1, <2>2, <2>4, BoardKeeps
<1> QED
  BY <1>4, <1>5, <1>6

(* The loop of the campaign: a slice is over, escalated or shown again.      *)
LEMMA LoopKeepsKeys ==
  ASSUME KeysInv, LoopShows \/ StageEscalates \/ StageOver \/ SliceCompletes \/ AfterSlice
  PROVE  KeysInv'
<1>1. /\ screen \in Screen /\ board \in Board \cup {NoBoard} /\ runner \in RunnerState
      /\ control \in KeyControl /\ wanted \in BOOLEAN
  BY DEF KeysInv, DashboardTypeOK
<1>2. control' = "None" /\ key' = "none" /\ "None" \in KeyControl
  BY DEF LoopShows, StageEscalates, StageOver, SliceCompletes, AfterSlice, NoKey, KeyControl
<1>3. ASSUME NEW place \in {"shown", "complete"}, NEW complete \in BOOLEAN, Goto(place), Present(complete),
             wanted' = wanted
      PROVE  KeysInv'
  <2>1. /\ screen' \in Screen /\ board' \in Board \cup {NoBoard} /\ Up' = Up
        /\ screen'.view.slice = runner.slice
        /\ Up => /\ board'.view.slice = runner.slice
                 /\ board.view.slice = runner.slice => board'.stop = board.stop
    BY <1>3, PresentKeeps
  <2>2. runner' \in RunnerState /\ runner'.slice = runner.slice
    BY <1>1, <1>3 DEF Goto, RunnerState
  <2> QED
    BY <1>1, <1>2, <1>3, <2>1, <2>2 DEF KeysInv, DashboardTypeOK, Showing, Noted
<1>4. CASE LoopShows
  BY <1>3, <1>4 DEF LoopShows
<1>5. CASE SliceCompletes
  BY <1>3, <1>5 DEF SliceCompletes
<1>6. CASE StageEscalates \/ StageOver
  <2>1. /\ runner' \in RunnerState /\ runner'.pc = "loop" /\ runner'.slice = runner.slice
        /\ UNCHANGED <<screen, board, wanted>>
    BY <1>1, <1>6 DEF StageEscalates, StageOver, RunnerState
  <2> QED
    BY <1>1, <1>2, <2>1 DEF KeysInv, DashboardTypeOK, Showing, Noted, Up
<1>7. CASE AfterSlice /\ ((Up /\ board.stop) \/ runner.slice = MaxSlices)
  <2>1. /\ runner' \in RunnerState /\ runner'.pc = "ended" /\ board' = NoBoard /\ wanted' = FALSE
        /\ screen' = screen
    BY <1>1, <1>7 DEF AfterSlice, Goto, RunnerState
  <2> QED
    BY <1>1, <1>2, <2>1 DEF KeysInv, DashboardTypeOK, Showing, Noted
<1>8. CASE AfterSlice /\ ~((Up /\ board.stop) \/ runner.slice = MaxSlices)
  <2>1. /\ runner' = [runner EXCEPT !.pc = "loop", !.slice = @ + 1]
        /\ UNCHANGED <<screen, board, wanted>> /\ ~wanted
    BY <1>8 DEF AfterSlice, KeysInv, Noted
  <2>2. runner.slice \in 0..MaxSlices /\ runner.slice + 1 \in 0..MaxSlices
    BY <1>1, <1>8, DashboardAssumption DEF RunnerState
  <2>3. runner' \in RunnerState /\ runner'.pc = "loop"
    BY <1>1, <2>1, <2>2 DEF RunnerState
  <2> QED
    BY <1>1, <1>2, <2>1, <2>3 DEF KeysInv, DashboardTypeOK, Showing, Noted
<1> QED
  BY <1>4, <1>5, <1>6, <1>7, <1>8

(* The keys (handle_event, handle_confirmation_event, handle_injection_event).*)
LEMMA KeysKeep ==
  ASSUME KeysInv, Interrupts \/ Steer \/ \E k \in Keys : Ask(k) \/ Confirm(k) \/ Type(k)
  PROVE  KeysInv'
<1>1. /\ runner.pc = "stream" /\ Up /\ control = "None" /\ UNCHANGED <<runner, screen>>
      /\ key' \in Keys
  BY DEF Interrupts, Steer, Ask, Confirm, Type, Press, Keys
<1>2. /\ board \in Board /\ wanted \in BOOLEAN /\ board.stop \in BOOLEAN
      /\ board.pending \in Confirmation \cup {"None"}
  BY <1>1 DEF KeysInv, DashboardTypeOK, Up, Board
<1>3. CASE Interrupts
  BY <1>1, <1>2, <1>3, KeyKeeps DEF Interrupts, KeyControl
<1>4. CASE Steer
  <2>1. /\ board' \in Board /\ board'.view = board.view /\ board'.stop = board.stop
        /\ control' = "None" /\ wanted' = wanted
    BY <1>2, <1>4 DEF Steer, Board
  <2> QED
    BY <1>1, <1>2, <2>1, KeyKeeps DEF KeyControl
<1>5. ASSUME NEW k \in Keys, Ask(k) PROVE KeysInv'
  <2>1. Asks(k) \in Confirmation \cup {"None"}
    BY DEF Asks, Confirmation
  <2>2. board' = [board EXCEPT !.pending = Asks(k)] /\ control' = "None" /\ wanted' = wanted
    BY <1>5 DEF Ask
  <2>3. board' \in Board /\ board'.view = board.view /\ board'.stop = board.stop
    BY <1>2, <2>1, <2>2 DEF Board
  <2> QED
    BY <1>1, <1>2, <2>2, <2>3, KeyKeeps DEF KeyControl
<1>6. ASSUME NEW k \in Keys, Type(k) PROVE KeysInv'
  <2>1. /\ board' = [board EXCEPT !.typed = IF k = "Enter" THEN "no" ELSE "text"]
        /\ control' \in {"Inject", "None"} /\ wanted' = wanted
    BY <1>6 DEF Type
  <2>2. board' \in Board /\ board'.view = board.view /\ board'.stop = board.stop
    BY <1>2, <2>1 DEF Board
  <2> QED
    BY <1>1, <1>2, <2>1, <2>2, KeyKeeps DEF KeyControl
<1>7. ASSUME NEW k \in Keys, Confirm(k), k = "y" PROVE KeysInv'
  <2>1. /\ board' = Confirmed(board, board.pending) /\ board.pending # "None"
        /\ control' = IF board.pending = "StopAfter" THEN "None" ELSE board.pending
        /\ wanted' = (wanted \/ board.pending = "StopAfter")
    BY <1>7 DEF Confirm
  <2>2. /\ board' \in Board /\ board'.view = board.view
        /\ board'.stop = (board.stop \/ board.pending = "StopAfter")
    BY <1>2, <2>1, ZenonT(30) DEF Confirmed, Board
  <2>3. control' \in KeyControl
    BY <1>2, <2>1 DEF KeyControl
  <2>4. wanted' \in BOOLEAN /\ (wanted' => wanted \/ board'.stop) /\ (board.stop => board'.stop)
    BY <1>2, <2>1, <2>2
  <2> QED
    BY <1>1, <2>2, <2>3, <2>4, KeyKeeps
<1>8. ASSUME NEW k \in Keys, Confirm(k), k # "y" PROVE KeysInv'
  <2>1. board' = [board EXCEPT !.pending = "None"] /\ control' = "None" /\ wanted' = wanted
    BY <1>8 DEF Confirm
  <2>2. board' \in Board /\ board'.view = board.view /\ board'.stop = board.stop
    BY <1>2, <2>1 DEF Board
  <2> QED
    BY <1>1, <1>2, <2>1, <2>2, KeyKeeps DEF KeyControl
<1> QED
  BY <1>3, <1>4, <1>5, <1>6, <1>7, <1>8

LEMMA TakenKeeps ==
  ASSUME KeysInv, KeyTaken \/ Restarts
  PROVE  KeysInv'
<1>1. /\ screen \in Screen /\ board \in Board \cup {NoBoard} /\ runner \in RunnerState
      /\ wanted \in BOOLEAN
  BY DEF KeysInv, DashboardTypeOK
<1>2. control' = "None" /\ key' = "none" /\ "None" \in KeyControl
  BY DEF KeyTaken, Restarts, NoKey, KeyControl
<1>3. CASE KeyTaken /\ control \in {"Pause", "Interrupt"}
  <2>1. /\ runner' \in RunnerState /\ runner'.pc = "ended" /\ board' = NoBoard /\ wanted' = FALSE
        /\ screen' = screen
    BY <1>1, <1>3 DEF KeyTaken, Goto, RunnerState
  <2> QED
    BY <1>1, <1>2, <2>1 DEF KeysInv, DashboardTypeOK, Showing, Noted
<1>4. CASE KeyTaken /\ control \notin {"Pause", "Interrupt"}
  <2>1. /\ control # "None" /\ runner.pc = "stream" /\ UNCHANGED <<screen, board, wanted>>
        /\ Goto("stage") \/ runner' = runner
    BY <1>4 DEF KeyTaken, KeysInv
  <2>2. runner' \in RunnerState /\ runner'.slice = runner.slice
    BY <1>1, <2>1 DEF Goto, RunnerState
  <2>3. Up' = Up /\ screen.view.slice = runner.slice /\ (Up => board.view.slice = runner.slice)
    BY <2>1 DEF Up, KeysInv, Showing
  <2> QED
    BY <1>1, <1>2, <2>1, <2>2, <2>3 DEF KeysInv, DashboardTypeOK, Showing, Noted
<1>5. CASE Restarts
  <2>1. /\ runner' = [runner EXCEPT !.pc = IF @ = "complete" THEN @ ELSE "loop", !.process = @ + 1]
        /\ screen' = [view |-> [slice |-> runner.slice, complete |-> FALSE], continues |-> FALSE,
                      stage |-> <<>>]
        /\ board' = NoBoard /\ wanted' = FALSE /\ runner.process < MaxProcesses
    BY <1>5 DEF Restarts, Shown
  <2>2. runner.process + 1 \in 0..MaxProcesses
    BY <1>1, <2>1, DashboardAssumption DEF RunnerState
  <2>3. runner' \in RunnerState /\ runner'.slice = runner.slice
    BY <1>1, <2>1, <2>2 DEF RunnerState
  <2>4. screen' \in Screen /\ screen'.view.slice = runner.slice
    BY <1>1, <2>1 DEF Screen, View, RunnerState
  <2> QED
    BY <1>2, <2>1, <2>3, <2>4 DEF KeysInv, DashboardTypeOK, Showing, Noted, Up
<1> QED
  BY <1>3, <1>4, <1>5

LEMMA KeysAlways == DashboardSpec => []KeysInv
<1>1. KeysInv /\ [DashboardNext]_dashboard => KeysInv'
  <2> SUFFICES ASSUME KeysInv, [DashboardNext]_dashboard PROVE KeysInv'
    OBVIOUS
  <2>1. CASE UNCHANGED dashboard
    BY <2>1 DEF dashboard, KeysInv, DashboardTypeOK, Showing, Noted, Up
  <2> QED
    BY <2>1, StagesKeep, LoopKeepsKeys, KeysKeep, TakenKeeps DEF DashboardNext
<1> QED
  BY <1>1, KeysInitially, PTL DEF DashboardSpec

(* A confirmed q is honoured at the end of the slice, for any number of      *)
(* slices, stages, streams and processes: the request is lost with the       *)
(* dashboard only, never by a view, a stage or a key that comes between       *)
(* (dashboard.rs, set_campaign; stop_after_iteration_requested in ui.rs).     *)
THEOREM PauseIsHonoured == DashboardSpec => PauseHonoured
<1>1. KeysInv /\ [DashboardNext]_dashboard =>
        [wanted /\ runner'.process = runner.process => runner'.slice = runner.slice]_dashboard
  <2> SUFFICES ASSUME KeysInv, DashboardNext, wanted, runner'.process = runner.process
               PROVE  runner'.slice = runner.slice
    OBVIOUS
  <2>1. runner \in RunnerState
    BY DEF KeysInv, DashboardTypeOK
  <2>2. CASE AfterSlice
    <3>1. Goto("ended")
      BY <2>2 DEF AfterSlice, KeysInv, Noted
    <3> QED
      BY <2>1, <3>1 DEF Goto, RunnerState
  <2>3. CASE Restarts
    <3>1. runner'.process = runner.process + 1 /\ runner.process \in Nat
      BY <2>1, <2>3, DashboardAssumption DEF Restarts, RunnerState
    <3> QED
      BY <3>1
  <2>4. CASE LoopShows \/ StageShows \/ StreamShows \/ StageEscalates \/ StageOver \/ StreamOver
             \/ SliceCompletes \/ KeyTaken
    BY <2>1, <2>4 DEF LoopShows, StageShows, StreamShows, StageEscalates, StageOver, StreamOver,
       SliceCompletes, KeyTaken, Goto, RunnerState
  <2>5. CASE Interrupts \/ Steer \/ \E k \in Keys : Ask(k) \/ Confirm(k) \/ Type(k)
    BY <2>5 DEF Interrupts, Steer, Ask, Confirm, Type
  <2> QED
    BY <2>2, <2>3, <2>4, <2>5 DEF DashboardNext
<1> QED
  BY <1>1, KeysAlways, PTL DEF DashboardSpec, PauseHonoured
=============================================================================
