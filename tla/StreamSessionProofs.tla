------------------------ MODULE StreamSessionProofs ------------------------
(***************************************************************************)
(* The streamed session, for all limits, keys and bounds.                  *)
(*                                                                         *)
(* A stop is final: a cancelled process cannot be written to, its input    *)
(* being closed or the process gone, and the loop sets the outcome only    *)
(* when it ends, to the reason of the stop (StopInv).                      *)
(*                                                                         *)
(* The turns the runner waits for are matched, in their order, by the      *)
(* results in the pipe, the turn at work and the inputs unread (Matched);  *)
(* the lemmas say what a line or a message added or taken does to that     *)
(* order, and SessionInv counts the turns and says when the input may be   *)
(* closed.                                                                 *)
(*                                                                         *)
(* A command that ends by itself has answered its work (AnsweredInv): a    *)
(* launcher that accepts interrupts works on one turn at a time, what an   *)
(* interrupt stops is given back by its follow-up, and the input is closed *)
(* after the last turn; other launchers interrupt nothing. The hypothesis  *)
(* is that a slash command is not asked for while another is under way:    *)
(* what happens otherwise is shown by the run InterruptedFollowUp.         *)
(***************************************************************************)
EXTENDS StreamSession, Integers, SequenceTheorems, TLAPS

Silenced == Cancelled => ~CanWrite

OutcomeIsReason ==
  /\ phase # "done" => outcome = "none"
  /\ phase = "start" => ~Cancelled
  /\ Cancelled => outcome \in {"none", reason}

StopInv == Silenced /\ OutcomeIsReason

(* Nothing is stopped at first.                                            *)
LEMMA InitStopInv == Init => StopInv
BY DEF Init, StopInv, Silenced, OutcomeIsReason, Cancelled

(* Every step keeps the invariant: a stop closes the input, and the        *)
(* outcome is set once.                                                    *)
LEMMA NextStopInv == StopInv /\ [Next]_vars => StopInv'
<1> USE DEF StopInv, Silenced, OutcomeIsReason, Cancelled, CanWrite
<1> SUFFICES ASSUME StopInv, [Next]_vars PROVE StopInv'
  OBVIOUS
<1>1. CASE Start
  BY <1>1 DEF Start
<1>2. CASE ReceiveRejection \/ ReceiveResult \/ ReceiveResponse
  BY <1>2 DEF ReceiveRejection, ReceiveResult, ReceiveResponse, Receiving
<1>3. CASE ReceiveNothing \/ NoKey
  BY <1>3 DEF ReceiveNothing, NoKey, claude, turnsOf
<1>4. CASE Disconnected
  BY <1>4 DEF Disconnected, claude, turnsOf
<1>5. CASE Close
  BY <1>5 DEF Close, claude
<1>6. CASE Expire \/ StopKey
  <2>1. ~stdin' /\ outcome' = "none" /\ phase' # "start"
    BY <1>6 DEF Expire, StopKey, Serving, Stop
  <2> QED
    BY <2>1
<1>7. CASE \E action \in Slash \cup {"steer"} : InterruptKey(action)
  BY <1>7 DEF InterruptKey, Serving, turnsOf
<1>8. CASE GraceOver
  BY <1>8 DEF GraceOver, claude, turnsOf
<1>9. CASE Begin \/ TakeInterrupt \/ (\E interrupted \in BOOLEAN : EndTurn(interrupted)) \/ Confused
  BY <1>9 DEF Begin, TakeInterrupt, EndTurn, Confused, runner, loop, turnsOf
<1>10. CASE Exit \/ Killed \/ Crash
  <2>1. exit' \in {"success", "failure"} /\ UNCHANGED runner
    BY <1>10 DEF Exit, Killed, Crash, Leave
  <2> QED
    BY <2>1 DEF runner, loop, turnsOf
<1>11. CASE UNCHANGED vars
  BY <1>11 DEF vars, loop, turnsOf, claude
<1> QED
  BY <1>1, <1>2, <1>3, <1>4, <1>5, <1>6, <1>7, <1>8, <1>9, <1>10, <1>11
  DEF Next, RunnerStep, ClaudeStep

(* In every reachable state.                                               *)
LEMMA StopHolds == Spec => []StopInv
<1>1. Init => StopInv
  BY InitStopInv
<1>2. StopInv /\ [Next]_vars => StopInv'
  BY NextStopInv
<1> QED
  BY <1>1, <1>2, PTL DEF Spec

(* A cancelled process is given no further turn, and the reason stays.     *)
LEMMA StopStep ==
  ASSUME StopInv, Cancelled, [Next]_vars
  PROVE  sent' = sent /\ reason' = reason
<1>1. ~CanWrite /\ phase # "start"
  BY DEF StopInv, Silenced, OutcomeIsReason
<1>2. CASE ReceiveRejection \/ ReceiveResult \/ ReceiveResponse
  BY <1>1, <1>2
  DEF ReceiveRejection, ReceiveResult, ReceiveResponse, Receiving, QueueTurn, NothingQueued
<1>3. CASE Start \/ Expire \/ StopKey \/ (\E action \in Slash \cup {"steer"} : InterruptKey(action))
  BY <1>1, <1>3 DEF Start, Expire, StopKey, InterruptKey, Serving
<1>4. CASE ReceiveNothing \/ Disconnected \/ NoKey \/ Close \/ GraceOver
  BY <1>4 DEF ReceiveNothing, Disconnected, NoKey, Close, GraceOver, turnsOf
<1>5. CASE Begin \/ TakeInterrupt \/ (\E interrupted \in BOOLEAN : EndTurn(interrupted))
           \/ Confused \/ Exit \/ Killed \/ Crash
  BY <1>5
  DEF Begin, TakeInterrupt, EndTurn, Confused, Exit, Killed, Crash, Leave, runner, loop, turnsOf
<1>6. CASE UNCHANGED vars
  BY <1>6 DEF vars, loop, turnsOf
<1> QED
  BY <1>2, <1>3, <1>4, <1>5, <1>6 DEF Next, RunnerStep, ClaudeStep

(* Whatever Claude writes after a stop, whichever keys are pressed and     *)
(* limits reached: no other turn is written, and the caller hears the      *)
(* reason of the first stop.                                               *)
THEOREM StopIsFinalHolds == Spec => StopIsFinal
<1>1. ASSUME StopInv, StopInv', Cancelled, [Next]_vars
      PROVE  sent' = sent /\ reason' = reason /\ outcome' \in {"none", reason}
  <2>1. sent' = sent /\ reason' = reason
    BY <1>1, StopStep
  <2> QED
    BY <1>1, <2>1 DEF StopInv, OutcomeIsReason, Cancelled
<1>2. StopInv /\ StopInv' /\ [Next]_vars
        => [Cancelled => sent' = sent /\ reason' = reason /\ outcome' \in {"none", reason}]_vars
  BY <1>1
<1> QED
  BY <1>2, StopHolds, PTL DEF Spec, StopIsFinal
-----------------------------------------------------------------------------
(* The types                                                               *)

(* What is written and read has its type.                                  *)
LEMMA MessageTypes ==
  /\ \A i \in Input : InputMessage(i) \in Message /\ WorkTurn(i) \in Turn
  /\ \A n \in Nat : Interrupt(n) \in Message
  /\ \A i \in Input, r \in Input \cup {"none"} : FollowUp(i, r) \in Turn
  /\ \A i \in Input, b \in BOOLEAN : Result(i, b) \in Line
  /\ \A n \in Nat, b \in BOOLEAN : Response(n, b) \in Line
  /\ Rejection \in Line /\ WorkInput \subseteq Input /\ Slash \subseteq Input
BY DEF InputMessage, WorkTurn, Interrupt, FollowUp, Result, Response, Rejection,
       Message, Turn, Line, Input, WorkInput, Slash

(* A longer sequence.                                                      *)
LEMMA AppendType ==
  ASSUME NEW S, NEW s \in Seq(S), NEW x \in S
  PROVE  Append(s, x) \in Seq(S)
OBVIOUS

(* A turn that is queued keeps the types.                                  *)
LEMMA QueueTypes ==
  ASSUME TypeOK, NEW left \in Seq(Turn), NEW t \in Turn, QueueTurn(left, t)
  PROVE  inbox' \in Seq(Message) /\ sent' \in Nat /\ turns' \in Seq(Turn)
<1>1. InputMessage(t.input) \in Message
  BY MessageTypes DEF Turn
<1>2. inbox \in Seq(Message) /\ sent \in Nat
  BY DEF TypeOK
<1>3. Append(inbox, InputMessage(t.input)) \in Seq(Message)
  BY <1>1, <1>2, AppendType
<1>4. Append(left, t) \in Seq(Turn)
  BY AppendType
<1>5. CASE CanWrite
  <2>1. /\ inbox' = Append(inbox, InputMessage(t.input)) /\ sent' = sent + 1
        /\ turns' = Append(left, t)
    BY <1>5 DEF QueueTurn
  <2>2. inbox' \in Seq(Message)
    BY <1>3, <2>1
  <2>3. turns' \in Seq(Turn)
    BY <1>4, <2>1
  <2>4. sent' \in Nat
    BY <1>2, <2>1
  <2> QED
    BY <2>2, <2>3, <2>4
<1>6. CASE ~CanWrite
  BY <1>2, <1>6 DEF QueueTurn
<1> QED
  BY <1>5, <1>6

(* What is left of the turns, and what is given back, has its type.        *)
LEMMA LeftTypes ==
  ASSUME TypeOK
  PROVE  /\ Left \in Seq(Turn)
         /\ \A action, b : Resumed(action, b) \in Input \cup {"none"}
         /\ turns # <<>> => Head(turns) \in Turn
<1>1. turns \in Seq(Turn)
  BY DEF TypeOK
<1>2. turns # <<>> => Head(turns) \in Turn /\ Tail(turns) \in Seq(Turn)
  BY <1>1
<1> QED
  BY <1>1, <1>2 DEF Left, Resumed, Turn

(* The types hold at first,                                                *)
LEMMA TypesInitially == Init => TypeOK
<1>1. <<>> \in Seq(Turn) /\ <<>> \in Seq(Message) /\ <<>> \in Seq(Line)
  OBVIOUS
<1>2. 0 \in 0..Threshold /\ 0 \in 0..MaxKeys
  BY BoundsAssumption
<1>3. 0 \in Nat /\ 1 \in Nat
  OBVIOUS
<1> QED
  BY <1>1, <1>2, <1>3, Zenon DEF Init, TypeOK

(* and after every step.                                                   *)
LEMMA TypesStep == TypeOK /\ [Next]_vars => TypeOK'
<1> SUFFICES ASSUME TypeOK, [Next]_vars PROVE TypeOK'
  OBVIOUS
<1>1. CASE Start
  <2>1. inbox' \in Seq(Message) /\ turns' \in Seq(Turn) /\ reason' \in Reason \cup {"none"}
        /\ signal' \in {"none", "int", "kill"}
    <3>1. InputMessage("stage") \in Message /\ WorkTurn("stage") \in Turn
      BY MessageTypes DEF Input, WorkInput
    <3>2. <<InputMessage("stage")>> \in Seq(Message) /\ <<WorkTurn("stage")>> \in Seq(Turn)
      BY <3>1
    <3> QED
      BY <1>1, <3>2 DEF Start, TypeOK, Reason
  <2> QED
    BY <1>1, <2>1 DEF Start, TypeOK, interrupt, confusion, dashboard
<1>2. ASSUME NEW kind, Receiving(kind)
      PROVE  lines' \in Seq(Line) /\ Head(lines) \in Line
    BY <1>2 DEF Receiving, TypeOK
<1>3. CASE ReceiveRejection
  <2>1. rejections' \in 0..Threshold
    BY <1>3, BoundsAssumption DEF ReceiveRejection, TypeOK
  <2>2. /\ inbox' \in Seq(Message) /\ request' \in Nat /\ compacted' \in BOOLEAN
        /\ pending' \in Input \cup {"none"}
    <3>1. Interrupt(request + 1) \in Message /\ request + 1 \in Nat
      BY MessageTypes DEF TypeOK
    <3>2. Append(inbox, Interrupt(request + 1)) \in Seq(Message)
      BY <3>1, AppendType DEF TypeOK
    <3> QED
      BY <1>3, <3>1, <3>2 DEF ReceiveRejection, TypeOK, QueueInterrupt, interrupt, Input, Slash
  <2> QED
    BY <1>2, <1>3, <2>1, <2>2 DEF ReceiveRejection, Receiving, TypeOK, dashboard
<1>4. CASE ReceiveResult
  <2>1. inbox' \in Seq(Message) /\ sent' \in Nat /\ turns' \in Seq(Turn)
    <3>1. pending # "none" => FollowUp(pending, Resumed(pending, Head(lines).interrupted)) \in Turn
      BY MessageTypes, LeftTypes DEF TypeOK
    <3>2. turns # <<>> /\ Head(turns).resume # "none" => WorkTurn(Head(turns).resume) \in Turn
      BY MessageTypes, LeftTypes DEF Turn
    <3> QED
      BY <1>4, <3>1, <3>2, LeftTypes, QueueTypes DEF ReceiveResult, NothingQueued, TypeOK
  <2>2. completed' \in Nat /\ pending' \in Input \cup {"none"}
    BY <1>4 DEF ReceiveResult, TypeOK
  <2> QED
    BY <1>2, <1>4, <2>1, <2>2 DEF ReceiveResult, Receiving, TypeOK, dashboard, confusion
<1>5. CASE ReceiveResponse
  <2>1. inbox' \in Seq(Message) /\ sent' \in Nat /\ turns' \in Seq(Turn)
    <3>1. pending # "none" => FollowUp(pending, "none") \in Turn
      BY MessageTypes DEF TypeOK
    <3> QED
      BY <1>5, <3>1, QueueTypes DEF ReceiveResponse, NothingQueued, TypeOK
  <2>2. pending' \in Input \cup {"none"}
    BY <1>5 DEF ReceiveResponse, TypeOK
  <2> QED
    BY <1>2, <1>5, <2>1, <2>2 DEF ReceiveResponse, Receiving, TypeOK, dashboard, confusion
<1>6. CASE ReceiveNothing \/ NoKey \/ GraceOver
  BY <1>6
  DEF ReceiveNothing, NoKey, GraceOver, TypeOK, turnsOf, interrupt, confusion, dashboard, claude
<1>7. CASE Disconnected
  BY <1>7 DEF Disconnected, TypeOK, turnsOf, interrupt, confusion, dashboard, claude, Reason
<1>8. CASE Close
  <2>1. stdin' \in BOOLEAN
    BY <1>8 DEF Close
  <2>2. signal' \in {"none", "int", "kill"}
    BY <1>8 DEF Close, TypeOK
  <2> QED
    BY <1>8, <2>1, <2>2 DEF Close, TypeOK, interrupt, confusion, dashboard, claude
<1>9. CASE Expire \/ StopKey
  BY <1>9 DEF Expire, StopKey, Stop, TypeOK, Reason, interrupt, confusion, dashboard, claude
<1>10. ASSUME NEW action \in Slash \cup {"steer"}, InterruptKey(action) PROVE TypeOK'
  <2>1. pressed' \in 0..MaxKeys /\ keys' \subseteq Slash
    BY <1>10, BoundsAssumption DEF InterruptKey, Pressed, TypeOK
  <2>2. inbox' \in Seq(Message) /\ request' \in Nat /\ pending' \in Input \cup {"none"}
    <3>1. Interrupt(request + 1) \in Message /\ request + 1 \in Nat
      BY MessageTypes DEF TypeOK
    <3>2. Append(inbox, Interrupt(request + 1)) \in Seq(Message)
      BY <3>1, AppendType DEF TypeOK
    <3> QED
      BY <1>10, <3>1, <3>2 DEF InterruptKey, TypeOK, QueueInterrupt, interrupt, Input, WorkInput
  <2> QED
    BY <1>10, <2>1, <2>2 DEF InterruptKey, TypeOK, turnsOf, confusion
<1>11. CASE Begin
  <2>1. Head(inbox) \in Message /\ Tail(inbox) \in Seq(Message) /\ turn' = Head(inbox).input
    BY <1>11 DEF Begin, TypeOK
  <2> QED
    BY <1>11, <2>1
    DEF Begin, TypeOK, runner, loop, turnsOf, interrupt, confusion, dashboard, Message
<1>12. CASE TakeInterrupt
  <2>1. PICK i \in DOMAIN inbox :
          /\ inbox' = Read(i)
          /\ lines' = IF launcher = "ignoring" THEN lines
                      ELSE Append(lines, Response(inbox[i].id, launcher = "accepting"))
    BY <1>12 DEF TakeInterrupt
  <2>2. inbox' \in Seq(Message)
    BY <2>1 DEF Read, TypeOK
  <2>3. Response(inbox[i].id, launcher = "accepting") \in Line
    <3>1. inbox[i] \in Message
      BY DEF TypeOK
    <3>2. inbox[i].id \in Nat
      BY <3>1 DEF Message
    <3> QED
      BY <3>2, MessageTypes
  <2>4. lines' \in Seq(Line)
    BY <2>1, <2>3, AppendType DEF TypeOK
  <2>5. stopping' \in BOOLEAN
    BY <1>12 DEF TakeInterrupt
  <2> QED
    BY <1>12, <2>2, <2>4, <2>5
    DEF TakeInterrupt, TypeOK, runner, loop, turnsOf, interrupt, confusion, dashboard
<1>13. ASSUME NEW interrupted \in BOOLEAN, EndTurn(interrupted) PROVE TypeOK'
  <2>1. Result(turn, interrupted) \in Line
    BY <1>13, MessageTypes DEF EndTurn, TypeOK
  <2>2. lines' \in Seq(Line)
    BY <1>13, <2>1, AppendType DEF EndTurn, TypeOK
  <2>3. work' \in {"asked", "interrupted", "answered"}
    BY <1>13 DEF EndTurn, TypeOK
  <2>4. UNCHANGED <<runner, inbox, exit>> /\ turn' = "none" /\ stopping' \in BOOLEAN
    BY <1>13 DEF EndTurn
  <2> QED
    BY <2>2, <2>3, <2>4 DEF TypeOK, runner, loop, turnsOf, interrupt, confusion, dashboard
<1>14. CASE Confused
  <2>1. lines' \in Seq(Line)
    BY <1>14, MessageTypes, AppendType DEF Confused, TypeOK
  <2> QED
    BY <1>14, <2>1
    DEF Confused, TypeOK, runner, loop, turnsOf, interrupt, confusion, dashboard
<1>15. CASE Exit \/ Killed \/ Crash
  <2>1. /\ exit' \in {"success", "failure"} /\ turn' = "none" /\ stopping' \in BOOLEAN
        /\ UNCHANGED <<runner, lines, work>>
    BY <1>15 DEF Exit, Killed, Crash, Leave
  <2>2. inbox' \in Seq(Message)
    <3>1. inbox' = <<>>
      BY <1>15 DEF Exit, Killed, Crash, Leave
    <3>2. <<>> \in Seq(Message)
      OBVIOUS
    <3> QED
      BY <3>1, <3>2, Zenon
  <2> QED
    BY <2>1, <2>2 DEF TypeOK, runner, loop, turnsOf, interrupt, confusion, dashboard
<1>16. CASE UNCHANGED vars
  BY <1>16 DEF vars, TypeOK, loop, turnsOf, interrupt, confusion, dashboard, claude
<1> QED
  BY <1>1, <1>3, <1>4, <1>5, <1>6, <1>7, <1>8, <1>9, <1>10, <1>11, <1>12, <1>13, <1>14, <1>15,
     <1>16 DEF Next, RunnerStep, ClaudeStep

(* The streamed session keeps its types, counters within their limits.     *)
THEOREM SessionTypes == Spec => []TypeOK
  BY TypesInitially, TypesStep, PTL DEF Spec
-----------------------------------------------------------------------------
(* Entries in order                                                        *)

(* Whether entries are in order depends on the inputs of the turns only.   *)
LEMMA OrderOfInputs ==
  ASSUME NEW s, NEW kind, NEW ts, NEW us, NEW f \in Int, NEW e \in Int,
         InOrder(s, kind, ts, f, e), \A k \in f..e : us[k].input = ts[k].input
  PROVE  InOrder(s, kind, us, f, e)
BY DEF InOrder

(* Without turns there are no entries, and the other way round.            *)
LEMMA NoneInOrder ==
  ASSUME NEW s, NEW kind, NEW ts, NEW f \in Int, NEW e \in Int
  PROVE  /\ InOrder(s, kind, ts, f, e) /\ e < f => \A i \in DOMAIN s : s[i].kind # kind
         /\ (\A i \in DOMAIN s : s[i].kind # kind) /\ e < f => InOrder(s, kind, ts, f, e)
         /\ InOrder(s, kind, ts, f, e) /\ (\A i \in DOMAIN s : s[i].kind # kind) => e < f
<1>1. ASSUME InOrder(s, kind, ts, f, e), e < f PROVE \A i \in DOMAIN s : s[i].kind # kind
  BY <1>1 DEF InOrder
<1>2. ASSUME \A i \in DOMAIN s : s[i].kind # kind, e < f PROVE InOrder(s, kind, ts, f, e)
  <2> DEFINE at == [k \in f..e |-> 1]
  <2>1. f..e = {}
    BY <1>2
  <2>2. at \in [f..e -> DOMAIN s]
    BY <2>1
  <2> HIDE DEF at
  <2> QED
    BY <1>2, <2>1, <2>2 DEF InOrder
<1>3. ASSUME InOrder(s, kind, ts, f, e), \A i \in DOMAIN s : s[i].kind # kind, f <= e PROVE FALSE
  <2>1. PICK at \in [f..e -> DOMAIN s] :
          {at[k] : k \in f..e} = {i \in DOMAIN s : s[i].kind = kind}
    BY <1>3 DEF InOrder
  <2>2. f \in f..e
    BY <1>3
  <2> QED
    BY <1>3, <2>1, <2>2
<1> QED
  BY <1>1, <1>2, <1>3

(* An entry of another kind is added or taken: p is where it was.          *)
LEMMA OtherAdded ==
  ASSUME NEW S, NEW s \in Seq(S), NEW kind, NEW ts, NEW f \in Int, NEW e \in Int, NEW x \in S,
         InOrder(s, kind, ts, f, e), x.kind # kind
  PROVE  InOrder(Append(s, x), kind, ts, f, e)
<1> DEFINE t == Append(s, x)
           n == Len(s)
<1>1. PICK at \in [f..e -> DOMAIN s] :
        /\ \A k, l \in f..e : k < l => at[k] < at[l]
        /\ {at[k] : k \in f..e} = {i \in DOMAIN s : s[i].kind = kind}
        /\ \A k \in f..e : s[at[k]].input = ts[k].input
  BY DEF InOrder
<1>2. /\ n \in Nat /\ DOMAIN s = 1..n /\ DOMAIN t = 1..(n + 1)
      /\ t[n + 1] = x /\ \A i \in 1..n : t[i] = s[i]
  OBVIOUS
<1> HIDE DEF t, n
<1>3. at \in [f..e -> DOMAIN t]
  BY <1>2
<1>4. {at[k] : k \in f..e} = {i \in DOMAIN t : t[i].kind = kind}
  BY <1>1, <1>2, SMTT(30)
<1>5. \A k \in f..e : t[at[k]].input = ts[k].input
  BY <1>1, <1>2
<1>6. InOrder(t, kind, ts, f, e)
  BY <1>1, <1>3, <1>4, <1>5 DEF InOrder
<1> QED
  BY <1>6 DEF t

(* The entry p, of another kind, is taken from s; what is left is t.       *)
LEMMA OtherTaken ==
  ASSUME NEW S, NEW s \in Seq(S), NEW t \in Seq(S), NEW p \in 1..Len(s), NEW kind, NEW ts,
         NEW f \in Int, NEW e \in Int,
         InOrder(s, kind, ts, f, e), s[p].kind # kind, Len(t) = Len(s) - 1,
         \A i \in 1..Len(t) : t[i] = (IF i < p THEN s[i] ELSE s[i + 1])
  PROVE  InOrder(t, kind, ts, f, e)
<1> DEFINE n == Len(s)
<1>1. PICK at \in [f..e -> DOMAIN s] :
        /\ \A k, l \in f..e : k < l => at[k] < at[l]
        /\ {at[k] : k \in f..e} = {i \in DOMAIN s : s[i].kind = kind}
        /\ \A k \in f..e : s[at[k]].input = ts[k].input
  BY DEF InOrder
<1>2. n \in Nat /\ DOMAIN s = 1..n /\ DOMAIN t = 1..(n - 1) /\ p \in 1..n
  OBVIOUS
<1>3. \A i \in 1..(n - 1) : t[i] = (IF i < p THEN s[i] ELSE s[i + 1])
  OBVIOUS
<1> HIDE DEF n
<1> DEFINE to == [k \in f..e |-> IF at[k] < p THEN at[k] ELSE at[k] - 1]
<1>4. \A k \in f..e : /\ at[k] \in 1..n /\ at[k] # p
                      /\ to[k] = (IF at[k] < p THEN at[k] ELSE at[k] - 1)
  BY <1>1, <1>2
<1>5. \A k \in f..e : to[k] \in 1..(n - 1) /\ t[to[k]] = s[at[k]]
  BY <1>2, <1>3, <1>4
<1>6. to \in [f..e -> DOMAIN t]
  BY <1>2, <1>5
<1>7. \A k, l \in f..e : k < l => to[k] < to[l]
  BY <1>1, <1>2, <1>4
<1>8. ASSUME NEW i \in DOMAIN t, t[i].kind = kind PROVE \E k \in f..e : to[k] = i
  <2> DEFINE j == IF i < p THEN i ELSE i + 1
  <2>1. j \in DOMAIN s /\ s[j].kind = kind
    BY <1>2, <1>3, <1>8
  <2>2. PICK k \in f..e : at[k] = j
    BY <1>1, <2>1
  <2> QED
    BY <1>2, <1>4, <1>8, <2>2
<1> HIDE DEF to
<1>9. {to[k] : k \in f..e} = {i \in DOMAIN t : t[i].kind = kind}
  <2>1. ASSUME NEW k \in f..e PROVE to[k] \in DOMAIN t /\ t[to[k]].kind = kind
    <3>1. at[k] \in {i \in DOMAIN s : s[i].kind = kind}
      BY <1>1
    <3> QED
      BY <1>2, <1>5, <3>1
  <2>2. \A i \in DOMAIN t : t[i].kind = kind => \E k \in f..e : to[k] = i
    BY <1>8
  <2>3. {to[k] : k \in f..e} \subseteq {i \in DOMAIN t : t[i].kind = kind}
    BY <2>1
  <2>4. {i \in DOMAIN t : t[i].kind = kind} \subseteq {to[k] : k \in f..e}
    BY <2>2
  <2> QED
    BY <2>3, <2>4
<1>10. \A k \in f..e : t[to[k]].input = ts[k].input
  BY <1>1, <1>5
<1> QED
  BY <1>6, <1>7, <1>9, <1>10 DEF InOrder

(* The entry of the next turn is added.                                    *)
LEMMA NextAdded ==
  ASSUME NEW S, NEW s \in Seq(S), NEW kind, NEW ts, NEW f \in Int, NEW e \in Int, NEW x \in S,
         InOrder(s, kind, ts, f, e), f <= e + 1, x.kind = kind, ts[e + 1].input = x.input
  PROVE  InOrder(Append(s, x), kind, ts, f, e + 1)
<1> DEFINE t == Append(s, x)
           n == Len(s)
<1>1. PICK at \in [f..e -> DOMAIN s] :
        /\ \A k, l \in f..e : k < l => at[k] < at[l]
        /\ {at[k] : k \in f..e} = {i \in DOMAIN s : s[i].kind = kind}
        /\ \A k \in f..e : s[at[k]].input = ts[k].input
  BY DEF InOrder
<1>2. /\ n \in Nat /\ DOMAIN s = 1..n /\ DOMAIN t = 1..(n + 1)
      /\ t[n + 1] = x /\ \A i \in 1..n : t[i] = s[i]
  OBVIOUS
<1> HIDE DEF t, n
<1> DEFINE to == [k \in f..(e + 1) |-> IF k <= e THEN at[k] ELSE n + 1]
<1>3. /\ \A k \in f..e : at[k] \in 1..n /\ to[k] = at[k]
      /\ e + 1 \in f..(e + 1) /\ to[e + 1] = n + 1
      /\ \A k \in f..(e + 1) : k \in f..e \/ k = e + 1
  BY <1>1, <1>2
<1>4. to \in [f..(e + 1) -> DOMAIN t]
  BY <1>2, <1>3
<1> HIDE DEF to
<1>5. \A k, l \in f..(e + 1) : k < l => to[k] < to[l]
  BY <1>1, <1>2, <1>3
<1>6. {to[k] : k \in f..(e + 1)} = {i \in DOMAIN t : t[i].kind = kind}
  <2>1. ASSUME NEW k \in f..(e + 1) PROVE to[k] \in DOMAIN t /\ t[to[k]].kind = kind
    BY <1>1, <1>2, <1>3
  <2>2. ASSUME NEW i \in DOMAIN t, t[i].kind = kind PROVE \E k \in f..(e + 1) : to[k] = i
    <3>1. CASE i = n + 1
      BY <1>3, <3>1
    <3>2. CASE i \in 1..n
      <4>1. PICK k \in f..e : at[k] = i
        BY <1>1, <1>2, <2>2, <3>2
      <4> QED
        BY <1>3, <4>1
    <3> QED
      BY <1>2, <3>1, <3>2
  <2> QED
    BY <2>1, <2>2
<1>7. \A k \in f..(e + 1) : t[to[k]].input = ts[k].input
  BY <1>1, <1>2, <1>3
<1>8. InOrder(t, kind, ts, f, e + 1)
  BY <1>4, <1>5, <1>6, <1>7 DEF InOrder
<1> QED
  BY <1>8 DEF t

(* The first entry is taken: it is about the first turn.                   *)
LEMMA FirstTaken ==
  ASSUME NEW S, NEW s \in Seq(S), NEW kind, NEW ts, NEW f \in Int, NEW e \in Int,
         s # <<>>, InOrder(s, kind, ts, f, e), Head(s).kind = kind
  PROVE  f <= e /\ ts[f].input = Head(s).input /\ InOrder(Tail(s), kind, ts, f + 1, e)
<1> DEFINE t == Tail(s)
           n == Len(s)
<1>1. PICK at \in [f..e -> DOMAIN s] :
        /\ \A k, l \in f..e : k < l => at[k] < at[l]
        /\ {at[k] : k \in f..e} = {i \in DOMAIN s : s[i].kind = kind}
        /\ \A k \in f..e : s[at[k]].input = ts[k].input
  BY DEF InOrder
<1>2. /\ n \in Nat /\ n > 0 /\ DOMAIN s = 1..n /\ DOMAIN t = 1..(n - 1)
      /\ s[1] = Head(s) /\ \A i \in 1..(n - 1) : t[i] = s[i + 1]
  OBVIOUS
<1> HIDE DEF t, n
<1>3. PICK k \in f..e : at[k] = 1
  <2>1. 1 \in {i \in DOMAIN s : s[i].kind = kind}
    BY <1>2
  <2> QED
    BY <1>1, <2>1
<1>4. f <= e /\ f \in f..e /\ at[f] = 1
  BY <1>1, <1>2, <1>3, SMTT(30)
<1>5. ts[f].input = Head(s).input
  BY <1>1, <1>2, <1>4
<1> DEFINE to == [l \in (f + 1)..e |-> at[l] - 1]
<1>6. \A l \in (f + 1)..e : /\ l \in f..e /\ at[l] \in 2..n /\ to[l] = at[l] - 1
                            /\ to[l] \in 1..(n - 1) /\ t[to[l]] = s[at[l]]
  BY <1>1, <1>2, <1>4
<1>7. to \in [(f + 1)..e -> DOMAIN t]
  BY <1>2, <1>6
<1> HIDE DEF to
<1>8. \A l, m \in (f + 1)..e : l < m => to[l] < to[m]
  BY <1>1, <1>2, <1>6
<1>9. {to[l] : l \in (f + 1)..e} = {i \in DOMAIN t : t[i].kind = kind}
  <2>1. ASSUME NEW l \in (f + 1)..e PROVE to[l] \in DOMAIN t /\ t[to[l]].kind = kind
    <3>1. at[l] \in {i \in DOMAIN s : s[i].kind = kind}
      BY <1>1, <1>6
    <3> QED
      BY <1>2, <1>6, <3>1
  <2>2. ASSUME NEW i \in DOMAIN t, t[i].kind = kind PROVE \E l \in (f + 1)..e : to[l] = i
    <3>1. i + 1 \in DOMAIN s /\ s[i + 1].kind = kind
      BY <1>2, <2>2
    <3>2. PICK l \in f..e : at[l] = i + 1
      BY <1>1, <3>1
    <3>3. l \in (f + 1)..e
      BY <1>2, <1>4, <2>2, <3>2
    <3>4. to[l] = (i + 1) - 1 /\ i \in Int
      BY <1>2, <1>6, <3>2, <3>3
    <3> QED
      BY <3>3, <3>4
  <2> QED
    BY <2>1, <2>2
<1>10. \A l \in (f + 1)..e : t[to[l]].input = ts[l].input
  BY <1>1, <1>6
<1>11. InOrder(t, kind, ts, f + 1, e)
  BY <1>7, <1>8, <1>9, <1>10 DEF InOrder
<1> QED
  BY <1>4, <1>5, <1>11 DEF t

(* The turns are numbered anew when the first is taken.                    *)
LEMMA Renumbered ==
  ASSUME NEW s, NEW kind, NEW ts, NEW us, NEW f \in Int, NEW e \in Int,
         InOrder(s, kind, ts, f + 1, e + 1), \A k \in f..e : us[k].input = ts[k + 1].input
  PROVE  InOrder(s, kind, us, f, e)
<1>1. PICK at \in [(f + 1)..(e + 1) -> DOMAIN s] :
        /\ \A k, l \in (f + 1)..(e + 1) : k < l => at[k] < at[l]
        /\ {at[k] : k \in (f + 1)..(e + 1)} = {i \in DOMAIN s : s[i].kind = kind}
        /\ \A k \in (f + 1)..(e + 1) : s[at[k]].input = ts[k].input
  BY DEF InOrder
<1> DEFINE to == [k \in f..e |-> at[k + 1]]
<1>2. \A k \in f..e : k + 1 \in (f + 1)..(e + 1) /\ to[k] = at[k + 1]
  OBVIOUS
<1>3. to \in [f..e -> DOMAIN s]
  BY <1>2
<1> HIDE DEF to
<1>4. \A k, l \in f..e : k < l => to[k] < to[l]
  BY <1>1, <1>2
<1>5. {to[k] : k \in f..e} = {at[k] : k \in (f + 1)..(e + 1)}
  <2>1. ASSUME NEW k \in (f + 1)..(e + 1) PROVE \E l \in f..e : to[l] = at[k]
    <3>1. k - 1 \in f..e /\ (k - 1) + 1 = k
      OBVIOUS
    <3> QED
      BY <1>2, <3>1
  <2>2. ASSUME NEW l \in f..e PROVE \E k \in (f + 1)..(e + 1) : to[l] = at[k]
    BY <1>2
  <2>3. {to[k] : k \in f..e} \subseteq {at[k] : k \in (f + 1)..(e + 1)}
    BY <2>2
  <2>4. {at[k] : k \in (f + 1)..(e + 1)} \subseteq {to[k] : k \in f..e}
    BY <2>1, ZenonT(30)
  <2> QED
    BY <2>3, <2>4
<1>6. \A k \in f..e : s[to[k]].input = us[k].input
  BY <1>1, <1>2
<1> QED
  BY <1>1, <1>3, <1>4, <1>5, <1>6 DEF InOrder
-----------------------------------------------------------------------------
(* Turns answered                                                          *)

(* The turns ts are those of the results ls, the one at work and the       *)
(* inputs ib, in this order.                                               *)
Matched(ls, w, ib, ts) ==
  \E ended \in 0..Len(ts) :
    LET begun == IF w = "none" THEN ended ELSE ended + 1
    IN /\ InOrder(ls, "result", ts, 1, ended)
       /\ w # "none" => begun <= Len(ts) /\ ts[begun].input = w
       /\ InOrder(ib, "input", ts, begun + 1, Len(ts))

(* Nothing is asked before the first turn is written.                      *)
LEMMA NothingMatched == Matched(<<>>, "none", <<>>, <<>>)
<1>1. DOMAIN <<>> = {} /\ Len(<<>>) = 0
  OBVIOUS
<1>2. InOrder(<<>>, "result", <<>>, 1, 0) /\ InOrder(<<>>, "input", <<>>, 1, 0)
  BY <1>1, NoneInOrder
<1> QED
  BY <1>1, <1>2 DEF Matched

(* Responses and rejections come and go.                                   *)
LEMMA LineAdded ==
  ASSUME NEW ls \in Seq(Line), NEW w, NEW ib, NEW ts \in Seq(Turn), Matched(ls, w, ib, ts),
         NEW x \in Line, x.kind # "result"
  PROVE  Matched(Append(ls, x), w, ib, ts)
<1>1. \A e \in 0..Len(ts) : InOrder(ls, "result", ts, 1, e) =>
                              InOrder(Append(ls, x), "result", ts, 1, e)
  BY OtherAdded
<1> QED
  BY <1>1 DEF Matched

(* A line that is not a result is read.                                    *)
LEMMA LineTaken ==
  ASSUME NEW ls \in Seq(Line), NEW w, NEW ib, NEW ts \in Seq(Turn), Matched(ls, w, ib, ts),
         ls # <<>>, Head(ls).kind # "result"
  PROVE  Matched(Tail(ls), w, ib, ts)
<1> DEFINE t == Tail(ls)
<1>1. /\ 1 \in 1..Len(ls) /\ t \in Seq(Line) /\ Len(t) = Len(ls) - 1
      /\ ls[1].kind # "result"
      /\ \A i \in 1..Len(t) : t[i] = (IF i < 1 THEN ls[i] ELSE ls[i + 1])
  OBVIOUS
<1> HIDE DEF t
<1>2. ASSUME NEW e \in 0..Len(ts), InOrder(ls, "result", ts, 1, e)
      PROVE  InOrder(t, "result", ts, 1, e)
  <2>1. e \in Int /\ 1 \in Int
    OBVIOUS
  <2> QED
    BY <1>1, <1>2, <2>1, OtherTaken
<1>3. Matched(t, w, ib, ts)
  BY <1>2 DEF Matched
<1> QED
  BY <1>3 DEF t

(* An interrupt is written.                                                *)
LEMMA InterruptAdded ==
  ASSUME NEW ls, NEW w, NEW ib \in Seq(Message), NEW ts \in Seq(Turn), Matched(ls, w, ib, ts),
         NEW x \in Message, x.kind # "input"
  PROVE  Matched(ls, w, Append(ib, x), ts)
<1>1. \A b \in Nat : InOrder(ib, "input", ts, b + 1, Len(ts)) =>
                       InOrder(Append(ib, x), "input", ts, b + 1, Len(ts))
  BY OtherAdded
<1> QED
  BY <1>1 DEF Matched

(* A sequence without its entry p.                                         *)
LEMMA WithoutEntry ==
  ASSUME NEW S, NEW s \in Seq(S), NEW p \in DOMAIN s
  PROVE  LET t == SubSeq(s, 1, p - 1) \o SubSeq(s, p + 1, Len(s))
         IN /\ t \in Seq(S) /\ Len(t) = Len(s) - 1
            /\ \A i \in 1..Len(t) : t[i] = (IF i < p THEN s[i] ELSE s[i + 1])
<1> DEFINE u == SubSeq(s, 1, p - 1)
           v == SubSeq(s, p + 1, Len(s))
           t == u \o v
           n == Len(s)
<1>1. t \in Seq(S) /\ p \in 1..n /\ n \in Nat
  OBVIOUS
<1>2. u \in Seq(S) /\ Len(u) = p - 1 /\ \A i \in 1..(p - 1) : u[i] = s[i]
  BY <1>1
<1>3. v \in Seq(S) /\ Len(v) = n - p /\ \A i \in 1..(n - p) : v[i] = s[p + i]
  BY <1>1
<1>4. t = u \o v
  OBVIOUS
<1> HIDE DEF t, u, v, n
<1>5. /\ Len(t) = Len(u) + Len(v)
      /\ \A i \in 1..(Len(u) + Len(v)) : t[i] = (IF i <= Len(u) THEN u[i] ELSE v[i - Len(u)])
  BY <1>2, <1>3, <1>4, ConcatProperties
<1>6. Len(t) = n - 1
  BY <1>1, <1>2, <1>3, <1>5
<1>7. ASSUME NEW i \in 1..(n - 1) PROVE t[i] = (IF i < p THEN s[i] ELSE s[i + 1])
  <2>1. CASE i < p
    <3>1. i \in 1..(p - 1) /\ i \in 1..(Len(u) + Len(v)) /\ i <= Len(u)
      BY <1>1, <1>2, <1>3, <2>1
    <3> QED
      BY <1>2, <1>5, <2>1, <3>1
  <2>2. CASE i >= p
    <3>1. i \in 1..(Len(u) + Len(v)) /\ ~(i <= Len(u))
      BY <1>1, <1>2, <1>3, <2>2
    <3>2. t[i] = v[i - Len(u)]
      BY <1>5, <3>1
    <3>3. i - Len(u) \in 1..(n - p) /\ p + (i - Len(u)) = i + 1
      BY <1>1, <1>2, <2>2
    <3>4. v[i - Len(u)] = s[p + (i - Len(u))]
      BY <1>3, <3>3
    <3> QED
      BY <1>1, <2>2, <3>2, <3>3, <3>4
  <2> QED
    BY <1>1, <2>1, <2>2
<1>8. /\ t \in Seq(S) /\ Len(t) = n - 1
      /\ \A i \in 1..Len(t) : t[i] = (IF i < p THEN s[i] ELSE s[i + 1])
  BY <1>1, <1>6, <1>7
<1> QED
  BY <1>8 DEF t, u, v, n

(* An interrupt is read, whatever inputs it passes.                        *)
LEMMA InterruptTaken ==
  ASSUME NEW ls, NEW w, NEW ib \in Seq(Message), NEW ts \in Seq(Turn), Matched(ls, w, ib, ts),
         NEW p \in DOMAIN ib, ib[p].kind # "input"
  PROVE  Matched(ls, w, SubSeq(ib, 1, p - 1) \o SubSeq(ib, p + 1, Len(ib)), ts)
<1> DEFINE t == SubSeq(ib, 1, p - 1) \o SubSeq(ib, p + 1, Len(ib))
<1>1. /\ t \in Seq(Message) /\ Len(t) = Len(ib) - 1
      /\ \A i \in 1..Len(t) : t[i] = (IF i < p THEN ib[i] ELSE ib[i + 1])
  BY WithoutEntry, Zenon
<1>a. p \in 1..Len(ib)
  OBVIOUS
<1> HIDE DEF t
<1>2. ASSUME NEW b \in Nat, InOrder(ib, "input", ts, b + 1, Len(ts))
      PROVE  InOrder(t, "input", ts, b + 1, Len(ts))
  <2>1. b + 1 \in Int /\ Len(ts) \in Int
    OBVIOUS
  <2> QED
    BY <1>1, <1>a, <1>2, <2>1, OtherTaken
<1>3. Matched(ls, w, t, ts)
  BY <1>2 DEF Matched
<1> QED
  BY <1>3 DEF t

(* A turn is written.                                                      *)
LEMMA TurnAdded ==
  ASSUME NEW ls, NEW w, NEW ib \in Seq(Message), NEW ts \in Seq(Turn), Matched(ls, w, ib, ts),
         NEW t \in Turn
  PROVE  Matched(ls, w, Append(ib, InputMessage(t.input)), Append(ts, t))
<1> DEFINE us == Append(ts, t)
           m == Len(ts)
           x == InputMessage(t.input)
<1>1. /\ m \in Nat /\ Len(us) = m + 1 /\ us[m + 1] = t /\ \A k \in 1..m : us[k] = ts[k]
      /\ x \in Message /\ x.kind = "input" /\ x.input = t.input
  BY MessageTypes DEF InputMessage, Turn
<1> HIDE DEF us, m, x
<1>2. PICK ended \in 0..m :
        LET begun == IF w = "none" THEN ended ELSE ended + 1
        IN /\ InOrder(ls, "result", ts, 1, ended)
           /\ w # "none" => begun <= m /\ ts[begun].input = w
           /\ InOrder(ib, "input", ts, begun + 1, m)
  BY DEF Matched, m
<1> DEFINE begun == IF w = "none" THEN ended ELSE ended + 1
<1>3. begun \in Nat /\ begun <= m /\ begun + 1 \in Int /\ ended \in Int
  BY <1>1, <1>2
<1>4. InOrder(ls, "result", us, 1, ended)
  BY <1>1, <1>2, <1>3, OrderOfInputs
<1>5. w # "none" => begun <= m + 1 /\ us[begun].input = w
  BY <1>1, <1>2
<1>6. InOrder(ib, "input", us, begun + 1, m)
  <2>1. \A k \in (begun + 1)..m : us[k].input = ts[k].input
    BY <1>1, <1>3
  <2>2. InOrder(ib, "input", ts, begun + 1, m) /\ m \in Int
    BY <1>1, <1>2
  <2> HIDE DEF begun
  <2> QED
    BY <1>3, <2>1, <2>2, OrderOfInputs
<1>7. InOrder(Append(ib, x), "input", us, begun + 1, m + 1)
  <2>1. begun + 1 <= m + 1 /\ m \in Int /\ us[m + 1].input = x.input
    BY <1>1, <1>3
  <2> HIDE DEF begun
  <2> QED
    BY <1>1, <1>3, <1>6, <2>1, NextAdded
<1>8. Matched(ls, w, Append(ib, x), us)
  BY <1>1, <1>2, <1>4, <1>5, <1>7 DEF Matched
<1> QED
  BY <1>8 DEF us, x

(* A result is read: it answers the first turn.                            *)
LEMMA ResultTaken ==
  ASSUME NEW ls \in Seq(Line), NEW w, NEW ib, NEW ts \in Seq(Turn), Matched(ls, w, ib, ts),
         ls # <<>>, Head(ls).kind = "result"
  PROVE  ts # <<>> /\ ts[1].input = Head(ls).input /\ Matched(Tail(ls), w, ib, Tail(ts))
<1> DEFINE us == Tail(ts)
           m == Len(ts)
<1>1. PICK ended \in 0..m :
        LET begun == IF w = "none" THEN ended ELSE ended + 1
        IN /\ InOrder(ls, "result", ts, 1, ended)
           /\ w # "none" => begun <= m /\ ts[begun].input = w
           /\ InOrder(ib, "input", ts, begun + 1, m)
  BY DEF Matched
<1>2. 1 <= ended /\ ts[1].input = Head(ls).input /\ InOrder(Tail(ls), "result", ts, 2, ended)
  BY <1>1, FirstTaken
<1>3. ts # <<>> /\ m \in Nat /\ Len(us) = m - 1 /\ \A k \in 1..(m - 1) : us[k] = ts[k + 1]
  BY <1>2
<1> HIDE DEF us, m
<1> DEFINE begun == IF w = "none" THEN ended ELSE ended + 1
           e == ended - 1
           b == begun - 1
<1>4. /\ e \in 0..(m - 1) /\ e + 1 = ended /\ b + 1 = begun /\ b \in Nat
      /\ b = (IF w = "none" THEN e ELSE e + 1)
  BY <1>2, <1>3
<1>5. InOrder(Tail(ls), "result", us, 1, e)
  <2>1. InOrder(Tail(ls), "result", ts, 1 + 1, e + 1)
    BY <1>2, <1>4
  <2>2. \A k \in 1..e : us[k].input = ts[k + 1].input
    BY <1>3, <1>4
  <2> HIDE DEF e
  <2> QED
    BY <1>4, <2>1, <2>2, Renumbered
<1>6. w # "none" => b <= m - 1 /\ us[b].input = w
  BY <1>1, <1>3, <1>4
<1>7. InOrder(ib, "input", us, b + 1, m - 1)
  <2>1. InOrder(ib, "input", ts, (b + 1) + 1, (m - 1) + 1)
    BY <1>1, <1>3, <1>4
  <2>2. \A k \in (b + 1)..(m - 1) : us[k].input = ts[k + 1].input
    BY <1>3, <1>4
  <2>3. b + 1 \in Int /\ m - 1 \in Int
    BY <1>3, <1>4
  <2> HIDE DEF b
  <2> QED
    BY <2>1, <2>2, <2>3, Renumbered
<1> HIDE DEF e, b
<1>8. Matched(Tail(ls), w, ib, us)
  BY <1>3, <1>4, <1>5, <1>6, <1>7 DEF Matched
<1> QED
  BY <1>2, <1>3, <1>8 DEF us

(* Claude begins with the first input.                                     *)
LEMMA TurnBegun ==
  ASSUME NEW ls, NEW ib \in Seq(Message), NEW ts \in Seq(Turn), Matched(ls, "none", ib, ts),
         ib # <<>>, Head(ib).kind = "input"
  PROVE  Head(ib).input \in Input /\ Matched(ls, Head(ib).input, Tail(ib), ts)
<1> DEFINE m == Len(ts)
           i == Head(ib).input
<1>1. PICK ended \in 0..m :
        /\ InOrder(ls, "result", ts, 1, ended)
        /\ InOrder(ib, "input", ts, ended + 1, m)
  BY DEF Matched
<1>2. /\ ended + 1 <= m /\ ts[ended + 1].input = i
      /\ InOrder(Tail(ib), "input", ts, (ended + 1) + 1, m)
  BY <1>1, FirstTaken
<1>3. i \in Input
  <2>1. ts[ended + 1] \in Turn
    BY <1>1, <1>2
  <2> QED
    BY <1>2, <2>1 DEF Turn
<1>4. i # "none"
  BY <1>3 DEF Input, WorkInput, Slash
<1> HIDE DEF i
<1>5. Matched(ls, i, Tail(ib), ts)
  BY <1>1, <1>2, <1>4 DEF Matched
<1> QED
  BY <1>3, <1>5 DEF i

(* Claude answers the turn at work.                                        *)
LEMMA TurnEnded ==
  ASSUME NEW ls \in Seq(Line), NEW w \in Input, NEW ib, NEW ts \in Seq(Turn),
         Matched(ls, w, ib, ts), NEW interrupted \in BOOLEAN
  PROVE  Matched(Append(ls, Result(w, interrupted)), "none", ib, ts)
<1> DEFINE m == Len(ts)
           x == Result(w, interrupted)
<1>0. w # "none"
  BY DEF Input, WorkInput, Slash
<1>1. PICK ended \in 0..m :
        /\ InOrder(ls, "result", ts, 1, ended)
        /\ ended + 1 <= m /\ ts[ended + 1].input = w
        /\ InOrder(ib, "input", ts, (ended + 1) + 1, m)
  BY <1>0 DEF Matched
<1>2. x \in Line /\ x.kind = "result" /\ x.input = w
  BY MessageTypes DEF Result
<1> HIDE DEF x
<1>3. InOrder(Append(ls, x), "result", ts, 1, ended + 1)
  BY <1>1, <1>2, NextAdded
<1>4. ended + 1 \in 0..m
  BY <1>1
<1>5. Matched(Append(ls, x), "none", ib, ts)
  BY <1>1, <1>3, <1>4 DEF Matched
<1> QED
  BY <1>5 DEF x

(* The turns match what Claude has and has not done; before a process that *)
(* nobody stops loses its input every turn is answered; and the messages   *)
(* counted as sent and completed differ by the turns waited for.           *)
Counted == exit = "running" /\ phase # "start" => sent = completed + Len(turns)

Closed == exit = "running" /\ ~stdin /\ ~Cancelled => turns = <<>>

Unstarted ==
  phase = "start" =>
    /\ stdin /\ sent = 1 /\ completed = 0 /\ pending = "none"
    /\ turns = <<>> /\ inbox = <<>> /\ lines = <<>> /\ turn = "none"

SessionInv ==
  /\ exit = "running" => Matched(lines, turn, inbox, turns)
  /\ Closed /\ Counted /\ Unstarted

(* Nothing is asked at first.                                              *)
LEMMA InitSession == Init => SessionInv
<1> SUFFICES ASSUME Init PROVE SessionInv
  OBVIOUS
<1>1. Matched(lines, turn, inbox, turns)
  BY NothingMatched, Zenon DEF Init
<1> QED
  BY <1>1 DEF Init, SessionInv, Closed, Counted, Unstarted

(* A queued turn is one more to wait for.                                  *)
LEMMA QueueMatched ==
  ASSUME TypeOK, exit = "running", NEW ls \in Seq(Line), NEW left \in Seq(Turn), NEW t \in Turn,
         Matched(ls, turn, inbox, left), QueueTurn(left, t)
  PROVE  /\ Matched(ls, turn, inbox', turns')
         /\ sent' - Len(turns') = sent - Len(left)
         /\ ~stdin => turns' = left
<1>1. inbox \in Seq(Message) /\ sent \in Nat
  BY DEF TypeOK
<1>2. CASE stdin
  <2>1. /\ inbox' = Append(inbox, InputMessage(t.input)) /\ sent' = sent + 1
        /\ turns' = Append(left, t)
    BY <1>2 DEF QueueTurn, CanWrite
  <2>2. Matched(ls, turn, inbox', turns')
    BY <1>1, <2>1, TurnAdded
  <2>3. Len(turns') = Len(left) + 1
    BY <2>1
  <2> QED
    BY <1>1, <1>2, <2>1, <2>2, <2>3
<1>3. CASE ~stdin
  <2>1. inbox' = inbox /\ sent' = sent /\ turns' = left
    BY <1>3 DEF QueueTurn, CanWrite
  <2> QED
    BY <2>1
<1> QED
  BY <1>2, <1>3

(* Every step keeps the turns matched: the runner and Claude write at the  *)
(* end and read at the front, an interrupt passing the inputs before it.   *)
LEMMA NextSession == TypeOK /\ StopInv /\ SessionInv /\ [Next]_vars => SessionInv'
<1> SUFFICES ASSUME TypeOK, StopInv, SessionInv, [Next]_vars PROVE SessionInv'
  OBVIOUS
<1>0. /\ lines \in Seq(Line) /\ inbox \in Seq(Message) /\ turns \in Seq(Turn)
      /\ sent \in Nat /\ completed \in Nat /\ request \in Nat /\ turn \in Input \cup {"none"}
  BY DEF TypeOK
<1>a. turns' \in Seq(Turn) /\ sent' \in Nat /\ completed' \in Nat
  BY TypesStep DEF TypeOK
<1>b. Len(turns) \in Nat /\ Len(turns') \in Nat
  BY <1>0, <1>a
<1>1. CASE Start
  <2>1. /\ stdin /\ sent = 1 /\ completed = 0 /\ lines = <<>> /\ turn = "none"
        /\ phase' = "receive"
    BY <1>1 DEF Start, SessionInv, Unstarted
  <2>2. UNCHANGED <<stdin, sent, completed, turn, lines, exit>>
    BY <1>1 DEF Start
  <2>3. CASE exit = "running"
    <3>1. inbox' = <<InputMessage("stage")>> /\ turns' = <<WorkTurn("stage")>>
      BY <1>1, <2>1, <2>3 DEF Start, CanWrite
    <3>2. WorkTurn("stage") \in Turn /\ WorkTurn("stage").input = "stage"
      BY MessageTypes DEF WorkTurn, Input, WorkInput
    <3>3. Matched(<<>>, "none",
                  Append(<<>>, InputMessage("stage")), Append(<<>>, WorkTurn("stage")))
      <4>1. <<>> \in Seq(Message) /\ <<>> \in Seq(Turn)
        OBVIOUS
      <4> QED
        BY <3>2, <4>1, NothingMatched, TurnAdded
    <3>4. /\ Append(<<>>, InputMessage("stage")) = <<InputMessage("stage")>>
          /\ Append(<<>>, WorkTurn("stage")) = <<WorkTurn("stage")>>
          /\ Len(<<WorkTurn("stage")>>) = 1
      OBVIOUS
    <3>5. Matched(lines', turn', inbox', turns')
      BY <2>1, <2>2, <3>1, <3>3, <3>4, Zenon
    <3>6. Len(turns') = 1
      BY <3>1, <3>4, Zenon
    <3> QED
      BY <2>1, <2>2, <3>5, <3>6 DEF SessionInv, Closed, Counted, Unstarted
  <2>4. CASE exit # "running"
    BY <2>1, <2>2, <2>4 DEF SessionInv, Closed, Counted, Unstarted
  <2> QED
    BY <2>3, <2>4
<1>2. ASSUME NEW kind, Receiving(kind), phase' # "start",
             exit = "running" => /\ Matched(Tail(lines), turn, inbox', turns')
                                 /\ sent' - completed' - Len(turns') = sent - completed - Len(turns)
                                 /\ ~stdin /\ turns = <<>> => turns' = <<>>
      PROVE  SessionInv'
  <2>1. /\ lines' = Tail(lines) /\ UNCHANGED <<reason, stdin, turn, exit>> /\ phase # "start"
    BY <1>2 DEF Receiving
  <2>2. exit' = "running" => Matched(lines', turn', inbox', turns')
    BY <1>2, <2>1
  <2>3. Closed' /\ Unstarted'
    BY <1>2, <2>1 DEF SessionInv, Closed, Unstarted, Cancelled
  <2>4. exit = "running" => sent = completed + Len(turns)
    BY <2>1 DEF SessionInv, Counted
  <2>5. exit = "running" => sent' = completed' + Len(turns')
    BY <1>0, <1>2, <1>a, <1>b, <2>4, SMTT(30)
  <2>6. Counted'
    BY <2>1, <2>5 DEF Counted
  <2> QED
    BY <2>2, <2>3, <2>6 DEF SessionInv
<1>3. CASE ReceiveRejection
  <2>1. Receiving("rejection") /\ phase' # "start" /\ UNCHANGED <<sent, completed, turns>>
    BY <1>3 DEF ReceiveRejection, Receiving
  <2>2. ASSUME exit = "running" PROVE Matched(Tail(lines), turn, inbox', turns')
    <3>1. Matched(Tail(lines), turn, inbox, turns)
      BY <1>0, <2>1, <2>2, LineTaken DEF Receiving, SessionInv
    <3>2. CASE inbox' = inbox
      BY <2>1, <3>1, <3>2
    <3>3. CASE inbox' = Append(inbox, Interrupt(request + 1))
      <4>1. Interrupt(request + 1) \in Message /\ Interrupt(request + 1).kind # "input"
        BY <1>0, MessageTypes DEF Interrupt
      <4> QED
        BY <1>0, <2>1, <3>1, <3>3, <4>1, InterruptAdded
    <3> QED
      BY <1>3, <3>2, <3>3 DEF ReceiveRejection, QueueInterrupt
  <2> QED
    BY <1>0, <1>2, <2>1, <2>2
<1>4. CASE ReceiveResponse
  <2>1. Receiving("response") /\ phase' # "start" /\ UNCHANGED completed
    BY <1>4 DEF ReceiveResponse, Receiving
  <2>2. ASSUME exit = "running"
        PROVE  /\ Matched(Tail(lines), turn, inbox', turns')
               /\ sent' - Len(turns') = sent - Len(turns)
               /\ ~stdin => turns' = turns
    <3>1. Matched(Tail(lines), turn, inbox, turns)
      BY <1>0, <2>1, <2>2, LineTaken DEF Receiving, SessionInv
    <3>2. CASE NothingQueued(turns)
      BY <3>1, <3>2 DEF NothingQueued
    <3>3. CASE pending # "none" /\ QueueTurn(turns, FollowUp(pending, "none"))
      <4>1. FollowUp(pending, "none") \in Turn
        BY <3>3, MessageTypes DEF TypeOK
      <4>2. Tail(lines) \in Seq(Line)
        BY <1>0, <2>1 DEF Receiving
      <4> QED
        BY <1>0, <2>2, <3>1, <3>3, <4>1, <4>2, QueueMatched
    <3> QED
      BY <1>4, <3>2, <3>3 DEF ReceiveResponse
  <2>3. exit = "running" => sent' - completed' - Len(turns') = sent - completed - Len(turns)
    <3>1. SUFFICES ASSUME exit = "running"
                   PROVE  sent' - completed' - Len(turns') = sent - completed - Len(turns)
      OBVIOUS
    <3>2. sent' - Len(turns') = sent - Len(turns) /\ completed' = completed
      BY <2>1, <2>2, <3>1
    <3> QED
      BY <1>0, <1>a, <1>b, <3>2
  <2> QED
    BY <1>2, <2>1, <2>2, <2>3
<1>5. CASE ReceiveResult
  <2>1. Receiving("result") /\ phase' # "start" /\ completed' = completed + 1
    BY <1>5 DEF ReceiveResult, Receiving
  <2>2. ASSUME exit = "running"
        PROVE  /\ Matched(Tail(lines), turn, inbox', turns')
               /\ sent' - Len(turns') = sent - (Len(turns) - 1)
               /\ turns # <<>>
    <3>1. turns # <<>> /\ Matched(Tail(lines), turn, inbox, Tail(turns))
      BY <1>0, <2>1, <2>2, ResultTaken DEF Receiving, SessionInv
    <3>2. Left = Tail(turns) /\ Left \in Seq(Turn) /\ Len(Left) = Len(turns) - 1
      BY <1>0, <3>1 DEF Left
    <3>3. CASE NothingQueued(Left)
      BY <3>1, <3>2, <3>3 DEF NothingQueued
    <3>4. ASSUME NEW t \in Turn, QueueTurn(Left, t)
          PROVE  /\ Matched(Tail(lines), turn, inbox', turns')
                 /\ sent' - Len(turns') = sent - Len(Left)
      <4>1. Tail(lines) \in Seq(Line)
        BY <1>0, <2>1 DEF Receiving
      <4> QED
        BY <2>2, <3>1, <3>2, <3>4, <4>1, QueueMatched
    <3>5. CASE pending # "none"
      <4>1. FollowUp(pending, Resumed(pending, Head(lines).interrupted)) \in Turn
        BY <3>5, MessageTypes, LeftTypes DEF TypeOK
      <4> QED
        BY <1>5, <3>1, <3>2, <3>4, <3>5, <4>1 DEF ReceiveResult
    <3>6. CASE /\ turns # <<>> /\ Head(turns).resume # "none"
               /\ QueueTurn(Left, WorkTurn(Head(turns).resume))
      <4>1. WorkTurn(Head(turns).resume) \in Turn
        BY <3>6, MessageTypes, LeftTypes DEF Turn
      <4> QED
        BY <3>1, <3>2, <3>4, <3>6, <4>1
    <3> QED
      BY <1>5, <3>3, <3>5, <3>6 DEF ReceiveResult
  <2>3. exit = "running" => sent' - completed' - Len(turns') = sent - completed - Len(turns)
    <3>1. SUFFICES ASSUME exit = "running"
                   PROVE  sent' - completed' - Len(turns') = sent - completed - Len(turns)
      OBVIOUS
    <3>2. sent' - Len(turns') = sent - (Len(turns) - 1) /\ completed' = completed + 1
      BY <2>1, <2>2, <3>1
    <3>3. PICK s \in Int, n \in Int, s1 \in Int, n1 \in Int :
            s = sent /\ n = Len(turns) /\ s1 = sent' /\ n1 = Len(turns')
      BY <1>0, <1>a, <1>b
    <3>4. s1 - n1 = s - (n - 1)
      BY <3>2, <3>3, Zenon
    <3>5. s1 - (completed + 1) - n1 = s - completed - n
      BY <1>0, <3>4
    <3> QED
      BY <3>2, <3>3, <3>5, Zenon
  <2> QED
    BY <1>2, <2>1, <2>2, <2>3
<1>6. ASSUME NEW action \in Slash \cup {"steer"}, InterruptKey(action) PROVE SessionInv'
  <2>1. /\ UNCHANGED <<reason, turnsOf, turn, lines, exit>> /\ phase # "start" /\ phase' # "start"
    BY <1>6 DEF InterruptKey, Serving
  <2>2. ASSUME exit = "running" PROVE Matched(lines', turn', inbox', turns')
    <3>1. CASE inbox' = inbox
      BY <2>1, <2>2, <3>1 DEF SessionInv, turnsOf
    <3>2. CASE inbox' = Append(inbox, Interrupt(request + 1))
      <4>1. Interrupt(request + 1) \in Message /\ Interrupt(request + 1).kind # "input"
        BY <1>0, MessageTypes DEF Interrupt
      <4> QED
        BY <1>0, <2>1, <2>2, <3>2, <4>1, InterruptAdded DEF SessionInv, turnsOf
    <3> QED
      BY <1>6, <3>1, <3>2 DEF InterruptKey, QueueInterrupt
  <2> QED
    BY <2>1, <2>2 DEF SessionInv, Closed, Counted, Unstarted, Cancelled, turnsOf
<1>7. CASE ReceiveNothing \/ NoKey \/ Disconnected \/ GraceOver
  <2>1. UNCHANGED <<reason, turnsOf, interrupt, claude>>
        /\ (phase = "start" <=> phase' = "start")
    BY <1>7 DEF ReceiveNothing, NoKey, Disconnected, GraceOver
  <2> QED
    BY <2>1 DEF SessionInv, Closed, Counted, Unstarted, Cancelled, turnsOf, interrupt, claude
<1>8. CASE Close
  <2>1. /\ UNCHANGED <<reason, sent, completed, turns, interrupt, claude>>
        /\ stdin' = (stdin /\ ~AllAnswered) /\ phase # "start" /\ phase' # "start"
    BY <1>8 DEF Close
  <2>2. exit = "running" /\ AllAnswered => turns = <<>>
    BY <1>0, <2>1 DEF SessionInv, Counted, AllAnswered
  <2>3. exit = "running" /\ ~stdin' /\ ~Cancelled => turns = <<>>
    BY <2>1, <2>2 DEF SessionInv, Closed
  <2> QED
    BY <2>1, <2>3 DEF SessionInv, Closed, Counted, Unstarted, Cancelled, interrupt, claude
<1>9. CASE Expire \/ StopKey
  <2>1. /\ reason' # "none" /\ phase # "start" /\ phase' # "start"
        /\ UNCHANGED <<sent, completed, turns, interrupt, claude>>
    BY <1>9, ReasonsAssumption DEF Expire, StopKey, Serving, Stop
  <2> QED
    BY <2>1 DEF SessionInv, Closed, Counted, Unstarted, Cancelled, interrupt, claude
<1>10. CASE Begin
  <2>1. /\ UNCHANGED <<runner, lines, exit>> /\ exit = "running" /\ turn = "none" /\ inbox # <<>>
        /\ Head(inbox).kind = "input" /\ turn' = Head(inbox).input /\ inbox' = Tail(inbox)
    BY <1>10 DEF Begin
  <2>2. Matched(lines', turn', inbox', turns')
    BY <1>0, <2>1, TurnBegun DEF SessionInv, runner, turnsOf
  <2>3. phase # "start"
    BY <2>1 DEF SessionInv, Unstarted
  <2> QED
    BY <2>1, <2>2, <2>3
    DEF SessionInv, Closed, Counted, Unstarted, Cancelled, runner, loop, turnsOf
<1>11. CASE TakeInterrupt
  <2>1. PICK i \in DOMAIN inbox :
          /\ FirstInterrupt(i) /\ inbox' = Read(i)
          /\ lines' = IF launcher = "ignoring" THEN lines
                      ELSE Append(lines, Response(inbox[i].id, launcher = "accepting"))
    BY <1>11 DEF TakeInterrupt
  <2>2. UNCHANGED <<runner, turn, exit>> /\ exit = "running"
    BY <1>11 DEF TakeInterrupt
  <2>3. Matched(lines, turn, inbox', turns)
    BY <1>0, <2>1, <2>2, InterruptTaken DEF SessionInv, FirstInterrupt, Read
  <2>4. Matched(lines', turn, inbox', turns)
    <3>1. CASE launcher = "ignoring"
      BY <2>1, <2>3, <3>1
    <3>2. CASE launcher # "ignoring"
      <4> DEFINE x == Response(inbox[i].id, launcher = "accepting")
      <4>1. inbox[i].id \in Nat
        <5>1. inbox[i] \in Message
          BY <1>0
        <5> QED
          BY <5>1 DEF Message
      <4>2. x \in Line /\ x.kind # "result"
        BY <4>1, MessageTypes DEF Response
      <4> HIDE DEF x
      <4>3. Matched(Append(lines, x), turn, inbox', turns)
        BY <1>0, <2>3, <4>2, LineAdded
      <4> QED
        BY <2>1, <3>2, <4>3 DEF x
    <3> QED
      BY <3>1, <3>2
  <2>5. phase # "start"
    BY <2>1 DEF SessionInv, Unstarted
  <2> QED
    BY <2>2, <2>4, <2>5
    DEF SessionInv, Closed, Counted, Unstarted, Cancelled, runner, loop, turnsOf
<1>12. ASSUME NEW interrupted \in BOOLEAN, EndTurn(interrupted) PROVE SessionInv'
  <2>1. /\ UNCHANGED <<runner, inbox, exit>> /\ exit = "running" /\ turn # "none" /\ turn' = "none"
        /\ lines' = Append(lines, Result(turn, interrupted))
    BY <1>12 DEF EndTurn
  <2>2. Matched(lines', turn', inbox', turns')
    BY <1>0, <2>1, TurnEnded DEF SessionInv, runner, turnsOf
  <2>3. phase # "start"
    BY <2>1 DEF SessionInv, Unstarted
  <2> QED
    BY <2>1, <2>2, <2>3
    DEF SessionInv, Closed, Counted, Unstarted, Cancelled, runner, loop, turnsOf
<1>13. CASE Confused
  <2>1. /\ UNCHANGED <<runner, inbox, turn, exit>> /\ exit = "running" /\ turn \in WorkInput
        /\ lines' = Append(lines, Rejection)
    BY <1>13 DEF Confused
  <2>2. Matched(lines', turn', inbox', turns')
    <3>1. Rejection \in Line /\ Rejection.kind # "result"
      BY MessageTypes DEF Rejection
    <3> QED
      BY <1>0, <2>1, <3>1, LineAdded DEF SessionInv, runner, turnsOf
  <2>3. phase # "start"
    BY <2>1 DEF SessionInv, Unstarted, WorkInput
  <2> QED
    BY <2>1, <2>2, <2>3
    DEF SessionInv, Closed, Counted, Unstarted, Cancelled, runner, loop, turnsOf
<1>14. CASE Exit \/ Killed \/ Crash
  <2>1. exit' # "running" /\ inbox' = <<>> /\ turn' = "none" /\ UNCHANGED <<runner, lines>>
    BY <1>14 DEF Exit, Killed, Crash, Leave
  <2> QED
    BY <2>1 DEF SessionInv, Closed, Counted, Unstarted, runner, loop, turnsOf, interrupt
<1>15. CASE UNCHANGED vars
  BY <1>15
  DEF vars, SessionInv, Closed, Counted, Unstarted, Cancelled, loop, turnsOf, interrupt, claude
<1> QED
  BY <1>1, <1>3, <1>4, <1>5, <1>6, <1>7, <1>8, <1>9, <1>10, <1>11, <1>12, <1>13, <1>14, <1>15
  DEF Next, RunnerStep, ClaudeStep

(* In every reachable state.                                               *)
LEMMA SessionHolds == Spec => []SessionInv
  BY InitSession, NextSession, SessionTypes, StopHolds, PTL DEF Spec

(* The turns the runner waits for are those Claude has not answered to it, *)
(* in their order, and the input is closed on nobody who waits for an      *)
(* answer, whatever keys are pressed, whenever Claude serves interrupts,   *)
(* and for launchers that reject or ignore them.                           *)
THEOREM TurnsAnsweredHolds == Spec => []TurnsAnswered
<1>1. SessionInv => TurnsAnswered
  BY DEF SessionInv, Matched, Closed, TurnsAnswered
<1> QED
  BY <1>1, SessionHolds, PTL
-----------------------------------------------------------------------------
(* The command answered                                                    *)

(* Entries of a sequence that loses its first or gains a last one.         *)
LEMMA TailEntries ==
  ASSUME NEW S, NEW s \in Seq(S), s # <<>>
  PROVE  /\ 1 \in DOMAIN s /\ s[1] = Head(s) /\ Tail(s) \in Seq(S)
         /\ \A i \in DOMAIN Tail(s) : i \in Nat \ {0} /\ i + 1 \in DOMAIN s /\ Tail(s)[i] = s[i + 1]
         /\ \A i \in DOMAIN s : i # 1 => i - 1 \in DOMAIN Tail(s) /\ Tail(s)[i - 1] = s[i]
OBVIOUS

(* An entry of a longer sequence is one of the old ones or the new one.    *)
LEMMA AppendEntries ==
  ASSUME NEW S, NEW s \in Seq(S), NEW x
  PROVE  \A i \in DOMAIN Append(s, x) :
           \/ i \in DOMAIN s /\ Append(s, x)[i] = s[i]
           \/ /\ i = Len(s) + 1 /\ Append(s, x)[i] = x
              /\ \A j \in 1..(i - 1) : j \in DOMAIN s /\ Append(s, x)[j] = s[j]
OBVIOUS

(* The old ones stay where they are.                                       *)
LEMMA AppendKeeps ==
  ASSUME NEW S, NEW s \in Seq(S), NEW x
  PROVE  /\ \A i \in DOMAIN s : i \in DOMAIN Append(s, x) /\ Append(s, x)[i] = s[i]
         /\ \A i \in DOMAIN s : i < Len(s) + 1 /\ i \in Nat
OBVIOUS

NoResult(ls) == \A i \in DOMAIN ls : ls[i].kind # "result"
NoInput(ib) == \A i \in DOMAIN ib : ib[i].kind # "input"

(* Without turns nothing is asked.                                         *)
LEMMA NoTurn ==
  ASSUME NEW ls, NEW w, NEW ib, Matched(ls, w, ib, <<>>)
  PROVE  w = "none" /\ NoResult(ls) /\ NoInput(ib)
<1>1. PICK ended \in 0..0 :
        LET begun == IF w = "none" THEN ended ELSE ended + 1
        IN /\ InOrder(ls, "result", <<>>, 1, ended)
           /\ w # "none" => begun <= 0
           /\ InOrder(ib, "input", <<>>, begun + 1, 0)
  <2>1. Len(<<>>) = 0
    OBVIOUS
  <2> QED
    BY <2>1 DEF Matched
<1>2. w = "none" /\ InOrder(ls, "result", <<>>, 1, 0) /\ InOrder(ib, "input", <<>>, 1, 0)
  BY <1>1
<1> QED
  BY <1>2, NoneInOrder DEF NoResult, NoInput

(* A single turn is answered, at work or unread.                           *)
LEMMA OneTurn ==
  ASSUME NEW ls, NEW w, NEW ib, NEW ts \in Seq(Turn), Matched(ls, w, ib, ts), Len(ts) <= 1
  PROVE  /\ w # "none" => /\ ts # <<>> /\ Head(ts).input = w
                          /\ NoResult(ls) /\ NoInput(ib)
         /\ \A i \in DOMAIN ls : ls[i].kind = "result" =>
              /\ w = "none" /\ NoInput(ib)
              /\ ts # <<>> /\ Head(ts).input = ls[i].input
              /\ \A j \in DOMAIN ls : ls[j].kind = "result" => j = i
         /\ ~NoInput(ib) => NoResult(ls)
<1> DEFINE m == Len(ts)
<1>1. PICK ended \in 0..m :
        LET begun == IF w = "none" THEN ended ELSE ended + 1
        IN /\ InOrder(ls, "result", ts, 1, ended)
           /\ w # "none" => begun <= m /\ ts[begun].input = w
           /\ InOrder(ib, "input", ts, begun + 1, m)
  BY DEF Matched
<1>2. m \in {0, 1} /\ (m = 1 => ts # <<>> /\ Head(ts) = ts[1])
  <2>1. Len(ts) \in Nat
    OBVIOUS
  <2>2. Len(ts) \in {0, 1}
    BY <2>1
  <2>3. ASSUME Len(ts) = 1 PROVE ts # <<>> /\ Head(ts) = ts[1]
    <3>1. ts # <<>>
      BY <2>3
    <3> QED
      BY <3>1
  <2> QED
    BY <2>2, <2>3
<1> HIDE DEF m
<1>3. CASE ended = 0
  <2>1. NoResult(ls)
    BY <1>1, <1>3, NoneInOrder DEF NoResult
  <2>2. ASSUME w # "none" PROVE m = 1 /\ ts[1].input = w /\ NoInput(ib)
    <3>1. m = 1 /\ ts[1].input = w /\ InOrder(ib, "input", ts, 2, 1)
      BY <1>1, <1>2, <1>3, <2>2
    <3> QED
      BY <3>1, NoneInOrder DEF NoInput
  <2> QED
    BY <1>2, <2>1, <2>2 DEF NoResult
<1>4. CASE ended = 1
  <2>1. m = 1 /\ w = "none" /\ InOrder(ls, "result", ts, 1, 1) /\ InOrder(ib, "input", ts, 2, 1)
    BY <1>1, <1>2, <1>4
  <2>2. NoInput(ib)
    BY <2>1, NoneInOrder DEF NoInput
  <2>3. PICK at \in [1..1 -> DOMAIN ls] :
          /\ {at[k] : k \in 1..1} = {i \in DOMAIN ls : ls[i].kind = "result"}
          /\ \A k \in 1..1 : ls[at[k]].input = ts[k].input
    BY <2>1 DEF InOrder
  <2>4. \A i \in DOMAIN ls : ls[i].kind = "result" => i = at[1]
    BY <2>3
  <2>5. ls[at[1]].input = ts[1].input
    BY <2>3
  <2> QED
    BY <1>2, <2>1, <2>2, <2>4, <2>5
<1> QED
  BY <1>1, <1>2, <1>3, <1>4

(* For a launcher that accepts interrupts: one turn at a time;             *)
Singled == Len(turns) <= 1

(* what comes after a follow-up is work;                                   *)
Purposed ==
  turns # <<>> =>
    /\ Head(turns).purpose = "followup" <=> Head(turns).input \in Slash
    /\ Head(turns).resume \in WorkInput \cup {"none"}

(* every response agrees;                                                  *)
Agreed == \A i \in DOMAIN lines : lines[i].kind = "response" => lines[i].ok

(* what an interrupt stops is followed by its action, which is pending as  *)
(* long as the result has not been read;                                   *)
Expected ==
  /\ \A i \in DOMAIN inbox :
       /\ inbox[i].kind = "interrupt"
       /\ turn # "none" \/ \E j \in 1..(i - 1) : inbox[j].kind = "input"
       => pending # "none"
  /\ stopping => turn # "none" /\ pending # "none"
  /\ \A i \in DOMAIN lines :
       lines[i].kind = "result" /\ lines[i].interrupted => pending # "none"

(* a slash command is asked for over work, not over a slash command, also  *)
(* when it is a compaction for what the output says of the turn at work;   *)
OverWork ==
  /\ pending \in Slash \cup {"steer", "none"}
  /\ pending \in Slash /\ turns # <<>> => Head(turns).input \in WorkInput
  /\ \A i \in DOMAIN lines :
       lines[i].kind = "rejection" => turns # <<>> /\ Head(turns).input \in WorkInput
  /\ \A i, j \in DOMAIN lines :
       i < j /\ lines[i].kind = "result" => lines[j].kind # "rejection"

(* and interrupted work is the turn waited for or given back by it.        *)
Returned ==
  /\ work = "interrupted" /\ ~Cancelled =>
       turns # <<>> /\ (Head(turns).input \in WorkInput \/ Head(turns).resume \in WorkInput)
  /\ \A i \in DOMAIN lines :
       lines[i].kind = "result" /\ lines[i].input \in WorkInput =>
         (lines[i].interrupted <=> work = "interrupted")

Accepting == exit = "running" /\ launcher = "accepting"

AcceptingInv == Singled /\ Purposed /\ Agreed /\ Expected /\ OverWork /\ Returned

(* Other launchers interrupt nothing.                                      *)
Uninterrupted == launcher # "accepting" => ~stopping /\ work # "interrupted"

WorkWaits(ib) == \E i \in DOMAIN ib : ib[i].kind = "input" /\ ib[i].input \in WorkInput

(* Work that has not ended is at work or unread.                           *)
Remaining ==
  exit = "running" /\ phase # "start" /\ work = "asked" => turn \in WorkInput \/ WorkWaits(inbox)

(* The input of a process that nobody stops is closed after the answer,    *)
(* and a process that ends well has come to the end of its input.          *)
Answered ==
  /\ ~stdin /\ ~Cancelled /\ exit # "failure" => work = "answered"
  /\ exit = "success" => ~stdin

AnsweredInv == (Accepting => AcceptingInv) /\ Uninterrupted /\ Remaining /\ Answered

(* Nothing is interrupted at first.                                        *)
LEMMA InitAnswered == Init => AnsweredInv
<1> SUFFICES ASSUME Init PROVE AnsweredInv
  OBVIOUS
<1>1. DOMAIN <<>> = {} /\ Len(<<>>) = 0
  OBVIOUS
<1>2. Singled /\ Purposed /\ Agreed /\ Expected /\ OverWork /\ Returned
  BY <1>1 DEF Init, Singled, Purposed, Agreed, Expected, OverWork, Returned
<1> QED
  BY <1>2 DEF Init, AnsweredInv, AcceptingInv, Uninterrupted, Remaining, Answered

(* No step of a launcher that rejects or ignores interrupts stops a turn.  *)
LEMMA UninterruptedStep == Uninterrupted /\ [Next]_vars => Uninterrupted'
<1> SUFFICES ASSUME Uninterrupted, [Next]_vars, launcher' # "accepting"
             PROVE  ~stopping' /\ work' # "interrupted"
  BY DEF Uninterrupted
<1>1. CASE UNCHANGED <<launcher, stopping, work>>
  BY <1>1 DEF Uninterrupted
<1>2. CASE Begin \/ TakeInterrupt \/ Exit \/ Killed \/ Crash
  <2>1. launcher' = launcher /\ (work' = work \/ work' = "asked")
    BY <1>2 DEF Begin, TakeInterrupt, Exit, Killed, Crash, Leave, runner, dashboard
  <2>2. stopping' = stopping \/ ~stopping'
    BY <1>2, <2>1 DEF Begin, TakeInterrupt, Exit, Killed, Crash, Leave
  <2> QED
    BY <2>1, <2>2 DEF Uninterrupted
<1>5. ASSUME NEW interrupted \in BOOLEAN, EndTurn(interrupted)
      PROVE  ~stopping' /\ work' # "interrupted"
  <2>1. launcher' = launcher /\ ~stopping'
    BY <1>5 DEF EndTurn, runner, dashboard
  <2>2. ~interrupted
    BY <1>5, <2>1 DEF EndTurn, Uninterrupted
  <2> QED
    BY <1>5, <2>1, <2>2 DEF EndTurn, Uninterrupted
<1>3. CASE RunnerStep \/ Expire \/ StopKey
           \/ (\E action \in Slash \cup {"steer"} : InterruptKey(action)) \/ GraceOver \/ Confused
  <2>1. UNCHANGED <<launcher, stopping, work>>
    BY <1>3
    DEF RunnerStep, Start, ReceiveRejection, ReceiveResult, ReceiveResponse, Receiving,
        ReceiveNothing, Disconnected, NoKey, Close, Expire, StopKey, InterruptKey, GraceOver,
        Confused, runner, dashboard, claude
  <2> QED
    BY <1>1, <2>1
<1>4. CASE UNCHANGED vars
  BY <1>1, <1>4 DEF vars, dashboard, claude
<1> QED
  BY <1>2, <1>3, <1>4, <1>5 DEF Next, ClaudeStep

(* Work that is unread stays so until it is begun.                         *)
LEMMA WorkStillWaits ==
  ASSUME NEW ib \in Seq(Message), WorkWaits(ib)
  PROVE  /\ \A x : WorkWaits(Append(ib, x))
         /\ Head(ib).input \notin WorkInput => WorkWaits(Tail(ib))
         /\ \A p \in DOMAIN ib : ib[p].kind = "interrupt" =>
              WorkWaits(SubSeq(ib, 1, p - 1) \o SubSeq(ib, p + 1, Len(ib)))
<1>1. PICK i \in DOMAIN ib : ib[i].kind = "input" /\ ib[i].input \in WorkInput
  BY DEF WorkWaits
<1>2. ASSUME NEW x PROVE WorkWaits(Append(ib, x))
  <2>1. i \in DOMAIN Append(ib, x) /\ Append(ib, x)[i] = ib[i]
    BY AppendKeeps
  <2> QED
    BY <1>1, <2>1 DEF WorkWaits
<1>3. ASSUME Head(ib).input \notin WorkInput PROVE WorkWaits(Tail(ib))
  <2>1. i # 1 /\ ib # <<>>
    BY <1>1, <1>3
  <2>2. i - 1 \in DOMAIN Tail(ib) /\ Tail(ib)[i - 1] = ib[i]
    BY <2>1, TailEntries
  <2> QED
    BY <1>1, <2>2 DEF WorkWaits
<1>4. ASSUME NEW p \in DOMAIN ib, ib[p].kind = "interrupt"
      PROVE  WorkWaits(SubSeq(ib, 1, p - 1) \o SubSeq(ib, p + 1, Len(ib)))
  <2> DEFINE t == SubSeq(ib, 1, p - 1) \o SubSeq(ib, p + 1, Len(ib))
             n == Len(ib)
  <2>a. /\ t \in Seq(Message) /\ Len(t) = n - 1
        /\ \A k \in 1..Len(t) : t[k] = (IF k < p THEN ib[k] ELSE ib[k + 1])
    BY WithoutEntry, Zenon
  <2>1. n \in Nat /\ p \in 1..n /\ i \in 1..n
    OBVIOUS
  <2>2. DOMAIN t = 1..Len(t)
    BY <2>a
  <2> HIDE DEF t, n
  <2>3. \E k \in DOMAIN t : t[k] = ib[i]
    <3>1. i # p
      BY <1>1, <1>4
    <3>2. CASE i < p
      <4>1. i \in DOMAIN t /\ t[i] = ib[i]
        BY <2>1, <2>a, <2>2, <3>2
      <4> QED
        BY <4>1
    <3>3. CASE i > p
      <4>1. i - 1 \in 1..Len(t) /\ (i - 1) + 1 = i /\ ~(i - 1 < p)
        BY <2>1, <2>a, <3>3
      <4> QED
        BY <2>a, <2>2, <4>1
    <3> QED
      BY <2>1, <3>1, <3>2, <3>3
  <2>4. WorkWaits(t)
    BY <1>1, <2>3 DEF WorkWaits
  <2> QED
    BY <2>4 DEF t
<1> QED
  BY <1>2, <1>3, <1>4

(* Whatever the runner writes comes after what is unread.                  *)
LEMMA Written ==
  ASSUME NEW t, QueueTurn(Left, t) \/ QueueTurn(turns, t) \/ NothingQueued(turns)
                \/ NothingQueued(Left)
  PROVE  inbox' = inbox \/ inbox' = Append(inbox, InputMessage(t.input))
BY DEF QueueTurn, NothingQueued

(* Work is asked until Claude ends it.                                     *)
LEMMA RemainingStep ==
  TypeOK /\ SessionInv /\ Remaining /\ [Next]_vars => Remaining'
<1> SUFFICES ASSUME TypeOK, SessionInv, Remaining, [Next]_vars,
                    exit' = "running", phase' # "start", work' = "asked"
             PROVE  turn' \in WorkInput \/ WorkWaits(inbox')
  BY DEF Remaining
<1>0. inbox \in Seq(Message)
  BY DEF TypeOK
<1>1. ASSUME exit = "running", phase # "start", work = "asked",
             UNCHANGED turn, inbox' = inbox \/ \E x : inbox' = Append(inbox, x)
      PROVE  turn' \in WorkInput \/ WorkWaits(inbox')
  BY <1>0, <1>1, WorkStillWaits DEF Remaining
<1>2. CASE Start
  <2>1. inbox' = <<InputMessage("stage")>>
    BY <1>2 DEF Start, CanWrite, SessionInv, Unstarted
  <2>2. /\ 1 \in DOMAIN inbox' /\ inbox'[1] = InputMessage("stage")
    BY <2>1
  <2> QED
    BY <2>2 DEF WorkWaits, InputMessage, WorkInput
<1>3. CASE ReceiveRejection \/ ReceiveResult \/ ReceiveResponse
  <2>1. /\ exit = "running" /\ phase # "start" /\ work = "asked" /\ UNCHANGED turn
    BY <1>3 DEF ReceiveRejection, ReceiveResult, ReceiveResponse, Receiving
  <2>2. inbox' = inbox \/ \E x : inbox' = Append(inbox, x)
    <3>1. CASE ReceiveRejection
      BY <3>1 DEF ReceiveRejection, QueueInterrupt
    <3>2. CASE ReceiveResult \/ ReceiveResponse
      BY <3>2, Written DEF ReceiveResult, ReceiveResponse
    <3> QED
      BY <1>3, <3>1, <3>2
  <2> QED
    BY <1>1, <2>1, <2>2
<1>4. ASSUME NEW action \in Slash \cup {"steer"}, InterruptKey(action)
      PROVE  turn' \in WorkInput \/ WorkWaits(inbox')
  <2>1. /\ exit = "running" /\ phase # "start" /\ work = "asked" /\ UNCHANGED turn
    BY <1>4 DEF InterruptKey, Serving
  <2>2. inbox' = inbox \/ \E x : inbox' = Append(inbox, x)
    BY <1>4 DEF InterruptKey, QueueInterrupt
  <2> QED
    BY <1>1, <2>1, <2>2
<1>5. CASE ReceiveNothing \/ Disconnected \/ NoKey \/ Close \/ Expire \/ StopKey \/ GraceOver
           \/ Confused
  <2>1. UNCHANGED <<turn, inbox, exit, work>> /\ phase # "start"
    BY <1>5
    DEF ReceiveNothing, Disconnected, NoKey, Close, Expire, StopKey, Serving, GraceOver, Confused,
        runner, loop, claude
  <2> QED
    BY <1>1, <2>1
<1>6. CASE Begin
  <2>1. /\ exit = "running" /\ inbox' = Tail(inbox) /\ turn' = Head(inbox).input /\ turn = "none"
        /\ work' = IF turn' \in WorkInput THEN "asked" ELSE work
        /\ inbox # <<>>
    BY <1>6 DEF Begin
  <2>2. phase # "start"
    BY <2>1 DEF SessionInv, Unstarted
  <2>3. CASE turn' \notin WorkInput
    BY <1>0, <2>1, <2>2, <2>3, WorkStillWaits DEF Remaining, WorkInput
  <2> QED
    BY <2>3
<1>7. CASE TakeInterrupt
  <2>1. PICK i \in DOMAIN inbox : FirstInterrupt(i) /\ inbox' = Read(i)
    BY <1>7 DEF TakeInterrupt
  <2>2. exit = "running" /\ UNCHANGED <<turn, work>>
    BY <1>7 DEF TakeInterrupt
  <2>3. phase # "start"
    BY <2>1 DEF SessionInv, Unstarted
  <2> QED
    BY <1>0, <2>1, <2>2, <2>3, WorkStillWaits DEF Remaining, FirstInterrupt, Read
<1>8. ASSUME NEW interrupted \in BOOLEAN, EndTurn(interrupted)
      PROVE  turn' \in WorkInput \/ WorkWaits(inbox')
  <2>1. /\ exit = "running" /\ turn # "none" /\ turn \notin WorkInput /\ work = "asked"
        /\ UNCHANGED inbox
    BY <1>8 DEF EndTurn
  <2>2. phase # "start"
    BY <2>1 DEF SessionInv, Unstarted
  <2> QED
    BY <2>1, <2>2 DEF Remaining
<1>9. CASE Exit \/ Killed \/ Crash
  BY <1>9 DEF Exit, Killed, Crash, Leave
<1>10. CASE UNCHANGED vars
  BY <1>1, <1>10 DEF vars, loop, claude
<1> QED
  BY <1>2, <1>3, <1>4, <1>5, <1>6, <1>7, <1>8, <1>9, <1>10 DEF Next, RunnerStep, ClaudeStep

(* The input is closed when all is answered, so after the work.            *)
LEMMA AnsweredStep ==
  TypeOK /\ SessionInv /\ AnsweredInv /\ [Next]_vars => Answered'
<1> SUFFICES ASSUME TypeOK, SessionInv, AnsweredInv, [Next]_vars PROVE Answered'
  OBVIOUS
<1>1. ASSUME UNCHANGED <<stdin, exit, work>>, Cancelled => Cancelled' PROVE Answered'
  BY <1>1 DEF AnsweredInv, Answered
<1>2. CASE Start
  BY <1>1, <1>2 DEF Start, Cancelled
<1>3. CASE ReceiveRejection \/ ReceiveResult \/ ReceiveResponse
  BY <1>1, <1>3 DEF ReceiveRejection, ReceiveResult, ReceiveResponse, Receiving, Cancelled
<1>4. CASE ReceiveNothing \/ Disconnected \/ NoKey \/ GraceOver
  BY <1>1, <1>4 DEF ReceiveNothing, Disconnected, NoKey, GraceOver, Cancelled, turnsOf, claude
<1>5. CASE \E action \in Slash \cup {"steer"} : InterruptKey(action)
  BY <1>1, <1>5 DEF InterruptKey, Cancelled, turnsOf
<1>6. CASE Expire \/ StopKey
  <2>1. ~stdin' /\ reason' # "none" /\ exit' = exit
    BY <1>6, ReasonsAssumption DEF Expire, StopKey, Stop, claude
  <2> QED
    BY <2>1 DEF Answered, Cancelled
<1>7. CASE Close
  <2>1. /\ UNCHANGED <<reason, exit, work>> /\ stdin' = (stdin /\ ~AllAnswered) /\ phase # "start"
    BY <1>7 DEF Close, claude
  <2>2. ASSUME exit = "running", AllAnswered PROVE work = "answered" \/ Cancelled
    <3>1. turns = <<>>
      BY <2>1, <2>2 DEF SessionInv, Counted, AllAnswered, TypeOK
    <3>2. turn = "none" /\ NoInput(inbox)
      BY <2>2, <3>1, NoTurn DEF SessionInv
    <3>3. work # "asked"
      BY <2>1, <2>2, <3>2 DEF AnsweredInv, Remaining, WorkWaits, NoInput, WorkInput
    <3>4. work # "interrupted" \/ Cancelled
      BY <2>2, <3>1 DEF AnsweredInv, Accepting, AcceptingInv, Returned, Uninterrupted
    <3> QED
      BY <3>3, <3>4 DEF TypeOK
  <2>3. exit = "success" => ~stdin
    BY DEF AnsweredInv, Answered
  <2> QED
    BY <2>1, <2>2, <2>3 DEF AnsweredInv, Answered, Cancelled, TypeOK
<1>8. ASSUME exit = "running", ~stdin, ~Cancelled PROVE turn = "none" /\ NoInput(inbox)
  <2>1. turns = <<>>
    BY <1>8 DEF SessionInv, Closed
  <2> QED
    BY <1>8, <2>1, NoTurn DEF SessionInv
<1>9. CASE Begin
  <2>1. /\ exit = "running" /\ inbox # <<>> /\ Head(inbox).kind = "input"
        /\ UNCHANGED <<stdin, reason, exit>>
    BY <1>9 DEF Begin, runner, loop, turnsOf
  <2>2. ~NoInput(inbox)
    BY <2>1, TailEntries DEF NoInput, TypeOK
  <2> QED
    BY <1>8, <2>1, <2>2 DEF Answered, Cancelled
<1>10. CASE \E interrupted \in BOOLEAN : EndTurn(interrupted)
  BY <1>8, <1>10 DEF EndTurn, Answered, Cancelled, runner, loop, turnsOf
<1>11. CASE TakeInterrupt \/ Confused
  BY <1>1, <1>11 DEF TakeInterrupt, Confused, Cancelled, runner, loop, turnsOf
<1>12. CASE Exit
  <2>1. ~stdin /\ exit = "running" /\ UNCHANGED <<stdin, reason, work>>
    BY <1>12 DEF Exit, Leave, runner, loop, turnsOf
  <2> QED
    BY <2>1 DEF AnsweredInv, Answered, Cancelled
<1>13. CASE Killed \/ Crash
  BY <1>13 DEF Killed, Crash, Leave, Answered
<1>14. CASE UNCHANGED vars
  BY <1>1, <1>14 DEF vars, loop, turnsOf, claude, Cancelled
<1> QED
  BY <1>2, <1>3, <1>4, <1>5, <1>6, <1>7, <1>9, <1>10, <1>11, <1>12, <1>13, <1>14
  DEF Next, RunnerStep, ClaudeStep

(* The entries of a sequence t are among those of s, in their order.       *)
Among(t, s) ==
  \A i, j \in DOMAIN t : i < j =>
    \E k, l \in DOMAIN s : k < l /\ t[i] = s[k] /\ t[j] = s[l]

(* What is left of a sequence is among it.                                 *)
LEMMA TailAmong ==
  ASSUME NEW S, NEW s \in Seq(S), s # <<>>
  PROVE  Among(Tail(s), s) /\ \A i \in DOMAIN Tail(s) : \E k \in DOMAIN s : Tail(s)[i] = s[k]
<1>1. \A i \in DOMAIN Tail(s) : i \in Nat /\ i + 1 \in DOMAIN s /\ Tail(s)[i] = s[i + 1]
  BY TailEntries
<1>2. \A i, j \in DOMAIN Tail(s) : i < j => i + 1 < j + 1
  BY <1>1
<1> QED
  BY <1>1, <1>2 DEF Among

(* Nothing the invariant speaks of changes, except that lines are read and *)
(* an interrupt written for work.                                          *)
LEMMA AcceptingKept ==
  ASSUME TypeOK, AcceptingInv, UNCHANGED <<turns, turn, stopping, work>>, Cancelled => Cancelled',
         lines' = lines \/ (lines # <<>> /\ lines' = Tail(lines)),
         \/ UNCHANGED <<inbox, pending>>
         \/ /\ \E x : x.kind # "input" /\ inbox' = Append(inbox, x)
            /\ pending' \in Slash \cup {"steer"}
            /\ pending' \in Slash /\ turns # <<>> => Head(turns).input \in WorkInput
  PROVE  AcceptingInv'
<1>1. lines \in Seq(Line) /\ inbox \in Seq(Message)
  BY DEF TypeOK
<1>2. \A i \in DOMAIN lines' : \E k \in DOMAIN lines : lines'[i] = lines[k]
  BY <1>1, TailAmong
<1>3. \A i, j \in DOMAIN lines' : i < j =>
        \E k, l \in DOMAIN lines : k < l /\ lines'[i] = lines[k] /\ lines'[j] = lines[l]
  <2>1. CASE lines' = lines
    BY <2>1
  <2>2. CASE lines # <<>> /\ lines' = Tail(lines)
    <3>1. Among(lines', lines)
      BY <1>1, <2>2, TailAmong
    <3> QED
      BY <3>1 DEF Among
  <2> QED
    BY <2>1, <2>2
<1>4. /\ pending # "none" => pending' # "none"
      /\ UNCHANGED <<inbox, pending>> \/ pending' # "none"
  BY DEF Slash
<1>5. Singled' /\ Purposed'
  BY DEF AcceptingInv, Singled, Purposed
<1>6. Agreed'
  BY <1>2 DEF AcceptingInv, Agreed
<1>7. Expected'
  <2>1. stopping' => turn' # "none" /\ pending' # "none"
    BY <1>4 DEF AcceptingInv, Expected
  <2>2. \A i \in DOMAIN lines' :
          lines'[i].kind = "result" /\ lines'[i].interrupted => pending' # "none"
    BY <1>2, <1>4 DEF AcceptingInv, Expected
  <2>3. CASE UNCHANGED <<inbox, pending>>
    BY <2>1, <2>2, <2>3 DEF AcceptingInv, Expected
  <2>4. CASE pending' # "none"
    BY <2>1, <2>2, <2>4 DEF Expected
  <2> QED
    BY <1>4, <2>3, <2>4
<1>8. OverWork'
  <2>1. pending' \in Slash /\ turns' # <<>> => Head(turns').input \in WorkInput
    BY DEF AcceptingInv, OverWork
  <2>2. \A i \in DOMAIN lines' :
          lines'[i].kind = "rejection" => turns' # <<>> /\ Head(turns').input \in WorkInput
    BY <1>2 DEF AcceptingInv, OverWork
  <2>3. \A i, j \in DOMAIN lines' :
          i < j /\ lines'[i].kind = "result" => lines'[j].kind # "rejection"
    BY <1>3 DEF AcceptingInv, OverWork
  <2>4. pending' \in Slash \cup {"steer", "none"}
    BY DEF AcceptingInv, OverWork
  <2> QED
    BY <2>1, <2>2, <2>3, <2>4 DEF OverWork
<1>9. Returned'
  <2>1. work' = "interrupted" /\ ~Cancelled' =>
          turns' # <<>> /\ (Head(turns').input \in WorkInput \/ Head(turns').resume \in WorkInput)
    BY DEF AcceptingInv, Returned
  <2>2. \A i \in DOMAIN lines' :
          lines'[i].kind = "result" /\ lines'[i].input \in WorkInput =>
            (lines'[i].interrupted <=> work' = "interrupted")
    BY <1>2 DEF AcceptingInv, Returned
  <2> QED
    BY <2>1, <2>2 DEF Returned
<1> QED
  BY <1>5, <1>6, <1>7, <1>8, <1>9 DEF AcceptingInv

(* A result is read, and no other is left: what follows up on the turn is  *)
(* written, and gives back work that was interrupted.                      *)
LEMMA AcceptingResult ==
  ASSUME TypeOK, SessionInv, AcceptingInv, exit = "running", ReceiveResult
  PROVE  AcceptingInv'
<1>0. /\ lines \in Seq(Line) /\ inbox \in Seq(Message) /\ turns \in Seq(Turn)
      /\ turn \in Input \cup {"none"} /\ pending \in Input \cup {"none"}
  BY DEF TypeOK
<1>1. /\ lines # <<>> /\ Head(lines).kind = "result" /\ lines' = Tail(lines)
      /\ UNCHANGED <<reason, turn, stopping, work>>
  BY DEF ReceiveResult, Receiving
<1>2. 1 \in DOMAIN lines /\ lines[1] = Head(lines)
  BY <1>0, <1>1, TailEntries
<1>3. \A i \in DOMAIN lines' : i \in Nat \ {0} /\ i + 1 \in DOMAIN lines /\ lines'[i] = lines[i + 1]
  BY <1>0, <1>1, TailEntries
<1>4. Matched(lines, turn, inbox, turns) /\ Len(turns) <= 1
  BY DEF SessionInv, AcceptingInv, Singled
<1>5. /\ turn = "none" /\ NoInput(inbox) /\ turns # <<>> /\ Head(turns).input = Head(lines).input
      /\ \A j \in DOMAIN lines : lines[j].kind = "result" => j = 1
  <2>1. /\ turn = "none" /\ NoInput(inbox) /\ turns # <<>>
        /\ Head(turns).input = lines[1].input
        /\ \A j \in DOMAIN lines : lines[j].kind = "result" => j = 1
    BY <1>0, <1>1, <1>2, <1>4, OneTurn
  <2> QED
    BY <1>2, <2>1
<1>6. \A i \in DOMAIN lines' : i + 1 # 1 /\ 1 < i + 1
  BY <1>3
<1>7. NoResult(lines')
  BY <1>3, <1>5, <1>6 DEF NoResult
<1>8. \A i \in DOMAIN lines' : lines'[i].kind # "rejection"
  BY <1>1, <1>2, <1>3, <1>6 DEF AcceptingInv, OverWork
<1>9. ~stopping'
  BY <1>1, <1>5 DEF AcceptingInv, Expected
<1>10. Agreed'
  BY <1>3 DEF AcceptingInv, Agreed
<1>11. Left = <<>>
  <2>1. PICK n \in Nat : n = Len(turns)
    BY <1>0
  <2>2. n # 0
    BY <1>0, <1>5, <2>1, EmptySeq, Zenon
  <2>3. n <= 1
    BY <1>4, <2>1, Zenon
  <2>4. n = 1
    BY <2>2, <2>3
  <2>5. Tail(turns) \in Seq(Turn) /\ Len(Tail(turns)) = 0
    <3>1. Tail(turns) \in Seq(Turn) /\ Len(Tail(turns)) = Len(turns) - 1
      BY <1>0, <1>5, HeadTailProperties, Zenon
    <3> QED
      BY <2>1, <2>4, <3>1
  <2>6. Tail(turns) = <<>>
    BY <2>5, EmptySeq
  <2> QED
    BY <1>5, <2>6 DEF Left
<1>12. pending' = "none"
  BY DEF ReceiveResult
<1>13. ASSUME inbox' = inbox \/ \E x : x.kind = "input" /\ inbox' = Append(inbox, x) PROVE Expected'
  <2>1. ASSUME NEW i \in DOMAIN inbox', inbox'[i].kind = "interrupt", NEW j \in 1..(i - 1)
        PROVE  inbox'[j].kind # "input"
    <3>1. CASE inbox' = inbox
      <4>1. j \in DOMAIN inbox
        BY <1>0, <2>1, <3>1
      <4> QED
        BY <1>5, <3>1, <4>1 DEF NoInput
    <3>2. ASSUME NEW x, x.kind = "input", inbox' = Append(inbox, x) PROVE inbox'[j].kind # "input"
      <4>1. i \in DOMAIN inbox
        BY <1>0, <2>1, <3>2, AppendEntries
      <4>2. j \in DOMAIN inbox
        BY <1>0, <4>1
      <4>3. inbox'[j] = inbox[j]
        BY <1>0, <3>2, <4>2, AppendKeeps
      <4> QED
        BY <1>5, <4>2, <4>3 DEF NoInput
    <3> QED
      BY <1>13, <3>1, <3>2
  <2> QED
    BY <1>1, <1>5, <1>7, <1>9, <2>1 DEF Expected, NoResult
<1>14. OverWork'
  BY <1>7, <1>8, <1>12 DEF OverWork, NoResult, Slash
<1>15. ASSUME NEW t \in Turn, QueueTurn(Left, t), t.purpose = "followup" <=> t.input \in Slash,
              t.resume \in WorkInput \cup {"none"},
              work = "interrupted" /\ ~Cancelled => t.input \in WorkInput \/ t.resume \in WorkInput
       PROVE  AcceptingInv'
  <2>1. CASE stdin
    <3>1. turns' = Append(<<>>, t) /\ inbox' = Append(inbox, InputMessage(t.input))
      BY <1>11, <1>15, <2>1 DEF QueueTurn, CanWrite
    <3>2. turns' # <<>> /\ Head(turns') = t /\ Len(turns') <= 1
      BY <3>1
    <3>3. InputMessage(t.input).kind = "input"
      BY DEF InputMessage
    <3>4. Expected'
      BY <1>13, <3>1, <3>3
    <3>5. Singled' /\ Purposed'
      BY <1>15, <3>2 DEF Singled, Purposed
    <3>6. Returned'
      BY <1>1, <1>7, <1>15, <3>2 DEF Returned, NoResult, Cancelled
    <3> QED
      BY <1>10, <1>14, <3>4, <3>5, <3>6 DEF AcceptingInv
  <2>2. CASE ~stdin
    <3>1. turns' = <<>> /\ inbox' = inbox
      BY <1>11, <1>15, <2>2 DEF QueueTurn, CanWrite
    <3>2. Cancelled /\ Cancelled'
      BY <1>1, <1>5, <2>2 DEF SessionInv, Closed, Cancelled
    <3>3. Len(<<>>) <= 1
      OBVIOUS
    <3>4. Singled' /\ Purposed' /\ Returned'
      BY <1>7, <3>1, <3>2, <3>3 DEF Singled, Purposed, Returned, NoResult
    <3> QED
      BY <1>10, <1>13, <1>14, <3>1, <3>4 DEF AcceptingInv
  <2> QED
    BY <2>1, <2>2 DEF TypeOK
<1>16. Head(turns) \in Turn
  BY <1>0, <1>5
<1>17. Head(lines).interrupted => pending # "none"
  BY <1>1, <1>2 DEF AcceptingInv, Expected
<1>18. work = "interrupted" /\ ~Cancelled =>
         \/ Head(turns).input \in WorkInput /\ Head(lines).interrupted
         \/ Head(turns).input \notin WorkInput /\ Head(turns).resume \in WorkInput
  BY <1>1, <1>2, <1>5 DEF AcceptingInv, Returned
<1>19. CASE pending # "none"
  <2> DEFINE t == FollowUp(pending, Resumed(pending, Head(lines).interrupted))
  <2>1. t \in Turn /\ QueueTurn(Left, t)
    BY <1>19, MessageTypes, LeftTypes DEF ReceiveResult, TypeOK
  <2>2. CASE pending = "steer"
    <3>1. t = WorkTurn("steer")
      BY <2>2 DEF FollowUp
    <3>2. t.purpose = "work" /\ t.input = "steer" /\ t.resume = "none"
      BY <3>1 DEF WorkTurn
    <3> HIDE DEF t
    <3> QED
      BY <1>15, <2>1, <3>2 DEF WorkInput, Slash
  <2>3. CASE pending \in Slash
    <3>1. /\ t.purpose = "followup" /\ t.input = pending
          /\ t.resume = Resumed(pending, Head(lines).interrupted)
      BY <2>3 DEF FollowUp, Slash
    <3>2. Head(turns).input \in WorkInput
      BY <1>5, <2>3 DEF AcceptingInv, OverWork
    <3>3. t.resume = IF Head(lines).interrupted THEN Head(turns).input ELSE "none"
      BY <1>5, <2>3, <3>1 DEF Resumed
    <3> HIDE DEF t
    <3> QED
      BY <1>15, <1>18, <2>1, <2>3, <3>1, <3>2, <3>3
  <2>4. pending = "steer" \/ pending \in Slash
    BY <1>19 DEF AcceptingInv, OverWork
  <2> QED
    BY <2>2, <2>3, <2>4
<1>20. CASE pending = "none" /\ Head(turns).resume # "none"
  <2> DEFINE r == Head(turns).resume
             t == WorkTurn(r)
  <2>1. QueueTurn(Left, t)
    BY <1>5, <1>20 DEF ReceiveResult
  <2>2. r \in WorkInput
    BY <1>5, <1>20 DEF AcceptingInv, Purposed
  <2>3. t \in Turn
    BY <2>2, MessageTypes
  <2>4. t.purpose = "work" /\ t.input = r /\ t.resume = "none"
    BY DEF WorkTurn
  <2>5. r \notin Slash
    BY <2>2 DEF WorkInput, Slash
  <2> HIDE DEF t, r
  <2> QED
    BY <1>15, <2>1, <2>2, <2>3, <2>4, <2>5
<1>21. CASE pending = "none" /\ Head(turns).resume = "none"
  <2>1. turns' = <<>> /\ inbox' = inbox
    BY <1>5, <1>11, <1>21 DEF ReceiveResult, NothingQueued
  <2>2. ~(work = "interrupted" /\ ~Cancelled)
    BY <1>17, <1>18, <1>21 DEF WorkInput
  <2>3. Len(<<>>) <= 1
    OBVIOUS
  <2>4. Singled' /\ Purposed' /\ Returned'
    BY <1>1, <1>7, <2>1, <2>2, <2>3 DEF Singled, Purposed, Returned, NoResult, Cancelled
  <2> QED
    BY <1>10, <1>13, <1>14, <2>1, <2>4 DEF AcceptingInv
<1> QED
  BY <1>19, <1>20, <1>21

(* Claude begins with a turn: nothing is interrupted, nothing else waited  *)
(* for.                                                                    *)
LEMMA AcceptingBegun ==
  ASSUME TypeOK, SessionInv, AcceptingInv, Begin
  PROVE  AcceptingInv'
<1>0. lines \in Seq(Line) /\ inbox \in Seq(Message) /\ turns \in Seq(Turn)
      /\ turn \in Input \cup {"none"}
  BY DEF TypeOK
<1>1. /\ exit = "running" /\ turn = "none" /\ inbox # <<>> /\ Head(inbox).kind = "input"
      /\ inbox' = Tail(inbox) /\ work' \in {"asked", work}
      /\ UNCHANGED <<turns, pending, reason, stopping, lines>>
  BY DEF Begin, runner, loop, turnsOf, interrupt
<1>2. /\ 1 \in DOMAIN inbox /\ inbox[1] = Head(inbox)
      /\ \A i \in DOMAIN inbox' :
           i \in Nat \ {0} /\ i + 1 \in DOMAIN inbox /\ inbox'[i] = inbox[i + 1]
  BY <1>0, <1>1, TailEntries
<1>3. ~NoInput(inbox)
  BY <1>1, <1>2 DEF NoInput
<1>4. NoResult(lines)
  BY <1>0, <1>1, <1>3, OneTurn DEF SessionInv, AcceptingInv, Singled
<1>5. ASSUME NEW i \in DOMAIN inbox', inbox'[i].kind = "interrupt" PROVE pending' # "none"
  <2>1. i + 1 \in DOMAIN inbox /\ inbox[i + 1].kind = "interrupt" /\ 1 \in 1..((i + 1) - 1)
    BY <1>2, <1>5
  <2> QED
    BY <1>1, <1>2, <2>1 DEF AcceptingInv, Expected
<1>6. ~stopping'
  BY <1>1 DEF AcceptingInv, Expected
<1>7. Expected'
  BY <1>1, <1>4, <1>5, <1>6 DEF Expected, NoResult
<1>8. Returned'
  BY <1>1, <1>4 DEF AcceptingInv, Returned, NoResult, Cancelled
<1> QED
  BY <1>1, <1>7, <1>8 DEF AcceptingInv, Singled, Purposed, Agreed, OverWork

(* Claude reads an interrupt: the turn it stops is one whose follow-up is  *)
(* pending.                                                                *)
LEMMA AcceptingInterrupted ==
  ASSUME TypeOK, AcceptingInv, launcher = "accepting", TakeInterrupt
  PROVE  AcceptingInv'
<1>0. lines \in Seq(Line) /\ inbox \in Seq(Message)
  BY DEF TypeOK
<1>1. PICK p \in DOMAIN inbox :
        /\ FirstInterrupt(p) /\ inbox' = Read(p)
        /\ lines' = Append(lines, Response(inbox[p].id, TRUE))
  BY DEF TakeInterrupt
<1>2. (stopping' => turn # "none") /\ UNCHANGED <<turns, pending, reason, turn, work>>
  BY DEF TakeInterrupt, runner, loop, turnsOf, interrupt
<1>3. inbox[p].kind = "interrupt"
  BY <1>1 DEF FirstInterrupt
<1> DEFINE x == Response(inbox[p].id, TRUE)
<1>4. x.kind = "response" /\ x.ok
  BY DEF Response
<1>a. lines' = Append(lines, x)
  BY <1>1
<1> HIDE DEF x
<1>5. \A i \in DOMAIN lines' :
        \/ i \in DOMAIN lines /\ lines'[i] = lines[i]
        \/ i = Len(lines) + 1 /\ lines'[i] = x
  BY <1>0, <1>a, AppendEntries
<1>6. /\ Len(inbox) \in Nat /\ p \in 1..Len(inbox) /\ DOMAIN inbox = 1..Len(inbox)
      /\ DOMAIN inbox' = 1..(Len(inbox) - 1)
      /\ \A i \in 1..(Len(inbox) - 1) : inbox'[i] = (IF i < p THEN inbox[i] ELSE inbox[i + 1])
  <2>1. /\ inbox' \in Seq(Message) /\ Len(inbox') = Len(inbox) - 1
        /\ \A i \in 1..Len(inbox') : inbox'[i] = (IF i < p THEN inbox[i] ELSE inbox[i + 1])
    BY <1>0, <1>1, WithoutEntry, Zenon DEF Read
  <2> QED
    BY <1>0, <2>1
<1>7. \A i \in DOMAIN inbox' :
        /\ i \in Nat /\ inbox'[i] = inbox[IF i < p THEN i ELSE i + 1]
        /\ (IF i < p THEN i ELSE i + 1) \in DOMAIN inbox
  BY <1>6
<1>8. ASSUME NEW i \in DOMAIN inbox', inbox'[i].kind = "interrupt",
             turn # "none" \/ \E j \in 1..(i - 1) : inbox'[j].kind = "input"
      PROVE  pending # "none"
  <2> DEFINE k == IF i < p THEN i ELSE i + 1
  <2>1. k \in DOMAIN inbox /\ inbox[k].kind = "interrupt"
    BY <1>7, <1>8
  <2>2. CASE turn # "none"
    BY <2>1, <2>2 DEF AcceptingInv, Expected
  <2>3. ASSUME NEW j \in 1..(i - 1), inbox'[j].kind = "input" PROVE pending # "none"
    <3> DEFINE l == IF j < p THEN j ELSE j + 1
    <3>1. j \in DOMAIN inbox' /\ l \in 1..(k - 1)
      BY <1>6, <1>7
    <3>2. inbox[l].kind = "input"
      BY <1>7, <2>3, <3>1
    <3> HIDE DEF k, l
    <3> QED
      BY <2>1, <3>1, <3>2 DEF AcceptingInv, Expected
  <2> QED
    BY <1>8, <2>2, <2>3
<1>9. stopping' => pending # "none"
  BY <1>2, <1>3 DEF AcceptingInv, Expected
<1>10. Expected'
  <2>1. \A i \in DOMAIN lines' :
          lines'[i].kind = "result" /\ lines'[i].interrupted => pending' # "none"
    BY <1>2, <1>4, <1>5 DEF AcceptingInv, Expected
  <2> QED
    BY <1>2, <1>8, <1>9, <2>1 DEF Expected
<1>11. Agreed'
  BY <1>4, <1>5 DEF AcceptingInv, Agreed
<1>12. OverWork'
  <2>1. \A i \in DOMAIN lines : i < Len(lines) + 1 /\ i \in Nat /\ Len(lines) \in Nat
    BY <1>0
  <2>2. \A i, j \in DOMAIN lines' :
          i < j /\ lines'[i].kind = "result" => lines'[j].kind # "rejection"
    BY <1>4, <1>5, <2>1 DEF AcceptingInv, OverWork
  <2>3. \A i \in DOMAIN lines' :
          lines'[i].kind = "rejection" => turns' # <<>> /\ Head(turns').input \in WorkInput
    BY <1>2, <1>4, <1>5 DEF AcceptingInv, OverWork
  <2> QED
    BY <1>2, <2>2, <2>3 DEF AcceptingInv, OverWork
<1>13. Returned'
  <2>1. \A i \in DOMAIN lines' :
          lines'[i].kind = "result" /\ lines'[i].input \in WorkInput =>
            (lines'[i].interrupted <=> work' = "interrupted")
    BY <1>2, <1>4, <1>5 DEF AcceptingInv, Returned
  <2> QED
    BY <1>2, <2>1 DEF AcceptingInv, Returned, Cancelled
<1> QED
  BY <1>2, <1>10, <1>11, <1>12, <1>13 DEF AcceptingInv, Singled, Purposed

(* Claude ends its turn, or says that it is confused: the turn is the one  *)
(* waited for, and no result has been written.                             *)
LEMMA AcceptingAtWork ==
  ASSUME TypeOK, SessionInv, AcceptingInv, exit = "running", turn # "none"
  PROVE  turns # <<>> /\ Head(turns).input = turn /\ NoResult(lines) /\ NoInput(inbox)
BY OneTurn DEF TypeOK, SessionInv, AcceptingInv, Singled

(* The result of an interrupted turn comes with its follow-up pending.     *)
LEMMA AcceptingEnded ==
  ASSUME TypeOK, SessionInv, AcceptingInv, NEW interrupted \in BOOLEAN, EndTurn(interrupted)
  PROVE  AcceptingInv'
<1>0. lines \in Seq(Line) /\ inbox \in Seq(Message)
  BY DEF TypeOK
<1>1. /\ exit = "running" /\ turn # "none" /\ (interrupted => stopping)
      /\ lines' = Append(lines, Result(turn, interrupted)) /\ turn' = "none" /\ ~stopping'
      /\ UNCHANGED <<turns, pending, reason, inbox>>
  BY DEF EndTurn, runner, loop, turnsOf, interrupt
<1>2. turns # <<>> /\ Head(turns).input = turn /\ NoResult(lines) /\ NoInput(inbox)
  BY <1>1, AcceptingAtWork
<1> DEFINE x == Result(turn, interrupted)
<1>3. x.kind = "result" /\ x.input = turn /\ x.interrupted = interrupted
  BY DEF Result
<1> HIDE DEF x
<1>4. \A i \in DOMAIN lines' :
        \/ i \in DOMAIN lines /\ lines'[i] = lines[i]
        \/ i = Len(lines) + 1 /\ lines'[i] = x
  BY <1>0, <1>1, AppendEntries DEF x
<1>5. Expected'
  <2>1. \A i \in DOMAIN inbox : \A j \in 1..(i - 1) : j \in DOMAIN inbox
    BY <1>0
  <2>2. interrupted => pending # "none"
    BY <1>1 DEF AcceptingInv, Expected
  <2> QED
    BY <1>1, <1>2, <1>3, <1>4, <2>1, <2>2 DEF Expected, NoResult, NoInput
<1>6. Agreed'
  BY <1>3, <1>4 DEF AcceptingInv, Agreed
<1>7. OverWork'
  <2>1. \A i \in DOMAIN lines : i < Len(lines) + 1 /\ i \in Nat /\ Len(lines) \in Nat
    BY <1>0
  <2>2. \A i, j \in DOMAIN lines' :
          i < j /\ lines'[i].kind = "result" => lines'[j].kind # "rejection"
    BY <1>2, <1>3, <1>4, <2>1 DEF NoResult
  <2> QED
    BY <1>1, <1>3, <1>4, <2>2 DEF AcceptingInv, OverWork
<1>8. work' = IF turn \notin WorkInput THEN work
              ELSE IF interrupted THEN "interrupted" ELSE "answered"
  BY DEF EndTurn
<1>9. Returned'
  <2>1. \A i \in DOMAIN lines' :
          lines'[i].kind = "result" /\ lines'[i].input \in WorkInput =>
            (lines'[i].interrupted <=> work' = "interrupted")
    BY <1>2, <1>3, <1>4, <1>8 DEF NoResult
  <2>2. work' = "interrupted" /\ ~Cancelled' =>
          turns' # <<>> /\ (Head(turns').input \in WorkInput \/ Head(turns').resume \in WorkInput)
    BY <1>1, <1>2, <1>8 DEF AcceptingInv, Returned, Cancelled
  <2> QED
    BY <2>1, <2>2 DEF Returned
<1> QED
  BY <1>1, <1>5, <1>6, <1>7, <1>9 DEF AcceptingInv, Singled, Purposed

(* Only work is called confused, and before its result.                    *)
LEMMA AcceptingConfused ==
  ASSUME TypeOK, SessionInv, AcceptingInv, Confused
  PROVE  AcceptingInv'
<1>0. lines \in Seq(Line)
  BY DEF TypeOK
<1>1. /\ exit = "running" /\ turn \in WorkInput /\ lines' = Append(lines, Rejection)
      /\ UNCHANGED <<turns, pending, reason, inbox, turn, stopping, work>>
  BY DEF Confused, runner, loop, turnsOf, interrupt
<1>2. turns # <<>> /\ Head(turns).input = turn /\ NoResult(lines)
  BY <1>1, AcceptingAtWork DEF WorkInput
<1>3. Rejection.kind = "rejection"
  BY DEF Rejection
<1>4. \A i \in DOMAIN lines' :
        \/ i \in DOMAIN lines /\ lines'[i] = lines[i]
        \/ i = Len(lines) + 1 /\ lines'[i] = Rejection
  BY <1>0, <1>1, AppendEntries
<1>5. NoResult(lines')
  BY <1>2, <1>3, <1>4 DEF NoResult
<1>6. Expected'
  BY <1>1, <1>5 DEF AcceptingInv, Expected, NoResult
<1>7. Agreed'
  BY <1>3, <1>4 DEF AcceptingInv, Agreed
<1>8. OverWork'
  BY <1>1, <1>2, <1>5 DEF AcceptingInv, OverWork, NoResult
<1>9. Returned'
  BY <1>1, <1>5 DEF AcceptingInv, Returned, NoResult, Cancelled
<1> QED
  BY <1>1, <1>6, <1>7, <1>8, <1>9 DEF AcceptingInv, Singled, Purposed

(* Every step keeps what holds for a launcher that accepts interrupts.     *)
LEMMA AcceptingStep ==
  ASSUME Overlapping = FALSE, TypeOK, StopInv, SessionInv, AnsweredInv, [Next]_vars, Accepting'
  PROVE  AcceptingInv'
<1>0. /\ lines \in Seq(Line) /\ inbox \in Seq(Message) /\ turns \in Seq(Turn)
      /\ turns # <<>> => Head(turns) \in Turn
  BY LeftTypes DEF TypeOK
<1>1. CASE Start
  <2>1. /\ exit = "running" /\ launcher = "accepting" /\ phase = "start"
        /\ UNCHANGED <<pending, turn, stopping, lines, work>>
    BY <1>1 DEF Start, Accepting, interrupt, dashboard
  <2>2. stdin /\ turn = "none" /\ lines = <<>> /\ pending = "none"
    BY <2>1 DEF SessionInv, Unstarted
  <2>3. inbox' = <<InputMessage("stage")>> /\ turns' = <<WorkTurn("stage")>>
    BY <1>1, <2>1, <2>2 DEF Start, CanWrite
  <2>4. /\ turns' # <<>> /\ Len(turns') = 1 /\ Head(turns') = WorkTurn("stage")
        /\ \A i \in DOMAIN inbox' : inbox'[i].kind # "interrupt"
    BY <2>3 DEF InputMessage
  <2>5. ~stopping
    BY <2>1, <2>2 DEF AnsweredInv, Accepting, AcceptingInv, Expected
  <2>6. DOMAIN lines' = {}
    BY <2>1, <2>2
  <2>7. Singled' /\ Purposed'
    BY <2>4 DEF Singled, Purposed, WorkTurn, Slash
  <2>8. Agreed' /\ Expected'
    BY <2>1, <2>4, <2>5, <2>6 DEF Agreed, Expected
  <2>9. OverWork' /\ Returned'
    BY <2>1, <2>2, <2>4, <2>6 DEF OverWork, Returned, Slash, WorkTurn, WorkInput
  <2> QED
    BY <2>7, <2>8, <2>9 DEF AcceptingInv
<1>2. CASE ReceiveRejection
  <2>1. /\ exit = "running" /\ launcher = "accepting" /\ lines # <<>> /\ lines' = Tail(lines)
        /\ Head(lines).kind = "rejection" /\ UNCHANGED <<turns, turn, stopping, work, reason>>
    BY <1>2 DEF ReceiveRejection, Receiving, Accepting, dashboard
  <2>2. AcceptingInv
    BY <2>1 DEF AnsweredInv, Accepting
  <2>3. turns # <<>> /\ Head(turns).input \in WorkInput
    BY <1>0, <2>1, <2>2, TailEntries DEF AcceptingInv, OverWork
  <2>4. \/ UNCHANGED <<inbox, pending>>
        \/ inbox' = Append(inbox, Interrupt(request + 1)) /\ pending' = "compact"
    BY <1>2 DEF ReceiveRejection, QueueInterrupt, interrupt
  <2>5. Interrupt(request + 1).kind # "input"
    BY DEF Interrupt
  <2> QED
    BY <2>1, <2>2, <2>3, <2>4, <2>5, AcceptingKept DEF Cancelled, Slash
<1>3. CASE ReceiveResult
  <2>1. exit = "running" /\ launcher = "accepting"
    BY <1>3 DEF ReceiveResult, Receiving, Accepting, dashboard
  <2> QED
    BY <1>3, <2>1, AcceptingResult DEF AnsweredInv, Accepting
<1>4. CASE ReceiveResponse
  <2>1. /\ exit = "running" /\ launcher = "accepting" /\ lines # <<>> /\ lines' = Tail(lines)
        /\ Head(lines).kind = "response" /\ UNCHANGED <<turn, stopping, work, reason>>
    BY <1>4 DEF ReceiveResponse, Receiving, Accepting, dashboard
  <2>2. AcceptingInv
    BY <2>1 DEF AnsweredInv, Accepting
  <2>3. Head(lines).ok
    BY <1>0, <2>1, <2>2, TailEntries DEF AcceptingInv, Agreed
  <2>4. UNCHANGED <<turns, inbox, pending>>
    BY <1>4, <2>3 DEF ReceiveResponse, NothingQueued
  <2> QED
    BY <2>1, <2>2, <2>4, AcceptingKept DEF Cancelled
<1>5. ASSUME NEW action \in Slash \cup {"steer"}, InterruptKey(action) PROVE AcceptingInv'
  <2>1. /\ exit = "running" /\ launcher = "accepting"
        /\ UNCHANGED <<turns, turn, stopping, lines, work, reason>>
    BY <1>5 DEF InterruptKey, Accepting, turnsOf
  <2>2. AcceptingInv
    BY <2>1 DEF AnsweredInv, Accepting
  <2>3. \/ UNCHANGED <<inbox, pending>>
        \/ inbox' = Append(inbox, Interrupt(request + 1)) /\ pending' = action
    BY <1>5 DEF InterruptKey, QueueInterrupt, interrupt
  <2>4. ASSUME action \in Slash, turns # <<>> PROVE Head(turns).input \in WorkInput
    <3>1. ~UnderWay
      BY <1>5, <2>4 DEF InterruptKey, Pressed, Slash
    <3>2. Head(turns).input \notin Slash
      BY <1>0, <2>2, <2>4, <3>1 DEF UnderWay, AcceptingInv, Purposed
    <3> QED
      BY <1>0, <2>4, <3>2 DEF Turn, Input
  <2>5. Interrupt(request + 1).kind # "input"
    BY DEF Interrupt
  <2>6. \/ UNCHANGED <<inbox, pending>>
        \/ /\ \E x : x.kind # "input" /\ inbox' = Append(inbox, x)
           /\ pending' \in Slash \cup {"steer"}
           /\ pending' \in Slash /\ turns # <<>> => Head(turns).input \in WorkInput
    BY <2>3, <2>4, <2>5
  <2>7. UNCHANGED <<turns, turn, stopping, work>> /\ (Cancelled => Cancelled')
    BY <2>1 DEF Cancelled
  <2>8. lines' = lines \/ (lines # <<>> /\ lines' = Tail(lines))
    BY <2>1
  <2> QED
    BY <2>2, <2>6, <2>7, <2>8, AcceptingKept
<1>6. CASE ReceiveNothing \/ NoKey \/ Close \/ Expire \/ StopKey \/ GraceOver \/ UNCHANGED vars
  <2>1. /\ exit = "running" /\ launcher = "accepting"
        /\ UNCHANGED <<turns, pending, inbox, turn, stopping, lines, work>>
    BY <1>6
    DEF ReceiveNothing, NoKey, Close, Expire, StopKey, GraceOver, Accepting, vars, turnsOf,
        interrupt, dashboard, claude
  <2>2. Cancelled => Cancelled'
    BY <1>6
    DEF ReceiveNothing, NoKey, Close, Expire, StopKey, Serving, GraceOver, Cancelled, vars, loop
  <2>3. AcceptingInv
    BY <2>1 DEF AnsweredInv, Accepting
  <2>4. UNCHANGED <<turns, turn, stopping, work>> /\ UNCHANGED <<inbox, pending>>
    BY <2>1
  <2>5. lines' = lines \/ (lines # <<>> /\ lines' = Tail(lines))
    BY <2>1
  <2> QED
    BY <2>2, <2>3, <2>4, <2>5, AcceptingKept
<1>7. CASE Disconnected
  BY <1>7 DEF Disconnected, Accepting, claude
<1>8. CASE Begin \/ TakeInterrupt \/ (\E interrupted \in BOOLEAN : EndTurn(interrupted)) \/ Confused
  <2>1. exit = "running" /\ launcher = "accepting"
    BY <1>8 DEF Begin, TakeInterrupt, EndTurn, Confused, Accepting, runner, dashboard
  <2>2. AcceptingInv
    BY <2>1 DEF AnsweredInv, Accepting
  <2> QED
    BY <1>8, <2>1, <2>2, AcceptingBegun, AcceptingInterrupted, AcceptingEnded, AcceptingConfused
<1>9. CASE Exit \/ Killed \/ Crash
  BY <1>9 DEF Exit, Killed, Crash, Leave, Accepting
<1> QED
  BY <1>1, <1>2, <1>3, <1>4, <1>5, <1>6, <1>7, <1>8, <1>9 DEF Next, RunnerStep, ClaudeStep

(* A command that ends by itself has answered the stage command or the     *)
(* steering that replaced it, whatever the launcher does with interrupts   *)
(* and however many turns are interrupted, if the slash commands of one    *)
(* stream do not overlap.                                                  *)
THEOREM CommandAnsweredHolds ==
  ASSUME Overlapping = FALSE
  PROVE  Spec => []CommandAnswered
<1>1. TypeOK /\ StopInv /\ SessionInv /\ AnsweredInv /\ [Next]_vars => AnsweredInv'
  <2> SUFFICES ASSUME TypeOK, StopInv, SessionInv, AnsweredInv, [Next]_vars PROVE AnsweredInv'
    OBVIOUS
  <2>1. Accepting' => AcceptingInv'
    BY AcceptingStep
  <2>2. Uninterrupted' /\ Remaining' /\ Answered'
    BY UninterruptedStep, RemainingStep, AnsweredStep DEF AnsweredInv
  <2> QED
    BY <2>1, <2>2 DEF AnsweredInv
<1>2. TypeOK /\ StopInv /\ AnsweredInv => CommandAnswered
  <2> SUFFICES ASSUME TypeOK, StopInv, AnsweredInv, outcome = "output", exit = "success"
               PROVE  work = "answered"
    BY DEF CommandAnswered
  <2>1. ~Cancelled
    BY ReasonsAssumption DEF TypeOK, Reason, StopInv, OutcomeIsReason, Cancelled
  <2> QED
    BY <2>1 DEF AnsweredInv, Answered
<1> QED
  BY <1>1, <1>2, InitAnswered, SessionTypes, StopHolds, SessionHolds, PTL DEF Spec
=============================================================================
