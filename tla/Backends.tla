------------------------------ MODULE Backends ------------------------------
(***************************************************************************)
(* An invocation on the backend it was configured for: the loop of         *)
(* Invocation, whose attempts and compactions are those of OpenCodeTurn,   *)
(* CodexTurn or, for Claude, any result (see StreamSession).               *)
(***************************************************************************)
EXTENDS OpenCodeTurn, CodexTurn

backends == <<invocation, openCode, codex>>

BackendsTypeOK == TypeOfInvocation /\ TypeOfOpenCode /\ TypeOfCodex

BackendsInit == InvocationInit /\ OpenCodeInit /\ CodexInit

(* What a server does once the invocation has ended is not followed.         *)
LoopStep == Loop /\ UNCHANGED <<openCode, codex>>
UserStep == BackoffControl /\ UNCHANGED <<openCode, codex>>
ClockStep == Tick /\ UNCHANGED <<openCode, codex>>
ClaudeStep == ClaudeNext /\ UNCHANGED <<openCode, codex>>
OpenCodeStep == OpenCodeRunner /\ UNCHANGED codex
OpenCodeServerStep == step # "ended" /\ OpenCodeServer /\ UNCHANGED codex
CodexStep == CodexRunner /\ UNCHANGED openCode
AppServerStep == step # "ended" /\ (AppServer \/ AppServerEnds \/ AppServerCompacts) /\ UNCHANGED openCode

BackendsNext ==
  LoopStep \/ UserStep \/ ClockStep \/ ClaudeStep \/ OpenCodeStep \/ OpenCodeServerStep
    \/ CodexStep \/ AppServerStep

(* The runner's own steps are taken, and an attempt that nothing else ends   *)
(* is stopped by the policy, whose allowance of active time runs out.  An    *)
(* invocation has one backend, so these stand for fairness of each of them.  *)
OwnStep ==
  \/ ClaudeCompacts /\ UNCHANGED <<openCode, codex>>
  \/ (OcPrepare \/ OcSubmit \/ OcRead) /\ UNCHANGED codex
  \/ (CxStart \/ CxRead \/ CxCompact) /\ UNCHANGED openCode

StopStep ==
  \/ ClaudeStopped /\ UNCHANGED <<openCode, codex>>
  \/ OcStops /\ UNCHANGED codex
  \/ (CxStops \/ CxReadCompaction) /\ UNCHANGED openCode

BackendsSpec ==
  /\ BackendsInit /\ [][BackendsNext]_backends
  /\ WF_backends(LoopStep) /\ WF_backends(ClockStep)
  /\ WF_backends(OwnStep) /\ WF_backends(StopStep)
-----------------------------------------------------------------------------
(* No late event of an earlier input, turn or compaction is taken for the    *)
(* answer to the present one, on either server (opencode.rs:632, codex.rs).  *)
AnswersMatch == AnswerOfInput /\ AnswerOfTurn
=============================================================================
