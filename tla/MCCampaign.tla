----------------------------- MODULE MCCampaign -----------------------------
(***************************************************************************)
(* A campaign, one invocation of a backend in it, and the keys of its       *)
(* dashboard.  The three modules share no variable, so a behaviour of each  *)
(* is examined with the others at rest.                                     *)
(*                                                                         *)
(* Three slices, the last the terminal one: agendas with none of them, with *)
(* the gate alone, or with one slice before it; the second slice may turn   *)
(* up as a part of the first or as a remediation.                           *)
(***************************************************************************)
EXTENDS Campaign, Backends, Dashboard

VARIABLE subject

One == [ordinal |-> <<1>>, slug |-> 1]
Between == [ordinal |-> <<1, 1>>, slug |-> 2]
Gate9 == [ordinal |-> <<9>>, slug |-> 3]

MCSlices == {One, Between, Gate9}
MCAgendas == {{}, {Gate9}, {One, Gate9}}
MCLimits == {0, 1}

(* What the protocols differ in, an answer that is incomplete or missing, is    *)
(* no matter of the servers' or the clock's: with the servers, Ready is left    *)
(* to Claude and Verify is not timed.                                        *)
Representative == protocol # "Ready" /\ (timed => protocol # "Verify")

Init ==
  /\ subject \in {"campaign", "invocation", "keys"}
  /\ CampaignInit /\ BackendsInit /\ DashboardInit
  /\ subject # "campaign" => agenda = {}
  /\ subject # "invocation" => backend = "claude" /\ protocol = "Preflight"
  /\ subject # "keys" => runner.localOnly
  /\ backend # "claude" => Representative

MCNext ==
  /\ UNCHANGED subject
  /\ \/ subject = "campaign" /\ CampaignNext /\ UNCHANGED <<backends, dashboard>>
     \/ subject = "invocation" /\ BackendsNext /\ UNCHANGED <<campaign, dashboard>>
     \/ subject = "keys" /\ DashboardNext /\ UNCHANGED <<campaign, backends>>

Campaigning == subject = "campaign"
Invoking == subject = "invocation"

(* The fairness of CampaignSpec and of BackendsSpec.                         *)
Spec ==
  /\ Init /\ [][MCNext]_<<subject, campaign, backends, dashboard>>
  /\ WF_campaign(Campaigning /\ Runner)
  /\ WF_backends(Invoking /\ LoopStep) /\ WF_backends(Invoking /\ ClockStep)
  /\ WF_backends(Invoking /\ OwnStep) /\ WF_backends(Invoking /\ StopStep)

MCTypeOK == CampaignTypeOK /\ BackendsTypeOK /\ DashboardTypeOK

(* Whatever the backend, the provider and the user do, an invocation ends:   *)
(* its retries, continuations and compactions are used up, or the policy     *)
(* refuses the next request.                                                *)
InvocationEnds == []<>(Invoking => step = "ended")
=============================================================================
