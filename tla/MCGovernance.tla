---------------------------- MODULE MCGovernance ----------------------------
(***************************************************************************)
(* What governs a campaign: its operating policy, and the assignment of the *)
(* supplied work.  They share nothing, so a behaviour of each is examined   *)
(* with the other at rest.                                                  *)
(***************************************************************************)
EXTENDS OperatingPolicy, Assignments

VARIABLE subject

(* Two slices and a part of the first; one obligation, which the builder has *)
(* to test.                                                                 *)
D1 == [ordinal |-> <<1>>, slug |-> 1]
D11 == [ordinal |-> <<1, 1>>, slug |-> 2]
D2 == [ordinal |-> <<2>>, slug |-> 3]
MCDeliveries == {D1, D11, D2}
MCFinal == [ordinal |-> <<9999>>, slug |-> 9]
MCGoverns == [a \in {"test"} |-> {"work"}]

Plan(slices, wants, lead, helping, testing) ==
  [slices |-> slices,
   requires |-> [s \in slices |-> CASE wants = "none" -> {}
                                   [] wants = "self" -> {s}
                                   [] wants = "all" -> {t \in slices : Before(t, s)}],
   accountable |-> [o \in {"work"} |-> lead],
   contributors |-> [o \in {"work"} |-> helping],
   routes |-> [a \in {"test"} |-> testing]]

(* Sound records, and records with a slice that waits for itself, with a test *)
(* left to the terminal slice and with a slice that has no work.              *)
MCPlans ==
  {Plan({D1}, wants, D1, {}, {D1}) : wants \in {"all", "self"}}
    \cup {Plan({D1, D2}, "all", o, {D1} \ {o}, t) : o \in {D1, D2},
                                                   t \in {{D1, D2}, {MCFinal}}}
    \cup {Plan(MCDeliveries, "all", o, {D1, D11} \ {o}, {D1, D2}) : o \in MCDeliveries}
    \cup {Plan({D1, D2}, "none", D2, {D1}, {D1, D2}),
          Plan(MCDeliveries, "none", D2, {D11}, {D1, D2})}

GovernanceInit ==
  /\ subject \in {"policy", "agenda"}
  /\ Init /\ AssignmentsInit
  /\ subject # "agenda" => plan = Plan({D1}, "all", D1, {}, {D1})

GovernanceNext ==
  /\ UNCHANGED subject
  /\ \/ subject = "policy" /\ Next /\ UNCHANGED assignments
     \/ subject = "agenda" /\ AssignmentsNext /\ UNCHANGED vars

everything == <<subject, vars, assignments>>

(* The fairness of OperatingPolicy's FairSpec.                               *)
GovernanceSpec ==
  /\ GovernanceInit /\ [][GovernanceNext]_everything
  /\ WF_everything(subject = "policy" /\ OwnerStep /\ UNCHANGED <<subject, assignments>>)

GovernanceTypeOK == TypeOK /\ (subject = "agenda" => AssignmentsTypeOK)
=============================================================================
