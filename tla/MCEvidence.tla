----------------------------- MODULE MCEvidence -----------------------------
(***************************************************************************)
(* What one run leaves behind: its check receipts, its review trend and its *)
(* token accounts.  They share nothing, so a behaviour of each is examined  *)
(* with the others at rest.                                                 *)
(***************************************************************************)
EXTENDS CheckReceipts, ReviewTrend, UsageAccounting

VARIABLE subject

Init ==
  /\ subject \in {"checks", "reviews", "tokens"}
  /\ ChecksInit /\ TrendInit /\ UsageInit
  /\ subject # "tokens" => backend = "claude"

Next ==
  /\ UNCHANGED subject
  /\ \/ subject = "checks" /\ ChecksNext /\ UNCHANGED <<trend, accounts>>
     \/ subject = "reviews" /\ TrendNext /\ UNCHANGED <<checks, accounts>>
     \/ subject = "tokens" /\ UsageNext /\ UNCHANGED <<checks, trend>>

Spec == Init /\ [][Next]_<<subject, checks, trend, accounts>>

EvidenceTypeOK ==
  /\ subject = "checks" => ChecksTypeOK
  /\ subject = "reviews" => TrendTypeOK
  /\ subject = "tokens" => UsageTypeOK

Interchangeable ==
  Permutations(Helpers) \cup Permutations(Versions) \cup Permutations(Sessions)
    \cup Permutations(Models)
=============================================================================
