----------------------------- MODULE MCDelivery -----------------------------
(***************************************************************************)
(* The delivery of changes: the stages of a run, the review of its inputs    *)
(* that comes first, and what a passed Verify is worth afterwards.  A         *)
(* behaviour of each is examined with the others at rest.                     *)
(***************************************************************************)
EXTENDS MCWorkflow, Preflight, Handoff

VARIABLE subject

(* The initial values of what is at rest are fixed; so is the version of the *)
(* inputs a behaviour starts with, for the sound ones are interchangeable.    *)
DeliveryInit ==
  /\ subject \in {"stages", "inputs", "handoff"}
  /\ Init /\ PreflightInit /\ HandoffInit
  /\ subject # "stages" =>
       run = [kind |-> "change", gate |-> FALSE, yolo |-> FALSE] /\ owed = "review"
  /\ supplied = CHOOSE s \in Supplied : s.inputs \in SoundInputs
  /\ subject # "handoff" => tree = CHOOSE t \in Products : TRUE

DeliveryNext ==
  /\ UNCHANGED subject
  /\ \/ subject = "stages" /\ Next /\ UNCHANGED <<preflight, handoff>>
     \/ subject = "inputs" /\ PreflightNext /\ UNCHANGED <<vars, handoff>>
     \/ subject = "handoff" /\ HandoffNext /\ UNCHANGED <<vars, preflight>>

everything == <<subject, vars, preflight, handoff>>

Fairly(A) == subject = "stages" /\ A /\ UNCHANGED <<subject, preflight, handoff>>

(* The fairness of Workflow's FairSpec.                                      *)
DeliverySpec ==
  /\ DeliveryInit /\ [][DeliveryNext]_everything
  /\ WF_everything(Fairly(LoopStep))
  /\ WF_everything(Fairly(VerdictStep))
  /\ WF_everything(Fairly(SessionEnds))

DeliveryTypeOK ==
  /\ subject = "stages" => TypeOK
  /\ subject = "inputs" => PreflightTypeOK
  /\ subject = "handoff" => HandoffTypeOK

(* RunEnds, of the behaviours that are about the stages: no run loops forever, *)
(* it stops for the operator, escalates or is reported.                       *)
DeliveryEnds == subject = "stages" /\ AtWork ~> AtRest
=============================================================================
