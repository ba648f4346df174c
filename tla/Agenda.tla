------------------------------- MODULE Agenda -------------------------------
(***************************************************************************)
(* The order of the files of automation/slices (src/src/agenda.rs): a file *)
(* is [ordinal, slug], and ordinals are compared component by component.    *)
(***************************************************************************)
EXTENDS Naturals, SequencesExt

(* Ordinals are compared as numbers; a part comes after its whole.           *)
Before(s, t) ==
  \/ IsStrictPrefix(s.ordinal, t.ordinal)
  \/ \E i \in 1..Len(s.ordinal) :
       /\ i <= Len(t.ordinal) /\ s.ordinal[i] < t.ordinal[i]
       /\ \A j \in 1..(i - 1) : s.ordinal[j] = t.ordinal[j]

Ambiguous(slices) == \E s, t \in slices : s # t /\ s.ordinal = t.ordinal

IsFirst(s, slices) == s \in slices /\ \A t \in slices \ {s} : Before(s, t)

(* has_subdivision                                                          *)
Subdivided(slices, s) == \E child \in slices : child.ordinal = Append(s.ordinal, 1)
=============================================================================
