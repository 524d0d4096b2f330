-------------------------- MODULE CompilationProofs --------------------------
(***************************************************************************)
(* Proofs about the compiler.  Publication is atomic and final, whatever a *)
(* build holds and however the compiler fills it: every behaviour of       *)
(* PublicationSpec, and so of every module that implements it.  And the    *)
(* wildcards that the compiler builds and compares are the sets of         *)
(* namespaces they stand for, whatever the namespaces of a schema set.     *)
(***************************************************************************)
EXTENDS Publication, WildcardSets, TLAPS

-----------------------------------------------------------------------------
(* Publication.                                                            *)

PublicationNext == Compiling \/ Cancel \/ Publish

(* What makes PublicationIsAtomic inductive: the outcome is open until the *)
(* end, and the build is a schema that can be handed out until it is       *)
(* consumed.                                                               *)
StagesAreOrdered == /\ stage \in {"compile", "ended"} \cup Stages
                    /\ stage = "ended" <=> outcome # "running"
                    /\ build # NoSchema

PInv == StagesAreOrdered /\ PublicationIsAtomic

(* A compilation starts with a build of its own and nothing published.     *)
LEMMA InitHolds == PublicationInit => PInv
  BY PublicationAssumption DEF PublicationInit, PInv, StagesAreOrdered, PublicationIsAtomic

(* What ends without a schema leaves the build whole.                      *)
LEMMA EndHolds ==
  ASSUME NEW why \in {"canceled", "defect"}, PInv, stage \in Stages, End(why)
  PROVE  PInv'
  BY DEF PInv, StagesAreOrdered, PublicationIsAtomic, End, Stages

(* The commit finds the audited candidate, which is what the build holds.  *)
LEMMA CommitHolds == PInv /\ Commit => PInv'
  BY PublicationAssumption
     DEF PInv, StagesAreOrdered, PublicationIsAtomic, Commit, Stages

(* Every step of the compiler, the caller and PublishSchema keeps the      *)
(* invariant.                                                              *)
LEMMA StepHolds == PInv /\ [PublicationNext]_publication => PInv'
<1>1. SUFFICES ASSUME PInv, [PublicationNext]_publication PROVE PInv'
  OBVIOUS
<1>2. CASE Compiling
  BY <1>1, <1>2 DEF PInv, StagesAreOrdered, PublicationIsAtomic, Compiling, Stages
<1>3. CASE Cancel
  BY <1>1, <1>3 DEF PInv, StagesAreOrdered, PublicationIsAtomic, Cancel
<1>4. CASE Canceled
  BY <1>1, <1>4, EndHolds DEF Canceled
<1>5. CASE Defect
  BY <1>1, <1>5, EndHolds DEF Defect, After, Stages
<1>6. CASE Audit
  BY <1>1, <1>6 DEF PInv, StagesAreOrdered, PublicationIsAtomic, Audit, After, Stages
<1>7. CASE Project
  BY <1>1, <1>7 DEF PInv, StagesAreOrdered, PublicationIsAtomic, Project, After, Stages
<1>8. CASE Commit
  BY <1>1, <1>8, CommitHolds
<1>9. CASE UNCHANGED publication
  BY <1>1, <1>9 DEF PInv, StagesAreOrdered, PublicationIsAtomic, publication
<1>10. QED
  BY <1>1, <1>2, <1>3, <1>4, <1>5, <1>6, <1>7, <1>8, <1>9 DEF PublicationNext, Publish

LEMMA Invariant == PublicationSpec => []PInv
<1>1. PublicationSpec => PublicationInit /\ [][PublicationNext]_publication
  BY DEF PublicationSpec, PublicationNext
<1>2. QED
  BY <1>1, InitHolds, StepHolds, PTL

(* The build is consumed exactly when a schema is handed out, and what is  *)
(* handed out is what was audited (PublishSchema).                         *)
THEOREM PublicationAtomic == PublicationSpec => []PublicationIsAtomic
<1>1. PInv => PublicationIsAtomic
  BY DEF PInv
<1>2. QED
  BY <1>1, Invariant, PTL

(* What is published never changes, and a consumed build is never used     *)
(* again: the schema is immutable and the compiler is done.                *)
Final == published # NoSchema => UNCHANGED <<published, build, outcome>>

THEOREM PublishedIsFinal == PublicationSpec => [][Final]_publication
<1>1. PInv /\ [PublicationNext]_publication => [Final]_publication
  <2>1. SUFFICES ASSUME PInv, [PublicationNext]_publication, published # NoSchema
                 PROVE  UNCHANGED <<published, build, outcome>>
    BY DEF Final
  <2>2. stage = "ended"
    BY <2>1 DEF PInv, StagesAreOrdered, PublicationIsAtomic
  <2>3. QED
    BY <2>1, <2>2 DEF PublicationNext, Compiling, Cancel, Publish, Canceled, Audit, Defect,
                      Project, Commit, End, Stages, After, publication
<1>2. PublicationSpec => [][PublicationNext]_publication
  BY DEF PublicationSpec, PublicationNext
<1>3. QED
  BY <1>1, <1>2, Invariant, PTL

-----------------------------------------------------------------------------
(* Wildcards.                                                              *)

(* A finite wildcard admits the namespaces it lists.                       *)
LEMMA FiniteMeaning ==
  ASSUME NEW w, WellFormed(w), w.mode \notin {"any", "other"}
  PROVE  Meaning(w) = FiniteNamespaces(w)
  BY NamespacesAssumption DEF WellFormed, Wildcard, Meaning, Allows, FiniteNamespaces

(* A finite wildcard has nothing of its own to negate.                     *)
LEMMA InfiniteIsEmpty ==
  ASSUME NEW w, WellFormed(w), w.mode \in {"any", "other"}
  PROVE  FiniteNamespaces(w) = {}
  BY DEF WellFormed, Wildcard, FiniteNamespaces

(* The union of ##other and a finite wildcard, when it can be expressed:   *)
(* unionOtherWithFinite.                                                   *)
LEMMA OtherUnion ==
  ASSUME NEW a, WellFormed(a), a.mode = "other",
         NEW b, WellFormed(b), b.mode \notin {"any", "other"},
         NEW process \in Processes, UnionExpressible(a, b)
  PROVE  Meaning(OtherWithFinite(a, b, process)) = Meaning(a) \union Meaning(b)
  <1>1. Meaning(b) = FiniteNamespaces(b)
    BY FiniteMeaning
  <1>2. FiniteNamespaces(b) \subseteq Namespaces
    BY NamespacesAssumption DEF WellFormed, Wildcard, FiniteNamespaces
  <1>3. a.otherThan \in Namespaces
    BY DEF WellFormed, Wildcard
  <1>4. Meaning(a) = {ns \in Namespaces : ns # Absent /\ ns # a.otherThan}
    BY DEF Meaning, Allows
  <1>5. Meaning(AnyWildcard(process)) = Namespaces
    BY DEF Meaning, Allows, AnyWildcard
  <1>6. \A other \in Namespaces :
          Meaning(OtherWildcard(other, process)) = {ns \in Namespaces : ns # Absent /\ ns # other}
    BY DEF Meaning, Allows, AnyWildcard, OtherWildcard
  <1>7. CASE Absent \in FiniteNamespaces(b) /\ a.otherThan \in FiniteNamespaces(b)
    BY <1>1, <1>2, <1>4, <1>5, <1>7 DEF OtherWithFinite
  <1>8. CASE Absent \notin FiniteNamespaces(b) /\ a.otherThan \in FiniteNamespaces(b)
    BY <1>1, <1>2, <1>4, <1>6, <1>8, NamespacesAssumption DEF OtherWithFinite
  <1>9. CASE a.otherThan \notin FiniteNamespaces(b)
    <2>1. Absent \notin FiniteNamespaces(b)
      BY <1>9 DEF UnionExpressible
    <2> QED
      BY <2>1, <1>1, <1>2, <1>3, <1>4, <1>6, <1>9 DEF OtherWithFinite
  <1> QED
    BY <1>7, <1>8, <1>9

(* UnionWildcard: what an extension admits is what it declares and what    *)
(* its base admits.                                                        *)
THEOREM UnionIsUnion ==
  ASSUME NEW a, WellFormed(a), NEW b, WellFormed(b),
         NEW process \in Processes, UnionExpressible(a, b)
  PROVE  Meaning(UnionWildcard(a, b, process)) = Meaning(a) \union Meaning(b)
  <1>1. CASE NamespaceEqual(a, b)
    <2>1. UnionWildcard(a, b, process) = [a EXCEPT !.process = process]
      BY <1>1 DEF UnionWildcard
    <2>2. Meaning([a EXCEPT !.process = process]) = Meaning(a)
      BY DEF WellFormed, Wildcard, Meaning, Allows
    <2>3. Meaning(a) = Meaning(b)
      BY <1>1 DEF NamespaceEqual, Meaning, Allows
    <2> QED
      BY <2>1, <2>2, <2>3
  <1>2. CASE ~NamespaceEqual(a, b) /\ "any" \in {a.mode, b.mode}
    BY <1>2 DEF UnionWildcard, AnyWildcard, Meaning, Allows
  <1>3. CASE ~NamespaceEqual(a, b) /\ a.mode = "other" /\ b.mode = "other"
    <2>1. UnionWildcard(a, b, process) = OtherWildcard(Absent, process)
      BY <1>3 DEF UnionWildcard
    <2>2. a.otherThan # b.otherThan
      BY <1>3 DEF NamespaceEqual, WellFormed
    <2> QED
      BY <2>1, <2>2, <1>3 DEF OtherWildcard, AnyWildcard, Meaning, Allows
  <1>4. CASE ~NamespaceEqual(a, b) /\ a.mode = "other" /\ b.mode \notin {"any", "other"}
    BY <1>4, OtherUnion DEF UnionWildcard
  <1>5. CASE ~NamespaceEqual(a, b) /\ b.mode = "other" /\ a.mode \notin {"any", "other"}
    <2>1. UnionExpressible(b, a)
      BY DEF UnionExpressible
    <2> QED
      BY <2>1, <1>5, OtherUnion DEF UnionWildcard
  <1>6. CASE ~NamespaceEqual(a, b) /\ a.mode \notin {"any", "other"} /\ b.mode \notin {"any", "other"}
    <2>1. UnionWildcard(a, b, process)
            = ListWildcard(FiniteNamespaces(a) \union FiniteNamespaces(b), process)
      BY <1>6 DEF UnionWildcard
    <2>2. /\ FiniteNamespaces(a) \subseteq Namespaces
          /\ FiniteNamespaces(b) \subseteq Namespaces
      BY NamespacesAssumption DEF WellFormed, Wildcard, FiniteNamespaces
    <2>3. Meaning(ListWildcard(FiniteNamespaces(a) \union FiniteNamespaces(b), process))
            = FiniteNamespaces(a) \union FiniteNamespaces(b)
      BY <2>2 DEF ListWildcard, AnyWildcard, Meaning, Allows
    <2> QED
      BY <2>1, <2>3, <1>6, FiniteMeaning
  <1> QED
    BY <1>1, <1>2, <1>3, <1>4, <1>5, <1>6 DEF WellFormed, Wildcard

(* IntersectWildcard: what attribute groups and anyAttribute declare       *)
(* together is what each of them admits.                                   *)
THEOREM IntersectionIsIntersection ==
  ASSUME NEW a, WellFormed(a), NEW b, WellFormed(b),
         NEW process \in Processes, IntersectionExpressible(a, b)
  PROVE  Meaning(IntersectWildcard(a, b, process)) = Meaning(a) \intersect Meaning(b)
  <1>1. /\ Meaning([a EXCEPT !.process = process]) = Meaning(a)
        /\ Meaning([b EXCEPT !.process = process]) = Meaning(b)
    BY DEF WellFormed, Wildcard, Meaning, Allows
  <1>2. CASE NamespaceEqual(a, b)
    <2>1. Meaning(a) = Meaning(b)
      BY <1>2 DEF NamespaceEqual, Meaning, Allows
    <2> QED
      BY <2>1, <1>1, <1>2 DEF IntersectWildcard
  <1>3. CASE ~NamespaceEqual(a, b) /\ a.mode = "any"
    BY <1>1, <1>3 DEF IntersectWildcard, Meaning, Allows
  <1>4. CASE ~NamespaceEqual(a, b) /\ a.mode # "any" /\ b.mode = "any"
    BY <1>1, <1>4 DEF IntersectWildcard, Meaning, Allows
  <1>5. CASE ~NamespaceEqual(a, b) /\ a.mode = "other" /\ b.mode = "other"
    <2>1. a.otherThan # b.otherThan
      BY <1>5 DEF NamespaceEqual, WellFormed
    <2>2. CASE a.otherThan = Absent
      BY <1>1, <1>5, <2>2 DEF IntersectWildcard, Meaning, Allows
    <2>3. CASE a.otherThan # Absent
      <3>1. b.otherThan = Absent
        BY <1>5, <2>1, <2>3 DEF IntersectionExpressible
      <3> QED
        BY <1>1, <1>5, <2>3, <3>1 DEF IntersectWildcard, Meaning, Allows
    <2> QED
      BY <2>2, <2>3
  <1>6. CASE /\ ~NamespaceEqual(a, b) /\ a.mode # "any" /\ b.mode # "any"
             /\ ~(a.mode = "other" /\ b.mode = "other")
    <2> DEFINE listed == {ns \in FiniteNamespaces(a) \union FiniteNamespaces(b) :
                            Allows(a, ns) /\ Allows(b, ns)}
    <2>1. IntersectWildcard(a, b, process) = ListWildcard(listed, process)
      BY <1>6 DEF IntersectWildcard
    <2>2. \/ Meaning(a) = FiniteNamespaces(a)
          \/ Meaning(b) = FiniteNamespaces(b)
      BY <1>6, FiniteMeaning
    <2>3. FiniteNamespaces(a) \union FiniteNamespaces(b) \subseteq Namespaces
      BY NamespacesAssumption DEF WellFormed, Wildcard, FiniteNamespaces
    <2>4. Meaning(ListWildcard(listed, process)) = listed
      BY <2>3 DEF ListWildcard, AnyWildcard, Meaning, Allows
    <2>5. listed = Meaning(a) \intersect Meaning(b)
      BY <2>2, <2>3 DEF Meaning
    <2> QED
      BY <2>1, <2>4, <2>5
  <1> QED
    BY <1>2, <1>3, <1>4, <1>5, <1>6

(* WildcardSubset: a wildcard that restricts another admits no more, and   *)
(* is processed at least as strictly.                                      *)
THEOREM SubsetIsSubset ==
  ASSUME NEW a, WellFormed(a), NEW b, WellFormed(b), WildcardSubset(a, b)
  PROVE  Meaning(a) \subseteq Meaning(b) /\ a.process <= b.process
  BY DEF WellFormed, Wildcard, WildcardSubset, Meaning, Allows

(* WildcardsOverlap: two wildcards that are told apart admit no namespace  *)
(* together, so that no ambiguity of a content model is missed.            *)
THEOREM ApartIsDisjoint ==
  ASSUME NEW a, WellFormed(a), NEW b, WellFormed(b), ~WildcardsOverlap(a, b)
  PROVE  Meaning(a) \intersect Meaning(b) = {}
  <1>1. CASE a.mode \in {"any", "other"} /\ b.mode \in {"any", "other"}
    BY <1>1 DEF WildcardsOverlap
  <1>2. CASE a.mode = "other" /\ b.mode \notin {"any", "other"}
    BY <1>2 DEF WildcardsOverlap, HasNamespaceOtherThan, Meaning, Allows
  <1>3. CASE b.mode = "other" /\ a.mode \notin {"any", "other"}
    BY <1>3 DEF WildcardsOverlap, HasNamespaceOtherThan, Meaning, Allows
  <1>4. CASE a.mode \notin {"any", "other"} /\ b.mode \notin {"any", "other"}
    <2>1. Meaning(a) = FiniteNamespaces(a)
      BY <1>4, FiniteMeaning
    <2>2. \A ns \in FiniteNamespaces(a) : ~Allows(b, ns)
      BY <1>4 DEF WildcardsOverlap
    <2> QED
      BY <2>1, <2>2 DEF Meaning
  <1>5. CASE "any" \in {a.mode, b.mode}
    BY <1>5 DEF WildcardsOverlap
  <1> QED
    BY <1>1, <1>2, <1>3, <1>4, <1>5 DEF WellFormed, Wildcard
==============================================================================
