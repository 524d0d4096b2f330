------------------------- MODULE ContentRestriction -------------------------
(***************************************************************************)
(* When the content of a restricted type is taken to be part of that of    *)
(* its base: the rules by the kinds of the groups, over lowered models.    *)
(* No content is compared: particles are mapped onto particles.            *)
(***************************************************************************)
EXTENDS ContentModel

CONSTANTS
  Declarations,    \* for each element term: name, scope, type and what it allows
  Members,         \* for each element term: the terms that may stand in for it
  RestrictsType    \* pairs of types, the first derived from the second, not by extension

ASSUME DeclarationsAssumption ==
  /\ DOMAIN Declarations = Terms \ Wildcards /\ DOMAIN Members = Terms \ Wildcards
  /\ \A t \in DOMAIN Members : Members[t] \subseteq DOMAIN Declarations

-----------------------------------------------------------------------------
(* How many children a particle may take.                                  *)

AddOccurrenceRanges(a, b) ==
  [min |-> a.min + b.min, max |-> a.max + b.max, unbounded |-> a.unbounded \/ b.unbounded]

UnionOccurrenceRanges(a, b) ==
  [min |-> Min({a.min, b.min}),
   max |-> IF a.unbounded \/ b.unbounded THEN 0 ELSE Max({a.max, b.max}),
   unbounded |-> a.unbounded \/ b.unbounded]

OccurrenceRangeSubset(derived, base) ==
  /\ derived.min >= base.min
  /\ base.unbounded \/ (~derived.unbounded /\ derived.max <= base.max)

Never == [min |-> 0, max |-> 0, unbounded |-> FALSE]

RECURSIVE ModelCountRange(_)
ParticleCountRange(p) ==
  MultiplyOccurrence(IF IsLeaf(p) THEN One ELSE ModelCountRange(p.model), p.occurs)

ModelCountRange(model) ==
  LET ranges == [i \in DOMAIN model.particles |-> ParticleCountRange(model.particles[i])]
      total == IF ranges = <<>> THEN Never
               ELSE IF model.kind = "choice" THEN FoldLeft(UnionOccurrenceRanges, ranges[1], Tail(ranges))
               ELSE FoldLeft(AddOccurrenceRanges, Never, ranges)
  IN  MultiplyOccurrence(total, model.occurs)

SequenceChoiceRange(model) ==
  LET n == Len(model.particles)
  IN  [model.occurs EXCEPT !.min = @ * n, !.max = @ * n]

ParticleEffectiveMin(p) == IF p.kind = "model" /\ ModelEmptiable(p.model) THEN 0 ELSE p.occurs.min

-----------------------------------------------------------------------------
(* Elements and wildcards.                                                 *)

(* Slip: an element may be nillable where that of the base is not.         *)
ElementRestrictsType(base, derived) ==
  LET b == Declarations[base]
      d == Declarations[derived]
  IN  IF b.name # d.name THEN derived \in Members[base]
      ELSE (b.global /\ d.global) \/ <<d.type, b.type>> \in RestrictsType

(* validateParticleRestrictsElement, for an element: a member of the group *)
(* of a head stands for itself, and two globals of one name are one.       *)
ElementRestricts(base, derived) ==
  LET b == Declarations[base]
      d == Declarations[derived]
  IN  IF b.name # d.name THEN derived \in Members[base]
      ELSE \/ b.global /\ d.global
           \/ /\ <<d.type, b.type>> \in RestrictsType
              /\ d.nillable => b.nillable
              /\ b.block \subseteq d.block
              /\ d.identities \subseteq b.identities
              /\ b.fixed # "none" => d.fixed = b.fixed

RECURSIVE RestrictsWildcard(_, _)
RestrictsWildcard(base, derived) ==
  CASE derived.kind = "element" -> Declarations[derived.term].name \in Admits[base.term]
    [] derived.kind = "wildcard" -> Admits[derived.term] \subseteq Admits[base.term]
    [] derived.kind = "model" -> \A p \in Range(derived.model.particles) : RestrictsWildcard(base, p)

-----------------------------------------------------------------------------
(* Groups.                                                                 *)

RECURSIVE ChoiceBelow(_)
ChoiceBelow(model) ==
  \E p \in {q \in Range(model.particles) : q.kind = "model"} : p.model.kind = "choice" \/ ChoiceBelow(p.model)

RequiresXSD11(base, derived) ==
  \/ base.occurs = One /\ derived.occurs.min < base.occurs.min
  \/ /\ base.occurs = One /\ derived.occurs = One /\ Len(derived.particles) < Len(base.particles)
     /\ \E p \in Range(derived.particles) : p.kind = "model" /\ ParticleCountRange(p).unbounded
  \/ \E p \in {q \in Range(derived.particles) : q.kind = "model"} : ChoiceBelow(p.model)

RECURSIVE ParticleRestricts(_, _)

(* choiceBranchRestricts: an element of the base that must come once is    *)
(* held against one occurrence of the branch.                              *)
Normalized(base, derived) ==
  /\ IsLeaf(base) /\ base.occurs = One
  /\ \/ ParticleEffectiveMin(derived) > 0
     \/ ParticleCountRange(derived).unbounded \/ ParticleCountRange(derived).max > 1

BranchRestricts(base, derived) ==
  ParticleRestricts(base, IF Normalized(base, derived) THEN [derived EXCEPT !.occurs = One] ELSE derived)

(* Particles of the base are taken in their order, each as often as needed.*)
RECURSIVE BranchesInOrder(_, _)
BranchesInOrder(bases, deriveds) ==
  \/ deriveds = <<>>
  \/ /\ bases # <<>>
     /\ IF BranchRestricts(Head(bases), Head(deriveds)) THEN BranchesInOrder(bases, Tail(deriveds))
        ELSE BranchesInOrder(Tail(bases), deriveds)

ChoiceRestricts(base, derived) ==
  /\ OccurrenceRangeSubset(derived.occurs, base.occurs)
  /\ ~RequiresXSD11(base, derived)
  /\ BranchesInOrder(base.particles, derived.particles)

AllEmptiable(particles) == \A p \in Range(particles) : Emptiable(p)

(* Each particle of the base once, in order; what is skipped may be absent.*)
RECURSIVE InOrder(_, _)
InOrder(bases, deriveds) ==
  IF deriveds = <<>> THEN AllEmptiable(bases)
  ELSE /\ bases # <<>>
       /\ IF ParticleRestricts(Head(bases), Head(deriveds)) THEN InOrder(Tail(bases), Tail(deriveds))
          ELSE Emptiable(Head(bases)) /\ InOrder(Tail(bases), deriveds)

(* validateMappedGroupRestriction: each once, in any order.                *)
RECURSIVE Mapped(_, _)
Mapped(bases, deriveds) ==
  IF deriveds = <<>> THEN AllEmptiable(bases)
  ELSE LET matching == {i \in DOMAIN bases : ParticleRestricts(bases[i], Head(deriveds))}
       IN  matching # {} /\ Mapped(RemoveAt(bases, Min(matching)), Tail(deriveds))

(* One particle of a sequence, and the others may be absent.               *)
OneOf(bases, derived) ==
  \E i \in DOMAIN bases : ParticleRestricts(bases[i], derived) /\ AllEmptiable(RemoveAt(bases, i))
FirstOf(bases, derived) ==
  LET matching == {i \in DOMAIN bases : ParticleRestricts(bases[i], derived)}
  IN  matching # {} /\ AllEmptiable(RemoveAt(bases, Min(matching)))

SequenceRestrictsChoice(base, derived) ==
  /\ OccurrenceRangeSubset(SequenceChoiceRange(derived), base.occurs)
  /\ \A p \in Range(derived.particles) : \E b \in Range(base.particles) : BranchRestricts(b, p)

(* validateKnownGroupRestriction, and the comparison that is left.         *)
GroupRestricts(base, derived) ==
  CASE derived.kind = base.kind /\ base.kind = "choice" -> ChoiceRestricts(base, derived)
    [] derived.kind = base.kind /\ base.kind # "choice" ->
         OccurrenceRangeSubset(derived.occurs, base.occurs) /\ InOrder(base.particles, derived.particles)
    [] derived.kind = "choice" /\ base.kind = "sequence" ->
         derived.occurs = One /\ Len(derived.particles) = 1 /\ OneOf(base.particles, derived.particles[1])
    [] derived.kind = "sequence" /\ base.kind = "all" ->
         OccurrenceRangeSubset(derived.occurs, base.occurs) /\ Mapped(base.particles, derived.particles)
    [] derived.kind = "sequence" /\ base.kind = "choice" -> SequenceRestrictsChoice(base, derived)
    [] derived.kind = "all" /\ base.kind = "sequence" ->
         /\ Len(base.particles) = 1 /\ Len(derived.particles) = 1
         /\ ParticleRestricts(base.particles[1], derived.particles[1])
    [] {derived.kind, base.kind} = {"all", "choice"} -> FALSE

(* validateContentRestriction *)
ModelRestricts(base, derived) ==
  /\ ModelEmptiable(derived) => ModelEmptiable(base)
  /\ OccurrenceRangeSubset(ModelCountRange(derived), ModelCountRange(base))
  /\ \/ derived.particles = <<>>
     \/ IF Len(base.particles) = 1 /\ base.particles[1].kind = "wildcard"
        THEN \A p \in Range(derived.particles) : RestrictsWildcard(base.particles[1], p)
        ELSE GroupRestricts(base, derived)

(* validateParticleRestrictsElement *)
ParticleRestrictsElement(base, derived) ==
  CASE derived.kind = "element" -> ElementRestricts(base.term, derived.term)
    [] derived.kind = "wildcard" -> FALSE
    [] derived.kind = "model" ->
         derived.model.kind = "choice" /\ \A p \in Range(derived.model.particles) : BranchRestricts(base, p)

(* validateParticleRestrictsChoiceModel *)
ParticleRestrictsChoice(base, derived) ==
  IF derived.kind # "model" \/ derived.model.kind = "all"
    THEN \E b \in Range(base.model.particles) : BranchRestricts(b, derived)
  ELSE IF derived.model.kind = "choice"
    THEN derived.occurs.min >= base.occurs.min /\ ChoiceRestricts(base.model, derived.model)
  ELSE SequenceRestrictsChoice(base.model, derived.model)

(* validateParticleRestrictsModel *)
ParticleRestrictsModel(base, derived) ==
  IF base.model.kind = "choice" THEN ParticleRestrictsChoice(base, derived)
  ELSE IF Len(base.model.particles) = 1 THEN ParticleRestricts(base.model.particles[1], derived)
  ELSE CASE derived.kind = "wildcard" -> FALSE
         [] derived.kind = "element" -> base.model.kind = "sequence" => FirstOf(base.model.particles, derived)
         [] derived.kind = "model" -> ModelRestricts(base.model, derived.model)

ParticleRestricts(base, derived) ==
  /\ OccurrenceRangeSubset(ParticleCountRange(derived), ParticleCountRange(base))
  /\ CASE base.kind = "wildcard" -> RestrictsWildcard(base, derived)
       [] base.kind = "element" -> ParticleRestrictsElement(base, derived)
       [] base.kind = "model" -> ParticleRestrictsModel(base, derived)
=============================================================================
