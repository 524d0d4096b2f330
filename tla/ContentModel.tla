---------------------------- MODULE ContentModel ----------------------------
(***************************************************************************)
(* How the content of a complex type is compiled: the groups of a schema   *)
(* document are lowered to content models, checked for unique particle     *)
(* attribution, and turned into tables of rows that a validation walks     *)
(* through, one child element at a time.                                   *)
(*                                                                         *)
(* A model that is a sequence or a choice of elements becomes a table at   *)
(* once, whose rows count repetitions at run time.  Every other model is   *)
(* built as an automaton of positions with guarded counters, and the       *)
(* counters are then multiplied out into deterministic rows.               *)
(*                                                                         *)
(* A particle holds the model it refers to, where the code holds its       *)
(* number; a term stands for an element declaration, with its substitution *)
(* group, or for a wildcard, and is known by the names it admits.          *)
(***************************************************************************)
EXTENDS Naturals, Sequences, FiniteSets, SequencesExt, FiniteSetsExt

CONSTANTS
  Terms,                  \* element declarations and wildcards
  Wildcards,              \* the terms that are wildcards
  Admits,                 \* the names of each term
  MaxContentModelStates   \* normalized limit

ASSUME TermsAssumption ==
  /\ Wildcards \subseteq Terms
  /\ DOMAIN Admits = Terms
  /\ MaxContentModelStates \in Nat \ {0}

One == [min |-> 1, max |-> 1, unbounded |-> FALSE]
Absent(occurs) == occurs.max = 0 /\ ~occurs.unbounded
Repeats(occurs) == occurs.unbounded \/ occurs.max > 1
Varies(occurs) == occurs.unbounded \/ occurs.max > occurs.min

(* MultiplyOccurrence; counts stay far below its saturation at 2^32 - 1.   *)
MultiplyOccurrence(a, b) ==
  [min |-> a.min * b.min,
   max |-> IF a.unbounded \/ b.unbounded THEN 0 ELSE a.max * b.max,
   unbounded |-> a.unbounded \/ b.unbounded]

IsLeaf(p) == p.kind \in {"element", "wildcard"}

-----------------------------------------------------------------------------
(* Lowering.  A group of the schema document holds leaves and groups; a    *)
(* content model holds leaves and particles of kind "model".               *)

CanFlattenSingle(model, particle) ==
  \/ model = One
  \/ particle.min = 0
  \/ particle = One
  \/ particle.unbounded /\ (model.min > 0 \/ particle.min = 1)
  \/ ~model.unbounded /\ model.min = model.max

(* AppendFlattenedModelChild: the particles of a child that need no model  *)
(* of their own, as a set of at most one sequence.                         *)
Flattened(model, child) ==
  CASE model.kind = "choice" /\ child.kind = "choice" /\ child.occurs = One -> {child.particles}
    [] /\ model.kind = "sequence" /\ child.kind \in {"sequence", "choice"}
       /\ Len(child.particles) = 1
       /\ CanFlattenSingle(child.occurs, child.particles[1].occurs) ->
         {<<[child.particles[1] EXCEPT !.occurs = MultiplyOccurrence(@, child.occurs)]>>}
    [] /\ model.kind = "sequence" /\ child.kind = "sequence"
       /\ Len(child.particles) > 1 /\ child.occurs = One -> {child.particles}
    [] OTHER -> {}

(* ModelParticle: a repeated model is referred to through a copy.          *)
ModelParticles(model) ==
  IF Absent(model.occurs) THEN <<>>
  ELSE <<[kind |-> "model", occurs |-> model.occurs, model |-> [model EXCEPT !.occurs = One]]>>

RECURSIVE Lowered(_)
Lowered(group) ==
  LET append(model, child) ==
        LET lowered == Lowered(child)
            flat == IF IsLeaf(child) THEN {} ELSE Flattened(model, lowered)
            added == IF IsLeaf(child) THEN IF Absent(child.occurs) THEN <<>> ELSE <<child>>
                     ELSE IF flat # {} THEN CHOOSE f \in flat : TRUE
                     ELSE ModelParticles(lowered)
        IN  [model EXCEPT !.particles = @ \o added]
  IN  FoldLeft(append, [kind |-> group.kind, occurs |-> group.occurs, particles |-> <<>>],
               group.particles)

(* ExtendSequenceModel: the content of a complex type that extends another.*)
Extended(base, extension) ==
  LET parts(m) == IF m.kind = "sequence" /\ m.occurs = One THEN m.particles ELSE ModelParticles(m)
  IN  CASE base.particles = <<>> -> extension
        [] base.particles # <<>> /\ extension.particles = <<>> -> base
        [] OTHER -> [kind |-> "sequence", occurs |-> One,
                     particles |-> parts(base) \o parts(extension)]

(* The models that lowering a group leaves in the model table.             *)
RECURSIVE ModelsOf(_)
ModelsOf(model) ==
  {model} \union UNION {ModelsOf(p.model) : p \in {q \in Range(model.particles) : q.kind = "model"}}

RECURSIVE Table(_)
Table(group) ==
  ModelsOf(Lowered(group)) \union UNION {Table(g) : g \in {h \in Range(group.particles) : ~IsLeaf(h)}}

-----------------------------------------------------------------------------
(* CheckContentModelsUPA: ambiguity that shows in the model itself.        *)

RECURSIVE Emptiable(_)
ModelEmptiable(model) ==
  \/ model.occurs.min = 0
  \/ IF model.kind = "choice" THEN \E p \in Range(model.particles) : Emptiable(p)
     ELSE \A p \in Range(model.particles) : Emptiable(p)
Emptiable(p) == p.occurs.min = 0 \/ (p.kind = "model" /\ ModelEmptiable(p.model))

(* The particles that may come first.                                      *)
Starts(model) ==
  LET ps == model.particles
  IN  IF model.kind # "sequence" THEN Range(ps)
      ELSE {ps[i] : i \in {j \in DOMAIN ps : \A k \in 1..j - 1 : Emptiable(ps[k])}}

RECURSIVE StartTerms(_)
StartTerms(p) ==
  IF IsLeaf(p) THEN {p.term} ELSE UNION {StartTerms(q) : q \in Starts(p.model)}

TermsOverlap(t, u) == Admits[t] \intersect Admits[u] # {}
ParticlesOverlap(p, q) == \E t \in StartTerms(p), u \in StartTerms(q) : TermsOverlap(t, u)

SameWildcard(p, q) ==
  p.kind = "wildcard" /\ q.kind = "wildcard" /\ Admits[p.term] = Admits[q.term]

(* The particles that may also come where a particle might have ended.     *)
RECURSIVE Continuation(_)
Continuation(p) ==
  IF Absent(p.occurs) THEN {}
  ELSE IF IsLeaf(p) THEN IF Varies(p.occurs) THEN {p} ELSE {}
  ELSE (IF Varies(p.occurs) THEN Starts(p.model) ELSE {})
       \union (IF Varies(p.model.occurs) THEN Starts(p.model) ELSE {})
       \union UNION {Continuation(q) : q \in Range(p.model.particles)}

(* checkSequenceUPA: a continuation against what follows, up to the first  *)
(* particle that must come and is another one.                             *)
SequenceAmbiguous(model) ==
  LET ps == model.particles
      excepted(c, q) == model.occurs # One /\ SameWildcard(c, q)
  IN  \E i \in DOMAIN ps : \E c \in Continuation(ps[i]) : \E j \in i + 1..Len(ps) :
        /\ ParticlesOverlap(c, ps[j]) /\ ~excepted(c, ps[j])
        /\ \A k \in i + 1..j - 1 : ps[k].occurs.min = 0 \/ ParticlesOverlap(c, ps[k])

SequenceHasSameWildcards(model) ==
  LET ps == model.particles
  IN  model.kind = "sequence" /\
      \E i \in DOMAIN ps : \E c \in Continuation(ps[i]) : \E j \in i + 1..Len(ps) :
        /\ SameWildcard(c, ps[j])
        /\ \A k \in i + 1..j - 1 : ps[k].occurs.min = 0

PairAmbiguous(model) ==
  LET ps == model.particles
  IN  \E i, j \in DOMAIN ps : i < j /\ ParticlesOverlap(ps[i], ps[j])

ChoiceNeedsSplit(model, occurs) ==
  model.kind = "choice" /\ occurs # One /\ \E p \in Range(model.particles) : p.occurs # One

RECURSIVE NeedsSplit(_)
NeedsSplit(model) ==
  \/ ChoiceNeedsSplit(model, model.occurs)
  \/ \E p \in {q \in Range(model.particles) : q.kind = "model"} :
       ChoiceNeedsSplit(p.model, p.occurs) \/ NeedsSplit(p.model)

DirectlyAmbiguous(model) ==
  /\ ~NeedsSplit(model) /\ ~SequenceHasSameWildcards(model)
  /\ IF model.kind = "sequence" THEN SequenceAmbiguous(model) ELSE PairAmbiguous(model)
=============================================================================
