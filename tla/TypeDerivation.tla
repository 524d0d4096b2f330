--------------------------- MODULE TypeDerivation ---------------------------
(***************************************************************************)
(* How one type is derived from another, three times over: the walk along  *)
(* the bases that the compiler takes while types are still being added,    *)
(* the index that is published with a schema and answers from intervals    *)
(* and counts, and the definition that both are held against.              *)
(*                                                                         *)
(* A graph has simple types, each with a base and the members of a union,  *)
(* and complex types, each with a base of either sort, the kind of its     *)
(* derivation and the derivations it blocks.  Types are numbers, simple    *)
(* ones below complex ones, in the order in which they were added.         *)
(***************************************************************************)
EXTENDS Integers, Sequences, FiniteSets, SequencesExt, FiniteSetsExt

CONSTANTS
  AnyType,          \* the complex type xs:anyType
  MaxMemoEntries,   \* 256 in the code
  Generations       \* 2^32 in the code: the values of the generation counter

NoType == -1
NotDerived == {"not derived"}   \* the answer "no", beside the sets of derivations

Simples(g) == DOMAIN g.simple
Complexes(g) == DOMAIN g.complex
TypesOf(g) == Simples(g) \union Complexes(g)
BaseOf(g, t) == IF t \in Simples(g) THEN g.simple[t].base ELSE g.complex[t].base
KindMask(kind) == IF kind = "none" THEN {} ELSE {kind}

-----------------------------------------------------------------------------
(* The walk.  No graph has a cycle of bases, so that the guards of the     *)
(* code against one, its step limits and its cycle search, never decide.   *)

RECURSIVE InBaseChain(_, _, _)
InBaseChain(g, derived, base) ==
  /\ derived # NoType
  /\ g.simple[derived].base = base \/ InBaseChain(g, g.simple[derived].base, base)

(* simpleTypeUnionDerivationMask: pairs that lead to one another.          *)
RECURSIVE UnionWalk(_, _, _)
UnionWalk(g, stack, seen) ==
  /\ stack # <<>>
  /\ LET derived == Head(stack)[1]
         base == Head(stack)[2]
         up == g.simple[derived].base
         next == [i \in DOMAIN g.simple[base].union |-> <<derived, g.simple[base].union[i]>>]
                 \o (IF up = NoType THEN <<>> ELSE <<<<up, base>>>>)
     IN  \/ derived = base
         \/ IF <<derived, base>> \in seen THEN UnionWalk(g, Tail(stack), seen)
            ELSE UnionWalk(g, next \o Tail(stack), seen \union {<<derived, base>>})

SimpleTypeDerivationMaskOf(g, derived, base) ==
  IF derived = base THEN {}
  ELSE IF \/ g.simple[base].union = <<>> /\ InBaseChain(g, derived, base)
          \/ g.simple[base].union # <<>> /\ UnionWalk(g, <<<<derived, base>>>>, {})
  THEN {"restriction"} ELSE NotDerived

(* complexTypeDerivationMask, complexSimpleTypeDerivationMask and          *)
(* complexAnyTypeDerivationMask: up from a complex type, to a base.        *)
RECURSIVE ComplexWalk(_, _, _, _)
ComplexWalk(g, derived, base, mask) ==
  LET ct == g.complex[derived]
      all == mask \union KindMask(ct.kind)
      simple == SimpleTypeDerivationMaskOf(g, ct.base, base)
  IN  IF base = AnyType /\ derived = AnyType THEN mask
      ELSE IF ct.base = NoType THEN NotDerived
      ELSE IF ct.base \in Complexes(g)
        THEN IF ct.base = base THEN all ELSE ComplexWalk(g, ct.base, base, all)
      ELSE IF base = AnyType THEN all \union {"restriction"}
      ELSE IF base \in Complexes(g) \/ simple = NotDerived THEN NotDerived
      ELSE all \union simple

TypeDerivationMask(g, derived, base) ==
  IF derived = base THEN {}
  ELSE IF derived \in Complexes(g) THEN ComplexWalk(g, derived, base, {})
  ELSE IF base = AnyType THEN {"restriction"}
  ELSE IF base \in Complexes(g) THEN NotDerived
  ELSE SimpleTypeDerivationMaskOf(g, derived, base)

(* substitutionTypeBlocks: what the base and the types between block.      *)
RECURSIVE BlocksAbove(_, _, _)
BlocksAbove(g, derived, base) ==
  LET parent == g.complex[derived].base
  IN  IF parent = base \/ parent \notin Complexes(g) THEN {}
      ELSE g.complex[parent].block \union BlocksAbove(g, parent, base)

SubstitutionTypeBlocks(g, derived, base) ==
  IF derived = base THEN {}
  ELSE (IF base \in Complexes(g) THEN g.complex[base].block ELSE {})
       \union (IF derived \in Complexes(g) THEN BlocksAbove(g, derived, base) ELSE {})

-----------------------------------------------------------------------------
(* The index: places in a walk of the forest of bases, and what has been   *)
(* counted on the way down.                                                *)

RECURSIVE Preorder(_, _)
Preorder(parents, nodes) ==
  IF nodes = <<>> THEN <<>>
  ELSE LET n == Head(nodes)
           children == Reverse(SetToSortSeq({c \in DOMAIN parents : parents[c] = n}, <))
       IN  <<n>> \o Preorder(parents, children) \o Preorder(parents, Tail(nodes))

(* buildDerivationForest: in is when a node is entered, out is the count   *)
(* of nodes entered when it is left.                                       *)
BuildDerivationForest(parents) ==
  LET order == Preorder(parents, SetToSortSeq({n \in DOMAIN parents : parents[n] = NoType}, <))
      at(n) == CHOOSE i \in DOMAIN order : order[i] = n
  IN  [order |-> order,
       in |-> [n \in DOMAIN parents |-> at(n) - 1],
       out |-> [n \in DOMAIN parents |-> at(n) - 1 + Len(Preorder(parents, <<n>>))]]

(* buildTypeDerivationIndex: one complex type, below its parent.           *)
Counted(g, counts, c) ==
  LET ct == g.complex[c]
      start == IF ct.base \in Complexes(g) THEN counts[ct.base]
               ELSE [extension |-> 0, restriction |-> 0, simpleBase |-> ct.base, simpleMask |-> {}]
      down == IF ct.kind = "none" THEN start
              ELSE [start EXCEPT ![ct.kind] = @ + 1, !.simpleMask = @ \union {ct.kind}]
  IN  [counts EXCEPT ![c] = down]

Index(g) ==
  LET simple == BuildDerivationForest([s \in Simples(g) |-> g.simple[s].base])
      parent(c) == IF g.complex[c].base \in Complexes(g) THEN g.complex[c].base ELSE NoType
      complex == BuildDerivationForest([c \in Complexes(g) |-> parent(c)])
      none == [c \in Complexes(g) |-> [extension |-> 0, restriction |-> 0, simpleBase |-> NoType, simpleMask |-> {}]]
  IN  [simpleIn |-> simple.in, simpleOut |-> simple.out, complexIn |-> complex.in, complexOut |-> complex.out,
       counts |-> FoldLeft(LAMBDA acc, c : Counted(g, acc, c), none, complex.order),
       members |-> [s \in Simples(g) |-> g.simple[s].union]]

Below(x, derived, base) == x.simpleIn[base] <= x.simpleIn[derived] /\ x.simpleIn[derived] < x.simpleOut[base]

-----------------------------------------------------------------------------
(* A query.  The scratch of a session remembers answers, and marks the     *)
(* types of a union it has seen with the number of the walk that saw them. *)

NewScratch == [owner |-> 0, memo |-> <<>>, seen |-> <<>>, generation |-> 0]

Bound(scratch, owner) == IF scratch.owner = owner THEN scratch ELSE [NewScratch EXCEPT !.owner = owner]

(* Slip: a counter that has come round leaves the old marks.               *)
RestartedGeneration(scratch, index) ==
  LET fresh == [s \in DOMAIN index.simpleIn |-> 0]
  IN  [scratch EXCEPT !.seen = IF DOMAIN scratch.seen = DOMAIN fresh THEN @ ELSE fresh,
                      !.generation = IF (@ + 1) % Generations = 0 THEN 1 ELSE @ + 1]

NextGeneration(scratch, index) ==
  LET fresh == [s \in DOMAIN index.simpleIn |-> 0]
      kept == IF DOMAIN scratch.seen = DOMAIN fresh THEN scratch
              ELSE [scratch EXCEPT !.seen = fresh, !.generation = 0]
      next == (kept.generation + 1) % Generations
  IN  IF next = 0 THEN [kept EXCEPT !.seen = fresh, !.generation = 1]
      ELSE [kept EXCEPT !.generation = next]

(* simpleUnionDerivation: from the last candidate pushed.                  *)
RECURSIVE UnionSearch(_, _, _, _)
UnionSearch(x, derived, stack, scratch) ==
  IF stack = <<>> THEN [found |-> FALSE, scratch |-> scratch]
  ELSE LET candidate == Last(stack)
           marked == [scratch EXCEPT !.seen[candidate] = scratch.generation]
       IN  IF scratch.seen[candidate] = scratch.generation
             THEN UnionSearch(x, derived, Front(stack), scratch)
           ELSE IF Below(x, derived, candidate) THEN [found |-> TRUE, scratch |-> marked]
           ELSE UnionSearch(x, derived, Front(stack) \o x.members[candidate], marked)

SimpleDerivation(x, derived, base, scratch) ==
  LET plain(mask) == [mask |-> mask, scratch |-> scratch]
      search == UnionSearch(x, derived, <<base>>, NextGeneration(scratch, x))
  IN  IF derived = base THEN plain({})
      ELSE IF Below(x, derived, base) THEN plain({"restriction"})
      ELSE IF x.members[base] = <<>> THEN plain(NotDerived)
      ELSE [mask |-> IF search.found THEN {"restriction"} ELSE NotDerived, scratch |-> search.scratch]

ComplexDerivation(x, derived, base) ==
  IF x.complexIn[base] > x.complexIn[derived] \/ x.complexIn[derived] >= x.complexOut[base] THEN NotDerived
  ELSE {kind \in {"extension", "restriction"} : x.counts[derived][kind] > x.counts[base][kind]}

ComplexAnyTypeDerivation(x, derived) ==
  LET mask == ComplexDerivation(x, derived, AnyType)
      counts == x.counts[derived]
  IN  IF mask # NotDerived THEN mask
      ELSE IF counts.simpleBase # NoType THEN counts.simpleMask \union {"restriction"}
      ELSE NotDerived

(* The cases of derivation, by the sorts of the two types.                 *)
Answer(x, derived, base, scratch) ==
  LET isComplex(t) == t \in DOMAIN x.complexIn
      plain(mask) == [mask |-> mask, scratch |-> scratch]
      anchor == x.counts[derived].simpleBase
      below == SimpleDerivation(x, anchor, base, scratch)
  IN  IF base = AnyType
        THEN plain(IF isComplex(derived) THEN ComplexAnyTypeDerivation(x, derived) ELSE {"restriction"})
      ELSE IF isComplex(derived) /\ isComplex(base) THEN plain(ComplexDerivation(x, derived, base))
      ELSE IF isComplex(base) THEN plain(NotDerived)
      ELSE IF ~isComplex(derived) THEN SimpleDerivation(x, derived, base, scratch)
      ELSE IF anchor = NoType THEN plain(NotDerived)
      ELSE [below EXCEPT !.mask = IF @ = NotDerived THEN @ ELSE @ \union x.counts[derived].simpleMask]

Derivation(x, owner, derived, base, scratch) ==
  LET bound == Bound(scratch, owner)
      pair == <<derived, base>>
      known == {i \in DOMAIN bound.memo : bound.memo[i].pair = pair}
      answer == Answer(x, derived, base, bound)
      memo == Append(bound.memo, [pair |-> pair, mask |-> answer.mask])
  IN  IF derived = base THEN [mask |-> {}, scratch |-> bound]
      ELSE IF known # {} THEN [mask |-> bound.memo[CHOOSE i \in known : TRUE].mask, scratch |-> bound]
      ELSE IF Len(bound.memo) < MaxMemoEntries THEN [answer EXCEPT !.scratch.memo = memo]
      ELSE answer

(* Reset, when a session is done with a document.                          *)
ResetScratch(scratch, maxRetained) ==
  LET tooMany == Cardinality(DOMAIN scratch.seen) > maxRetained
  IN  [scratch EXCEPT !.memo = <<>>,
                      !.seen = IF tooMany THEN <<>> ELSE @,
                      !.generation = IF tooMany THEN 0 ELSE @]

-----------------------------------------------------------------------------
(* The definition: all types stand under xs:anyType, each a step below its *)
(* base, and what a member of a union admits, the union admits.            *)

Parent(g, t) ==
  IF t = AnyType THEN NoType
  ELSE IF BaseOf(g, t) = NoType THEN AnyType ELSE BaseOf(g, t)
StepBelow(g, t) == IF t \in Simples(g) THEN {"restriction"} ELSE {g.complex[t].kind}

RECURSIVE PathUp(_, _)
PathUp(g, t) == IF t = NoType THEN <<>> ELSE <<t>> \o PathUp(g, Parent(g, t))

StepsUpTo(g, derived, base) ==
  LET path == PathUp(g, derived)
      n == CHOOSE i \in DOMAIN path : path[i] = base
  IN  UNION {StepBelow(g, path[i]) : i \in 1..n - 1}

RECURSIVE MembersBelow(_, _)
MembersBelow(g, s) ==
  {s} \union UNION {MembersBelow(g, m) : m \in ToSet(g.simple[s].union)}

(* What the path up from derived meets: the base, or one of its members.   *)
Met(g, derived, base) ==
  (IF base \in Simples(g) THEN MembersBelow(g, base) ELSE {base}) \intersect ToSet(PathUp(g, derived))

Methods(g, derived, base) ==
  LET met == Met(g, derived, base)
  IN  IF met = {} THEN NotDerived
      ELSE IF base \in met THEN StepsUpTo(g, derived, base)
      ELSE StepsUpTo(g, derived, CHOOSE t \in met : TRUE) \union {"restriction"}

TypesBetween(g, derived, base) ==
  LET path == PathUp(g, derived)
  IN  {path[i] : i \in {k \in 2..Len(path) : \E n \in DOMAIN path : n > k /\ path[n] \in Met(g, derived, base)}}
=============================================================================
