------------------------------- MODULE Facets -------------------------------
(***************************************************************************)
(* Restriction of simple types by facets: a type starts as a copy of its   *)
(* base, each facet of the step is compiled into the copy, the result is   *)
(* compared with the base, audited when the schema is published, and may   *)
(* then be the base of another step.  A text stands for a literal after    *)
(* white space was normalised; a pattern is the set of texts it matches.   *)
(***************************************************************************)
EXTENDS Naturals, Sequences, FiniteSets

CONSTANTS
  Texts,         \* literals
  Kinds,         \* primitive types and varieties that are restricted
  Family,        \* what facets a kind has
  Space,         \* for each kind, the texts that are literals of it
  Order,         \* how two texts compare as values
  Written,       \* how two texts compare when a step is compared with its base
  RawKinds,      \* xs:time: that comparison takes the text as it is written
  StepKinds,     \* decimal and time: each bound is compared by itself
  PartialKinds,  \* kinds whose bounds may be incomparable
  Same,          \* pairs of texts with one value
  SizeOf,        \* what each size facet counts in a text
  WhiteSpaceOf,  \* 0 preserve, 1 replace, 2 collapse
  Offers,        \* bound: for each kind, facets a step may declare
  MaxDeclared,   \* bound: facets of one step
  MaxDepth,      \* bound: types that are restricted further
  NoValue

Bounds == {"minInclusive", "maxInclusive", "minExclusive", "maxExclusive"}
Lengths == {"length", "minLength", "maxLength"}
Sizes == Lengths \union {"totalDigits", "fractionDigits"}
Single == Bounds \union Sizes \union {"whiteSpace"}
Relations == {"less", "equal", "greater", "incomparable"}
Sides == {"lower", "upper"}

Inclusive == [lower |-> "minInclusive", upper |-> "maxInclusive"]
Exclusive == [lower |-> "minExclusive", upper |-> "maxExclusive"]
Inside == [lower |-> "greater", upper |-> "less"]

(* atomicFacetAllowed and its counterparts of lists and unions.            *)
Allowed ==
  LET always == {"pattern", "enumeration", "whiteSpace"}
  IN  [decimal  |-> Bounds \union {"totalDigits", "fractionDigits"} \union always,
       ordered  |-> Bounds \union always,
       measured |-> Lengths \union always,
       plain    |-> always,
       list     |-> Lengths \union always,
       union    |-> {"pattern", "enumeration"}]

ASSUME FacetsAssumption ==
  /\ Family \in [Kinds -> DOMAIN Allowed]
  /\ Space \in [Kinds -> SUBSET Texts]
  /\ Order \in [Kinds -> [Texts \X Texts -> Relations]]
  /\ Written \in [Kinds -> [Texts \X Texts -> Relations]]
  /\ Same \in [Kinds -> SUBSET (Texts \X Texts)]
  /\ SizeOf \in [Kinds -> [Sizes -> [Texts -> Nat]]]
  /\ WhiteSpaceOf \in [Kinds -> 0..2]
  /\ NoValue \notin Nat /\ NoValue \notin [text : Texts, of : Nat]
  /\ MaxDeclared \in Nat /\ MaxDepth \in Nat

(* What is declared is a facet with a value of its sort.                   *)
ASSUME OffersAssumption ==
  \A k \in Kinds : \A d \in Offers[k] :
    /\ d.facet \in Single \union {"enumeration", "pattern"} /\ d.fixed \in BOOLEAN
    /\ d.facet \in Sizes => d.value \in Nat
    /\ d.facet = "whiteSpace" => d.value \in 0..2
    /\ d.facet = "pattern" => d.value \in SUBSET Texts

(* What lies inside a bound that lies inside another lies inside that, and *)
(* equal values are interchangeable.                                       *)
Composes(R, a, b, c) ==
  /\ \A r \in {"less", "greater"} :
       /\ R[<<a, b>>] \in {r, "equal"} /\ R[<<b, c>>] = r => R[<<a, c>>] = r
       /\ R[<<a, b>>] = r /\ R[<<b, c>>] \in {r, "equal"} => R[<<a, c>>] = r
  /\ R[<<a, b>>] = "equal" /\ R[<<b, c>>] = "equal" => R[<<a, c>>] = "equal"

(* Values are ordered, and having one value is an equivalence.             *)
ASSUME OrderAssumption ==
  \A k \in Kinds, a, b, c \in Texts :
    /\ Composes(Order[k], a, b, c)
    /\ <<a, a>> \in Same[k]
    /\ <<a, b>> \in Same[k] /\ <<b, c>> \in Same[k] => <<a, c>> \in Same[k]

(* The order of literals of a kind has two directions, and it is total on  *)
(* the values that compare with any, unless the kind is partial.  A step   *)
(* is compared with its base by this order, in which every literal, NaN    *)
(* too, equals itself, or by an order of the texts as they are written.    *)
ASSUME ComparisonAssumption ==
  /\ RawKinds \subseteq StepKinds
  /\ \A k \in Kinds : \A a, b \in Space[k] :
       /\ Order[k][<<a, b>>] = "less" <=> Order[k][<<b, a>>] = "greater"
       /\ Order[k][<<a, b>>] = "equal" => Order[k][<<b, a>>] = "equal"
       /\ Written[k][<<a, a>>] = "equal"
  /\ \A k \in Kinds \ PartialKinds : \A a, b, c \in Space[k] :
       Order[k][<<a, b>>] # "incomparable" /\ Order[k][<<a, c>>] # "incomparable" => Order[k][<<b, c>>] # "incomparable"
  /\ \A k \in Kinds \ RawKinds : \A a, b \in Space[k] :
       Order[k][<<a, b>>] # "incomparable" => Written[k][<<a, b>>] = Order[k][<<a, b>>]
  /\ \A k \in Kinds \intersect RawKinds : \A a, b, c \in Space[k] : Composes(Written[k], a, b, c)

VARIABLES
  types,   \* the types restricted so far, each the base of the next
  type,    \* the copy that is compiled
  step,    \* what the step has declared: facets, enumeration, patterns
  stage,   \* "open", "compiled", "published", "refused" or "defect"
  error    \* why it was refused

vars == <<types, type, step, stage, error>>

Base == types[Len(types)]
Kind == Base.kind
NewStep == [declared |-> {}, count |-> 0, enumeration |-> {}, patterns |-> {}]

(* A built-in type without facets.                                         *)
Root(k) ==
  [kind |-> k, bounds |-> [f \in Bounds |-> NoValue], sizes |-> [c \in Sizes |-> NoValue],
   whiteSpace |-> WhiteSpaceOf[k], fixed |-> {}, enumeration |-> {}, patterns |-> <<>>]

Init ==
  /\ \E k \in Kinds : types = <<Root(k)>> /\ type = Root(k)
  /\ step = NewStep /\ stage = "open" /\ error = "none"

-----------------------------------------------------------------------------
(* What a type accepts.                                                    *)

(* OrderedFacetLowerBoundAccepts and OrderedFacetUpperBoundAccepts.        *)
Admitted == [minInclusive |-> {"equal", "greater"}, maxInclusive |-> {"equal", "less"},
             minExclusive |-> {"greater"}, maxExclusive |-> {"less"}]

BoundsHold(k, bounds, t) ==
  \A f \in Bounds : bounds[f] # NoValue => Order[k][<<t, bounds[f].text>>] \in Admitted[f]

Fits(c, n, limit) ==
  /\ c = "length" => n = limit
  /\ c = "minLength" => n >= limit
  /\ c \in {"maxLength", "totalDigits", "fractionDigits"} => n <= limit

SizesHold(k, sizes, t) == \A c \in Sizes : sizes[c] # NoValue => Fits(c, SizeOf[k][c][t], sizes[c])

EnumerationHolds(k, enumeration, t) ==
  enumeration = {} \/ \E literal \in enumeration : <<t, literal.text>> \in Same[k]

PatternsHold(patterns, t) == \A i \in DOMAIN patterns : \E p \in patterns[i] : t \in p

Accepts(st, t) ==
  /\ t \in Space[st.kind]
  /\ SizesHold(st.kind, st.sizes, t)
  /\ BoundsHold(st.kind, st.bounds, t)
  /\ PatternsHold(st.patterns, t)
  /\ EnumerationHolds(st.kind, st.enumeration, t)

-----------------------------------------------------------------------------
(* The comparison of a type with its base.                                 *)

(* Slip: a stale inclusive bound hides the exclusive one of a later step.  *)
InclusiveFirst(bounds, side, R) ==
  IF bounds[Inclusive[side]] # NoValue THEN Inclusive[side] ELSE Exclusive[side]

(* The facet that bounds a side: the exclusive one if it is at least as    *)
(* tight as the inclusive one of this or an earlier step.                  *)
FacetBound(bounds, side, R) ==
  LET inclusive == bounds[Inclusive[side]]
      exclusive == bounds[Exclusive[side]]
  IN  IF exclusive # NoValue /\ (inclusive = NoValue \/ R[<<exclusive.text, inclusive.text>>] \in {"equal", Inside[side]})
      THEN Exclusive[side] ELSE Inclusive[side]

(* OrderedFacetLowerRestricts and OrderedFacetUpperRestricts: one bound    *)
(* against another of the same side.                                       *)
AtLeastAsTight(side, f, g, relation) ==
  \/ relation = Inside[side]
  \/ relation = "equal" /\ (f = Exclusive[side] \/ g = Inclusive[side])

(* The relation that chooses between two bounds of a side.                 *)
Preference(k) == IF k \in RawKinds THEN Written[k] ELSE Order[k]

OrderedFacetsRestrict(k, derived, base) ==
  \A side \in Sides :
    LET f == FacetBound(derived, side, Preference(k))
        g == FacetBound(base, side, Preference(k))
    IN  base[g] # NoValue =>
          derived[f] # NoValue /\ AtLeastAsTight(side, f, g, Written[k][<<derived[f].text, base[g].text>>])

(* validateDecimalFacetRestriction and validateTimeFacetRestriction.       *)
DeclaredBoundsRestrict(k, declared, derived, base) ==
  k \in StepKinds =>
    \A side \in Sides :
      LET g == FacetBound(base, side, Preference(k))
      IN  \A f \in {Inclusive[side], Exclusive[side]} \intersect declared :
            base[g] # NoValue => AtLeastAsTight(side, f, g, Written[k][<<derived[f].text, base[g].text>>])

(* ValidateOrderedFacetBounds *)
BoundsConsistent(k, bounds) ==
  LET lower == FacetBound(bounds, "lower", Order[k])
      upper == FacetBound(bounds, "upper", Order[k])
      relation == Order[k][<<bounds[lower].text, bounds[upper].text>>]
  IN  bounds[lower] # NoValue /\ bounds[upper] # NoValue =>
        \/ relation = "less"
        \/ relation = "equal" /\ lower = "minInclusive" /\ upper = "maxInclusive"
        \/ relation = "incomparable" /\ k \in PartialKinds

Both(sizes, c, d) == sizes[c] # NoValue /\ sizes[d] # NoValue

SizesConsistent(sizes) ==
  /\ Both(sizes, "length", "minLength") => sizes["length"] >= sizes["minLength"]
  /\ Both(sizes, "length", "maxLength") => sizes["length"] <= sizes["maxLength"]
  /\ Both(sizes, "minLength", "maxLength") => sizes["minLength"] <= sizes["maxLength"]
  /\ Both(sizes, "totalDigits", "fractionDigits") => sizes["fractionDigits"] <= sizes["totalDigits"]

(* A length may stand beside another bound only if the base has that bound *)
(* already, which goes back to a type that has it without a length.        *)
SizeAncestry(derived, base) ==
  \A c \in {"minLength", "maxLength"} : Both(derived, "length", c) => derived[c] = base[c]

SizesRestrict(derived, base) ==
  \A c \in Sizes : base[c] # NoValue => derived[c] # NoValue /\ Fits(c, derived[c], base[c])

(* Literals are compared as values, sizes and white space as they are.     *)
FixedPreserved(derived, base) ==
  \A f \in base.fixed :
    /\ f \in Sizes => derived.sizes[f] = base.sizes[f]
    /\ f = "whiteSpace" => derived.whiteSpace = base.whiteSpace
    /\ f \in Bounds => /\ base.bounds[f] # NoValue /\ derived.bounds[f] # NoValue
                       /\ <<derived.bounds[f].text, base.bounds[f].text>> \in Same[base.kind]

(* ValidateCompiledFacets: the first rule the step breaks.                 *)
Fault(derived, base, declared) ==
  IF ~SizesConsistent(derived.sizes) THEN "sizes conflict"
  ELSE IF ~SizeAncestry(derived.sizes, base.sizes) THEN "no ancestor"
  ELSE IF ~SizesRestrict(derived.sizes, base.sizes) THEN "sizes loosen"
  ELSE IF \E side \in Sides : {Inclusive[side], Exclusive[side]} \subseteq declared THEN "both bounds"
  ELSE IF ~FixedPreserved(derived, base) THEN "fixed"
  ELSE IF ~DeclaredBoundsRestrict(base.kind, declared, derived.bounds, base.bounds) THEN "bounds loosen"
  ELSE IF ~BoundsConsistent(base.kind, derived.bounds) THEN "bounds exclude all"
  ELSE IF declared \intersect Bounds # {} /\ ~OrderedFacetsRestrict(base.kind, derived.bounds, base.bounds)
    THEN "bounds loosen"
  ELSE "none"

-----------------------------------------------------------------------------
(* One step, facet by facet.                                               *)

Refuse(reason) == stage' = "refused" /\ error' = reason /\ UNCHANGED <<types, type, step>>
Keep == UNCHANGED <<types, stage, error>>

(* A facet the kind does not have, or one that stands in the step already. *)
Misplaced(f) == f \notin Allowed[Family[Kind]] \/ f \in step.declared \intersect Single
MayDeclare(d) == stage = "open" /\ step.count < MaxDeclared /\ ~Misplaced(d.facet)

Declared(f) == [step EXCEPT !.declared = @ \union {f}, !.count = @ + 1]
Fixes(d) == type.fixed \union (IF d.fixed THEN {d.facet} ELSE {})

(* Slip: a literal is compiled against the primitive type.                 *)
PrimitiveLiteral(t) == IF Accepts(types[1], t) THEN [text |-> t, of |-> Len(types)] ELSE NoValue

(* compileLiteral: the literal of a facet is a value of the base.          *)
CompileLiteral(t) == IF Accepts(Base, t) THEN [text |-> t, of |-> Len(types)] ELSE NoValue

DeclareMisplaced(d) ==
  /\ stage = "open" /\ step.count < MaxDeclared /\ Misplaced(d.facet)
  /\ Refuse("misplaced")

DeclareSize(d) ==
  /\ MayDeclare(d) /\ d.facet \in Sizes
  /\ IF d.facet = "totalDigits" /\ d.value = 0 THEN Refuse("size")
     ELSE /\ type' = [type EXCEPT !.sizes[d.facet] = d.value, !.fixed = Fixes(d)]
          /\ step' = Declared(d.facet) /\ Keep

DeclareBound(d) ==
  /\ MayDeclare(d) /\ d.facet \in Bounds
  /\ IF CompileLiteral(d.value) = NoValue THEN Refuse("literal")
     ELSE /\ type' = [type EXCEPT !.bounds[d.facet] = CompileLiteral(d.value), !.fixed = Fixes(d)]
          /\ step' = Declared(d.facet) /\ Keep

DeclareWhiteSpace(d) ==
  /\ MayDeclare(d) /\ d.facet = "whiteSpace"
  /\ IF d.value < Base.whiteSpace THEN Refuse("white space")
     ELSE /\ type' = [type EXCEPT !.whiteSpace = d.value, !.fixed = Fixes(d)]
          /\ step' = Declared(d.facet) /\ Keep

DeclareEnumeration(d) ==
  /\ MayDeclare(d) /\ d.facet = "enumeration"
  /\ IF CompileLiteral(d.value) = NoValue THEN Refuse("literal")
     ELSE /\ step' = [Declared(d.facet) EXCEPT !.enumeration = @ \union {CompileLiteral(d.value)}]
          /\ UNCHANGED type /\ Keep

DeclarePattern(d) ==
  /\ MayDeclare(d) /\ d.facet = "pattern"
  /\ step' = [Declared(d.facet) EXCEPT !.patterns = @ \union {d.value}]
  /\ UNCHANGED type /\ Keep

(* The enumeration of a step replaces the inherited one; its patterns are  *)
(* one more group.                                                         *)
Applied(st) ==
  [st EXCEPT !.enumeration = IF step.enumeration # {} THEN step.enumeration ELSE @,
             !.patterns = IF step.patterns # {} THEN Append(@, step.patterns) ELSE @]

(* A step without facets is not compared with its base.                    *)
Compile ==
  /\ stage = "open"
  /\ LET fault == IF step.count = 0 THEN "none" ELSE Fault(Applied(type), Base, step.declared)
     IN  /\ stage' = IF fault = "none" THEN "compiled" ELSE "refused"
         /\ error' = fault
  /\ type' = IF step.count = 0 THEN type ELSE Applied(type)
  /\ UNCHANGED <<types, step>>

-----------------------------------------------------------------------------
(* The audit of the finished schema.                                       *)

Present(st) ==
  {f \in Bounds : st.bounds[f] # NoValue} \union {c \in Sizes : st.sizes[c] # NoValue}
  \union {f \in {"enumeration"} : st.enumeration # {}} \union {f \in {"pattern"} : st.patterns # <<>>}

(* validateCompiledFacetLiteral: the literal is a value of an ancestor.    *)
Replays(literal) == literal.of \in 1..Len(types) /\ Accepts(types[literal.of], literal.text)

Audited(st, base) ==
  /\ Present(st) \subseteq Allowed[Family[st.kind]] /\ st.fixed \subseteq Present(st) \union {"whiteSpace"}
  /\ st.kind = base.kind /\ base.whiteSpace <= st.whiteSpace
  /\ SizesConsistent(st.sizes) /\ SizesRestrict(st.sizes, base.sizes)
  /\ BoundsConsistent(st.kind, st.bounds) /\ OrderedFacetsRestrict(st.kind, st.bounds, base.bounds)
  /\ FixedPreserved(st, base)
  /\ \/ st.enumeration = base.enumeration
     \/ st.enumeration # {} /\ \A literal \in st.enumeration : literal.of = Len(types)
  /\ Len(base.patterns) <= Len(st.patterns) /\ SubSeq(st.patterns, 1, Len(base.patterns)) = base.patterns
  /\ \A literal \in st.enumeration \union {st.bounds[f] : f \in Bounds} : literal # NoValue => Replays(literal)

Audit ==
  /\ stage = "compiled"
  /\ stage' = IF Audited(type, Base) THEN "published" ELSE "defect"
  /\ UNCHANGED <<types, type, step, error>>

(* derivedSimpleType: the next step starts as a copy of this type.         *)
Derive ==
  /\ stage = "published" /\ Len(types) < MaxDepth
  /\ types' = Append(types, type)
  /\ step' = NewStep /\ stage' = "open"
  /\ UNCHANGED <<type, error>>

Done == stage \in {"published", "refused", "defect"} /\ UNCHANGED vars

Next ==
  \/ \E d \in Offers[Kind] :
       \/ DeclareMisplaced(d) \/ DeclareSize(d) \/ DeclareBound(d)
       \/ DeclareWhiteSpace(d) \/ DeclareEnumeration(d) \/ DeclarePattern(d)
  \/ Compile \/ Audit \/ Derive \/ Done

Spec == Init /\ [][Next]_vars

-----------------------------------------------------------------------------
TypeOK ==
  /\ types # <<>> /\ type.kind \in Kinds /\ type.whiteSpace \in 0..2
  /\ type.fixed \subseteq Single
  /\ stage \in {"open", "compiled", "published", "refused", "defect"}

Narrower(derived, base) == \A t \in Space[derived.kind] : Accepts(derived, t) => Accepts(base, t)

(* However the facets of several steps overlap, an accepted type takes no  *)
(* literal that one of its ancestors refuses, and a facet that an ancestor *)
(* fixes has the same value in it and is still fixed.                      *)
FacetsNarrow ==
  stage \in {"compiled", "published"} =>
    \A i \in DOMAIN types :
      /\ Narrower(type, types[i])
      /\ FixedPreserved(type, types[i]) /\ types[i].fixed \subseteq type.fixed

(* The bounds of the base that a declared bound is looser than, by the     *)
(* rules of the recommendation for each pair of facets of one side.        *)
LooserThan(side, f) ==
  {g \in {Inclusive[side], Exclusive[side]} :
     /\ Base.bounds[g] # NoValue
     /\ ~AtLeastAsTight(side, f, g, Written[Kind][<<type.bounds[f].text, Base.bounds[g].text>>])}
Looser == {f \in step.declared : \E side \in Sides : f \in {Inclusive[side], Exclusive[side]} /\ LooserThan(side, f) # {}}

(* A bound may stand beside a length if some ancestor has it without one.  *)
Unfounded == {c \in {"minLength", "maxLength"} :
                Both(type.sizes, "length", c)
                /\ ~\E i \in DOMAIN types : types[i].sizes["length"] = NoValue /\ types[i].sizes[c] = type.sizes[c]}

LooserSizes == {c \in step.declared \intersect Sizes :
                  Base.sizes[c] # NoValue /\ ~Fits(c, type.sizes[c], Base.sizes[c])}

LengthsMeet ==
  {type.sizes[c] : c \in Lengths} = {NoValue}
  \/ \E d \in Lengths : /\ type.sizes[d] # NoValue
                        /\ \A c \in Lengths : type.sizes[c] # NoValue => Fits(c, type.sizes[d], type.sizes[c])

(* minInclusive to maxInclusive and minExclusive to maxExclusive may be    *)
(* equal, the mixed pairs may not; where the order is partial they may be  *)
(* incomparable.                                                           *)
BoundsMeet ==
  \A p \in {Inclusive, Exclusive}, q \in {Inclusive, Exclusive} :
    type.bounds[p["lower"]] # NoValue /\ type.bounds[q["upper"]] # NoValue =>
      LET relation == Order[Kind][<<type.bounds[p["lower"]].text, type.bounds[q["upper"]].text>>]
      IN  \/ relation = "less"
          \/ relation = "equal" /\ p = q
          \/ relation = "incomparable" /\ Kind \in PartialKinds

(* A step is refused for something the recommendation forbids, and then    *)
(* only: bounds that leave no value, a declared bound or size that admits  *)
(* what the base does not, a length without an ancestor for the bound      *)
(* beside it, a fixed facet declared with another value.  What inherited   *)
(* facets are is never the reason, whichever values do not equal           *)
(* themselves, and what the compiler accepts passes the audit.             *)
RefusalsAreReal ==
  /\ stage # "defect"
  /\ error = "bounds exclude all" => \A t \in Space[Kind] : ~BoundsHold(Kind, type.bounds, t)
  /\ error = "bounds loosen" => Looser # {}
  /\ error = "sizes conflict" => ~LengthsMeet \/ (/\ Both(type.sizes, "totalDigits", "fractionDigits")
                                                       /\ type.sizes["totalDigits"] < type.sizes["fractionDigits"])
  /\ error = "no ancestor" => Unfounded \union LooserSizes # {}
  /\ error = "sizes loosen" => LooserSizes # {}
  /\ error = "fixed" => \E f \in Base.fixed \intersect step.declared :
                          IF f \in Bounds THEN <<type.bounds[f].text, Base.bounds[f].text>> \notin Same[Kind]
                          ELSE IF f \in Sizes THEN type.sizes[f] # Base.sizes[f]
                          ELSE type.whiteSpace # Base.whiteSpace
  /\ stage = "compiled" => Looser = {} /\ LooserSizes = {} /\ BoundsMeet /\ LengthsMeet /\ Unfounded = {}
=============================================================================
