----------------------------- MODULE FacetProofs -----------------------------
(***************************************************************************)
(* Proof that restriction by facets narrows, for every order of values,    *)
(* every set of literals and patterns and chains of every length.  The     *)
(* invariant says why: while a step is open, each bound of the copy is the *)
(* one of the base or a literal that the base accepts, so are the literals *)
(* of the step's enumeration, and what the sizes allow is compared when    *)
(* the step is compiled.  The second half proves that a type refused for    *)
(* what its facets leave is refused for a reason: of the bounds of a side  *)
(* the later lies inside the earlier, so the tightest decides whether they *)
(* meet, and the rules compare what a step declares with what it inherits. *)
(***************************************************************************)
EXTENDS Facets, TLAPS

Literal == [text : Texts, of : Nat]

Record ==
  [kind : Kinds, bounds : [Bounds -> Literal \union {NoValue}], sizes : [Sizes -> Nat \union {NoValue}],
   whiteSpace : 0..2, fixed : SUBSET Single, enumeration : SUBSET Literal,
   patterns : Seq(SUBSET (SUBSET Texts))]

WellFormed(st) == st \in Record /\ \A f \in st.fixed \intersect Bounds : st.bounds[f] # NoValue

Restricts(derived, base) ==
  /\ derived.kind = base.kind
  /\ Narrower(derived, base) /\ FixedPreserved(derived, base) /\ base.fixed \subseteq derived.fixed

StepOK ==
  step \in [declared : SUBSET (Single \union {"enumeration", "pattern"}), count : Nat,
            enumeration : SUBSET Literal, patterns : SUBSET (SUBSET Texts)]

(* The copy while its step is open.                                        *)
CopyOK ==
  /\ type.kind = Base.kind /\ type.patterns = Base.patterns /\ type.enumeration = Base.enumeration
  /\ Base.fixed \subseteq type.fixed
  /\ \A f \in Bounds : \/ type.bounds[f] = Base.bounds[f]
                       \/ type.bounds[f] \in Literal /\ Accepts(Base, type.bounds[f].text)
  /\ \A literal \in step.enumeration : Accepts(Base, literal.text)
  /\ step.count = 0 => type = Base

ChainOK ==
  /\ types \in Seq(Record) /\ types # <<>>
  /\ \A i \in DOMAIN types : WellFormed(types[i])
  /\ \A i, j \in DOMAIN types : i < j => Restricts(types[j], types[i])

IInv ==
  /\ ChainOK /\ WellFormed(type) /\ StepOK
  /\ stage = "open" => CopyOK
  /\ stage \in {"compiled", "published"} => \A i \in DOMAIN types : Restricts(type, types[i])

-----------------------------------------------------------------------------
(* A literal inside a bound that lies inside another lies inside that.     *)
LEMMA BoundsCompose ==
  ASSUME NEW k \in Kinds, NEW f \in Bounds, NEW a \in Texts, NEW b \in Texts, NEW c \in Texts,
         Order[k][<<a, b>>] \in Admitted[f], Order[k][<<b, c>>] \in Admitted[f]
  PROVE  Order[k][<<a, c>>] \in Admitted[f]
<1>0. Composes(Order[k], a, b, c)
  BY OrderAssumption
<1>1. \A r \in {"less", "greater"} :
        /\ Order[k][<<a, b>>] \in {r, "equal"} /\ Order[k][<<b, c>>] = r => Order[k][<<a, c>>] = r
        /\ Order[k][<<a, b>>] = r /\ Order[k][<<b, c>>] \in {r, "equal"} => Order[k][<<a, c>>] = r
  BY <1>0 DEF Composes
<1>2. Order[k][<<a, b>>] = "equal" /\ Order[k][<<b, c>>] = "equal" => Order[k][<<a, c>>] = "equal"
  BY <1>0 DEF Composes
<1> DEFINE x == Order[k][<<a, b>>]
           y == Order[k][<<b, c>>]
           z == Order[k][<<a, c>>]
<1> HIDE DEF x, y, z
<1>3. CASE f \in {"minInclusive", "minExclusive"}
  <2>1. (x \in {"greater", "equal"} /\ y = "greater" => z = "greater") /\ (x = "greater" /\ y \in {"greater", "equal"} => z = "greater")
    BY <1>1 DEF x, y, z
  <2> QED BY <1>2, <1>3, <2>1 DEF Admitted, x, y, z
<1>4. CASE f \in {"maxInclusive", "maxExclusive"}
  <2>1. (x \in {"less", "equal"} /\ y = "less" => z = "less") /\ (x = "less" /\ y \in {"less", "equal"} => z = "less")
    BY <1>1 DEF x, y, z
  <2> QED BY <1>2, <1>4, <2>1 DEF Admitted, x, y, z
<1> QED BY <1>3, <1>4 DEF Bounds

LEMMA SameComposes ==
  ASSUME NEW k \in Kinds, NEW a \in Texts, NEW b \in Texts, NEW c \in Texts, <<a, b>> \in Same[k], <<b, c>> \in Same[k]
  PROVE  <<a, c>> \in Same[k]
  BY OrderAssumption

LEMMA SizesCompose ==
  ASSUME NEW c \in Sizes, NEW n \in Nat, NEW l \in Nat, NEW m \in Nat, Fits(c, n, l), Fits(c, l, m)
  PROVE  Fits(c, n, m)
  BY DEF Fits, Sizes, Lengths

(* One step narrows the base if each facet is inherited, tightened by a    *)
(* size that fits, or given by literals of the base.                       *)
LEMMA StepNarrows ==
  ASSUME NEW derived \in Record, NEW base \in Record, NEW group,
         derived.kind = base.kind,
         \A f \in Bounds : \/ derived.bounds[f] = base.bounds[f]
                           \/ derived.bounds[f] \in Literal /\ Accepts(base, derived.bounds[f].text),
         SizesRestrict(derived.sizes, base.sizes),
         \/ derived.enumeration = base.enumeration
         \/ derived.enumeration # {} /\ \A e \in derived.enumeration : Accepts(base, e.text),
         derived.patterns = base.patterns \/ derived.patterns = Append(base.patterns, group)
  PROVE  Narrower(derived, base)
<1> SUFFICES ASSUME NEW t \in Space[derived.kind], Accepts(derived, t) PROVE Accepts(base, t)
  BY DEF Narrower
<1> DEFINE k == base.kind
<1>0. k \in Kinds /\ t \in Texts /\ Space[k] \subseteq Texts
  BY FacetsAssumption DEF Record
<1>1. SizesHold(k, base.sizes, t)
  <2> SUFFICES ASSUME NEW c \in Sizes, base.sizes[c] # NoValue PROVE Fits(c, SizeOf[k][c][t], base.sizes[c])
    BY DEF SizesHold
  <2>1. derived.sizes[c] # NoValue /\ Fits(c, derived.sizes[c], base.sizes[c])
    BY DEF SizesRestrict
  <2>2. Fits(c, SizeOf[k][c][t], derived.sizes[c])
    BY <2>1 DEF Accepts, SizesHold
  <2>3. derived.sizes[c] \in Nat /\ base.sizes[c] \in Nat
    BY <2>1 DEF Record
  <2>4. SizeOf[k][c][t] \in Nat
    BY <1>0, FacetsAssumption
  <2> QED BY <2>1, <2>2, <2>3, <2>4, SizesCompose
<1>2. BoundsHold(k, base.bounds, t)
  <2> SUFFICES ASSUME NEW f \in Bounds, base.bounds[f] # NoValue
               PROVE  Order[k][<<t, base.bounds[f].text>>] \in Admitted[f]
    BY DEF BoundsHold
  <2>1. CASE derived.bounds[f] = base.bounds[f]
    BY <2>1 DEF Accepts, BoundsHold
  <2>2. CASE derived.bounds[f] \in Literal /\ Accepts(base, derived.bounds[f].text)
    <3>1. derived.bounds[f] # NoValue /\ derived.bounds[f].text \in Texts
      BY <2>2, FacetsAssumption DEF Literal
    <3>2. base.bounds[f].text \in Texts
      BY DEF Record, Literal
    <3>3. Order[k][<<t, derived.bounds[f].text>>] \in Admitted[f]
      BY <3>1 DEF Accepts, BoundsHold
    <3>4. Order[k][<<derived.bounds[f].text, base.bounds[f].text>>] \in Admitted[f]
      BY <2>2 DEF Accepts, BoundsHold
    <3> QED BY <1>0, <3>1, <3>2, <3>3, <3>4, BoundsCompose
  <2> QED BY <2>1, <2>2
<1>3. PatternsHold(base.patterns, t)
  <2> SUFFICES ASSUME NEW i \in DOMAIN base.patterns PROVE \E p \in base.patterns[i] : t \in p
    BY DEF PatternsHold
  <2>1. base.patterns \in Seq(SUBSET (SUBSET Texts))
    BY DEF Record
  <2>2. i \in DOMAIN derived.patterns /\ derived.patterns[i] = base.patterns[i]
    BY <2>1
  <2> QED BY <2>2 DEF Accepts, PatternsHold
<1>4. EnumerationHolds(k, base.enumeration, t)
  <2>1. CASE derived.enumeration = base.enumeration
    BY <2>1 DEF Accepts
  <2>2. CASE derived.enumeration # {} /\ \A e \in derived.enumeration : Accepts(base, e.text)
    <3> SUFFICES ASSUME base.enumeration # {} PROVE \E literal \in base.enumeration : <<t, literal.text>> \in Same[k]
      BY DEF EnumerationHolds
    <3>1. PICK e \in derived.enumeration : <<t, e.text>> \in Same[k]
      BY <2>2 DEF Accepts, EnumerationHolds
    <3>2. PICK b \in base.enumeration : <<e.text, b.text>> \in Same[k]
      BY <2>2 DEF Accepts, EnumerationHolds
    <3>3. e.text \in Texts /\ b.text \in Texts
      BY DEF Record, Literal
    <3> QED BY <1>0, <3>1, <3>2, <3>3, SameComposes
  <2> QED BY <2>1, <2>2
<1> QED BY <1>1, <1>2, <1>3, <1>4 DEF Accepts

LEMMA RestrictsReflexive ==
  ASSUME NEW st, WellFormed(st)
  PROVE  Restricts(st, st)
<1>1. \A f \in st.fixed \intersect Bounds : st.bounds[f].text \in Texts /\ st.kind \in Kinds
  BY DEF WellFormed, Record, Literal
<1>2. FixedPreserved(st, st)
  BY <1>1, OrderAssumption DEF FixedPreserved, WellFormed
<1> QED BY <1>2 DEF Restricts, Narrower

LEMMA RestrictsTransitive ==
  ASSUME NEW a, NEW b, NEW c, WellFormed(a), WellFormed(b), WellFormed(c), Restricts(a, b), Restricts(b, c)
  PROVE  Restricts(a, c)
<1>1. Narrower(a, c)
  BY DEF Restricts, Narrower, Accepts
<1>2. FixedPreserved(a, c)
  <2> SUFFICES ASSUME NEW f \in c.fixed
               PROVE  /\ f \in Sizes => a.sizes[f] = c.sizes[f]
                      /\ f = "whiteSpace" => a.whiteSpace = c.whiteSpace
                      /\ f \in Bounds => /\ c.bounds[f] # NoValue /\ a.bounds[f] # NoValue
                                         /\ <<a.bounds[f].text, c.bounds[f].text>> \in Same[c.kind]
    BY DEF FixedPreserved
  <2>1. f \in b.fixed
    BY DEF Restricts
  <2>2. f \in Bounds => /\ c.bounds[f] # NoValue /\ b.bounds[f] # NoValue /\ a.bounds[f] # NoValue
                        /\ <<a.bounds[f].text, b.bounds[f].text>> \in Same[c.kind]
                        /\ <<b.bounds[f].text, c.bounds[f].text>> \in Same[c.kind]
    BY <2>1 DEF Restricts, FixedPreserved
  <2>3. f \in Bounds => a.bounds[f].text \in Texts /\ b.bounds[f].text \in Texts /\ c.bounds[f].text \in Texts
    BY <2>2 DEF WellFormed, Record, Literal
  <2>4. c.kind \in Kinds
    BY DEF WellFormed, Record
  <2>5. f \in Bounds => <<a.bounds[f].text, c.bounds[f].text>> \in Same[c.kind]
    BY <2>2, <2>3, <2>4, SameComposes
  <2> QED BY <2>1, <2>2, <2>5 DEF Restricts, FixedPreserved
<1> QED BY <1>1, <1>2 DEF Restricts

LEMMA LiteralsAreTyped ==
  ASSUME NEW t, ChainOK, CompileLiteral(t) # NoValue
  PROVE  CompileLiteral(t) \in Literal /\ Accepts(Base, CompileLiteral(t).text)
<1>1. Base \in Record /\ Len(types) \in Nat
  BY DEF ChainOK, Base
<1>2. Accepts(Base, t) /\ CompileLiteral(t) = [text |-> t, of |-> Len(types)]
  BY DEF CompileLiteral
<1>3. t \in Texts
  BY <1>1, <1>2, FacetsAssumption DEF Accepts, Record
<1> QED BY <1>1, <1>2, <1>3 DEF Literal

-----------------------------------------------------------------------------
LEMMA Initially == Init => IInv
<1> SUFFICES ASSUME Init PROVE IInv
  OBVIOUS
<1>1. PICK k \in Kinds : types = <<Root(k)>> /\ type = Root(k)
  BY DEF Init
<1>2. Root(k) \in Record
  BY FacetsAssumption DEF Root, Record
<1>3. WellFormed(Root(k))
  BY <1>2 DEF WellFormed, Root
<1>4. ChainOK
  BY <1>1, <1>2, <1>3 DEF ChainOK
<1>5. StepOK
  BY DEF Init, NewStep, StepOK
<1>6. CopyOK
  BY <1>1 DEF Init, NewStep, CopyOK, Base
<1> QED BY <1>1, <1>3, <1>4, <1>5, <1>6 DEF IInv, Init

(* A facet that is declared keeps the copy in place.                       *)
LEMMA DeclarationPreserves ==
  ASSUME IInv, NEW d \in Offers[Kind],
         DeclareSize(d) \/ DeclareBound(d) \/ DeclareWhiteSpace(d) \/ DeclareEnumeration(d) \/ DeclarePattern(d)
  PROVE  IInv'
<1> USE DEF IInv
<1>0. CASE stage' = "refused"
  <2>1. UNCHANGED <<types, type, step>>
    BY <1>0 DEF DeclareSize, DeclareBound, DeclareWhiteSpace, DeclareEnumeration, DeclarePattern,
                MayDeclare, Keep, Refuse
  <2> QED BY <1>0, <2>1 DEF ChainOK, WellFormed, StepOK
<1>1. CASE stage' # "refused"
  <2>1. /\ stage = "open" /\ stage' = "open" /\ types' = types /\ CopyOK /\ d.facet \in Single \union {"enumeration", "pattern"}
    BY <1>1 DEF DeclareSize, DeclareBound, DeclareWhiteSpace, DeclareEnumeration, DeclarePattern,
                MayDeclare, Keep, Refuse, Single
  <2>2. ChainOK' /\ Base' = Base /\ Base \in Record
    BY <2>1 DEF ChainOK, Base
  <2>3. Kind \in Kinds
    BY <2>2 DEF Kind, Record
  <2>4. /\ d.facet \in Sizes => d.value \in Nat
        /\ d.facet = "whiteSpace" => d.value \in 0..2
        /\ d.facet = "pattern" => d.value \in SUBSET Texts
    BY <2>3, OffersAssumption
  <2>0. /\ Declared(d.facet) \in [declared : SUBSET (Single \union {"enumeration", "pattern"}), count : Nat,
                                  enumeration : SUBSET Literal, patterns : SUBSET (SUBSET Texts)]
        /\ Declared(d.facet).count # 0 /\ Declared(d.facet).enumeration = step.enumeration
    <3>1. step \in [declared : SUBSET (Single \union {"enumeration", "pattern"}), count : Nat,
                   enumeration : SUBSET Literal, patterns : SUBSET (SUBSET Texts)]
      BY DEF StepOK
    <3>2. step.count + 1 \in Nat /\ step.count + 1 # 0
      BY <3>1
    <3>3. step.declared \union {d.facet} \in SUBSET (Single \union {"enumeration", "pattern"})
      BY <2>1, <3>1
    <3>4. Declared(d.facet) = [step EXCEPT !.declared = step.declared \union {d.facet}, !.count = step.count + 1]
      BY DEF Declared
    <3> QED BY <3>1, <3>2, <3>3, <3>4
  <2>5. StepOK' /\ step'.count # 0 /\ \A literal \in step'.enumeration : Accepts(Base, literal.text)
    <3>1. CASE DeclareSize(d) \/ DeclareBound(d) \/ DeclareWhiteSpace(d)
      <4>1. step' = Declared(d.facet)
        BY <1>1, <3>1 DEF DeclareSize, DeclareBound, DeclareWhiteSpace, Refuse
      <4> QED BY <2>0, <2>1, <4>1 DEF StepOK, CopyOK
    <3>2. CASE DeclareEnumeration(d)
      <4>1. CompileLiteral(d.value) # NoValue
        BY <1>1, <3>2 DEF DeclareEnumeration, Refuse
      <4>2. step' = [Declared(d.facet) EXCEPT !.enumeration = @ \union {CompileLiteral(d.value)}]
        BY <3>2, <4>1 DEF DeclareEnumeration
      <4>3. CompileLiteral(d.value) \in Literal /\ Accepts(Base, CompileLiteral(d.value).text)
        BY <4>1, LiteralsAreTyped
      <4> QED BY <2>0, <2>1, <4>2, <4>3 DEF StepOK, CopyOK
    <3>3. CASE DeclarePattern(d)
      <4>1. step' = [Declared(d.facet) EXCEPT !.patterns = @ \union {d.value}] /\ d.value \in SUBSET Texts
        BY <2>4, <3>3 DEF DeclarePattern
      <4> QED BY <2>0, <2>1, <4>1 DEF StepOK, CopyOK
    <3> QED BY <3>1, <3>2, <3>3
  <2>6. /\ WellFormed(type') /\ type'.kind = type.kind
        /\ type'.patterns = type.patterns /\ type'.enumeration = type.enumeration
        /\ type.fixed \subseteq type'.fixed
        /\ \A f \in Bounds : \/ type'.bounds[f] = type.bounds[f]
                             \/ type'.bounds[f] \in Literal /\ Accepts(Base, type'.bounds[f].text)
    <3>1. CASE DeclareSize(d)
      <4>1. type' = [type EXCEPT !.sizes[d.facet] = d.value, !.fixed = Fixes(d)] /\ d.facet \in Sizes
        BY <1>1, <3>1 DEF DeclareSize, Refuse
      <4>2. Fixes(d) \in SUBSET Single /\ type.fixed \subseteq Fixes(d) /\ Fixes(d) \intersect Bounds \subseteq type.fixed
        BY <4>1 DEF Fixes, WellFormed, Record, Single, Sizes, Lengths, Bounds
      <4> QED BY <2>4, <4>1, <4>2 DEF WellFormed, Record
    <3>2. CASE DeclareBound(d)
      <4>1. /\ type' = [type EXCEPT !.bounds[d.facet] = CompileLiteral(d.value), !.fixed = Fixes(d)]
            /\ d.facet \in Bounds /\ CompileLiteral(d.value) # NoValue
        BY <1>1, <3>2 DEF DeclareBound, Refuse
      <4>2. CompileLiteral(d.value) \in Literal /\ Accepts(Base, CompileLiteral(d.value).text)
        BY <4>1, LiteralsAreTyped
      <4>3. Fixes(d) \in SUBSET Single /\ type.fixed \subseteq Fixes(d) /\ Fixes(d) \subseteq type.fixed \union {d.facet}
        BY <4>1 DEF Fixes, WellFormed, Record, Single
      <4> QED BY <4>1, <4>2, <4>3 DEF WellFormed, Record
    <3>3. CASE DeclareWhiteSpace(d)
      <4>1. type' = [type EXCEPT !.whiteSpace = d.value, !.fixed = Fixes(d)] /\ d.facet = "whiteSpace"
        BY <1>1, <3>3 DEF DeclareWhiteSpace, Refuse
      <4>2. Fixes(d) \in SUBSET Single /\ type.fixed \subseteq Fixes(d) /\ Fixes(d) \intersect Bounds \subseteq type.fixed
        BY <4>1 DEF Fixes, WellFormed, Record, Single, Bounds
      <4> QED BY <2>4, <4>1, <4>2 DEF WellFormed, Record
    <3>4. CASE DeclareEnumeration(d) \/ DeclarePattern(d)
      <4>1. type' = type
        BY <3>4 DEF DeclareEnumeration, DeclarePattern, Refuse
      <4> QED BY <4>1
    <3> QED BY <3>1, <3>2, <3>3, <3>4
  <2>7. CopyOK'
    BY <2>1, <2>2, <2>5, <2>6 DEF CopyOK
  <2> QED BY <2>1, <2>2, <2>5, <2>6, <2>7
<1> QED BY <1>0, <1>1

LEMMA AppliedIsRecord == ASSUME StepOK, type \in Record PROVE Applied(type) \in Record
<1> DEFINE enumeration == IF step.enumeration # {} THEN step.enumeration ELSE type.enumeration
           patterns == IF step.patterns # {} THEN Append(type.patterns, step.patterns) ELSE type.patterns
<1>1. enumeration \in SUBSET Literal
  BY DEF StepOK, Record
<1>2. patterns \in Seq(SUBSET (SUBSET Texts))
  <2>1. type.patterns \in Seq(SUBSET (SUBSET Texts)) /\ step.patterns \in SUBSET (SUBSET Texts)
    BY DEF StepOK, Record
  <2> QED BY <2>1
<1>3. Applied(type) = [type EXCEPT !.enumeration = enumeration, !.patterns = patterns]
  BY DEF Applied
<1> HIDE DEF enumeration, patterns
<1> QED BY <1>1, <1>2, <1>3 DEF Record

(* What is compiled restricts the base, and with it all its ancestors.     *)
LEMMA CompilePreserves == ASSUME IInv, Compile PROVE IInv'
<1> USE DEF IInv
<1>0. CASE stage' # "compiled"
  <2>1. stage' = "refused" /\ types' = types /\ step' = step /\ stage = "open"
    BY <1>0 DEF Compile
  <2>2. WellFormed(type')
    <3>1. CASE step.count = 0
      BY <3>1 DEF Compile
    <3>2. CASE step.count # 0
      <4>1. type' = Applied(type)
        BY <3>2 DEF Compile
      <4>3. Applied(type) \in Record
        BY AppliedIsRecord DEF WellFormed
      <4>4. Applied(type).bounds = type.bounds /\ Applied(type).fixed = type.fixed
        BY DEF Applied, WellFormed, Record
      <4> QED BY <4>1, <4>3, <4>4 DEF WellFormed
    <3> QED BY <3>1, <3>2
  <2> QED BY <2>1, <2>2 DEF ChainOK, StepOK
<1>1. CASE stage' = "compiled"
  <2>1. types' = types /\ step' = step /\ CopyOK /\ ChainOK
    BY DEF Compile
  <2>2. Base \in Record /\ WellFormed(Base) /\ Len(types) \in DOMAIN types
    BY <2>1 DEF ChainOK, Base
  <2>3. WellFormed(type') /\ Restricts(type', Base)
    <3>1. CASE step.count = 0
      <4>1. type' = Base
        BY <2>1, <3>1 DEF Compile, CopyOK
      <4> QED BY <2>2, <4>1, RestrictsReflexive
    <3>2. CASE step.count # 0
      <4>1. type' = Applied(type) /\ Fault(Applied(type), Base, step.declared) = "none"
        BY <1>1, <3>2 DEF Compile
      <4>3. Applied(type) \in Record
        BY AppliedIsRecord DEF WellFormed
      <4>4. /\ Applied(type).bounds = type.bounds /\ Applied(type).fixed = type.fixed /\ Applied(type).kind = type.kind
            /\ Applied(type).sizes = type.sizes
        BY DEF Applied, WellFormed, Record
      <4>5. /\ Applied(type).enumeration = IF step.enumeration # {} THEN step.enumeration ELSE type.enumeration
            /\ Applied(type).patterns = IF step.patterns # {} THEN Append(type.patterns, step.patterns) ELSE type.patterns
        BY DEF Applied, WellFormed, Record
      <4>6. SizesRestrict(Applied(type).sizes, Base.sizes) /\ FixedPreserved(Applied(type), Base)
        BY <4>1 DEF Fault
      <4>7. Narrower(Applied(type), Base)
        <5>1. \/ Applied(type).enumeration = Base.enumeration
              \/ Applied(type).enumeration # {} /\ \A e \in Applied(type).enumeration : Accepts(Base, e.text)
          BY <2>1, <4>5 DEF CopyOK
        <5>2. Applied(type).patterns = Base.patterns \/ Applied(type).patterns = Append(Base.patterns, step.patterns)
          BY <2>1, <4>5 DEF CopyOK
        <5>3. \A f \in Bounds : \/ Applied(type).bounds[f] = Base.bounds[f]
                                \/ Applied(type).bounds[f] \in Literal /\ Accepts(Base, Applied(type).bounds[f].text)
          BY <2>1, <4>4 DEF CopyOK
        <5>4. Applied(type).kind = Base.kind
          BY <2>1, <4>4 DEF CopyOK
        <5> HIDE DEF IInv
        <5> QED BY <2>2, <4>3, <4>6, <5>1, <5>2, <5>3, <5>4, StepNarrows
      <4>8. WellFormed(Applied(type))
        BY <4>3, <4>4 DEF WellFormed
      <4>9. Restricts(Applied(type), Base)
        BY <2>1, <4>4, <4>6, <4>7 DEF Restricts, CopyOK
      <4> QED BY <4>1, <4>8, <4>9
    <3> QED BY <3>1, <3>2
  <2>4. \A i \in DOMAIN types : Restricts(type', types[i])
    <3> SUFFICES ASSUME NEW i \in DOMAIN types PROVE Restricts(type', types[i])
      OBVIOUS
    <3>1. CASE i = Len(types)
      BY <2>3, <3>1 DEF Base
    <3>2. CASE i # Len(types)
      <4>1. i < Len(types) /\ WellFormed(types[i])
        BY <2>1, <3>2 DEF ChainOK
      <4>2. Restricts(Base, types[i])
        BY <2>1, <2>2, <4>1 DEF ChainOK, Base
      <4> QED BY <2>2, <2>3, <4>1, <4>2, RestrictsTransitive
    <3> QED BY <3>1, <3>2
  <2> QED BY <1>1, <2>1, <2>3, <2>4 DEF ChainOK, StepOK
<1> QED BY <1>0, <1>1

(* The next step starts with a copy of a type that restricts the chain.    *)
LEMMA DerivePreserves == ASSUME IInv, Derive PROVE IInv'
<1> USE DEF IInv
<1>1. /\ types' = Append(types, type) /\ step' = NewStep /\ stage' = "open" /\ type' = type
      /\ ChainOK /\ WellFormed(type) /\ \A i \in DOMAIN types : Restricts(type, types[i])
  BY DEF Derive
<1>2. type \in Record /\ types \in Seq(Record)
  BY <1>1 DEF WellFormed, ChainOK
<1>3. /\ types' \in Seq(Record) /\ Len(types') = Len(types) + 1
      /\ \A i \in DOMAIN types' : types'[i] = IF i = Len(types) + 1 THEN type ELSE types[i]
      /\ \A i \in DOMAIN types' : i # Len(types) + 1 => i \in DOMAIN types
  BY <1>1, <1>2
<1>4. \A i \in DOMAIN types' : WellFormed(types'[i])
  BY <1>1, <1>3 DEF ChainOK
<1>5. \A i, j \in DOMAIN types' : i < j => Restricts(types'[j], types'[i])
  <2> SUFFICES ASSUME NEW i \in DOMAIN types', NEW j \in DOMAIN types', i < j
               PROVE  Restricts(types'[j], types'[i])
    OBVIOUS
  <2>1. i \in DOMAIN types /\ types'[i] = types[i]
    BY <1>3
  <2>2. CASE j = Len(types) + 1
    BY <1>1, <1>3, <2>1, <2>2
  <2>3. CASE j # Len(types) + 1
    BY <1>1, <1>3, <2>1, <2>3 DEF ChainOK
  <2> QED BY <2>2, <2>3
<1>6. ChainOK'
  BY <1>3, <1>4, <1>5 DEF ChainOK
<1>7. Base' = type
  BY <1>3 DEF Base
<1>8. StepOK' /\ CopyOK'
  BY <1>1, <1>7 DEF StepOK, CopyOK, NewStep
<1> QED BY <1>1, <1>6, <1>8

LEMMA Inductive == IInv /\ [Next]_vars => IInv'
<1> SUFFICES ASSUME IInv, [Next]_vars PROVE IInv'
  OBVIOUS
<1>1. ASSUME NEW d \in Offers[Kind], DeclareMisplaced(d) PROVE IInv'
  BY <1>1 DEF DeclareMisplaced, Refuse, IInv, ChainOK, WellFormed, StepOK
<1>2. ASSUME NEW d \in Offers[Kind],
             DeclareSize(d) \/ DeclareBound(d) \/ DeclareWhiteSpace(d) \/ DeclareEnumeration(d) \/ DeclarePattern(d)
      PROVE  IInv'
  BY <1>2, DeclarationPreserves
<1>3. CASE Compile
  BY <1>3, CompilePreserves
<1>4. CASE Audit
  BY <1>4 DEF Audit, IInv, ChainOK, WellFormed, StepOK
<1>5. CASE Derive
  BY <1>5, DerivePreserves
<1>6. CASE UNCHANGED vars
  BY <1>6 DEF vars, IInv, ChainOK, WellFormed, StepOK, CopyOK, Base
<1> QED BY <1>1, <1>2, <1>3, <1>4, <1>5, <1>6 DEF Next, Done

(* Every accepted type takes only literals that all its ancestors take,    *)
(* and keeps what they fix: ValidateCompiledFacets is enough for every     *)
(* order of values, partial or not, and every chain of restrictions.       *)
THEOREM RestrictionNarrows == Spec => []FacetsNarrow
<1>1. IInv => FacetsNarrow
  BY DEF IInv, FacetsNarrow, Restricts
<1> QED BY Initially, Inductive, <1>1, PTL DEF Spec

-----------------------------------------------------------------------------
(* Of the two bounds of a side that steps have given one after the other,  *)
(* one lies inside the other.                                              *)
Ranked(st, side, R) ==
  st.bounds[Inclusive[side]] # NoValue /\ st.bounds[Exclusive[side]] # NoValue =>
    \/ R[<<st.bounds[Exclusive[side]].text, st.bounds[Inclusive[side]].text>>] \in {"equal", Inside[side]}
    \/ R[<<st.bounds[Inclusive[side]].text, st.bounds[Exclusive[side]].text>>] = Inside[side]

Founded(st) ==
  \A c \in {"minLength", "maxLength"} : Both(st.sizes, "length", c) =>
    \E i \in DOMAIN types : types[i].sizes["length"] = NoValue /\ types[i].sizes[c] = st.sizes[c]

(* What the rules of the compiler leave of a type.                         *)
Settled(st) ==
  /\ \A f \in Bounds : st.bounds[f] # NoValue => st.bounds[f].text \in Space[st.kind]
  /\ \A side \in Sides : Ranked(st, side, Order[st.kind]) /\ Ranked(st, side, Preference(st.kind))
  /\ SizesConsistent(st.sizes) /\ BoundsConsistent(st.kind, st.bounds) /\ Founded(st)
  /\ Present(st) \subseteq Allowed[Family[st.kind]] /\ st.fixed \subseteq Present(st) \union {"whiteSpace"}
  /\ \A literal \in st.enumeration \union {st.bounds[f] : f \in Bounds} : literal # NoValue => Replays(literal)

(* The copy differs from the base in what is declared, and only there.     *)
DeclaredOK ==
  /\ step.declared \subseteq Allowed[Family[Kind]] /\ (step.count = 0 => step = NewStep)
  /\ \A f \in Bounds : IF f \in step.declared
                       THEN type.bounds[f] = [text |-> type.bounds[f].text, of |-> Len(types)]
                            /\ Accepts(Base, type.bounds[f].text)
                       ELSE type.bounds[f] = Base.bounds[f]
  /\ \A c \in Sizes : IF c \in step.declared THEN type.sizes[c] \in Nat ELSE type.sizes[c] = Base.sizes[c]
  /\ Base.whiteSpace <= type.whiteSpace /\ ("whiteSpace" \notin step.declared => type.whiteSpace = Base.whiteSpace)
  /\ type.fixed \subseteq Base.fixed \union (step.declared \intersect Single)
  /\ \A literal \in step.enumeration : literal.of = Len(types)
  /\ (step.enumeration # {} => "enumeration" \in step.declared) /\ (step.patterns # {} => "pattern" \in step.declared)

ChainSettled ==
  /\ \A i \in DOMAIN types : Settled(types[i])
  /\ \A i, j \in DOMAIN types : i < j => SizesRestrict(types[j].sizes, types[i].sizes)

(* The compiled type, which may be the next of the chain.                  *)
TypeSettled == Settled(type) /\ \A i \in DOMAIN types : SizesRestrict(type.sizes, types[i].sizes)

SettledInv ==
  /\ IInv /\ ChainSettled
  /\ stage = "open" => DeclaredOK
  /\ stage \in {"compiled", "published"} => TypeSettled
  /\ stage = "compiled" => Audited(type, Base)
  /\ stage # "refused" => error = "none"
  /\ RefusalsAreReal

-----------------------------------------------------------------------------
(* The two sides and what each bound of them admits.                       *)
LEMMA SideFacts ==
  ASSUME NEW side \in Sides
  PROVE  /\ Inside[side] \in {"less", "greater"}
         /\ Inclusive[side] \in Bounds /\ Exclusive[side] \in Bounds /\ Inclusive[side] # Exclusive[side]
         /\ Admitted[Inclusive[side]] = {"equal", Inside[side]} /\ Admitted[Exclusive[side]] = {Inside[side]}
  BY DEF Sides, Inside, Inclusive, Exclusive, Bounds, Admitted

(* A bound is of one side.                                                 *)
LEMMA BoundOfSide ==
  ASSUME NEW f \in Bounds
  PROVE  \E side \in Sides : f \in {Inclusive[side], Exclusive[side]}
<1>1. f \in {Inclusive["lower"], Exclusive["lower"]} \/ f \in {Inclusive["upper"], Exclusive["upper"]}
  BY DEF Bounds, Inclusive, Exclusive
<1>2. "lower" \in Sides /\ "upper" \in Sides
  BY DEF Sides
<1> QED BY <1>1, <1>2

(* The facet that bounds a side is one of the two, and is set if one is.   *)
LEMMA BoundIsOne ==
  ASSUME NEW st, NEW side \in Sides, NEW R
  PROVE  /\ FacetBound(st.bounds, side, R) \in {Inclusive[side], Exclusive[side]}
         /\ FacetBound(st.bounds, side, R) \in Bounds
         /\ \A g \in {Inclusive[side], Exclusive[side]} :
              st.bounds[g] # NoValue => st.bounds[FacetBound(st.bounds, side, R)] # NoValue
<1>1. FacetBound(st.bounds, side, R) \in {Inclusive[side], Exclusive[side]}
  BY DEF FacetBound
<1>2. \A g \in {Inclusive[side], Exclusive[side]} :
        st.bounds[g] # NoValue => st.bounds[FacetBound(st.bounds, side, R)] # NoValue
  BY DEF FacetBound
<1> QED BY <1>1, <1>2, SideFacts

(* That facet is as tight as the other one of its side.                    *)
LEMMA BoundIsTightest ==
  ASSUME NEW st, NEW side \in Sides, NEW R, Ranked(st, side, R),
         NEW g \in {Inclusive[side], Exclusive[side]}, st.bounds[g] # NoValue, g # FacetBound(st.bounds, side, R)
  PROVE  \/ FacetBound(st.bounds, side, R) = Exclusive[side] /\ g = Inclusive[side]
            /\ R[<<st.bounds[Exclusive[side]].text, st.bounds[Inclusive[side]].text>>] \in {"equal", Inside[side]}
         \/ FacetBound(st.bounds, side, R) = Inclusive[side] /\ g = Exclusive[side]
            /\ R[<<st.bounds[Inclusive[side]].text, st.bounds[Exclusive[side]].text>>] = Inside[side]
<1>1. CASE FacetBound(st.bounds, side, R) = Exclusive[side]
  <2>1. g = Inclusive[side]
    BY <1>1
  <2> QED BY <1>1, <2>1, SideFacts DEF FacetBound
<1>2. CASE FacetBound(st.bounds, side, R) = Inclusive[side]
  <2>1. g = Exclusive[side]
    BY <1>2
  <2>2. st.bounds[Inclusive[side]] # NoValue
        /\ R[<<st.bounds[Exclusive[side]].text, st.bounds[Inclusive[side]].text>>] \notin {"equal", Inside[side]}
    BY <1>2, <2>1, SideFacts DEF FacetBound
  <2> QED BY <1>2, <2>1, <2>2 DEF Ranked
<1> QED BY <1>1, <1>2, BoundIsOne

(* Comparison as values and comparison of a step with its base compose.    *)
LEMMA ComparisonsCompose ==
  ASSUME NEW k \in Kinds, NEW a \in Space[k], NEW b \in Space[k], NEW c \in Space[k]
  PROVE  Composes(Order[k], a, b, c) /\ Composes(Preference(k), a, b, c)
<1>1. a \in Texts /\ b \in Texts /\ c \in Texts
  BY FacetsAssumption
<1>2. Composes(Order[k], a, b, c)
  BY <1>1, OrderAssumption
<1>3. k \in RawKinds => Composes(Written[k], a, b, c)
  BY ComparisonAssumption
<1> QED BY <1>2, <1>3 DEF Preference

(* Where the order is total, values that compare with one compare.         *)
LEMMA ComparableWithOne ==
  ASSUME NEW k \in Kinds, NEW a \in Space[k], NEW b \in Space[k], NEW c \in Space[k], k \notin PartialKinds,
         Order[k][<<a, b>>] # "incomparable", Order[k][<<a, c>>] # "incomparable"
  PROVE  Order[k][<<b, c>>] # "incomparable"
  BY ComparisonAssumption

(* Bounds are called inconsistent only if no literal is within them.       *)
LEMMA ExclusionIsReal ==
  ASSUME NEW st, st.kind \in Kinds, \A f \in Bounds : st.bounds[f] # NoValue => st.bounds[f].text \in Space[st.kind],
         ~BoundsConsistent(st.kind, st.bounds), NEW t \in Space[st.kind], BoundsHold(st.kind, st.bounds, t)
  PROVE  FALSE
<1> DEFINE k == st.kind
           lower == FacetBound(st.bounds, "lower", Order[k])
           upper == FacetBound(st.bounds, "upper", Order[k])
           a == st.bounds[lower].text
           b == st.bounds[upper].text
<1>0. "lower" \in Sides /\ "upper" \in Sides
  BY DEF Sides
<1>1. /\ st.bounds[lower] # NoValue /\ st.bounds[upper] # NoValue
      /\ Order[k][<<a, b>>] # "less"
      /\ ~(Order[k][<<a, b>>] = "equal" /\ lower = "minInclusive" /\ upper = "maxInclusive")
      /\ ~(Order[k][<<a, b>>] = "incomparable" /\ k \in PartialKinds)
  BY DEF BoundsConsistent
<1>2. lower \in {"minInclusive", "minExclusive"} /\ upper \in {"maxInclusive", "maxExclusive"} /\ lower \in Bounds /\ upper \in Bounds
  BY <1>0, BoundIsOne DEF Inclusive, Exclusive
<1>3. a \in Space[k] /\ b \in Space[k]
  BY <1>1, <1>2
<1>4. Order[k][<<t, a>>] \in Admitted[lower] /\ Order[k][<<t, b>>] \in Admitted[upper]
  BY <1>1, <1>2 DEF BoundsHold
<1>5. Composes(Order[k], t, a, b)
  BY <1>3, ComparisonsCompose
<1>6. Order[k][<<a, b>>] \in Relations
  BY <1>3, FacetsAssumption
<1>7. k \notin PartialKinds /\ Order[k][<<t, a>>] # "incomparable" /\ Order[k][<<t, b>>] # "incomparable" =>
        Order[k][<<a, b>>] # "incomparable"
  BY <1>3, ComparableWithOne
<1> HIDE DEF lower, upper, a, b, k
<1>8. PICK x, y, z : x = Order[k][<<t, a>>] /\ y = Order[k][<<a, b>>] /\ z = Order[k][<<t, b>>]
  OBVIOUS
<1>9. /\ (x \in {"greater", "equal"} /\ y = "greater" => z = "greater")
      /\ (x = "greater" /\ y \in {"greater", "equal"} => z = "greater")
      /\ (x = "equal" /\ y = "equal" => z = "equal")
  BY <1>5, <1>8 DEF Composes
<1>10. /\ x \in {"equal", "greater"} /\ (lower = "minExclusive" => x = "greater")
       /\ z \in {"equal", "less"} /\ (upper = "maxExclusive" => z = "less")
  BY <1>2, <1>4, <1>8 DEF Admitted
<1>11. y \in {"equal", "greater"}
  BY <1>1, <1>6, <1>7, <1>8, <1>10 DEF Relations
<1> QED BY <1>1, <1>2, <1>8, <1>9, <1>10, <1>11

(* The two directions of the order.                                        *)
LEMMA OrderTurns ==
  ASSUME NEW k \in Kinds, NEW a \in Space[k], NEW b \in Space[k]
  PROVE  /\ Order[k][<<a, b>>] = "less" <=> Order[k][<<b, a>>] = "greater"
         /\ Order[k][<<b, a>>] = "less" <=> Order[k][<<a, b>>] = "greater"
         /\ Order[k][<<a, b>>] = "equal" => Order[k][<<b, a>>] = "equal"
         /\ Order[k][<<a, b>>] \in Relations
<1>1. a \in Texts /\ b \in Texts
  BY FacetsAssumption
<1>2. Order[k][<<a, b>>] \in Relations
  BY <1>1, FacetsAssumption
<1>3. /\ Order[k][<<a, b>>] = "less" <=> Order[k][<<b, a>>] = "greater"
      /\ Order[k][<<b, a>>] = "less" <=> Order[k][<<a, b>>] = "greater"
      /\ Order[k][<<a, b>>] = "equal" => Order[k][<<b, a>>] = "equal"
  BY ComparisonAssumption
<1> QED BY <1>2, <1>3

(* A bound below a lower bound meets the upper bounds that one meets.      *)
LEMMA LowerMeets ==
  ASSUME NEW k \in Kinds, NEW a \in Space[k], NEW b \in Space[k], NEW c \in Space[k],
         Order[k][<<a, c>>] \in {"equal", "greater"}
  PROVE  /\ Order[k][<<a, b>>] = "less" => Order[k][<<c, b>>] = "less"
         /\ Order[k][<<a, b>>] = "equal" /\ Order[k][<<a, c>>] = "greater" => Order[k][<<c, b>>] = "less"
         /\ Order[k][<<a, b>>] = "incomparable" => Order[k][<<c, b>>] \in {"less", "incomparable"}
<1>1. PICK x, y, z, w : x = Order[k][<<a, c>>] /\ y = Order[k][<<a, b>>] /\ z = Order[k][<<c, b>>] /\ w = Order[k][<<c, a>>]
  OBVIOUS
<1>2. /\ (w \in {"less", "equal"} /\ y = "less" => z = "less") /\ (w = "less" /\ y \in {"less", "equal"} => z = "less")
  BY <1>1, ComparisonsCompose DEF Composes
<1>3. /\ (x \in {"greater", "equal"} /\ z = "greater" => y = "greater")
      /\ (x = "greater" /\ z \in {"greater", "equal"} => y = "greater")
      /\ (x = "equal" /\ z = "equal" => y = "equal")
  BY <1>1, ComparisonsCompose DEF Composes
<1>4. /\ (x = "greater" => w = "less") /\ (x = "equal" => w = "equal") /\ z \in Relations
  BY <1>1, OrderTurns
<1> QED BY <1>1, <1>2, <1>3, <1>4 DEF Relations

(* A bound above an upper bound meets the lower bounds that one meets.     *)
LEMMA UpperMeets ==
  ASSUME NEW k \in Kinds, NEW a \in Space[k], NEW b \in Space[k], NEW c \in Space[k],
         Order[k][<<b, c>>] \in {"equal", "less"}
  PROVE  /\ Order[k][<<a, b>>] = "less" => Order[k][<<a, c>>] = "less"
         /\ Order[k][<<a, b>>] = "equal" /\ Order[k][<<b, c>>] = "less" => Order[k][<<a, c>>] = "less"
         /\ Order[k][<<a, b>>] = "incomparable" => Order[k][<<a, c>>] \in {"less", "incomparable"}
<1>1. PICK x, y, z, w : x = Order[k][<<b, c>>] /\ y = Order[k][<<a, b>>] /\ z = Order[k][<<a, c>>] /\ w = Order[k][<<c, b>>]
  OBVIOUS
<1>2. /\ (y \in {"less", "equal"} /\ x = "less" => z = "less") /\ (y = "less" /\ x \in {"less", "equal"} => z = "less")
  BY <1>1, ComparisonsCompose DEF Composes
<1>3. /\ (z \in {"greater", "equal"} /\ w = "greater" => y = "greater")
      /\ (z = "greater" /\ w \in {"greater", "equal"} => y = "greater")
      /\ (z = "equal" /\ w = "equal" => y = "equal")
  BY <1>1, ComparisonsCompose DEF Composes
<1>4. /\ (x = "less" => w = "greater") /\ (x = "equal" => w = "equal") /\ z \in Relations
  BY <1>1, OrderTurns
<1> QED BY <1>1, <1>2, <1>3, <1>4 DEF Relations

(* Where the bounds of each side are ranked, the comparison of the two     *)
(* tightest decides for every pair of a lower and an upper one.            *)
LEMMA TightestDecide ==
  ASSUME NEW st, st.kind \in Kinds, \A f \in Bounds : st.bounds[f] # NoValue => st.bounds[f].text \in Space[st.kind],
         \A side \in Sides : Ranked(st, side, Order[st.kind]), BoundsConsistent(st.kind, st.bounds),
         NEW f \in {"minInclusive", "minExclusive"}, NEW g \in {"maxInclusive", "maxExclusive"},
         st.bounds[f] # NoValue, st.bounds[g] # NoValue
  PROVE  LET relation == Order[st.kind][<<st.bounds[f].text, st.bounds[g].text>>]
         IN  \/ relation = "less"
             \/ relation = "equal" /\ f = "minInclusive" /\ g = "maxInclusive"
             \/ relation = "incomparable" /\ st.kind \in PartialKinds
<1> DEFINE k == st.kind
           lower == FacetBound(st.bounds, "lower", Order[k])
           upper == FacetBound(st.bounds, "upper", Order[k])
           Meets(l, u) == LET relation == Order[k][<<st.bounds[l].text, st.bounds[u].text>>]
                          IN  \/ relation = "less"
                              \/ relation = "equal" /\ l = "minInclusive" /\ u = "maxInclusive"
                              \/ relation = "incomparable" /\ k \in PartialKinds
<1>0. "lower" \in Sides /\ "upper" \in Sides
  BY DEF Sides
<1>1. /\ f \in {Inclusive["lower"], Exclusive["lower"]} /\ g \in {Inclusive["upper"], Exclusive["upper"]}
      /\ f \in Bounds /\ g \in Bounds
  BY DEF Inclusive, Exclusive, Bounds
<1>2. /\ lower \in Bounds /\ st.bounds[lower] # NoValue /\ lower \in {Inclusive["lower"], Exclusive["lower"]}
      /\ upper \in Bounds /\ st.bounds[upper] # NoValue /\ upper \in {Inclusive["upper"], Exclusive["upper"]}
  BY <1>0, <1>1, BoundIsOne
<1>3. Meets(lower, upper)
  BY <1>2 DEF BoundsConsistent
<1>4. \A h \in {f, g, lower, upper} : st.bounds[h].text \in Space[k]
  BY <1>1, <1>2
<1>5. f # lower =>
        \/ lower = "minExclusive" /\ Order[k][<<st.bounds[lower].text, st.bounds[f].text>>] \in {"equal", "greater"}
        \/ lower = "minInclusive" /\ Order[k][<<st.bounds[lower].text, st.bounds[f].text>>] = "greater"
  <2> SUFFICES ASSUME f # lower PROVE \/ lower = "minExclusive" /\ Order[k][<<st.bounds[lower].text, st.bounds[f].text>>] \in {"equal", "greater"}
                                      \/ lower = "minInclusive" /\ Order[k][<<st.bounds[lower].text, st.bounds[f].text>>] = "greater"
    OBVIOUS
  <2>1. /\ Inside["lower"] = "greater" /\ Inclusive["lower"] = "minInclusive" /\ Exclusive["lower"] = "minExclusive"
    BY DEF Inside, Inclusive, Exclusive
  <2>2. Ranked(st, "lower", Order[k])
    BY <1>0
  <2>3. \/ lower = Exclusive["lower"] /\ f = Inclusive["lower"]
           /\ Order[k][<<st.bounds[lower].text, st.bounds[f].text>>] \in {"equal", Inside["lower"]}
        \/ lower = Inclusive["lower"] /\ f = Exclusive["lower"]
           /\ Order[k][<<st.bounds[lower].text, st.bounds[f].text>>] = Inside["lower"]
    <3>1. PICK R : R = Order[k]
      OBVIOUS
    <3>2. /\ Ranked(st, "lower", R) /\ f \in {Inclusive["lower"], Exclusive["lower"]}
          /\ st.bounds[f] # NoValue /\ f # FacetBound(st.bounds, "lower", R)
      BY <1>1, <2>2, <3>1
    <3>3. \/ FacetBound(st.bounds, "lower", R) = Exclusive["lower"] /\ f = Inclusive["lower"]
             /\ R[<<st.bounds[Exclusive["lower"]].text, st.bounds[Inclusive["lower"]].text>>] \in {"equal", Inside["lower"]}
          \/ FacetBound(st.bounds, "lower", R) = Inclusive["lower"] /\ f = Exclusive["lower"]
             /\ R[<<st.bounds[Inclusive["lower"]].text, st.bounds[Exclusive["lower"]].text>>] = Inside["lower"]
      BY ONLY <1>0, <3>2, BoundIsTightest
    <3> QED BY <3>1, <3>3
  <2> QED BY <2>1, <2>3
<1>6. g # upper =>
        \/ upper = "maxExclusive" /\ Order[k][<<st.bounds[upper].text, st.bounds[g].text>>] \in {"equal", "less"}
        \/ upper = "maxInclusive" /\ Order[k][<<st.bounds[upper].text, st.bounds[g].text>>] = "less"
  <2> SUFFICES ASSUME g # upper PROVE \/ upper = "maxExclusive" /\ Order[k][<<st.bounds[upper].text, st.bounds[g].text>>] \in {"equal", "less"}
                                      \/ upper = "maxInclusive" /\ Order[k][<<st.bounds[upper].text, st.bounds[g].text>>] = "less"
    OBVIOUS
  <2>1. /\ Inside["upper"] = "less" /\ Inclusive["upper"] = "maxInclusive" /\ Exclusive["upper"] = "maxExclusive"
    BY DEF Inside, Inclusive, Exclusive
  <2>2. Ranked(st, "upper", Order[k])
    BY <1>0
  <2>3. \/ upper = Exclusive["upper"] /\ g = Inclusive["upper"]
           /\ Order[k][<<st.bounds[upper].text, st.bounds[g].text>>] \in {"equal", Inside["upper"]}
        \/ upper = Inclusive["upper"] /\ g = Exclusive["upper"]
           /\ Order[k][<<st.bounds[upper].text, st.bounds[g].text>>] = Inside["upper"]
    <3>1. PICK R : R = Order[k]
      OBVIOUS
    <3>2. /\ Ranked(st, "upper", R) /\ g \in {Inclusive["upper"], Exclusive["upper"]}
          /\ st.bounds[g] # NoValue /\ g # FacetBound(st.bounds, "upper", R)
      BY <1>1, <2>2, <3>1
    <3>3. \/ FacetBound(st.bounds, "upper", R) = Exclusive["upper"] /\ g = Inclusive["upper"]
             /\ R[<<st.bounds[Exclusive["upper"]].text, st.bounds[Inclusive["upper"]].text>>] \in {"equal", Inside["upper"]}
          \/ FacetBound(st.bounds, "upper", R) = Inclusive["upper"] /\ g = Exclusive["upper"]
             /\ R[<<st.bounds[Inclusive["upper"]].text, st.bounds[Exclusive["upper"]].text>>] = Inside["upper"]
      BY ONLY <1>0, <3>2, BoundIsTightest
    <3> QED BY <3>1, <3>3
  <2> QED BY <2>1, <2>3
<1> HIDE DEF lower, upper, k
<1>7. Meets(f, upper)
  <2>1. CASE f = lower
    BY <1>3, <2>1
  <2>2. CASE f # lower
    <3>1. Order[k][<<st.bounds[lower].text, st.bounds[f].text>>] \in {"equal", "greater"}
      BY <1>5, <2>2
    <3>2. st.bounds[lower].text \in Space[k] /\ st.bounds[f].text \in Space[k] /\ st.bounds[upper].text \in Space[k] /\ k \in Kinds
      BY <1>4 DEF k
    <3> DEFINE a == st.bounds[lower].text
               b == st.bounds[upper].text
               c == st.bounds[f].text
    <3> HIDE DEF a, b, c
    <3>3. /\ Order[k][<<a, b>>] = "less" => Order[k][<<c, b>>] = "less"
          /\ Order[k][<<a, b>>] = "equal" /\ Order[k][<<a, c>>] = "greater" => Order[k][<<c, b>>] = "less"
          /\ Order[k][<<a, b>>] = "incomparable" => Order[k][<<c, b>>] \in {"less", "incomparable"}
      BY <3>1, <3>2, LowerMeets DEF a, b, c
    <3> QED BY <1>3, <1>5, <2>2, <3>3 DEF a, b, c
  <2> QED BY <2>1, <2>2
<1>8. Meets(f, g)
  <2>1. CASE g = upper
    BY <1>7, <2>1
  <2>2. CASE g # upper
    <3>1. Order[k][<<st.bounds[upper].text, st.bounds[g].text>>] \in {"equal", "less"}
      BY <1>6, <2>2
    <3>2. st.bounds[upper].text \in Space[k] /\ st.bounds[f].text \in Space[k] /\ st.bounds[g].text \in Space[k] /\ k \in Kinds
      BY <1>4 DEF k
    <3> DEFINE a == st.bounds[f].text
               b == st.bounds[upper].text
               c == st.bounds[g].text
    <3> HIDE DEF a, b, c
    <3>3. /\ Order[k][<<a, b>>] = "less" => Order[k][<<a, c>>] = "less"
          /\ Order[k][<<a, b>>] = "equal" /\ Order[k][<<b, c>>] = "less" => Order[k][<<a, c>>] = "less"
          /\ Order[k][<<a, b>>] = "incomparable" => Order[k][<<a, c>>] \in {"less", "incomparable"}
      BY <3>1, <3>2, UpperMeets DEF a, b, c
    <3> QED BY <1>6, <1>7, <2>2, <3>3 DEF a, b, c
  <2> QED BY <2>1, <2>2
<1> QED BY <1>8 DEF k

-----------------------------------------------------------------------------
(* Some length is allowed by each of the lengths that are set.             *)
Meetable(sizes) ==
  {sizes[c] : c \in Lengths} = {NoValue}
  \/ \E d \in Lengths : sizes[d] # NoValue /\ \A c \in Lengths : sizes[c] # NoValue => Fits(c, sizes[d], sizes[c])

(* Lengths that are consistent in pairs allow a length together.           *)
LEMMA ConsistentSizesMeet ==
  ASSUME NEW sizes \in [Sizes -> Nat \union {NoValue}], SizesConsistent(sizes)
  PROVE  Meetable(sizes)
<1>0. "length" \in Sizes /\ "minLength" \in Sizes /\ "maxLength" \in Sizes /\ Lengths = {"length", "minLength", "maxLength"}
  BY DEF Sizes, Lengths
<1>1. PICK l, m, n : l = sizes["length"] /\ m = sizes["minLength"] /\ n = sizes["maxLength"]
  OBVIOUS
<1>2. l \in Nat \union {NoValue} /\ m \in Nat \union {NoValue} /\ n \in Nat \union {NoValue}
  BY <1>0, <1>1
<1>3. /\ l # NoValue /\ m # NoValue => l >= m
      /\ l # NoValue /\ n # NoValue => l <= n
      /\ m # NoValue /\ n # NoValue => m <= n
  BY <1>1 DEF SizesConsistent, Both
<1>4. \A d \in Lengths : sizes[d] # NoValue
        /\ (l # NoValue => Fits("length", sizes[d], l)) /\ (m # NoValue => Fits("minLength", sizes[d], m))
        /\ (n # NoValue => Fits("maxLength", sizes[d], n)) => Meetable(sizes)
  BY <1>0, <1>1 DEF Meetable
<1>5. \A v : /\ Fits("length", v, l) <=> v = l
             /\ Fits("minLength", v, m) <=> v >= m
             /\ Fits("maxLength", v, n) <=> v <= n
  BY DEF Fits
<1>6. CASE l # NoValue
  <2>1. l >= m \/ m = NoValue
    BY <1>3, <1>6
  <2>2. l <= n \/ n = NoValue
    BY <1>3, <1>6
  <2> QED BY <1>0, <1>1, <1>4, <1>5, <1>6, <2>1, <2>2
<1>7. CASE l = NoValue /\ m # NoValue
  <2>1. m >= m /\ (m <= n \/ n = NoValue)
    BY <1>2, <1>3, <1>7
  <2> QED BY <1>0, <1>1, <1>4, <1>5, <1>7, <2>1
<1>8. CASE l = NoValue /\ m = NoValue /\ n # NoValue
  <2>1. n <= n
    BY <1>2, <1>8
  <2> QED BY <1>0, <1>1, <1>4, <1>5, <1>8, <2>1
<1>9. CASE l = NoValue /\ m = NoValue /\ n = NoValue
  BY <1>0, <1>1, <1>9 DEF Meetable
<1> QED BY <1>6, <1>7, <1>8, <1>9

(* Sizes in conflict are lengths that no length meets, or digits.          *)
LEMMA ConflictIsReal ==
  ASSUME NEW sizes \in [Sizes -> Nat \union {NoValue}], ~SizesConsistent(sizes)
  PROVE  ~Meetable(sizes) \/ (Both(sizes, "totalDigits", "fractionDigits") /\ sizes["totalDigits"] < sizes["fractionDigits"])
<1>0. "length" \in Sizes /\ "minLength" \in Sizes /\ "maxLength" \in Sizes /\ Lengths = {"length", "minLength", "maxLength"}
      /\ "totalDigits" \in Sizes /\ "fractionDigits" \in Sizes
  BY DEF Sizes, Lengths
<1>1. SUFFICES ASSUME Meetable(sizes) PROVE Both(sizes, "totalDigits", "fractionDigits") /\ sizes["totalDigits"] < sizes["fractionDigits"]
  OBVIOUS
<1>2. PICK l, m, n, v, w : /\ l = sizes["length"] /\ m = sizes["minLength"] /\ n = sizes["maxLength"]
                           /\ v = sizes["totalDigits"] /\ w = sizes["fractionDigits"]
  OBVIOUS
<1>3. /\ l \in Nat \union {NoValue} /\ m \in Nat \union {NoValue} /\ n \in Nat \union {NoValue}
      /\ v \in Nat \union {NoValue} /\ w \in Nat \union {NoValue}
  BY <1>0, <1>2
<1>4. \/ l # NoValue /\ m # NoValue /\ ~(l >= m)
      \/ l # NoValue /\ n # NoValue /\ ~(l <= n)
      \/ m # NoValue /\ n # NoValue /\ ~(m <= n)
      \/ v # NoValue /\ w # NoValue /\ ~(w <= v)
  BY <1>2 DEF SizesConsistent, Both
<1>5. CASE v # NoValue /\ w # NoValue /\ ~(w <= v)
  BY <1>2, <1>3, <1>5 DEF Both
<1>6. CASE ~(v # NoValue /\ w # NoValue /\ ~(w <= v))
  <2>1. \E c \in Lengths : sizes[c] # NoValue
    BY <1>0, <1>2, <1>4, <1>6
  <2>2. {sizes[c] : c \in Lengths} # {NoValue}
    BY <2>1
  <2>3. PICK d \in Lengths : sizes[d] # NoValue /\ \A c \in Lengths : sizes[c] # NoValue => Fits(c, sizes[d], sizes[c])
    BY <1>1, <2>2 DEF Meetable
  <2>4. PICK x : x = sizes[d]
    OBVIOUS
  <2>5. x \in Nat
    BY <1>0, <2>3, <2>4
  <2>6. (l # NoValue => Fits("length", x, l)) /\ (m # NoValue => Fits("minLength", x, m)) /\ (n # NoValue => Fits("maxLength", x, n))
    BY <1>0, <1>2, <2>3, <2>4
  <2>7. (l # NoValue => x = l) /\ (m # NoValue => x >= m) /\ (n # NoValue => x <= n)
    BY <2>6 DEF Fits
  <2> QED BY <1>3, <1>4, <1>6, <2>5, <2>7
<1> QED BY <1>5, <1>6

(* A size fits itself, so sizes restrict themselves, and in chains.        *)
LEMMA SizesRestrictSelf ==
  ASSUME NEW sizes \in [Sizes -> Nat \union {NoValue}]
  PROVE  SizesRestrict(sizes, sizes)
<1> SUFFICES ASSUME NEW c \in Sizes, sizes[c] # NoValue PROVE Fits(c, sizes[c], sizes[c])
  BY DEF SizesRestrict
<1>1. PICK n \in Nat : n = sizes[c]
  OBVIOUS
<1>2. Fits(c, n, n)
  BY DEF Fits
<1> QED BY <1>1, <1>2

(* Sizes that restrict in two steps restrict in one.                       *)
LEMMA SizesRestrictCompose ==
  ASSUME NEW a \in [Sizes -> Nat \union {NoValue}], NEW b \in [Sizes -> Nat \union {NoValue}],
         NEW c \in [Sizes -> Nat \union {NoValue}], SizesRestrict(a, b), SizesRestrict(b, c)
  PROVE  SizesRestrict(a, c)
<1> SUFFICES ASSUME NEW s \in Sizes, c[s] # NoValue PROVE a[s] # NoValue /\ Fits(s, a[s], c[s])
  BY DEF SizesRestrict
<1>1. b[s] # NoValue /\ Fits(s, b[s], c[s]) /\ a[s] # NoValue /\ Fits(s, a[s], b[s])
  BY DEF SizesRestrict
<1> QED BY <1>1, SizesCompose

(* A bound of an ancestor that a step declares again, in place of another  *)
(* one that lies between, loosens that one.                                *)
LEMMA ReturnLoosens ==
  ASSUME NEW c \in {"minLength", "maxLength"}, NEW sizes \in [Sizes -> Nat \union {NoValue}],
         NEW ancestor \in [Sizes -> Nat \union {NoValue}], SizesRestrict(sizes, ancestor),
         ancestor[c] # NoValue, ancestor[c] # sizes[c]
  PROVE  sizes[c] # NoValue /\ ~Fits(c, ancestor[c], sizes[c])
<1>1. c \in Sizes
  BY DEF Sizes, Lengths
<1>2. sizes[c] # NoValue /\ Fits(c, sizes[c], ancestor[c])
  BY <1>1 DEF SizesRestrict
<1>3. PICK v, w \in Nat : v = sizes[c] /\ w = ancestor[c]
  BY <1>1, <1>2
<1>4. (c = "minLength" => v >= w) /\ (c = "maxLength" => v <= w) /\ v # w
  BY <1>2, <1>3 DEF Fits
<1>5. ~Fits(c, w, v)
  BY <1>3, <1>4 DEF Fits
<1> QED BY <1>2, <1>3, <1>5

-----------------------------------------------------------------------------
(* A type that differs from its base in declared literals of the base.     *)
Steps(derived, base, declared) ==
  /\ base.kind \in Kinds /\ derived.kind = base.kind
  /\ \A f \in Bounds : IF f \in declared THEN derived.bounds[f] # NoValue /\ Accepts(base, derived.bounds[f].text)
                       ELSE derived.bounds[f] = base.bounds[f]
  /\ \A f \in Bounds : base.bounds[f] # NoValue => base.bounds[f].text \in Space[base.kind]

(* A declared bound is a literal that the bounds of the base admit.        *)
LEMMA DeclaredIsAdmitted ==
  ASSUME NEW derived, NEW base, NEW declared, Steps(derived, base, declared), NEW f \in Bounds
  PROVE  /\ derived.bounds[f] # NoValue => derived.bounds[f].text \in Space[base.kind]
         /\ base.bounds[f] # NoValue => derived.bounds[f] # NoValue
         /\ f \in declared => \A g \in Bounds : base.bounds[g] # NoValue =>
              Order[base.kind][<<derived.bounds[f].text, base.bounds[g].text>>] \in Admitted[g]
<1>1. CASE f \in declared
  <2>1. derived.bounds[f] # NoValue /\ Accepts(base, derived.bounds[f].text)
    BY <1>1 DEF Steps
  <2>2. derived.bounds[f].text \in Space[base.kind]
    BY <2>1 DEF Accepts
  <2>3. \A g \in Bounds : base.bounds[g] # NoValue =>
          Order[base.kind][<<derived.bounds[f].text, base.bounds[g].text>>] \in Admitted[g]
    BY <2>1 DEF Accepts, BoundsHold
  <2> QED BY <2>1, <2>2, <2>3
<1>2. CASE f \notin declared
  BY <1>2 DEF Steps
<1> QED BY <1>1, <1>2

(* Steps are ranked by value: the later bound of a side is within the      *)
(* earlier one.                                                            *)
LEMMA RankedByValue ==
  ASSUME NEW derived, NEW base, NEW declared, Steps(derived, base, declared), NEW side \in Sides,
         Ranked(base, side, Order[base.kind]), ~({Inclusive[side], Exclusive[side]} \subseteq declared)
  PROVE  Ranked(derived, side, Order[derived.kind])
<1> DEFINE R == Order[base.kind]
           inclusive == Inclusive[side]
           exclusive == Exclusive[side]
<1>0. derived.kind = base.kind /\ inclusive \in Bounds /\ exclusive \in Bounds
  BY SideFacts DEF Steps
<1> SUFFICES ASSUME derived.bounds[inclusive] # NoValue, derived.bounds[exclusive] # NoValue
             PROVE  \/ R[<<derived.bounds[exclusive].text, derived.bounds[inclusive].text>>] \in {"equal", Inside[side]}
                    \/ R[<<derived.bounds[inclusive].text, derived.bounds[exclusive].text>>] = Inside[side]
  BY <1>0 DEF Ranked
<1>1. CASE inclusive \notin declared /\ exclusive \notin declared
  <2>1. derived.bounds[inclusive] = base.bounds[inclusive] /\ derived.bounds[exclusive] = base.bounds[exclusive]
    BY <1>0, <1>1 DEF Steps
  <2> QED BY <2>1 DEF Ranked
<1>2. CASE inclusive \notin declared /\ exclusive \in declared
  <2>1. derived.bounds[inclusive] = base.bounds[inclusive]
    BY <1>0, <1>2 DEF Steps
  <2>2. R[<<derived.bounds[exclusive].text, base.bounds[inclusive].text>>] \in Admitted[inclusive]
    BY <1>0, <1>2, <2>1, DeclaredIsAdmitted
  <2> QED BY <2>1, <2>2, SideFacts
<1>3. CASE inclusive \in declared /\ exclusive \notin declared
  <2>1. derived.bounds[exclusive] = base.bounds[exclusive]
    BY <1>0, <1>3 DEF Steps
  <2>2. R[<<derived.bounds[inclusive].text, base.bounds[exclusive].text>>] \in Admitted[exclusive]
    BY <1>0, <1>3, <2>1, DeclaredIsAdmitted
  <2> QED BY <2>1, <2>2, SideFacts
<1> QED BY <1>1, <1>2, <1>3

(* A declared bound is as tight as each bound of the base on its side: by  *)
(* its value, or as it is written, which is compared with the tightest.    *)
LEMMA DeclaredIsTight ==
  ASSUME NEW derived, NEW base, NEW declared, Steps(derived, base, declared), NEW side \in Sides,
         Ranked(base, side, Preference(base.kind)),
         base.kind \in RawKinds => DeclaredBoundsRestrict(base.kind, declared, derived.bounds, base.bounds),
         NEW f \in {Inclusive[side], Exclusive[side]} \intersect declared,
         NEW g \in {Inclusive[side], Exclusive[side]}, base.bounds[g] # NoValue
  PROVE  AtLeastAsTight(side, f, g, Written[base.kind][<<derived.bounds[f].text, base.bounds[g].text>>])
<1> DEFINE k == base.kind
<1>0. k \in Kinds /\ f \in Bounds /\ g \in Bounds
  BY SideFacts DEF Steps
<1>1. derived.bounds[f].text \in Space[k] /\ base.bounds[g].text \in Space[k]
  BY <1>0, DeclaredIsAdmitted DEF Steps
<1>2. Order[k][<<derived.bounds[f].text, base.bounds[g].text>>] \in Admitted[g]
  BY <1>0, DeclaredIsAdmitted
<1>3. CASE k \notin RawKinds
  <2>1. Order[k][<<derived.bounds[f].text, base.bounds[g].text>>] \in IF g = Inclusive[side] THEN {"equal", Inside[side]} ELSE {Inside[side]}
    BY <1>2, SideFacts
  <2>2. Order[k][<<derived.bounds[f].text, base.bounds[g].text>>] # "incomparable"
    BY <2>1, SideFacts
  <2>3. Written[k][<<derived.bounds[f].text, base.bounds[g].text>>] = Order[k][<<derived.bounds[f].text, base.bounds[g].text>>]
    BY <1>0, <1>1, <1>3, <2>2, ComparisonAssumption
  <2> QED BY <2>1, <2>3 DEF AtLeastAsTight
<1>4. CASE k \in RawKinds
  <2> DEFINE b == FacetBound(base.bounds, side, Preference(k))
  <2>1. b \in Bounds /\ base.bounds[b] # NoValue /\ b \in {Inclusive[side], Exclusive[side]}
    BY BoundIsOne
  <2>2. AtLeastAsTight(side, f, b, Written[k][<<derived.bounds[f].text, base.bounds[b].text>>])
    BY <1>4, <2>1, ComparisonAssumption DEF DeclaredBoundsRestrict
  <2>3. CASE g = b
    BY <2>2, <2>3
  <2>4. CASE g # b
    <3>1. \/ b = Exclusive[side] /\ g = Inclusive[side]
             /\ Written[k][<<base.bounds[b].text, base.bounds[g].text>>] \in {"equal", Inside[side]}
          \/ b = Inclusive[side] /\ g = Exclusive[side]
             /\ Written[k][<<base.bounds[b].text, base.bounds[g].text>>] = Inside[side]
      <4>1. PICK R : R = Preference(k) /\ b = FacetBound(base.bounds, side, R)
        OBVIOUS
      <4>2. Ranked(base, side, R) /\ g # FacetBound(base.bounds, side, R)
        BY <2>4, <4>1
      <4>3. \/ FacetBound(base.bounds, side, R) = Exclusive[side] /\ g = Inclusive[side]
               /\ R[<<base.bounds[Exclusive[side]].text, base.bounds[Inclusive[side]].text>>] \in {"equal", Inside[side]}
            \/ FacetBound(base.bounds, side, R) = Inclusive[side] /\ g = Exclusive[side]
               /\ R[<<base.bounds[Inclusive[side]].text, base.bounds[Exclusive[side]].text>>] = Inside[side]
        BY <4>2, BoundIsTightest
      <4>4. R = Written[k]
        BY <1>4, <4>1 DEF Preference
      <4> HIDE DEF b
      <4> QED BY <4>1, <4>3, <4>4
    <3>2. base.bounds[b].text \in Space[k]
      BY <2>1 DEF Steps
    <3>3. Composes(Written[k], derived.bounds[f].text, base.bounds[b].text, base.bounds[g].text)
      BY <1>0, <1>1, <1>4, <3>2, ComparisonAssumption
    <3> HIDE DEF b
    <3>4. PICK x, y, z : /\ x = Written[k][<<derived.bounds[f].text, base.bounds[b].text>>]
                         /\ y = Written[k][<<base.bounds[b].text, base.bounds[g].text>>]
                         /\ z = Written[k][<<derived.bounds[f].text, base.bounds[g].text>>]
      OBVIOUS
    <3>5. /\ (x \in {Inside[side], "equal"} /\ y = Inside[side] => z = Inside[side])
          /\ (x = Inside[side] /\ y \in {Inside[side], "equal"} => z = Inside[side])
          /\ (x = "equal" /\ y = "equal" => z = "equal")
      BY <3>3, <3>4, SideFacts DEF Composes
    <3>6. x = Inside[side] \/ (x = "equal" /\ (f = Exclusive[side] \/ b = Inclusive[side]))
      BY <2>2, <3>4 DEF AtLeastAsTight
    <3>7. z = Inside[side] \/ (z = "equal" /\ (f = Exclusive[side] \/ g = Inclusive[side]))
      BY <3>1, <3>4, <3>5, <3>6
    <3> QED BY <3>4, <3>7 DEF AtLeastAsTight
  <2> QED BY <2>3, <2>4
<1> QED BY <1>3, <1>4

(* Steps are ranked by the relation that chooses between their bounds.     *)
LEMMA RankedByPreference ==
  ASSUME NEW derived, NEW base, NEW declared, Steps(derived, base, declared), NEW side \in Sides,
         Ranked(base, side, Order[base.kind]), Ranked(base, side, Preference(base.kind)),
         base.kind \in RawKinds => DeclaredBoundsRestrict(base.kind, declared, derived.bounds, base.bounds),
         ~({Inclusive[side], Exclusive[side]} \subseteq declared)
  PROVE  Ranked(derived, side, Preference(derived.kind))
<1> DEFINE R == Written[base.kind]
           inclusive == Inclusive[side]
           exclusive == Exclusive[side]
<1>0. derived.kind = base.kind /\ inclusive \in Bounds /\ exclusive \in Bounds /\ inclusive # exclusive
  BY SideFacts DEF Steps
<1>9. CASE base.kind \notin RawKinds
  <2>1. Ranked(derived, side, Order[derived.kind])
    BY RankedByValue
  <2> QED BY <1>0, <1>9, <2>1 DEF Preference
<1>8. CASE base.kind \in RawKinds
  <2> SUFFICES ASSUME derived.bounds[inclusive] # NoValue, derived.bounds[exclusive] # NoValue
               PROVE  \/ R[<<derived.bounds[exclusive].text, derived.bounds[inclusive].text>>] \in {"equal", Inside[side]}
                      \/ R[<<derived.bounds[inclusive].text, derived.bounds[exclusive].text>>] = Inside[side]
    BY <1>0, <1>8 DEF Ranked, Preference
  <2>1. CASE inclusive \notin declared /\ exclusive \notin declared
    <3>1. derived.bounds[inclusive] = base.bounds[inclusive] /\ derived.bounds[exclusive] = base.bounds[exclusive]
      BY <1>0, <2>1 DEF Steps
    <3> QED BY <1>8, <3>1 DEF Ranked, Preference
  <2>2. CASE inclusive \notin declared /\ exclusive \in declared
    <3>1. derived.bounds[inclusive] = base.bounds[inclusive]
      BY <1>0, <2>2 DEF Steps
    <3>2. AtLeastAsTight(side, exclusive, inclusive, R[<<derived.bounds[exclusive].text, base.bounds[inclusive].text>>])
      BY <2>2, <3>1, DeclaredIsTight
    <3> QED BY <3>1, <3>2 DEF AtLeastAsTight
  <2>3. CASE inclusive \in declared /\ exclusive \notin declared
    <3>1. derived.bounds[exclusive] = base.bounds[exclusive]
      BY <1>0, <2>3 DEF Steps
    <3>2. AtLeastAsTight(side, inclusive, exclusive, R[<<derived.bounds[inclusive].text, base.bounds[exclusive].text>>])
      BY <2>3, <3>1, DeclaredIsTight
    <3> QED BY <1>0, <3>1, <3>2 DEF AtLeastAsTight
  <2> QED BY <2>1, <2>2, <2>3
<1> QED BY <1>8, <1>9

(* Bounds that are inherited restrict themselves.                          *)
LEMMA InheritedRestrict ==
  ASSUME NEW st, st.kind \in Kinds, \A f \in Bounds : st.bounds[f] # NoValue => st.bounds[f].text \in Space[st.kind]
  PROVE  OrderedFacetsRestrict(st.kind, st.bounds, st.bounds)
<1> SUFFICES ASSUME NEW side \in Sides, NEW g, g = FacetBound(st.bounds, side, Preference(st.kind)), st.bounds[g] # NoValue
             PROVE  AtLeastAsTight(side, g, g, Written[st.kind][<<st.bounds[g].text, st.bounds[g].text>>])
  BY DEF OrderedFacetsRestrict
<1>1. g \in {Inclusive[side], Exclusive[side]} /\ g \in Bounds
  BY BoundIsOne
<1>2. Written[st.kind][<<st.bounds[g].text, st.bounds[g].text>>] = "equal"
  BY <1>1, ComparisonAssumption
<1> QED BY <1>1, <1>2 DEF AtLeastAsTight

(* A comparison that fails fails for a bound that is declared: what is     *)
(* inherited is as tight as it was.                                        *)
LEMMA LooseningIsDeclared ==
  ASSUME NEW derived, NEW base, NEW declared, Steps(derived, base, declared),
         \A side \in Sides : Ranked(base, side, Preference(base.kind)),
         DeclaredBoundsRestrict(base.kind, declared, derived.bounds, base.bounds),
         ~OrderedFacetsRestrict(base.kind, derived.bounds, base.bounds)
  PROVE  \E side \in Sides, f \in declared, g \in Bounds :
           /\ f \in {Inclusive[side], Exclusive[side]} /\ g \in {Inclusive[side], Exclusive[side]}
           /\ base.bounds[g] # NoValue
           /\ ~AtLeastAsTight(side, f, g, Written[base.kind][<<derived.bounds[f].text, base.bounds[g].text>>])
<1> DEFINE k == base.kind
           R == Preference(k)
<1>1. PICK side \in Sides :
        LET f == FacetBound(derived.bounds, side, R)
            g == FacetBound(base.bounds, side, R)
        IN  base.bounds[g] # NoValue /\ ~(derived.bounds[f] # NoValue
              /\ AtLeastAsTight(side, f, g, Written[k][<<derived.bounds[f].text, base.bounds[g].text>>]))
  BY DEF OrderedFacetsRestrict
<1> DEFINE f == FacetBound(derived.bounds, side, R)
           g == FacetBound(base.bounds, side, R)
           inclusive == Inclusive[side]
           exclusive == Exclusive[side]
<1>2. f \in {inclusive, exclusive} /\ g \in {inclusive, exclusive} /\ f \in Bounds /\ g \in Bounds /\ base.bounds[g] # NoValue
  BY <1>1, BoundIsOne
<1>3. derived.bounds[g] # NoValue
  BY <1>2, DeclaredIsAdmitted
<1>4. derived.bounds[f] # NoValue
  BY <1>2, <1>3, BoundIsOne
<1>5. ~AtLeastAsTight(side, f, g, Written[k][<<derived.bounds[f].text, base.bounds[g].text>>])
  BY <1>1, <1>4
<1>6. CASE f \in declared
  BY <1>2, <1>5, <1>6
<1>7. CASE f \notin declared
  <2>0. k \in Kinds /\ inclusive \in Bounds /\ exclusive \in Bounds /\ inclusive # exclusive
    BY SideFacts DEF Steps
  <2>1. derived.bounds[f] = base.bounds[f] /\ base.bounds[f].text \in Space[k] /\ base.bounds[g].text \in Space[k]
    BY <1>2, <1>4, <1>7 DEF Steps
  <2>2. f # g
    <3> SUFFICES ASSUME f = g PROVE FALSE
      OBVIOUS
    <3>1. Written[k][<<base.bounds[f].text, base.bounds[f].text>>] = "equal"
      BY <2>0, <2>1, ComparisonAssumption
    <3>2. Written[k][<<derived.bounds[f].text, base.bounds[g].text>>] = "equal"
      BY <2>1, <3>1
    <3> HIDE DEF f, g
    <3> QED BY <1>2, <1>5, <3>2 DEF AtLeastAsTight
  <2>3. g \in declared
    <3> SUFFICES ASSUME g \notin declared PROVE FALSE
      OBVIOUS
    <3>1. derived.bounds[g] = base.bounds[g]
      BY <1>2 DEF Steps
    <3>2. derived.bounds[inclusive] = base.bounds[inclusive] /\ derived.bounds[exclusive] = base.bounds[exclusive]
      BY <1>2, <2>1, <2>2, <3>1
    <3>3. f = g
      BY <3>2 DEF FacetBound
    <3> QED BY <2>2, <3>3
  <2>4. R[<<derived.bounds[g].text, base.bounds[g].text>>] \in {"equal", Inside[side]}
    <3>1. CASE k \in RawKinds
      <4>1. AtLeastAsTight(side, g, g, Written[k][<<derived.bounds[g].text, base.bounds[g].text>>])
        BY <1>2, <2>3, DeclaredIsTight
      <4> QED BY <3>1, <4>1 DEF AtLeastAsTight, Preference
    <3>2. CASE k \notin RawKinds
      <4>1. Order[k][<<derived.bounds[g].text, base.bounds[g].text>>] \in Admitted[g]
        BY <1>2, <2>3, DeclaredIsAdmitted
      <4>2. Admitted[g] \subseteq {"equal", Inside[side]}
        BY <1>2, SideFacts
      <4>3. R = Order[k]
        BY <3>2 DEF Preference
      <4> QED BY <4>1, <4>2, <4>3
    <3> QED BY <3>1, <3>2
  <2>5. derived.bounds[g].text \in Space[k]
    BY <1>2, <1>3, DeclaredIsAdmitted
  <2> DEFINE within(x) == x \in {"equal", Inside[side]}
  <2>6. \A a, b, c \in Space[k] : within(R[<<a, b>>]) /\ within(R[<<b, c>>]) => within(R[<<a, c>>])
    <3> SUFFICES ASSUME NEW a \in Space[k], NEW b \in Space[k], NEW c \in Space[k], within(R[<<a, b>>]), within(R[<<b, c>>])
                 PROVE  within(R[<<a, c>>])
      OBVIOUS
    <3>1. Composes(R, a, b, c)
      BY <2>0, ComparisonsCompose
    <3> HIDE DEF R
    <3>2. PICK x, y, z : x = R[<<a, b>>] /\ y = R[<<b, c>>] /\ z = R[<<a, c>>]
      OBVIOUS
    <3>3. /\ (x \in {Inside[side], "equal"} /\ y = Inside[side] => z = Inside[side])
          /\ (x = Inside[side] /\ y \in {Inside[side], "equal"} => z = Inside[side])
          /\ (x = "equal" /\ y = "equal" => z = "equal")
      BY <3>1, <3>2, SideFacts DEF Composes
    <3> QED BY <3>2, <3>3
  <2> HIDE DEF R
  <2>7. CASE g = exclusive /\ f = inclusive
    <3>1. within(R[<<base.bounds[exclusive].text, base.bounds[inclusive].text>>])
      BY <2>0, <2>1, <2>7, <1>4 DEF FacetBound
    <3>2. ~within(R[<<derived.bounds[exclusive].text, derived.bounds[inclusive].text>>])
      BY <1>3, <1>4, <2>0, <2>7 DEF FacetBound
    <3> HIDE DEF within, f, g
    <3> QED BY <2>1, <2>4, <2>5, <2>6, <2>7, <3>1, <3>2 DEF within
  <2>8. CASE g = inclusive /\ f = exclusive
    <3>1. ~within(R[<<base.bounds[exclusive].text, base.bounds[inclusive].text>>])
      BY <1>2, <1>4, <2>0, <2>1, <2>8 DEF FacetBound
    <3>2. within(R[<<derived.bounds[exclusive].text, derived.bounds[inclusive].text>>])
      BY <1>3, <1>4, <2>0, <2>8 DEF FacetBound
    <3> HIDE DEF within, f, g
    <3> QED BY <2>1, <2>4, <2>5, <2>6, <2>8, <3>1, <3>2 DEF within
  <2> QED BY <1>2, <2>2, <2>7, <2>8
<1> QED BY <1>6, <1>7

-----------------------------------------------------------------------------
(* A type without facets is settled.                                       *)
LEMMA RootIsSettled ==
  ASSUME NEW k \in Kinds
  PROVE  Settled(Root(k))
<1> DEFINE st == Root(k)
<1>1. /\ st.kind = k /\ (\A f \in Bounds : st.bounds[f] = NoValue) /\ (\A c \in Sizes : st.sizes[c] = NoValue)
      /\ st.fixed = {} /\ st.enumeration = {} /\ st.patterns = <<>>
  BY DEF Root
<1> HIDE DEF st
<1>2. \A side \in Sides : Ranked(st, side, Order[st.kind]) /\ Ranked(st, side, Preference(st.kind))
  BY <1>1, SideFacts DEF Ranked
<1>3. SizesConsistent(st.sizes) /\ Founded(st)
  BY <1>1 DEF SizesConsistent, Founded, Both, Sizes, Lengths
<1>4. BoundsConsistent(st.kind, st.bounds)
  <2>1. "lower" \in Sides
    BY DEF Sides
  <2>2. FacetBound(st.bounds, "lower", Order[st.kind]) \in Bounds
    BY <2>1, BoundIsOne
  <2> QED BY <1>1, <2>2 DEF BoundsConsistent
<1>5. Present(st) = {}
  BY <1>1 DEF Present
<1> QED BY <1>1, <1>2, <1>3, <1>4, <1>5 DEF Settled, st

(* A chain of the primitive type alone is settled.                         *)
LEMMA InitiallySettled == Init => SettledInv
<1> SUFFICES ASSUME Init PROVE SettledInv
  OBVIOUS
<1>1. PICK k \in Kinds : types = <<Root(k)>> /\ type = Root(k)
  BY DEF Init
<1>2. step = NewStep /\ stage = "open" /\ error = "none"
  BY DEF Init
<1>3. \A i \in DOMAIN types : i = 1 /\ types[i] = Root(k)
  BY <1>1
<1>4. ChainSettled
  BY <1>3, RootIsSettled DEF ChainSettled
<1>5. DeclaredOK
  <2>1. Base = type
    BY <1>1 DEF Base
  <2>2. step.declared = {} /\ step.enumeration = {} /\ step.patterns = {} /\ step.count = 0
    BY <1>2 DEF NewStep
  <2>3. type.whiteSpace \in Nat
    <3>1. type.whiteSpace = WhiteSpaceOf[k]
      BY <1>1 DEF Root
    <3>2. WhiteSpaceOf[k] \in 0..2
      BY FacetsAssumption
    <3> QED BY <3>1, <3>2
  <2> QED BY <1>2, <2>1, <2>2, <2>3 DEF DeclaredOK
<1>6. RefusalsAreReal
  BY <1>2 DEF RefusalsAreReal
<1> QED BY <1>2, <1>4, <1>5, <1>6, Initially DEF SettledInv

(* The chain stays settled while it stays.                                 *)
LEMMA ChainStaysSettled ==
  ASSUME ChainSettled, types' = types
  PROVE  ChainSettled'
<1>1. ASSUME NEW i \in DOMAIN types PROVE Settled(types[i])'
  <2>1. Settled(types[i])
    BY <1>1 DEF ChainSettled
  <2>2. Founded(types[i])' <=> Founded(types[i])
    BY DEF Founded
  <2>3. \A literal : Replays(literal)' <=> Replays(literal)
    BY DEF Replays
  <2> QED BY <2>1, <2>2, <2>3 DEF Settled
<1>2. \A i, j \in DOMAIN types' : i < j => SizesRestrict(types'[j].sizes, types'[i].sizes)
  BY DEF ChainSettled
<1> QED BY <1>1, <1>2 DEF ChainSettled

(* So does the compiled type.                                              *)
LEMMA TypeStaysSettled ==
  ASSUME TypeSettled, types' = types, type' = type
  PROVE  TypeSettled'
  BY DEF TypeSettled, Settled, Founded, Replays, Ranked

(* A refusal for another reason is none that has to be real.               *)
LEMMA OtherRefusals ==
  ASSUME stage' = "refused",
         error' \in {"misplaced", "size", "literal", "white space"}
  PROVE  RefusalsAreReal'
  BY DEF RefusalsAreReal

(* A facet that is declared is one the kind has, and is what it was        *)
(* declared to be.                                                         *)
LEMMA DeclarationSettles ==
  ASSUME SettledInv, NEW d \in Offers[Kind],
         DeclareSize(d) \/ DeclareBound(d) \/ DeclareWhiteSpace(d) \/ DeclareEnumeration(d) \/ DeclarePattern(d)
  PROVE  SettledInv'
<1>0. IInv' /\ types' = types /\ ChainSettled' /\ stage = "open" /\ DeclaredOK /\ error = "none"
  <2>1. types' = types /\ stage = "open"
    BY DEF DeclareSize, DeclareBound, DeclareWhiteSpace, DeclareEnumeration, DeclarePattern, MayDeclare, Keep, Refuse
  <2>2. IInv'
    BY DeclarationPreserves DEF SettledInv
  <2> QED BY <2>1, <2>2, ChainStaysSettled DEF SettledInv
<1>1. CASE stage' = "refused"
  <2>1. error' \in {"size", "literal", "white space"}
    BY <1>0, <1>1 DEF DeclareSize, DeclareBound, DeclareWhiteSpace, DeclareEnumeration, DeclarePattern,
                MayDeclare, Keep, Refuse
  <2> QED BY <1>0, <1>1, <2>1, OtherRefusals DEF SettledInv
<1>2. CASE stage' # "refused"
  <2>1. stage' = "open" /\ error' = "none" /\ ~Misplaced(d.facet)
    BY <1>0, <1>2 DEF DeclareSize, DeclareBound, DeclareWhiteSpace, DeclareEnumeration, DeclarePattern,
                MayDeclare, Keep, Refuse
  <2>2. RefusalsAreReal'
    BY <2>1 DEF RefusalsAreReal
  <2>3. /\ StepOK /\ type \in Record /\ Base \in Record /\ Kind \in Kinds /\ Base' = Base /\ Kind' = Kind
        /\ d.facet \in Single \union {"enumeration", "pattern"}
        /\ d.facet \in Sizes => d.value \in Nat
        /\ d.facet = "whiteSpace" => d.value \in 0..2
    <3>1. StepOK /\ type \in Record /\ Base \in Record
      BY DEF SettledInv, IInv, WellFormed, ChainOK, Base
    <3>2. Kind \in Kinds
      BY <3>1 DEF Kind, Record
    <3> QED BY <1>0, <3>1, <3>2, OffersAssumption DEF Base, Kind
  <2>4. /\ d.facet \in Allowed[Family[Kind]]
        /\ Declared(d.facet).declared = step.declared \union {d.facet} /\ Declared(d.facet).count # 0
        /\ Declared(d.facet).enumeration = step.enumeration /\ Declared(d.facet).patterns = step.patterns
    <3>1. step.count + 1 # 0
      BY <2>3 DEF StepOK
    <3>2. /\ Declared(d.facet).declared = step.declared \union {d.facet} /\ Declared(d.facet).count = step.count + 1
          /\ Declared(d.facet).enumeration = step.enumeration /\ Declared(d.facet).patterns = step.patterns
      BY <2>3 DEF StepOK, Declared
    <3> QED BY <2>1, <3>1, <3>2 DEF Misplaced
  <2>5. /\ step'.declared = step.declared \union {d.facet} /\ step'.count # 0
        /\ \A literal \in step'.enumeration : literal.of = Len(types)
        /\ (step'.enumeration # {} => "enumeration" \in step'.declared)
        /\ (step'.patterns # {} => "pattern" \in step'.declared)
    <3>1. CASE DeclareSize(d) \/ DeclareBound(d) \/ DeclareWhiteSpace(d)
      <4>1. step' = Declared(d.facet)
        BY <1>2, <3>1 DEF DeclareSize, DeclareBound, DeclareWhiteSpace, Refuse
      <4> QED BY <1>0, <2>4, <4>1 DEF DeclaredOK
    <3>2. CASE DeclareEnumeration(d)
      <4>1. CompileLiteral(d.value) # NoValue /\ d.facet = "enumeration"
        BY <1>2, <3>2 DEF DeclareEnumeration, Refuse
      <4>2. step' = [Declared(d.facet) EXCEPT !.enumeration = @ \union {CompileLiteral(d.value)}]
        BY <3>2, <4>1 DEF DeclareEnumeration
      <4>3. CompileLiteral(d.value).of = Len(types)
        BY <4>1 DEF CompileLiteral
      <4>4. /\ step'.declared = step.declared \union {d.facet} /\ step'.count # 0 /\ step'.patterns = step.patterns
            /\ step'.enumeration = step.enumeration \union {CompileLiteral(d.value)}
        BY <2>3, <2>4, <4>2 DEF StepOK, Declared
      <4> QED BY <1>0, <4>1, <4>3, <4>4 DEF DeclaredOK
    <3>3. CASE DeclarePattern(d)
      <4>1. step' = [Declared(d.facet) EXCEPT !.patterns = @ \union {d.value}] /\ d.facet = "pattern"
        BY <3>3 DEF DeclarePattern
      <4>2. /\ step'.declared = step.declared \union {d.facet} /\ step'.count # 0
            /\ step'.enumeration = step.enumeration
        BY <2>3, <2>4, <4>1 DEF StepOK, Declared
      <4> QED BY <1>0, <4>1, <4>2 DEF DeclaredOK
    <3> QED BY <3>1, <3>2, <3>3
  <2>6. /\ Base.whiteSpace <= type'.whiteSpace
        /\ "whiteSpace" \notin step'.declared => type'.whiteSpace = Base.whiteSpace
        /\ type'.fixed \subseteq Base.fixed \union (step'.declared \intersect Single)
        /\ \A f \in Bounds : IF f \in step'.declared
                             THEN type'.bounds[f] = [text |-> type'.bounds[f].text, of |-> Len(types)]
                                  /\ Accepts(Base, type'.bounds[f].text)
                             ELSE type'.bounds[f] = Base.bounds[f]
        /\ \A c \in Sizes : IF c \in step'.declared THEN type'.sizes[c] \in Nat ELSE type'.sizes[c] = Base.sizes[c]
    <3>0. /\ Fixes(d) \subseteq type.fixed \union {d.facet}
          /\ Base.whiteSpace \in 0..2 /\ type.whiteSpace \in 0..2
          /\ Sizes \intersect Bounds = {} /\ "whiteSpace" \notin Sizes \union Bounds
          /\ "enumeration" \notin Single /\ "pattern" \notin Single /\ Bounds \subseteq Single /\ Sizes \subseteq Single /\ "whiteSpace" \in Single
      BY <2>3 DEF Fixes, Record, Sizes, Lengths, Bounds, Single
    <3>1. CASE DeclareSize(d)
      <4>1. type' = [type EXCEPT !.sizes[d.facet] = d.value, !.fixed = Fixes(d)] /\ d.facet \in Sizes
        BY <1>2, <3>1 DEF DeclareSize, Refuse
      <4>2. /\ type'.bounds = type.bounds /\ type'.whiteSpace = type.whiteSpace /\ type'.fixed = Fixes(d)
            /\ type'.sizes = [type.sizes EXCEPT ![d.facet] = d.value] /\ type.sizes \in [Sizes -> Nat \union {NoValue}]
        BY <2>3, <4>1 DEF Record
      <4> QED BY <1>0, <2>3, <2>5, <3>0, <4>1, <4>2 DEF DeclaredOK
    <3>2. CASE DeclareBound(d)
      <4>1. /\ type' = [type EXCEPT !.bounds[d.facet] = CompileLiteral(d.value), !.fixed = Fixes(d)]
            /\ d.facet \in Bounds /\ CompileLiteral(d.value) # NoValue
        BY <1>2, <3>2 DEF DeclareBound, Refuse
      <4>2. /\ type'.sizes = type.sizes /\ type'.whiteSpace = type.whiteSpace /\ type'.fixed = Fixes(d)
            /\ type'.bounds = [type.bounds EXCEPT ![d.facet] = CompileLiteral(d.value)]
            /\ type.bounds \in [Bounds -> Literal \union {NoValue}]
        BY <2>3, <4>1 DEF Record
      <4>3. /\ CompileLiteral(d.value) = [text |-> CompileLiteral(d.value).text, of |-> Len(types)]
            /\ Accepts(Base, CompileLiteral(d.value).text)
        BY <4>1 DEF CompileLiteral
      <4> QED BY <1>0, <2>5, <3>0, <4>1, <4>2, <4>3 DEF DeclaredOK
    <3>3. CASE DeclareWhiteSpace(d)
      <4>1. /\ type' = [type EXCEPT !.whiteSpace = d.value, !.fixed = Fixes(d)] /\ d.facet = "whiteSpace"
            /\ ~(d.value < Base.whiteSpace)
        BY <1>2, <3>3 DEF DeclareWhiteSpace, Refuse
      <4>2. /\ type'.sizes = type.sizes /\ type'.whiteSpace = d.value /\ type'.fixed = Fixes(d)
            /\ type'.bounds = type.bounds
        BY <2>3, <4>1 DEF Record
      <4>3. Base.whiteSpace <= d.value
        BY <2>3, <3>0, <4>1
      <4> QED BY <1>0, <2>5, <3>0, <4>1, <4>2, <4>3 DEF DeclaredOK
    <3>4. CASE DeclareEnumeration(d) \/ DeclarePattern(d)
      <4>1. type' = type /\ d.facet \notin Single /\ d.facet \notin Sizes \union Bounds \union {"whiteSpace"}
        BY <3>0, <3>4 DEF DeclareEnumeration, DeclarePattern, Refuse
      <4> QED BY <1>0, <2>5, <3>0, <4>1 DEF DeclaredOK
    <3> QED BY <3>1, <3>2, <3>3, <3>4
  <2>7. step'.declared \subseteq Allowed[Family[Kind]]
    BY <1>0, <2>4, <2>5 DEF DeclaredOK
  <2>8. DeclaredOK'
    BY <1>0, <2>3, <2>5, <2>6, <2>7 DEF DeclaredOK
  <2> QED BY <1>0, <2>1, <2>2, <2>8 DEF SettledInv
<1> QED BY <1>1, <1>2

-----------------------------------------------------------------------------
(* The copy with the enumeration and the patterns of its step.             *)
LEMMA CopyFacts ==
  ASSUME SettledInv, stage = "open", NEW derived, derived = Applied(type)
  PROVE  /\ derived \in Record /\ derived.kind = Base.kind /\ derived.bounds = type.bounds /\ derived.sizes = type.sizes
         /\ derived.fixed = type.fixed /\ derived.whiteSpace = type.whiteSpace
         /\ derived.enumeration = IF step.enumeration # {} THEN step.enumeration ELSE Base.enumeration
         /\ derived.patterns = IF step.patterns # {} THEN Append(Base.patterns, step.patterns) ELSE Base.patterns
         /\ Base \in Record /\ WellFormed(Base) /\ Settled(Base) /\ Len(types) \in DOMAIN types /\ Base.kind \in Kinds
         /\ Steps(derived, Base, step.declared)
<1>1. StepOK /\ type \in Record /\ CopyOK /\ DeclaredOK /\ ChainOK
  BY DEF SettledInv, IInv, WellFormed
<1>2. Len(types) \in DOMAIN types
  BY <1>1 DEF ChainOK
<1>3. Base \in Record /\ WellFormed(Base) /\ Settled(Base)
  BY <1>1, <1>2 DEF ChainOK, Base, SettledInv, ChainSettled
<1>4. Base.kind \in Kinds
  BY <1>3 DEF Record
<1>5. derived \in Record
  BY <1>1, AppliedIsRecord
<1>6. /\ derived.kind = type.kind /\ derived.bounds = type.bounds /\ derived.sizes = type.sizes
      /\ derived.fixed = type.fixed /\ derived.whiteSpace = type.whiteSpace
      /\ derived.enumeration = IF step.enumeration # {} THEN step.enumeration ELSE type.enumeration
      /\ derived.patterns = IF step.patterns # {} THEN Append(type.patterns, step.patterns) ELSE type.patterns
  BY <1>1 DEF Applied, Record
<1>7. type.kind = Base.kind /\ type.patterns = Base.patterns /\ type.enumeration = Base.enumeration
  BY <1>1 DEF CopyOK
<1>8. \A f \in Bounds : IF f \in step.declared THEN type.bounds[f] # NoValue /\ Accepts(Base, type.bounds[f].text)
                        ELSE type.bounds[f] = Base.bounds[f]
  <2> SUFFICES ASSUME NEW f \in Bounds
               PROVE  IF f \in step.declared THEN type.bounds[f] # NoValue /\ Accepts(Base, type.bounds[f].text)
                      ELSE type.bounds[f] = Base.bounds[f]
    OBVIOUS
  <2>1. CASE f \in step.declared
    <3>1. type.bounds[f] = [text |-> type.bounds[f].text, of |-> Len(types)] /\ Accepts(Base, type.bounds[f].text)
      BY <1>1, <2>1 DEF DeclaredOK
    <3>2. type.bounds[f].text \in Texts
      BY <1>4, <3>1, FacetsAssumption DEF Accepts
    <3>3. Len(types) \in Nat
      BY <1>2
    <3>4. type.bounds[f] \in [text : Texts, of : Nat]
      BY <3>1, <3>2, <3>3
    <3> QED BY <2>1, <3>1, <3>4, FacetsAssumption
  <2>2. CASE f \notin step.declared
    BY <1>1, <2>2 DEF DeclaredOK
  <2> QED BY <2>1, <2>2
<1>9. \A f \in Bounds : Base.bounds[f] # NoValue => Base.bounds[f].text \in Space[Base.kind]
  BY <1>3 DEF Settled
<1>10. Steps(derived, Base, step.declared)
  BY <1>4, <1>6, <1>7, <1>8, <1>9 DEF Steps
<1> QED BY <1>2, <1>3, <1>4, <1>5, <1>6, <1>7, <1>10

(* What passes the rules of the compiler is settled and passes the audit.  *)
LEMMA FaultlessIsSettled ==
  ASSUME SettledInv, stage = "open", NEW derived, derived = Applied(type), Fault(derived, Base, step.declared) = "none"
  PROVE  Settled(derived) /\ Audited(derived, Base) /\ \A i \in DOMAIN types : SizesRestrict(derived.sizes, types[i].sizes)
<1>0. /\ derived \in Record /\ derived.kind = Base.kind /\ derived.bounds = type.bounds /\ derived.sizes = type.sizes
      /\ derived.fixed = type.fixed /\ derived.whiteSpace = type.whiteSpace
      /\ derived.enumeration = IF step.enumeration # {} THEN step.enumeration ELSE Base.enumeration
      /\ derived.patterns = IF step.patterns # {} THEN Append(Base.patterns, step.patterns) ELSE Base.patterns
      /\ Base \in Record /\ WellFormed(Base) /\ Settled(Base) /\ Len(types) \in DOMAIN types /\ Base.kind \in Kinds
      /\ Steps(derived, Base, step.declared) /\ DeclaredOK /\ StepOK /\ CopyOK
  BY CopyFacts DEF SettledInv, IInv
<1>1. /\ SizesConsistent(derived.sizes) /\ SizeAncestry(derived.sizes, Base.sizes) /\ SizesRestrict(derived.sizes, Base.sizes)
      /\ \A side \in Sides : ~({Inclusive[side], Exclusive[side]} \subseteq step.declared)
      /\ FixedPreserved(derived, Base) /\ DeclaredBoundsRestrict(Base.kind, step.declared, derived.bounds, Base.bounds)
      /\ BoundsConsistent(Base.kind, derived.bounds)
      /\ step.declared \intersect Bounds # {} => OrderedFacetsRestrict(Base.kind, derived.bounds, Base.bounds)
  BY DEF Fault
<1>2. \A f \in Bounds : /\ derived.bounds[f] # NoValue => derived.bounds[f].text \in Space[derived.kind]
                        /\ Base.bounds[f] # NoValue => derived.bounds[f] # NoValue
  BY <1>0, DeclaredIsAdmitted
<1>3. \A side \in Sides : Ranked(derived, side, Order[derived.kind]) /\ Ranked(derived, side, Preference(derived.kind))
  <2> SUFFICES ASSUME NEW side \in Sides
               PROVE  Ranked(derived, side, Order[derived.kind]) /\ Ranked(derived, side, Preference(derived.kind))
    OBVIOUS
  <2>1. Ranked(Base, side, Order[Base.kind]) /\ Ranked(Base, side, Preference(Base.kind))
    BY <1>0 DEF Settled
  <2>2. Steps(derived, Base, step.declared) /\ ~({Inclusive[side], Exclusive[side]} \subseteq step.declared)
    BY <1>0, <1>1
  <2>3. Ranked(derived, side, Order[derived.kind])
    BY <2>1, <2>2, RankedByValue
  <2>4. Ranked(derived, side, Preference(derived.kind))
    BY <1>1, <2>1, <2>2, RankedByPreference
  <2> QED BY <2>3, <2>4
<1>4. Founded(derived)
  <2> SUFFICES ASSUME NEW c \in {"minLength", "maxLength"}, Both(derived.sizes, "length", c)
               PROVE  \E i \in DOMAIN types : types[i].sizes["length"] = NoValue /\ types[i].sizes[c] = derived.sizes[c]
    BY DEF Founded
  <2>1. derived.sizes[c] = Base.sizes[c] /\ Base.sizes[c] # NoValue
    BY <1>1 DEF SizeAncestry, Both
  <2>2. CASE Base.sizes["length"] = NoValue
    BY <1>0, <2>1, <2>2 DEF Base
  <2>3. CASE Base.sizes["length"] # NoValue
    BY <1>0, <2>1, <2>3 DEF Settled, Founded, Both
  <2> QED BY <2>2, <2>3
<1>5. \A c \in Sizes : derived.sizes[c] # NoValue /\ c \notin step.declared => Base.sizes[c] # NoValue
  BY <1>0 DEF DeclaredOK
<1>6. \A c \in Sizes : Base.sizes[c] # NoValue \/ c \in step.declared => derived.sizes[c] # NoValue
  <2>1. NoValue \notin Nat
    BY FacetsAssumption
  <2> QED BY <1>0, <2>1 DEF DeclaredOK
<1>7. Present(derived) \subseteq Allowed[Family[derived.kind]]
  <2> SUFFICES ASSUME NEW f \in Present(derived) PROVE f \in Present(Base) \/ f \in step.declared
    BY <1>0 DEF DeclaredOK, Settled, Kind
  <2>1. CASE f \in Bounds /\ derived.bounds[f] # NoValue
    BY <1>0, <2>1 DEF Steps, Present
  <2>2. CASE f \in Sizes /\ derived.sizes[f] # NoValue
    BY <1>5, <2>2 DEF Present
  <2>3. CASE f = "enumeration" /\ derived.enumeration # {}
    BY <1>0, <2>3 DEF DeclaredOK, Present
  <2>4. CASE f = "pattern" /\ derived.patterns # <<>>
    BY <1>0, <2>4 DEF DeclaredOK, Present
  <2> QED BY <2>1, <2>2, <2>3, <2>4 DEF Present
<1>8. derived.fixed \subseteq Present(derived) \union {"whiteSpace"}
  <2> SUFFICES ASSUME NEW f \in derived.fixed, f # "whiteSpace" PROVE f \in Present(derived)
    OBVIOUS
  <2>1. f \in Bounds \/ f \in Sizes
    BY <1>0 DEF Record, Single
  <2>2. f \in Base.fixed \/ f \in step.declared
    BY <1>0 DEF DeclaredOK
  <2>3. f \in Base.fixed => f \in Present(Base)
    BY <1>0 DEF Settled
  <2>4. "enumeration" \notin Bounds \union Sizes /\ "pattern" \notin Bounds \union Sizes /\ Bounds \intersect Sizes = {}
    BY DEF Bounds, Sizes, Lengths
  <2>5. CASE f \in Bounds
    <3>1. f \in step.declared => derived.bounds[f] # NoValue
      BY <1>0, <2>5 DEF Steps
    <3>2. f \in Base.fixed => Base.bounds[f] # NoValue
      BY <2>3, <2>4, <2>5 DEF Present
    <3>3. derived.bounds[f] # NoValue
      BY <1>2, <2>2, <2>5, <3>1, <3>2
    <3> QED BY <2>5, <3>3 DEF Present
  <2>6. CASE f \in Sizes
    <3>1. f \in Base.fixed => Base.sizes[f] # NoValue
      BY <2>3, <2>4, <2>6 DEF Present
    <3>2. derived.sizes[f] # NoValue
      BY <1>6, <2>2, <2>6, <3>1
    <3> QED BY <2>6, <3>2 DEF Present
  <2> QED BY <2>1, <2>5, <2>6
<1>9. \A literal \in derived.enumeration \union {derived.bounds[f] : f \in Bounds} : literal # NoValue => Replays(literal)
  <2> SUFFICES ASSUME NEW literal \in derived.enumeration \union {derived.bounds[f] : f \in Bounds}, literal # NoValue
               PROVE  Replays(literal)
    OBVIOUS
  <2>1. Len(types) \in 1..Len(types) /\ types[Len(types)] = Base
    BY <1>0 DEF Base
  <2>2. literal.of = Len(types) /\ Accepts(Base, literal.text) => Replays(literal)
    BY <2>1 DEF Replays
  <2>3. literal \in Base.enumeration \union {Base.bounds[f] : f \in Bounds} => Replays(literal)
    BY <1>0 DEF Settled
  <2>4. CASE literal \in derived.enumeration
    BY <1>0, <2>2, <2>3, <2>4 DEF DeclaredOK, CopyOK
  <2>5. CASE literal \in {derived.bounds[f] : f \in Bounds}
    <3>1. PICK f \in Bounds : literal = derived.bounds[f]
      BY <2>5
    <3>2. CASE f \in step.declared
      <4>1. literal = [text |-> literal.text, of |-> Len(types)] /\ Accepts(Base, literal.text)
        BY <1>0, <3>1, <3>2 DEF DeclaredOK
      <4>2. literal.of = Len(types)
        BY <4>1
      <4> QED BY <2>2, <4>1, <4>2
    <3>3. CASE f \notin step.declared
      BY <1>0, <2>3, <3>1, <3>3 DEF DeclaredOK
    <3> QED BY <3>2, <3>3
  <2> QED BY <2>4, <2>5
<1>10. Settled(derived)
  BY <1>0, <1>1, <1>2, <1>3, <1>4, <1>7, <1>8, <1>9 DEF Settled
<1>11. OrderedFacetsRestrict(derived.kind, derived.bounds, Base.bounds)
  <2>1. CASE step.declared \intersect Bounds # {}
    BY <1>0, <1>1, <2>1
  <2>2. CASE step.declared \intersect Bounds = {}
    <3>1. derived.bounds \in [Bounds -> Literal \union {NoValue}] /\ Base.bounds \in [Bounds -> Literal \union {NoValue}]
      BY <1>0 DEF Record
    <3>2. \A f \in Bounds : derived.bounds[f] = Base.bounds[f]
      BY <1>0, <2>2 DEF DeclaredOK
    <3>3. derived.bounds = Base.bounds
      BY <3>1, <3>2
    <3>4. \A f \in Bounds : Base.bounds[f] # NoValue => Base.bounds[f].text \in Space[Base.kind]
      BY <1>0 DEF Settled
    <3>5. OrderedFacetsRestrict(Base.kind, Base.bounds, Base.bounds)
      BY <1>0, <3>4, InheritedRestrict
    <3> QED BY <1>0, <3>3, <3>5
  <2> QED BY <2>1, <2>2
<1>12. \/ derived.enumeration = Base.enumeration
       \/ derived.enumeration # {} /\ \A literal \in derived.enumeration : literal.of = Len(types)
  BY <1>0 DEF DeclaredOK
<1>13. Len(Base.patterns) <= Len(derived.patterns) /\ SubSeq(derived.patterns, 1, Len(Base.patterns)) = Base.patterns
  <2>1. Base.patterns \in Seq(SUBSET (SUBSET Texts))
    BY <1>0 DEF Record
  <2>2. CASE derived.patterns = Base.patterns
    BY <2>1, <2>2
  <2>3. CASE derived.patterns = Append(Base.patterns, step.patterns)
    BY <2>1, <2>3
  <2> QED BY <1>0, <2>2, <2>3
<1>14. Audited(derived, Base)
  BY <1>0, <1>1, <1>7, <1>8, <1>9, <1>11, <1>12, <1>13 DEF Audited, DeclaredOK
<1>15. \A i \in DOMAIN types : SizesRestrict(derived.sizes, types[i].sizes)
  <2> SUFFICES ASSUME NEW i \in DOMAIN types PROVE SizesRestrict(derived.sizes, types[i].sizes)
    OBVIOUS
  <2>1. CASE i = Len(types)
    BY <1>1, <2>1 DEF Base
  <2>2. CASE i # Len(types)
    <3>1. i < Len(types) /\ types[i] \in Record
      BY <2>2 DEF SettledInv, IInv, ChainOK
    <3>2. SizesRestrict(Base.sizes, types[i].sizes)
      BY <1>0, <3>1 DEF SettledInv, ChainSettled, Base
    <3>3. /\ derived.sizes \in [Sizes -> Nat \union {NoValue}] /\ Base.sizes \in [Sizes -> Nat \union {NoValue}]
          /\ types[i].sizes \in [Sizes -> Nat \union {NoValue}]
      BY <1>0, <3>1 DEF Record
    <3> QED BY <1>1, <3>2, <3>3, SizesRestrictCompose
  <2> QED BY <2>1, <2>2
<1> QED BY <1>10, <1>14, <1>15

(* A type that repeats its base passes the audit as its base did.          *)
LEMMA BaseIsAudited ==
  ASSUME SettledInv
  PROVE  Settled(Base) /\ Audited(Base, Base) /\ \A i \in DOMAIN types : SizesRestrict(Base.sizes, types[i].sizes)
<1>0. Base \in Record /\ WellFormed(Base) /\ Settled(Base) /\ Len(types) \in DOMAIN types
  BY DEF SettledInv, IInv, ChainOK, ChainSettled, Base
<1>1. SizesRestrict(Base.sizes, Base.sizes)
  <2>1. Base.sizes \in [Sizes -> Nat \union {NoValue}]
    BY <1>0 DEF Record
  <2> QED BY <2>1, SizesRestrictSelf
<1>2. FixedPreserved(Base, Base)
  BY <1>0, RestrictsReflexive DEF Restricts
<1>3. OrderedFacetsRestrict(Base.kind, Base.bounds, Base.bounds)
  <2>1. Base.kind \in Kinds /\ \A f \in Bounds : Base.bounds[f] # NoValue => Base.bounds[f].text \in Space[Base.kind]
    BY <1>0 DEF Settled, Record
  <2> QED BY <2>1, InheritedRestrict
<1>4. Len(Base.patterns) <= Len(Base.patterns) /\ SubSeq(Base.patterns, 1, Len(Base.patterns)) = Base.patterns
  <2>1. Base.patterns \in Seq(SUBSET (SUBSET Texts))
    BY <1>0 DEF Record
  <2> QED BY <2>1
<1>5. Base.whiteSpace <= Base.whiteSpace
  <2>1. Base.whiteSpace \in 0..2
    BY <1>0 DEF Record
  <2> QED BY <2>1
<1>6. Audited(Base, Base)
  BY <1>0, <1>1, <1>2, <1>3, <1>4, <1>5 DEF Audited, Settled
<1>7. \A i \in DOMAIN types : SizesRestrict(Base.sizes, types[i].sizes)
  <2> SUFFICES ASSUME NEW i \in DOMAIN types PROVE SizesRestrict(Base.sizes, types[i].sizes)
    OBVIOUS
  <2>1. CASE i = Len(types)
    BY <1>1, <2>1 DEF Base
  <2>2. CASE i # Len(types)
    <3>1. i < Len(types)
      BY <2>2 DEF SettledInv, IInv, ChainOK
    <3> QED BY <1>0, <3>1 DEF SettledInv, ChainSettled, Base
  <2> QED BY <2>1, <2>2
<1> QED BY <1>0, <1>6, <1>7

(* What is compiled gives no ground for a refusal.                         *)
LEMMA CompiledHasNoFault ==
  ASSUME SettledInv, stage = "open", types' = types, step' = step, type' \in Record, type'.kind = Base.kind,
         Settled(type'), SizesRestrict(type'.sizes, Base.sizes), Base.kind \in Kinds,
         \/ step.declared = {}
         \/ /\ Steps(type', Base, step.declared)
            /\ DeclaredBoundsRestrict(Base.kind, step.declared, type'.bounds, Base.bounds)
  PROVE  Looser' = {} /\ LooserSizes' = {} /\ BoundsMeet' /\ LengthsMeet' /\ Unfounded' = {}
<1>0. Base' = Base /\ Kind' = Kind /\ Kind = Base.kind /\ type'.sizes \in [Sizes -> Nat \union {NoValue}]
  BY DEF Base, Kind, Record
<1>1. Looser' = {}
  <2> SUFFICES ASSUME NEW side \in Sides, NEW f \in {Inclusive[side], Exclusive[side]} \intersect step.declared
               PROVE  LooserThan(side, f)' = {}
    BY DEF Looser
  <2> SUFFICES ASSUME NEW g \in {Inclusive[side], Exclusive[side]}, Base.bounds[g] # NoValue
               PROVE  AtLeastAsTight(side, f, g, Written[Kind][<<type'.bounds[f].text, Base.bounds[g].text>>])
    BY <1>0 DEF LooserThan
  <2>1. /\ Steps(type', Base, step.declared)
        /\ DeclaredBoundsRestrict(Base.kind, step.declared, type'.bounds, Base.bounds)
    OBVIOUS
  <2>2. Ranked(Base, side, Preference(Base.kind))
    BY BaseIsAudited DEF Settled
  <2>3. AtLeastAsTight(side, f, g, Written[Base.kind][<<type'.bounds[f].text, Base.bounds[g].text>>])
    BY <2>1, <2>2, DeclaredIsTight
  <2> QED BY <1>0, <2>3
<1>2. LooserSizes' = {}
  BY <1>0 DEF LooserSizes, SizesRestrict
<1>3. BoundsMeet'
  <2> SUFFICES ASSUME NEW p \in {Inclusive, Exclusive}, NEW q \in {Inclusive, Exclusive},
                      type'.bounds[p["lower"]] # NoValue, type'.bounds[q["upper"]] # NoValue
               PROVE  LET relation == Order[Kind][<<type'.bounds[p["lower"]].text, type'.bounds[q["upper"]].text>>]
                      IN  \/ relation = "less"
                          \/ relation = "equal" /\ p = q
                          \/ relation = "incomparable" /\ Kind \in PartialKinds
    BY <1>0 DEF BoundsMeet
  <2>1. PICK f, g : f = p["lower"] /\ g = q["upper"]
    OBVIOUS
  <2>2. /\ f \in {"minInclusive", "minExclusive"} /\ g \in {"maxInclusive", "maxExclusive"}
        /\ (f = "minInclusive" => p = Inclusive) /\ (g = "maxInclusive" => q = Inclusive)
    BY <2>1 DEF Inclusive, Exclusive
  <2>3. /\ \A h \in Bounds : type'.bounds[h] # NoValue => type'.bounds[h].text \in Space[type'.kind]
        /\ \A side \in Sides : Ranked(type', side, Order[type'.kind])
        /\ BoundsConsistent(type'.kind, type'.bounds) /\ type'.kind \in Kinds
    BY DEF Settled
  <2>4. LET relation == Order[type'.kind][<<type'.bounds[f].text, type'.bounds[g].text>>]
        IN  \/ relation = "less"
            \/ relation = "equal" /\ f = "minInclusive" /\ g = "maxInclusive"
            \/ relation = "incomparable" /\ type'.kind \in PartialKinds
    BY <2>1, <2>2, <2>3, TightestDecide
  <2> QED BY <1>0, <2>1, <2>2, <2>4
<1>4. LengthsMeet'
  <2>1. Meetable(type'.sizes)
    BY <1>0, ConsistentSizesMeet DEF Settled
  <2> QED BY <2>1 DEF LengthsMeet, Meetable
<1>5. Unfounded' = {}
  BY DEF Unfounded, Settled, Founded
<1> QED BY <1>1, <1>2, <1>3, <1>4, <1>5

(* Each rule that refuses a step refuses it for what it declares.          *)
LEMMA FaultsAreReal ==
  ASSUME SettledInv, stage = "open", types' = types, step' = step, type' = Applied(type),
         NEW fault, fault = Fault(type', Base, step.declared)
  PROVE  /\ fault = "bounds exclude all" => \A t \in Space[Kind] : ~BoundsHold(Kind, type'.bounds, t)
         /\ fault = "bounds loosen" => Looser' # {}
         /\ fault = "sizes conflict" => ~LengthsMeet' \/ (/\ Both(type'.sizes, "totalDigits", "fractionDigits")
                                                          /\ type'.sizes["totalDigits"] < type'.sizes["fractionDigits"])
         /\ fault = "no ancestor" => Unfounded' \union LooserSizes' # {}
         /\ fault = "sizes loosen" => LooserSizes' # {}
         /\ fault = "fixed" => \E f \in Base.fixed \intersect step.declared :
                                 IF f \in Bounds THEN <<type'.bounds[f].text, Base.bounds[f].text>> \notin Same[Kind]
                                 ELSE IF f \in Sizes THEN type'.sizes[f] # Base.sizes[f]
                                 ELSE type'.whiteSpace # Base.whiteSpace
<1>0. /\ type' \in Record /\ type'.kind = Base.kind /\ type'.bounds = type.bounds /\ type'.sizes = type.sizes
      /\ type'.fixed = type.fixed /\ type'.whiteSpace = type.whiteSpace
      /\ Base \in Record /\ WellFormed(Base) /\ Settled(Base) /\ Len(types) \in DOMAIN types /\ Base.kind \in Kinds
      /\ Steps(type', Base, step.declared) /\ DeclaredOK
      /\ Base' = Base /\ Kind' = Kind /\ Kind = Base.kind /\ NoValue \notin Nat
      /\ type'.sizes \in [Sizes -> Nat \union {NoValue}] /\ Base.sizes \in [Sizes -> Nat \union {NoValue}]
  <2>1. PICK derived : derived = type'
    OBVIOUS
  <2>2. /\ derived \in Record /\ derived.kind = Base.kind /\ derived.bounds = type.bounds /\ derived.sizes = type.sizes
        /\ derived.fixed = type.fixed /\ derived.whiteSpace = type.whiteSpace
        /\ Base \in Record /\ WellFormed(Base) /\ Settled(Base) /\ Len(types) \in DOMAIN types /\ Base.kind \in Kinds
        /\ Steps(derived, Base, step.declared)
    BY <2>1, CopyFacts
  <2>3. Base' = Base /\ Kind' = Kind /\ Kind = Base.kind /\ NoValue \notin Nat /\ DeclaredOK
    BY FacetsAssumption DEF Base, Kind, SettledInv
  <2> QED BY <2>1, <2>2, <2>3 DEF Record
<1>1. ASSUME fault = "bounds exclude all" PROVE \A t \in Space[Kind] : ~BoundsHold(Kind, type'.bounds, t)
  <2>1. ~BoundsConsistent(type'.kind, type'.bounds)
    BY <1>0, <1>1 DEF Fault
  <2>2. type'.kind \in Kinds /\ \A f \in Bounds : type'.bounds[f] # NoValue => type'.bounds[f].text \in Space[type'.kind]
    BY <1>0, DeclaredIsAdmitted
  <2>3. \A t \in Space[type'.kind] : ~BoundsHold(type'.kind, type'.bounds, t)
    BY <2>1, <2>2, ExclusionIsReal
  <2> QED BY <1>0, <2>3
<1>2. ASSUME fault = "bounds loosen" PROVE Looser' # {}
  <2>1. \/ ~DeclaredBoundsRestrict(Base.kind, step.declared, type'.bounds, Base.bounds)
        \/ /\ DeclaredBoundsRestrict(Base.kind, step.declared, type'.bounds, Base.bounds)
           /\ ~OrderedFacetsRestrict(Base.kind, type'.bounds, Base.bounds)
    BY <1>2 DEF Fault
  <2>2. \E side \in Sides, f \in step.declared, g \in Bounds :
          /\ f \in {Inclusive[side], Exclusive[side]} /\ g \in {Inclusive[side], Exclusive[side]}
          /\ Base.bounds[g] # NoValue
          /\ ~AtLeastAsTight(side, f, g, Written[Base.kind][<<type'.bounds[f].text, Base.bounds[g].text>>])
    <3>1. CASE ~DeclaredBoundsRestrict(Base.kind, step.declared, type'.bounds, Base.bounds)
      <4>1. PICK side \in Sides : \E f \in {Inclusive[side], Exclusive[side]} \intersect step.declared :
              LET g == FacetBound(Base.bounds, side, Preference(Base.kind))
              IN  /\ Base.bounds[g] # NoValue
                  /\ ~AtLeastAsTight(side, f, g, Written[Base.kind][<<type'.bounds[f].text, Base.bounds[g].text>>])
        BY <3>1 DEF DeclaredBoundsRestrict
      <4>2. /\ FacetBound(Base.bounds, side, Preference(Base.kind)) \in {Inclusive[side], Exclusive[side]}
            /\ FacetBound(Base.bounds, side, Preference(Base.kind)) \in Bounds
        BY BoundIsOne
      <4> QED BY <4>1, <4>2
    <3>2. CASE /\ DeclaredBoundsRestrict(Base.kind, step.declared, type'.bounds, Base.bounds)
               /\ ~OrderedFacetsRestrict(Base.kind, type'.bounds, Base.bounds)
      <4>1. \A side \in Sides : Ranked(Base, side, Preference(Base.kind))
        BY <1>0 DEF Settled
      <4> QED BY <1>0, <3>2, <4>1, LooseningIsDeclared
    <3> QED BY <2>1, <3>1, <3>2
  <2>3. PICK side \in Sides, f \in step.declared, g \in Bounds :
          /\ f \in {Inclusive[side], Exclusive[side]} /\ g \in {Inclusive[side], Exclusive[side]}
          /\ Base.bounds[g] # NoValue
          /\ ~AtLeastAsTight(side, f, g, Written[Base.kind][<<type'.bounds[f].text, Base.bounds[g].text>>])
    BY <2>2
  <2>4. g \in LooserThan(side, f)'
    BY <1>0, <2>3 DEF LooserThan
  <2>5. f \in Looser'
    BY <2>3, <2>4 DEF Looser
  <2> QED BY <2>5
<1>3. ASSUME fault = "sizes conflict"
      PROVE  ~LengthsMeet' \/ (Both(type'.sizes, "totalDigits", "fractionDigits") /\ type'.sizes["totalDigits"] < type'.sizes["fractionDigits"])
  <2>1. ~SizesConsistent(type'.sizes)
    BY <1>3 DEF Fault
  <2>2. ~Meetable(type'.sizes) \/ (Both(type'.sizes, "totalDigits", "fractionDigits") /\ type'.sizes["totalDigits"] < type'.sizes["fractionDigits"])
    BY <1>0, <2>1, ConflictIsReal
  <2> QED BY <2>2 DEF LengthsMeet, Meetable
<1>4. ASSUME fault = "no ancestor" PROVE Unfounded' \union LooserSizes' # {}
  <2>1. PICK c \in {"minLength", "maxLength"} : Both(type'.sizes, "length", c) /\ type'.sizes[c] # Base.sizes[c]
    BY <1>4 DEF Fault, SizeAncestry
  <2>2. CASE ~\E i \in DOMAIN types : types[i].sizes["length"] = NoValue /\ types[i].sizes[c] = type'.sizes[c]
    <3>1. c \in Unfounded'
      BY <2>1, <2>2 DEF Unfounded
    <3> QED BY <3>1
  <2>3. CASE \E i \in DOMAIN types : types[i].sizes["length"] = NoValue /\ types[i].sizes[c] = type'.sizes[c]
    <3>1. PICK i \in DOMAIN types : types[i].sizes[c] = type'.sizes[c]
      BY <2>3
    <3>2. SizesRestrict(Base.sizes, types[i].sizes)
      BY BaseIsAudited
    <3>3. types[i].sizes \in [Sizes -> Nat \union {NoValue}]
      <4>1. types[i] \in Record
        BY DEF SettledInv, IInv, ChainOK, WellFormed
      <4> QED BY <4>1 DEF Record
    <3>4. types[i].sizes[c] # NoValue /\ types[i].sizes[c] # Base.sizes[c]
      BY <2>1, <3>1 DEF Both
    <3>5. Base.sizes[c] # NoValue /\ ~Fits(c, type'.sizes[c], Base.sizes[c])
      <4>1. Base.sizes[c] # NoValue /\ ~Fits(c, types[i].sizes[c], Base.sizes[c])
        BY <1>0, <3>2, <3>3, <3>4, ReturnLoosens
      <4> QED BY <3>1, <4>1
    <3>6. c \in Sizes /\ c \in step.declared
      BY <1>0, <2>1 DEF DeclaredOK, Sizes, Lengths
    <3>7. c \in LooserSizes'
      BY <1>0, <3>5, <3>6 DEF LooserSizes
    <3> QED BY <3>7
  <2> QED BY <2>2, <2>3
<1>5. ASSUME fault = "sizes loosen" PROVE LooserSizes' # {}
  <2>1. PICK c \in Sizes : Base.sizes[c] # NoValue /\ ~(type'.sizes[c] # NoValue /\ Fits(c, type'.sizes[c], Base.sizes[c]))
    BY <1>5 DEF Fault, SizesRestrict
  <2>2. c \in step.declared
    <3> SUFFICES ASSUME c \notin step.declared PROVE FALSE
      OBVIOUS
    <3>1. type'.sizes[c] = Base.sizes[c]
      BY <1>0 DEF DeclaredOK
    <3>2. SizesRestrict(Base.sizes, Base.sizes)
      BY <1>0, SizesRestrictSelf
    <3> QED BY <2>1, <3>1, <3>2 DEF SizesRestrict
  <2>3. type'.sizes[c] # NoValue
    BY <1>0, <2>2 DEF DeclaredOK
  <2>4. c \in LooserSizes'
    BY <1>0, <2>1, <2>2, <2>3 DEF LooserSizes
  <2> QED BY <2>4
<1>6. ASSUME fault = "fixed"
      PROVE  \E f \in Base.fixed \intersect step.declared :
               IF f \in Bounds THEN <<type'.bounds[f].text, Base.bounds[f].text>> \notin Same[Kind]
               ELSE IF f \in Sizes THEN type'.sizes[f] # Base.sizes[f]
               ELSE type'.whiteSpace # Base.whiteSpace
  <2>1. PICK f \in Base.fixed : ~(/\ f \in Sizes => type'.sizes[f] = Base.sizes[f]
                                  /\ f = "whiteSpace" => type'.whiteSpace = Base.whiteSpace
                                  /\ f \in Bounds => /\ Base.bounds[f] # NoValue /\ type'.bounds[f] # NoValue
                                                     /\ <<type'.bounds[f].text, Base.bounds[f].text>> \in Same[Base.kind])
    BY <1>6 DEF Fault, FixedPreserved
  <2>2. f \in Bounds => Base.bounds[f] # NoValue /\ type'.bounds[f] # NoValue /\ Base.bounds[f].text \in Texts
    <3>1. f \in Bounds => Base.bounds[f] # NoValue /\ Base.bounds[f] \in Literal
      BY <1>0 DEF WellFormed, Record
    <3>2. f \in Bounds => type'.bounds[f] # NoValue
      BY <1>0, <3>1, DeclaredIsAdmitted
    <3> QED BY <3>1, <3>2 DEF Literal
  <2>3. f \in step.declared
    <3> SUFFICES ASSUME f \notin step.declared PROVE FALSE
      OBVIOUS
    <3>1. /\ f \in Sizes => type'.sizes[f] = Base.sizes[f]
          /\ f = "whiteSpace" => type'.whiteSpace = Base.whiteSpace
          /\ f \in Bounds => type'.bounds[f] = Base.bounds[f]
      BY <1>0 DEF DeclaredOK
    <3>2. f \in Bounds => <<Base.bounds[f].text, Base.bounds[f].text>> \in Same[Base.kind]
      BY <1>0, <2>2, OrderAssumption
    <3> QED BY <2>1, <2>2, <3>1, <3>2
  <2>4. f \in Bounds \/ f \in Sizes \/ f = "whiteSpace"
    BY <1>0 DEF Record, Single
  <2>5. Bounds \intersect Sizes = {} /\ "whiteSpace" \notin Bounds \union Sizes
    BY DEF Bounds, Sizes, Lengths
  <2> QED BY <1>0, <2>1, <2>2, <2>3, <2>4, <2>5
<1> QED BY <1>1, <1>2, <1>3, <1>4, <1>5, <1>6

-----------------------------------------------------------------------------
(* What the rules let pass is settled, and what they refuse is refused for *)
(* a reason.                                                               *)
LEMMA CompileSettles == ASSUME SettledInv, Compile PROVE SettledInv'
<1>0. /\ stage = "open" /\ types' = types /\ step' = step /\ DeclaredOK /\ CopyOK /\ IInv' /\ ChainSettled'
      /\ Base' = Base /\ Kind' = Kind /\ Kind = Base.kind
  <2>1. stage = "open" /\ types' = types /\ step' = step
    BY DEF Compile
  <2>2. IInv'
    BY CompilePreserves DEF SettledInv
  <2> QED BY <2>1, <2>2, ChainStaysSettled DEF SettledInv, IInv, Base, Kind
<1>1. CASE step.count = 0
  <2>1. type' = Base /\ stage' = "compiled" /\ error' = "none" /\ step.declared = {}
    BY <1>0, <1>1 DEF Compile, CopyOK, DeclaredOK, NewStep
  <2>2. Settled(type') /\ Audited(type', Base) /\ \A i \in DOMAIN types : SizesRestrict(type'.sizes, types[i].sizes)
    BY <2>1, BaseIsAudited
  <2>3. TypeSettled' /\ Audited(type, Base)'
    BY <1>0, <2>2 DEF TypeSettled, Settled, Founded, Replays, Audited
  <2>4. Base \in Record /\ Base.kind \in Kinds /\ Len(types) \in DOMAIN types
    <3>1. Base \in Record /\ Len(types) \in DOMAIN types
      BY DEF SettledInv, IInv, ChainOK, Base
    <3> QED BY <3>1 DEF Record
  <2>5. Looser' = {} /\ LooserSizes' = {} /\ BoundsMeet' /\ LengthsMeet' /\ Unfounded' = {}
    <3>1. SizesRestrict(type'.sizes, Base.sizes)
      BY <2>2, <2>4 DEF Base
    <3> QED BY <1>0, <2>1, <2>2, <2>4, <3>1, CompiledHasNoFault
  <2>6. RefusalsAreReal'
    BY <2>1, <2>5 DEF RefusalsAreReal
  <2> QED BY <1>0, <2>1, <2>3, <2>6 DEF SettledInv
<1>2. CASE step.count # 0
  <2>0. PICK fault : fault = Fault(Applied(type), Base, step.declared)
    OBVIOUS
  <2>1. type' = Applied(type) /\ error' = fault /\ stage' = IF fault = "none" THEN "compiled" ELSE "refused"
    BY <1>2, <2>0 DEF Compile
  <2>2. PICK derived : derived = Applied(type)
    OBVIOUS
  <2>3. /\ derived \in Record /\ derived.kind = Base.kind /\ Base.kind \in Kinds /\ Len(types) \in DOMAIN types
        /\ Steps(derived, Base, step.declared)
    BY <1>0, <2>2, CopyFacts
  <2>4. CASE fault = "none"
    <3>1. Settled(derived) /\ Audited(derived, Base) /\ \A i \in DOMAIN types : SizesRestrict(derived.sizes, types[i].sizes)
      BY <1>0, <2>0, <2>2, <2>4, FaultlessIsSettled
    <3>2. TypeSettled' /\ Audited(type, Base)'
      BY <1>0, <2>1, <2>2, <3>1 DEF TypeSettled, Settled, Founded, Replays, Audited
    <3>3. SizesRestrict(derived.sizes, Base.sizes)
      BY <2>3, <3>1 DEF Base
    <3>4. DeclaredBoundsRestrict(Base.kind, step.declared, derived.bounds, Base.bounds)
      BY <2>0, <2>2, <2>4 DEF Fault
    <3>5. Looser' = {} /\ LooserSizes' = {} /\ BoundsMeet' /\ LengthsMeet' /\ Unfounded' = {}
      <4>1. type' = derived
        BY <2>1, <2>2
      <4>2. /\ type' \in Record /\ type'.kind = Base.kind /\ Settled(type') /\ SizesRestrict(type'.sizes, Base.sizes)
            /\ Steps(type', Base, step.declared)
            /\ DeclaredBoundsRestrict(Base.kind, step.declared, type'.bounds, Base.bounds)
        BY <2>3, <3>1, <3>3, <3>4, <4>1
      <4> QED BY <1>0, <2>3, <4>2, CompiledHasNoFault
    <3>6. RefusalsAreReal'
      BY <2>1, <2>4, <3>5 DEF RefusalsAreReal
    <3> QED BY <1>0, <2>1, <2>4, <3>2, <3>6 DEF SettledInv
  <2>5. CASE fault # "none"
    <3>1. fault = Fault(type', Base, step.declared)
      BY <2>0, <2>1
    <3>2. /\ fault = "bounds exclude all" => \A t \in Space[Kind] : ~BoundsHold(Kind, type'.bounds, t)
          /\ fault = "bounds loosen" => Looser' # {}
          /\ fault = "sizes conflict" => ~LengthsMeet' \/ (/\ Both(type'.sizes, "totalDigits", "fractionDigits")
                                                           /\ type'.sizes["totalDigits"] < type'.sizes["fractionDigits"])
          /\ fault = "no ancestor" => Unfounded' \union LooserSizes' # {}
          /\ fault = "sizes loosen" => LooserSizes' # {}
          /\ fault = "fixed" => \E f \in Base.fixed \intersect step.declared :
                                  IF f \in Bounds THEN <<type'.bounds[f].text, Base.bounds[f].text>> \notin Same[Kind]
                                  ELSE IF f \in Sizes THEN type'.sizes[f] # Base.sizes[f]
                                  ELSE type'.whiteSpace # Base.whiteSpace
      BY <1>0, <2>1, <3>1, FaultsAreReal
    <3>3. stage' = "refused"
      BY <2>1, <2>5
    <3>4. RefusalsAreReal'
      BY <1>0, <2>1, <3>2, <3>3 DEF RefusalsAreReal
    <3> QED BY <1>0, <3>3, <3>4 DEF SettledInv
  <2> QED BY <2>4, <2>5
<1> QED BY <1>1, <1>2

(* The audit finds nothing.                                                *)
LEMMA AuditSettles == ASSUME SettledInv, Audit PROVE SettledInv'
<1>1. stage = "compiled" /\ stage' = "published" /\ UNCHANGED <<types, type, step, error>>
  BY DEF Audit, SettledInv
<1>2. IInv' /\ ChainSettled' /\ TypeSettled'
  <2>1. IInv'
    BY <1>1 DEF Audit, SettledInv, IInv, ChainOK, WellFormed, StepOK
  <2> QED BY <1>1, <2>1, ChainStaysSettled, TypeStaysSettled DEF SettledInv
<1>3. error' = "none"
  BY <1>1 DEF SettledInv
<1>4. RefusalsAreReal'
  BY <1>1, <1>3 DEF RefusalsAreReal
<1> QED BY <1>1, <1>2, <1>3, <1>4 DEF SettledInv

(* A settled type is settled as the next of the chain.                     *)
LEMMA DeriveSettles == ASSUME SettledInv, Derive PROVE SettledInv'
<1>1. /\ stage = "published" /\ types' = Append(types, type) /\ step' = NewStep /\ stage' = "open" /\ type' = type
      /\ error' = error /\ error = "none" /\ TypeSettled /\ ChainSettled /\ ChainOK /\ type \in Record
  BY DEF Derive, SettledInv, IInv, WellFormed
<1>2. IInv'
  BY DerivePreserves DEF SettledInv
<1>3. /\ types' \in Seq(Record) /\ Len(types') = Len(types) + 1 /\ Len(types) \in Nat
      /\ \A i \in DOMAIN types' : types'[i] = IF i = Len(types) + 1 THEN type ELSE types[i]
      /\ \A i \in DOMAIN types' : i # Len(types) + 1 => i \in DOMAIN types
      /\ \A i \in DOMAIN types : i \in DOMAIN types' /\ types'[i] = types[i]
      /\ Len(types) + 1 \in DOMAIN types'
  <2>1. types \in Seq(Record)
    BY <1>1 DEF ChainOK
  <2> QED BY <1>1, <2>1
<1>4. \A literal : Replays(literal) =>
        literal.of \in 1..Len(types') /\ Accepts(types'[literal.of], literal.text)
  <2> SUFFICES ASSUME NEW literal, Replays(literal) PROVE literal.of \in 1..Len(types') /\ Accepts(types'[literal.of], literal.text)
    OBVIOUS
  <2>1. literal.of \in 1..Len(types) /\ Accepts(types[literal.of], literal.text)
    BY DEF Replays
  <2>2. literal.of \in DOMAIN types
    <3>1. types \in Seq(Record)
      BY <1>1 DEF ChainOK
    <3> QED BY <2>1, <3>1
  <2>3. literal.of \in 1..Len(types')
    BY <1>3, <2>1
  <2> QED BY <1>3, <2>1, <2>2, <2>3
<1>5. \A st : Settled(st) =>
        /\ \A f \in Bounds : st.bounds[f] # NoValue => st.bounds[f].text \in Space[st.kind]
        /\ \A side \in Sides : Ranked(st, side, Order[st.kind]) /\ Ranked(st, side, Preference(st.kind))
        /\ SizesConsistent(st.sizes) /\ BoundsConsistent(st.kind, st.bounds)
        /\ \A c \in {"minLength", "maxLength"} : Both(st.sizes, "length", c) =>
             \E i \in DOMAIN types' : types'[i].sizes["length"] = NoValue /\ types'[i].sizes[c] = st.sizes[c]
        /\ Present(st) \subseteq Allowed[Family[st.kind]] /\ st.fixed \subseteq Present(st) \union {"whiteSpace"}
        /\ \A literal \in st.enumeration \union {st.bounds[f] : f \in Bounds} : literal # NoValue =>
             literal.of \in 1..Len(types') /\ Accepts(types'[literal.of], literal.text)
  <2> SUFFICES ASSUME NEW st, Settled(st)
               PROVE  /\ \A c \in {"minLength", "maxLength"} : Both(st.sizes, "length", c) =>
                           \E i \in DOMAIN types' : types'[i].sizes["length"] = NoValue /\ types'[i].sizes[c] = st.sizes[c]
                      /\ \A literal \in st.enumeration \union {st.bounds[f] : f \in Bounds} : literal # NoValue =>
                           literal.of \in 1..Len(types') /\ Accepts(types'[literal.of], literal.text)
    BY DEF Settled
  <2>1. \A c \in {"minLength", "maxLength"} : Both(st.sizes, "length", c) =>
          \E i \in DOMAIN types' : types'[i].sizes["length"] = NoValue /\ types'[i].sizes[c] = st.sizes[c]
    BY <1>3 DEF Settled, Founded
  <2>2. \A literal \in st.enumeration \union {st.bounds[f] : f \in Bounds} : literal # NoValue =>
          literal.of \in 1..Len(types') /\ Accepts(types'[literal.of], literal.text)
    BY <1>4 DEF Settled
  <2> QED BY <2>1, <2>2
<1>6. \A i \in DOMAIN types' : Settled(types'[i])
  BY <1>1, <1>3 DEF ChainSettled, TypeSettled
<1>7. (\A i \in DOMAIN types : Settled(types[i]))'
  <2> SUFFICES ASSUME NEW i \in DOMAIN types' PROVE Settled(types[i])'
    OBVIOUS
  <2>1. Settled(types'[i])
    BY <1>6
  <2> QED BY <1>5, <2>1 DEF Settled, Founded, Replays
<1>8. \A i, j \in DOMAIN types' : i < j => SizesRestrict(types'[j].sizes, types'[i].sizes)
  <2> SUFFICES ASSUME NEW i \in DOMAIN types', NEW j \in DOMAIN types', i < j
               PROVE  SizesRestrict(types'[j].sizes, types'[i].sizes)
    OBVIOUS
  <2>1. i \in DOMAIN types /\ types'[i] = types[i]
    BY <1>3
  <2>2. CASE j = Len(types) + 1
    BY <1>1, <1>3, <2>1, <2>2 DEF TypeSettled
  <2>3. CASE j # Len(types) + 1
    BY <1>1, <1>3, <2>1, <2>3 DEF ChainSettled
  <2> QED BY <2>2, <2>3
<1>9. ChainSettled'
  BY <1>7, <1>8 DEF ChainSettled
<1>10. Base' = type
  BY <1>3 DEF Base
<1>11. DeclaredOK'
  <2>1. step'.declared = {} /\ step'.enumeration = {} /\ step'.patterns = {} /\ step' = NewStep
    BY <1>1 DEF NewStep
  <2>2. type.whiteSpace <= type.whiteSpace
    <3>1. type.whiteSpace \in 0..2
      BY <1>1 DEF Record
    <3> QED BY <3>1
  <2> QED BY <1>1, <1>10, <2>1, <2>2 DEF DeclaredOK
<1>12. RefusalsAreReal'
  BY <1>1 DEF RefusalsAreReal
<1> QED BY <1>1, <1>2, <1>9, <1>11, <1>12 DEF SettledInv

(* Every step preserves the invariant.                                     *)
LEMMA SettledInductive == SettledInv /\ [Next]_vars => SettledInv'
<1> SUFFICES ASSUME SettledInv, [Next]_vars PROVE SettledInv'
  OBVIOUS
<1>0. IInv'
  BY Inductive DEF SettledInv
<1>1. ASSUME NEW d \in Offers[Kind], DeclareMisplaced(d) PROVE SettledInv'
  <2>1. stage' = "refused" /\ error' = "misplaced" /\ types' = types
    BY <1>1 DEF DeclareMisplaced, Refuse
  <2>2. ChainSettled'
    BY <2>1, ChainStaysSettled DEF SettledInv
  <2> QED BY <1>0, <2>1, <2>2, OtherRefusals DEF SettledInv
<1>2. ASSUME NEW d \in Offers[Kind],
             DeclareSize(d) \/ DeclareBound(d) \/ DeclareWhiteSpace(d) \/ DeclareEnumeration(d) \/ DeclarePattern(d)
      PROVE  SettledInv'
  BY <1>2, DeclarationSettles
<1>3. CASE Compile
  BY <1>3, CompileSettles
<1>4. CASE Audit
  BY <1>4, AuditSettles
<1>5. CASE Derive
  BY <1>5, DeriveSettles
<1>6. CASE UNCHANGED vars
  <2>1. types' = types /\ type' = type /\ step' = step /\ stage' = stage /\ error' = error /\ Base' = Base /\ Kind' = Kind
    BY <1>6 DEF vars, Base, Kind
  <2>2. ChainSettled' /\ (stage' \in {"compiled", "published"} => TypeSettled')
    BY <2>1, ChainStaysSettled, TypeStaysSettled DEF SettledInv
  <2>3. (stage' = "open" => DeclaredOK') /\ (stage' = "compiled" => Audited(type, Base)')
    BY <2>1 DEF SettledInv, DeclaredOK, Audited, Replays
  <2>4. RefusalsAreReal'
    <3>1. \A side, f : LooserThan(side, f)' = LooserThan(side, f)
      BY <2>1 DEF LooserThan
    <3>2. Looser' = Looser
      BY <2>1, <3>1 DEF Looser
    <3>3. LooserSizes' = LooserSizes /\ Unfounded' = Unfounded
      BY <2>1 DEF LooserSizes, Unfounded
    <3>4. (LengthsMeet' <=> LengthsMeet) /\ (BoundsMeet' <=> BoundsMeet)
      BY <2>1 DEF LengthsMeet, BoundsMeet
    <3> QED BY <2>1, <3>2, <3>3, <3>4 DEF SettledInv, RefusalsAreReal
  <2> QED BY <1>0, <2>1, <2>2, <2>3, <2>4 DEF SettledInv
<1> QED BY <1>1, <1>2, <1>3, <1>4, <1>5, <1>6 DEF Next, Done

(* Whatever steps follow one another, a step is refused only for something *)
(* it declares, or for bounds that leave no value, what is accepted breaks *)
(* none of the rules, bound by bound, and the audit that repeats them when *)
(* the schema is published finds nothing the compiler let through.         *)
THEOREM RefusalsStayReal == Spec => []RefusalsAreReal
<1>1. SettledInv => RefusalsAreReal
  BY DEF SettledInv
<1> QED BY InitiallySettled, SettledInductive, <1>1, PTL DEF Spec
=============================================================================
