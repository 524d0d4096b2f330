------------------------------- MODULE Values -------------------------------
(***************************************************************************)
(* Values of the types of Facets, and of lists and unions of them.  The    *)
(* text of an element or attribute takes the cheapest of three routes: raw *)
(* bytes when nothing but a verdict is asked for, the published table of   *)
(* routes, and the full route, which also serves lists and unions.  Each   *)
(* decides from the shape of the type which checks it may leave out and    *)
(* which parts of the value nobody needs.  Left out: missing types, and    *)
(* the raw scan of dates, which hands on what it cannot judge.             *)
(***************************************************************************)
EXTENDS Facets, SequencesExt, TLC

CONSTANTS
  Primitive,    \* the primitive type of an atomic kind
  Builtin,      \* "none", or the built-in type whose literals a kind has
  IdentityOf,   \* "none", "ID" or "IDREF"
  Extremes,     \* the bounds of the type that has a fast path for integers
  Negative,     \* literals of decimals below zero
  Unresolved,   \* literals of names that need a namespace
  Canonical,    \* canonical forms
  Numeric,      \* canonical forms of values, whatever the derived type
  Loose         \* stands for every text with white space that is not collapsed

(* A value, "" where the code leaves out the text and where it is empty.   *)
Value(canonical, identity, ids, refs) ==
  [verdict |-> "accepted", canonical |-> canonical, identity |-> identity, ids |-> ids, refs |-> refs]
Verdict(verdict) == [verdict |-> verdict]
Refused == Verdict("refused")
Accepted(v) == v.verdict = "accepted"

(* An instance text: words between white space, and white space around.    *)
Spaced(raw) == raw.padded \/ Len(raw.words) > 1
Raw(words) == [words |-> words, padded |-> FALSE]

(* normalizeSimpleValueLexical *)
Normalized(mode, raw) ==
  LET text == IF mode = 2 THEN Raw(raw.words) ELSE raw
  IN  IF Len(text.words) = 1 /\ ~text.padded THEN text.words[1] ELSE Loose

Needs == SUBSET {"canonical", "identity"}

-----------------------------------------------------------------------------
(* Types.  A list or union has facets of its own: sizes, patterns and an   *)
(* enumeration of canonical forms, each a sequence of words.               *)

NoFacets == [sizes |-> [c \in Sizes |-> NoValue], patterns |-> <<>>, enumeration |-> {}]
AtomicType(st) == [variety |-> "atomic", st |-> st, own |-> NoFacets]
ListType(item, own) == [variety |-> "list", item |-> item, own |-> own]
UnionType(members, own) == [variety |-> "union", members |-> members, own |-> own]

PrimitiveOf(T) == Primitive[T.st.kind]
BuiltinOf(T) == Builtin[T.st.kind]
IsName(T) == T.variety = "atomic" /\ PrimitiveOf(T) \in {"QName", "NOTATION"}

(* The mask of the facets a type has.                                      *)
Mask(T) ==
  IF T.variety = "atomic" THEN Present(T.st)
  ELSE {c \in Sizes : T.own.sizes[c] # NoValue}
       \union {f \in {"pattern"} : T.own.patterns # <<>>}
       \union {f \in {"enumeration"} : T.own.enumeration # {}}

(* DerivedSimpleIdentity *)
Identity(T) ==
  CASE T.variety = "atomic" -> IdentityOf[T.st.kind]
    [] T.variety = "list"   -> IF T.item.variety = "atomic" /\ IdentityOf[T.item.st.kind] = "IDREF" THEN "IDREFs" ELSE "none"
    [] T.variety = "union"  -> "none"

(* DeriveSimpleFastPath: exactly the facets of xs:int.                     *)
IsInt(T) ==
  /\ PrimitiveOf(T) = "decimal" /\ BuiltinOf(T) = "integer" /\ T.st.whiteSpace = 2
  /\ Mask(T) = {"fractionDigits", "minInclusive", "maxInclusive"} /\ T.st.sizes["fractionDigits"] = 0
  /\ <<T.st.bounds["minInclusive"].text, T.st.bounds["maxInclusive"].text>> = Extremes

(* newSimpleValueQNameResolverNeedsForSimpleTypes *)
RECURSIVE NeedsResolver(_)
NeedsResolver(T) ==
  \/ IsName(T)
  \/ T.variety = "list" /\ NeedsResolver(T.item)
  \/ T.variety = "union" /\ \E i \in DOMAIN T.members : NeedsResolver(T.members[i])

(* SimpleValueBypass: what may stand for the validation of a shape.        *)
Bypass(T, needs) ==
  LET plain == BuiltinOf(T) = "none"
      text == PrimitiveOf(T) = "string"
  IN  CASE T.variety # "atomic" -> "none"
        [] text /\ plain /\ Identity(T) = "none" /\ Mask(T) = {} -> "string"
        [] Identity(T) # "none" \/ needs # {} -> "none"
        [] IsInt(T) -> "int"
        [] PrimitiveOf(T) = "decimal" /\ plain /\ Mask(T) \intersect {"pattern", "enumeration"} = {} -> "decimal"
        [] text /\ plain /\ Mask(T) = {"pattern"} -> "patterns"
        [] text /\ plain /\ Mask(T) = {"enumeration"} -> "enumeration"
        [] PrimitiveOf(T) \notin {"string", "decimal", "QName", "NOTATION"} /\ plain /\ Mask(T) = {} -> "lexical"
        [] OTHER -> "none"

-----------------------------------------------------------------------------
(* Atomic values.                                                          *)

Key(primitive, canonical) == <<primitive>> \o canonical
Shown(needed, canonical) == IF needed THEN canonical ELSE <<>>

(* SimpleValuePrimitiveNeeds *)
AtomicLengths(T) ==
  Mask(T) \intersect Lengths # {} /\ BuiltinOf(T) = "none" /\ PrimitiveOf(T) \in {"string", "anyURI", "hexBinary", "base64Binary"}

(* Slip: an enumeration is compared with a form that nobody asked for.     *)
NeedsCanonicalWhenAsked(T, needs) ==
  "canonical" \in needs \/ Identity(T) # "none" \/ (PrimitiveOf(T) # "decimal" /\ "identity" \in needs)

NeedsCanonical(T, needs) ==
  \/ "canonical" \in needs \/ Identity(T) # "none"
  \/ PrimitiveOf(T) # "decimal" /\ ("enumeration" \in Mask(T) \/ "identity" \in needs)

NeedsLength(T) == Mask(T) \intersect Lengths # {} /\ ~AtomicLengths(T)

(* validateQNamePrimitive: without a resolver only a local name is read.   *)
IsLiteral(T, t, resolving) == t \in Space[T.st.kind] /\ (IsName(T) /\ ~resolving => t \notin Unresolved)

(* The parsers of some primitive types have the canonical form anyway.     *)
Parsed(T, t, resolving, needs) ==
  Shown(NeedsCanonical(T, needs) \/ PrimitiveOf(T) \in {"string", "anyURI", "boolean", "duration"},
        <<IF IsName(T) /\ ~resolving THEN t ELSE Canonical[T.st.kind][t]>>)

(* AtomicSimpleValue: an identity that no value space has replaced is that *)
(* of the canonical form.                                                  *)
AtomicValue(T, t, canonical, needs) ==
  LET numeric == IF PrimitiveOf(T) \in {"decimal", "duration"} THEN <<Numeric[T.st.kind][t]>> ELSE canonical
  IN  Value(canonical, IF "identity" \in needs THEN Key(PrimitiveOf(T), numeric) ELSE <<>>,
            IF Identity(T) = "ID" THEN canonical ELSE <<>>, IF Identity(T) = "IDREF" THEN canonical ELSE <<>>)

(* validatePublishedQNameRoute *)
NameValue(T, t, resolving, needs) ==
  IF IsLiteral(T, t, resolving) THEN AtomicValue(T, t, Parsed(T, t, resolving, needs), needs) ELSE Refused

(* EqualPrimitiveActualValues: texts and names by their canonical form,    *)
(* which may not have been made.                                           *)
Equals(T, t, canonical, literal) ==
  IF PrimitiveOf(T) \in {"string", "anyURI", "hexBinary", "base64Binary", "QName", "NOTATION"}
  THEN canonical = <<Canonical[T.st.kind][literal.text]>>
  ELSE <<t, literal.text>> \in Same[T.st.kind]

(* validateAtomicSimpleValueFallback: each length is judged by itself or   *)
(* by the parser, which counts only if told to.                            *)
Fallback(T, t, resolving, needs) ==
  LET st == T.st
      canonical == Parsed(T, t, resolving, needs)
      size(c) == IF c \in Lengths /\ ~AtomicLengths(T) /\ ~NeedsLength(T) THEN 0 ELSE SizeOf[st.kind][c][t]
  IN  IF /\ IsLiteral(T, t, resolving)
         /\ \A c \in Sizes : st.sizes[c] # NoValue => Fits(c, size(c), st.sizes[c])
         /\ BoundsHold(st.kind, st.bounds, t) /\ PatternsHold(st.patterns, t)
         /\ st.enumeration = {} \/ \E literal \in st.enumeration : Equals(T, t, canonical, literal)
      THEN AtomicValue(T, t, canonical, needs) ELSE Refused

(* validateAtomicStringSimpleValueFallback *)
StringValue(T, t, needs) ==
  IF t \notin Space[T.st.kind] THEN Refused
  ELSE AtomicValue(T, t, Shown(needs # {} \/ Identity(T) # "none", <<t>>), needs)

(* ValidateFastDecimalLexical *)
FastDecimal(T, t) ==
  LET bounds == {T.st.bounds[f] : f \in {"minInclusive", "maxInclusive"}} \ {NoValue}
  IN  IF Mask(T) \subseteq {"minInclusive", "maxInclusive"} /\ \A b \in bounds : b.text \notin Negative
      THEN Verdict(IF t \in Space[T.st.kind] /\ BoundsHold(T.st.kind, T.st.bounds, t) THEN "accepted" ELSE "refused")
      ELSE Verdict("unhandled")

(* What the executors that produce nothing say of a text: that of int has  *)
(* its bounds built in.                                                    *)
Executed(T, action, t) ==
  LET k == T.st.kind
      holds == CASE action = "lexical" -> t \in Space[k]
                 [] action = "int" -> /\ t \in Space[k]
                                      /\ Order[k][<<t, Extremes[1]>>] # "less" /\ Order[k][<<t, Extremes[2]>>] # "greater"
                 [] action = "patterns" -> PatternsHold(T.st.patterns, t)
                 [] action = "enumeration" -> \E literal \in T.st.enumeration : literal.text = t
  IN  IF holds THEN Value(<<>>, <<>>, <<>>, <<>>) ELSE Refused

(* validateAtomicSimpleValue *)
AtomicFull(T, raw, resolving, needs) ==
  LET t == Normalized(T.st.whiteSpace, raw)
      action == Bypass(T, needs)
      unfaceted == PrimitiveOf(T) = "string" /\ Mask(T) = {}
  IN  CASE action = "string" -> AtomicValue(T, t, Shown(needs # {}, <<t>>), needs)
        [] action \in {"int", "lexical", "patterns", "enumeration"} -> Executed(T, action, t)
        [] action = "decimal" ->
             IF FastDecimal(T, t).verdict = "refused" \/ t \notin Space[T.st.kind] THEN Refused
             ELSE IF FastDecimal(T, t).verdict = "accepted"
                     \/ (SizesHold(T.st.kind, T.st.sizes, t) /\ BoundsHold(T.st.kind, T.st.bounds, t))
             THEN Value(<<>>, <<>>, <<>>, <<>>) ELSE Refused
        [] action = "none" -> IF unfaceted THEN StringValue(T, t, needs) ELSE Fallback(T, t, resolving, needs)

(* validateAtomicSimpleValueRouteReadFast: the full route is left what it  *)
(* would read the facets for.                                              *)
AtomicFast(T, raw, resolving, needs) ==
  LET t == Normalized(T.st.whiteSpace, raw)
      action == Bypass(T, needs)
      unfaceted == PrimitiveOf(T) = "string" /\ Mask(T) = {}
  IN  CASE IsName(T) /\ Mask(T) = {} /\ BuiltinOf(T) = "none" -> NameValue(T, t, resolving, needs)
        [] \/ action \in {"patterns", "enumeration"}
           \/ action = "none" /\ ~unfaceted
           \/ action = "decimal" /\ FastDecimal(T, t).verdict = "unhandled" -> Verdict("unhandled")
        [] OTHER -> AtomicFull(T, raw, resolving, needs)

-----------------------------------------------------------------------------
(* Lists and unions.                                                       *)

OwnSizesHold(own, n) == \A c \in Lengths : own.sizes[c] # NoValue => Fits(c, n, own.sizes[c])

(* validateSimpleValueStringFacets                                         *)
OwnTextHolds(own, words, canonical) ==
  PatternsHold(own.patterns, words) /\ (own.enumeration # {} => canonical \in own.enumeration)

(* Each item in its frame.                                                 *)
Framed(keys) == FoldLeft(LAMBDA all, key : all \o <<ToString(Len(key))>> \o key, <<>>, keys)
Joined(values) == FoldLeft(LAMBDA all, v : all \o v, <<>>, values)

(* SimpleValueListNeeds: what the items have to produce.                   *)
NeedsText(T, needs) == needs # {} \/ Identity(T) # "none" \/ Mask(T) \intersect {"pattern", "enumeration"} # {}
ItemNeeds(T, needs) == (IF NeedsText(T, needs) THEN {"canonical"} ELSE {}) \union (needs \intersect {"identity"})

(* SimpleValueUnionMemberNeeds                                             *)
MemberNeeds(T, needs) ==
  needs \union (IF needs # {} \/ "enumeration" \in Mask(T) THEN {"canonical"} ELSE {})

(* validateListSimpleValue: an item without an identity is a defect.       *)
ListValue(T, raw, items, needs) ==
  LET canonical == Shown(NeedsText(T, needs), Joined([i \in DOMAIN items |-> items[i].canonical]))
      words == Shown(NeedsText(T, needs), raw.words)
      keys == [i \in DOMAIN items |-> items[i].identity]
  IN  IF "identity" \in needs /\ \E i \in DOMAIN keys : keys[i] = <<>> THEN Verdict("defect")
      ELSE IF OwnSizesHold(T.own, Len(items))
              /\ (Mask(T) \intersect {"pattern", "enumeration"} # {} => OwnTextHolds(T.own, words, canonical))
      THEN Value(canonical, IF "identity" \in needs THEN Key("string", Framed(keys)) ELSE <<>>, <<>>,
                 Joined([i \in DOMAIN items |-> items[i].refs]))
      ELSE Refused

(* validateSimpleValue: the first item that fails decides for a list, the  *)
(* first member that accepts for a union, whose own facets then decide.    *)
RECURSIVE Full(_, _, _, _)
Full(T, raw, resolving, needs) ==
  CASE T.variety = "atomic" -> AtomicFull(T, raw, resolving, needs)
    [] T.variety = "list" ->
         LET items == [i \in DOMAIN raw.words |-> Full(T.item, Raw(<<raw.words[i]>>), resolving, ItemNeeds(T, needs))]
             failed == {i \in DOMAIN items : ~Accepted(items[i])}
         IN  IF failed # {} THEN items[CHOOSE i \in failed : \A j \in failed : i <= j]
             ELSE ListValue(T, raw, items, needs)
    [] T.variety = "union" ->
         LET tried == [i \in DOMAIN T.members |-> Full(T.members[i], Raw(raw.words), resolving, MemberNeeds(T, needs))]
             i == SelectInSeq(tried, Accepted)
         IN  IF i = 0 \/ ~OwnTextHolds(T.own, raw.words, tried[i].canonical) THEN Refused ELSE tried[i]

(* validatePublishedSimpleValueWithScratch                                 *)
Published(T, raw, resolving, needs) ==
  LET fast == IF T.variety = "atomic" THEN AtomicFast(T, raw, resolving, needs) ELSE Verdict("unhandled")
  IN  IF fast.verdict = "unhandled" THEN Full(T, raw, resolving, needs) ELSE fast

-----------------------------------------------------------------------------
(* The raw route.                                                          *)

(* validateRawAtomicSimpleValue: white space leaves the text to the other  *)
(* routes, but where it is kept or where only characters are counted.      *)
RawAtomic(T, raw) ==
  LET written == Normalized(0, raw)
      action == Bypass(T, {})
      counted == /\ PrimitiveOf(T) = "string" /\ BuiltinOf(T) = "none" /\ Identity(T) = "none"
                 /\ Mask(T) # {} /\ Mask(T) \subseteq Lengths
      kept == T.st.whiteSpace = 0 /\ action \in {"patterns", "enumeration"}
  IN  CASE counted -> Verdict(IF SizesHold(T.st.kind, T.st.sizes, Normalized(T.st.whiteSpace, raw))
                              THEN "accepted" ELSE "refused")
        [] ~counted /\ action = "string" -> Verdict("accepted")
        [] ~counted /\ action # "string" /\ (action = "none" \/ (Spaced(raw) /\ ~kept)) -> Verdict("unhandled")
        [] ~counted /\ action = "decimal" /\ ~Spaced(raw) -> FastDecimal(T, written)
        [] OTHER -> Verdict(Executed(T, action, written).verdict)

(* SimpleRawListFastPath: lists of name tokens.                            *)
RawList(T, raw) ==
  IF /\ Identity(T) = "none" /\ Mask(T) = {} /\ T.item.variety = "atomic"
     /\ BuiltinOf(T.item) = "NMTOKEN" /\ Identity(T.item) = "none" /\ Mask(T.item) = {}
  THEN Verdict(IF \A i \in DOMAIN raw.words : raw.words[i] \in Space[T.item.st.kind] THEN "accepted" ELSE "refused")
  ELSE Verdict("unhandled")

(* validateRawUnionSimpleValue: a member that the route cannot judge, or   *)
(* that has an identity, ends it.                                          *)
RECURSIVE RawRoute(_, _)
RawRoute(T, raw) ==
  CASE T.variety = "atomic" -> RawAtomic(T, raw)
    [] T.variety = "list" -> RawList(T, raw)
    [] T.variety = "union" ->
         LET judged == [i \in DOMAIN T.members |->
               IF Identity(T.members[i]) # "none" THEN Verdict("unhandled") ELSE RawRoute(T.members[i], raw)]
             i == SelectInSeq(judged, LAMBDA v : v.verdict # "refused")
         IN  IF Mask(T) # {} \/ Spaced(raw) THEN Verdict("unhandled") ELSE IF i = 0 THEN Refused ELSE judged[i]

-----------------------------------------------------------------------------
(* What a text means, with every part of the value made and every facet    *)
(* judged, by the definitions of Facets.                                   *)
RECURSIVE Meant(_, _)
Meant(T, raw) ==
  CASE T.variety = "atomic" ->
         LET t == Normalized(T.st.whiteSpace, raw)
             canonical == <<Canonical[T.st.kind][t]>>
         IN  IF ~Accepts(T.st, t) THEN Refused
             ELSE Value(canonical,
                        <<PrimitiveOf(T), IF PrimitiveOf(T) \in {"decimal", "duration"} THEN Numeric[T.st.kind][t]
                                          ELSE canonical[1]>>,
                        IF Identity(T) = "ID" THEN canonical ELSE <<>>, IF Identity(T) = "IDREF" THEN canonical ELSE <<>>)
    [] T.variety = "list" ->
         LET items == [i \in DOMAIN raw.words |-> Meant(T.item, Raw(<<raw.words[i]>>))]
             canonical == Joined([i \in DOMAIN items |-> items[i].canonical])
         IN  IF /\ \A i \in DOMAIN items : Accepted(items[i])
                /\ OwnSizesHold(T.own, Len(items)) /\ OwnTextHolds(T.own, raw.words, canonical)
             THEN Value(canonical, <<"string">> \o Framed([i \in DOMAIN items |-> items[i].identity]), <<>>,
                        Joined([i \in DOMAIN items |-> items[i].refs]))
             ELSE Refused
    [] T.variety = "union" ->
         LET accepting == {i \in DOMAIN T.members : Accepted(Meant(T.members[i], Raw(raw.words)))}
             v == Meant(T.members[CHOOSE i \in accepting : \A j \in accepting : i <= j], Raw(raw.words))
         IN  IF accepting # {} /\ OwnTextHolds(T.own, raw.words, v.canonical) THEN v ELSE Refused

(* The types that are tried over an audited type: the type, lists of it,   *)
(* unions with other members before it and lists of those.                 *)
CONSTANTS Companions, ListCompanions, Words, MaxJudged

ASSUME ValuesAssumption ==
  /\ DOMAIN Primitive \subseteq Kinds
  /\ DOMAIN Builtin = DOMAIN Primitive /\ DOMAIN IdentityOf = DOMAIN Primitive
  /\ DOMAIN Canonical = DOMAIN Primitive /\ DOMAIN Numeric = DOMAIN Primitive
  /\ Companions \union ListCompanions \subseteq DOMAIN Primitive

UnionWith(k, T) == UnionType(<<AtomicType(Root(k)), T>>, NoFacets)
Plain(T) ==
  {T, ListType(T, NoFacets)} \union {UnionWith(k, T) : k \in Companions}
  \union {ListType(UnionWith(k, T), NoFacets) : k \in ListCompanions}

(* Texts: for a list none, one or two words, one of which is always the same. *)
RECURSIVE Inputs(_)
Inputs(T) ==
  CASE T.variety = "atomic" -> {[words |-> <<w>>, padded |-> p] : w \in Words[T.st.kind], p \in BOOLEAN}
    [] T.variety = "list" -> LET words == UNION {Range(raw.words) : raw \in Inputs(T.item)}
                                 one == CHOOSE w \in words : TRUE
                             IN  {Raw(s) : s \in {<<>>} \union {<<w>> : w \in words}
                                                \union {<<w, one>> : w \in words} \union {<<one, w>> : w \in words}}
    [] T.variety = "union" -> UNION {Inputs(T.members[i]) : i \in DOMAIN T.members}

OneItem == [NoFacets EXCEPT !.sizes["maxLength"] = 1]

Faceted(T) ==
  IF T.variety = "atomic" THEN {T}
  ELSE LET texts == {raw \in Inputs(T) : raw.words # <<>> /\ Accepted(Meant(T, raw))}
           one == CHOOSE raw \in texts : TRUE
           owns == {[NoFacets EXCEPT !.patterns = <<{{raw.words : raw \in Inputs(T)} \ {one.words}}>>],
                    [NoFacets EXCEPT !.enumeration = {Meant(T, one).canonical}]}
       IN  {[T EXCEPT !.own = own] : own \in {NoFacets} \union (IF T.variety = "list" THEN {OneItem} ELSE {})
                                              \union (IF texts = {} THEN {} ELSE owns)}

(* Whatever is asked for and whichever route answers, a text has one       *)
(* verdict, that of its meaning, and what was asked for is right; IDs and  *)
(* references are there although nobody asks for them, and the raw route,  *)
(* which cannot give them, judges no text that has some.  A resolver is    *)
(* there for every name that needs one.                                    *)
RoutesAgree ==
  stage = "published" /\ Kind \in DOMAIN Primitive /\ Len(types) <= MaxJudged[Kind] =>
    \A P \in Plain(AtomicType(type)) : \A T \in Faceted(P) : \A raw \in Inputs(T) :
      LET meant == Meant(T, raw)
          judged == RawRoute(T, raw)
          resolving == NeedsResolver(T)
      IN  /\ \A needs \in Needs :
               LET v == Published(T, raw, resolving, needs)
               IN  /\ v.verdict = meant.verdict
                   /\ Accepted(v) => /\ v.ids = meant.ids /\ v.refs = meant.refs
                                     /\ "canonical" \in needs => v.canonical = meant.canonical
                                     /\ "identity" \in needs => v.identity = meant.identity
          /\ judged.verdict # "unhandled" =>
               judged.verdict = meant.verdict /\ (Accepted(judged) => meant.ids \o meant.refs = <<>>)
=============================================================================
