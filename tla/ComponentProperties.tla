------------------------- MODULE ComponentProperties -------------------------
(***************************************************************************)
(* What a schema means, read off its definitions without any order, and    *)
(* what the compilation promises: the components it builds mean what their *)
(* definitions mean, and it refuses what is wrong and nothing else.        *)
(***************************************************************************)
EXTENDS Components, SequencesExt, Functions

CONSTANT Depth     \* how many levels of elements two descriptions are compared to

-----------------------------------------------------------------------------
(* Everything a schema defines, nested definitions included.               *)

RECURSIVE TypesIn(_), LocalsIn(_)
TypesIn(terms) ==     \* the anonymous complex types of the elements of a model
  UNION {LET type == terms[i].type.complex IN
         IF type = <<>> THEN {}
         ELSE {type[1]} \cup (IF type[1].model = <<>> THEN {}
                              ELSE TypesIn(type[1].model[1].particles)) : i \in DOMAIN terms}

LocalsIn(terms) ==    \* the elements of a model, at any level
  UNION {{terms[i]} \cup
         (IF terms[i].type.complex = <<>> \/ terms[i].type.complex[1].model = <<>> THEN {}
          ELSE LocalsIn(terms[i].type.complex[1].model[1].particles)) : i \in DOMAIN terms}

ModelsOf(s) == {s.group[g] : g \in DOMAIN s.group}
                 \cup {s.complex[q].model[1].particles :
                         q \in {r \in DOMAIN s.complex : s.complex[r].model # <<>>}}
                 \cup {<<s.element[q]>> : q \in DOMAIN s.element}

Terms(s) == UNION {LocalsIn(m) : m \in ModelsOf(s)}
ComplexDefs(s) == {s.complex[q] : q \in DOMAIN s.complex} \cup UNION {TypesIn(m) : m \in ModelsOf(s)}

SimpleRefs(s) == {t.type : t \in {u \in Terms(s) : u.type.simple # <<>>}}
RECURSIVE SimpleDefsIn(_)
SimpleDefsIn(def) ==
  {def} \cup UNION {SimpleDefsIn(def.of[i].simple[1]) :
                      i \in {j \in DOMAIN def.of : def.of[j].simple # <<>>}}
SimpleDefs(s) == UNION {SimpleDefsIn(s.simple[q]) : q \in DOMAIN s.simple}
                   \cup UNION {SimpleDefsIn(ref.simple[1]) : ref \in SimpleRefs(s)}

GroupTerms(s) == {def.model[1] : def \in {d \in ComplexDefs(s) : d.model # <<>>}}

-----------------------------------------------------------------------------
(* What is wrong with a schema.                                            *)

RECURSIVE Reaches(_, _, _)
Reaches(rel, from, n) ==
  IF n = 0 THEN from
  ELSE Reaches(rel, from \cup UNION {rel[q] : q \in from \cap DOMAIN rel}, n - 1)

Cyclic(rel) == \E q \in DOMAIN rel : q \in Reaches(rel, rel[q], Cardinality(DOMAIN rel))

BaseOf(s) == [q \in DOMAIN s.complex |->
                IF s.complex[q].derivation = "none" THEN {} ELSE {s.complex[q].base}]
RECURSIVE NamesIn(_)
NamesIn(def) == UNION {IF def.of[i].simple = <<>> THEN {def.of[i].name}
                       ELSE NamesIn(def.of[i].simple[1]) : i \in DOMAIN def.of}
SimpleUses(s) == [q \in DOMAIN s.simple |-> NamesIn(s.simple[q])]

GroupUses(s) == [g \in DOMAIN s.group |->
                   {s.group[g][i].name : i \in {j \in DOMAIN s.group[g] :
                                                  s.group[g][j].kind = "group"}}]

TypeCycle(s) == Cyclic(BaseOf(s)) \/ Cyclic(SimpleUses(s))
GroupCycle(s) == Cyclic(GroupUses(s))

Missing(s) ==
  \/ \E def \in ComplexDefs(s) :
       /\ def.derivation # "none"
       /\ def.base \notin DOMAIN s.complex \cup (IF def.simple THEN DOMAIN s.simple \cup {String} ELSE {})
  \/ \E def \in SimpleDefs(s) : \E i \in DOMAIN def.of :
       def.of[i].simple = <<>> /\ def.of[i].name \notin DOMAIN s.simple \cup {String}
  \/ \E t \in Terms(s) :
       \/ t.kind = "ref" /\ t.name \notin DOMAIN s.element
       \/ t.kind = "group" /\ t.name \notin DOMAIN s.group
       \/ /\ t.kind \in {"local", "global"}
          /\ t.type.simple = <<>> /\ t.type.complex = <<>>
          /\ t.type.name \notin DOMAIN s.complex \cup DOMAIN s.simple \cup {String, ""}
  \/ \E term \in GroupTerms(s) : term.group \notin DOMAIN s.group \cup {""}

(* The rest is asked only of schemas without missing names and cycles.     *)

RECURSIVE Variety(_, _), Members(_, _), HasSimpleText(_, _), HasList(_, _)
Variety(s, ref) ==    \* of a reference to a simple type
  IF ref.simple = <<>> /\ ref.name = String THEN "atomic"
  ELSE LET def == IF ref.simple = <<>> THEN s.simple[ref.name] ELSE ref.simple[1]
       IN IF def.variety = "restriction" THEN Variety(s, def.of[1]) ELSE def.variety

Members(s, ref) ==    \* of a reference to a union, in order
  LET def == IF ref.simple = <<>> THEN s.simple[ref.name] ELSE ref.simple[1]
      Flat(r) == IF Variety(s, r) = "union" THEN Members(s, r) ELSE <<r>>
  IN IF def.variety = "restriction" THEN Members(s, def.of[1])
     ELSE FoldLeft(LAMBDA acc, r : acc \o SelectSeq(Flat(r), LAMBDA x : ~\E i \in DOMAIN acc : acc[i] = x),
                   <<>>, def.of)

HasList(s, ref) == \/ Variety(s, ref) = "list"
                   \/ /\ Variety(s, ref) = "union"
                      /\ \E i \in DOMAIN Members(s, ref) : Variety(s, Members(s, ref)[i]) = "list"

SimpleFinal(s, ref) == IF ref.simple # <<>> \/ ref.name = String THEN {}
                       ELSE s.simple[ref.name].final

HasSimpleText(s, def) ==
  \/ def.simple
  \/ /\ def.derivation = "extension" /\ def.base \in DOMAIN s.complex
     /\ HasSimpleText(s, s.complex[def.base])

Blocked(s) ==
  \/ \E def \in ComplexDefs(s) :
       /\ def.derivation # "none"
       /\ IF def.base \in DOMAIN s.complex THEN def.derivation \in s.complex[def.base].final
          ELSE def.base # String /\ "extension" \in s.simple[def.base].final
  \/ \E def \in SimpleDefs(s) : \E i \in DOMAIN def.of :
       def.variety \in SimpleFinal(s, def.of[i])

ListOfLists(s) == \E def \in SimpleDefs(s) : def.variety = "list" /\ HasList(s, def.of[1])

TextMismatch(s) ==
  \E def \in ComplexDefs(s) :
    /\ def.derivation # "none"
    /\ IF def.base \notin DOMAIN s.complex THEN def.derivation = "restriction"
       ELSE IF def.simple THEN ~HasSimpleText(s, s.complex[def.base])
       ELSE /\ HasSimpleText(s, s.complex[def.base])
            /\ def.derivation = "restriction" \/ def.model # <<>>

(* Unions are charged where they are defined, at their full length.        *)
TooManyMembers(s) ==
  FoldFunction(+, 0, [q \in DOMAIN s.simple |->
                 IF Variety(s, [name |-> q, simple |-> <<>>, complex |-> <<>>]) = "union"
                 THEN Len(Members(s, [name |-> q, simple |-> <<>>, complex |-> <<>>]))
                 ELSE 0]) > MaxUnionEntries

Undeclared(s) == \E t \in Terms(s) : t.kind \in {"local", "global"} /\ ~t.refers \subseteq AllKeys(s)

Illegal(s) == \/ Missing(s) \/ TypeCycle(s) \/ GroupCycle(s)
              \/ Blocked(s) \/ ListOfLists(s) \/ TextMismatch(s) \/ Undeclared(s)

-----------------------------------------------------------------------------
(* The meaning of the definitions, to a depth of elements.                 *)

TypeNamed(q) == [name |-> q, simple |-> <<>>, complex |-> <<>>]

RECURSIVE SimpleMeaning(_, _), TypeMeaning(_, _, _), DefMeaning(_, _, _), ContentOf(_, _, _),
          ModelMeaning(_, _, _), TextOf(_, _), AttrsOf(_, _)
SimpleOf(s, ref) ==
  [variety |-> Variety(s, ref),
   members |-> IF Variety(s, ref) # "union" THEN <<>>
               ELSE [i \in DOMAIN Members(s, ref) |-> SimpleMeaning(s, Members(s, ref)[i])]]
SimpleMeaning(s, ref) ==
  IF ref.simple = <<>> THEN TypeNamed(ref.name)
  ELSE [name |-> "", simple |-> <<SimpleOf(s, ref)>>, complex |-> <<>>]

TypeMeaning(s, ref, n) ==
  IF ref.simple # <<>> THEN SimpleMeaning(s, ref)
  ELSE IF ref.complex # <<>> /\ n > 0
  THEN [name |-> "", simple |-> <<>>, complex |-> <<DefMeaning(s, ref.complex[1], n - 1)>>]
  ELSE TypeNamed(ref.name)

TextOf(s, def) ==
  IF ~HasSimpleText(s, def) THEN ""
  ELSE IF def.base \in DOMAIN s.complex THEN TextOf(s, s.complex[def.base]) ELSE def.base

AttrsOf(s, def) ==
  def.attrs \cup (IF def.derivation = "none" \/ def.base \notin DOMAIN s.complex THEN {}
                  ELSE AttrsOf(s, s.complex[def.base]))

DefMeaning(s, def, n) ==
  [base |-> def.base, derivation |-> IF def.derivation = "none" THEN "restriction" ELSE def.derivation,
   content |-> ContentOf(s, def, n), attrs |-> AttrsOf(s, def), text |-> TextOf(s, def)]

ContentOf(s, def, n) ==
  (IF def.derivation = "extension" /\ def.base \in DOMAIN s.complex
   THEN ContentOf(s, s.complex[def.base], n) ELSE <<>>)
  \o (IF def.model = <<>> THEN <<>>
      ELSE IF def.model[1].group # "" THEN ModelMeaning(s, s.group[def.model[1].group], n)
      ELSE ModelMeaning(s, def.model[1].particles, n))

ModelMeaning(s, terms, n) ==
  IF terms = <<>> THEN <<>>
  ELSE (CASE terms[1].kind = "group" -> ModelMeaning(s, s.group[terms[1].name], n)
          [] terms[1].kind = "ref" ->
               <<[name |-> terms[1].name, global |-> TRUE, type |-> TypeNamed("")]>>
          [] terms[1].kind = "local" ->
               <<[name |-> terms[1].name, global |-> FALSE,
                  type |-> TypeMeaning(s, terms[1].type, n)]>>)
       \o ModelMeaning(s, Tail(terms), n)

-----------------------------------------------------------------------------
(* The meaning of what is built.                                           *)

RECURSIVE BuiltSimple(_, _), BuiltType(_, _, _), BuiltDef(_, _, _), BuiltModel(_, _, _)
BuiltSimpleOf(b, id) ==
  [variety |-> b.simple[id].variety,
   members |-> [i \in DOMAIN b.simple[id].members |-> BuiltSimple(b, b.simple[id].members[i])]]
BuiltSimple(b, id) ==
  IF b.simple[id].name # "" THEN TypeNamed(b.simple[id].name)
  ELSE [name |-> "", simple |-> <<BuiltSimpleOf(b, id)>>, complex |-> <<>>]

BuiltType(b, type, n) ==
  IF ~type.complex THEN BuiltSimple(b, type.id)
  ELSE IF type.id = AnyType THEN TypeNamed("")
  ELSE IF b.complex[type.id].name # "" THEN TypeNamed(b.complex[type.id].name)
  ELSE IF n = 0 THEN TypeNamed("")
  ELSE [name |-> "", simple |-> <<>>, complex |-> <<BuiltDef(b, b.complex[type.id], n - 1)>>]

BuiltDef(b, t, n) ==
  [base |-> BuiltType(b, t.base, 0).name, derivation |-> t.derivation,
   content |-> IF t.content = None THEN <<>> ELSE BuiltModel(b, b.models[t.content], n),
   attrs |-> t.attrs, text |-> IF t.text = None THEN "" ELSE b.simple[t.text].name]

IsGlobal(b, id) == \E q \in Names : b.elementDone[q] = id

BuiltModel(b, particles, n) ==
  IF particles = <<>> THEN <<>>
  ELSE (IF particles[1].kind = "model" THEN BuiltModel(b, b.models[particles[1].id], n)
        ELSE LET e == b.elements[particles[1].id] IN
             <<[name |-> e.name, global |-> IsGlobal(b, particles[1].id),
                type |-> IF IsGlobal(b, particles[1].id) THEN TypeNamed("")
                         ELSE BuiltType(b, e.type, n)]>>)
       \o BuiltModel(b, Tail(particles), n)

-----------------------------------------------------------------------------
(* Once compileGlobals has drained what it deferred, the schema is one that *)
(* should be accepted (nothing refers to what is not there, derives from or *)
(* nests itself, derives what its base forbids, makes a list of lists or    *)
(* exceeds the limit of union members), and every component means what its  *)
(* definition means, whichever order the names were compiled in: no         *)
(* placeholder was copied, no content, attribute or member was lost or      *)
(* listed twice.                                                            *)
IsBuilt == stage = "compile" /\ pass > 6

ComponentsAreRight ==
  IsBuilt =>
    /\ ~Illegal(source)
    /\ ~TooManyMembers(source)
    /\ \A q \in DOMAIN source.simple :
         BuiltSimpleOf(build, build.simpleDone[q]) = SimpleOf(source, TypeNamed(q))
    /\ \A q \in DOMAIN source.complex :
         BuiltDef(build, build.complex[build.complexDone[q]], Depth)
           = DefMeaning(source, source.complex[q], Depth)
    /\ \A g \in DOMAIN source.group :
         BuiltModel(build, build.models[build.modelDone[g]], Depth)
           = ModelMeaning(source, source.group[g], Depth)
    /\ \A q \in DOMAIN source.element :
         BuiltType(build, build.elements[build.elementDone[q]].type, Depth)
           = TypeMeaning(source, source.element[q].type, Depth)

(* The names a component needs, whether as a base or below an element.     *)
ModelNames(terms) ==
  UNION {IF t.kind # "local" THEN {t.name}
         ELSE IF t.type.complex = <<>> THEN {t.type.name}
         ELSE {t.type.complex[1].base}
              \cup (IF t.type.complex[1].model = <<>> THEN {}
                    ELSE {t.type.complex[1].model[1].group}) : t \in LocalsIn(terms)}
Needs(s) ==
  [q \in DOMAIN s.complex \cup DOMAIN s.group \cup DOMAIN s.element |->
     IF q \in DOMAIN s.group THEN ModelNames(s.group[q])
     ELSE IF q \in DOMAIN s.element
     THEN ModelNames(<<[s.element[q] EXCEPT !.kind = "local"]>>)
     ELSE BaseOf(s)[q] \cup (IF s.complex[q].model = <<>> THEN {}
                             ELSE {s.complex[q].model[1].group}
                                  \cup ModelNames(s.complex[q].model[1].particles))]

(* The elements that may be compiled before declareAllIdentityConstraints: *)
(* those of types and groups, and of the global elements these refer to.   *)
RefNames(terms) == {t.name : t \in {u \in terms : u.kind = "ref"}}
ElementRefs(s) == [q \in DOMAIN s.element |-> RefNames(LocalsIn(<<s.element[q]>>))]
EarlyTerms(s) ==
  LET roots == UNION {LocalsIn(m) : m \in ModelsOf(s) \ {<<s.element[q]>> : q \in DOMAIN s.element}}
      reached == Reaches(ElementRefs(s), RefNames(roots), Cardinality(DOMAIN s.element))
  IN roots \cup UNION {LocalsIn(<<s.element[q]>>) : q \in reached \cap DOMAIN s.element}

(* Whether an error names something that is wrong with the schema, or that *)
(* the order of its components can be taken for: a type that needs itself  *)
(* only below an element, a keyref of another element's key that a type or *)
(* a group reaches, which is resolved before all keys are declared.        *)
Justified(why, s) ==
  CASE why = "missing" -> Missing(s)
    [] why = "recursion" -> GroupCycle(s)
    [] why = "cycle" -> Cyclic(SimpleUses(s)) \/ Cyclic(Needs(s))
    [] why = "identity" -> Undeclared(s) \/ \E t \in EarlyTerms(s) : ~t.refers \subseteq t.keys
    [] why = "final" -> Missing(s) \/ TypeCycle(s) \/ Blocked(s)
    [] why = "list" -> Missing(s) \/ TypeCycle(s) \/ ListOfLists(s)
    [] why = "content" -> Missing(s) \/ TypeCycle(s) \/ TextMismatch(s)
    [] why = "limit" -> Missing(s) \/ TypeCycle(s) \/ TooManyMembers(s)
    [] OTHER -> TRUE

(* No schema is refused for a wrong that it has not: the placeholders that *)
(* the compiler meets do not pass for empty content, missing text, a base  *)
(* that is not final, or a group that contains itself.                     *)
RefusalsAreJustified == Justified(outcome, source)

(* Every compilation ends, whether it publishes a schema or not: types and *)
(* groups that need one another do not keep it busy, and completing what   *)
(* was deferred comes to an end.                                           *)
CompilationEnds == <>(stage = "ended")

(* What the compilation does is what PublishSchema is promised and         *)
(* promises: it never touches the build once it has handed it over.        *)
IsPublication == PublicationSpec
=============================================================================
