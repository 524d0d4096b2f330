----------------------------- MODULE Components ------------------------------
(***************************************************************************)
(* The compilation of the components of a schema set (compileGlobals of    *)
(* package compile).  Components refer to one another by name, forwards    *)
(* and backwards, so compiling one compiles what it refers to; what is     *)
(* still being compiled is visible as a placeholder.  The result must not  *)
(* depend on the order of the names, which is all that decides which       *)
(* component meets which placeholder.                                      *)
(*                                                                         *)
(* A schema is a record of functions from names to definitions: simple and *)
(* complex types, model groups and elements, and of the order in which     *)
(* SortedQNames lists the names.  Models are sequences of particles that   *)
(* occur once (occurrence, choice and all are the subject of               *)
(* ContentModel), and an attribute is its name (see Attributes).           *)
(***************************************************************************)
EXTENDS Publication, FiniteSets

CONSTANTS
  Names,              \* the names of the components
  Sources,            \* the schemas considered
  MaxUnionEntries     \* Limits.MaxSimpleUnionMemberEntries

VARIABLES
  source,     \* the indexed schema: simpleRaw, complexRaw, groupRaw, elementRaw
  pass,       \* the loop of compileGlobals that is running
  next        \* the position of its next name in source.order

vars == <<publication, source, pass, next>>

-----------------------------------------------------------------------------
(* The parts of a build: records with the tables of ids by name, what is   *)
(* being compiled, and the arenas.                                         *)

None == -1          \* NoSimpleType, NoComplexType, NoContentModel
AnyType == 0        \* the ur-type, which is built in
String == "string"  \* a simple type that is built in

ComplexId(id) == [complex |-> TRUE, id |-> id]
SimpleId(id) == [complex |-> FALSE, id |-> id]

NewBuild ==
  [simple |-> <<[name |-> String, variety |-> "atomic", base |-> None, item |-> None,
                 members |-> <<>>, final |-> {}]>>,
   complex |-> <<>>, models |-> <<>>, elements |-> <<>>,
   simpleDone |-> [q \in Names \cup {String} |-> IF q = String THEN 1 ELSE None],
   complexDone |-> [q \in Names |-> None],
   elementDone |-> [q \in Names |-> None],
   modelDone |-> [q \in Names |-> None],
   modelDepth |-> [q \in Names |-> 0],
   compilingSimple |-> {}, compilingComplex |-> {}, compilingModel |-> {},
   elementDepth |-> 0, declared |-> {}, deferred |-> <<>>, unionEntries |-> 0,
   error |-> ""]

(* The outcome of a step of the recursion: a build, which may hold an      *)
(* error, and the id of what was compiled.                                 *)
Got(b, id) == [b |-> b, id |-> id]
Refuse(b, why) == Got([b EXCEPT !.error = why], None)
Then(r, Continue(_)) ==
  CHOOSE c \in {IF x.b.error # "" THEN x ELSE Continue(x) : x \in {r}} : TRUE

-----------------------------------------------------------------------------
(* Simple types.  A reference names a type or holds its definition.        *)

AddSimple(b, t) == Got([b EXCEPT !.simple = Append(@, t)], Len(b.simple) + 1)

SimplePlaceholder(q) == [name |-> q, variety |-> "atomic", base |-> None, item |-> None,
                         members |-> <<>>, final |-> {}]

(* completeSimpleType                                                      *)
CompleteSimple(r, id, q, final) ==
  Got([r.b EXCEPT !.simple[id] = [r.type EXCEPT !.name = q, !.final = final]], id)

(* appendFlattenedUnionMember: a member that is itself a union stands for  *)
(* its members, and nothing is listed twice.                               *)
RECURSIVE AppendMembers(_, _)
AppendMembers(sofar, ids) ==
  IF ids = <<>> THEN sofar
  ELSE AppendMembers(IF \E i \in DOMAIN sofar : sofar[i] = Head(ids)
                     THEN sofar ELSE Append(sofar, Head(ids)), Tail(ids))

Flattened(b, id) ==
  IF b.simple[id].variety = "union" THEN b.simple[id].members ELSE <<id>>

(* simpleTypeListReachability: completed unions hold no unions.            *)
ReachesList(b, id) ==
  \/ b.simple[id].variety = "list"
  \/ \E i \in DOMAIN Flattened(b, id) : b.simple[Flattened(b, id)[i]].variety = "list"

(* A union that is a copy of its base is charged for all its members, one  *)
(* that is built for those it adds.                                        *)
Charged(b, type, added) ==
  IF added > MaxUnionEntries - b.unionEntries
  THEN [b |-> [b EXCEPT !.error = "limit"], id |-> None, type |-> type]
  ELSE [b |-> [b EXCEPT !.unionEntries = @ + added], id |-> None, type |-> type]

NewSimple(variety, item, members) ==
  [name |-> "", variety |-> variety, base |-> None, item |-> item, members |-> members,
   final |-> {}]

RECURSIVE SimpleByName(_, _, _), SimpleReference(_, _, _), SimpleBody(_, _, _),
          UnionMembers(_, _, _, _)

(* compileSimpleByQName                                                    *)
SimpleByName(s, b, q) ==
  IF q \in b.compilingSimple THEN Refuse(b, "cycle")
  ELSE IF q \in Names \cup {String} /\ b.simpleDone[q] # None THEN Got(b, b.simpleDone[q])
  ELSE IF q \notin DOMAIN s.simple THEN Refuse(b, "missing")
  ELSE Then(AddSimple([b EXCEPT !.simpleDone[q] = Len(b.simple) + 1,
                                !.compilingSimple = @ \cup {q}], SimplePlaceholder(q)),
            LAMBDA n : Then(SimpleBody(s, n.b, s.simple[q]),
                            LAMBDA r : CompleteSimple([r EXCEPT !.b.compilingSimple = @ \ {q}],
                                                      n.id, q, s.simple[q].final)))

(* compileSimpleTypeReference, or compileAnonymousSimple                   *)
SimpleReference(s, b, ref) ==
  IF ref.simple = <<>> THEN SimpleByName(s, b, ref.name)
  ELSE Then(AddSimple(b, SimplePlaceholder("")),
            LAMBDA n : Then(SimpleBody(s, n.b, ref.simple[1]),
                            LAMBDA r : CompleteSimple(r, n.id, "", ref.simple[1].final)))

(* compileRestriction, compileList, compileUnion                           *)
SimpleBody(s, b, def) ==
  IF def.variety = "union" THEN UnionMembers(s, b, def.of, <<>>)
  ELSE Then(SimpleReference(s, b, def.of[1]),
            LAMBDA r :
              IF def.variety \in r.b.simple[r.id].final THEN Refuse(r.b, "final")
              ELSE IF def.variety = "list"
              THEN IF ReachesList(r.b, r.id) THEN Refuse(r.b, "list")
                   ELSE [b |-> r.b, id |-> None, type |-> NewSimple("list", r.id, <<>>)]
              ELSE Charged(r.b, [r.b.simple[r.id] EXCEPT !.base = r.id],
                           Len(r.b.simple[r.id].members)))

(* compileUnion: the members in their order.                               *)
UnionMembers(s, b, refs, sofar) ==
  IF refs = <<>> THEN [b |-> b, id |-> None, type |-> NewSimple("union", None, sofar)]
  ELSE Then(SimpleReference(s, b, refs[1]),
            LAMBDA r :
              IF "union" \in r.b.simple[r.id].final THEN Refuse(r.b, "final")
              ELSE Then(Charged(r.b, None, Len(AppendMembers(sofar, Flattened(r.b, r.id)))
                                             - Len(sofar)),
                        LAMBDA c : UnionMembers(s, c.b, Tail(refs),
                                                AppendMembers(sofar, Flattened(r.b, r.id)))))

-----------------------------------------------------------------------------
(* Content models.                                                         *)

AddModel(b, particles) ==
  Got([b EXCEPT !.models = Append(@, particles)], Len(b.models) + 1)

ElementParticle(id) == [kind |-> "element", id |-> id]
ModelParticle(id) == [kind |-> "model", id |-> id]

(* ModelHasNoParticles                                                     *)
NoParticles(b, id) == id = None \/ b.models[id] = <<>>

(* appendNestedModelChild: a sequence in a sequence is flattened unless it *)
(* is empty.                                                               *)
AppendNested(b, particles, id) ==
  IF b.models[id] # <<>> THEN particles \o b.models[id]
  ELSE Append(particles, ModelParticle(id))

(* ExtendSequenceModel                                                     *)
Extended(b, base, extension) ==
  IF NoParticles(b, base) THEN Got(b, extension)
  ELSE IF NoParticles(b, extension) THEN Got(b, base)
  ELSE AddModel(b, b.models[base] \o b.models[extension])

(* Slip: every reference to a group that is being compiled is refused.     *)
AlwaysRecursion(b, g) == Refuse(b, "recursion")

(* recursiveModelGroupRef: a group that is still being compiled may be     *)
(* referred to from inside an element of it, and only from there.          *)
RecursiveReference(b, g) ==
  IF b.elementDepth <= b.modelDepth[g] THEN Refuse(b, "recursion")
  ELSE AddModel(b, <<ModelParticle(b.modelDone[g])>>)

-----------------------------------------------------------------------------
(* Complex types.                                                          *)

Placeholder(q) ==
  [name |-> q, derivation |-> "none", base |-> ComplexId(AnyType), content |-> None,
   attrs |-> {}, text |-> None, final |-> {}]

AddComplex(b, q) == Got([b EXCEPT !.complex = Append(@, Placeholder(q))], Len(b.complex) + 1)

CompleteComplex(r, id, q, final) ==
  Got([r.b EXCEPT !.complex[id] = [r.type EXCEPT !.name = q, !.final = final]], id)

(* SimpleContent: the type has a text type.                                *)
HasText(t) == t.text # None

Derived(r, base, derivation, content, attrs, text) ==
  [b |-> r.b, id |-> None,
   type |-> [name |-> "", derivation |-> derivation, base |-> base, content |-> content,
             attrs |-> attrs, text |-> text, final |-> {}]]

IsSimpleName(s, q) == q = String \/ q \in DOMAIN s.simple

(* Slip: an anonymous type is completed at once.                           *)
NeverDefers(b, def) == FALSE

(* shouldDeferAnonymousComplex: an anonymous type whose base is being      *)
(* compiled is completed later.                                            *)
Defers(b, def) == def.derivation # "none" /\ def.base \in b.compilingComplex

(* complexContentBase and compileSimpleContentComplexBase refuse a base    *)
(* that is being compiled.                                                 *)
IsCyclic(b, def, anonymous) == def.base \in b.compilingComplex /\ ~anonymous

RECURSIVE ComplexByName(_, _, _), AnonymousComplex(_, _, _), ComplexBody(_, _, _, _),
          Extension(_, _, _, _, _), Restriction(_, _, _, _, _), SimpleContent(_, _, _, _),
          Model(_, _, _), ModelChild(_, _, _), Children(_, _, _, _), Group(_, _, _),
          Element(_, _, _), ElementByName(_, _, _), ElementType(_, _, _)

(* compileComplexByQName: the placeholder is registered first, so that a   *)
(* type that is being compiled is found like one that is done.             *)
ComplexByName(s, b, q) ==
  IF q \in Names /\ b.complexDone[q] # None THEN Got(b, b.complexDone[q])
  ELSE IF q \notin DOMAIN s.complex THEN Refuse(b, "missing")
  ELSE Then(AddComplex([b EXCEPT !.complexDone[q] = Len(b.complex) + 1,
                                 !.compilingComplex = @ \cup {q}], q),
            LAMBDA n : Then(ComplexBody(s, n.b, s.complex[q], FALSE),
                            LAMBDA r : CompleteComplex([r EXCEPT !.b.compilingComplex = @ \ {q}],
                                                       n.id, q, s.complex[q].final)))

(* compileAnonymousComplex                                                 *)
AnonymousComplex(s, b, def) ==
  Then(AddComplex(b, ""),
       LAMBDA n : IF Defers(n.b, def)
                  THEN [n EXCEPT !.b.deferred = Append(@, [id |-> n.id, def |-> def])]
                  ELSE Then(ComplexBody(s, n.b, def, TRUE),
                            LAMBDA r : CompleteComplex(r, n.id, "", {})))

(* compileComplexType, compileComplexContentDerivation                     *)
ComplexBody(s, b, def, anonymous) ==
  IF def.simple THEN SimpleContent(s, b, def, anonymous)
  ELSE IF def.derivation = "none"
  THEN Then(IF def.model = <<>> THEN AddModel(b, <<>>) ELSE Model(s, b, def.model[1]),
            LAMBDA r : Derived(r, ComplexId(AnyType), "restriction", r.id, def.attrs, None))
  ELSE IF IsCyclic(b, def, anonymous) THEN Refuse(b, "cycle")
  ELSE Then(ComplexByName(s, b, def.base),
            LAMBDA r : IF def.derivation \in r.b.complex[r.id].final THEN Refuse(r.b, "final")
                       ELSE IF def.derivation = "extension"
                       THEN Extension(s, r.b, def, r.id, r.b.complex[r.id])
                       ELSE Restriction(s, r.b, def, r.id, r.b.complex[r.id]))

(* compileComplexContentExtension: the content of the base, as it is now,  *)
(* and its attributes are copied.                                          *)
Extension(s, b, def, id, base) ==
  IF HasText(base)
  THEN IF def.model # <<>> THEN Refuse(b, "content")
       ELSE Then(AddModel(b, <<>>),
                 LAMBDA r : Derived(r, ComplexId(id), "extension", r.id,
                                    base.attrs \cup def.attrs, base.text))
  ELSE IF def.model = <<>>
  THEN Derived(Got(b, None), ComplexId(id), "extension", base.content,
               base.attrs \cup def.attrs, None)
  ELSE Then(Model(s, b, def.model[1]),
            LAMBDA r : Then(Extended(r.b, base.content, r.id),
                            LAMBDA m : Derived(m, ComplexId(id), "extension", m.id,
                                               base.attrs \cup def.attrs, None)))

(* compileComplexContentRestriction                                        *)
Restriction(s, b, def, id, base) ==
  IF HasText(base) THEN Refuse(b, "content")
  ELSE Then(IF def.model = <<>> THEN AddModel(b, <<>>) ELSE Model(s, b, def.model[1]),
            LAMBDA r : Derived(r, ComplexId(id), "restriction", r.id,
                               base.attrs \cup def.attrs, None))

(* compileSimpleContent                                                    *)
SimpleContent(s, b, def, anonymous) ==
  LET WithText(r, base, attrs, text) ==
        Then(AddModel(r.b, <<>>),
             LAMBDA m : Derived(m, base, def.derivation, m.id, attrs \cup def.attrs, text))
  IN IF IsSimpleName(s, def.base)
     THEN IF def.derivation = "restriction" THEN Refuse(b, "content")
          ELSE Then(SimpleByName(s, b, def.base),
                    LAMBDA r : IF "extension" \in r.b.simple[r.id].final
                               THEN Refuse(r.b, "final")
                               ELSE WithText(r, SimpleId(r.id), {}, r.id))
     ELSE IF IsCyclic(b, def, anonymous) THEN Refuse(b, "cycle")
     ELSE Then(ComplexByName(s, b, def.base),
               LAMBDA r :
                 IF ~HasText(r.b.complex[r.id]) THEN Refuse(r.b, "content")
                 ELSE IF def.derivation \in r.b.complex[r.id].final THEN Refuse(r.b, "final")
                 ELSE WithText(r, ComplexId(r.id), r.b.complex[r.id].attrs,
                               r.b.complex[r.id].text))

(* compileModel of the model of a type: a group reference, or a sequence.  *)
Model(s, b, term) ==
  IF term.group # "" THEN ModelChild(s, b, term.group)
  ELSE Then(AddModel(b, <<>>),
            LAMBDA n : Then(Children(s, n.b, term.particles, <<>>),
                            LAMBDA r : Got([r.b EXCEPT !.models[n.id] = r.particles], n.id)))

(* compileModelGroupRef                                                    *)
ModelChild(s, b, g) ==
  IF g \notin DOMAIN s.group THEN Refuse(b, "missing")
  ELSE IF g \in b.compilingModel THEN RecursiveReference(b, g)
  ELSE Group(s, b, g)

(* compileModel of the model of a group, which is compiled once.           *)
Group(s, b, g) ==
  IF b.modelDone[g] # None THEN Got(b, b.modelDone[g])
  ELSE Then(AddModel([b EXCEPT !.modelDone[g] = Len(b.models) + 1,
                               !.modelDepth[g] = b.elementDepth,
                               !.compilingModel = @ \cup {g}], <<>>),
            LAMBDA n : Then(Children(s, n.b, s.group[g], <<>>),
                            LAMBDA r : Got([r.b EXCEPT !.models[n.id] = r.particles,
                                                       !.compilingModel = @ \ {g}], n.id)))

(* compileModelChildren                                                    *)
Children(s, b, terms, particles) ==
  IF terms = <<>> THEN [b |-> b, id |-> None, particles |-> particles]
  ELSE IF terms[1].kind = "group"
  THEN Then(ModelChild(s, b, terms[1].name),
            LAMBDA r : Children(s, r.b, Tail(terms), AppendNested(r.b, particles, r.id)))
  ELSE Then(IF terms[1].kind = "ref" THEN ElementByName(s, b, terms[1].name)
            ELSE Element(s, b, terms[1]),
            LAMBDA r : Children(s, r.b, Tail(terms), Append(particles, ElementParticle(r.id))))

-----------------------------------------------------------------------------
(* Elements.                                                               *)

(* compileElementByQName                                                   *)
ElementByName(s, b, q) ==
  IF q \in Names /\ b.elementDone[q] # None THEN Got(b, b.elementDone[q])
  ELSE IF q \notin DOMAIN s.element THEN Refuse(b, "missing")
  ELSE Element(s, [b EXCEPT !.elementDone[q] = Len(b.elements) + 1], s.element[q])

(* compileElementDecl: a placeholder is added, the identity constraints of *)
(* the element are declared, its type is compiled, and only then are the   *)
(* references of its keyrefs resolved.                                     *)
Element(s, b, def) ==
  Then(Got([b EXCEPT !.elements = Append(@, [name |-> def.name, type |-> ComplexId(AnyType)]),
                     !.elementDepth = @ + 1,
                     !.declared = @ \cup def.keys], Len(b.elements) + 1),
       LAMBDA n :
         Then(ElementType(s, n.b, def.type),
              LAMBDA r : IF \E k \in def.refers : k \notin r.b.declared
                         THEN Refuse(r.b, "identity")
                         ELSE Got([r.b EXCEPT !.elements[n.id].type = r.type,
                                              !.elementDepth = @ - 1], n.id)))

Typed(r, type) == [b |-> r.b, id |-> r.id, type |-> type]

ElementType(s, b, ref) ==
  IF ref.simple # <<>> \/ IsSimpleName(s, ref.name)
  THEN Then(SimpleReference(s, b, ref), LAMBDA r : Typed(r, SimpleId(r.id)))
  ELSE IF ref.complex # <<>>
  THEN Then(AnonymousComplex(s, b, ref.complex[1]), LAMBDA r : Typed(r, ComplexId(r.id)))
  ELSE IF ref.name = "" THEN Typed(Got(b, None), ComplexId(AnyType))
  ELSE Then(ComplexByName(s, b, ref.name), LAMBDA r : Typed(r, ComplexId(r.id)))

-----------------------------------------------------------------------------
(* compileGlobals: the passes, and within the first ones a step per name.  *)

Passes == <<"simple", "complex", "group", "identity", "element", "drain", "substitutions",
            "restrictions", "consistent", "references", "upa", "models">>

Raw(p) == CASE p = "simple" -> source.simple
            [] p = "complex" -> source.complex
            [] p = "group" -> source.group
            [] p = "element" -> source.element

Compiled(b, q) == CASE Passes[pass] = "simple" -> SimpleByName(source, b, q).b
                    [] Passes[pass] = "complex" -> ComplexByName(source, b, q).b
                    [] Passes[pass] = "group" -> Group(source, b, q).b
                    [] Passes[pass] = "element" -> ElementByName(source, b, q).b

(* The identity constraints below a component, wherever they are nested.   *)
RECURSIVE KeysOf(_)
KeysOf(terms) ==
  IF terms = <<>> THEN {}
  ELSE KeysOf(Tail(terms)) \cup
       (IF terms[1].kind # "local" THEN {}
        ELSE terms[1].keys \cup
             (IF terms[1].type.complex = <<>> \/ terms[1].type.complex[1].model = <<>> THEN {}
              ELSE KeysOf(terms[1].type.complex[1].model[1].particles)))

AllKeys(s) ==
  UNION {KeysOf(s.group[g]) : g \in DOMAIN s.group}
    \cup UNION {IF s.complex[q].model = <<>> THEN {}
                ELSE KeysOf(s.complex[q].model[1].particles) : q \in DOMAIN s.complex}
    \cup UNION {KeysOf(<<[s.element[q] EXCEPT !.kind = "local"]>>) : q \in DOMAIN s.element}

(* Slip: an error is noted, and the build is handed over all the same.     *)
LeaveAnyway(b) == /\ build' = b
                  /\ IF b.error = "" THEN stage' = "compile" /\ outcome' = outcome
                     ELSE stage' = "domain" /\ outcome' = b.error
                  /\ UNCHANGED <<candidate, published, canceled, source>>

(* The build as a step leaves it; an error ends the compilation.           *)
Leave(b) == /\ build' = b
            /\ IF b.error = "" THEN stage' = "compile" /\ outcome' = outcome
               ELSE stage' = "ended" /\ outcome' = b.error
            /\ UNCHANGED <<candidate, published, canceled, source>>

AtPass(p) == stage = "compile" /\ Passes[pass] = p

(* compileContextError, before each name and each pass.                    *)
Interrupted == /\ stage = "compile"
               /\ canceled
               /\ build' = build /\ stage' = "ended" /\ outcome' = "canceled"
               /\ UNCHANGED <<candidate, published, canceled, source, pass, next>>

Named == {"simple", "complex", "group", "element"}

Remaining(p) == {i \in next..Len(source.order) : source.order[i] \in DOMAIN Raw(p)}

(* One name of a loop over the sorted names of a kind of component.        *)
CompileName ==
  \E p \in Named : \E i \in 1..Len(source.order) :
    /\ AtPass(p) /\ ~canceled
    /\ i \in Remaining(p) /\ \A j \in Remaining(p) : i <= j
    /\ Leave(Compiled(build, source.order[i]))
    /\ next' = i + 1
    /\ UNCHANGED pass

(* Slip: a loop is repeated as long as something is deferred.              *)
RepeatNames ==
  \E p \in Named :
    /\ AtPass(p) /\ Remaining(p) = {}
    /\ pass' = (IF build.deferred = <<>> THEN pass + 1 ELSE pass) /\ next' = 1
    /\ UNCHANGED <<publication, source>>

(* The loop is over.                                                       *)
EndNames ==
  \E p \in Named :
    /\ AtPass(p) /\ Remaining(p) = {}
    /\ pass' = pass + 1 /\ next' = 1
    /\ UNCHANGED <<publication, source>>

(* declareAllIdentityConstraints                                           *)
DeclareIdentities ==
  /\ AtPass("identity") /\ ~canceled
  /\ Leave([build EXCEPT !.declared = @ \cup AllKeys(source)])
  /\ pass' = pass + 1
  /\ UNCHANGED next

(* drainDeferredAnonymousComplex: completing one may defer others.         *)
Drain ==
  /\ AtPass("drain") /\ ~canceled
  /\ IF build.deferred = <<>>
     THEN pass' = pass + 1 /\ UNCHANGED publication
     ELSE /\ Leave(Then(ComplexBody(source, [build EXCEPT !.deferred = Tail(@)],
                                    build.deferred[1].def, TRUE),
                        LAMBDA r : CompleteComplex(r, build.deferred[1].id, "", {})).b)
          /\ UNCHANGED pass
  /\ UNCHANGED <<source, next>>

(* The passes over the complete build, which modules of their own model:   *)
(* each may refuse it.                                                     *)
Check ==
  /\ stage = "compile" /\ pass \in 7..12 /\ ~canceled
  /\ \/ /\ pass < 12
        /\ pass' = pass + 1
        /\ UNCHANGED publication
     \/ /\ pass = 12
        /\ stage' = "domain"
        /\ UNCHANGED <<build, candidate, published, canceled, outcome, pass>>
     \/ Leave([build EXCEPT !.error = Passes[pass]]) /\ UNCHANGED pass
  /\ UNCHANGED <<source, next>>

Init == /\ source \in Sources
        /\ pass = 1 /\ next = 1
        /\ build = NewBuild
        /\ stage = "compile"
        /\ candidate = NoSchema /\ published = NoSchema
        /\ canceled = FALSE /\ outcome = "running"

Ended == stage = "ended" /\ UNCHANGED vars

Next == \/ CompileName \/ EndNames \/ DeclareIdentities \/ Drain \/ Check \/ Interrupted
        \/ (Cancel \/ Publish) /\ UNCHANGED <<source, pass, next>>
        \/ Ended

Spec == Init /\ [][Next]_vars /\ WF_vars(Next)
=============================================================================
