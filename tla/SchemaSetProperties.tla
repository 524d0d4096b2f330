------------------------ MODULE SchemaSetProperties ------------------------
(* What the loading of a schema set promises to compilation and callers.   *)
EXTENDS SchemaSet

Registered == UNION {docs[key].sources : key \in DOMAIN docs}
HasData(source) == world.data[source] # Missing

(* The contents that any of the sources has for a document, and what the   *)
(* references in one of them resolve to.                                   *)
Contents(sources, key) == {world.data[t] : t \in {u \in sources : Key[u.name] = key /\ HasData(u)}}
AnswersTo(s, content) == {world.resolve[<<s, r.location>>] : r \in {q \in Range(content.refs) : Located(q)}}
SourcesOf(answers) == {a.source : a \in {b \in answers : b.kind = "source"}}
TargetOf(answer) == IF answer.kind = "source" THEN Key[answer.source.name]
                    ELSE IF answer.kind = "identity" THEN answer.key
                    ELSE NoKey

(* What their references resolve to, and what that leads to in the end.    *)
Reached(sources) == UNION {UNION {SourcesOf(AnswersTo(s, d)) : d \in Contents(sources, Key[s.name])} : s \in sources}
Asking(sources, round) == sources \union Reached(sources)
Mentioned(sources) == FoldLeft(Asking, sources, [round \in 1..Cardinality(DOMAIN world.data) |-> round])

(* The limits hold at every step, also for what was read and dropped, up   *)
(* to the one byte that shows that a source is too long, and the counters  *)
(* count what they bound.                                                  *)
BudgetsHold ==
  /\ Cardinality(DOMAIN docs) <= MaxSchemaSources
  /\ totalBytes <= MaxSchemaTotalBytes
  /\ pc \in {"close", "acquired"} => totalBytes + got.bytes <= MaxSchemaTotalBytes + 1
  /\ references <= MaxSchemaReferences
  /\ references = SumFunction([key \in DOMAIN docs |-> Cardinality(docs[key].sources) * Len(docs[key].content.refs)])
  /\ Len(contexts) <= MaxSchemaTargetContexts
  /\ NodesOf(contexts) <= MaxSchemaInstantiatedNodes

(* Compilation gets the whole graph: the explicit sources, and from each   *)
(* of them on every source that a reference resolves to and that has data. *)
(* A document is what every source of it contains, and a reference of it   *)
(* has the one target that every context resolves it to, whichever of them *)
(* came first and whether the target was loaded before or afterwards.      *)
IsClosed ==
  /\ world.explicit \subseteq Registered
  /\ \A s \in Registered : \A t \in SourcesOf(AnswersTo(s, docs[Key[s.name]].content)) :
       HasData(t) => t \in Registered

IsConsistent ==
  /\ \A s \in Registered : HasData(s) => world.data[s] = docs[Key[s.name]].content
  /\ \A ref \in DOMAIN bound : Located(RefOf(ref)) =>
       LET found == {TargetOf(world.resolve[<<s, RefOf(ref).location>>]) : s \in docs[ref[1]].sources}
       IN  /\ \A key \in found : Loaded(key) => bound[ref] = key
           /\ bound[ref] \in found \union {NoKey}
  /\ \A ref \in Edges : Fits(ref, docs[bound[ref]].content)

GraphIsRight == pc = "loaded" => IsClosed /\ IsConsistent

(* A set of sources is only refused for its references if two contexts     *)
(* disagree about a document, its references resolve to different ones, or *)
(* an include or import names a document of another namespace.             *)
Suits(r, from, to) ==
  IF r.kind = "include" THEN to.target \in {"", from.target} ELSE to.target = r.namespace

Disagreement(all) ==
  \/ \E s, t \in all : Key[s.name] = Key[t.name] /\ HasData(s) /\ HasData(t) /\ world.data[s] # world.data[t]
  \/ \E s \in all : HasData(s) /\ ~ImportsAreLegal(world.data[s])
  \/ \E s, t \in all : Key[s.name] = Key[t.name] /\
       \E d \in Contents(all, Key[s.name]) : \E r \in {q \in Range(d.refs) : Located(q)} :
         LET a == TargetOf(world.resolve[<<s, r.location>>])
             b == TargetOf(world.resolve[<<t, r.location>>])
         IN  \/ a # b /\ NoKey \notin {a, b}
             \/ \E to \in Contents(all, a) : ~Suits(r, d, to)

(* The namespaces that a document is compiled for: a root is compiled for  *)
(* its own, and an include of a document without one adopts the includer's. *)
Root(key) ==
  \/ Declared(key) # ""
  \/ \E s \in world.explicit : Key[s.name] = key
  \/ \E ref \in Edges : bound[ref] = key /\ RefOf(ref).kind = "import"

AdoptedBy(c) == {<<bound[ref], c[2]>> : ref \in {r \in Includes(c[1]) : Declared(bound[r]) = ""}}

RootContexts == {<<key, Declared(key)>> : key \in {k \in DOMAIN docs : Root(k)}}
Adopting(cs, round) == cs \union UNION {AdoptedBy(c) : c \in cs}
ExpectedContexts == FoldLeft(Adopting, RootContexts, [round \in 1..Cardinality(DOMAIN docs) |-> round])

(* Every document is compiled, once for its own namespace or, if it has    *)
(* none, for that of each document that includes it, and also for none if  *)
(* it was passed to Compile or is imported.                                *)
ContextsAreRight ==
  pc = "loaded" =>
    /\ \A key \in DOMAIN docs : \E c \in Range(contexts) : c[1] = key
    /\ \A i, j \in DOMAIN contexts : contexts[i] = contexts[j] => i = j
    /\ \A c \in Range(contexts) : Declared(c[1]) # "" => c[2] = Declared(c[1])
    /\ \A key \in world.explicit : <<Key[key.name], Declared(Key[key.name])>> \in Range(contexts)
    /\ Range(contexts) = ExpectedContexts

(* What loading the sources in `all` costs when no limit stops it.         *)
SizeOf(source) == IF HasData(source) THEN world.data[source].size ELSE 0
Documents(all) == {<<Key[s.name], world.data[s]>> : s \in {t \in all : HasData(t)}}
Asked(all) == UNION {UNION {{<<s, d, i>> : i \in DOMAIN d.refs} : d \in Contents(all, Key[s.name])} : s \in all}
ReadFor(ask) ==
  LET r == ask[2].refs[ask[3]]
      answer == world.resolve[<<ask[1], r.location>>]
  IN  IF Located(r) /\ answer.kind = "source" THEN SizeOf(answer.source) ELSE 0
AdmittedBy(all) == {Key[t.name] : t \in Reached(all)}

OverLimits(all) ==
  \/ Cardinality(world.explicit) + Cardinality(AdmittedBy(all)) > MaxSchemaSources
  \/ \E s \in all : SizeOf(s) > MaxSchemaSourceBytes
  \/ SumFunction([s \in world.explicit |-> SizeOf(s)]) + SumFunction([ask \in Asked(all) |-> ReadFor(ask)])
       > MaxSchemaTotalBytes
  \/ Cardinality(Asked(all)) > MaxSchemaReferences
  \/ SumFunction([doc \in Documents(all) |-> doc[2].nodes]) > MaxSchemaInstantiatedNodes
  \/ Cardinality(ExpectedContexts) > MaxSchemaTargetContexts
  \/ SumFunction([c \in ExpectedContexts |-> docs[c[1]].content.nodes]) > MaxSchemaInstantiatedNodes

(* A set of sources is only refused for such a disagreement, and a limit   *)
(* only stops a compilation that would exceed it: each document in each    *)
(* context costs once, however many references lead there, so that a cycle *)
(* of includes is not an endless one.                                      *)
RefusalsAreJustified ==
  /\ pc = "reference" => Disagreement(Mentioned(world.explicit))
  /\ pc = "limit" => OverLimits(Mentioned(world.explicit))
=============================================================================
