----------------------------- MODULE SchemaSet -----------------------------
(***************************************************************************)
(* Loading the documents of a schema: the sources given to Compile and     *)
(* what their includes and imports resolve to, in the order of one queue.  *)
(*                                                                         *)
(* A document has an identity, the key of its source's name, and is loaded *)
(* once.  A source also carries a resolution context, the resolver that    *)
(* answers for its references, so that one document can be reached in      *)
(* several contexts: each is read and compared with what was loaded, and   *)
(* then resolves the references of the document again.  A reference that   *)
(* resolves to an identity for which nobody has a source waits until a     *)
(* document of that identity is loaded.                                    *)
(*                                                                         *)
(* Openers, readers and resolvers belong to the caller: they can fail, and *)
(* the caller can cancel the compilation at any time.                      *)
(***************************************************************************)
EXTENDS Naturals, FiniteSets, SequencesExt

CONSTANTS
  Key,      \* the identity that a source name stands for
  Rank,     \* the place of each source name in the order of names
  Missing,  \* the opener of a source finds nothing to open
  Worlds,   \* bound of the model: sources, what they contain, what resolvers answer
  MaxSchemaSources, MaxSchemaSourceBytes, MaxSchemaTotalBytes,
  MaxSchemaReferences, MaxSchemaTargetContexts, MaxSchemaInstantiatedNodes

ASSUME LimitAssumption ==
  /\ MaxSchemaSources \in Nat \ {0}
  /\ MaxSchemaSourceBytes \in Nat \ {0}
  /\ MaxSchemaTotalBytes \in Nat \ {0}
  /\ MaxSchemaReferences \in Nat \ {0}
  /\ MaxSchemaTargetContexts \in Nat \ {0}
  /\ MaxSchemaInstantiatedNodes \in Nat \ {0}

(* Names have an order and stand for identities, which are not empty.      *)
ASSUME NamesAssumption ==
  /\ \A n \in DOMAIN Rank : Rank[n] \in Nat /\ Key[n] \in STRING \ {""}
  /\ \A m, n \in DOMAIN Rank : Rank[m] = Rank[n] => m = n

(* What a source contains: a namespace, references and their places, its   *)
(* length and the nodes of its tree.                                       *)
References == [kind : {"include", "import"}, namespace : STRING, location : STRING]
IsContent(data) ==
  /\ data.target \in STRING /\ data.refs \in Seq(References)
  /\ data.size \in Nat /\ data.nodes \in Nat

(* Sources have names, those given as bytes have data, and a resolver only *)
(* answers with sources and with identities (source.Resolution).           *)
IsWorld(w) ==
  /\ \A s \in DOMAIN w.data : /\ s.name \in DOMAIN Rank
                              /\ w.data[s] = Missing \/ IsContent(w.data[s])
                              /\ s \in w.bytes => w.data[s] # Missing
  /\ w.explicit \subseteq DOMAIN w.data
  /\ IsFiniteSet(w.explicit) /\ Cardinality(w.explicit) <= MaxSchemaSources
  /\ \A s, t \in DOMAIN w.data : Key[s.name] = Key[t.name] /\ w.data[t] # Missing =>
       \A i \in DOMAIN w.data[t].refs : w.data[t].refs[i].location # "" =>
         LET answer == w.resolve[<<s, w.data[t].refs[i].location>>]
         IN  \/ answer.kind \in {"error", "none"}
             \/ answer.kind = "identity" /\ answer.key # ""
             \/ answer.kind = "source" /\ answer.source \in DOMAIN w.data

ASSUME WorldsAssumption == \A w \in Worlds : IsWorld(w)

VARIABLES
  world,       \* the input: explicit sources, data, byte-backed sources, answers
  canceled,    \* the context of the compilation is done
  pc,          \* what the loader does next, or how it ended
  queue,       \* requests to resolve a reference or to read a source
  item,        \* the request at hand
  got,         \* what Acquire has read of its source
  readers,     \* readers that are open
  docs,        \* byKey
  bound,       \* the target of each reference, once known
  pending,     \* pendingReferences: <<key, reference>>
  resolved,    \* resolvedSources
  totalBytes,
  references,
  parsedNodes,
  contexts,    \* schemaTargetContexts: <<key, target namespace>> in the order found
  next         \* the context to propagate next

graph == <<docs, bound, pending>>
budget == <<resolved, totalBytes, references, parsedNodes>>
targets == <<contexts, next>>
vars == <<world, canceled, pc, queue, item, got, readers, graph, budget, targets>>

Failures == {"canceled", "limit", "unreadable", "reference"}
Ended == Failures \union {"loaded"}

NoRef == <<>>
NoKey == ""
Nothing == [bytes |-> 0, error |-> ""]

Request(source, ref, resolve) == [source |-> source, ref |-> ref, resolve |-> resolve]

(* The elements of S in the order of their ranks.                          *)
Ascending(S, rank) ==
  [i \in 1..Cardinality(S) |-> CHOOSE x \in S : Cardinality({y \in S : rank[y] < rank[x]}) = i - 1]

Init ==
  /\ world \in Worlds
  /\ canceled = FALSE
  /\ pc = "take"
  /\ \E sources \in SetToSeqs(world.explicit) :
       /\ \A i, j \in DOMAIN sources : i < j => Rank[sources[i].name] <= Rank[sources[j].name]
       /\ queue = [i \in DOMAIN sources |-> Request(sources[i], NoRef, FALSE)]
  /\ item = Request([name |-> "", owner |-> ""], NoRef, FALSE)
  /\ got = Nothing
  /\ readers = 0
  /\ docs = <<>> /\ bound = <<>> /\ pending = {}
  /\ resolved = {} /\ totalBytes = 0 /\ references = 0 /\ parsedNodes = 0
  /\ contexts = <<>> /\ next = 1

-----------------------------------------------------------------------------
(* References.  A reference is known by its document and its place there.  *)

Loaded(key) == key \in DOMAIN docs
RefOf(ref) == docs[ref[1]].content.refs[ref[2]]
Located(ref) == ref.location # ""

Goto(label) == pc' = label
Stop(failure) == Goto(failure) /\ UNCHANGED <<world, canceled, queue, item, got, readers, graph, budget, targets>>

Cancel ==
  /\ pc \notin Ended /\ ~canceled
  /\ canceled' = TRUE
  /\ UNCHANGED <<world, pc, queue, item, got, readers, graph, budget, targets>>

(* Wherever no reader is open, the loader looks at the context first.      *)
StopCanceled == canceled /\ pc \notin Ended \union {"read", "close", "refused"} /\ Stop("canceled")

Running(label) == pc = label /\ ~canceled

(* validateSchemaReferenceTarget.                                          *)
Fits(ref, content) ==
  LET r == RefOf(ref)
  IN  IF r.kind = "include" THEN content.target \in {"", docs[ref[1]].content.target}
      ELSE content.target = r.namespace

(* schemaDocumentReferences: what an import may name.                      *)
ImportsAreLegal(content) ==
  \A r \in Range(content.refs) :
    r.kind = "import" => r.namespace # content.target

Take ==
  /\ Running("take") /\ queue # <<>>
  /\ item' = Head(queue)
  /\ queue' = Tail(queue)
  /\ Goto(IF item'.resolve THEN "resolve" ELSE "open")
  /\ UNCHANGED <<world, canceled, got, readers, graph, budget, targets>>

-----------------------------------------------------------------------------
(* resolveReference.                                                       *)

Answer == world.resolve[<<item.source, RefOf(item.ref).location>>]
Bind(key) == bound' = [bound EXCEPT ![item.ref] = key]

Conflicts(ref, key) == bound[ref] \notin {NoKey, key}

ResolveFails == Running("resolve") /\ Answer.kind = "error" /\ Stop("unreadable")

ResolveNothing ==
  /\ Running("resolve")
  /\ Answer.kind = "none" \/ (Answer.kind = "identity" /\ bound[item.ref] = Answer.key)
  /\ Goto("take")
  /\ UNCHANGED <<world, canceled, queue, item, got, readers, graph, budget, targets>>

(* An identity without a source, of a document that is loaded or may be.   *)
ResolveIdentity ==
  LET key == Answer.key
  IN  /\ Running("resolve") /\ Answer.kind = "identity" /\ bound[item.ref] # key
      /\ \/ /\ Loaded(key) /\ (Conflicts(item.ref, key) \/ ~Fits(item.ref, docs[key].content))
            /\ Stop("reference")
         \/ /\ Loaded(key) /\ ~Conflicts(item.ref, key) /\ Fits(item.ref, docs[key].content)
            /\ Bind(key)
            /\ Goto("take")
            /\ UNCHANGED <<world, canceled, queue, item, got, readers, docs, pending, budget, targets>>
         \/ /\ ~Loaded(key)
            /\ pending' = pending \union {<<key, item.ref>>}
            /\ Goto("take")
            /\ UNCHANGED <<world, canceled, queue, item, got, readers, docs, bound, budget, targets>>

(* Slip: every source the resolvers return is let in.                      *)
AdmittedAlways(key) == TRUE

(* admitResolvedSource.                                                    *)
Admitted(key) ==
  key \in resolved \/ Cardinality(resolved) < MaxSchemaSources - Cardinality(world.explicit)

ResolveSource ==
  LET key == Key[Answer.source.name]
  IN  /\ Running("resolve") /\ Answer.kind = "source"
      /\ \/ Conflicts(item.ref, key) /\ Stop("reference")
         \/ ~Conflicts(item.ref, key) /\ ~Admitted(key) /\ Stop("limit")
         \/ /\ ~Conflicts(item.ref, key) /\ Admitted(key)
            /\ Bind(key)
            /\ resolved' = resolved \union {key}
            /\ item' = Request(Answer.source, item.ref, FALSE)
            /\ Goto("open")
            /\ UNCHANGED <<world, canceled, queue, got, readers, docs, pending,
                           totalBytes, references, parsedNodes, targets>>

Resolve == ResolveFails \/ ResolveNothing \/ ResolveIdentity \/ ResolveSource

-----------------------------------------------------------------------------
(* Source.Acquire: open, read at most one byte more than the limit, close. *)

Data == world.data[item.source]
Remaining == MaxSchemaTotalBytes - totalBytes
ReadLimit == IF MaxSchemaSourceBytes < Remaining THEN MaxSchemaSourceBytes ELSE Remaining

Acquired(bytes, error) ==
  /\ got' = [bytes |-> bytes, error |-> error]
  /\ Goto("acquired")
  /\ UNCHANGED <<world, canceled, queue, item, graph, budget, targets>>

OpenBytes ==
  /\ Running("open") /\ item.source \in world.bytes
  /\ IF Data.size > ReadLimit THEN Acquired(0, "limit") ELSE Acquired(Data.size, "")
  /\ UNCHANGED readers

OpenFails ==
  /\ Running("open") /\ item.source \notin world.bytes
  /\ \/ Acquired(0, "read")
     \/ Data = Missing /\ Acquired(0, "missing")
  /\ UNCHANGED readers

(* The opener returns a reader, possibly together with an error.           *)
OpenReader ==
  /\ Running("open") /\ item.source \notin world.bytes
  /\ \/ Data # Missing /\ Goto("read")
     \/ Goto("refused")
  /\ readers' = readers + 1
  /\ UNCHANGED <<world, canceled, queue, item, got, graph, budget, targets>>

(* The reader that came with an error is closed.  A source is only missing *)
(* if the opener said nothing else and the close succeeded.                *)
CloseRefused ==
  /\ pc = "refused"
  /\ readers' = readers - 1
  /\ \/ Data = Missing /\ ~canceled /\ Acquired(0, "missing")
     \/ Acquired(0, "read")

(* Read stops before the source does if the context is done, if the reader *)
(* fails, and one byte after the limit.                                    *)
Read ==
  /\ pc = "read"
  /\ \E bytes \in {n \in 0..Data.size : n <= ReadLimit + 1} :
       got' \in {[bytes |-> bytes, error |-> e] :
                   e \in IF bytes > ReadLimit THEN {"limit"}
                         ELSE {"read"} \union (IF bytes = Data.size /\ ~canceled THEN {""} ELSE {})}
  /\ Goto("close")
  /\ UNCHANGED <<world, canceled, queue, item, readers, graph, budget, targets>>

(* Slip: a reader that failed is not closed.                               *)
CloseAfterSuccess ==
  /\ pc = "close"
  /\ readers' = IF got.error = "" THEN readers - 1 ELSE readers
  /\ Acquired(got.bytes, got.error)

Close ==
  /\ pc = "close"
  /\ readers' = readers - 1
  /\ \/ Acquired(got.bytes, got.error)
     \/ got.error = "" /\ Acquired(got.bytes, "read")

Acquire == OpenBytes \/ OpenFails \/ OpenReader \/ CloseRefused \/ Read \/ Close

-----------------------------------------------------------------------------
(* read and readLoaded: what becomes of the data.                          *)

ItemKey == Key[item.source.name]
Optional == item.ref # NoRef
Absent == got.error = "missing" /\ Optional
Charge == totalBytes' = totalBytes + got.bytes

AcquireFails ==
  /\ Running("acquired")
  /\ \/ (got.bytes > Remaining \/ got.error = "limit") /\ Stop("limit")
     \/ /\ got.bytes <= Remaining
        /\ got.error \in {"read", "missing"} /\ ~Absent
        /\ Stop("unreadable")

(* Nobody has loaded the document so far, and this source has none.        *)
SkipAbsent ==
  /\ Running("acquired") /\ Absent /\ ~Loaded(ItemKey)
  /\ Goto("take")
  /\ UNCHANGED <<world, canceled, queue, item, got, readers, graph, budget, targets>>

Usable == Running("acquired") /\ got.bytes <= Remaining /\ got.error = ""

TooManyReferences(refs) == Len(refs) > MaxSchemaReferences - references

(* enqueueReferences.                                                      *)
Enqueue(key, refs) ==
  LET located == Ascending({i \in DOMAIN refs : Located(refs[i])}, [i \in DOMAIN refs |-> i])
  IN  /\ queue' = queue \o [j \in DOMAIN located |-> Request(item.source, <<key, located[j]>>, TRUE)]
      /\ references' = references + Len(refs)

(* bindPendingReferences.                                                  *)
Waiting(key) == {p[2] : p \in {q \in pending : q[1] = key}}
WaitingInVain(key, content) == \E ref \in Waiting(key) : Conflicts(ref, key) \/ ~Fits(ref, content)

(* The first of the checks of a new document that fails.                   *)
LoadFailure(key, content) ==
  IF content.nodes > MaxSchemaInstantiatedNodes - parsedNodes THEN "limit"
  ELSE IF Optional /\ ~Fits(item.ref, content) THEN "reference"
  ELSE IF ~ImportsAreLegal(content) \/ WaitingInVain(key, content) THEN "reference"
  ELSE IF TooManyReferences(content.refs) THEN "limit"
  ELSE ""

LoadRejected ==
  /\ Usable /\ ~Loaded(ItemKey)
  /\ LoadFailure(ItemKey, Data) # ""
  /\ Stop(LoadFailure(ItemKey, Data))

Unresolved(key) == {p \in pending : p[1] # key}

BoundBy(key) ==
  [ref \in DOMAIN bound \union ({key} \X DOMAIN Data.refs) |->
     IF ref \in Waiting(key) THEN key ELSE IF ref \in DOMAIN bound THEN bound[ref] ELSE NoKey]

Load ==
  /\ Usable /\ ~Loaded(ItemKey)
  /\ LoadFailure(ItemKey, Data) = ""
  /\ docs' = [key \in DOMAIN docs \union {ItemKey} |->
                IF key # ItemKey THEN docs[key]
                ELSE [name |-> item.source.name, content |-> Data, sources |-> {item.source}, explicitRoot |-> ~Optional]]
  /\ bound' = BoundBy(ItemKey)
  /\ pending' = Unresolved(ItemKey)
  /\ parsedNodes' = parsedNodes + Data.nodes
  /\ Charge
  /\ Enqueue(ItemKey, Data.refs)
  /\ Goto("take")
  /\ UNCHANGED <<world, canceled, item, got, readers, resolved, targets>>

(* The data of another source of a loaded document, or none, in which case *)
(* the document loaded before stands for it.                               *)
Repeated == /\ Running("acquired") /\ Loaded(ItemKey)
            /\ got.bytes <= Remaining /\ (got.error = "" \/ Absent)

Known == docs[ItemKey]

RepeatFailure ==
  IF got.error = "" /\ Data # Known.content THEN "reference"
  ELSE IF Optional /\ ~Fits(item.ref, Known.content) THEN "reference"
  ELSE IF item.source \notin Known.sources /\ TooManyReferences(Known.content.refs) THEN "limit"
  ELSE ""

RepeatRejected == Repeated /\ RepeatFailure # "" /\ Stop(RepeatFailure)

(* Slip: another name in the same context is not resolved from again.      *)
FreshContext(source) == \A known \in docs[Key[source.name]].sources : known.owner # source.owner

(* Slip: a source is asked for its references each time it is read.        *)
FreshAlways(source) == TRUE

(* A name in a resolution context that has not been resolved from before.  *)
Fresh(source) == source \notin docs[Key[source.name]].sources

Repeat ==
  /\ Repeated /\ RepeatFailure = ""
  /\ docs' = [docs EXCEPT ![ItemKey].sources = IF Fresh(item.source) THEN @ \union {item.source} ELSE @,
                          ![ItemKey].explicitRoot = @ \/ ~Optional]
  /\ Charge
  /\ IF Fresh(item.source) THEN Enqueue(ItemKey, Known.content.refs) ELSE UNCHANGED <<queue, references>>
  /\ Goto("take")
  /\ UNCHANGED <<world, canceled, item, got, readers, bound, pending, resolved, parsedNodes, targets>>

-----------------------------------------------------------------------------
(* The whole set: validateLoadedReferenceTargets, instantiateTargetContexts. *)

(* The documents are ordered by name.                                      *)
InOrder(keys) == Ascending(keys, [key \in DOMAIN docs |-> Rank[docs[key].name]])
Declared(key) == docs[key].content.target

(* References that resolve to a loaded document.                           *)
Edges == {ref \in DOMAIN bound : Loaded(bound[ref])}
Includes(key) == {ref \in Edges : ref[1] = key /\ RefOf(ref).kind = "include"}
Imported(key) == \E ref \in Edges : bound[ref] = key /\ RefOf(ref).kind = "import"

CheckTargets ==
  /\ Running("take") /\ queue = <<>>
  /\ IF \A ref \in Edges : Fits(ref, docs[bound[ref]].content)
     THEN Goto("seed") /\ UNCHANGED <<world, canceled, queue, item, got, readers, graph, budget, targets>>
     ELSE Stop("reference")

AddNodes(sum, context) == sum + docs[context[1]].content.nodes
NodesOf(list) == FoldLeft(AddNodes, 0, list)

(* schemaTargetContexts.add.                                               *)
Added(acc, context) ==
  IF acc.full \/ context \in Range(acc.list) THEN acc
  ELSE IF \/ Len(acc.list) >= MaxSchemaTargetContexts
          \/ docs[context[1]].content.nodes > MaxSchemaInstantiatedNodes - NodesOf(acc.list)
       THEN [acc EXCEPT !.full = TRUE]
  ELSE [acc EXCEPT !.list = Append(@, context)]

AddAll(more) == FoldLeft(Added, [list |-> contexts, full |-> FALSE], more)

AddOrStop(more, label, following) ==
  LET added == AddAll(more)
  IN  IF added.full THEN Stop("limit")
      ELSE /\ contexts' = added.list
           /\ next' = following
           /\ Goto(label)
           /\ UNCHANGED <<world, canceled, queue, item, got, readers, graph, budget>>

(* Documents in the namespaces they declare.                               *)
OwnContexts(keys) == [i \in DOMAIN InOrder(keys) |-> <<InOrder(keys)[i], Declared(InOrder(keys)[i])>>]

(* Without references every document has the namespace it declares.        *)
SeedAlone ==
  /\ Running("seed") /\ Edges = {}
  /\ IF Cardinality(DOMAIN docs) > MaxSchemaTargetContexts THEN Stop("limit")
     ELSE /\ contexts' = OwnContexts(DOMAIN docs)
          /\ Goto("loaded")
          /\ UNCHANGED <<world, canceled, queue, item, got, readers, graph, budget, next>>

(* Slip: an imported document without a namespace is not a root.           *)
IsRootUnlessImported(key) == Declared(key) # "" \/ docs[key].explicitRoot

IsRoot(key) == Declared(key) # "" \/ Imported(key) \/ docs[key].explicitRoot

Seed ==
  /\ Running("seed") /\ Edges # {}
  /\ AddOrStop(OwnContexts({key \in DOMAIN docs : IsRoot(key)}), "propagate", next)

(* An included document without a namespace takes the one of its includer. *)
Adopted(context) ==
  LET refs == Ascending({ref \in Includes(context[1]) : Declared(bound[ref]) = ""}, [ref \in DOMAIN bound |-> ref[2]])
  IN  [i \in DOMAIN refs |-> <<bound[refs[i]], context[2]>>]

Propagate ==
  /\ Running("propagate") /\ next <= Len(contexts)
  /\ AddOrStop(Adopted(contexts[next]), "propagate", next + 1)

Unreached == {key \in DOMAIN docs : ~\E c \in Range(contexts) : c[1] = key}

(* What nothing includes is without a namespace; then the set is complete. *)
Fallback ==
  /\ Running("propagate") /\ next > Len(contexts)
  /\ AddOrStop([i \in DOMAIN InOrder(Unreached) |-> <<InOrder(Unreached)[i], "">>],
               IF Unreached = {} THEN "loaded" ELSE "propagate", next)

Next ==
  \/ Cancel \/ StopCanceled
  \/ Take \/ Resolve \/ Acquire
  \/ AcquireFails \/ SkipAbsent \/ LoadRejected \/ Load \/ RepeatRejected \/ Repeat
  \/ CheckTargets \/ SeedAlone \/ Seed
  \/ Propagate \/ Fallback

Spec == Init /\ [][Next]_vars

(* Every reader an opener returned is closed once, however Acquire ends.   *)
ReadersAreClosed == readers = (IF pc \in {"read", "close", "refused"} THEN 1 ELSE 0)
=============================================================================
