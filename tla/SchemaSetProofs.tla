--------------------------- MODULE SchemaSetProofs ---------------------------
(* The loader closes what it opens, hands over the whole graph, keeps      *)
(* within its limits, finds the namespaces that documents are compiled for *)
(* and refuses a set of sources only for a reason that the set itself has, *)
(* whatever the sources contain and the resolvers answer.                  *)
EXTENDS SchemaSetProperties, FiniteSetTheorems, SequenceTheorems, TLAPS

USE DEF Running, Goto, Ended, Failures

(* A step of the loader that stops or leaves readers alone keeps the count *)
(* if it neither comes from nor goes to a place with an open reader.       *)
LEMMA AwayFromReaders ==
  ASSUME ReadersAreClosed, UNCHANGED readers,
         pc \notin {"read", "close", "refused"}, pc' \notin {"read", "close", "refused"}
  PROVE  ReadersAreClosed'
BY DEF ReadersAreClosed

(* Resolving a reference opens nothing.                                    *)
LEMMA ResolveOpensNothing ==
  ASSUME ReadersAreClosed, Resolve
  PROVE  ReadersAreClosed'
<1>1. CASE ResolveFails
  BY <1>1, AwayFromReaders DEF ResolveFails, Stop
<1>2. CASE ResolveNothing
  BY <1>2, AwayFromReaders DEF ResolveNothing
<1>3. CASE ResolveIdentity
  BY <1>3, AwayFromReaders DEF ResolveIdentity, Stop
<1>4. CASE ResolveSource
  BY <1>4, AwayFromReaders DEF ResolveSource, Stop
<1>5. QED
  BY <1>1, <1>2, <1>3, <1>4 DEF Resolve

(* Acquire closes the reader it opened on each of its ways out.            *)
LEMMA AcquireCloses ==
  ASSUME ReadersAreClosed, Acquire
  PROVE  ReadersAreClosed'
<1>1. CASE OpenBytes
  BY <1>1 DEF OpenBytes, Acquired, ReadersAreClosed
<1>2. CASE OpenFails
  BY <1>2 DEF OpenFails, Acquired, ReadersAreClosed
<1>3. CASE OpenReader
  BY <1>3 DEF OpenReader, Acquired, ReadersAreClosed
<1>4. CASE CloseRefused
  BY <1>4 DEF CloseRefused, Acquired, ReadersAreClosed
<1>5. CASE Read
  BY <1>5 DEF Read, ReadersAreClosed
<1>6. CASE Close
  <2>1. pc = "close" /\ pc' = "acquired" /\ readers' = readers - 1
    BY <1>6, Zenon DEF Close, Acquired
  <2>2. QED
    BY <2>1 DEF ReadersAreClosed
<1>7. QED
  BY <1>1, <1>2, <1>3, <1>4, <1>5, <1>6 DEF Acquire

(* What becomes of the data opens nothing, whether it is kept or rejected. *)
LEMMA ReadingOpensNothing ==
  ASSUME ReadersAreClosed,
         AcquireFails \/ SkipAbsent \/ LoadRejected \/ Load \/ RepeatRejected \/ Repeat
  PROVE  ReadersAreClosed'
<1>1. CASE AcquireFails
  BY <1>1, AwayFromReaders DEF AcquireFails, Stop
<1>2. CASE SkipAbsent
  BY <1>2, AwayFromReaders DEF SkipAbsent
<1>3. CASE LoadRejected
  <2>1. LoadFailure(ItemKey, Data) \in {"limit", "reference", ""}
    BY DEF LoadFailure
  <2>2. QED
    BY <1>3, <2>1, AwayFromReaders DEF LoadRejected, Usable, Stop
<1>4. CASE Load
  BY <1>4, AwayFromReaders DEF Load, Usable
<1>5. CASE RepeatRejected
  <2>1. RepeatFailure \in {"limit", "reference", ""}
    BY DEF RepeatFailure
  <2>2. QED
    BY <1>5, <2>1, AwayFromReaders DEF RepeatRejected, Repeated, Stop
<1>6. CASE Repeat
  BY <1>6, AwayFromReaders DEF Repeat, Repeated
<1>7. QED
  BY <1>1, <1>2, <1>3, <1>4, <1>5, <1>6

(* Namespaces are found after the last reader is closed.                   *)
LEMMA TargetsOpenNothing ==
  ASSUME ReadersAreClosed,
         CheckTargets \/ SeedAlone \/ Seed \/ Propagate \/ Fallback
  PROVE  ReadersAreClosed'
<1>1. CASE CheckTargets
  BY <1>1, AwayFromReaders DEF CheckTargets, Stop
<1>2. CASE SeedAlone
  BY <1>2, AwayFromReaders DEF SeedAlone, Stop
<1>3. CASE Seed
  BY <1>3, AwayFromReaders DEF Seed, AddOrStop, Stop
<1>4. CASE Propagate
  BY <1>4, AwayFromReaders DEF Propagate, AddOrStop, Stop
<1>5. CASE Fallback
  BY <1>5, AwayFromReaders DEF Fallback, AddOrStop, Stop
<1>6. QED
  BY <1>1, <1>2, <1>3, <1>4, <1>5

(* Source.Acquire and the loader around it never leave a reader open and   *)
(* never close one twice, whatever the sources are, whichever opener,      *)
(* reader or limit fails, and whenever the compilation is canceled.        *)
THEOREM LoaderClosesReaders == Spec => []ReadersAreClosed
<1>1. Init => ReadersAreClosed
  BY DEF Init, ReadersAreClosed
<1>2. ReadersAreClosed /\ [Next]_vars => ReadersAreClosed'
  <2> SUFFICES ASSUME ReadersAreClosed, [Next]_vars
               PROVE  ReadersAreClosed'
    OBVIOUS
  <2>1. CASE Cancel
    BY <2>1 DEF Cancel, ReadersAreClosed
  <2>2. CASE StopCanceled
    BY <2>2, AwayFromReaders DEF StopCanceled, Stop
  <2>3. CASE Take
    BY <2>3, AwayFromReaders DEF Take
  <2>4. CASE UNCHANGED vars
    BY <2>4 DEF vars, ReadersAreClosed
  <2>5. QED
    BY <2>1, <2>2, <2>3, <2>4, ResolveOpensNothing, AcquireCloses, ReadingOpensNothing, TargetsOpenNothing
    DEF Next
<1>3. QED
  BY <1>1, <1>2, PTL DEF Spec

HIDE DEF Running, Goto, Ended, Failures

-----------------------------------------------------------------------------
(* Ascending enumerates a finite set whose ranks differ.                   *)

Below(S, rank, x) == {y \in S : rank[y] < rank[x]}

(* The number of elements of lower rank is the place of an element.        *)
LEMMA PlaceIsOne ==
  ASSUME NEW S, IsFiniteSet(S), NEW rank,
         \A x \in S : rank[x] \in Nat, \A x, y \in S : rank[x] = rank[y] => x = y
  PROVE  /\ Cardinality(S) \in Nat
         /\ [x \in S |-> Cardinality(Below(S, rank, x)) + 1] \in Bijection(S, 1..Cardinality(S))
<1> DEFINE n == Cardinality(S)
           f == [x \in S |-> Cardinality(Below(S, rank, x)) + 1]
<1>1. n \in Nat
  BY FS_CardinalityType
<1>2. ASSUME NEW x \in S
      PROVE  /\ IsFiniteSet(Below(S, rank, x)) /\ Cardinality(Below(S, rank, x)) \in Nat
             /\ Cardinality(Below(S, rank, x)) + 1 <= n
  <2>1. IsFiniteSet(S \ {x}) /\ Cardinality(S \ {x}) = n - 1
    BY FS_RemoveElement
  <2>2. Below(S, rank, x) \in SUBSET (S \ {x})
    BY DEF Below
  <2>3. IsFiniteSet(Below(S, rank, x)) /\ Cardinality(Below(S, rank, x)) <= n - 1
    BY <2>1, <2>2, FS_Subset
  <2>4. QED
    BY <1>1, <2>3, FS_CardinalityType
<1>3. ASSUME NEW x \in S, NEW y \in S, rank[x] < rank[y]
      PROVE  f[x] < f[y]
  <2>1. x \notin Below(S, rank, x)
    BY DEF Below
  <2>2. /\ IsFiniteSet(Below(S, rank, x) \union {x})
        /\ Cardinality(Below(S, rank, x) \union {x}) = Cardinality(Below(S, rank, x)) + 1
    BY <1>2, <2>1, FS_AddElement
  <2>3. Below(S, rank, x) \union {x} \in SUBSET Below(S, rank, y)
    BY <1>3 DEF Below
  <2>4. Cardinality(Below(S, rank, x)) + 1 <= Cardinality(Below(S, rank, y))
    BY <1>2, <2>2, <2>3, FS_Subset
  <2>5. QED
    BY <1>2, <2>4
<1>4. f \in [S -> 1..n]
  BY <1>1, <1>2
<1>5. f \in Injection(S, 1..n)
  <2>1. ASSUME NEW x \in S, NEW y \in S, f[x] = f[y]
        PROVE  x = y
    <3>1. f[x] \in 1..n /\ f[y] \in 1..n
      BY <1>4
    <3> HIDE DEF f
    <3>2. ~(f[x] < f[y]) /\ ~(f[y] < f[x])
      BY <2>1, <3>1
    <3>3. rank[x] = rank[y]
      BY <1>3, <3>2
    <3>4. QED
      BY <3>3
  <2> HIDE DEF f
  <2>2. DOMAIN f = S
    BY <1>4
  <2>3. IsInjective(f)
    BY <2>1, <2>2 DEF IsInjective
  <2>4. QED
    BY <1>4, <2>3 DEF Injection
<1>6. IsFiniteSet(1..n) /\ Cardinality(1..n) = n
  BY <1>1, FS_Interval
<1> HIDE DEF f
<1>7. f \in Surjection(S, 1..n)
  BY <1>5, <1>6, FS_Injection
<1>8. QED
  BY <1>1, <1>5, <1>7 DEF f, Bijection

(* So every element has one place, and every place one element.            *)
LEMMA AscendingFacts ==
  ASSUME NEW S, IsFiniteSet(S), NEW rank,
         \A x \in S : rank[x] \in Nat, \A x, y \in S : rank[x] = rank[y] => x = y
  PROVE  /\ Ascending(S, rank) \in Seq(S) /\ Len(Ascending(S, rank)) = Cardinality(S)
         /\ Cardinality(S) \in Nat /\ DOMAIN Ascending(S, rank) = 1..Cardinality(S)
         /\ \A x \in S : \E i \in 1..Cardinality(S) : Ascending(S, rank)[i] = x
         /\ \A i, j \in 1..Cardinality(S) : Ascending(S, rank)[i] = Ascending(S, rank)[j] => i = j
<1> DEFINE n == Cardinality(S)
           f == [x \in S |-> Cardinality(Below(S, rank, x)) + 1]
           s == Ascending(S, rank)
<1>1. n \in Nat /\ f \in Bijection(S, 1..n)
  BY PlaceIsOne
<1>2. ASSUME NEW x \in S
      PROVE  Cardinality(Below(S, rank, x)) \in Nat
  <2>1. Below(S, rank, x) \in SUBSET S
    BY DEF Below
  <2>2. QED
    BY <2>1, FS_Subset, FS_CardinalityType
<1>3. \A x \in S : f[x] \in 1..n
  BY <1>1 DEF Bijection, Injection
<1>4. \A i \in 1..n : \E x \in S : f[x] = i
  BY <1>1, Zenon DEF Bijection, Surjection
<1>5. \A x, y \in S : f[x] = f[y] => x = y
  BY <1>1 DEF Bijection, Injection, IsInjective
<1>6. ASSUME NEW i \in 1..n, NEW x \in S
      PROVE  f[x] = i <=> Cardinality(Below(S, rank, x)) = i - 1
  BY <1>2
<1>7. ASSUME NEW i \in 1..n
      PROVE  s[i] \in S /\ f[s[i]] = i
  <2>1. s[i] = CHOOSE x \in S : Cardinality(Below(S, rank, x)) = i - 1
    BY DEF Ascending, Below
  <2>2. \E x \in S : Cardinality(Below(S, rank, x)) = i - 1
    BY <1>4, <1>6
  <2> HIDE DEF s, f
  <2>3. s[i] \in S /\ Cardinality(Below(S, rank, s[i])) = i - 1
    BY <2>1, <2>2, Zenon
  <2>4. QED
    BY <1>6, <2>3
<1>8. s = [i \in 1..n |-> s[i]]
  <2> DEFINE P(i) == CHOOSE x \in S : Cardinality({y \in S : rank[y] < rank[x]}) = i - 1
  <2>1. s = [i \in 1..n |-> P(i)]
    BY DEF Ascending
  <2> HIDE DEF P, s
  <2>2. QED
    BY <2>1
<1> HIDE DEF s, f
<1>9. s \in [1..n -> S]
  BY <1>7, <1>8
<1>10. s \in Seq(S) /\ Len(s) = n /\ DOMAIN s = 1..n
  BY <1>1, <1>9
<1>11. \A x \in S : s[f[x]] = x
  BY <1>3, <1>5, <1>7
<1>12. QED
  BY <1>1, <1>3, <1>7, <1>10, <1>11 DEF s, n

-----------------------------------------------------------------------------
(* The inductive invariant of the graph.                                   *)

Reading == {"open", "read", "refused", "close", "acquired"}
Later == {"seed", "propagate", "loaded"}

KeyOf(s) == Key[s.name]
AnswerTo(s, ref) == world.resolve[<<s, RefOf(ref).location>>]

(* A document was loaded from one of its sources, and is what every source *)
(* of it contains, if it contains anything.                                *)
IsDoc(key) ==
  LET doc == docs[key]
  IN  /\ key \in STRING \ {NoKey}
      /\ doc = [name |-> doc.name, content |-> doc.content, sources |-> doc.sources, explicitRoot |-> doc.explicitRoot]
      /\ doc.name \in DOMAIN Rank /\ Key[doc.name] = key
      /\ IsFiniteSet(doc.sources)
      /\ \A s \in doc.sources : s \in DOMAIN world.data /\ KeyOf(s) = key
      /\ \A s \in doc.sources : HasData(s) => world.data[s] = doc.content
      /\ \E s \in doc.sources : HasData(s)

DocsInv == IsFiniteSet(DOMAIN docs) /\ \A key \in DOMAIN docs : IsDoc(key)

(* The references of the documents, and those that are resolved.           *)
Refs == UNION {{key} \X DOMAIN docs[key].content.refs : key \in DOMAIN docs}
Calls == {ref \in DOMAIN bound : Located(RefOf(ref))}
SourcesFor(ref) == docs[ref[1]].sources

(* A reference is bound to what one of the sources of its document says.   *)
BoundInv ==
  /\ bound = [ref \in Refs |-> bound[ref]]
  /\ \A ref \in Calls : bound[ref] # NoKey =>
       \E s \in SourcesFor(ref) : TargetOf(AnswerTo(s, ref)) = bound[ref]

PendingInv ==
  \A p \in pending :
    /\ p = <<p[1], p[2]>> /\ p[1] \notin DOMAIN docs /\ p[2] \in Calls
    /\ \E s \in SourcesFor(p[2]) : AnswerTo(s, p[2]).kind = "identity" /\ AnswerTo(s, p[2]).key = p[1]

(* Requests are for explicit sources, and for the references of a source.  *)
IsCall(r) == r.ref \in Calls /\ r.source \in SourcesFor(r.ref) /\ r = Request(r.source, r.ref, TRUE)
IsRequest(r) == IsCall(r) \/ (r.source \in world.explicit /\ r = Request(r.source, NoRef, FALSE))

(* A source that is read is explicit, or what a reference resolved to.     *)
IsRead(r) ==
  /\ r.source \in DOMAIN world.data
  /\ r.ref # NoRef => r.ref \in Calls /\ bound[r.ref] = KeyOf(r.source)
  /\ r = Request(r.source, r.ref, FALSE)

ItemInv ==
  /\ pc = "resolve" => IsCall(item)
  /\ pc \in Reading => IsRead(item)
  /\ pc \in {"read", "close"} => HasData(item.source)
  /\ pc = "close" => got.error # "missing"
  /\ pc = "acquired" => (got.error = "missing" => ~HasData(item.source)) /\ (got.error = "" => HasData(item.source))

QueueInv ==
  /\ queue \in Seq(Range(queue)) /\ \A r \in Range(queue) : IsRequest(r)
  /\ pc \in Later => queue = <<>>

(* What becomes of a source: it is read, or is or has been.                *)
IsKnown(s) == s \in Registered \/ ~HasData(s) \/ (pc \in Reading /\ item.source = s)

Settled(s, ref) ==
  LET answer == AnswerTo(s, ref)
  IN  /\ answer.kind # "error"
      /\ answer.kind = "source" => bound[ref] = KeyOf(answer.source) /\ IsKnown(answer.source)
      /\ answer.kind = "identity" => bound[ref] = answer.key \/ <<answer.key, ref>> \in pending

(* Every request is waiting, at hand or done.                              *)
CallsInv ==
  \A ref \in Calls : \A s \in SourcesFor(ref) :
    \/ Request(s, ref, TRUE) \in Range(queue)
    \/ pc = "resolve" /\ item = Request(s, ref, TRUE)
    \/ Settled(s, ref)

ExplicitInv ==
  \A s \in world.explicit :
    \/ Request(s, NoRef, FALSE) \in Range(queue)
    \/ pc \in Reading /\ item = Request(s, NoRef, FALSE)
    \/ s \in Registered

FitsInv == pc \in Later => \A ref \in Edges : Fits(ref, docs[bound[ref]].content)

ShapeInv == IsWorld(world) /\ DocsInv /\ BoundInv /\ PendingInv
WorkInv == ItemInv /\ QueueInv /\ CallsInv /\ ExplicitInv /\ FitsInv
GraphInv == ShapeInv /\ (pc \notin Failures => WorkInv)

(* The graph only grows: documents keep what they contain, and references  *)
(* what they are bound to.                                                 *)
Kept ==
  /\ world' = world
  /\ \A key \in DOMAIN docs : /\ key \in DOMAIN docs' /\ docs'[key].content = docs[key].content
                              /\ docs[key].sources \subseteq docs'[key].sources
  /\ \A ref \in DOMAIN bound : ref \in DOMAIN bound' /\ (bound[ref] # NoKey => bound'[ref] = bound[ref])

(* A reference belongs to a document, and its sources have that identity.  *)
LEMMA CallFacts ==
  ASSUME ShapeInv, NEW ref \in DOMAIN bound
  PROVE  /\ ref = <<ref[1], ref[2]>> /\ ref[1] \in DOMAIN docs /\ ref[2] \in DOMAIN docs[ref[1]].content.refs
         /\ \A s \in SourcesFor(ref) : s \in DOMAIN world.data /\ KeyOf(s) = ref[1] /\ s \in Registered
<1>1. ref \in Refs
  BY DEF ShapeInv, BoundInv
<1>2. PICK key \in DOMAIN docs : ref \in {key} \X DOMAIN docs[key].content.refs
  BY <1>1 DEF Refs
<1>3. ref = <<ref[1], ref[2]>> /\ ref[1] = key /\ ref[2] \in DOMAIN docs[key].content.refs
  BY <1>2
<1>4. IsDoc(key)
  BY DEF ShapeInv, DocsInv
<1>5. \A s \in SourcesFor(ref) : s \in DOMAIN world.data /\ KeyOf(s) = ref[1]
  BY <1>3, <1>4 DEF IsDoc, SourcesFor
<1>6. \A s \in SourcesFor(ref) : s \in Registered
  BY <1>3 DEF SourcesFor, Registered
<1>7. QED
  BY <1>3, <1>5, <1>6

(* What answers to a reference.                                            *)
LEMMA AnswerFacts ==
  ASSUME ShapeInv, NEW ref \in Calls, NEW s \in SourcesFor(ref)
  PROVE  LET answer == AnswerTo(s, ref)
         IN  \/ answer.kind \in {"error", "none"}
             \/ answer.kind = "identity" /\ answer.key # NoKey
             \/ /\ answer.kind = "source" /\ answer.source \in DOMAIN world.data
                /\ KeyOf(answer.source) \in STRING \ {NoKey}
<1> DEFINE doc == docs[ref[1]]
           i == ref[2]
           answer == AnswerTo(s, ref)
<1>1. ref \in DOMAIN bound /\ Located(RefOf(ref))
  BY DEF Calls
<1>2. /\ ref[1] \in DOMAIN docs /\ i \in DOMAIN doc.content.refs
      /\ s \in DOMAIN world.data /\ KeyOf(s) = ref[1]
  BY <1>1, CallFacts
<1>3. IsDoc(ref[1]) /\ IsWorld(world)
  BY <1>2 DEF ShapeInv, DocsInv
<1>4. PICK t \in doc.sources : HasData(t)
  BY <1>3 DEF IsDoc
<1>5. t \in DOMAIN world.data /\ KeyOf(t) = ref[1] /\ world.data[t] = doc.content
  BY <1>3, <1>4 DEF IsDoc
<1>6. RefOf(ref).location # "" /\ RefOf(ref) = doc.content.refs[i]
  BY <1>1 DEF Located, RefOf
<1>7. answer = world.resolve[<<s, world.data[t].refs[i].location>>]
  BY <1>5, <1>6 DEF AnswerTo
<1>8. Key[s.name] = Key[t.name] /\ world.data[t] # Missing
  BY <1>2, <1>4, <1>5 DEF KeyOf, HasData
<1>9. i \in DOMAIN world.data[t].refs /\ world.data[t].refs[i].location # ""
  BY <1>2, <1>5, <1>6
<1> HIDE DEF answer, i, doc
<1>10. \/ answer.kind \in {"error", "none"}
       \/ answer.kind = "identity" /\ answer.key # ""
       \/ answer.kind = "source" /\ answer.source \in DOMAIN world.data
  BY <1>2, <1>3, <1>5, <1>7, <1>8, <1>9 DEF IsWorld
<1>11. answer.kind = "source" /\ answer.source \in DOMAIN world.data => KeyOf(answer.source) \in STRING \ {NoKey}
  BY <1>3, NamesAssumption DEF IsWorld, KeyOf, NoKey
<1>12. QED
  BY <1>10, <1>11 DEF answer, NoKey

(* What was said of references and requests is still true.                 *)
LEMMA RefKept ==
  ASSUME ShapeInv, Kept, NEW ref \in Calls
  PROVE  /\ RefOf(ref)' = RefOf(ref) /\ ref \in Calls'
         /\ SourcesFor(ref) \subseteq SourcesFor(ref)'
         /\ \A s : AnswerTo(s, ref)' = AnswerTo(s, ref)
<1>1. ref \in DOMAIN bound /\ ref[1] \in DOMAIN docs /\ Located(RefOf(ref))
  BY CallFacts DEF Calls
<1>2. docs'[ref[1]].content = docs[ref[1]].content /\ docs[ref[1]].sources \subseteq docs'[ref[1]].sources
  BY <1>1 DEF Kept
<1>3. RefOf(ref)' = RefOf(ref)
  BY <1>2 DEF RefOf
<1>4. ref \in DOMAIN bound' /\ world' = world
  BY <1>1 DEF Kept
<1>5. QED
  BY <1>1, <1>2, <1>3, <1>4 DEF Calls, SourcesFor, AnswerTo

(* A source that stands for a document goes on doing so.                   *)
LEMMA RegisteredKept ==
  ASSUME Kept
  PROVE  Registered \subseteq Registered'
BY DEF Kept, Registered

(* A request that is waiting stays one.                                    *)
LEMMA RequestKept ==
  ASSUME ShapeInv, Kept, NEW r, IsRequest(r)
  PROVE  IsRequest(r)'
<1>1. CASE IsCall(r)
  <2>1. r.ref \in Calls' /\ r.source \in SourcesFor(r.ref)'
    BY <1>1, RefKept DEF IsCall
  <2>2. QED
    BY <1>1, <2>1 DEF IsCall, IsRequest, Request
<1>2. CASE r.source \in world.explicit /\ r = Request(r.source, NoRef, FALSE)
  BY <1>2 DEF Kept, IsRequest, Request
<1>3. QED
  BY <1>1, <1>2 DEF IsRequest

(* A request that was done is done, if what is known stays known.          *)
LEMMA SettledKept ==
  ASSUME ShapeInv, Kept, NEW ref \in Calls, NEW s \in SourcesFor(ref), Settled(s, ref),
         \A t : IsKnown(t) => IsKnown(t)',
         \A p \in pending : p \in pending' \/ bound'[p[2]] = p[1]
  PROVE  Settled(s, ref)'
<1>1. PICK answer : answer = AnswerTo(s, ref)
  OBVIOUS
<1>2. AnswerTo(s, ref)' = answer /\ ref \in DOMAIN bound
  BY <1>1, RefKept DEF Calls
<1>3. bound[ref] # NoKey => bound'[ref] = bound[ref]
  BY <1>2 DEF Kept
<1>4. /\ answer.kind = "source" => KeyOf(answer.source) # NoKey
      /\ answer.kind = "identity" => answer.key # NoKey
  BY <1>1, AnswerFacts
<1>5. /\ answer.kind # "error"
      /\ answer.kind = "source" => bound[ref] = KeyOf(answer.source) /\ IsKnown(answer.source)
      /\ answer.kind = "identity" => bound[ref] = answer.key \/ <<answer.key, ref>> \in pending
  BY <1>1 DEF Settled
<1>6. answer.kind = "source" => bound'[ref] = KeyOf(answer.source) /\ IsKnown(answer.source)'
  BY <1>3, <1>4, <1>5
<1>7. answer.kind = "identity" => bound'[ref] = answer.key \/ <<answer.key, ref>> \in pending'
  <2>1. CASE <<answer.key, ref>> \in pending
    <3>1. <<answer.key, ref>>[1] = answer.key /\ <<answer.key, ref>>[2] = ref
      OBVIOUS
    <3>2. QED
      BY <2>1, <3>1
  <2>2. QED
    BY <1>3, <1>4, <1>5, <2>1
<1>8. QED
  BY <1>2, <1>5, <1>6, <1>7 DEF Settled, KeyOf

(* What a request consists of.                                             *)
LEMMA RequestParts ==
  ASSUME NEW r, NEW s, NEW ref, NEW resolve
  PROVE  r = Request(s, ref, resolve) => r.source = s /\ r.ref = ref /\ r.resolve = resolve
BY DEF Request

-----------------------------------------------------------------------------
(* At first the explicit sources are waiting.                              *)
LEMMA InitGraph == Init => GraphInv
<1> SUFFICES ASSUME Init
             PROVE  GraphInv
  OBVIOUS
<1>1. PICK sources \in SetToSeqs(world.explicit) :
        queue = [i \in DOMAIN sources |-> Request(sources[i], NoRef, FALSE)]
  BY DEF Init
<1>2. IsWorld(world)
  BY WorldsAssumption DEF Init
<1>3. docs = <<>> /\ bound = <<>> /\ pending = {} /\ pc = "take"
  BY DEF Init
<1>4. DOMAIN docs = {} /\ DOMAIN bound = {}
  BY <1>3
<1>5. DocsInv
  BY <1>4, FS_EmptySet DEF DocsInv
<1>6. Refs = {} /\ Calls = {}
  BY <1>4 DEF Refs, Calls
<1>7. BoundInv
  <2>1. bound = [ref \in {} |-> bound[ref]]
    BY <1>3
  <2>2. QED
    BY <1>6, <2>1 DEF BoundInv
<1>8. PendingInv
  BY <1>3 DEF PendingInv
<1> DEFINE n == Cardinality(world.explicit)
<1>9. /\ n \in Nat /\ sources \in [1..n -> world.explicit]
      /\ \A s \in world.explicit : \E i \in 1..n : sources[i] = s
  <2>1. n \in Nat /\ IsFiniteSet(world.explicit)
    BY <1>2, FS_CardinalityType DEF IsWorld
  <2>2. sources \in [1..n -> world.explicit] /\ \A i, j \in 1..n : i # j => sources[i] # sources[j]
    BY <1>1 DEF SetToSeqs, IsInjective
  <2>3. IsFiniteSet(1..n) /\ Cardinality(1..n) = n
    BY <2>1, FS_Interval
  <2>4. sources \in Injection(1..n, world.explicit)
    BY <2>2 DEF Injection, IsInjective
  <2>5. sources \in Surjection(1..n, world.explicit)
    BY <2>1, <2>3, <2>4, FS_Injection
  <2>6. QED
    BY <2>1, <2>2, <2>5, Zenon DEF Surjection
<1> HIDE DEF n
<1>10. DOMAIN sources = 1..n
  BY <1>9
<1>11. /\ queue = [i \in 1..n |-> queue[i]] /\ DOMAIN queue = 1..n
       /\ \A i \in 1..n : queue[i] = Request(sources[i], NoRef, FALSE)
  BY <1>1, <1>10
<1>12. queue \in Seq(Range(queue))
  <2>1. \A i \in 1..n : queue[i] \in Range(queue)
    BY <1>11 DEF Range
  <2>2. queue \in [1..n -> Range(queue)]
    BY <1>11, <2>1
  <2>3. QED
    BY <1>9, <2>2
<1>13. \A r \in Range(queue) : r.source \in world.explicit /\ r = Request(r.source, NoRef, FALSE)
  BY <1>9, <1>11 DEF Range, Request
<1>14. QueueInv
  BY <1>3, <1>12, <1>13 DEF QueueInv, IsRequest, Later
<1>15. ExplicitInv
  <2> SUFFICES ASSUME NEW s \in world.explicit
               PROVE  Request(s, NoRef, FALSE) \in Range(queue)
    BY DEF ExplicitInv
  <2>1. PICK i \in 1..n : sources[i] = s
    BY <1>9
  <2>2. QED
    BY <1>11, <2>1 DEF Range
<1>16. CallsInv /\ ItemInv /\ FitsInv
  BY <1>3, <1>6 DEF CallsInv, ItemInv, FitsInv, Reading, Later
<1>17. QED
  BY <1>2, <1>5, <1>7, <1>8, <1>14, <1>15, <1>16 DEF GraphInv, ShapeInv, WorkInv

-----------------------------------------------------------------------------
(* Steps that leave the graph alone.                                       *)
LEMMA SameShape ==
  ASSUME ShapeInv, UNCHANGED <<world, graph>>
  PROVE  ShapeInv' /\ Kept /\ Calls' = Calls /\ Registered' = Registered /\ \A ref : SourcesFor(ref)' = SourcesFor(ref)
<1>1. world' = world /\ docs' = docs /\ bound' = bound /\ pending' = pending
  BY DEF graph
<1>2. Kept
  BY <1>1 DEF Kept
<1>3. Refs' = Refs /\ Calls' = Calls /\ Registered' = Registered /\ \A ref : SourcesFor(ref)' = SourcesFor(ref)
  BY <1>1 DEF Refs, Calls, RefOf, Registered, SourcesFor
<1>4. \A key : IsDoc(key)' <=> IsDoc(key)
  BY <1>1 DEF IsDoc, HasData, KeyOf
<1>5. \A s, ref : AnswerTo(s, ref)' = AnswerTo(s, ref)
  BY <1>1 DEF AnswerTo, RefOf
<1>6. DocsInv'
  BY <1>1, <1>4 DEF ShapeInv, DocsInv
<1>7. BoundInv'
  BY <1>1, <1>3, <1>5 DEF ShapeInv, BoundInv, TargetOf
<1>8. PendingInv'
  BY <1>1, <1>3, <1>5 DEF ShapeInv, PendingInv
<1>9. QED
  BY <1>1, <1>2, <1>3, <1>6, <1>7, <1>8 DEF ShapeInv

(* The request at hand is still at hand, or is done.                       *)
LEMMA SameWork ==
  ASSUME GraphInv, UNCHANGED <<world, graph, queue, item>>, pc \notin Failures,
         pc = "resolve" => pc' = "resolve" \/ Settled(item.source, item.ref),
         pc \in Reading => pc' \in Reading \/ (~HasData(item.source) /\ item.ref # NoRef),
         pc' = "resolve" => pc = "resolve",
         pc' \in Reading => pc \in Reading,
         pc' \in {"read", "close"} => HasData(item.source),
         pc' = "close" => got'.error # "missing",
         pc' = "acquired" =>
           (got'.error = "missing" => ~HasData(item.source)) /\ (got'.error = "" => HasData(item.source)),
         pc' \in Later => queue = <<>> /\ \A ref \in Edges : Fits(ref, docs[bound[ref]].content)
  PROVE  GraphInv'
<1>1. ShapeInv /\ WorkInv
  BY DEF GraphInv
<1>2. world' = world /\ docs' = docs /\ bound' = bound /\ pending' = pending /\ queue' = queue /\ item' = item
  BY DEF graph
<1>3. /\ ShapeInv' /\ Kept /\ Calls' = Calls /\ Registered' = Registered
      /\ \A ref : SourcesFor(ref)' = SourcesFor(ref)
  BY <1>1, SameShape
<1>4. \A r : IsCall(r)' <=> IsCall(r)
  BY <1>3 DEF IsCall
<1>5. ItemInv'
  <2>1. pc' = "resolve" => IsCall(item)
    BY <1>1 DEF WorkInv, ItemInv
  <2>2. pc' \in Reading => IsRead(item)
    BY <1>1 DEF WorkInv, ItemInv
  <2>3. IsCall(item)' <=> IsCall(item)
    BY <1>2, <1>3 DEF IsCall
  <2>4. IsRead(item)' <=> IsRead(item)
    BY <1>2, <1>3 DEF IsRead, KeyOf
  <2>5. HasData(item.source)' <=> HasData(item.source)
    BY <1>2 DEF HasData
  <2> HIDE DEF IsCall, IsRead, HasData
  <2>6. QED
    BY <2>1, <2>2, <2>3, <2>4, <2>5 DEF ItemInv, Reading
<1>6. QueueInv'
  <2>1. QueueInv
    BY <1>1 DEF WorkInv
  <2>2. QED
    BY <1>2, <1>4, <2>1 DEF QueueInv, IsRequest, Later
<1>7. \A t : IsKnown(t) => IsKnown(t)'
  BY <1>2, <1>3 DEF IsKnown, HasData
<1>8. CallsInv'
  <2> SUFFICES ASSUME NEW ref \in Calls, NEW s \in SourcesFor(ref)
               PROVE  \/ Request(s, ref, TRUE) \in Range(queue)
                      \/ pc' = "resolve" /\ item = Request(s, ref, TRUE)
                      \/ Settled(s, ref)'
    BY <1>2, <1>3 DEF CallsInv
  <2>1. \/ Request(s, ref, TRUE) \in Range(queue)
        \/ pc = "resolve" /\ item = Request(s, ref, TRUE)
        \/ Settled(s, ref)
    BY <1>1 DEF WorkInv, CallsInv
  <2>2. Settled(s, ref) => Settled(s, ref)'
    BY <1>1, <1>2, <1>3, <1>7, SettledKept
  <2>3. item = Request(s, ref, TRUE) => item.source = s /\ item.ref = ref
    BY ONLY RequestParts
  <2> HIDE DEF Settled
  <2>4. QED
    BY <2>1, <2>2, <2>3
<1>9. ExplicitInv'
  <2> SUFFICES ASSUME NEW s \in world.explicit
               PROVE  \/ Request(s, NoRef, FALSE) \in Range(queue)
                      \/ pc' \in Reading /\ item = Request(s, NoRef, FALSE)
                      \/ s \in Registered
    BY <1>2, <1>3 DEF ExplicitInv, Reading
  <2>1. item = Request(s, NoRef, FALSE) => item.ref = NoRef
    BY ONLY RequestParts
  <2>2. QED
    BY <1>1, <2>1 DEF WorkInv, ExplicitInv
<1>10. FitsInv'
  BY <1>2 DEF FitsInv, Later, Edges, Fits, RefOf, Loaded
<1>11. QED
  BY <1>3, <1>5, <1>6, <1>8, <1>9, <1>10 DEF GraphInv, WorkInv

(* A compilation that stops leaves the graph as it is.                     *)
LEMMA StopGraph ==
  ASSUME GraphInv, UNCHANGED <<world, graph>>, pc' \in Failures
  PROVE  GraphInv'
BY SameShape DEF GraphInv

(* A step to a failure, whatever the step.                                 *)
LEMMA StopKeeps ==
  ASSUME GraphInv, NEW failure \in Failures, Stop(failure)
  PROVE  GraphInv'
<1>1. UNCHANGED <<world, graph>> /\ pc' \in Failures
  BY DEF Stop, Goto
<1>2. QED
  BY <1>1, StopGraph

(* The context can be done at any time.                                    *)
LEMMA CancelGraph ==
  ASSUME GraphInv, Cancel \/ StopCanceled
  PROVE  GraphInv'
<1>1. CASE StopCanceled
  BY <1>1, StopKeeps DEF StopCanceled, Failures
<1>2. CASE Cancel
  <2>1. UNCHANGED <<world, graph, queue, item>> /\ pc' = pc /\ got' = got /\ pc \notin Ended
    BY <1>2 DEF Cancel
  <2>2. WorkInv /\ pc \notin Failures
    BY <2>1 DEF GraphInv, Ended
  <2>3. /\ pc' = "resolve" => pc = "resolve"
        /\ pc' \in {"read", "close"} => HasData(item.source)
        /\ pc' = "close" => got'.error # "missing"
        /\ pc' = "acquired" =>
             (got'.error = "missing" => ~HasData(item.source)) /\ (got'.error = "" => HasData(item.source))
        /\ pc' \in Later => queue = <<>> /\ \A ref \in Edges : Fits(ref, docs[bound[ref]].content)
    BY <2>1, <2>2 DEF WorkInv, ItemInv, QueueInv, FitsInv
  <2>4. QED
    BY <2>1, <2>2, <2>3, SameWork
<1>3. QED
  BY <1>1, <1>2

(* What a source was found to be.                                          *)
LEMMA AcquiredParts ==
  ASSUME NEW bytes, NEW error, Acquired(bytes, error)
  PROVE  pc' = "acquired" /\ got'.error = error
BY DEF Acquired, Goto

(* Opening, reading and closing a source.                                  *)
LEMMA AcquireGraph ==
  ASSUME GraphInv, Acquire
  PROVE  GraphInv'
<1>1. UNCHANGED <<world, graph, queue, item>>
  BY DEF Acquire, OpenBytes, OpenFails, OpenReader, CloseRefused, Read, Close, Acquired
<1>2. pc \in {"open", "refused", "read", "close"}
  BY DEF Acquire, OpenBytes, OpenFails, OpenReader, CloseRefused, Read, Close, Running
<1>3. WorkInv /\ ShapeInv /\ pc \notin Failures
  BY <1>2 DEF GraphInv, Failures
<1>4. IsRead(item)
  BY <1>2, <1>3 DEF WorkInv, ItemInv, Reading
<1>5. item.source \in world.bytes => HasData(item.source)
  BY <1>3, <1>4 DEF IsRead, ShapeInv, IsWorld, HasData
<1>6. \/ pc' = "read" /\ HasData(item.source)
      \/ pc' = "refused"
      \/ pc' = "close" /\ HasData(item.source) /\ got'.error # "missing"
      \/ /\ pc' = "acquired"
         /\ got'.error = "missing" => ~HasData(item.source)
         /\ got'.error = "" => HasData(item.source)
  <2>0. \A bytes, error :
          /\ Acquired(bytes, error)
          /\ error = "missing" => ~HasData(item.source)
          /\ error = "" => HasData(item.source)
          => /\ pc' = "acquired"
             /\ got'.error = "missing" => ~HasData(item.source)
             /\ got'.error = "" => HasData(item.source)
    BY AcquiredParts
  <2>1. CASE OpenBytes
    <3>1. Acquired(0, "limit") \/ Acquired(Data.size, "")
      BY <2>1 DEF OpenBytes
    <3>2. item.source \in world.bytes
      BY <2>1 DEF OpenBytes
    <3>3. QED
      BY <1>5, <2>0, <3>1, <3>2
  <2>2. CASE OpenFails
    <3>1. Acquired(0, "read") \/ (~HasData(item.source) /\ Acquired(0, "missing"))
      BY <2>2 DEF OpenFails, Data, HasData
    <3>2. QED
      BY <2>0, <3>1
  <2>3. CASE OpenReader
    BY <2>3 DEF OpenReader, Goto, Data, HasData
  <2>4. CASE CloseRefused
    <3>1. Acquired(0, "read") \/ (~HasData(item.source) /\ Acquired(0, "missing"))
      BY <2>4 DEF CloseRefused, Data, HasData
    <3>2. QED
      BY <2>0, <3>1
  <2>5. CASE Read
    <3>1. HasData(item.source)
      BY <1>3, <2>5 DEF Read, WorkInv, ItemInv
    <3>2. PICK bytes \in {n \in 0..Data.size : n <= ReadLimit + 1} :
            got' \in {[bytes |-> bytes, error |-> e] :
                        e \in IF bytes > ReadLimit THEN {"limit"}
                              ELSE {"read"} \union (IF bytes = Data.size /\ ~canceled THEN {""} ELSE {})}
      BY <2>5 DEF Read
    <3>3. PICK e \in {"limit", "read", ""} : got' = [bytes |-> bytes, error |-> e]
      BY <3>2
    <3>4. got'.error = e
      BY ONLY <3>3
    <3>5. pc' = "close"
      BY <2>5 DEF Read, Goto
    <3>6. QED
      BY <3>1, <3>3, <3>4, <3>5
  <2>6. CASE Close
    <3>1. HasData(item.source) /\ got.error # "missing"
      BY <1>3, <2>6 DEF Close, WorkInv, ItemInv
    <3>2. Acquired(got.bytes, got.error) \/ Acquired(got.bytes, "read")
      BY <2>6 DEF Close
    <3>3. QED
      BY <2>0, <3>1, <3>2
  <2>7. QED
    BY <2>1, <2>2, <2>3, <2>4, <2>5, <2>6 DEF Acquire
<1>7. /\ pc # "resolve" /\ pc \in Reading /\ pc' \in Reading /\ pc' \notin Later /\ pc' # "resolve"
      /\ pc' \in {"read", "close"} => HasData(item.source)
      /\ pc' = "close" => got'.error # "missing"
      /\ pc' = "acquired" =>
           (got'.error = "missing" => ~HasData(item.source)) /\ (got'.error = "" => HasData(item.source))
  BY <1>2, <1>6 DEF Reading, Later
<1>8. QED
  BY <1>1, <1>3, <1>7, SameWork

(* What is read is refused, or skipped as there is nothing to read.        *)
LEMMA ReadGraph ==
  ASSUME GraphInv, AcquireFails \/ SkipAbsent \/ LoadRejected \/ RepeatRejected
  PROVE  GraphInv'
<1>1. CASE AcquireFails
  BY <1>1, StopKeeps DEF AcquireFails, Failures
<1>2. CASE LoadRejected
  BY <1>2, StopKeeps DEF LoadRejected, LoadFailure, Failures
<1>3. CASE RepeatRejected
  BY <1>3, StopKeeps DEF RepeatRejected, RepeatFailure, Failures
<1>4. CASE SkipAbsent
  <2>1. UNCHANGED <<world, graph, queue, item>> /\ pc' = "take" /\ pc = "acquired" /\ got.error = "missing" /\ item.ref # NoRef
    BY <1>4 DEF SkipAbsent, Goto, Running, Absent, Optional
  <2>2. WorkInv /\ pc \notin Failures
    BY <2>1 DEF GraphInv, Failures
  <2>3. ~HasData(item.source)
    BY <2>1, <2>2 DEF WorkInv, ItemInv
  <2>4. QED
    BY <2>1, <2>2, <2>3, SameWork DEF Reading, Later
<1>5. QED
  BY <1>1, <1>2, <1>3, <1>4

(* The whole set is checked, and then its contexts are found.              *)
LEMMA TargetsGraph ==
  ASSUME GraphInv, CheckTargets \/ SeedAlone \/ Seed \/ Propagate \/ Fallback
  PROVE  GraphInv'
<1>1. \/ pc' = "limit" /\ UNCHANGED <<world, graph>>
      \/ pc' = "reference" /\ UNCHANGED <<world, graph>>
      \/ /\ UNCHANGED <<world, graph, queue, item>> /\ pc' \in Later /\ pc \in {"take", "seed", "propagate"}
         /\ pc \in Later \/ (queue = <<>> /\ \A ref \in Edges : Fits(ref, docs[bound[ref]].content))
  <2>1. CASE CheckTargets
    BY <2>1 DEF CheckTargets, Stop, Goto, Running, Later
  <2>2. CASE SeedAlone
    BY <2>2 DEF SeedAlone, Stop, Goto, Running, Later
  <2>3. ASSUME NEW more, NEW label \in {"propagate", "loaded"}, NEW following,
               AddOrStop(more, label, following), pc \in {"seed", "propagate"}
        PROVE  \/ pc' = "limit" /\ UNCHANGED <<world, graph>>
               \/ UNCHANGED <<world, graph, queue, item>> /\ pc' \in Later
    BY <2>3 DEF AddOrStop, Stop, Goto, Later
  <2>4. \A more, following : \A label \in {"propagate", "loaded"} :
          AddOrStop(more, label, following) /\ pc \in {"seed", "propagate"} =>
            \/ pc' = "limit" /\ UNCHANGED <<world, graph>>
            \/ UNCHANGED <<world, graph, queue, item>> /\ pc' \in Later
    BY <2>3
  <2>5. CASE Seed
    BY <2>4, <2>5 DEF Seed, Running, Later
  <2>6. CASE Propagate
    BY <2>4, <2>6 DEF Propagate, Running, Later
  <2>7. CASE Fallback
    BY <2>4, <2>7 DEF Fallback, Running, Later
  <2>8. QED
    BY <2>1, <2>2, <2>5, <2>6, <2>7
<1>2. CASE pc' \in {"limit", "reference"} /\ UNCHANGED <<world, graph>>
  BY <1>2, StopGraph DEF Failures
<1>3. CASE /\ UNCHANGED <<world, graph, queue, item>> /\ pc' \in Later /\ pc \in {"take", "seed", "propagate"}
           /\ pc \in Later \/ (queue = <<>> /\ \A ref \in Edges : Fits(ref, docs[bound[ref]].content))
  <2>1. WorkInv /\ pc \notin Failures
    BY <1>3 DEF GraphInv, Failures
  <2>2. queue = <<>> /\ \A ref \in Edges : Fits(ref, docs[bound[ref]].content)
    BY <1>3, <2>1 DEF WorkInv, QueueInv, FitsInv
  <2>3. pc \notin Reading /\ pc # "resolve" /\ pc' \notin Reading /\ pc' # "resolve" /\ pc' \notin {"read", "close", "acquired"}
    BY <1>3 DEF Reading, Later
  <2>4. QED
    BY <1>3, <2>1, <2>2, <2>3, SameWork
<1>4. QED
  BY <1>1, <1>2, <1>3

(* The first request and the others.                                       *)
LEMMA HeadAndTail ==
  ASSUME queue # <<>>, queue \in Seq(Range(queue))
  PROVE  /\ Tail(queue) \in Seq(Range(queue)) /\ Head(queue) \in Range(queue)
         /\ Range(queue) = {Head(queue)} \union Range(Tail(queue))
<1>1. Len(queue) \in Nat \ {0} /\ DOMAIN queue = 1..Len(queue)
  BY EmptySeq, LenProperties
<1>2. Tail(queue) \in Seq(Range(queue)) /\ Head(queue) = queue[1]
  BY <1>1
<1>3. /\ Len(Tail(queue)) = Len(queue) - 1 /\ DOMAIN Tail(queue) = 1..(Len(queue) - 1)
      /\ \A i \in 1..(Len(queue) - 1) : Tail(queue)[i] = queue[i + 1]
  OBVIOUS
<1>4. \A i \in DOMAIN queue : i = 1 \/ (i - 1 \in DOMAIN Tail(queue) /\ queue[i] = Tail(queue)[i - 1])
  BY <1>1, <1>3
<1>5. \A i \in DOMAIN Tail(queue) : i + 1 \in DOMAIN queue /\ Tail(queue)[i] = queue[i + 1]
  BY <1>1, <1>3
<1>6. \A i \in DOMAIN queue : queue[i] = Head(queue) \/ queue[i] \in Range(Tail(queue))
  BY <1>2, <1>4 DEF Range
<1>7. \A i \in DOMAIN Tail(queue) : Tail(queue)[i] \in Range(queue)
  BY <1>5 DEF Range
<1>8. Head(queue) \in Range(queue)
  BY <1>1, <1>2 DEF Range
<1>9. Range(queue) \subseteq {Head(queue)} \union Range(Tail(queue))
  BY <1>6 DEF Range
<1>10. Range(Tail(queue)) \subseteq Range(queue)
  BY <1>7 DEF Range
<1>11. QED
  BY <1>2, <1>8, <1>9, <1>10

(* The next request is at hand.                                            *)
LEMMA TakeGraph ==
  ASSUME GraphInv, Take
  PROVE  GraphInv'
<1>1. /\ pc = "take" /\ queue # <<>> /\ item' = Head(queue) /\ queue' = Tail(queue)
      /\ pc' = IF item'.resolve THEN "resolve" ELSE "open"
      /\ UNCHANGED <<world, graph, got>>
  BY DEF Take, Running, Goto
<1>2. ShapeInv /\ WorkInv
  BY <1>1 DEF GraphInv, Failures
<1>3. world' = world /\ docs' = docs /\ bound' = bound /\ pending' = pending
  BY <1>1 DEF graph
<1>4. /\ ShapeInv' /\ Kept /\ Calls' = Calls /\ Registered' = Registered
      /\ \A ref : SourcesFor(ref)' = SourcesFor(ref)
  BY <1>1, <1>2, SameShape
<1>5. queue \in Seq(Range(queue)) /\ \A r \in Range(queue) : IsRequest(r)
  BY <1>2 DEF WorkInv, QueueInv
<1>6. /\ Tail(queue) \in Seq(Range(queue)) /\ Head(queue) \in Range(queue)
      /\ Range(queue) = {Head(queue)} \union Range(Tail(queue))
  BY <1>1, <1>5, HeadAndTail
<1>7. Tail(queue) \in Seq(Range(Tail(queue)))
  BY <1>6, SeqOfRange
<1>8. \A r : IsRequest(r)' <=> IsRequest(r)
  BY <1>3, <1>4 DEF IsRequest, IsCall, Request
<1>9. IsRequest(item')
  BY <1>1, <1>5, <1>6
<1>10. (IF item'.resolve THEN IsCall(item') ELSE item'.source \in world.explicit /\ item' = Request(item'.source, NoRef, FALSE))
  BY <1>9 DEF IsRequest, IsCall, Request
<1>11. ItemInv'
  <2>1. CASE item'.resolve
    BY <1>1, <1>4, <1>10, <2>1 DEF ItemInv, IsCall, Request, Reading
  <2>2. CASE ~item'.resolve
    <3>1. item'.source \in DOMAIN world.data
      BY <1>2, <1>10, <2>2 DEF ShapeInv, IsWorld
    <3>2. IsRead(item)'
      BY <1>3, <1>10, <2>2, <3>1 DEF IsRead, Request
    <3>3. QED
      BY <1>1, <2>2, <3>2 DEF ItemInv
  <2>3. QED
    BY <2>1, <2>2
<1>12. QueueInv'
  BY <1>1, <1>5, <1>6, <1>7, <1>8 DEF QueueInv, Later
<1>13. \A t : IsKnown(t) => IsKnown(t)'
  BY <1>1, <1>3, <1>4 DEF IsKnown, HasData, Reading
<1>14. CallsInv'
  <2> SUFFICES ASSUME NEW ref \in Calls, NEW s \in SourcesFor(ref)
               PROVE  \/ Request(s, ref, TRUE) \in Range(queue')
                      \/ pc' = "resolve" /\ item' = Request(s, ref, TRUE)
                      \/ Settled(s, ref)'
    BY <1>3, <1>4 DEF CallsInv, Request
  <2>1. Request(s, ref, TRUE) \in Range(queue) \/ Settled(s, ref)
    BY <1>1, <1>2 DEF WorkInv, CallsInv
  <2>2. Settled(s, ref) => Settled(s, ref)'
    BY <1>2, <1>3, <1>4, <1>13, SettledKept
  <2>3. Request(s, ref, TRUE).resolve
    BY DEF Request
  <2> HIDE DEF Settled
  <2>4. QED
    BY <1>1, <1>6, <2>1, <2>2, <2>3
<1>15. ExplicitInv'
  <2> SUFFICES ASSUME NEW s \in world.explicit
               PROVE  \/ Request(s, NoRef, FALSE) \in Range(queue')
                      \/ pc' \in Reading /\ item' = Request(s, NoRef, FALSE)
                      \/ s \in Registered
    BY <1>3, <1>4 DEF ExplicitInv, Reading, Request, NoRef
  <2>1. Request(s, NoRef, FALSE) \in Range(queue) \/ s \in Registered
    BY <1>1, <1>2 DEF WorkInv, ExplicitInv, Reading
  <2>2. ~Request(s, NoRef, FALSE).resolve
    BY DEF Request
  <2>3. QED
    BY <1>1, <1>6, <2>1, <2>2 DEF Reading
<1>16. FitsInv'
  BY <1>1 DEF FitsInv, Later
<1>17. QED
  BY <1>4, <1>11, <1>12, <1>14, <1>15, <1>16 DEF GraphInv, WorkInv

-----------------------------------------------------------------------------
(* A reference is resolved.                                                *)

(* What depends on the documents and not on what references are bound to.  *)
LEMMA SameDocs ==
  ASSUME ShapeInv, UNCHANGED <<world, docs>>, DOMAIN bound' = DOMAIN bound
  PROVE  /\ DocsInv' /\ Refs' = Refs /\ Calls' = Calls /\ Registered' = Registered
         /\ \A ref : SourcesFor(ref)' = SourcesFor(ref)
         /\ \A s, ref : AnswerTo(s, ref)' = AnswerTo(s, ref)
         /\ \A r : IsRequest(r)' <=> IsRequest(r)
<1>1. Refs' = Refs /\ Calls' = Calls /\ Registered' = Registered
  BY DEF Refs, Calls, RefOf, Registered
<1>2. \A ref : SourcesFor(ref)' = SourcesFor(ref)
  BY DEF SourcesFor
<1>3. \A s, ref : AnswerTo(s, ref)' = AnswerTo(s, ref)
  BY DEF AnswerTo, RefOf
<1>4. \A key : IsDoc(key)' <=> IsDoc(key)
  BY DEF IsDoc, HasData, KeyOf
<1>5. DocsInv'
  BY <1>4 DEF ShapeInv, DocsInv
<1>6. \A r : IsRequest(r)' <=> IsRequest(r)
  BY <1>1, <1>2 DEF IsRequest, IsCall, Request
<1>7. QED
  BY <1>1, <1>2, <1>3, <1>5, <1>6

(* The request at hand is done, or what it resolves to is read.            *)
LEMMA CallDone ==
  ASSUME GraphInv, pc = "resolve", UNCHANGED <<world, docs, queue>>, DOMAIN bound' = DOMAIN bound,
         ShapeInv', Kept, \A p \in pending : p \in pending',
         NEW ref0 \in Calls, NEW s0 \in SourcesFor(ref0), item = Request(s0, ref0, TRUE), Settled(s0, ref0)',
         pc' = "take" \/ (pc' = "open" /\ IsRead(item)')
  PROVE  GraphInv'
<1>1. ShapeInv /\ WorkInv
  BY DEF GraphInv, Failures
<1>2. /\ Calls' = Calls /\ Registered' = Registered
      /\ \A ref : SourcesFor(ref)' = SourcesFor(ref)
      /\ \A r : IsRequest(r)' <=> IsRequest(r)
  BY <1>1, SameDocs
<1>3. ItemInv'
  <2> HIDE DEF IsRead
  <2>1. pc' # "resolve" /\ pc' \notin {"read", "close"} /\ pc' # "close" /\ pc' # "acquired" /\ (pc' \in Reading => IsRead(item)')
    BY DEF Reading
  <2>2. QED
    BY <2>1 DEF ItemInv, Reading
<1>4. QueueInv'
  <2>1. pc' \notin Later /\ queue' = queue
    BY DEF Later
  <2>2. QED
    BY <1>1, <1>2, <2>1 DEF WorkInv, QueueInv, Later
<1>5. \A t : IsKnown(t) => IsKnown(t)'
  BY <1>2 DEF IsKnown, HasData, Reading
<1>6. CallsInv'
  <2> SUFFICES ASSUME NEW ref \in Calls, NEW s \in SourcesFor(ref)
               PROVE  Request(s, ref, TRUE) \in Range(queue) \/ Settled(s, ref)'
    BY <1>2 DEF CallsInv, Request
  <2>1. \/ Request(s, ref, TRUE) \in Range(queue)
        \/ item = Request(s, ref, TRUE)
        \/ Settled(s, ref)
    BY <1>1 DEF WorkInv, CallsInv
  <2>2. Settled(s, ref) => Settled(s, ref)'
    BY <1>1, <1>5, SettledKept
  <2>3. item = Request(s, ref, TRUE) => s = s0 /\ ref = ref0
    <3>1. item = Request(s0, ref0, TRUE)
      OBVIOUS
    <3>2. item.source = s0 /\ item.ref = ref0
      BY ONLY <3>1, RequestParts
    <3>3. item = Request(s, ref, TRUE) => item.source = s /\ item.ref = ref
      BY ONLY RequestParts
    <3>4. QED
      BY <3>2, <3>3
  <2> HIDE DEF Settled
  <2>4. QED
    BY <2>1, <2>2, <2>3
<1>7. ExplicitInv'
  BY <1>1, <1>2 DEF WorkInv, ExplicitInv, Reading, Request, NoRef
<1>8. FitsInv'
  BY DEF FitsInv, Later
<1>9. QED
  BY <1>3, <1>4, <1>6, <1>7, <1>8 DEF GraphInv, WorkInv

(* A reference that nothing was known of is bound.                         *)
Binds(ref, key) == bound' = [bound EXCEPT ![ref] = key]

(* ... and then it is bound to what the source at hand says.               *)
LEMMA BindShape ==
  ASSUME ShapeInv, UNCHANGED <<world, docs, pending>>,
         NEW ref \in Calls, NEW s \in SourcesFor(ref), NEW key, bound[ref] \in {NoKey, key},
         Binds(ref, key), TargetOf(AnswerTo(s, ref)) = key
  PROVE  ShapeInv' /\ Kept /\ DOMAIN bound' = DOMAIN bound /\ bound'[ref] = key
<1>1. ref \in DOMAIN bound /\ bound = [r \in Refs |-> bound[r]]
  BY DEF Calls, ShapeInv, BoundInv
<1>2. /\ DOMAIN bound' = DOMAIN bound /\ DOMAIN bound = Refs
      /\ \A r \in DOMAIN bound : bound'[r] = IF r = ref THEN key ELSE bound[r]
      /\ bound' = [r \in Refs |-> bound'[r]]
  BY <1>1 DEF Binds
<1>3. Kept
  BY <1>2 DEF Kept
<1>4. /\ DocsInv' /\ Refs' = Refs /\ Calls' = Calls
      /\ \A r : SourcesFor(r)' = SourcesFor(r)
      /\ \A t, r : AnswerTo(t, r)' = AnswerTo(t, r)
  BY <1>2, SameDocs
<1>5. BoundInv'
  <2> SUFFICES ASSUME NEW r \in Calls, bound'[r] # NoKey
               PROVE  \E t \in SourcesFor(r) : TargetOf(AnswerTo(t, r)) = bound'[r]
    BY <1>2, <1>4 DEF BoundInv, TargetOf
  <2>1. r \in DOMAIN bound
    BY DEF Calls
  <2>2. CASE r = ref
    BY <1>2, <2>1, <2>2
  <2>3. CASE r # ref
    BY <1>2, <2>1, <2>3 DEF ShapeInv, BoundInv
  <2>4. QED
    BY <2>2, <2>3
<1>6. PendingInv'
  BY <1>4 DEF ShapeInv, PendingInv
<1>7. IsWorld(world)'
  BY DEF ShapeInv
<1>8. QED
  BY <1>1, <1>2, <1>3, <1>4, <1>5, <1>6, <1>7 DEF ShapeInv

(* Resolving a reference settles it: it is bound, waits for a document of  *)
(* its identity, or its source is read next (resolveReference).            *)
LEMMA ResolveGraph ==
  ASSUME GraphInv, Resolve
  PROVE  GraphInv'
<1>1. pc = "resolve"
  BY DEF Resolve, ResolveFails, ResolveNothing, ResolveIdentity, ResolveSource, Running
<1>2. ShapeInv /\ WorkInv /\ pc \notin Failures
  BY <1>1 DEF GraphInv, Failures
<1>3. IsCall(item)
  BY <1>1, <1>2 DEF WorkInv, ItemInv
<1>4. PICK s, ref : s = item.source /\ ref = item.ref
  OBVIOUS
<1>5. ref \in Calls /\ s \in SourcesFor(ref) /\ item = Request(s, ref, TRUE)
  BY <1>3, <1>4 DEF IsCall
<1>6. PICK answer : answer = AnswerTo(s, ref)
  OBVIOUS
<1>7. Answer = answer
  BY <1>4, <1>6 DEF Answer, AnswerTo
<1>8. /\ answer.kind = "identity" => answer.key # NoKey
      /\ answer.kind = "source" => answer.source \in DOMAIN world.data /\ KeyOf(answer.source) \in STRING \ {NoKey}
  BY <1>2, <1>5, <1>6, AnswerFacts
<1>9. ref \in DOMAIN bound
  BY <1>5 DEF Calls
<1>10. CASE ResolveFails
  BY <1>10, StopKeeps DEF ResolveFails, Failures
<1>11. CASE ResolveNothing
  <2>1. UNCHANGED <<world, graph, queue, item>> /\ pc' = "take"
    BY <1>11 DEF ResolveNothing, Goto
  <2>2. answer.kind = "none" \/ (answer.kind = "identity" /\ bound[ref] = answer.key)
    BY <1>4, <1>7, <1>11 DEF ResolveNothing
  <2>3. Settled(s, ref)
    BY <1>6, <2>2 DEF Settled
  <2>4. QED
    BY <1>1, <1>2, <1>4, <2>1, <2>3, SameWork DEF Reading, Later
<1>12. CASE ResolveIdentity
  <2>1. answer.kind = "identity" /\ bound[ref] # answer.key
    BY <1>4, <1>7, <1>12 DEF ResolveIdentity
  <2>2. \/ Stop("reference")
        \/ /\ bound[ref] \in {NoKey, answer.key} /\ bound' = [bound EXCEPT ![ref] = answer.key]
           /\ pc' = "take" /\ UNCHANGED <<world, docs, queue, pending>>
        \/ /\ answer.key \notin DOMAIN docs /\ pending' = pending \union {<<answer.key, ref>>}
           /\ pc' = "take" /\ UNCHANGED <<world, docs, queue, bound>>
    BY <1>4, <1>7, <1>12 DEF ResolveIdentity, Bind, Conflicts, Goto, Loaded
  <2>3. CASE Stop("reference")
    BY <2>3, StopKeeps DEF Failures
  <2>4. CASE /\ bound[ref] \in {NoKey, answer.key} /\ bound' = [bound EXCEPT ![ref] = answer.key]
             /\ pc' = "take" /\ UNCHANGED <<world, docs, queue, pending>>
    <3>1. TargetOf(AnswerTo(s, ref)) = answer.key
      BY <1>6, <2>1 DEF TargetOf
    <3>2. ShapeInv' /\ Kept /\ DOMAIN bound' = DOMAIN bound /\ bound'[ref] = answer.key
      <4>1. UNCHANGED <<world, docs, pending>>
        BY <2>4
      <4>2. PICK key : key = answer.key
        OBVIOUS
      <4>3. TargetOf(AnswerTo(s, ref)) = key /\ bound[ref] \in {NoKey, key} /\ Binds(ref, key)
        BY <2>4, <3>1, <4>2 DEF Binds
      <4>4. QED
        BY <1>2, <1>5, <4>1, <4>2, <4>3, BindShape
    <3>3. AnswerTo(s, ref)' = answer
      BY <1>2, <1>5, <1>6, <3>2, RefKept
    <3>4. Settled(s, ref)'
      BY <2>1, <3>2, <3>3 DEF Settled
    <3> HIDE DEF Settled
    <3>5. QED
      BY <1>1, <1>5, <2>4, <3>2, <3>4, CallDone
  <2>5. CASE /\ answer.key \notin DOMAIN docs /\ pending' = pending \union {<<answer.key, ref>>}
             /\ pc' = "take" /\ UNCHANGED <<world, docs, queue, bound>>
    <3>1. /\ DocsInv' /\ Refs' = Refs /\ Calls' = Calls
          /\ \A r : SourcesFor(r)' = SourcesFor(r)
          /\ \A t, r : AnswerTo(t, r)' = AnswerTo(t, r)
      BY <1>2, <2>5, SameDocs
    <3>2. BoundInv'
      BY <1>2, <2>5, <3>1 DEF ShapeInv, BoundInv, TargetOf
    <3>3. PendingInv'
      <4>1. AnswerTo(s, ref)'.kind = "identity" /\ AnswerTo(s, ref)'.key = answer.key
        BY <1>6, <2>1, <3>1
      <4> SUFFICES ASSUME NEW p \in pending'
                   PROVE  /\ p = <<p[1], p[2]>> /\ p[1] \notin DOMAIN docs /\ p[2] \in Calls
                          /\ \E t \in SourcesFor(p[2]) : AnswerTo(t, p[2]).kind = "identity" /\ AnswerTo(t, p[2]).key = p[1]
        BY <2>5, <3>1 DEF PendingInv
      <4>2. CASE p \in pending
        BY <1>2, <4>2 DEF ShapeInv, PendingInv
      <4>3. CASE p = <<answer.key, ref>>
        BY <1>5, <1>6, <2>1, <2>5, <4>3
      <4>4. QED
        BY <2>5, <4>2, <4>3
    <3>4. ShapeInv' /\ Kept
      BY <1>2, <2>5, <3>1, <3>2, <3>3 DEF ShapeInv, Kept
    <3>5. Settled(s, ref)'
      <4>1. AnswerTo(s, ref)' = answer /\ <<answer.key, ref>> \in pending'
        BY <1>6, <2>5, <3>1
      <4>2. QED
        BY <2>1, <4>1 DEF Settled
    <3> HIDE DEF Settled
    <3>6. QED
      BY <1>1, <1>5, <2>5, <3>4, <3>5, CallDone
  <2>6. QED
    BY <2>2, <2>3, <2>4, <2>5
<1>13. CASE ResolveSource
  <2>1. answer.kind = "source"
    BY <1>7, <1>13 DEF ResolveSource
  <2>2. \/ Stop("reference") \/ Stop("limit")
        \/ /\ bound[ref] \in {NoKey, KeyOf(answer.source)} /\ bound' = [bound EXCEPT ![ref] = KeyOf(answer.source)]
           /\ item' = Request(answer.source, ref, FALSE)
           /\ pc' = "open" /\ UNCHANGED <<world, docs, queue, pending>>
    BY <1>4, <1>7, <1>13 DEF ResolveSource, Bind, Conflicts, Goto, KeyOf
  <2>3. CASE Stop("reference") \/ Stop("limit")
    BY <2>3, StopKeeps DEF Failures
  <2>4. CASE /\ bound[ref] \in {NoKey, KeyOf(answer.source)} /\ bound' = [bound EXCEPT ![ref] = KeyOf(answer.source)]
             /\ item' = Request(answer.source, ref, FALSE)
             /\ pc' = "open" /\ UNCHANGED <<world, docs, queue, pending>>
    <3>1. TargetOf(AnswerTo(s, ref)) = KeyOf(answer.source)
      BY <1>6, <2>1 DEF TargetOf, KeyOf
    <3>2. ShapeInv' /\ Kept /\ DOMAIN bound' = DOMAIN bound /\ bound'[ref] = KeyOf(answer.source)
      <4>1. UNCHANGED <<world, docs, pending>>
        BY <2>4
      <4>2. PICK key : key = KeyOf(answer.source)
        OBVIOUS
      <4>3. TargetOf(AnswerTo(s, ref)) = key /\ bound[ref] \in {NoKey, key} /\ Binds(ref, key)
        BY <2>4, <3>1, <4>2 DEF Binds
      <4>4. QED
        BY <1>2, <1>5, <4>1, <4>2, <4>3, BindShape
    <3>3. AnswerTo(s, ref)' = answer /\ ref \in Calls'
      BY <1>2, <1>5, <1>6, <3>2, RefKept
    <3>4. item'.source = answer.source /\ item'.ref = ref
      <4>1. item' = Request(answer.source, ref, FALSE)
        BY <2>4
      <4>2. QED
        BY ONLY <4>1 DEF Request
    <3>5. IsKnown(answer.source)'
      BY <2>4, <3>4 DEF IsKnown, Reading
    <3>6. Settled(s, ref)'
      BY <2>1, <3>2, <3>3, <3>5 DEF Settled, KeyOf
    <3>7. IsRead(item)'
      BY <1>8, <2>1, <2>4, <3>2, <3>3, <3>4 DEF IsRead, KeyOf, Request
    <3> HIDE DEF Settled, IsRead
    <3>8. QED
      BY <1>1, <1>5, <2>4, <3>2, <3>6, <3>7, CallDone
  <2>5. QED
    BY <2>2, <2>3, <2>4
<1>14. QED
  BY <1>10, <1>11, <1>12, <1>13 DEF Resolve

-----------------------------------------------------------------------------
(* A document is loaded, or another source of it is read.                  *)

(* The content of a loaded document is one a source can have.              *)
LEMMA ContentFacts ==
  ASSUME ShapeInv, NEW key \in DOMAIN docs
  PROVE  IsContent(docs[key].content)
<1>1. IsDoc(key) /\ IsWorld(world)
  BY DEF ShapeInv, DocsInv
<1>2. PICK s \in docs[key].sources : HasData(s)
  BY <1>1 DEF IsDoc
<1>3. s \in DOMAIN world.data /\ world.data[s] = docs[key].content /\ world.data[s] # Missing
  BY <1>1, <1>2 DEF IsDoc, HasData
<1>4. IsContent(world.data[s])
  BY <1>1, <1>3 DEF IsWorld
<1>5. QED
  BY <1>3, <1>4

Enqueued(source, key, refs) == {Request(source, <<key, i>>, TRUE) : i \in {j \in DOMAIN refs : Located(refs[j])}}

(* The references that name a location are asked for, each of them once.   *)
LEMMA EnqueueFacts ==
  ASSUME NEW key, NEW refs, refs \in Seq(References), queue \in Seq(Range(queue)), Enqueue(key, refs)
  PROVE  /\ queue' \in Seq(Range(queue'))
         /\ Range(queue') = Range(queue) \union Enqueued(item.source, key, refs)
<1> DEFINE S == {i \in DOMAIN refs : Located(refs[i])}
           rank == [i \in DOMAIN refs |-> i]
           located == Ascending(S, rank)
           n == Cardinality(S)
           P(j) == Request(item.source, <<key, located[j]>>, TRUE)
           more == [j \in DOMAIN located |-> P(j)]
<1>1. queue' = queue \o more
  BY DEF Enqueue
<1>2. DOMAIN refs = 1..Len(refs) /\ Len(refs) \in Nat
  OBVIOUS
<1>3. IsFiniteSet(S)
  <2>1. IsFiniteSet(1..Len(refs))
    BY <1>2, FS_Interval
  <2>2. S \in SUBSET (1..Len(refs))
    BY <1>2
  <2>3. QED
    BY <2>1, <2>2, FS_Subset
<1>4. (\A x \in S : rank[x] \in Nat) /\ (\A x, y \in S : rank[x] = rank[y] => x = y)
  BY <1>2
<1> HIDE DEF S, rank
<1>5. /\ n \in Nat /\ DOMAIN located = 1..n /\ located \in Seq(S) /\ Len(located) = n
      /\ \A x \in S : \E i \in 1..n : located[i] = x
  BY <1>3, <1>4, AscendingFacts
<1> HIDE DEF located, n
<1>6. \A j \in 1..n : located[j] \in S
  BY <1>5
<1>7. more = [j \in 1..n |-> P(j)]
  BY <1>5
<1> DEFINE E == Enqueued(item.source, key, refs)
<1>8. \A j \in 1..n : P(j) \in E
  BY <1>6 DEF Enqueued, S
<1>9. \A r \in E : \E j \in 1..n : P(j) = r
  BY <1>5 DEF Enqueued, S
<1> HIDE DEF P, E
<1>10. more \in [1..n -> E] /\ DOMAIN more = 1..n /\ \A j \in 1..n : more[j] = P(j)
  BY <1>7, <1>8
<1>11. more \in Seq(E)
  BY <1>5, <1>10
<1>12. Range(more) = E
  BY <1>8, <1>9, <1>10 DEF Range
<1> HIDE DEF more
<1> DEFINE T == Range(queue) \union E
<1>13. queue \in Seq(T) /\ more \in Seq(T)
  <2>1. Range(queue) \subseteq T /\ E \subseteq T
    OBVIOUS
  <2> HIDE DEF T
  <2>2. QED
    BY <1>11, <2>1, SeqMonotonic
<1>14. Range(queue \o more) = T
  BY <1>12, <1>13, RangeConcatenation
<1>15. queue \o more \in Seq(T)
  BY <1>13
<1> HIDE DEF T
<1>16. queue' \in Seq(Range(queue'))
  BY <1>1, <1>14, <1>15
<1>17. Range(queue') = T
  BY <1>1, <1>14
<1>18. QED
  BY <1>16, <1>17 DEF T, E

(* What was asked for is asked for, or done; so is what is new.            *)
LEMMA Returned ==
  ASSUME GraphInv, pc = "acquired", pc' = "take", ShapeInv', Kept,
         NEW s0, item.source = s0, s0 \in Registered' \/ ~HasData(s0),
         item.ref = NoRef => s0 \in Registered',
         \A p \in pending : p \in pending' \/ bound'[p[2]] = p[1],
         queue' \in Seq(Range(queue')), Range(queue) \subseteq Range(queue'),
         \A r \in Range(queue') : r \in Range(queue) \/ IsCall(r)',
         \A ref \in Calls' : \A s \in SourcesFor(ref)' :
           (ref \in Calls /\ s \in SourcesFor(ref)) \/ Request(s, ref, TRUE) \in Range(queue')
  PROVE  GraphInv'
<1>1. ShapeInv /\ WorkInv
  BY DEF GraphInv, Failures
<1>2. world' = world
  BY DEF Kept
<1>3. ItemInv'
  BY DEF ItemInv, Reading
<1>4. QueueInv'
  <2>1. \A r \in Range(queue) : IsRequest(r)'
    BY <1>1, RequestKept DEF WorkInv, QueueInv
  <2>2. \A r \in Range(queue') : IsRequest(r)'
    BY <2>1 DEF IsRequest
  <2> HIDE DEF IsRequest
  <2>3. QED
    BY <2>2 DEF QueueInv, Later
<1>5. \A t : IsKnown(t) => IsKnown(t)'
  BY <1>2, RegisteredKept DEF IsKnown, HasData
<1>6. CallsInv'
  <2> SUFFICES ASSUME NEW ref \in Calls', NEW s \in SourcesFor(ref)'
               PROVE  Request(s, ref, TRUE) \in Range(queue') \/ Settled(s, ref)'
    BY DEF CallsInv, Request
  <2>1. CASE Request(s, ref, TRUE) \in Range(queue')
    BY <2>1
  <2>2. CASE ref \in Calls /\ s \in SourcesFor(ref)
    <3>1. Request(s, ref, TRUE) \in Range(queue) \/ Settled(s, ref)
      BY <1>1, <2>2 DEF WorkInv, CallsInv
    <3>2. Settled(s, ref) => Settled(s, ref)'
      BY <1>1, <1>5, <2>2, SettledKept
    <3> HIDE DEF Settled
    <3>3. QED
      BY <3>1, <3>2
  <2>3. QED
    BY <2>1, <2>2
<1>7. ExplicitInv'
  <2> SUFFICES ASSUME NEW s \in world.explicit
               PROVE  Request(s, NoRef, FALSE) \in Range(queue') \/ s \in Registered'
    BY <1>2 DEF ExplicitInv, Request, NoRef
  <2>1. \/ Request(s, NoRef, FALSE) \in Range(queue)
        \/ item = Request(s, NoRef, FALSE)
        \/ s \in Registered
    BY <1>1 DEF WorkInv, ExplicitInv
  <2>2. item = Request(s, NoRef, FALSE) => item.source = s /\ item.ref = NoRef
    BY ONLY RequestParts
  <2>3. QED
    BY <2>1, <2>2, RegisteredKept
<1>8. FitsInv'
  BY DEF FitsInv, Later
<1>9. QED
  BY <1>3, <1>4, <1>6, <1>7, <1>8 DEF GraphInv, WorkInv

(* A new document: what waited for it is bound, and its references are     *)
(* asked for (readLoaded, bindPendingReferences, enqueueReferences).       *)
LEMMA LoadGraph ==
  ASSUME GraphInv, Load
  PROVE  GraphInv' /\ Kept /\ Range(queue) \subseteq Range(queue')
<1>1. PICK s0, key, data : s0 = item.source /\ key = ItemKey /\ data = Data
  OBVIOUS
<1>2. /\ pc = "acquired" /\ pc' = "take" /\ world' = world /\ item' = item
      /\ got.error = "" /\ key \notin DOMAIN docs
  BY <1>1 DEF Load, Usable, Running, Goto, Loaded
<1>3. ShapeInv /\ WorkInv
  BY <1>2 DEF GraphInv, Failures
<1>4. IsRead(item) /\ HasData(s0)
  BY <1>1, <1>2, <1>3 DEF WorkInv, ItemInv, Reading
<1>5. s0 \in DOMAIN world.data /\ data = world.data[s0] /\ data # Missing /\ key = KeyOf(s0)
  BY <1>1, <1>4 DEF IsRead, Data, ItemKey, KeyOf, HasData
<1>6. s0.name \in DOMAIN Rank /\ IsContent(data)
  BY <1>3, <1>5 DEF ShapeInv, IsWorld
<1>7. key \in STRING \ {NoKey}
  BY <1>5, <1>6, NamesAssumption DEF KeyOf, NoKey
<1>8. data.refs \in Seq(References)
  BY <1>6 DEF IsContent
<1> DEFINE doc == [name |-> s0.name, content |-> data, sources |-> {s0}, explicitRoot |-> ~Optional]
<1>9. docs' = [k \in DOMAIN docs \union {key} |-> IF k # key THEN docs[k] ELSE doc]
  BY <1>1 DEF Load
<1>10. /\ DOMAIN docs' = DOMAIN docs \union {key} /\ docs'[key] = doc
       /\ \A k \in DOMAIN docs : k # key /\ docs'[k] = docs[k]
  BY <1>2, <1>9
<1>11. DocsInv'
  <2>1. IsFiniteSet(DOMAIN docs')
    BY <1>3, <1>10, FS_AddElement DEF ShapeInv, DocsInv
  <2>2. IsDoc(key)'
    <3>1. IsFiniteSet({s0})
      BY FS_Singleton
    <3>2. HasData(s0)'
      BY <1>2, <1>4 DEF HasData
    <3>3. /\ doc = [name |-> doc.name, content |-> doc.content, sources |-> doc.sources, explicitRoot |-> doc.explicitRoot]
          /\ doc.name = s0.name /\ doc.sources = {s0} /\ doc.content = data
      OBVIOUS
    <3> HIDE DEF doc
    <3>4. PICK d : d = docs'[key]
      OBVIOUS
    <3>5. /\ d = [name |-> d.name, content |-> d.content, sources |-> d.sources, explicitRoot |-> d.explicitRoot]
          /\ d.name = s0.name /\ d.sources = {s0} /\ d.content = data
      BY <1>10, <3>3, <3>4
    <3>6. /\ d.name \in DOMAIN Rank /\ Key[d.name] = key /\ IsFiniteSet(d.sources)
          /\ \A s \in d.sources : s \in DOMAIN world'.data /\ KeyOf(s) = key /\ world'.data[s] = d.content
          /\ s0 \in d.sources
      BY <1>2, <1>5, <1>6, <3>1, <3>5 DEF KeyOf
    <3>7. QED
      BY <1>7, <3>2, <3>4, <3>5, <3>6 DEF IsDoc, KeyOf
  <2>3. \A k \in DOMAIN docs : IsDoc(k)'
    <3> SUFFICES ASSUME NEW k \in DOMAIN docs
                 PROVE  IsDoc(k)'
      OBVIOUS
    <3>1. IsDoc(k)
      BY <1>3 DEF ShapeInv, DocsInv
    <3>2. docs'[k] = docs[k]
      BY <1>10
    <3> HIDE DEF doc
    <3>3. QED
      BY <1>2, <3>1, <3>2 DEF IsDoc, HasData, KeyOf
  <2>4. QED
    BY <1>10, <2>1, <2>2, <2>3 DEF DocsInv
<1>12. doc.sources = {s0} /\ doc.content = data
  OBVIOUS
<1> HIDE DEF doc
<1> DEFINE new == {key} \X DOMAIN data.refs
           W == Waiting(key)
<1>13. /\ DOMAIN bound = Refs /\ Refs' = Refs \union new
  <2>1. DOMAIN bound = Refs
    BY <1>3 DEF ShapeInv, BoundInv
  <2>2. Refs' = UNION {{k} \X DOMAIN docs'[k].content.refs : k \in DOMAIN docs'}
    BY DEF Refs
  <2>3. \A k \in DOMAIN docs : docs'[k].content = docs[k].content
    BY <1>10
  <2>4. docs'[key].content = data
    BY <1>10, <1>12
  <2>5. Refs' \subseteq Refs \union new
    BY <1>10, <2>2, <2>3, <2>4 DEF Refs
  <2>6. Refs \union new \subseteq Refs'
    BY <1>10, <2>2, <2>3, <2>4 DEF Refs
  <2>7. QED
    BY <2>1, <2>5, <2>6
<1>14. \A ref \in new : ref[1] = key /\ ref = <<key, ref[2]>> /\ ref[2] \in DOMAIN data.refs
  OBVIOUS
<1>15. \A ref \in DOMAIN bound : ref[1] \in DOMAIN docs /\ ref \notin new
  BY <1>2, <1>3, <1>14, CallFacts
<1>16. \A p \in pending : p = <<p[1], p[2]>> /\ p[1] \notin DOMAIN docs /\ p[2] \in Calls
  BY <1>3 DEF ShapeInv, PendingInv
<1>17. W \subseteq Calls /\ Calls \subseteq DOMAIN bound
  BY <1>16 DEF Waiting, Calls
<1>18. \A ref \in W : bound[ref] \in {NoKey, key}
  <2>1. ~WaitingInVain(key, data)
    BY <1>1 DEF Load, LoadFailure
  <2>2. QED
    BY <2>1 DEF WaitingInVain, Conflicts
<1>19. /\ DOMAIN bound' = Refs \union new
       /\ bound' = [ref \in Refs' |-> bound'[ref]]
       /\ \A ref \in DOMAIN bound : bound'[ref] = IF ref \in W THEN key ELSE bound[ref]
       /\ \A ref \in new : bound'[ref] = NoKey
  <2>1. bound' = BoundBy(key)
    BY <1>1 DEF Load
  <2> DEFINE B(ref) == IF ref \in W THEN key ELSE IF ref \in DOMAIN bound THEN bound[ref] ELSE NoKey
  <2>2. bound' = [ref \in DOMAIN bound \union new |-> B(ref)]
    BY <1>1, <2>1 DEF BoundBy
  <2> HIDE DEF W, new
  <2>3. DOMAIN bound' = DOMAIN bound \union new /\ \A ref \in DOMAIN bound \union new : bound'[ref] = B(ref)
    BY <2>2
  <2>4. bound' = [ref \in DOMAIN bound \union new |-> bound'[ref]]
    BY <2>2
  <2>5. \A ref \in new : ref \notin DOMAIN bound /\ ref \notin W
    BY <1>15, <1>17
  <2>6. QED
    BY <1>13, <2>3, <2>4, <2>5
<1>20. Kept
  <2>1. \A k \in DOMAIN docs : k \in DOMAIN docs' /\ docs'[k] = docs[k]
    BY <1>10
  <2>2. \A ref \in DOMAIN bound : ref \in DOMAIN bound' /\ (bound[ref] # NoKey => bound'[ref] = bound[ref])
    BY <1>13, <1>18, <1>19
  <2>3. QED
    BY <1>2, <2>1, <2>2 DEF Kept
<1>21. /\ \A ref \in Calls : /\ RefOf(ref)' = RefOf(ref) /\ ref \in Calls'
                             /\ SourcesFor(ref) \subseteq SourcesFor(ref)'
                             /\ SourcesFor(ref)' = SourcesFor(ref)
                             /\ \A s : AnswerTo(s, ref)' = AnswerTo(s, ref)
  <2> SUFFICES ASSUME NEW ref \in Calls
               PROVE  /\ RefOf(ref)' = RefOf(ref) /\ ref \in Calls'
                      /\ SourcesFor(ref) \subseteq SourcesFor(ref)'
                      /\ SourcesFor(ref)' = SourcesFor(ref)
                      /\ \A s : AnswerTo(s, ref)' = AnswerTo(s, ref)
    OBVIOUS
  <2>1. SourcesFor(ref)' = SourcesFor(ref)
    BY <1>10, <1>15 DEF SourcesFor, Calls
  <2>2. QED
    BY <1>3, <1>20, <2>1, RefKept
<1>22. \A ref \in Calls' : ref \in Calls \/ (/\ ref[1] = key /\ ref = <<key, ref[2]>> /\ ref[2] \in DOMAIN data.refs
                                             /\ Located(data.refs[ref[2]]) /\ SourcesFor(ref)' = {s0} /\ bound'[ref] = NoKey)
  <2> SUFFICES ASSUME NEW ref \in Calls', ref \notin Calls
               PROVE  /\ ref[1] = key /\ ref = <<key, ref[2]>> /\ ref[2] \in DOMAIN data.refs
                      /\ Located(data.refs[ref[2]]) /\ SourcesFor(ref)' = {s0} /\ bound'[ref] = NoKey
    BY Zenon
  <2>1. ref \in DOMAIN bound' /\ Located(RefOf(ref)') 
    BY DEF Calls, Located
  <2>2. ref \notin DOMAIN bound
    <3>1. SUFFICES ASSUME ref \in DOMAIN bound
                   PROVE  FALSE
      OBVIOUS
    <3>2. RefOf(ref)' = RefOf(ref)
      BY <1>10, <1>15, <3>1 DEF RefOf
    <3>3. QED
      BY <2>1, <3>1, <3>2 DEF Calls
  <2>3. ref \in new
    BY <1>13, <1>19, <2>1, <2>2
  <2>4. RefOf(ref)' = data.refs[ref[2]] /\ SourcesFor(ref)' = {s0}
    BY <1>10, <1>12, <1>14, <2>3 DEF RefOf, SourcesFor
  <2>5. QED
    BY <1>14, <1>19, <2>1, <2>3, <2>4
<1> HIDE DEF W, new
<1>23. BoundInv'
  <2> SUFFICES ASSUME NEW ref \in Calls', bound'[ref] # NoKey
               PROVE  \E s \in SourcesFor(ref)' : TargetOf(AnswerTo(s, ref)') = bound'[ref]
    BY <1>19 DEF BoundInv, TargetOf
  <2>1. ref \in Calls /\ ref \in DOMAIN bound
    BY <1>17, <1>22
  <2>2. CASE ref \in W
    <3>1. PICK p \in pending : p[1] = key /\ ref = p[2]
      BY <2>2 DEF W, Waiting
    <3>2. PICK s \in SourcesFor(ref) : AnswerTo(s, ref).kind = "identity" /\ AnswerTo(s, ref).key = key
      BY <1>3, <3>1 DEF ShapeInv, PendingInv
    <3>3. TargetOf(AnswerTo(s, ref)) = key
      BY <3>2 DEF TargetOf
    <3>4. bound'[ref] = key
      BY <1>19, <2>1, <2>2
    <3>5. AnswerTo(s, ref)' = AnswerTo(s, ref) /\ s \in SourcesFor(ref)'
      BY <1>21, <2>1, <3>2
    <3>6. QED
      BY <3>3, <3>4, <3>5
  <2>3. CASE ref \notin W
    <3>1. bound'[ref] = bound[ref]
      BY <1>19, <2>1, <2>3
    <3>2. PICK s \in SourcesFor(ref) : TargetOf(AnswerTo(s, ref)) = bound[ref]
      BY <1>3, <2>1, <3>1 DEF ShapeInv, BoundInv
    <3>3. AnswerTo(s, ref)' = AnswerTo(s, ref) /\ s \in SourcesFor(ref)'
      BY <1>21, <2>1
    <3>4. QED
      BY <3>1, <3>2, <3>3
  <2>4. QED
    BY <2>2, <2>3
<1>24. pending' = {p \in pending : p[1] # key}
  BY <1>1 DEF Load, Unresolved
<1>25. PendingInv'
  <2> SUFFICES ASSUME NEW p \in pending'
               PROVE  /\ p = <<p[1], p[2]>> /\ p[1] \notin DOMAIN docs' /\ p[2] \in Calls'
                      /\ \E s \in SourcesFor(p[2])' : AnswerTo(s, p[2])'.kind = "identity" /\ AnswerTo(s, p[2])'.key = p[1]
    BY DEF PendingInv
  <2>1. p \in pending /\ p[1] # key
    BY <1>24
  <2>2. PICK s \in SourcesFor(p[2]) : AnswerTo(s, p[2]).kind = "identity" /\ AnswerTo(s, p[2]).key = p[1]
    BY <1>3, <2>1 DEF ShapeInv, PendingInv
  <2>3. p[2] \in Calls
    BY <1>16, <2>1
  <2>4. AnswerTo(s, p[2])' = AnswerTo(s, p[2]) /\ s \in SourcesFor(p[2])'
    BY <1>21, <2>3
  <2>5. QED
    BY <1>10, <1>16, <1>21, <2>1, <2>2, <2>3, <2>4
<1>26. ShapeInv'
  BY <1>2, <1>3, <1>11, <1>23, <1>25 DEF ShapeInv
<1>27. \A p \in pending : p \in pending' \/ bound'[p[2]] = p[1]
  <2> SUFFICES ASSUME NEW p \in pending, p[1] = key
               PROVE  bound'[p[2]] = key
    BY <1>24
  <2>1. p[2] \in W
    BY DEF W, Waiting
  <2>2. QED
    BY <1>17, <1>19, <2>1
<1>28. queue \in Seq(Range(queue))
  BY <1>3 DEF WorkInv, QueueInv
<1>29. /\ queue' \in Seq(Range(queue'))
       /\ Range(queue') = Range(queue) \union Enqueued(s0, key, data.refs)
  <2>1. Enqueue(key, data.refs)
    BY <1>1 DEF Load
  <2>2. QED
    BY <1>1, <1>8, <1>28, <2>1, EnqueueFacts
<1>30. \A i \in DOMAIN data.refs : Located(data.refs[i]) => <<key, i>> \in Calls' /\ SourcesFor(<<key, i>>)' = {s0}
  <2> SUFFICES ASSUME NEW i \in DOMAIN data.refs, Located(data.refs[i])
               PROVE  <<key, i>> \in Calls' /\ SourcesFor(<<key, i>>)' = {s0}
    OBVIOUS
  <2>1. <<key, i>> \in new /\ <<key, i>>[1] = key /\ <<key, i>>[2] = i
    BY DEF new
  <2>2. RefOf(<<key, i>>)' = data.refs[i] /\ SourcesFor(<<key, i>>)' = {s0}
    BY <1>10, <1>12, <2>1 DEF RefOf, SourcesFor
  <2>3. QED
    BY <1>19, <2>1, <2>2 DEF Calls, Located
<1>31. \A r \in Enqueued(s0, key, data.refs) : IsCall(r)'
  <2> SUFFICES ASSUME NEW i \in DOMAIN data.refs, Located(data.refs[i])
               PROVE  IsCall(Request(s0, <<key, i>>, TRUE))'
    BY DEF Enqueued, Request
  <2>1. <<key, i>> \in Calls' /\ s0 \in SourcesFor(<<key, i>>)'
    BY <1>30
  <2>2. QED
    BY <2>1 DEF IsCall, Request
<1>32. \A ref \in Calls' : \A s \in SourcesFor(ref)' :
         (ref \in Calls /\ s \in SourcesFor(ref)) \/ Request(s, ref, TRUE) \in Range(queue')
  <2> SUFFICES ASSUME NEW ref \in Calls', NEW s \in SourcesFor(ref)', ~(ref \in Calls /\ s \in SourcesFor(ref))
               PROVE  Request(s, ref, TRUE) \in Range(queue')
    BY Zenon
  <2>1. ref \notin Calls
    BY <1>21
  <2>2. ref = <<key, ref[2]>> /\ ref[2] \in DOMAIN data.refs /\ Located(data.refs[ref[2]]) /\ s = s0
    BY <1>22, <2>1
  <2>3. Request(s0, <<key, ref[2]>>, TRUE) \in Enqueued(s0, key, data.refs)
    BY <2>2 DEF Enqueued
  <2>4. QED
    BY <1>29, <2>2, <2>3
<1>33. s0 \in Registered'
  BY <1>10, <1>12 DEF Registered
<1>34. \A r \in Range(queue') : r \in Range(queue) \/ IsCall(r)'
  BY <1>29, <1>31
<1>35. Range(queue) \subseteq Range(queue')
  BY <1>29
<1>36. QED
  BY <1>1, <1>2, <1>20, <1>26, <1>27, <1>29, <1>32, <1>33, <1>34, <1>35, Returned

(* Another source of a document is added to it.                            *)
LEMMA RepeatedDocs ==
  ASSUME ShapeInv, Repeat, NEW key, key = ItemKey, NEW s0, s0 = item.source,
         NEW sources, sources = docs[key].sources \union (IF Fresh(s0) THEN {s0} ELSE {})
  PROVE  /\ key \in DOMAIN docs /\ DOMAIN docs' = DOMAIN docs
         /\ \A k \in DOMAIN docs : k # key => docs'[k] = docs[k]
         /\ docs'[key] = [name |-> docs[key].name, content |-> docs[key].content, sources |-> sources,
                          explicitRoot |-> docs[key].explicitRoot \/ ~Optional]
<1>1. key \in DOMAIN docs
  BY DEF Repeat, Repeated, Loaded
<1>2. IsDoc(key)
  BY <1>1 DEF ShapeInv, DocsInv
<1>3. PICK old, root : old = docs[key] /\ root = (old.explicitRoot \/ ~Optional)
  OBVIOUS
<1>4. old = [name |-> old.name, content |-> old.content, sources |-> old.sources, explicitRoot |-> old.explicitRoot]
  BY <1>2, <1>3 DEF IsDoc
<1>5. PICK new : new = [name |-> old.name, content |-> old.content, sources |-> sources, explicitRoot |-> root]
  OBVIOUS
<1>6. docs' = [docs EXCEPT ![key] = new]
  <2>1. docs' = [docs EXCEPT ![key].sources = IF Fresh(s0) THEN @ \union {s0} ELSE @,
                             ![key].explicitRoot = @ \/ ~Optional]
    BY DEF Repeat
  <2>2. docs' = [docs EXCEPT ![key] = [[docs[key] EXCEPT !.sources = sources] EXCEPT !.explicitRoot = @ \/ ~Optional]]
    BY <1>1, <2>1
  <2>3. PICK mid : mid = [docs[key] EXCEPT !.sources = sources]
    OBVIOUS
  <2>4. mid = [name |-> old.name, content |-> old.content, sources |-> sources, explicitRoot |-> old.explicitRoot]
    BY <1>3, <1>4, <2>3
  <2>5. [mid EXCEPT !.explicitRoot = @ \/ ~Optional] = [mid EXCEPT !.explicitRoot = mid.explicitRoot \/ ~Optional]
    OBVIOUS
  <2>6. mid.explicitRoot = old.explicitRoot
    BY <2>4
  <2>7. [mid EXCEPT !.explicitRoot = @ \/ ~Optional] = [mid EXCEPT !.explicitRoot = root]
    BY <1>3, <2>5, <2>6, Zenon
  <2>8. [mid EXCEPT !.explicitRoot = root] = new
    BY <1>5, <2>4
  <2>9. QED
    BY <2>2, <2>3, <2>7, <2>8
<1>7. DOMAIN docs' = DOMAIN docs /\ docs'[key] = new /\ \A k \in DOMAIN docs : k # key => docs'[k] = docs[k]
  BY <1>1, <1>6
<1>8. new = [name |-> docs[key].name, content |-> docs[key].content, sources |-> sources,
             explicitRoot |-> docs[key].explicitRoot \/ ~Optional]
  BY <1>3, <1>5
<1>9. QED
  BY <1>1, <1>7, <1>8

(* Another source of a loaded document: it contains the same or nothing,   *)
(* and its context is asked for the references again unless it was before. *)
LEMMA RepeatGraph ==
  ASSUME GraphInv, Repeat
  PROVE  GraphInv' /\ Kept /\ Range(queue) \subseteq Range(queue')
<1>1. PICK s0, key, content : s0 = item.source /\ key = ItemKey /\ content = docs[key].content
  OBVIOUS
<1>2. /\ pc = "acquired" /\ pc' = "take" /\ world' = world /\ item' = item
      /\ bound' = bound /\ pending' = pending /\ key \in DOMAIN docs
      /\ got.error = "" \/ (got.error = "missing" /\ item.ref # NoRef)
  BY <1>1 DEF Repeat, Repeated, Running, Goto, Loaded, Absent, Optional
<1>3. ShapeInv /\ WorkInv
  BY <1>2 DEF GraphInv, Failures
<1>4. IsRead(item) /\ (HasData(s0) \/ got.error = "missing") /\ (got.error = "missing" => ~HasData(s0))
  BY <1>1, <1>2, <1>3 DEF WorkInv, ItemInv, Reading
<1>5. s0 \in DOMAIN world.data /\ key = KeyOf(s0)
  BY <1>1, <1>4 DEF IsRead, ItemKey, KeyOf
<1>6. HasData(s0) => world.data[s0] = content
  <2>1. RepeatFailure = ""
    BY DEF Repeat
  <2>2. got.error = "" => Data = content
    BY <1>1, <2>1 DEF RepeatFailure, Known
  <2>3. QED
    BY <1>1, <1>2, <1>4, <2>2 DEF Data
<1>7. content.refs \in Seq(References)
  BY <1>1, <1>2, <1>3, ContentFacts DEF IsContent
<1>8. PICK sources : sources = docs[key].sources \union (IF Fresh(s0) THEN {s0} ELSE {})
  OBVIOUS
<1>9. Fresh(s0) <=> s0 \notin docs[key].sources
  BY <1>5 DEF Fresh, KeyOf
<1>10. IsDoc(key)
  BY <1>2, <1>3 DEF ShapeInv, DocsInv
<1>11. PICK old, root : old = docs[key] /\ root = (old.explicitRoot \/ ~Optional)
  OBVIOUS
<1>12. old = [name |-> old.name, content |-> old.content, sources |-> old.sources, explicitRoot |-> old.explicitRoot]
  BY <1>10, <1>11 DEF IsDoc
<1>13. PICK new : new = [name |-> old.name, content |-> old.content, sources |-> sources, explicitRoot |-> root]
  OBVIOUS
<1>14. /\ DOMAIN docs' = DOMAIN docs /\ docs'[key] = new
       /\ \A k \in DOMAIN docs : k # key => docs'[k] = docs[k]
  BY <1>1, <1>3, <1>8, <1>11, <1>13, RepeatedDocs
<1>15. /\ new = [name |-> new.name, content |-> new.content, sources |-> new.sources, explicitRoot |-> new.explicitRoot]
       /\ new.name = docs[key].name /\ new.content = content /\ new.sources = sources
  BY <1>1, <1>11, <1>13
<1>16. /\ docs[key].sources \subseteq sources /\ s0 \in sources
       /\ \A s \in sources : s \in docs[key].sources \/ s = s0
  BY <1>8, <1>9
<1>17. Kept
  <2>1. \A k \in DOMAIN docs : /\ k \in DOMAIN docs' /\ docs'[k].content = docs[k].content
                               /\ docs[k].sources \subseteq docs'[k].sources
    BY <1>1, <1>14, <1>15, <1>16
  <2>2. QED
    BY <1>2, <2>1 DEF Kept
<1>18. IsDoc(key)'
  <2>1. IsFiniteSet(docs[key].sources) /\ docs[key].name \in DOMAIN Rank /\ Key[docs[key].name] = key /\ key \in STRING \ {NoKey}
    BY <1>10 DEF IsDoc
  <2>2. IsFiniteSet(sources)
    <3>1. CASE Fresh(s0)
      <4>1. sources = docs[key].sources \union {s0}
        BY <1>8, <3>1
      <4>2. QED
        BY <2>1, <4>1, FS_AddElement
    <3>2. CASE ~Fresh(s0)
      <4>1. sources = docs[key].sources
        BY <1>8, <3>2
      <4>2. QED
        BY <2>1, <4>1
    <3>3. QED
      BY <3>1, <3>2
  <2>3. \A s \in docs[key].sources : /\ s \in DOMAIN world.data /\ KeyOf(s) = key
                                     /\ HasData(s) => world.data[s] = content
    BY <1>1, <1>10 DEF IsDoc
  <2>4. \A s \in sources : s \in DOMAIN world.data /\ KeyOf(s) = key /\ (HasData(s) => world.data[s] = content)
    BY <1>5, <1>6, <1>16, <2>3
  <2>5. \E s \in sources : HasData(s)
    BY <1>10, <1>16 DEF IsDoc
  <2>6. \A s : HasData(s)' <=> HasData(s)
    BY <1>2 DEF HasData
  <2>7. PICK d : d = docs'[key]
    OBVIOUS
  <2>8. /\ d = [name |-> d.name, content |-> d.content, sources |-> d.sources, explicitRoot |-> d.explicitRoot]
        /\ d.name = docs[key].name /\ d.content = content /\ d.sources = sources
    BY <1>14, <1>15, <2>7
  <2>9. /\ d.name \in DOMAIN Rank /\ Key[d.name] = key /\ IsFiniteSet(d.sources)
        /\ \A s \in d.sources : s \in DOMAIN world'.data /\ KeyOf(s) = key
        /\ \A s \in d.sources : HasData(s)' => world'.data[s] = d.content
        /\ \E s \in d.sources : HasData(s)'
    BY <1>2, <2>1, <2>2, <2>4, <2>5, <2>6, <2>8
  <2>10. QED
    BY <2>1, <2>7, <2>8, <2>9 DEF IsDoc, KeyOf
<1>19. DocsInv'
  <2>1. ASSUME NEW k \in DOMAIN docs, k # key
        PROVE  IsDoc(k)'
    <3>1. IsDoc(k)
      BY <1>3 DEF ShapeInv, DocsInv
    <3>2. docs'[k] = docs[k]
      BY <1>14, <2>1
    <3>3. QED
      BY <1>2, <3>1, <3>2 DEF IsDoc, HasData, KeyOf
  <2>2. QED
    BY <1>3, <1>14, <1>18, <2>1 DEF ShapeInv, DocsInv
<1>20. Refs' = Refs
  <2>1. \A k \in DOMAIN docs : docs'[k].content = docs[k].content
    BY <1>1, <1>14, <1>15
  <2>2. QED
    BY <1>14, <2>1 DEF Refs
<1>21. \A ref \in DOMAIN bound : RefOf(ref)' = RefOf(ref)
  <2> SUFFICES ASSUME NEW ref \in DOMAIN bound
               PROVE  RefOf(ref)' = RefOf(ref)
    OBVIOUS
  <2>1. ref[1] \in DOMAIN docs
    BY <1>3, CallFacts
  <2>2. docs'[ref[1]].content = docs[ref[1]].content
    BY <1>1, <1>14, <1>15, <2>1
  <2>3. QED
    BY <2>2 DEF RefOf
<1>22. Calls' = Calls
  BY <1>2, <1>21 DEF Calls
<1>23. \A ref \in Calls : /\ SourcesFor(ref) \subseteq SourcesFor(ref)'
                          /\ \A s : AnswerTo(s, ref)' = AnswerTo(s, ref)
  BY <1>3, <1>17, RefKept
<1>24. BoundInv'
  <2> SUFFICES ASSUME NEW ref \in Calls, bound[ref] # NoKey
               PROVE  \E s \in SourcesFor(ref)' : TargetOf(AnswerTo(s, ref)') = bound[ref]
    BY <1>2, <1>3, <1>20, <1>22 DEF ShapeInv, BoundInv, TargetOf
  <2>1. PICK s \in SourcesFor(ref) : TargetOf(AnswerTo(s, ref)) = bound[ref]
    BY <1>3 DEF ShapeInv, BoundInv
  <2>2. AnswerTo(s, ref)' = AnswerTo(s, ref) /\ s \in SourcesFor(ref)'
    BY <1>23
  <2>3. QED
    BY <2>1, <2>2
<1>25. PendingInv'
  <2> SUFFICES ASSUME NEW p \in pending
               PROVE  /\ p = <<p[1], p[2]>> /\ p[1] \notin DOMAIN docs /\ p[2] \in Calls
                      /\ \E s \in SourcesFor(p[2])' : AnswerTo(s, p[2])'.kind = "identity" /\ AnswerTo(s, p[2])'.key = p[1]
    BY <1>2, <1>14, <1>22 DEF PendingInv
  <2>1. /\ p = <<p[1], p[2]>> /\ p[1] \notin DOMAIN docs /\ p[2] \in Calls
        /\ \E s \in SourcesFor(p[2]) : AnswerTo(s, p[2]).kind = "identity" /\ AnswerTo(s, p[2]).key = p[1]
    BY <1>3 DEF ShapeInv, PendingInv
  <2>2. PICK s \in SourcesFor(p[2]) : AnswerTo(s, p[2]).kind = "identity" /\ AnswerTo(s, p[2]).key = p[1]
    BY <2>1
  <2>3. AnswerTo(s, p[2])' = AnswerTo(s, p[2]) /\ s \in SourcesFor(p[2])'
    BY <1>23, <2>1
  <2>4. QED
    BY <2>1, <2>2, <2>3
<1>26. ShapeInv'
  BY <1>2, <1>3, <1>19, <1>24, <1>25 DEF ShapeInv
<1>27. queue \in Seq(Range(queue))
  BY <1>3 DEF WorkInv, QueueInv
<1>28. /\ queue' \in Seq(Range(queue'))
       /\ Range(queue') = Range(queue) \union (IF Fresh(s0) THEN Enqueued(s0, key, content.refs) ELSE {})
  <2>1. CASE Fresh(s0)
    <3>1. Enqueue(key, content.refs)
      BY <1>1, <2>1 DEF Repeat, Known
    <3>2. QED
      BY <1>1, <1>7, <1>27, <2>1, <3>1, EnqueueFacts
  <2>2. CASE ~Fresh(s0)
    <3>1. queue' = queue
      BY <1>1, <2>2 DEF Repeat
    <3>2. QED
      BY <1>27, <2>2, <3>1
  <2>3. QED
    BY <2>1, <2>2
<1>29. \A i \in DOMAIN content.refs : Located(content.refs[i]) => <<key, i>> \in Calls' /\ SourcesFor(<<key, i>>)' = sources
  <2> SUFFICES ASSUME NEW i \in DOMAIN content.refs, Located(content.refs[i])
               PROVE  <<key, i>> \in Calls' /\ SourcesFor(<<key, i>>)' = sources
    OBVIOUS
  <2>1. <<key, i>>[1] = key /\ <<key, i>>[2] = i /\ <<key, i>> \in Refs
    <3>1. <<key, i>> \in {key} \X DOMAIN docs[key].content.refs
      BY <1>1
    <3>2. QED
      BY <1>2, <3>1 DEF Refs
  <2>2. <<key, i>> \in DOMAIN bound
    BY <1>3, <2>1 DEF ShapeInv, BoundInv
  <2>3. RefOf(<<key, i>>) = content.refs[i] /\ SourcesFor(<<key, i>>)' = sources
    BY <1>1, <1>14, <1>15, <2>1 DEF RefOf, SourcesFor
  <2>4. QED
    BY <1>22, <2>2, <2>3 DEF Calls
<1>30. \A r \in Enqueued(s0, key, content.refs) : IsCall(r)'
  <2> SUFFICES ASSUME NEW i \in DOMAIN content.refs, Located(content.refs[i])
               PROVE  IsCall(Request(s0, <<key, i>>, TRUE))'
    BY DEF Enqueued, Request
  <2>1. <<key, i>> \in Calls' /\ s0 \in SourcesFor(<<key, i>>)'
    BY <1>16, <1>29
  <2>2. QED
    BY <2>1 DEF IsCall, Request
<1>31. \A ref \in Calls' : \A s \in SourcesFor(ref)' :
         (ref \in Calls /\ s \in SourcesFor(ref)) \/ Request(s, ref, TRUE) \in Range(queue')
  <2> SUFFICES ASSUME NEW ref \in Calls', NEW s \in SourcesFor(ref)', s \notin SourcesFor(ref)
               PROVE  Request(s, ref, TRUE) \in Range(queue')
    BY <1>22
  <2>1. ref \in DOMAIN bound /\ Located(RefOf(ref))
    BY <1>22 DEF Calls
  <2>2. ref = <<ref[1], ref[2]>> /\ ref[1] \in DOMAIN docs /\ ref[2] \in DOMAIN docs[ref[1]].content.refs
    BY <1>3, <2>1, CallFacts
  <2>3. ref[1] = key
    BY <1>14, <2>2 DEF SourcesFor
  <2>4. s \in sources /\ s \notin docs[key].sources
    BY <1>14, <1>15, <2>3 DEF SourcesFor
  <2>5. s = s0 /\ Fresh(s0)
    BY <1>9, <1>16, <2>4
  <2>6. ref[2] \in DOMAIN content.refs /\ Located(content.refs[ref[2]])
    BY <1>1, <2>1, <2>2, <2>3 DEF RefOf
  <2>7. Request(s0, <<key, ref[2]>>, TRUE) \in Enqueued(s0, key, content.refs)
    BY <2>6 DEF Enqueued
  <2>8. QED
    BY <1>28, <2>2, <2>3, <2>5, <2>7
<1>32. s0 \in Registered'
  BY <1>2, <1>14, <1>15, <1>16 DEF Registered
<1>33. \A r \in Range(queue') : r \in Range(queue) \/ IsCall(r)'
  BY <1>28, <1>30
<1>34. Range(queue) \subseteq Range(queue')
  BY <1>28
<1>35. \A p \in pending : p \in pending'
  BY <1>2
<1>36. QED
  BY <1>1, <1>2, <1>17, <1>26, <1>28, <1>31, <1>32, <1>33, <1>34, <1>35, Returned

(* Every step keeps the invariant of the graph.                            *)
LEMMA GraphStep == GraphInv /\ [Next]_vars => GraphInv'
<1> SUFFICES ASSUME GraphInv, [Next]_vars
             PROVE  GraphInv'
  OBVIOUS
<1>1. CASE Cancel \/ StopCanceled
  BY <1>1, CancelGraph
<1>2. CASE Take
  BY <1>2, TakeGraph
<1>3. CASE Resolve
  BY <1>3, ResolveGraph
<1>4. CASE Acquire
  BY <1>4, AcquireGraph
<1>5. CASE AcquireFails \/ SkipAbsent \/ LoadRejected \/ RepeatRejected
  BY <1>5, ReadGraph
<1>6. CASE Load
  BY <1>6, LoadGraph
<1>7. CASE Repeat
  BY <1>7, RepeatGraph
<1>8. CASE CheckTargets \/ SeedAlone \/ Seed \/ Propagate \/ Fallback
  BY <1>8, TargetsGraph
<1>9. CASE UNCHANGED vars
  <2>1. UNCHANGED <<world, pc, queue, item, got, docs, bound, pending>>
    BY <1>9 DEF vars, graph
  <2>2. CASE pc \in Failures
    <3>1. ShapeInv
      BY DEF GraphInv
    <3>2. ShapeInv'
      BY <2>1, <3>1, SameShape DEF graph
    <3>3. QED
      BY <2>1, <2>2, <3>2 DEF GraphInv
  <2>3. CASE pc \notin Failures
    <3>1. WorkInv
      BY <2>3 DEF GraphInv
    <3>2. UNCHANGED <<world, graph, queue, item>> /\ pc' = pc /\ got' = got
      BY <2>1 DEF graph
    <3>3. /\ pc' \in {"read", "close"} => HasData(item.source)
          /\ pc' = "close" => got'.error # "missing"
          /\ pc' = "acquired" =>
               (got'.error = "missing" => ~HasData(item.source)) /\ (got'.error = "" => HasData(item.source))
          /\ pc' \in Later => queue = <<>> /\ \A ref \in Edges : Fits(ref, docs[bound[ref]].content)
      BY <3>1, <3>2 DEF WorkInv, ItemInv, QueueInv, FitsInv
    <3>4. QED
      BY <2>3, <3>2, <3>3, SameWork
  <2>4. QED
    BY <2>2, <2>3
<1>10. QED
  BY <1>1, <1>2, <1>3, <1>4, <1>5, <1>6, <1>7, <1>8, <1>9 DEF Next

(* So it holds in every state.                                             *)
LEMMA GraphIsInvariant == Spec => []GraphInv
BY InitGraph, GraphStep, PTL DEF Spec

(* When nothing is left to do, the graph is right.                         *)
LEMMA GraphIsDone == GraphInv => GraphIsRight
<1> SUFFICES ASSUME GraphInv, pc = "loaded"
             PROVE  IsClosed /\ IsConsistent
  BY DEF GraphIsRight
<1>1. ShapeInv /\ WorkInv
  BY DEF GraphInv, Failures
<1>2. queue = <<>> /\ Range(queue) = {}
  BY <1>1 DEF WorkInv, QueueInv, Later, Range
<1>3. \A ref \in Calls : \A s \in SourcesFor(ref) : Settled(s, ref)
  BY <1>1, <1>2 DEF WorkInv, CallsInv
<1>4. \A t : IsKnown(t) => t \in Registered \/ ~HasData(t)
  BY DEF IsKnown, Reading
<1>5. IsClosed
  <2>1. world.explicit \subseteq Registered
    BY <1>1, <1>2 DEF WorkInv, ExplicitInv, Reading
  <2>2. ASSUME NEW s \in Registered, NEW t \in SourcesOf(AnswersTo(s, docs[Key[s.name]].content)), HasData(t)
        PROVE  t \in Registered
    <3>1. PICK key \in DOMAIN docs : s \in docs[key].sources
      BY DEF Registered
    <3>2. IsDoc(key)
      BY <1>1 DEF ShapeInv, DocsInv
    <3>3. Key[s.name] = key
      BY <3>1, <3>2 DEF IsDoc, KeyOf
    <3>4. PICK r \in Range(docs[key].content.refs) :
            /\ Located(r) /\ world.resolve[<<s, r.location>>].kind = "source"
            /\ t = world.resolve[<<s, r.location>>].source
      BY <3>3 DEF SourcesOf, AnswersTo
    <3>5. PICK i \in DOMAIN docs[key].content.refs : r = docs[key].content.refs[i]
      BY DEF Range
    <3>6. <<key, i>>[1] = key /\ <<key, i>>[2] = i /\ <<key, i>> \in Refs
      BY DEF Refs
    <3>7. <<key, i>> \in DOMAIN bound /\ RefOf(<<key, i>>) = r
      BY <1>1, <3>5, <3>6 DEF ShapeInv, BoundInv, RefOf
    <3>8. <<key, i>> \in Calls /\ s \in SourcesFor(<<key, i>>)
      BY <3>1, <3>4, <3>6, <3>7 DEF Calls, SourcesFor
    <3>9. AnswerTo(s, <<key, i>>) = world.resolve[<<s, r.location>>]
      BY <3>7 DEF AnswerTo
    <3>10. IsKnown(t)
      BY <1>3, <3>4, <3>8, <3>9 DEF Settled
    <3>11. QED
      BY <1>4, <2>2, <3>10
  <2>3. QED
    BY <2>1, <2>2 DEF IsClosed
<1>6. IsConsistent
  <2>1. ASSUME NEW s \in Registered, HasData(s)
        PROVE  world.data[s] = docs[Key[s.name]].content
    BY <1>1, <2>1 DEF Registered, ShapeInv, DocsInv, IsDoc, KeyOf
  <2>2. ASSUME NEW ref \in DOMAIN bound, Located(RefOf(ref))
        PROVE  LET found == {TargetOf(world.resolve[<<s, RefOf(ref).location>>]) : s \in docs[ref[1]].sources}
               IN  /\ \A key \in found : Loaded(key) => bound[ref] = key
                   /\ bound[ref] \in found \union {NoKey}
    <3>1. ref \in Calls
      BY <2>2 DEF Calls
    <3>2. ASSUME NEW s \in SourcesFor(ref), Loaded(TargetOf(AnswerTo(s, ref)))
          PROVE  bound[ref] = TargetOf(AnswerTo(s, ref))
      <4>1. Settled(s, ref)
        BY <1>3, <3>1
      <4>2. PICK answer : answer = AnswerTo(s, ref)
        OBVIOUS
      <4>3. \A key \in DOMAIN docs : key # NoKey
        BY <1>1 DEF ShapeInv, DocsInv, IsDoc
      <4>4. \A p \in pending : p[1] \notin DOMAIN docs
        BY <1>1 DEF ShapeInv, PendingInv
      <4>5. CASE answer.kind = "source"
        BY <4>1, <4>2, <4>5 DEF Settled, TargetOf, KeyOf
      <4>6. CASE answer.kind = "identity"
        <5>1. TargetOf(answer) = answer.key
          BY <4>6 DEF TargetOf
        <5>2. <<answer.key, ref>>[1] = answer.key
          OBVIOUS
        <5>3. <<answer.key, ref>> \notin pending
          BY <3>2, <4>2, <4>4, <5>1, <5>2 DEF Loaded
        <5>4. QED
          BY <4>1, <4>2, <4>6, <5>1, <5>3 DEF Settled
      <4>7. CASE answer.kind \notin {"source", "identity"}
        BY <3>2, <4>2, <4>3, <4>7 DEF TargetOf, Loaded
      <4>8. QED
        BY <4>5, <4>6, <4>7
    <3>3. bound[ref] # NoKey => \E s \in SourcesFor(ref) : TargetOf(AnswerTo(s, ref)) = bound[ref]
      BY <1>1, <3>1 DEF ShapeInv, BoundInv
    <3>4. QED
      BY <3>2, <3>3 DEF SourcesFor, AnswerTo
  <2>3. \A ref \in Edges : Fits(ref, docs[bound[ref]].content)
    BY <1>1 DEF WorkInv, FitsInv, Later
  <2>4. QED
    BY <2>1, <2>2, <2>3 DEF IsConsistent
<1>7. QED
  BY <1>5, <1>6

(* Compilation gets the whole graph, each reference with the one target    *)
(* that every context resolves it to (GraphIsRight).                       *)
THEOREM GraphIsWhole == Spec => []GraphIsRight
BY GraphIsInvariant, GraphIsDone, PTL

Induct == INSTANCE Folding WITH Op <- AddNodes

-----------------------------------------------------------------------------
(* Sums over finite sets, which SumFunction takes in no particular order.  *)

Some(s) == CHOOSE x \in s : TRUE
AddStep(f, s, iter) == IF s = {} THEN 0 ELSE f[Some(s)] + iter[s \ {Some(s)}]
Sums(f, S) == CHOOSE iter : iter = [s \in SUBSET S |-> AddStep(f, s, iter)]
SumOver(f, S) == Sums(f, S)[S]

(* The sum of a function is that over its domain.                          *)
LEMMA SumIs ==
  ASSUME NEW fun
  PROVE  SumFunction(fun) = SumOver(fun, DOMAIN fun)
BY DEF SumFunction, SumFunctionOnSet, FoldFunctionOnSet, MapThenFoldSet, SumOver, Sums, AddStep, Some

(* The sums that the definition chooses exist, by induction over the size  *)
(* of the sets.                                                            *)
LEMMA SumsExist ==
  ASSUME NEW f, NEW S, IsFiniteSet(S)
  PROVE  Sums(f, S) = [s \in SUBSET S |-> AddStep(f, s, Sums(f, S))]
<1> DEFINE D(n) == {s \in SUBSET S : Cardinality(s) <= n}
           T == {n \in Nat : \E iter : iter = [s \in D(n) |-> AddStep(f, s, iter)]}
<1>1. \A s \in SUBSET S : IsFiniteSet(s) /\ Cardinality(s) \in Nat /\ Cardinality(s) <= Cardinality(S)
  BY FS_Subset, FS_CardinalityType
<1>2. \A s \in SUBSET S : s # {} =>
        /\ Some(s) \in s /\ s \ {Some(s)} \in SUBSET S
        /\ Cardinality(s \ {Some(s)}) = Cardinality(s) - 1
  <2> SUFFICES ASSUME NEW s \in SUBSET S, s # {}
               PROVE  /\ Some(s) \in s /\ s \ {Some(s)} \in SUBSET S
                      /\ Cardinality(s \ {Some(s)}) = Cardinality(s) - 1
    OBVIOUS
  <2>1. Some(s) \in s
    BY DEF Some
  <2>2. QED
    BY <1>1, <2>1, FS_RemoveElement
<1>3. 0 \in T
  <2>1. PICK g : g = [s \in D(0) |-> 0]
    OBVIOUS
  <2>2. \A s \in D(0) : s = {}
    BY <1>1, FS_EmptySet
  <2>3. \A s \in D(0) : AddStep(f, s, g) = 0
    BY <2>2 DEF AddStep
  <2> HIDE DEF D
  <2>4. g = [s \in D(0) |-> AddStep(f, s, g)]
    BY <2>1, <2>3
  <2>5. QED
    BY <2>4
<1>4. ASSUME NEW n \in Nat, n \in T
      PROVE  n + 1 \in T
  <2>1. PICK g : g = [s \in D(n) |-> AddStep(f, s, g)]
    BY <1>4
  <2> DEFINE H(s) == IF s \in D(n) THEN g[s] ELSE f[Some(s)] + g[s \ {Some(s)}]
  <2>2. PICK h : h = [s \in D(n + 1) |-> H(s)]
    OBVIOUS
  <2>3. D(n) \subseteq D(n + 1)
    BY <1>1
  <2>4. \A s \in D(n) : s # {} => s \ {Some(s)} \in D(n)
    BY <1>1, <1>2
  <2>5. \A s \in D(n + 1) : s \notin D(n) => s # {} /\ s \ {Some(s)} \in D(n)
    <3> SUFFICES ASSUME NEW s \in D(n + 1), s \notin D(n)
                 PROVE  s # {} /\ s \ {Some(s)} \in D(n)
      OBVIOUS
    <3>1. Cardinality(s) = n + 1 /\ s \in SUBSET S
      BY <1>1
    <3>2. s # {}
      BY <3>1, FS_EmptySet
    <3>3. QED
      BY <1>2, <3>1, <3>2
  <2> HIDE DEF D
  <2>6. \A s \in D(n) : h[s] = g[s] /\ g[s] = AddStep(f, s, g)
    BY <2>1, <2>2, <2>3
  <2> HIDE DEF H
  <2>7. \A s \in D(n + 1) : H(s) = AddStep(f, s, h)
    <3> SUFFICES ASSUME NEW s \in D(n + 1)
                 PROVE  H(s) = AddStep(f, s, h)
      OBVIOUS
    <3>1. CASE s \in D(n)
      <4>1. H(s) = AddStep(f, s, g)
        BY <2>6, <3>1 DEF H
      <4>2. s # {} => h[s \ {Some(s)}] = g[s \ {Some(s)}]
        BY <2>4, <2>6, <3>1
      <4>3. QED
        BY <4>1, <4>2 DEF AddStep
    <3>2. CASE s \notin D(n)
      <4>1. H(s) = f[Some(s)] + g[s \ {Some(s)}]
        BY <3>2 DEF H
      <4>2. s # {} /\ h[s \ {Some(s)}] = g[s \ {Some(s)}]
        BY <2>5, <2>6, <3>2
      <4>3. QED
        BY <4>1, <4>2 DEF AddStep
    <3>3. QED
      BY <3>1, <3>2
  <2>8. h = [s \in D(n + 1) |-> AddStep(f, s, h)]
    BY <2>2, <2>7
  <2>9. QED
    BY <2>8
<1>5. D(Cardinality(S)) = SUBSET S
  BY <1>1
<1>6. Cardinality(S) \in Nat
  BY FS_CardinalityType
<1> HIDE DEF T, D
<1>7. \A n \in Nat : n \in T
  BY <1>3, <1>4, Induct!NatInduct
<1>8. \E iter : iter = [s \in SUBSET S |-> AddStep(f, s, iter)]
  BY <1>5, <1>6, <1>7 DEF T
<1>9. QED
  BY <1>8, Zenon DEF Sums

(* The elements that are taken and what they are worth make the sum.       *)
LEMMA SumsAgree ==
  ASSUME NEW f, NEW g, NEW S, NEW T, IsFiniteSet(S), IsFiniteSet(T)
  PROVE  \A s \in SUBSET S : s \in SUBSET T /\ (\A x \in s : f[x] = g[x]) => Sums(f, S)[s] = Sums(g, T)[s]
<1> DEFINE P(s) == s \in SUBSET T /\ (\A x \in s : f[x] = g[x])
           N == {n \in Nat : \A s \in SUBSET S : Cardinality(s) = n /\ P(s) => Sums(f, S)[s] = Sums(g, T)[s]}
<1>1. /\ \A s \in SUBSET S : Sums(f, S)[s] = AddStep(f, s, Sums(f, S))
      /\ \A s \in SUBSET T : Sums(g, T)[s] = AddStep(g, s, Sums(g, T))
  <2>1. /\ Sums(f, S) = [s \in SUBSET S |-> AddStep(f, s, Sums(f, S))]
        /\ Sums(g, T) = [s \in SUBSET T |-> AddStep(g, s, Sums(g, T))]
    BY SumsExist
  <2>2. QED
    BY <2>1
<1>2. \A s \in SUBSET S : IsFiniteSet(s) /\ Cardinality(s) \in Nat
  BY FS_Subset, FS_CardinalityType
<1>3. 0 \in N
  <2> SUFFICES ASSUME NEW s \in SUBSET S, Cardinality(s) = 0, P(s)
               PROVE  Sums(f, S)[s] = Sums(g, T)[s]
    OBVIOUS
  <2>1. s = {}
    BY <1>2, FS_EmptySet
  <2>2. AddStep(f, s, Sums(f, S)) = 0 /\ AddStep(g, s, Sums(g, T)) = 0
    BY <2>1 DEF AddStep
  <2>3. QED
    BY <1>1, <2>2
<1>4. ASSUME NEW n \in Nat, n \in N
      PROVE  n + 1 \in N
  <2> SUFFICES ASSUME NEW s \in SUBSET S, Cardinality(s) = n + 1, P(s)
               PROVE  Sums(f, S)[s] = Sums(g, T)[s]
    OBVIOUS
  <2>1. s # {}
    BY FS_EmptySet
  <2>2. Some(s) \in s
    BY <2>1 DEF Some
  <2>3. s \ {Some(s)} \in SUBSET S /\ Cardinality(s \ {Some(s)}) = n /\ P(s \ {Some(s)})
    <3>1. IsFiniteSet(s)
      BY FS_Subset
    <3>2. Cardinality(s \ {Some(s)}) = Cardinality(s) - 1
      BY <2>2, <3>1, FS_RemoveElement
    <3>3. Cardinality(s \ {Some(s)}) = n
      BY <3>2
    <3>4. QED
      BY <3>3
  <2>4. Sums(f, S)[s \ {Some(s)}] = Sums(g, T)[s \ {Some(s)}]
    BY <1>4, <2>3
  <2>5. AddStep(f, s, Sums(f, S)) = AddStep(g, s, Sums(g, T))
    BY <2>1, <2>2, <2>4 DEF AddStep
  <2>6. QED
    BY <1>1, <2>5
<1> HIDE DEF N
<1>5. \A n \in Nat : n \in N
  BY <1>3, <1>4, Induct!NatInduct
<1>6. QED
  BY <1>2, <1>5 DEF N

(* The sum of the elements, whichever is taken first.                      *)
LEMMA SumEmpty ==
  ASSUME NEW f
  PROVE  SumOver(f, {}) = 0
<1>1. Sums(f, {}) = [s \in SUBSET {} |-> AddStep(f, s, Sums(f, {}))]
  BY SumsExist, FS_EmptySet
<1>2. SumOver(f, {}) = AddStep(f, {}, Sums(f, {}))
  BY <1>1 DEF SumOver
<1>3. QED
  BY <1>2 DEF AddStep

(* Equal summands make equal sums.                                         *)
LEMMA SumSame ==
  ASSUME NEW f, NEW g, NEW S, IsFiniteSet(S), \A x \in S : f[x] = g[x]
  PROVE  SumOver(f, S) = SumOver(g, S)
BY SumsAgree DEF SumOver

(* One element is taken off the sum at a time, ...                         *)
LEMMA SumOfSome ==
  ASSUME NEW f, NEW S, IsFiniteSet(S), S # {}
  PROVE  SumOver(f, S) = f[Some(S)] + SumOver(f, S \ {Some(S)})
<1>1. Sums(f, S) = [s \in SUBSET S |-> AddStep(f, s, Sums(f, S))]
  BY SumsExist
<1>2. SumOver(f, S) = f[Some(S)] + Sums(f, S)[S \ {Some(S)}]
  BY <1>1 DEF SumOver, AddStep
<1>3. IsFiniteSet(S \ {Some(S)})
  BY FS_RemoveElement
<1>4. Sums(f, S)[S \ {Some(S)}] = SumOver(f, S \ {Some(S)})
  BY <1>3, SumsAgree DEF SumOver
<1>5. QED
  BY <1>2, <1>4

(* ... so that sums of numbers are numbers, ...                            *)
LEMMA SumIsNat ==
  ASSUME NEW f, NEW S, IsFiniteSet(S), \A x \in S : f[x] \in Nat
  PROVE  SumOver(f, S) \in Nat
<1> DEFINE N == {n \in Nat : \A s \in SUBSET S : Cardinality(s) = n => SumOver(f, s) \in Nat}
<1>1. \A s \in SUBSET S : IsFiniteSet(s) /\ Cardinality(s) \in Nat
  BY FS_Subset, FS_CardinalityType
<1>2. 0 \in N
  <2>1. \A s \in SUBSET S : Cardinality(s) = 0 => s = {}
    BY <1>1, FS_EmptySet
  <2>2. QED
    BY <2>1, SumEmpty
<1>3. ASSUME NEW n \in Nat, n \in N
      PROVE  n + 1 \in N
  <2> SUFFICES ASSUME NEW s \in SUBSET S, Cardinality(s) = n + 1
               PROVE  SumOver(f, s) \in Nat
    OBVIOUS
  <2>1. s # {}
    BY FS_EmptySet
  <2>2. Some(s) \in s
    BY <2>1 DEF Some
  <2>3. s \ {Some(s)} \in SUBSET S /\ Cardinality(s \ {Some(s)}) = n
    <3>1. IsFiniteSet(s)
      BY <1>1
    <3>2. Cardinality(s \ {Some(s)}) = Cardinality(s) - 1
      BY <2>2, <3>1, FS_RemoveElement
    <3>3. QED
      BY <3>2
  <2>4. SumOver(f, s) = f[Some(s)] + SumOver(f, s \ {Some(s)})
    BY <1>1, <2>1, SumOfSome
  <2>5. QED
    BY <1>3, <2>2, <2>3, <2>4
<1> HIDE DEF N
<1>4. \A n \in Nat : n \in N
  BY <1>2, <1>3, Induct!NatInduct
<1>5. QED
  BY <1>1, <1>4 DEF N

(* ... and it does not matter which element is taken off.                  *)
LEMMA SumWithout ==
  ASSUME NEW f, NEW S, IsFiniteSet(S), \A x \in S : f[x] \in Nat
  PROVE  \A x \in S : SumOver(f, S) = f[x] + SumOver(f, S \ {x})
<1> DEFINE N == {n \in Nat : \A s \in SUBSET S : Cardinality(s) = n =>
                               \A x \in s : SumOver(f, s) = f[x] + SumOver(f, s \ {x})}
<1>1. \A s \in SUBSET S : IsFiniteSet(s) /\ Cardinality(s) \in Nat
  BY FS_Subset, FS_CardinalityType
<1>2. 0 \in N
  <2>1. \A s \in SUBSET S : Cardinality(s) = 0 => s = {}
    BY <1>1, FS_EmptySet
  <2>2. QED
    BY <2>1
<1>3. ASSUME NEW n \in Nat, n \in N
      PROVE  n + 1 \in N
  <2> SUFFICES ASSUME NEW s \in SUBSET S, Cardinality(s) = n + 1, NEW x \in s
               PROVE  SumOver(f, s) = f[x] + SumOver(f, s \ {x})
    OBVIOUS
  <2>1. PICK c : c = Some(s)
    OBVIOUS
  <2>2. c \in s
    BY <2>1 DEF Some
  <2>3. SumOver(f, s) = f[c] + SumOver(f, s \ {c})
    BY <1>1, <2>1, SumOfSome
  <2>4. CASE x = c
    BY <2>3, <2>4
  <2>5. CASE x # c
    <3>1. /\ s \ {c} \in SUBSET S /\ Cardinality(s \ {c}) = n /\ x \in s \ {c}
          /\ s \ {x} \in SUBSET S /\ Cardinality(s \ {x}) = n /\ c \in s \ {x}
      <4>1. IsFiniteSet(s)
        BY <1>1
      <4>2. Cardinality(s \ {c}) = Cardinality(s) - 1 /\ Cardinality(s \ {x}) = Cardinality(s) - 1
        BY <2>2, <4>1, FS_RemoveElement
      <4>3. QED
        BY <2>2, <2>5, <4>2
    <3>2. /\ SumOver(f, s \ {c}) = f[x] + SumOver(f, (s \ {c}) \ {x})
          /\ SumOver(f, s \ {x}) = f[c] + SumOver(f, (s \ {x}) \ {c})
      BY <1>3, <3>1
    <3>3. (s \ {c}) \ {x} = (s \ {x}) \ {c}
      OBVIOUS
    <3>4. PICK rest : rest = SumOver(f, (s \ {c}) \ {x})
      OBVIOUS
    <3>5. rest \in Nat /\ f[x] \in Nat /\ f[c] \in Nat
      <4>1. (s \ {c}) \ {x} \in SUBSET S
        OBVIOUS
      <4>2. IsFiniteSet((s \ {c}) \ {x}) /\ \A y \in (s \ {c}) \ {x} : f[y] \in Nat
        BY <1>1, <4>1
      <4>3. QED
        BY <2>2, <3>4, <4>2, SumIsNat
    <3>6. SumOver(f, s \ {c}) = f[x] + rest /\ SumOver(f, s \ {x}) = f[c] + rest
      BY <3>2, <3>3, <3>4
    <3>7. QED
      BY <2>3, <3>5, <3>6
  <2>6. QED
    BY <2>4, <2>5
<1> HIDE DEF N
<1>4. \A n \in Nat : n \in N
  BY <1>2, <1>3, Induct!NatInduct
<1>5. QED
  BY <1>1, <1>4 DEF N

Adding == INSTANCE Folding WITH Op <- Added

-----------------------------------------------------------------------------
(* The nodes of a list of contexts.                                        *)

NodesIn(list, known) == FoldLeft(LAMBDA sum, context : sum + known[context[1]].content.nodes, 0, list)

(* The nodes of contexts, apart from the documents they are looked up in.  *)
LEMMA NodesAre ==
  ASSUME NEW list
  PROVE  NodesOf(list) = NodesIn(list, docs)
BY DEF NodesOf, NodesIn, AddNodes, FoldLeft, MapThenFoldSet, Max

(* The same of the next state.                                             *)
LEMMA NodesNow == NodesOf(contexts)' = NodesIn(contexts', docs')
BY DEF NodesOf, NodesIn, AddNodes, FoldLeft, MapThenFoldSet, Max

(* Both lists are walked from their first element on.                      *)
LEMMA NodesFold ==
  ASSUME NEW list
  PROVE  NodesOf(list) = Induct!Fold(0, list)
BY DEF NodesOf, FoldLeft, MapThenFoldSet, Max, Induct!Fold, Induct!Iterated,
       Induct!Iterates, Induct!Step, Induct!Largest

(* Contexts are added one after the other.                                 *)
LEMMA AddsFold ==
  ASSUME NEW more
  PROVE  AddAll(more) = Adding!Fold([list |-> contexts, full |-> FALSE], more)
BY DEF AddAll, FoldLeft, MapThenFoldSet, Max, Adding!Fold, Adding!Iterated,
       Adding!Iterates, Adding!Step, Adding!Largest

(* An empty list has no nodes.                                             *)
LEMMA NodesEmpty == NodesOf(<<>>) = 0
<1>1. DOMAIN <<>> = 1..0
  OBVIOUS
<1>2. QED
  BY <1>1, NodesFold, Induct!FoldEmpty

(* A context adds the nodes of its document.                               *)
LEMMA NodesAppend ==
  ASSUME NEW S, NEW list \in Seq(S), NEW c \in S
  PROVE  NodesOf(Append(list, c)) = NodesOf(list) + docs[c[1]].content.nodes
<1> DEFINE n == Len(list)
           t == Append(list, c)
<1>1. n \in Nat /\ DOMAIN list = 1..n /\ DOMAIN t = 1..n + 1 /\ t[n + 1] = c /\ \A i \in 1..n : t[i] = list[i]
  BY AppendProperties, LenProperties
<1> HIDE DEF n, t
<1>2. Induct!Fold(0, t) = AddNodes(Induct!Fold(0, list), t[n + 1])
  BY <1>1, Induct!FoldAppend DEF Induct!Alike
<1>3. QED
  BY <1>1, <1>2, NodesFold DEF AddNodes, t

-----------------------------------------------------------------------------
(* Contexts are within the limits, also while more of them are added.      *)

Within(list) ==
  /\ list \in Seq(Range(list)) /\ \A c \in Range(list) : c[1] \in DOMAIN docs
  /\ Len(list) <= MaxSchemaTargetContexts
  /\ NodesOf(list) \in Nat /\ NodesOf(list) <= MaxSchemaInstantiatedNodes

IsAdded(acc) == acc = [list |-> acc.list, full |-> acc.full] /\ Within(acc.list)

(* A context is only added within the limits (schemaTargetContexts.add),   *)
LEMMA AddedWithin ==
  ASSUME ShapeInv, NEW acc, IsAdded(acc), NEW c, c[1] \in DOMAIN docs
  PROVE  IsAdded(Added(acc, c))
<1>1. PICK list, full : acc = [list |-> list, full |-> full] /\ list = acc.list
  BY DEF IsAdded
<1>2. Within(list)
  BY <1>1 DEF IsAdded
<1>3. PICK added : added = Added(acc, c)
  OBVIOUS
<1>4. added = acc \/ added = [acc EXCEPT !.full = TRUE] \/
      /\ added = [acc EXCEPT !.list = Append(@, c)]
      /\ ~(Len(list) >= MaxSchemaTargetContexts)
      /\ ~(docs[c[1]].content.nodes > MaxSchemaInstantiatedNodes - NodesOf(list))
  BY <1>1, <1>3 DEF Added
<1>5. CASE added = acc
  BY <1>3, <1>5
<1>6. CASE added = [acc EXCEPT !.full = TRUE]
  <2>1. added = [list |-> list, full |-> TRUE]
    BY <1>1, <1>6
  <2>2. added.list = list /\ added.full = TRUE
    BY <2>1
  <2>3. QED
    BY <1>2, <1>3, <2>1, <2>2 DEF IsAdded
<1>7. CASE /\ added = [acc EXCEPT !.list = Append(@, c)]
           /\ ~(Len(list) >= MaxSchemaTargetContexts)
           /\ ~(docs[c[1]].content.nodes > MaxSchemaInstantiatedNodes - NodesOf(list))
  <2>1. added = [list |-> Append(list, c), full |-> full]
    BY <1>1, <1>7
  <2>2. added.list = Append(list, c) /\ added.full = full
    BY <2>1
  <2>3. IsContent(docs[c[1]].content)
    BY ContentFacts
  <2>4. PICK nodes : nodes = docs[c[1]].content.nodes
    OBVIOUS
  <2>5. nodes \in Nat
    BY <2>3, <2>4 DEF IsContent
  <2> DEFINE S == Range(list) \union {c}
             longer == Append(list, c)
  <2>6. list \in Seq(S) /\ c \in S
    <3>1. Range(list) \subseteq S
      OBVIOUS
    <3>2. list \in Seq(Range(list))
      BY <1>2 DEF Within
    <3> HIDE DEF S
    <3>3. list \in Seq(S)
      BY <3>1, <3>2, SeqMonotonic
    <3>4. QED
      BY <3>3 DEF S
  <2>7. \A d \in S : d[1] \in DOMAIN docs
    BY <1>2 DEF Within
  <2> HIDE DEF S
  <2>8. NodesOf(longer) = NodesOf(list) + nodes
    BY <2>4, <2>6, NodesAppend
  <2>9. longer \in Seq(S) /\ Len(longer) = Len(list) + 1 /\ Len(list) \in Nat
    BY <2>6, AppendProperties, LenProperties
  <2> HIDE DEF longer
  <2>10. longer \in Seq(Range(longer)) /\ Range(longer) \in SUBSET S
    BY <2>9, SeqOfRange, RangeOfSeq
  <2>11. Len(longer) <= MaxSchemaTargetContexts
    BY <1>7, <2>9, LimitAssumption
  <2>12. NodesOf(longer) \in Nat /\ NodesOf(longer) <= MaxSchemaInstantiatedNodes
    <3>1. NodesOf(list) \in Nat
      BY <1>2 DEF Within
    <3>2. PICK some, more : some = NodesOf(list) /\ more = NodesOf(longer)
      OBVIOUS
    <3>3. some \in Nat /\ more = some + nodes /\ ~(nodes > MaxSchemaInstantiatedNodes - some)
      BY <1>7, <2>4, <2>8, <3>1, <3>2
    <3>4. more \in Nat /\ more <= MaxSchemaInstantiatedNodes
      BY ONLY <2>5, <3>3, LimitAssumption
    <3>5. QED
      BY <3>2, <3>4
  <2>13. Within(longer)
    BY <2>7, <2>10, <2>11, <2>12 DEF Within
  <2>14. QED
    BY <1>3, <2>1, <2>2, <2>13 DEF IsAdded, longer
<1>8. QED
  BY <1>4, <1>5, <1>6, <1>7

(* ... also when many are added.                                           *)
LEMMA AllWithin ==
  ASSUME ShapeInv, Within(contexts), NEW more, NEW n \in Nat, DOMAIN more = 1..n,
         \A i \in 1..n : more[i][1] \in DOMAIN docs
  PROVE  Within(AddAll(more).list)
<1>1. PICK f : /\ f[0] = [list |-> contexts, full |-> FALSE] /\ f[n] = AddAll(more)
               /\ \A k \in 0..n - 1 : f[k + 1] = Added(f[k], more[k + 1])
  <2>1. \E f : /\ f[0] = [list |-> contexts, full |-> FALSE] /\ f[n] = Adding!Fold([list |-> contexts, full |-> FALSE], more)
               /\ \A k \in 0..n - 1 : f[k + 1] = Added(f[k], more[k + 1])
    BY ONLY DOMAIN more = 1..n, n \in Nat, Adding!FoldSteps DEF Adding!Folds
  <2>2. AddAll(more) = Adding!Fold([list |-> contexts, full |-> FALSE], more)
    BY AddsFold
  <2>3. QED
    BY ONLY <2>1, <2>2
<1> DEFINE N == {k \in Nat : k <= n => IsAdded(f[k])}
<1>2. 0 \in N
  <2>1. f[0].list = contexts /\ f[0].full = FALSE
    BY <1>1
  <2>2. QED
    BY <1>1, <2>1 DEF IsAdded
<1>3. ASSUME NEW k \in Nat, k \in N
      PROVE  k + 1 \in N
  <2> SUFFICES ASSUME k + 1 <= n
               PROVE  IsAdded(f[k + 1])
    OBVIOUS
  <2>1. IsAdded(f[k]) /\ k \in 0..n - 1 /\ k + 1 \in 1..n
    BY <1>3
  <2>2. QED
    BY <1>1, <2>1, AddedWithin
<1> HIDE DEF N
<1>4. n \in N
  BY <1>2, <1>3, Induct!NatInduct
<1>5. IsAdded(f[n])
  BY <1>4 DEF N
<1>6. QED
  BY <1>1, <1>5 DEF IsAdded

-----------------------------------------------------------------------------
(* The lists that contexts are made from.                                  *)

(* Documents have different names, so that they have an order.             *)
LEMMA InOrderFacts ==
  ASSUME ShapeInv, NEW keys \in SUBSET DOMAIN docs
  PROVE  /\ IsFiniteSet(keys) /\ Cardinality(keys) \in Nat /\ DOMAIN InOrder(keys) = 1..Cardinality(keys)
         /\ InOrder(keys) \in Seq(keys)
         /\ \A x \in keys : \E i \in 1..Cardinality(keys) : InOrder(keys)[i] = x
         /\ \A i, j \in 1..Cardinality(keys) : InOrder(keys)[i] = InOrder(keys)[j] => i = j
<1> DEFINE rank == [key \in DOMAIN docs |-> Rank[docs[key].name]]
<1>1. IsFiniteSet(keys)
  BY FS_Subset DEF ShapeInv, DocsInv
<1>2. \A key \in keys : docs[key].name \in DOMAIN Rank /\ Key[docs[key].name] = key /\ rank[key] = Rank[docs[key].name]
  BY DEF ShapeInv, DocsInv, IsDoc
<1>3. InOrder(keys) = Ascending(keys, rank)
  BY DEF InOrder
<1> HIDE DEF rank
<1>4. (\A x \in keys : rank[x] \in Nat) /\ (\A x, y \in keys : rank[x] = rank[y] => x = y)
  <2>1. \A x \in keys : rank[x] \in Nat
    BY <1>2, NamesAssumption
  <2>2. ASSUME NEW x \in keys, NEW y \in keys, rank[x] = rank[y]
        PROVE  x = y
    <3>1. PICK m, n : m = docs[x].name /\ n = docs[y].name
      OBVIOUS
    <3>2. m \in DOMAIN Rank /\ n \in DOMAIN Rank /\ Rank[m] = Rank[n] /\ Key[m] = x /\ Key[n] = y
      BY <1>2, <2>2, <3>1
    <3>3. m = n
      BY <3>2, NamesAssumption
    <3>4. QED
      BY <3>2, <3>3
  <2>3. QED
    BY <2>1, <2>2
<1>5. QED
  BY <1>1, <1>3, <1>4, AscendingFacts

(* The documents that adopt a namespace are loaded, and each is listed.    *)
LEMMA AdoptedFacts ==
  ASSUME ShapeInv, NEW context
  PROVE  /\ \E n \in Nat : DOMAIN Adopted(context) = 1..n
         /\ Range(Adopted(context)) = AdoptedBy(context)
         /\ \A c \in AdoptedBy(context) : c[1] \in DOMAIN docs
<1> DEFINE key == context[1]
           S == {ref \in Includes(key) : Declared(bound[ref]) = ""}
           rank == [ref \in DOMAIN bound |-> ref[2]]
           refs == Ascending(S, rank)
           n == Cardinality(S)
<1>1. \A ref \in S : ref \in DOMAIN bound /\ ref[1] = key /\ bound[ref] \in DOMAIN docs
  BY DEF Includes, Edges, Loaded
<1>2. \A ref \in S : /\ ref = <<key, ref[2]>> /\ key \in DOMAIN docs /\ ref[2] \in DOMAIN docs[key].content.refs
                     /\ rank[ref] = ref[2]
  BY <1>1, CallFacts
<1> HIDE DEF S, rank
<1>3. key \in DOMAIN docs => /\ Len(docs[key].content.refs) \in Nat
                             /\ DOMAIN docs[key].content.refs = 1..Len(docs[key].content.refs)
  <2> HIDE DEF key
  <2> SUFFICES ASSUME key \in DOMAIN docs
               PROVE  /\ Len(docs[key].content.refs) \in Nat
                      /\ DOMAIN docs[key].content.refs = 1..Len(docs[key].content.refs)
    OBVIOUS
  <2>1. docs[key].content.refs \in Seq(References)
    BY ContentFacts DEF IsContent
  <2>2. QED
    BY <2>1, LenProperties
<1> HIDE DEF key
<1>4. IsFiniteSet(S)
  <2>1. CASE S = {}
    BY <2>1, FS_EmptySet
  <2>2. CASE S # {}
    <3>1. key \in DOMAIN docs
      BY <1>2, <2>2
    <3>2. IsFiniteSet({key} \X (1..Len(docs[key].content.refs)))
      <4>1. IsFiniteSet({key})
        BY FS_Singleton
      <4>2. PICK m \in Nat : m = Len(docs[key].content.refs)
        BY <1>3, <3>1
      <4>3. IsFiniteSet(1..m)
        BY FS_Interval
      <4>4. QED
        BY <4>1, <4>2, <4>3, FS_Product
    <3>3. S \in SUBSET ({key} \X (1..Len(docs[key].content.refs)))
      BY <1>2, <1>3, <3>1
    <3>4. QED
      BY <3>2, <3>3, FS_Subset
  <2>3. QED
    BY <2>1, <2>2
<1>5. (\A x \in S : rank[x] \in Nat) /\ (\A x, y \in S : rank[x] = rank[y] => x = y)
  BY <1>2, <1>3
<1>6. n \in Nat /\ DOMAIN refs = 1..n /\ refs \in Seq(S)
  BY <1>4, <1>5, AscendingFacts
<1>7. \A x \in S : \E i \in 1..n : refs[i] = x
  <2>1. \A x \in S : \E i \in 1..Cardinality(S) : Ascending(S, rank)[i] = x
    BY <1>4, <1>5, AscendingFacts
  <2>2. QED
    BY <2>1
<1> HIDE DEF refs, n
<1>8. \A i \in 1..n : refs[i] \in S
  BY <1>6
<1>9. Adopted(context) = [i \in 1..n |-> <<bound[refs[i]], context[2]>>]
  BY <1>6 DEF Adopted, refs, S, rank, key
<1>10. DOMAIN Adopted(context) = 1..n /\ \A i \in 1..n : Adopted(context)[i] = <<bound[refs[i]], context[2]>>
  BY <1>9
<1>11. AdoptedBy(context) = {<<bound[ref], context[2]>> : ref \in S}
  BY DEF AdoptedBy, S, key
<1>12. \A ref \in S : <<bound[ref], context[2]>>[1] \in DOMAIN docs
  BY <1>1
<1>13. \A c \in AdoptedBy(context) : c[1] \in DOMAIN docs
  BY <1>11, <1>12
<1>14. Range(Adopted(context)) = AdoptedBy(context)
  <2>1. PICK list : list = Adopted(context)
    OBVIOUS
  <2>2. DOMAIN list = 1..n /\ \A i \in 1..n : list[i] = <<bound[refs[i]], context[2]>>
    BY <1>10, <2>1
  <2>3. Range(list) = {list[i] : i \in 1..n}
    BY <2>2 DEF Range
  <2>4. \A i \in 1..n : list[i] \in AdoptedBy(context)
    BY <1>8, <1>11, <2>2
  <2>5. \A ref \in S : \E i \in 1..n : list[i] = <<bound[ref], context[2]>>
    BY <1>7, <2>2
  <2>6. \A c \in AdoptedBy(context) : \E i \in 1..n : list[i] = c
    BY <1>11, <2>5
  <2>7. QED
    BY <2>1, <2>3, <2>4, <2>6
<1>15. QED
  BY <1>6, <1>10, <1>13, <1>14

(* The sequence has each element of S once.                                *)
Enumerates(s, n, S) ==
  /\ s \in [1..n -> S] /\ \A x \in S : \E i \in 1..n : s[i] = x
  /\ \A i, j \in 1..n : s[i] = s[j] => i = j

(* The nodes of distinct documents in a row are the sum of their nodes.    *)
LEMMA NodesInARow ==
  ASSUME NEW g, NEW S, IsFiniteSet(S), \A x \in S : g[x] \in Nat,
         NEW n \in Nat, NEW s, Enumerates(s, n, S),
         NEW list, DOMAIN list = 1..n, \A i \in 1..n : docs[list[i][1]].content.nodes = g[s[i]]
  PROVE  NodesOf(list) = SumOver(g, S)
<1>0. /\ s \in [1..n -> S] /\ \A x \in S : \E i \in 1..n : s[i] = x
      /\ \A i, j \in 1..n : s[i] = s[j] => i = j
  BY DEF Enumerates
<1>1. PICK f : /\ f[0] = 0 /\ f[n] = NodesOf(list)
               /\ \A k \in 0..n - 1 : f[k + 1] = AddNodes(f[k], list[k + 1])
  <2>1. \E f : /\ f[0] = 0 /\ f[n] = Induct!Fold(0, list)
               /\ \A k \in 0..n - 1 : f[k + 1] = AddNodes(f[k], list[k + 1])
    <3>1. PICK f : Induct!Folds(0, list, n, f)
      BY ONLY DOMAIN list = 1..n, n \in Nat, Induct!FoldSteps
    <3>2. QED
      BY ONLY <3>1 DEF Induct!Folds
  <2>2. NodesOf(list) = Induct!Fold(0, list)
    BY NodesFold
  <2>3. QED
    BY ONLY <2>1, <2>2
<1> DEFINE First(k) == {x \in S : \E i \in 1..k : s[i] = x}
           N == {k \in Nat : k <= n => f[k] = SumOver(g, First(k))}
<1>2. \A k \in Nat : IsFiniteSet(First(k)) /\ First(k) \subseteq S
  BY FS_Subset
<1>3. 0 \in N
  <2>1. First(0) = {}
    OBVIOUS
  <2>2. QED
    BY <1>1, <2>1, SumEmpty
<1>4. ASSUME NEW k \in Nat, k \in N
      PROVE  k + 1 \in N
  <2> SUFFICES ASSUME k + 1 <= n
               PROVE  f[k + 1] = SumOver(g, First(k + 1))
    OBVIOUS
  <2>1. k \in 0..n - 1 /\ k + 1 \in 1..n /\ s[k + 1] \in S
    BY <1>0
  <2>2. f[k] = SumOver(g, First(k))
    BY <1>4, <2>1
  <2>3. f[k + 1] = f[k] + g[s[k + 1]]
    <3>1. f[k + 1] = AddNodes(f[k], list[k + 1])
      BY <1>1, <2>1
    <3>2. docs[list[k + 1][1]].content.nodes = g[s[k + 1]]
      BY <2>1
    <3>3. QED
      BY ONLY <3>1, <3>2 DEF AddNodes
  <2>4. s[k + 1] \in First(k + 1) /\ First(k + 1) \ {s[k + 1]} = First(k)
    <3>1. \A i \in 1..k + 1 : i \in 1..k \/ i = k + 1
      OBVIOUS
    <3>2. \A i \in 1..k : i \in 1..k + 1 /\ i \in 1..n /\ s[i] # s[k + 1]
      BY <1>0, <2>1
    <3>3. s[k + 1] \in First(k + 1)
      BY <2>1
    <3>4. \A x \in First(k + 1) : x = s[k + 1] \/ x \in First(k)
      BY <3>1
    <3>5. \A x \in First(k) : x \in First(k + 1) /\ x # s[k + 1]
      BY <3>2
    <3> HIDE DEF First
    <3>6. QED
      BY <3>3, <3>4, <3>5
  <2>5. IsFiniteSet(First(k + 1)) /\ \A x \in First(k + 1) : g[x] \in Nat
    <3>1. k + 1 \in Nat
      OBVIOUS
    <3> HIDE DEF First
    <3>2. QED
      BY <1>2, <3>1
  <2> HIDE DEF First
  <2>6. SumOver(g, First(k + 1)) = g[s[k + 1]] + SumOver(g, First(k))
    BY <2>4, <2>5, SumWithout
  <2>7. SumOver(g, First(k)) \in Nat /\ g[s[k + 1]] \in Nat
    BY <1>2, <2>1, SumIsNat
  <2>8. QED
    BY <2>2, <2>3, <2>6, <2>7
<1>5. First(n) = S
  BY <1>0
<1> HIDE DEF N, First
<1>6. n \in N
  BY <1>3, <1>4, Induct!NatInduct
<1>7. QED
  BY <1>1, <1>5, <1>6 DEF N

-----------------------------------------------------------------------------
(* The inductive invariant of the budgets.                                 *)

Counts(known) == [key \in DOMAIN known |-> Cardinality(known[key].sources) * Len(known[key].content.refs)]
Sizes(known) == [key \in DOMAIN known |-> known[key].content.nodes]

(* A document is that of an explicit source, or was let in.                *)
ResolvedInv ==
  /\ IsFiniteSet(resolved) /\ Cardinality(resolved) <= MaxSchemaSources - Cardinality(world.explicit)
  /\ \A key \in DOMAIN docs : key \in resolved \/ \E s \in world.explicit : KeyOf(s) = key
  /\ pc \in Reading => item.source \in world.explicit \/ KeyOf(item.source) \in resolved

(* What is read fits what is left, or shows that it does not.              *)
BytesInv ==
  /\ totalBytes \in Nat /\ totalBytes <= MaxSchemaTotalBytes
  /\ pc \in {"close", "acquired"} => got.bytes \in Nat /\ totalBytes + got.bytes <= MaxSchemaTotalBytes + 1

CountsInv ==
  /\ references \in Nat /\ references <= MaxSchemaReferences /\ references = SumOver(Counts(docs), DOMAIN docs)
  /\ parsedNodes \in Nat /\ parsedNodes <= MaxSchemaInstantiatedNodes /\ parsedNodes = SumOver(Sizes(docs), DOMAIN docs)

(* There are no contexts before all documents are loaded.                  *)
Whole == {"propagate", "loaded"} \union Failures
ContextsInv == Within(contexts) /\ (pc \notin Whole => contexts = <<>>)

BudgetInv == ResolvedInv /\ BytesInv /\ CountsInv /\ ContextsInv

(* Contexts of documents that are the same.                                *)
LEMMA WithinNow ==
  ASSUME docs' = docs, NEW list, Within(list), contexts' = list
  PROVE  Within(contexts)'
<1>1. NodesOf(contexts)' = NodesOf(list)
  BY NodesNow, NodesAre
<1>2. QED
  BY <1>1 DEF Within

(* No contexts cost nothing, whatever the documents.                       *)
LEMMA NoContexts ==
  ASSUME contexts' = <<>>
  PROVE  Within(contexts)'
<1>1. DOMAIN contexts' = {} /\ Range(contexts') = {} /\ Len(contexts') = 0
  BY DEF Range
<1>2. NodesOf(contexts)' = 0
  <2>1. NodesIn(<<>>, docs') = 0
    <3> DEFINE known == docs'
               value(s, iter) == IF s = {} THEN 0
                 ELSE LET x == CHOOSE x \in s : \A y \in s : x >= y IN iter[s \ {x}] + known[<<>>[x][1]].content.nodes
               iter == CHOOSE iter : iter = [s \in SUBSET {} |-> value(s, iter)]
    <3>1. DOMAIN <<>> = {}
      OBVIOUS
    <3>2. PICK g : g = [s \in SUBSET {} |-> 0]
      OBVIOUS
    <3>3. \A s \in SUBSET {} : value(s, g) = 0
      OBVIOUS
    <3>4. NodesIn(<<>>, docs') = iter[{}]
      BY <3>1 DEF NodesIn, FoldLeft, MapThenFoldSet, Max
    <3> HIDE DEF value
    <3>5. g = [s \in SUBSET {} |-> value(s, g)]
      BY <3>2, <3>3
    <3>6. iter = [s \in SUBSET {} |-> value(s, iter)]
      BY <3>5, Zenon
    <3> HIDE DEF iter
    <3>7. iter[{}] = value({}, iter)
      BY <3>6
    <3>8. QED
      BY <3>4, <3>7 DEF value
  <2>2. QED
    BY <2>1, NodesNow
<1>3. contexts' \in Seq(Range(contexts'))
  OBVIOUS
<1>4. QED
  BY <1>1, <1>2, <1>3, LimitAssumption DEF Within

(* Nothing has been spent at first.                                        *)
LEMMA InitBudget == Init => BudgetInv
<1> SUFFICES ASSUME Init
             PROVE  BudgetInv
  OBVIOUS
<1>1. /\ world \in Worlds /\ docs = <<>> /\ resolved = {} /\ totalBytes = 0 /\ references = 0
      /\ parsedNodes = 0 /\ contexts = <<>> /\ pc = "take"
  BY DEF Init
<1>2. IsFiniteSet(world.explicit) /\ Cardinality(world.explicit) <= MaxSchemaSources
  BY <1>1, WorldsAssumption DEF IsWorld
<1>3. DOMAIN docs = {}
  BY <1>1
<1>4. ResolvedInv
  <2>1. Cardinality(world.explicit) \in Nat
    BY <1>2, FS_CardinalityType
  <2>2. IsFiniteSet({}) /\ Cardinality({}) = 0
    BY FS_EmptySet
  <2>3. QED
    BY <1>1, <1>2, <1>3, <2>1, <2>2, LimitAssumption DEF ResolvedInv, Reading
<1>5. BytesInv
  BY <1>1, LimitAssumption DEF BytesInv
<1>6. CountsInv
  BY <1>1, <1>3, SumEmpty, LimitAssumption DEF CountsInv
<1>7. ContextsInv
  <2>1. NodesOf(contexts) = 0
    BY <1>1, NodesEmpty
  <2>2. Range(contexts) = {} /\ Len(contexts) = 0 /\ contexts \in Seq(Range(contexts))
    BY <1>1 DEF Range
  <2>3. QED
    BY <1>1, <2>1, <2>2, LimitAssumption DEF ContextsInv, Within
<1>8. QED
  BY <1>4, <1>5, <1>6, <1>7 DEF BudgetInv

(* Steps that charge nothing.                                              *)
LEMMA SameBudget ==
  ASSUME BudgetInv, UNCHANGED <<world, docs, budget, contexts>>,
         pc' \in Reading => item'.source \in world.explicit \/ KeyOf(item'.source) \in resolved,
         pc' \in {"close", "acquired"} => got'.bytes \in Nat /\ totalBytes + got'.bytes <= MaxSchemaTotalBytes + 1,
         pc' \in Whole \/ contexts = <<>>
  PROVE  BudgetInv'
<1>1. /\ world' = world /\ docs' = docs /\ resolved' = resolved /\ totalBytes' = totalBytes
      /\ references' = references /\ parsedNodes' = parsedNodes /\ contexts' = contexts
  BY DEF budget
<1>2. ResolvedInv'
  BY <1>1 DEF BudgetInv, ResolvedInv, Reading, KeyOf
<1>3. BytesInv'
  BY <1>1 DEF BudgetInv, BytesInv
<1>4. CountsInv'
  BY <1>1 DEF BudgetInv, CountsInv
<1>5. Within(contexts)'
  BY <1>1, WithinNow DEF BudgetInv, ContextsInv
<1>6. ContextsInv'
  BY <1>1, <1>5 DEF ContextsInv, Whole
<1>7. QED
  BY <1>2, <1>3, <1>4, <1>6 DEF BudgetInv

(* Failing charges nothing,                                                *)
LEMMA StopBudget ==
  ASSUME BudgetInv, UNCHANGED <<world, docs, budget, contexts>>, pc' \in Failures
  PROVE  BudgetInv'
<1>1. pc' \notin Reading /\ pc' \notin {"close", "acquired"} /\ pc' \in Whole
  BY DEF Failures, Reading, Whole
<1>2. QED
  BY <1>1, SameBudget

(* ... wherever the loader stops.                                          *)
LEMMA StopCharges ==
  ASSUME BudgetInv, NEW failure \in Failures, Stop(failure)
  PROVE  BudgetInv'
<1>1. UNCHANGED <<world, docs, budget, contexts>> /\ pc' \in Failures
  BY DEF Stop, Goto, graph, targets
<1>2. QED
  BY <1>1, StopBudget

(* What is left is a number.                                               *)
LEMMA Left ==
  ASSUME BudgetInv
  PROVE  Remaining \in Nat /\ ReadLimit \in Nat /\ ReadLimit <= Remaining /\ totalBytes + Remaining = MaxSchemaTotalBytes
BY LimitAssumption DEF BudgetInv, BytesInv, Remaining, ReadLimit

(* Requests are taken and sources are read without a charge.               *)
LEMMA QuietBudget ==
  ASSUME GraphInv, BudgetInv,
         Cancel \/ StopCanceled \/ Take \/ Acquire \/ AcquireFails \/ SkipAbsent \/ LoadRejected \/ RepeatRejected
           \/ CheckTargets
  PROVE  BudgetInv'
<1>0. pc \notin Whole => contexts = <<>>
  BY DEF BudgetInv, ContextsInv
<1>1. CASE Cancel
  <2>1. UNCHANGED <<world, docs, budget, contexts, pc, item, got>>
    BY <1>1 DEF Cancel, graph, targets
  <2>2. QED
    BY <1>0, <2>1, SameBudget DEF BudgetInv, ResolvedInv, BytesInv
<1>2. CASE StopCanceled
  BY <1>2, StopCharges DEF StopCanceled, Failures
<1>3. CASE Take
  <2>1. /\ UNCHANGED <<world, docs, budget, contexts>> /\ pc = "take" /\ pc' \in {"resolve", "open"}
    BY <1>3 DEF Take, Running, Goto, graph, targets
  <2>2. GraphInv' /\ GraphInv
    BY <1>3, TakeGraph
  <2>3. pc' = "open" => item'.source \in world.explicit
    <3>1. SUFFICES ASSUME pc' = "open"
                   PROVE  item'.source \in world.explicit
      OBVIOUS
    <3>2. queue # <<>> /\ item' = Head(queue) /\ ~item'.resolve
      BY <1>3, <3>1 DEF Take, Goto
    <3>3. queue \in Seq(Range(queue)) /\ \A r \in Range(queue) : IsRequest(r)
      BY <2>1 DEF GraphInv, Failures, WorkInv, QueueInv
    <3>4. Head(queue) \in Range(queue)
      BY <3>2, <3>3
    <3>5. IsRequest(item')
      BY <3>2, <3>3, <3>4
    <3>6. QED
      BY <3>2, <3>5 DEF IsRequest, IsCall, Request
  <2>4. pc \notin Whole
    BY <2>1 DEF Whole, Failures
  <2>5. pc' \in Reading => pc' = "open"
    BY <2>1 DEF Reading
  <2>6. pc' \notin {"close", "acquired"}
    BY <2>1
  <2>7. QED
    BY <1>0, <2>1, <2>3, <2>4, <2>5, <2>6, SameBudget
<1>4. CASE Acquire
  <2>1. UNCHANGED <<world, docs, budget, contexts, item>>
    BY <1>4 DEF Acquire, OpenBytes, OpenFails, OpenReader, CloseRefused, Read, Close, Acquired, graph, targets
  <2>2. pc \in {"open", "refused", "read", "close"}
    BY <1>4 DEF Acquire, OpenBytes, OpenFails, OpenReader, CloseRefused, Read, Close, Running
  <2>3. contexts = <<>> /\ pc \in Reading
    BY <1>0, <2>2 DEF Whole, Failures, Reading
  <2>4. item.source \in world.explicit \/ KeyOf(item.source) \in resolved
    BY <2>3 DEF BudgetInv, ResolvedInv
  <2>5. pc = "close" => got.bytes \in Nat /\ totalBytes + got.bytes <= MaxSchemaTotalBytes + 1
    BY DEF BudgetInv, BytesInv
  <2>6. pc' \in {"close", "acquired"} => got'.bytes \in Nat /\ totalBytes + got'.bytes <= MaxSchemaTotalBytes + 1
    <3>0. \A bytes, error : Acquired(bytes, error) => got'.bytes = bytes
      BY DEF Acquired
    <3>1. totalBytes \in Nat /\ totalBytes <= MaxSchemaTotalBytes /\ totalBytes + 0 <= MaxSchemaTotalBytes + 1
      BY LimitAssumption DEF BudgetInv, BytesInv
    <3>2. HasData(item.source) => Data.size \in Nat
      <4>1. IsRead(item) /\ ShapeInv
        BY <2>2, <2>3 DEF GraphInv, WorkInv, ItemInv, Failures
      <4>2. item.source \in DOMAIN world.data /\ IsWorld(world)
        BY <4>1 DEF IsRead, ShapeInv
      <4>3. HasData(item.source) => IsContent(world.data[item.source])
        BY <4>2 DEF IsWorld, HasData
      <4>4. QED
        BY <4>3 DEF IsContent, Data
    <3>3. CASE OpenBytes
      <4>1. Acquired(0, "limit") \/ (Data.size <= ReadLimit /\ Acquired(Data.size, ""))
        <5>1. Data.size \in Nat /\ ReadLimit \in Nat
          <6>1. HasData(item.source)
            <7>1. IsRead(item) /\ ShapeInv
              BY <2>2, <2>3 DEF GraphInv, WorkInv, ItemInv, Failures
            <7>2. item.source \in DOMAIN world.data /\ IsWorld(world)
              BY <7>1 DEF IsRead, ShapeInv
            <7>3. item.source \in world.bytes
              BY <3>3 DEF OpenBytes
            <7>4. QED
              BY <7>2, <7>3 DEF IsWorld, HasData
          <6>2. QED
            BY <3>2, <6>1, Left
        <5>2. IF Data.size > ReadLimit THEN Acquired(0, "limit") ELSE Acquired(Data.size, "")
          BY <3>3 DEF OpenBytes
        <5>3. PICK size \in Nat, limit \in Nat : size = Data.size /\ limit = ReadLimit
          BY <5>1
        <5>4. CASE size > limit
          BY <5>2, <5>3, <5>4
        <5>5. CASE size <= limit
          BY <5>2, <5>3, <5>5
        <5>6. size > limit \/ size <= limit
          OBVIOUS
        <5>7. QED
          BY <5>4, <5>5, <5>6
      <4>2. CASE Acquired(0, "limit")
        BY <3>0, <3>1, <4>2
      <4>3. CASE Data.size <= ReadLimit /\ Acquired(Data.size, "")
        <5>1. got'.bytes = Data.size
          BY <3>0, <4>3
        <5>2. item.source \in world.bytes
          BY <3>3 DEF OpenBytes
        <5>3. HasData(item.source)
          <6>1. IsRead(item) /\ ShapeInv
            BY <2>2, <2>3 DEF GraphInv, WorkInv, ItemInv, Failures
          <6>2. item.source \in DOMAIN world.data /\ IsWorld(world)
            BY <6>1 DEF IsRead, ShapeInv
          <6>3. QED
            BY <5>2, <6>2 DEF IsWorld, HasData
        <5>4. Data.size \in Nat /\ Data.size <= Remaining
          <6>1. PICK size, limit, left : size = Data.size /\ limit = ReadLimit /\ left = Remaining
            OBVIOUS
          <6>2. size \in Nat /\ size <= limit
            BY <3>2, <4>3, <5>3, <6>1
          <6>3. limit \in Nat /\ left \in Nat /\ limit <= left
            BY <6>1, Left
          <6>4. size <= left
            BY ONLY <6>2, <6>3
          <6>5. QED
            BY <6>1, <6>2, <6>4
        <5>5. QED
          BY <3>1, <5>1, <5>4, Left, LimitAssumption
      <4>4. QED
        BY <4>1, <4>2, <4>3
    <3>4. CASE OpenFails
      <4>1. Acquired(0, "read") \/ Acquired(0, "missing")
        BY <3>4 DEF OpenFails
      <4>2. QED
        BY <3>0, <3>1, <4>1
    <3>5. CASE OpenReader
      BY <3>5 DEF OpenReader, Goto
    <3>6. CASE CloseRefused
      <4>1. Acquired(0, "read") \/ Acquired(0, "missing")
        BY <3>6 DEF CloseRefused
      <4>2. QED
        BY <3>0, <3>1, <4>1
    <3>7. CASE Read
      <4>1. HasData(item.source)
        BY <2>2, <3>7 DEF Read, GraphInv, WorkInv, ItemInv, Failures
      <4>2. PICK bytes \in {n \in 0..Data.size : n <= ReadLimit + 1} :
              got' \in {[bytes |-> bytes, error |-> e] :
                          e \in IF bytes > ReadLimit THEN {"limit"}
                                ELSE {"read"} \union (IF bytes = Data.size /\ ~canceled THEN {""} ELSE {})}
        BY <3>7 DEF Read
      <4>3. PICK e : got' = [bytes |-> bytes, error |-> e]
        BY <4>2
      <4>4. got'.bytes = bytes
        BY ONLY <4>3
      <4>5. bytes \in Nat /\ bytes <= ReadLimit + 1
        <5>1. PICK size \in Nat : size = Data.size
          BY <3>2, <4>1
        <5>2. bytes \in 0..size /\ bytes <= ReadLimit + 1
          BY <4>2, <5>1
        <5>3. QED
          BY <5>2
      <4>6. QED
        BY <3>1, <4>4, <4>5, Left, LimitAssumption
    <3>8. CASE Close
      <4>1. Acquired(got.bytes, got.error) \/ Acquired(got.bytes, "read")
        BY <3>8 DEF Close
      <4>2. pc = "close"
        BY <3>8 DEF Close
      <4>3. QED
        BY <2>5, <3>0, <4>1, <4>2
    <3>9. QED
      BY <1>4, <3>3, <3>4, <3>5, <3>6, <3>7, <3>8 DEF Acquire
  <2>7. QED
    BY <2>1, <2>3, <2>4, <2>6, SameBudget
<1>5. CASE AcquireFails
  BY <1>5, StopCharges DEF AcquireFails, Failures
<1>6. CASE LoadRejected
  BY <1>6, StopCharges DEF LoadRejected, LoadFailure, Failures
<1>7. CASE RepeatRejected
  BY <1>7, StopCharges DEF RepeatRejected, RepeatFailure, Failures
<1>8. CASE SkipAbsent
  <2>1. UNCHANGED <<world, docs, budget, contexts>> /\ pc = "acquired" /\ pc' = "take"
    BY <1>8 DEF SkipAbsent, Running, Goto, graph, targets
  <2>2. pc \notin Whole /\ pc' \notin Reading /\ pc' \notin {"close", "acquired"}
    BY <2>1 DEF Whole, Failures, Reading
  <2>3. QED
    BY <1>0, <2>1, <2>2, SameBudget
<1>9. CASE CheckTargets
  <2>1. Stop("reference") \/ (UNCHANGED <<world, docs, budget, contexts>> /\ pc' = "seed" /\ pc = "take")
    BY <1>9 DEF CheckTargets, Running, Goto, graph, targets
  <2>2. CASE Stop("reference")
    BY <2>2, StopCharges DEF Failures
  <2>3. CASE UNCHANGED <<world, docs, budget, contexts>> /\ pc' = "seed" /\ pc = "take"
    <3>1. pc \notin Whole /\ pc' \notin Reading /\ pc' \notin {"close", "acquired"}
      BY <2>3 DEF Whole, Failures, Reading
    <3>2. QED
      BY <1>0, <2>3, <3>1, SameBudget
  <2>4. QED
    BY <2>1, <2>2, <2>3
<1>10. QED
  BY <1>1, <1>2, <1>3, <1>4, <1>5, <1>6, <1>7, <1>8, <1>9

(* Resolving a reference admits what a resolver returns.                   *)
LEMMA ResolveBudget ==
  ASSUME GraphInv, BudgetInv, Resolve
  PROVE  BudgetInv'
<1>1. pc = "resolve"
  BY DEF Resolve, ResolveFails, ResolveNothing, ResolveIdentity, ResolveSource, Running
<1>2. contexts = <<>>
  BY <1>1 DEF BudgetInv, ContextsInv, Whole, Failures
<1>3. CASE ResolveFails
  BY <1>3, StopCharges DEF ResolveFails, Failures
<1>4. CASE ResolveNothing
  <2>1. UNCHANGED <<world, docs, budget, contexts>> /\ pc' = "take"
    BY <1>4 DEF ResolveNothing, Goto, graph, targets
  <2>2. pc' \notin Reading /\ pc' \notin {"close", "acquired"}
    BY <2>1 DEF Reading
  <2>3. QED
    BY <1>2, <2>1, <2>2, SameBudget
<1>5. CASE ResolveIdentity
  <2>1. Stop("reference") \/ (UNCHANGED <<world, docs, budget, contexts>> /\ pc' = "take")
    BY <1>5 DEF ResolveIdentity, Goto, targets
  <2>2. CASE Stop("reference")
    BY <2>2, StopCharges DEF Failures
  <2>3. CASE UNCHANGED <<world, docs, budget, contexts>> /\ pc' = "take"
    <3>1. pc' \notin Reading /\ pc' \notin {"close", "acquired"}
      BY <2>3 DEF Reading
    <3>2. QED
      BY <1>2, <2>3, <3>1, SameBudget
  <2>4. QED
    BY <2>1, <2>2, <2>3
<1>6. CASE ResolveSource
  <2>1. PICK key, s : s = Answer.source /\ key = KeyOf(s)
    OBVIOUS
  <2>2. Stop("reference") \/ Stop("limit") \/
        /\ Admitted(key) /\ resolved' = resolved \union {key} /\ item' = Request(s, item.ref, FALSE) /\ pc' = "open"
        /\ UNCHANGED <<world, docs, totalBytes, references, parsedNodes, contexts>>
    BY <1>6, <2>1 DEF ResolveSource, KeyOf, Goto, targets
  <2>3. CASE Stop("reference") \/ Stop("limit")
    BY <2>3, StopCharges DEF Failures
  <2>4. CASE /\ Admitted(key) /\ resolved' = resolved \union {key} /\ item' = Request(s, item.ref, FALSE) /\ pc' = "open"
             /\ UNCHANGED <<world, docs, totalBytes, references, parsedNodes, contexts>>
    <3>1. ResolvedInv'
      <4>1. item'.source = s
        BY <2>4, RequestParts
      <4>2. KeyOf(item'.source) \in resolved'
        BY <2>1, <2>4, <4>1
      <4>3. IsFiniteSet(resolved') /\ Cardinality(resolved') <= MaxSchemaSources - Cardinality(world.explicit)
        <5>1. IsFiniteSet(resolved) /\ Cardinality(resolved) <= MaxSchemaSources - Cardinality(world.explicit)
          BY DEF BudgetInv, ResolvedInv
        <5>2. PICK c, e : c = Cardinality(resolved) /\ e = Cardinality(world.explicit)
          OBVIOUS
        <5>3. c \in Nat /\ e \in Nat /\ c <= MaxSchemaSources - e
          <6>1. IsFiniteSet(world.explicit)
            BY DEF GraphInv, ShapeInv, IsWorld
          <6>2. QED
            BY <5>1, <5>2, <6>1, FS_CardinalityType
        <5>4. IsFiniteSet(resolved') /\ Cardinality(resolved') = IF key \in resolved THEN c ELSE c + 1
          BY <2>4, <5>1, <5>2, FS_AddElement
        <5>5. key \in resolved \/ c < MaxSchemaSources - e
          BY <2>4, <5>2 DEF Admitted
        <5>6. Cardinality(resolved') <= MaxSchemaSources - e
          BY <5>3, <5>4, <5>5, LimitAssumption
        <5>7. QED
          BY <5>2, <5>4, <5>6
      <4>4. \A k \in DOMAIN docs : k \in resolved' \/ \E t \in world.explicit : KeyOf(t) = k
        BY <2>4 DEF BudgetInv, ResolvedInv
      <4>5. QED
        BY <2>4, <4>2, <4>3, <4>4 DEF ResolvedInv, KeyOf
    <3>2. BytesInv'
      BY <2>4 DEF BudgetInv, BytesInv
    <3>3. CountsInv'
      BY <2>4 DEF BudgetInv, CountsInv
    <3>4. ContextsInv'
      BY <1>2, <2>4, NoContexts DEF ContextsInv
    <3>5. QED
      BY <3>1, <3>2, <3>3, <3>4 DEF BudgetInv
  <2>5. QED
    BY <2>2, <2>3, <2>4
<1>7. QED
  BY <1>3, <1>4, <1>5, <1>6 DEF Resolve

(* What documents cost are numbers.                                        *)
LEMMA CostsAreNumbers ==
  ASSUME ShapeInv
  PROVE  \A key \in DOMAIN docs : Counts(docs)[key] \in Nat /\ Sizes(docs)[key] \in Nat
<1> SUFFICES ASSUME NEW key \in DOMAIN docs
             PROVE  Counts(docs)[key] \in Nat /\ Sizes(docs)[key] \in Nat
  OBVIOUS
<1>1. IsContent(docs[key].content)
  BY ContentFacts
<1>2. Len(docs[key].content.refs) \in Nat /\ docs[key].content.nodes \in Nat
  BY <1>1, LenProperties DEF IsContent
<1>3. Cardinality(docs[key].sources) \in Nat
  BY FS_CardinalityType DEF ShapeInv, DocsInv, IsDoc
<1>4. \A m, n \in Nat : m * n \in Nat
  OBVIOUS
<1>5. QED
  BY <1>2, <1>3, <1>4 DEF Counts, Sizes

(* Work that is done is not at hand any more.                              *)
LEMMA DoneBudget ==
  ASSUME BudgetInv, pc = "acquired", pc' = "take", UNCHANGED <<world, resolved, contexts>>, got.bytes <= Remaining,
         Charge, CountsInv',
         \A k \in DOMAIN docs' : k \in DOMAIN docs \/ k \in resolved \/ \E s \in world.explicit : KeyOf(s) = k
  PROVE  BudgetInv'
<1>1. contexts = <<>>
  BY DEF BudgetInv, ContextsInv, Whole, Failures
<1>2. ResolvedInv'
  BY DEF BudgetInv, ResolvedInv, KeyOf, Reading
<1>3. BytesInv'
  <2>1. PICK b, r : b = got.bytes /\ r = Remaining
    OBVIOUS
  <2>2. b \in Nat /\ r \in Nat /\ b <= r /\ totalBytes + r = MaxSchemaTotalBytes /\ totalBytes \in Nat
    BY <2>1, Left DEF BudgetInv, BytesInv
  <2>3. totalBytes' = totalBytes + b
    BY <2>1 DEF Charge
  <2>4. totalBytes' \in Nat /\ totalBytes' <= MaxSchemaTotalBytes
    BY <2>2, <2>3, LimitAssumption
  <2>5. QED
    BY <2>4 DEF BytesInv
<1>4. ContextsInv'
  BY <1>1, NoContexts DEF ContextsInv
<1>5. QED
  BY <1>2, <1>3, <1>4 DEF BudgetInv

(* A new document: its nodes and its references fit and are counted.       *)
LEMMA LoadBudget ==
  ASSUME GraphInv, BudgetInv, Load
  PROVE  BudgetInv'
<1>1. PICK s0, key, data : s0 = item.source /\ key = ItemKey /\ data = Data
  OBVIOUS
<1>2. /\ pc = "acquired" /\ pc' = "take" /\ UNCHANGED <<world, resolved, contexts>> /\ got.bytes <= Remaining /\ Charge
      /\ key \notin DOMAIN docs /\ LoadFailure(key, data) = ""
      /\ parsedNodes' = parsedNodes + data.nodes /\ references' = references + Len(data.refs)
  BY <1>1 DEF Load, Usable, Running, Goto, Loaded, Enqueue, targets
<1>3. ShapeInv /\ WorkInv
  BY <1>2 DEF GraphInv, Failures
<1>4. IsRead(item) /\ HasData(s0)
  BY <1>1, <1>2, <1>3 DEF WorkInv, ItemInv, Reading, Load, Usable
<1>5. key = KeyOf(s0) /\ IsContent(data)
  <2>1. s0 \in DOMAIN world.data /\ data = world.data[s0] /\ data # Missing /\ key = KeyOf(s0)
    BY <1>1, <1>4 DEF IsRead, Data, ItemKey, KeyOf, HasData
  <2>2. QED
    BY <1>3, <2>1 DEF ShapeInv, IsWorld
<1>6. PICK n, m : n = data.nodes /\ m = Len(data.refs)
  OBVIOUS
<1>7. n \in Nat /\ m \in Nat
  BY <1>5, <1>6, LenProperties DEF IsContent
<1>8. ~(n > MaxSchemaInstantiatedNodes - parsedNodes) /\ ~(m > MaxSchemaReferences - references)
  BY <1>2, <1>6 DEF LoadFailure, TooManyReferences
<1> DEFINE doc == [name |-> s0.name, content |-> data, sources |-> {s0}, explicitRoot |-> ~Optional]
<1>9. docs' = [k \in DOMAIN docs \union {key} |-> IF k # key THEN docs[k] ELSE doc]
  BY <1>1 DEF Load
<1>10. doc.sources = {s0} /\ doc.content = data
  OBVIOUS
<1> HIDE DEF doc
<1>11. /\ DOMAIN docs' = DOMAIN docs \union {key} /\ docs'[key] = doc
       /\ \A k \in DOMAIN docs : k # key /\ docs'[k] = docs[k]
  BY <1>2, <1>9
<1>12. PICK old, new, before, after : /\ old = DOMAIN docs /\ new = DOMAIN docs'
                                      /\ before = docs /\ after = docs'
  OBVIOUS
<1>13. /\ IsFiniteSet(old) /\ IsFiniteSet(new) /\ new = old \union {key} /\ key \notin old /\ new \ {key} = old
  <2>1. IsFiniteSet(old)
    BY <1>3, <1>12 DEF ShapeInv, DocsInv
  <2>2. QED
    BY <1>2, <1>11, <1>12, <2>1, FS_AddElement
<1>14. \A k \in old : /\ Counts(after)[k] = Counts(before)[k] /\ Sizes(after)[k] = Sizes(before)[k]
                      /\ Counts(before)[k] \in Nat /\ Sizes(before)[k] \in Nat
  <2>1. \A k \in old : Counts(before)[k] \in Nat /\ Sizes(before)[k] \in Nat
    BY <1>3, <1>12, CostsAreNumbers
  <2>2. \A k \in old : Counts(after)[k] = Counts(before)[k] /\ Sizes(after)[k] = Sizes(before)[k]
    BY <1>11, <1>12 DEF Counts, Sizes
  <2>3. QED
    BY <2>1, <2>2
<1>15. Counts(after)[key] = m /\ Sizes(after)[key] = n
  <2>1. Cardinality({s0}) = 1
    BY FS_Singleton
  <2>2. Counts(after)[key] = 1 * m
    BY <1>6, <1>10, <1>11, <1>12, <2>1 DEF Counts
  <2>3. 1 * m = m
    BY <1>7
  <2>4. Sizes(after)[key] = n
    BY <1>6, <1>10, <1>11, <1>12 DEF Sizes
  <2>5. QED
    BY <2>2, <2>3, <2>4
<1>16. /\ SumOver(Counts(after), new) = m + SumOver(Counts(before), old)
       /\ SumOver(Sizes(after), new) = n + SumOver(Sizes(before), old)
  <2>1. \A k \in new : Counts(after)[k] \in Nat /\ Sizes(after)[k] \in Nat
    BY <1>7, <1>13, <1>14, <1>15
  <2>2. /\ SumOver(Counts(after), new) = m + SumOver(Counts(after), old)
        /\ SumOver(Sizes(after), new) = n + SumOver(Sizes(after), old)
    <3>1. key \in new
      BY <1>13
    <3>2. QED
      BY <1>13, <1>15, <2>1, <3>1, SumWithout
  <2>3. SumOver(Counts(after), old) = SumOver(Counts(before), old) /\ SumOver(Sizes(after), old) = SumOver(Sizes(before), old)
    BY <1>13, <1>14, SumSame
  <2>4. QED
    BY <2>2, <2>3
<1>17. CountsInv'
  <2>1. /\ references \in Nat /\ references = SumOver(Counts(before), old)
        /\ parsedNodes \in Nat /\ parsedNodes = SumOver(Sizes(before), old)
    BY <1>12 DEF BudgetInv, CountsInv
  <2>2. references' = references + m /\ parsedNodes' = parsedNodes + n
    BY <1>2, <1>6
  <2>3. references' \in Nat /\ references' <= MaxSchemaReferences /\ references' = SumOver(Counts(after), new)
    BY <1>7, <1>8, <1>16, <2>1, <2>2, LimitAssumption
  <2>4. parsedNodes' \in Nat /\ parsedNodes' <= MaxSchemaInstantiatedNodes /\ parsedNodes' = SumOver(Sizes(after), new)
    BY <1>7, <1>8, <1>16, <2>1, <2>2, LimitAssumption
  <2>5. QED
    BY <1>12, <2>3, <2>4 DEF CountsInv, Counts, Sizes
<1>18. key \in resolved \/ \E s \in world.explicit : KeyOf(s) = key
  BY <1>1, <1>2, <1>5 DEF BudgetInv, ResolvedInv, Reading
<1>19. \A k \in DOMAIN docs' : k \in DOMAIN docs \/ k \in resolved \/ \E s \in world.explicit : KeyOf(s) = k
  BY <1>11, <1>18
<1>20. QED
  BY <1>2, <1>17, <1>19, DoneBudget

(* A source that is new to a document asks for the references again, and   *)
(* they are counted again; nodes are not.                                  *)
LEMMA RepeatBudget ==
  ASSUME GraphInv, BudgetInv, Repeat
  PROVE  BudgetInv'
<1>1. PICK s0, key, content : s0 = item.source /\ key = ItemKey /\ content = docs[key].content
  OBVIOUS
<1>2. PICK sources : sources = docs[key].sources \union (IF Fresh(s0) THEN {s0} ELSE {})
  OBVIOUS
<1>3. /\ pc = "acquired" /\ pc' = "take" /\ UNCHANGED <<world, resolved, parsedNodes, contexts>>
      /\ got.bytes <= Remaining /\ Charge /\ RepeatFailure = ""
      /\ IF Fresh(s0) THEN references' = references + Len(content.refs) ELSE references' = references
  BY <1>1 DEF Repeat, Repeated, Running, Goto, Enqueue, Known, targets
<1>4. ShapeInv /\ WorkInv
  BY <1>3 DEF GraphInv, Failures
<1>5. IsRead(item) /\ key = KeyOf(s0)
  BY <1>1, <1>3, <1>4 DEF WorkInv, ItemInv, Reading, ItemKey, KeyOf
<1>6. Fresh(s0) <=> s0 \notin docs[key].sources
  BY <1>5 DEF Fresh, KeyOf
<1>7. /\ key \in DOMAIN docs /\ DOMAIN docs' = DOMAIN docs
      /\ \A k \in DOMAIN docs : k # key => docs'[k] = docs[k]
      /\ docs'[key] = [name |-> docs[key].name, content |-> docs[key].content, sources |-> sources,
                       explicitRoot |-> docs[key].explicitRoot \/ ~Optional]
  BY <1>1, <1>2, <1>4, RepeatedDocs
<1>8. docs'[key].content = content /\ docs'[key].sources = sources
  BY <1>1, <1>7
<1>9. PICK all, before, after : all = DOMAIN docs /\ before = docs /\ after = docs'
  OBVIOUS
<1>10. PICK n, c : n = Len(content.refs) /\ c = Cardinality(docs[key].sources)
  OBVIOUS
<1>11. n \in Nat /\ c \in Nat /\ IsFiniteSet(docs[key].sources)
  <2>1. IsContent(content)
    BY <1>1, <1>4, <1>7, ContentFacts
  <2>2. IsFiniteSet(docs[key].sources)
    BY <1>4, <1>7 DEF ShapeInv, DocsInv, IsDoc
  <2>3. QED
    BY <1>10, <2>1, <2>2, LenProperties, FS_CardinalityType DEF IsContent
<1>12. PICK more : more = IF Fresh(s0) THEN n ELSE 0
  OBVIOUS
<1>13. more \in Nat /\ references' = references + more /\ (Fresh(s0) => ~(n > MaxSchemaReferences - references))
  <2>1. references \in Nat
    BY DEF BudgetInv, CountsInv
  <2>2. more \in Nat
    BY <1>11, <1>12
  <2>3. references' = references + more
    <3>1. CASE Fresh(s0)
      BY <1>3, <1>10, <1>12, <3>1
    <3>2. CASE ~Fresh(s0)
      <4>1. more = 0 /\ references' = references
        BY <1>3, <1>12, <3>2
      <4>2. QED
        BY <2>1, <4>1
    <3>3. QED
      BY <3>1, <3>2
  <2>4. Fresh(s0) => ~(n > MaxSchemaReferences - references)
    BY <1>1, <1>3, <1>6, <1>10 DEF RepeatFailure, Known, TooManyReferences
  <2>5. QED
    BY <2>2, <2>3, <2>4
<1>14. IsFiniteSet(all) /\ key \in all
  BY <1>4, <1>7, <1>9 DEF ShapeInv, DocsInv
<1>15. \A k \in all : Counts(before)[k] \in Nat /\ Sizes(before)[k] \in Nat
  BY <1>4, <1>9, CostsAreNumbers
<1>16. /\ Counts(before)[key] = c * n /\ Counts(after)[key] = c * n + more
       /\ \A k \in all \ {key} : Counts(after)[k] = Counts(before)[k]
       /\ \A k \in all : Sizes(after)[k] = Sizes(before)[k]
  <2>1. \A k \in all : /\ Counts(before)[k] = Cardinality(docs[k].sources) * Len(docs[k].content.refs)
                       /\ Counts(after)[k] = Cardinality(docs'[k].sources) * Len(docs'[k].content.refs)
                       /\ Sizes(before)[k] = docs[k].content.nodes /\ Sizes(after)[k] = docs'[k].content.nodes
    BY <1>7, <1>9 DEF Counts, Sizes
  <2>2. Counts(before)[key] = c * n
    BY <1>1, <1>10, <1>14, <2>1
  <2>3. Counts(after)[key] = Cardinality(sources) * n
    BY <1>8, <1>10, <1>14, <2>1
  <2>4. Cardinality(sources) * n = c * n + more
    <3>1. CASE Fresh(s0)
      <4>1. Cardinality(sources) = c + 1
        BY <1>2, <1>6, <1>10, <1>11, <3>1, FS_AddElement
      <4>2. (c + 1) * n = c * n + n
        BY <1>11
      <4>3. QED
        BY <1>12, <3>1, <4>1, <4>2
    <3>2. CASE ~Fresh(s0)
      <4>1. sources = docs[key].sources
        BY <1>2, <3>2
      <4>2. c * n \in Nat
        BY <1>11
      <4>3. QED
        BY <1>10, <1>12, <3>2, <4>1, <4>2
    <3>3. QED
      BY <3>1, <3>2
  <2>5. \A k \in all \ {key} : Counts(after)[k] = Counts(before)[k] /\ Sizes(after)[k] = Sizes(before)[k]
    BY <1>7, <1>9, <2>1
  <2>6. Sizes(after)[key] = Sizes(before)[key]
    BY <1>1, <1>8, <1>14, <2>1
  <2>7. QED
    BY <2>2, <2>3, <2>4, <2>5, <2>6
<1>17. PICK old : old = c * n
  OBVIOUS
<1>18. PICK rest : rest = SumOver(Counts(before), all \ {key})
  OBVIOUS
<1>19. old \in Nat /\ rest \in Nat /\ IsFiniteSet(all \ {key})
  <2>1. IsFiniteSet(all \ {key}) /\ \A k \in all \ {key} : Counts(before)[k] \in Nat
    BY <1>14, <1>15, FS_RemoveElement
  <2>2. QED
    BY <1>11, <1>17, <1>18, <2>1, SumIsNat
<1>20. SumOver(Counts(before), all) = old + rest
  BY <1>14, <1>15, <1>16, <1>17, <1>18, SumWithout
<1>21. SumOver(Counts(after), all) = (old + more) + rest
  <2>1. \A k \in all : Counts(after)[k] \in Nat
    <3>1. Counts(after)[key] \in Nat
      BY <1>13, <1>16, <1>17, <1>19
    <3>2. \A k \in all : k = key \/ k \in all \ {key}
      OBVIOUS
    <3>3. QED
      BY <1>15, <1>16, <3>1, <3>2
  <2>2. SumOver(Counts(after), all) = Counts(after)[key] + SumOver(Counts(after), all \ {key})
    BY <1>14, <2>1, SumWithout
  <2>3. SumOver(Counts(after), all \ {key}) = rest
    BY <1>16, <1>18, <1>19, SumSame
  <2>4. QED
    BY <1>16, <1>17, <2>2, <2>3
<1>22. SumOver(Sizes(after), all) = SumOver(Sizes(before), all)
  BY <1>14, <1>16, SumSame
<1>23. CountsInv'
  <2>1. /\ references \in Nat /\ references <= MaxSchemaReferences /\ references = SumOver(Counts(before), all)
        /\ parsedNodes \in Nat /\ parsedNodes <= MaxSchemaInstantiatedNodes /\ parsedNodes = SumOver(Sizes(before), all)
    BY <1>9 DEF BudgetInv, CountsInv
  <2>2. references' = SumOver(Counts(after), all)
    BY <1>13, <1>19, <1>20, <1>21, <2>1
  <2>3. references' \in Nat /\ references' <= MaxSchemaReferences
    BY <1>11, <1>12, <1>13, <2>1, LimitAssumption
  <2>4. parsedNodes' \in Nat /\ parsedNodes' <= MaxSchemaInstantiatedNodes /\ parsedNodes' = SumOver(Sizes(after), all)
    BY <1>3, <1>22, <2>1
  <2>5. QED
    BY <1>7, <1>9, <2>2, <2>3, <2>4 DEF CountsInv, Counts, Sizes
<1>24. \A k \in DOMAIN docs' : k \in DOMAIN docs \/ k \in resolved \/ \E s \in world.explicit : KeyOf(s) = k
  BY <1>7
<1>25. QED
  BY <1>3, <1>23, <1>24, DoneBudget

-----------------------------------------------------------------------------
(* Contexts are added after everything else.                               *)
LEMMA AddBudget ==
  ASSUME ShapeInv, BudgetInv, pc \notin Reading, NEW more, NEW n \in Nat, DOMAIN more = 1..n,
         \A i \in 1..n : more[i][1] \in DOMAIN docs,
         NEW label \in {"propagate", "loaded"}, NEW following, AddOrStop(more, label, following)
  PROVE  BudgetInv'
<1>1. Stop("limit") \/ (contexts' = AddAll(more).list /\ pc' = label /\ UNCHANGED <<world, docs, budget>>)
  BY DEF AddOrStop, Goto, graph
<1>2. CASE Stop("limit")
  BY <1>2, StopCharges DEF Failures
<1>3. CASE contexts' = AddAll(more).list /\ pc' = label /\ UNCHANGED <<world, docs, budget>>
  <2>1. Within(contexts)
    BY DEF BudgetInv, ContextsInv
  <2>2. Within(AddAll(more).list)
    BY <2>1, AllWithin
  <2>3. Within(contexts)'
    BY <1>3, <2>2, WithinNow
  <2>4. pc' \in Whole /\ pc' \notin Reading /\ pc' \notin {"close", "acquired"}
    BY <1>3 DEF Whole, Reading
  <2>5. /\ world' = world /\ docs' = docs /\ resolved' = resolved /\ totalBytes' = totalBytes
        /\ references' = references /\ parsedNodes' = parsedNodes
    BY <1>3 DEF budget
  <2>6. ResolvedInv'
    BY <2>4, <2>5 DEF BudgetInv, ResolvedInv, KeyOf
  <2>7. BytesInv'
    BY <2>4, <2>5 DEF BudgetInv, BytesInv
  <2>8. CountsInv'
    BY <2>5 DEF BudgetInv, CountsInv
  <2>9. QED
    BY <2>3, <2>4, <2>6, <2>7, <2>8 DEF BudgetInv, ContextsInv
<1>4. QED
  BY <1>1, <1>2, <1>3

(* Documents in their own namespaces are as many as the documents.         *)
LEMMA OwnFacts ==
  ASSUME ShapeInv, NEW keys \in SUBSET DOMAIN docs
  PROVE  /\ Cardinality(keys) \in Nat /\ DOMAIN OwnContexts(keys) = 1..Cardinality(keys)
         /\ \A i \in 1..Cardinality(keys) : /\ OwnContexts(keys)[i][1] = InOrder(keys)[i]
                                            /\ OwnContexts(keys)[i][1] \in DOMAIN docs
<1>1. PICK n, list : n = Cardinality(keys) /\ list = InOrder(keys)
  OBVIOUS
<1>2. n \in Nat /\ DOMAIN list = 1..n /\ list \in Seq(keys)
  BY <1>1, InOrderFacts
<1>3. \A i \in 1..n : list[i] \in keys
  BY <1>2
<1>4. OwnContexts(keys) = [i \in 1..n |-> <<list[i], Declared(list[i])>>]
  BY <1>1, <1>2 DEF OwnContexts
<1>5. QED
  BY <1>1, <1>2, <1>3, <1>4

(* Without references there is one context for each document.              *)
LEMMA AloneWithin ==
  ASSUME ShapeInv, BudgetInv, ~(Cardinality(DOMAIN docs) > MaxSchemaTargetContexts)
  PROVE  Within(OwnContexts(DOMAIN docs))
<1>1. PICK list, n, all : list = OwnContexts(all) /\ n = Cardinality(all) /\ all = DOMAIN docs
  OBVIOUS
<1>2. PICK names : names = InOrder(all)
  OBVIOUS
<1>3. /\ n \in Nat /\ DOMAIN names = 1..n /\ names \in Seq(all) /\ IsFiniteSet(all)
      /\ \A x \in all : \E i \in 1..n : names[i] = x
      /\ \A i, j \in 1..n : names[i] = names[j] => i = j
  BY <1>1, <1>2, InOrderFacts
<1>4. DOMAIN list = 1..n /\ \A i \in 1..n : list[i][1] = names[i] /\ list[i][1] \in all
  BY <1>1, <1>2, OwnFacts
<1>5. names \in [1..n -> all]
  BY <1>3
<1>6. \A i \in 1..n : docs[list[i][1]].content.nodes = Sizes(docs)[names[i]]
  BY <1>1, <1>4 DEF Sizes
<1>7. \A x \in all : Sizes(docs)[x] \in Nat
  BY <1>1, CostsAreNumbers
<1>8. NodesOf(list) = SumOver(Sizes(docs), all)
  <2>1. PICK g : g = Sizes(docs)
    OBVIOUS
  <2>2. /\ \A x \in all : g[x] \in Nat
        /\ \A i \in 1..n : docs[list[i][1]].content.nodes = g[names[i]]
    BY <1>6, <1>7, <2>1
  <2>3. DOMAIN list = 1..n /\ Enumerates(names, n, all)
    BY <1>3, <1>4, <1>5 DEF Enumerates
  <2>4. NodesOf(list) = SumOver(g, all)
    BY <1>3, <2>2, <2>3, NodesInARow
  <2>5. QED
    BY <2>1, <2>4
<1>9. list \in Seq(Range(list)) /\ Len(list) = n /\ \A c \in Range(list) : \E i \in 1..n : c = list[i]
  <2>1. list = [i \in 1..n |-> list[i]]
    BY <1>1, <1>2, <1>3, <1>4 DEF OwnContexts
  <2>2. \A i \in 1..n : list[i] \in Range(list)
    BY <1>4 DEF Range
  <2>3. list \in [1..n -> Range(list)]
    BY <2>1, <2>2
  <2>4. list \in Seq(Range(list)) /\ Len(list) = n
    BY <1>3, <1>4, <2>3
  <2>5. \A c \in Range(list) : \E i \in 1..n : c = list[i]
    BY <1>4 DEF Range
  <2>6. QED
    BY <2>4, <2>5
<1>10. n <= MaxSchemaTargetContexts
  BY <1>1, <1>3, LimitAssumption
<1>11. NodesOf(list) \in Nat /\ NodesOf(list) <= MaxSchemaInstantiatedNodes
  BY <1>1, <1>8 DEF BudgetInv, CountsInv
<1>12. QED
  BY <1>1, <1>4, <1>9, <1>10, <1>11 DEF Within

(* The contexts of the whole set (instantiateTargetContexts).              *)
LEMMA TargetsBudget ==
  ASSUME GraphInv, BudgetInv, SeedAlone \/ Seed \/ Propagate \/ Fallback
  PROVE  BudgetInv'
<1>0. ShapeInv /\ pc \in {"seed", "propagate"}
  BY DEF GraphInv, SeedAlone, Seed, Propagate, Fallback, Running
<1>1. pc \notin Reading
  BY <1>0 DEF Reading
<1>2. CASE SeedAlone
  <2>1. Stop("limit") \/ /\ ~(Cardinality(DOMAIN docs) > MaxSchemaTargetContexts)
                         /\ contexts' = OwnContexts(DOMAIN docs) /\ pc' = "loaded"
                         /\ UNCHANGED <<world, docs, budget>>
    BY <1>2 DEF SeedAlone, Goto, graph
  <2>2. CASE Stop("limit")
    BY <2>2, StopCharges DEF Failures
  <2>3. CASE /\ ~(Cardinality(DOMAIN docs) > MaxSchemaTargetContexts)
             /\ contexts' = OwnContexts(DOMAIN docs) /\ pc' = "loaded"
             /\ UNCHANGED <<world, docs, budget>>
    <3>1. Within(OwnContexts(DOMAIN docs))
      BY <1>0, <2>3, AloneWithin
    <3>2. Within(contexts)'
      BY <2>3, <3>1, WithinNow
    <3>3. pc' \in Whole /\ pc' \notin Reading /\ pc' \notin {"close", "acquired"}
      BY <2>3 DEF Whole, Reading
    <3>4. /\ world' = world /\ docs' = docs /\ resolved' = resolved /\ totalBytes' = totalBytes
          /\ references' = references /\ parsedNodes' = parsedNodes
      BY <2>3 DEF budget
    <3>5. ResolvedInv' /\ BytesInv' /\ CountsInv'
      BY <3>3, <3>4 DEF BudgetInv, ResolvedInv, BytesInv, CountsInv, KeyOf
    <3>6. QED
      BY <3>2, <3>3, <3>5 DEF BudgetInv, ContextsInv
  <2>4. QED
    BY <2>1, <2>2, <2>3
<1>3. CASE Seed
  <2>1. PICK keys : keys = {key \in DOMAIN docs : IsRoot(key)}
    OBVIOUS
  <2>2. keys \in SUBSET DOMAIN docs /\ AddOrStop(OwnContexts(keys), "propagate", next)
    BY <1>3, <2>1 DEF Seed
  <2>3. PICK more, n : more = OwnContexts(keys) /\ n = Cardinality(keys)
    OBVIOUS
  <2>4. n \in Nat /\ DOMAIN more = 1..n /\ \A i \in 1..n : more[i][1] \in DOMAIN docs
    BY <1>0, <2>2, <2>3, OwnFacts
  <2>5. QED
    BY <1>0, <1>1, <2>2, <2>3, <2>4, AddBudget
<1>4. CASE Propagate
  <2>1. PICK more : more = Adopted(contexts[next])
    OBVIOUS
  <2>2. PICK n \in Nat : DOMAIN more = 1..n /\ \A i \in 1..n : more[i][1] \in DOMAIN docs
    <3>1. \E n \in Nat : DOMAIN more = 1..n
      BY <1>0, <2>1, AdoptedFacts
    <3>2. \A c \in Range(more) : c[1] \in DOMAIN docs
      BY <1>0, <2>1, AdoptedFacts
    <3>3. QED
      BY <3>1, <3>2 DEF Range
  <2>3. PICK following : following = next + 1
    OBVIOUS
  <2>4. AddOrStop(more, "propagate", following)
    BY <1>4, <2>1, <2>3 DEF Propagate
  <2>5. QED
    BY <1>0, <1>1, <2>2, <2>4, AddBudget
<1>5. CASE Fallback
  <2>1. PICK keys, list, n : keys = Unreached /\ list = InOrder(keys) /\ n = Cardinality(keys)
    OBVIOUS
  <2>2. keys \in SUBSET DOMAIN docs
    BY <2>1 DEF Unreached
  <2>3. n \in Nat /\ DOMAIN list = 1..n /\ list \in Seq(keys)
    BY <1>0, <2>1, <2>2, InOrderFacts
  <2>4. PICK more : more = [i \in 1..n |-> <<list[i], "">>]
    OBVIOUS
  <2>5. DOMAIN more = 1..n /\ \A i \in 1..n : more[i][1] \in DOMAIN docs
    <3>1. \A i \in 1..n : list[i] \in keys
      BY <2>3
    <3>2. DOMAIN more = 1..n /\ \A i \in 1..n : more[i][1] = list[i]
      BY ONLY <2>4
    <3>3. QED
      BY <2>2, <3>1, <3>2
  <2>6. PICK label : label = IF Unreached = {} THEN "loaded" ELSE "propagate"
    OBVIOUS
  <2>7. label \in {"propagate", "loaded"} /\ AddOrStop(more, label, next)
    BY <1>5, <2>1, <2>3, <2>4, <2>6 DEF Fallback
  <2>8. QED
    BY <1>0, <1>1, <2>3, <2>5, <2>7, AddBudget
<1>6. QED
  BY <1>2, <1>3, <1>4, <1>5

(* Every step keeps the budgets, given that the graph is as it should be.  *)
LEMMA BudgetStep == GraphInv /\ BudgetInv /\ [Next]_vars => BudgetInv'
<1> SUFFICES ASSUME GraphInv, BudgetInv, [Next]_vars
             PROVE  BudgetInv'
  OBVIOUS
<1>1. CASE UNCHANGED vars
  <2>1. UNCHANGED <<world, docs, budget, contexts, pc, item, got>>
    BY <1>1 DEF vars, graph, targets
  <2>2. QED
    BY <2>1, SameBudget DEF BudgetInv, ResolvedInv, BytesInv, ContextsInv
<1>2. CASE Cancel \/ StopCanceled \/ Take \/ Acquire \/ AcquireFails \/ SkipAbsent \/ LoadRejected \/ RepeatRejected
             \/ CheckTargets
  BY <1>2, QuietBudget
<1>3. CASE Resolve
  BY <1>3, ResolveBudget
<1>4. CASE Load
  BY <1>4, LoadBudget
<1>5. CASE Repeat
  BY <1>5, RepeatBudget
<1>6. CASE SeedAlone \/ Seed \/ Propagate \/ Fallback
  BY <1>6, TargetsBudget
<1>7. QED
  BY <1>1, <1>2, <1>3, <1>4, <1>5, <1>6 DEF Next

(* The counters are what they count, and the documents are explicit or     *)
(* admitted.                                                               *)
LEMMA BudgetIsHeld == GraphInv /\ BudgetInv => BudgetsHold
<1> SUFFICES ASSUME GraphInv, BudgetInv
             PROVE  BudgetsHold
  OBVIOUS
<1>1. ShapeInv /\ ResolvedInv /\ BytesInv /\ CountsInv /\ Within(contexts)
  BY DEF GraphInv, BudgetInv, ContextsInv
<1>2. Cardinality(DOMAIN docs) <= MaxSchemaSources
  <2>1. PICK given, keys, f : /\ given = world.explicit /\ keys = {KeyOf(s) : s \in given}
                              /\ f = [s \in given |-> KeyOf(s)]
    OBVIOUS
  <2>2. IsFiniteSet(given) /\ IsFiniteSet(resolved) /\ Cardinality(resolved) <= MaxSchemaSources - Cardinality(given)
    BY <1>1, <2>1 DEF ShapeInv, IsWorld, ResolvedInv
  <2>3. f \in Surjection(given, keys)
    BY <2>1 DEF Surjection
  <2>4. IsFiniteSet(keys) /\ Cardinality(keys) <= Cardinality(given)
    BY <2>2, <2>3, FS_Surjection
  <2>5. DOMAIN docs \in SUBSET (resolved \union keys)
    BY <1>1, <2>1 DEF ResolvedInv
  <2>6. /\ IsFiniteSet(resolved \union keys)
        /\ Cardinality(resolved \union keys) = Cardinality(resolved) + Cardinality(keys) - Cardinality(resolved \cap keys)
    BY <2>2, <2>4, FS_Union
  <2>7. Cardinality(resolved \cap keys) \in Nat
    BY <2>2, FS_Subset, FS_CardinalityType
  <2>8. Cardinality(DOMAIN docs) <= Cardinality(resolved \union keys)
    BY <2>5, <2>6, FS_Subset
  <2>9. PICK r, k, g, d, both, u : /\ r = Cardinality(resolved) /\ k = Cardinality(keys) /\ g = Cardinality(given)
                                   /\ d = Cardinality(DOMAIN docs) /\ both = Cardinality(resolved \cap keys)
                                   /\ u = Cardinality(resolved \union keys)
    OBVIOUS
  <2>10. r \in Nat /\ k \in Nat /\ g \in Nat /\ d \in Nat
    BY <1>1, <2>2, <2>4, <2>9, FS_CardinalityType DEF ShapeInv, DocsInv
  <2>11. both \in Nat /\ k <= g /\ d <= u /\ u = r + k - both /\ r <= MaxSchemaSources - g
    BY <2>2, <2>4, <2>6, <2>7, <2>8, <2>9
  <2>12. d <= MaxSchemaSources
    BY ONLY <2>10, <2>11, LimitAssumption
  <2>13. QED
    BY <2>9, <2>12
<1>3. references = SumFunction([key \in DOMAIN docs |-> Cardinality(docs[key].sources) * Len(docs[key].content.refs)])
  <2>1. SumFunction(Counts(docs)) = SumOver(Counts(docs), DOMAIN docs)
    BY SumIs DEF Counts
  <2>2. QED
    BY <1>1, <2>1 DEF CountsInv, Counts
<1>4. QED
  BY <1>1, <1>2, <1>3 DEF BudgetsHold, BytesInv, CountsInv, Within

(* Loading keeps within its limits, whatever the sources contain and the   *)
(* resolvers answer, and the counters count what they bound.               *)
THEOREM BudgetsAreKept == Spec => []BudgetsHold
<1>1. Spec => []BudgetInv
  <2>1. Init => BudgetInv
    BY InitBudget
  <2>2. BudgetInv /\ GraphInv /\ [Next]_vars => BudgetInv'
    BY BudgetStep
  <2>3. QED
    BY <2>1, <2>2, GraphIsInvariant, PTL DEF Spec
<1>2. QED
  BY <1>1, GraphIsInvariant, BudgetIsHeld, PTL

-----------------------------------------------------------------------------
(* Every document is reached from an explicit source.  To say so takes no  *)
(* chains of references: a set that has the explicit documents and what its*)
(* references are bound to has all documents.                              *)
Rooted(X) == \A key \in DOMAIN docs : docs[key].explicitRoot => key \in X
Follows(X) == \A ref \in Edges : ref[1] \in X => bound[ref] \in X
ReachInv == \A X \in SUBSET DOMAIN docs : Rooted(X) /\ Follows(X) => X = DOMAIN docs

(* The explicit sources are those of the documents that are marked so.     *)
RootInv ==
  /\ \A key \in DOMAIN docs : docs[key].explicitRoot => \E s \in world.explicit : KeyOf(s) = key
  /\ pc \in Reading /\ item.ref = NoRef => item.source \in world.explicit
  /\ pc \notin Failures => \A s \in world.explicit :
       \/ Request(s, NoRef, FALSE) \in Range(queue)
       \/ pc \in Reading /\ item = Request(s, NoRef, FALSE)
       \/ KeyOf(s) \in DOMAIN docs /\ docs[KeyOf(s)].explicitRoot

(* A document that is new is explicit, or a reference of one that was there*)
(* is bound to it: that keeps all of them reached.                         *)
LEMMA ReachKept ==
  ASSUME ShapeInv, ReachInv, Kept,
         \A key \in DOMAIN docs : docs[key].explicitRoot => docs'[key].explicitRoot,
         \A key \in DOMAIN docs' : \/ key \in DOMAIN docs \/ docs'[key].explicitRoot
                                   \/ \E ref \in DOMAIN bound' : ref[1] \in DOMAIN docs /\ bound'[ref] = key
  PROVE  ReachInv'
<1> SUFFICES ASSUME NEW X \in SUBSET DOMAIN docs', Rooted(X)', Follows(X)'
             PROVE  X = DOMAIN docs'
  BY DEF ReachInv, Rooted, Follows
<1>1. \A key \in DOMAIN docs : key \in DOMAIN docs'
  BY DEF Kept
<1>2. \A key \in DOMAIN docs' : docs'[key].explicitRoot => key \in X
  BY DEF Rooted
<1>3. \A ref \in DOMAIN bound' : bound'[ref] \in DOMAIN docs' /\ ref[1] \in X => bound'[ref] \in X
  BY DEF Follows, Edges, Loaded
<1>4. PICK Y : Y = X \cap DOMAIN docs
  OBVIOUS
<1>5. Rooted(Y)
  BY <1>1, <1>2, <1>4 DEF Rooted
<1>6. Follows(Y)
  <2> SUFFICES ASSUME NEW ref \in DOMAIN bound, bound[ref] \in DOMAIN docs, ref[1] \in Y
               PROVE  bound[ref] \in Y
    BY DEF Follows, Edges, Loaded
  <2>1. bound[ref] # NoKey
    BY DEF ShapeInv, DocsInv, IsDoc
  <2>2. ref \in DOMAIN bound' /\ bound'[ref] = bound[ref]
    BY <2>1 DEF Kept
  <2>3. QED
    BY <1>1, <1>3, <1>4, <2>2
<1>7. Y = DOMAIN docs
  BY <1>4, <1>5, <1>6 DEF ReachInv
<1>8. \A key \in DOMAIN docs' : key \in X
  BY <1>2, <1>3, <1>4, <1>7
<1>9. QED
  BY <1>8

(* Where the documents and the requests stay, so do the roots.             *)
LEMMA SameRoots ==
  ASSUME ShapeInv, RootInv, ReachInv, UNCHANGED <<world, docs, bound, queue>>,
         pc \notin Failures \/ pc' \in Failures,
         pc' \in Reading => item'.source = item.source /\ item'.ref = item.ref /\ pc \in Reading,
         pc \in Reading => (pc' \in Reading /\ item' = item) \/ item.ref # NoRef \/ pc' \in Failures
  PROVE  RootInv' /\ ReachInv'
<1>1. Kept
  BY DEF Kept
<1>2. ReachInv'
  BY <1>1, ReachKept
<1>3. \A key \in DOMAIN docs : docs[key].explicitRoot => \E s \in world.explicit : KeyOf(s) = key
  BY DEF RootInv
<1>4. pc' \in Reading /\ item'.ref = NoRef => item'.source \in world.explicit
  BY DEF RootInv
<1>5. ASSUME pc' \notin Failures, NEW s \in world.explicit
      PROVE  \/ Request(s, NoRef, FALSE) \in Range(queue)
             \/ pc' \in Reading /\ item' = Request(s, NoRef, FALSE)
             \/ KeyOf(s) \in DOMAIN docs /\ docs[KeyOf(s)].explicitRoot
  <2>1. \/ Request(s, NoRef, FALSE) \in Range(queue)
        \/ pc \in Reading /\ item = Request(s, NoRef, FALSE)
        \/ KeyOf(s) \in DOMAIN docs /\ docs[KeyOf(s)].explicitRoot
    BY <1>5 DEF RootInv
  <2>2. item = Request(s, NoRef, FALSE) => item.ref = NoRef
    BY ONLY RequestParts
  <2>3. QED
    BY <1>5, <2>1, <2>2
<1>6. RootInv'
  BY <1>3, <1>4, <1>5 DEF RootInv, KeyOf, Request
<1>7. QED
  BY <1>2, <1>6

(* Failing leaves the documents as they are.                               *)
LEMMA StopRoots ==
  ASSUME ShapeInv, RootInv, ReachInv, NEW failure \in Failures, Stop(failure)
  PROVE  RootInv' /\ ReachInv'
<1>1. UNCHANGED <<world, docs, bound, queue, item>> /\ pc' \in Failures
  BY DEF Stop, Goto, graph
<1>2. pc' \notin Reading
  BY <1>1 DEF Failures, Reading
<1>3. QED
  BY <1>1, <1>2, SameRoots

(* At first the explicit sources are all waiting, and nothing is loaded.   *)
LEMMA InitRoots == Init => RootInv /\ ReachInv
<1> SUFFICES ASSUME Init
             PROVE  RootInv /\ ReachInv
  OBVIOUS
<1>1. docs = <<>> /\ pc = "take" /\ DOMAIN docs = {}
  <2>1. docs = <<>> /\ pc = "take"
    BY DEF Init
  <2>2. QED
    BY <2>1
<1>2. ReachInv
  BY <1>1 DEF ReachInv
<1>3. PICK sources \in SetToSeqs(world.explicit) :
        queue = [i \in DOMAIN sources |-> Request(sources[i], NoRef, FALSE)]
  BY DEF Init
<1>4. ASSUME NEW s \in world.explicit
      PROVE  Request(s, NoRef, FALSE) \in Range(queue)
  <2>1. GraphInv
    BY InitGraph
  <2>2. \/ Request(s, NoRef, FALSE) \in Range(queue)
        \/ pc \in Reading /\ item = Request(s, NoRef, FALSE)
        \/ s \in Registered
    BY <1>1, <2>1 DEF GraphInv, WorkInv, ExplicitInv, Failures
  <2>3. Registered = {}
    BY <1>1 DEF Registered
  <2>4. QED
    BY <1>1, <2>2, <2>3 DEF Reading
<1>5. RootInv
  BY <1>1, <1>4 DEF RootInv, Reading
<1>6. QED
  BY <1>2, <1>5

(* Taking a request for an explicit source leads to reading it.            *)
LEMMA TakeRoots ==
  ASSUME GraphInv, RootInv, ReachInv, Take
  PROVE  RootInv' /\ ReachInv'
<1>1. /\ pc = "take" /\ queue # <<>> /\ item' = Head(queue) /\ queue' = Tail(queue)
      /\ pc' = IF item'.resolve THEN "resolve" ELSE "open"
      /\ UNCHANGED <<world, docs, bound>>
  BY DEF Take, Running, Goto, graph
<1>2. ShapeInv /\ WorkInv
  BY <1>1 DEF GraphInv, Failures
<1>3. queue \in Seq(Range(queue)) /\ \A r \in Range(queue) : IsRequest(r)
  BY <1>2 DEF WorkInv, QueueInv
<1>4. Head(queue) \in Range(queue) /\ Range(queue) = {Head(queue)} \union Range(Tail(queue))
  BY <1>1, <1>3, HeadAndTail
<1>5. ReachInv'
  <2>1. Kept
    BY <1>1 DEF Kept
  <2>2. QED
    BY <1>1, <1>2, <2>1, ReachKept
<1>6. ASSUME pc' \in Reading
      PROVE  item'.source \in world.explicit
  <2>1. ~item'.resolve
    BY <1>1, <1>6 DEF Reading
  <2>2. IsRequest(item')
    BY <1>1, <1>3, <1>4
  <2>3. QED
    BY <2>1, <2>2 DEF IsRequest, IsCall, Request
<1>7. ASSUME NEW s \in world.explicit
      PROVE  \/ Request(s, NoRef, FALSE) \in Range(queue')
             \/ pc' \in Reading /\ item' = Request(s, NoRef, FALSE)
             \/ KeyOf(s) \in DOMAIN docs /\ docs[KeyOf(s)].explicitRoot
  <2>1. Request(s, NoRef, FALSE) \in Range(queue) \/ (KeyOf(s) \in DOMAIN docs /\ docs[KeyOf(s)].explicitRoot)
    BY <1>1 DEF RootInv, Reading, Failures
  <2>2. ~Request(s, NoRef, FALSE).resolve
    BY DEF Request
  <2>3. QED
    BY <1>1, <1>4, <2>1, <2>2 DEF Reading
<1>8. \A key \in DOMAIN docs : docs[key].explicitRoot => \E s \in world.explicit : KeyOf(s) = key
  BY DEF RootInv
<1>9. RootInv'
  BY <1>1, <1>6, <1>7, <1>8 DEF RootInv, KeyOf, Request, NoRef
<1>10. QED
  BY <1>5, <1>9

(* Resolving reads a source for a reference, and binds what was not bound. *)
LEMMA ResolveRoots ==
  ASSUME GraphInv, RootInv, ReachInv, Resolve
  PROVE  RootInv' /\ ReachInv'
<1>1. pc = "resolve"
  BY DEF Resolve, ResolveFails, ResolveNothing, ResolveIdentity, ResolveSource, Running
<1>2. ShapeInv /\ WorkInv
  BY <1>1 DEF GraphInv, Failures
<1>3. CASE \E failure \in Failures : Stop(failure)
  BY <1>2, <1>3, StopRoots
<1>4. CASE /\ UNCHANGED <<world, docs, queue>> /\ pc' \notin Failures
           /\ pc' \in Reading => item'.ref = item.ref
           /\ bound' = bound \/ \E key : bound' = [bound EXCEPT ![item.ref] = key] /\ ~Conflicts(item.ref, key)
  <2>1. item.ref # NoRef
    <3>1. item.ref \in Calls
      BY <1>1, <1>2 DEF WorkInv, ItemInv, IsCall
    <3>2. item.ref = <<item.ref[1], item.ref[2]>>
      BY <1>2, <3>1, CallFacts DEF Calls
    <3>3. QED
      BY <3>2 DEF NoRef
  <2>2. Kept
    <3>1. \A ref \in DOMAIN bound : ref \in DOMAIN bound' /\ (bound[ref] # NoKey => bound'[ref] = bound[ref])
      BY <1>4 DEF Conflicts
    <3>2. QED
      BY <1>4, <3>1 DEF Kept
  <2>3. ReachInv'
    BY <1>2, <1>4, <2>2, ReachKept
  <2>4. \A key \in DOMAIN docs : docs[key].explicitRoot => \E s \in world.explicit : KeyOf(s) = key
    BY DEF RootInv
  <2>5. \A s \in world.explicit :
          \/ Request(s, NoRef, FALSE) \in Range(queue)
          \/ KeyOf(s) \in DOMAIN docs /\ docs[KeyOf(s)].explicitRoot
    BY <1>1 DEF RootInv, Reading, Failures
  <2>6. RootInv'
    BY <1>4, <2>1, <2>4, <2>5 DEF RootInv, KeyOf, Request, NoRef
  <2>7. QED
    BY <2>3, <2>6
<1>5. CASE ResolveFails
  BY <1>3, <1>5 DEF ResolveFails, Failures
<1>6. CASE ResolveNothing
  <2>1. UNCHANGED <<world, docs, queue, bound>> /\ pc' = "take"
    BY <1>6 DEF ResolveNothing, Goto, graph
  <2>2. QED
    BY <1>4, <2>1 DEF Reading, Failures
<1>7. CASE ResolveIdentity
  <2>1. PICK key : key = Answer.key
    OBVIOUS
  <2>2. \/ Stop("reference")
        \/ /\ UNCHANGED <<world, docs, queue>> /\ pc' = "take"
           /\ bound' = bound \/ (bound' = [bound EXCEPT ![item.ref] = key] /\ ~Conflicts(item.ref, key))
    BY <1>7, <2>1 DEF ResolveIdentity, Bind, Goto
  <2>3. QED
    BY <1>3, <1>4, <2>2 DEF Reading, Failures
<1>8. CASE ResolveSource
  <2>1. PICK key, s : s = Answer.source /\ key = Key[s.name]
    OBVIOUS
  <2>2. \/ Stop("reference") \/ Stop("limit")
        \/ /\ UNCHANGED <<world, docs, queue>> /\ pc' = "open" /\ item' = Request(s, item.ref, FALSE)
           /\ bound' = [bound EXCEPT ![item.ref] = key] /\ ~Conflicts(item.ref, key)
    BY <1>8, <2>1 DEF ResolveSource, Bind, Goto
  <2>3. CASE Stop("reference") \/ Stop("limit")
    BY <1>3, <2>3 DEF Failures
  <2>4. CASE /\ UNCHANGED <<world, docs, queue>> /\ pc' = "open" /\ item' = Request(s, item.ref, FALSE)
             /\ bound' = [bound EXCEPT ![item.ref] = key] /\ ~Conflicts(item.ref, key)
    <3>1. item'.ref = item.ref
      BY <2>4, RequestParts
    <3>2. pc' \notin Failures
      BY <2>4 DEF Failures
    <3>3. QED
      BY <1>4, <2>4, <3>1, <3>2
  <2>5. QED
    BY <2>2, <2>3, <2>4
<1>9. QED
  BY <1>5, <1>6, <1>7, <1>8 DEF Resolve

(* What is loaded was asked for by a document, or is explicit.             *)
LEMMA LoadRoots ==
  ASSUME GraphInv, RootInv, ReachInv, Load
  PROVE  RootInv' /\ ReachInv'
<1>1. PICK s0, key, data : s0 = item.source /\ key = ItemKey /\ data = Data
  OBVIOUS
<1>2. /\ pc = "acquired" /\ pc' = "take" /\ world' = world /\ key \notin DOMAIN docs
  BY <1>1 DEF Load, Usable, Running, Goto, Loaded
<1>3. ShapeInv /\ WorkInv
  BY <1>2 DEF GraphInv, Failures
<1>4. IsRead(item) /\ key = KeyOf(s0)
  BY <1>1, <1>2, <1>3 DEF WorkInv, ItemInv, Reading, ItemKey, KeyOf
<1>5. Kept /\ Range(queue) \subseteq Range(queue')
  BY LoadGraph
<1> DEFINE doc == [name |-> s0.name, content |-> data, sources |-> {s0}, explicitRoot |-> ~Optional]
<1>6. docs' = [k \in DOMAIN docs \union {key} |-> IF k # key THEN docs[k] ELSE doc]
  BY <1>1 DEF Load
<1>7. doc.explicitRoot = (item.ref = NoRef)
  BY DEF Optional
<1> HIDE DEF doc
<1>8. /\ DOMAIN docs' = DOMAIN docs \union {key} /\ docs'[key] = doc
      /\ \A k \in DOMAIN docs : k # key /\ docs'[k] = docs[k]
  BY <1>2, <1>6
<1>9. ReachInv'
  <2>1. item.ref = NoRef \/ \E ref \in DOMAIN bound' : ref[1] \in DOMAIN docs /\ bound'[ref] = key
    <3>1. SUFFICES ASSUME item.ref # NoRef
                   PROVE  \E ref \in DOMAIN bound' : ref[1] \in DOMAIN docs /\ bound'[ref] = key
      OBVIOUS
    <3>2. item.ref \in Calls /\ bound[item.ref] = key
      BY <1>1, <1>4, <3>1 DEF IsRead
    <3>3. item.ref \in DOMAIN bound /\ item.ref[1] \in DOMAIN docs
      BY <1>3, <3>2, CallFacts DEF Calls
    <3>4. key # NoKey
      <4>1. s0 \in DOMAIN world.data
        BY <1>1, <1>4 DEF IsRead
      <4>2. s0.name \in DOMAIN Rank
        BY <1>3, <4>1 DEF ShapeInv, IsWorld
      <4>3. QED
        BY <1>4, <4>2, NamesAssumption DEF KeyOf, NoKey
    <3>5. item.ref \in DOMAIN bound' /\ bound'[item.ref] = key
      BY <1>5, <3>2, <3>3, <3>4 DEF Kept
    <3>6. QED
      BY <3>3, <3>5
  <2>2. \A k \in DOMAIN docs' : \/ k \in DOMAIN docs \/ docs'[k].explicitRoot
                               \/ \E ref \in DOMAIN bound' : ref[1] \in DOMAIN docs /\ bound'[ref] = k
    BY <1>7, <1>8, <2>1
  <2>3. \A k \in DOMAIN docs : docs[k].explicitRoot => docs'[k].explicitRoot
    BY <1>8
  <2>4. QED
    BY <1>3, <1>5, <2>2, <2>3, ReachKept
<1>10. \A k \in DOMAIN docs' : docs'[k].explicitRoot => \E s \in world.explicit : KeyOf(s) = k
  <2>1. item.ref = NoRef => s0 \in world.explicit
    BY <1>1, <1>2 DEF RootInv, Reading
  <2>2. \A k \in DOMAIN docs : docs'[k].explicitRoot => \E s \in world.explicit : KeyOf(s) = k
    BY <1>8 DEF RootInv
  <2>3. QED
    BY <1>4, <1>7, <1>8, <2>1, <2>2
<1>11. ASSUME NEW s \in world.explicit
       PROVE  \/ Request(s, NoRef, FALSE) \in Range(queue')
              \/ KeyOf(s) \in DOMAIN docs' /\ docs'[KeyOf(s)].explicitRoot
  <2>1. \/ Request(s, NoRef, FALSE) \in Range(queue)
        \/ item = Request(s, NoRef, FALSE)
        \/ KeyOf(s) \in DOMAIN docs /\ docs[KeyOf(s)].explicitRoot
    BY <1>2 DEF RootInv, Failures
  <2>2. item = Request(s, NoRef, FALSE) => item.source = s /\ item.ref = NoRef
    BY ONLY RequestParts
  <2>3. QED
    BY <1>1, <1>4, <1>5, <1>7, <1>8, <2>1, <2>2
<1>12. RootInv'
  BY <1>2, <1>10, <1>11 DEF RootInv, KeyOf, Request, NoRef, Reading
<1>13. QED
  BY <1>9, <1>12

(* A source that was passed in marks the document it contains, also if the *)
(* document was loaded before for a reference.                             *)
LEMMA RepeatRoots ==
  ASSUME GraphInv, RootInv, ReachInv, Repeat
  PROVE  RootInv' /\ ReachInv'
<1>1. PICK s0, key, sources : /\ s0 = item.source /\ key = ItemKey
                              /\ sources = docs[key].sources \union (IF Fresh(s0) THEN {s0} ELSE {})
  OBVIOUS
<1>2. /\ pc = "acquired" /\ pc' = "take" /\ world' = world
  BY DEF Repeat, Repeated, Running, Goto
<1>3. ShapeInv /\ WorkInv
  BY <1>2 DEF GraphInv, Failures
<1>4. IsRead(item) /\ key = KeyOf(s0)
  BY <1>1, <1>2, <1>3 DEF WorkInv, ItemInv, Reading, ItemKey, KeyOf
<1>5. Kept /\ Range(queue) \subseteq Range(queue')
  BY RepeatGraph
<1>6. PICK root : root = (docs[key].explicitRoot \/ item.ref = NoRef)
  OBVIOUS
<1>7. /\ key \in DOMAIN docs /\ DOMAIN docs' = DOMAIN docs
      /\ \A k \in DOMAIN docs : k # key => docs'[k] = docs[k]
      /\ docs'[key] = [name |-> docs[key].name, content |-> docs[key].content, sources |-> sources,
                       explicitRoot |-> docs[key].explicitRoot \/ ~Optional]
  BY <1>1, <1>3, RepeatedDocs
<1>8. docs'[key].explicitRoot = root
  BY <1>6, <1>7 DEF Optional
<1>9. ReachInv'
  <2>1. \A k \in DOMAIN docs : docs[k].explicitRoot => docs'[k].explicitRoot
    BY <1>6, <1>7, <1>8
  <2>2. QED
    BY <1>3, <1>5, <1>7, <2>1, ReachKept
<1>10. \A k \in DOMAIN docs' : docs'[k].explicitRoot => \E s \in world.explicit : KeyOf(s) = k
  <2>1. item.ref = NoRef => s0 \in world.explicit
    BY <1>1, <1>2 DEF RootInv, Reading
  <2>2. \A k \in DOMAIN docs : docs[k].explicitRoot => \E s \in world.explicit : KeyOf(s) = k
    BY DEF RootInv
  <2>3. QED
    BY <1>4, <1>6, <1>7, <1>8, <2>1, <2>2
<1>11. ASSUME NEW s \in world.explicit
       PROVE  \/ Request(s, NoRef, FALSE) \in Range(queue')
              \/ KeyOf(s) \in DOMAIN docs' /\ docs'[KeyOf(s)].explicitRoot
  <2>1. \/ Request(s, NoRef, FALSE) \in Range(queue)
        \/ item = Request(s, NoRef, FALSE)
        \/ KeyOf(s) \in DOMAIN docs /\ docs[KeyOf(s)].explicitRoot
    BY <1>2 DEF RootInv, Failures
  <2>2. item = Request(s, NoRef, FALSE) => item.source = s /\ item.ref = NoRef
    BY ONLY RequestParts
  <2>3. QED
    BY <1>1, <1>4, <1>5, <1>6, <1>7, <1>8, <2>1, <2>2
<1>12. RootInv'
  BY <1>2, <1>10, <1>11 DEF RootInv, KeyOf, Request, NoRef, Reading
<1>13. QED
  BY <1>9, <1>12

(* Every step keeps the roots, and all documents reached from them.        *)
LEMMA RootStep == GraphInv /\ RootInv /\ ReachInv /\ [Next]_vars => RootInv' /\ ReachInv'
<1> SUFFICES ASSUME GraphInv, RootInv, ReachInv, [Next]_vars
             PROVE  RootInv' /\ ReachInv'
  OBVIOUS
<1>0. ShapeInv
  BY DEF GraphInv
<1>1. CASE Cancel \/ UNCHANGED vars
  <2>1. UNCHANGED <<world, docs, bound, queue, item, pc>>
    BY <1>1 DEF Cancel, graph, vars
  <2>2. QED
    BY <1>0, <2>1, SameRoots
<1>2. CASE Take
  BY <1>2, TakeRoots
<1>3. CASE Resolve
  BY <1>3, ResolveRoots
<1>4. CASE Load
  BY <1>4, LoadRoots
<1>5. CASE Repeat
  BY <1>5, RepeatRoots
<1>6. CASE \E failure \in Failures : Stop(failure)
  BY <1>0, <1>6, StopRoots
<1>7. CASE Acquire
  <2>1. UNCHANGED <<world, docs, bound, queue, item>> /\ pc' \in {"read", "refused", "close", "acquired"}
    BY <1>7 DEF Acquire, OpenBytes, OpenFails, OpenReader, CloseRefused, Read, Close, Acquired, Goto, graph
  <2>2. pc \in {"open", "refused", "read", "close"}
    BY <1>7 DEF Acquire, OpenBytes, OpenFails, OpenReader, CloseRefused, Read, Close, Running
  <2>3. pc \in Reading /\ pc' \in Reading /\ pc \notin Failures
    BY <2>1, <2>2 DEF Reading, Failures
  <2>4. QED
    BY <1>0, <2>1, <2>3, SameRoots
<1>8. CASE SkipAbsent
  <2>1. UNCHANGED <<world, docs, bound, queue, item>> /\ pc = "acquired" /\ pc' = "take" /\ item.ref # NoRef
    BY <1>8 DEF SkipAbsent, Running, Absent, Optional, Goto, graph
  <2>2. pc' \notin Reading /\ pc \notin Failures
    BY <2>1 DEF Reading, Failures
  <2>3. QED
    BY <1>0, <2>1, <2>2, SameRoots
<1>9. CASE StopCanceled \/ AcquireFails \/ LoadRejected \/ RepeatRejected
  <2>1. \E failure \in Failures : Stop(failure)
    BY <1>9 DEF StopCanceled, AcquireFails, LoadRejected, LoadFailure, RepeatRejected, RepeatFailure, Failures
  <2>2. QED
    BY <1>6, <2>1
<1>10. CASE CheckTargets \/ SeedAlone \/ Seed \/ Propagate \/ Fallback
  <2>1. \/ \E failure \in Failures : Stop(failure)
        \/ /\ UNCHANGED <<world, docs, bound, queue, item>> /\ pc \in {"take", "seed", "propagate"}
           /\ pc' \in {"seed", "propagate", "loaded"}
    BY <1>10 DEF CheckTargets, SeedAlone, Seed, Propagate, Fallback, AddOrStop, Running, Goto, graph, Failures
  <2>2. CASE /\ UNCHANGED <<world, docs, bound, queue, item>> /\ pc \in {"take", "seed", "propagate"}
             /\ pc' \in {"seed", "propagate", "loaded"}
    <3>1. pc \notin Reading /\ pc' \notin Reading /\ pc \notin Failures
      BY <2>2 DEF Reading, Failures
    <3>2. QED
      BY <1>0, <2>2, <3>1, SameRoots
  <2>3. QED
    BY <1>6, <2>1, <2>2
<1>11. QED
  BY <1>1, <1>2, <1>3, <1>4, <1>5, <1>7, <1>8, <1>9, <1>10 DEF Next

-----------------------------------------------------------------------------
(* Adding contexts appends those that are new.                             *)

Distinct(list) == \A i, j \in DOMAIN list : list[i] = list[j] => i = j

(* The list has the elements of S, those that were there first.            *)
Extends(list, S) ==
  /\ list \in Seq(Range(list)) /\ Range(list) = S /\ Distinct(list)
  /\ Len(contexts) <= Len(list) /\ \A i \in 1..Len(contexts) : list[i] = contexts[i]

IsExtended(acc, S) ==
  /\ acc = [list |-> acc.list, full |-> acc.full]
  /\ acc.full = TRUE \/ (acc.full = FALSE /\ Extends(acc.list, S))

(* A context is put behind the others if it is not among them (add), ...   *)
LEMMA AddedExtends ==
  ASSUME NEW acc, NEW S, IsExtended(acc, S), NEW c, Len(contexts) \in Nat
  PROVE  IsExtended(Added(acc, c), S \union {c})
<1>1. PICK list, full : acc = [list |-> list, full |-> full] /\ list = acc.list /\ full = acc.full
  BY DEF IsExtended
<1>2. full = TRUE \/ (full = FALSE /\ Extends(list, S))
  BY <1>1 DEF IsExtended
<1>3. PICK added : added = Added(acc, c)
  OBVIOUS
<1>4. \/ added = acc /\ (full = TRUE \/ c \in Range(list))
      \/ added = [acc EXCEPT !.full = TRUE]
      \/ added = [acc EXCEPT !.list = Append(@, c)] /\ full # TRUE /\ c \notin Range(list)
  BY <1>1, <1>3 DEF Added
<1>5. CASE added = acc /\ (full = TRUE \/ c \in Range(list))
  <2>1. CASE full = TRUE
    BY <1>1, <1>3, <1>5, <2>1 DEF IsExtended
  <2>2. CASE full = FALSE /\ Extends(list, S) /\ c \in Range(list)
    <3>1. S \union {c} = S
      BY <2>2 DEF Extends
    <3>2. QED
      BY <1>3, <1>5, <3>1
  <2>3. QED
    BY <1>2, <1>5, <2>1, <2>2
<1>6. CASE added = [acc EXCEPT !.full = TRUE]
  <2>1. added = [list |-> list, full |-> TRUE]
    BY <1>1, <1>6
  <2>2. added.list = list /\ added.full = TRUE
    BY <2>1
  <2>3. QED
    BY <1>3, <2>1, <2>2 DEF IsExtended
<1>7. CASE added = [acc EXCEPT !.list = Append(@, c)] /\ full # TRUE /\ c \notin Range(list)
  <2> DEFINE longer == Append(list, c)
  <2>1. added = [list |-> longer, full |-> full]
    BY <1>1, <1>7
  <2>2. added.list = longer /\ added.full = full
    BY <2>1
  <2>3. Extends(list, S)
    BY <1>2, <1>7
  <2>4. list \in Seq(S \union {c}) /\ Range(list) = S
    <3>1. list \in Seq(S) /\ Range(list) = S
      BY <2>3 DEF Extends
    <3>2. S \subseteq S \union {c}
      OBVIOUS
    <3>3. QED
      BY <3>1, <3>2, SeqMonotonic
  <2>5. PICK n : n = Len(list)
    OBVIOUS
  <2>6. n \in Nat /\ DOMAIN list = 1..n
    BY <2>4, <2>5, LenProperties
  <2>7. /\ longer \in Seq(S \union {c}) /\ Len(longer) = n + 1 /\ DOMAIN longer = 1..n + 1
        /\ longer[n + 1] = c /\ \A i \in 1..n : longer[i] = list[i]
    BY <2>4, <2>5, <2>6, AppendProperties, LenProperties
  <2> HIDE DEF longer
  <2>8. Range(longer) = S \union {c}
    <3>1. \A i \in 1..n + 1 : longer[i] \in S \union {c}
      BY <2>7
    <3>2. \A x \in S : \E i \in 1..n : list[i] = x
      BY <2>4, <2>6 DEF Range
    <3>3. \A x \in S : \E i \in 1..n + 1 : longer[i] = x
      <4>1. \A i \in 1..n : i \in 1..n + 1
        BY <2>6
      <4>2. QED
        BY <2>7, <3>2, <4>1
    <3>4. n + 1 \in 1..n + 1
      BY <2>6
    <3>5. QED
      BY <2>7, <3>1, <3>3, <3>4 DEF Range
  <2>9. longer \in Seq(Range(longer))
    BY <2>7, SeqOfRange
  <2>10. Distinct(longer)
    <3> SUFFICES ASSUME NEW i \in 1..n + 1, NEW j \in 1..n + 1, longer[i] = longer[j]
                 PROVE  i = j
      BY <2>7 DEF Distinct
    <3>1. i = n + 1 \/ i \in 1..n
      BY <2>6
    <3>2. j = n + 1 \/ j \in 1..n
      BY <2>6
    <3>3. \A k \in 1..n : longer[k] # c
      BY <1>7, <2>6, <2>7 DEF Range
    <3>4. \A k, l \in 1..n : longer[k] = longer[l] => k = l
      BY <2>3, <2>6, <2>7 DEF Extends, Distinct
    <3>5. QED
      BY <2>7, <3>1, <3>2, <3>3, <3>4
  <2>11. Len(contexts) <= Len(longer) /\ \A i \in 1..Len(contexts) : longer[i] = contexts[i]
    <3>1. Len(contexts) <= n /\ \A i \in 1..Len(contexts) : list[i] = contexts[i]
      BY <2>3, <2>5 DEF Extends
    <3>2. \A i \in 1..Len(contexts) : i \in 1..n
      BY <2>6, <3>1
    <3>3. QED
      BY <2>6, <2>7, <3>1, <3>2
  <2>12. Extends(longer, S \union {c})
    BY <2>8, <2>9, <2>10, <2>11 DEF Extends
  <2>13. QED
    BY <1>2, <1>3, <1>7, <2>1, <2>2, <2>12 DEF IsExtended
<1>8. QED
  BY <1>4, <1>5, <1>6, <1>7

(* ... so that adding many makes a longer list of distinct contexts.       *)
LEMMA AllExtend ==
  ASSUME contexts \in Seq(Range(contexts)), Distinct(contexts), NEW more, NEW n \in Nat, DOMAIN more = 1..n,
         ~AddAll(more).full
  PROVE  Extends(AddAll(more).list, Range(contexts) \union {more[i] : i \in 1..n})
<1>1. PICK f : /\ f[0] = [list |-> contexts, full |-> FALSE] /\ f[n] = AddAll(more)
               /\ \A k \in 0..n - 1 : f[k + 1] = Added(f[k], more[k + 1])
  <2>1. \E f : /\ f[0] = [list |-> contexts, full |-> FALSE] /\ f[n] = Adding!Fold([list |-> contexts, full |-> FALSE], more)
               /\ \A k \in 0..n - 1 : f[k + 1] = Added(f[k], more[k + 1])
    BY ONLY DOMAIN more = 1..n, n \in Nat, Adding!FoldSteps DEF Adding!Folds
  <2>2. AddAll(more) = Adding!Fold([list |-> contexts, full |-> FALSE], more)
    BY AddsFold
  <2>3. QED
    BY ONLY <2>1, <2>2
<1> DEFINE S(k) == Range(contexts) \union {more[i] : i \in 1..k}
           N == {k \in Nat : k <= n => IsExtended(f[k], S(k))}
<1>2. Len(contexts) \in Nat
  BY LenProperties
<1>3. 0 \in N
  <2>1. f[0].list = contexts /\ f[0].full = FALSE
    BY <1>1
  <2>2. S(0) = Range(contexts)
    OBVIOUS
  <2>3. Extends(contexts, Range(contexts))
    BY <1>2 DEF Extends
  <2>4. QED
    BY <1>1, <2>1, <2>2, <2>3 DEF IsExtended
<1>4. ASSUME NEW k \in Nat, k \in N
      PROVE  k + 1 \in N
  <2>1. k + 1 \in Nat
    OBVIOUS
  <2>2. S(k + 1) = S(k) \union {more[k + 1]}
    <3>1. \A i \in 1..k + 1 : i \in 1..k \/ i = k + 1
      OBVIOUS
    <3>2. k + 1 \in 1..k + 1 /\ \A i \in 1..k : i \in 1..k + 1
      OBVIOUS
    <3>3. QED
      BY <3>1, <3>2
  <2>3. k + 1 <= n => IsExtended(f[k], S(k)) /\ k \in 0..n - 1
    BY <1>4
  <2> HIDE DEF S
  <2>4. k + 1 <= n => f[k + 1] = Added(f[k], more[k + 1])
    BY <1>1, <2>3
  <2>5. k + 1 <= n => IsExtended(Added(f[k], more[k + 1]), S(k) \union {more[k + 1]})
    BY <1>2, <2>3, AddedExtends
  <2>6. k + 1 <= n => IsExtended(f[k + 1], S(k + 1))
    BY <2>2, <2>4, <2>5
  <2>7. QED
    BY <2>1, <2>6
<1> HIDE DEF N
<1>5. n \in N
  BY <1>3, <1>4, Induct!NatInduct
<1>6. IsExtended(f[n], S(n))
  BY <1>5 DEF N
<1>7. QED
  BY <1>1, <1>6 DEF IsExtended

Rounds == INSTANCE Folding WITH Op <- Adopting

-----------------------------------------------------------------------------
(* The namespaces that documents are compiled for.                         *)

(* Contexts pair documents with namespaces, their own if they declare one. *)
IsContext(c) == c = <<c[1], c[2]>> /\ c[1] \in DOMAIN docs /\ (Declared(c[1]) # "" => c[2] = Declared(c[1]))

Closed(S) == \A c \in S : AdoptedBy(c) \subseteq S

(* A root has the namespace it declares, or none.                          *)
LEMMA RootContext ==
  ASSUME NEW c \in RootContexts
  PROVE  IsContext(c) /\ Root(c[1])
<1>1. PICK key \in DOMAIN docs : c = <<key, Declared(key)>> /\ Root(key)
  BY DEF RootContexts
<1>2. c[1] = key /\ c[2] = Declared(key)
  BY <1>1
<1>3. QED
  BY <1>1, <1>2 DEF IsContext

(* A document that adopts a namespace declares none.                       *)
LEMMA AdoptedContext ==
  ASSUME NEW c, NEW d \in AdoptedBy(c)
  PROVE  IsContext(d)
<1>1. PICK ref \in Includes(c[1]) : d = <<bound[ref], c[2]>> /\ Declared(bound[ref]) = ""
  BY DEF AdoptedBy
<1>2. bound[ref] \in DOMAIN docs
  BY DEF Includes, Edges, Loaded
<1>3. d[1] = bound[ref] /\ d[2] = c[2]
  BY <1>1
<1>4. QED
  BY <1>1, <1>2, <1>3 DEF IsContext

(* The rounds, from the roots on.                                          *)
LEMMA ExpectedSteps ==
  ASSUME NEW n \in Nat, n = Cardinality(DOMAIN docs)
  PROVE  \E f : /\ f[0] = RootContexts /\ f[n] = ExpectedContexts
               /\ \A k \in 0..n - 1 : f[k + 1] = f[k] \union UNION {AdoptedBy(c) : c \in f[k]}
<1>1. PICK rounds : rounds = [round \in 1..n |-> round]
  OBVIOUS
<1>2. DOMAIN rounds = 1..n
  BY ONLY <1>1
<1>3. ExpectedContexts = Rounds!Fold(RootContexts, rounds)
  <2>1. ExpectedContexts = FoldLeft(Adopting, RootContexts, rounds)
    BY <1>1 DEF ExpectedContexts
  <2>2. FoldLeft(Adopting, RootContexts, rounds) = Rounds!Fold(RootContexts, rounds)
    BY DEF FoldLeft, MapThenFoldSet, Max, Rounds!Fold, Rounds!Iterated,
         Rounds!Iterates, Rounds!Step, Rounds!Largest
  <2>3. QED
    BY <2>1, <2>2
<1>4. PICK f : /\ f[0] = RootContexts /\ f[n] = Rounds!Fold(RootContexts, rounds)
               /\ \A k \in 0..n - 1 : f[k + 1] = Adopting(f[k], rounds[k + 1])
  <2>1. PICK f : Rounds!Folds(RootContexts, rounds, n, f)
    BY ONLY n \in Nat, <1>2, Rounds!FoldSteps
  <2>2. QED
    BY ONLY <2>1 DEF Rounds!Folds
<1>5. QED
  BY <1>3, <1>4 DEF Adopting

(* A set with the roots and what its contexts adopt has what is expected.  *)
LEMMA ExpectedIsLeast ==
  ASSUME ShapeInv, NEW S, RootContexts \subseteq S, Closed(S)
  PROVE  ExpectedContexts \subseteq S
<1>1. PICK n \in Nat : n = Cardinality(DOMAIN docs)
  BY FS_CardinalityType DEF ShapeInv, DocsInv
<1>2. PICK f : /\ f[0] = RootContexts /\ f[n] = ExpectedContexts
               /\ \A k \in 0..n - 1 : f[k + 1] = f[k] \union UNION {AdoptedBy(c) : c \in f[k]}
  BY <1>1, ExpectedSteps
<1> DEFINE N == {k \in Nat : k <= n => f[k] \subseteq S}
<1>3. 0 \in N
  BY <1>2
<1>4. ASSUME NEW k \in Nat, k \in N
      PROVE  k + 1 \in N
  <2>1. k + 1 <= n => f[k] \subseteq S /\ k \in 0..n - 1
    BY <1>4
  <2>2. k + 1 <= n => f[k + 1] = f[k] \union UNION {AdoptedBy(c) : c \in f[k]}
    BY <1>2, <2>1
  <2>3. k + 1 <= n => \A c \in f[k] : AdoptedBy(c) \subseteq S
    BY <2>1 DEF Closed
  <2>4. k + 1 <= n => f[k + 1] \subseteq S
    BY <2>1, <2>2, <2>3
  <2>5. QED
    BY <2>4
<1> HIDE DEF N
<1>5. n \in N
  BY <1>3, <1>4, Induct!NatInduct
<1>6. QED
  BY <1>2, <1>5 DEF N

(* For a namespace, a set of documents with those that adopt it from them. *)
Grown(K) ==
  K \union {bound[ref] : ref \in {r \in Edges : r[1] \in K /\ RefOf(r).kind = "include" /\ Declared(bound[r]) = ""}}
InSpace(S, y) == {x \in DOMAIN docs : <<x, y>> \in S}

(* A round lets the documents of each namespace grow.                      *)
LEMMA SpaceGrows ==
  ASSUME NEW S, \A c \in S : IsContext(c), NEW y
  PROVE  InSpace(S \union UNION {AdoptedBy(c) : c \in S}, y) = Grown(InSpace(S, y))
<1>1. ASSUME NEW c \in S, NEW x \in DOMAIN docs, <<x, y>> \in AdoptedBy(c)
      PROVE  x \in Grown(InSpace(S, y))
  <2>1. PICK ref \in Includes(c[1]) : <<x, y>> = <<bound[ref], c[2]>> /\ Declared(bound[ref]) = ""
    BY <1>1 DEF AdoptedBy
  <2>2. x = bound[ref] /\ y = c[2]
    BY <2>1
  <2>3. c[1] \in InSpace(S, y)
    BY <2>2 DEF IsContext, InSpace
  <2>4. ref \in Edges /\ ref[1] = c[1] /\ RefOf(ref).kind = "include"
    BY DEF Includes
  <2>5. QED
    BY <2>1, <2>2, <2>3, <2>4 DEF Grown
<1>2. ASSUME NEW ref \in Edges, ref[1] \in InSpace(S, y), RefOf(ref).kind = "include", Declared(bound[ref]) = ""
      PROVE  bound[ref] \in InSpace(S \union UNION {AdoptedBy(c) : c \in S}, y)
  <2>1. PICK c : c = <<ref[1], y>> /\ c[1] = ref[1] /\ c[2] = y
    <3>1. <<ref[1], y>>[1] = ref[1] /\ <<ref[1], y>>[2] = y
      OBVIOUS
    <3>2. QED
      BY <3>1
  <2>2. c \in S
    BY <1>2, <2>1 DEF InSpace
  <2>3. ref \in Includes(c[1])
    BY <1>2, <2>1 DEF Includes
  <2>4. <<bound[ref], y>> \in AdoptedBy(c)
    BY <1>2, <2>1, <2>3 DEF AdoptedBy
  <2>5. bound[ref] \in DOMAIN docs
    BY DEF Edges, Loaded
  <2>6. QED
    BY <2>2, <2>4, <2>5 DEF InSpace
<1>3. InSpace(S \union UNION {AdoptedBy(c) : c \in S}, y) \subseteq Grown(InSpace(S, y))
  <2>1. \A x \in DOMAIN docs : <<x, y>> \in S => x \in Grown(InSpace(S, y))
    BY DEF InSpace, Grown
  <2>2. \A x \in DOMAIN docs : <<x, y>> \in UNION {AdoptedBy(c) : c \in S} => x \in Grown(InSpace(S, y))
    BY <1>1
  <2>3. PICK K, T : K = Grown(InSpace(S, y)) /\ T = S \union UNION {AdoptedBy(c) : c \in S}
    OBVIOUS
  <2>4. \A x \in DOMAIN docs : <<x, y>> \in T => x \in K
    BY <2>1, <2>2, <2>3
  <2>5. InSpace(T, y) \subseteq K
    BY ONLY <2>4 DEF InSpace
  <2>6. QED
    BY <2>3, <2>5
<1>4. InSpace(S, y) \subseteq InSpace(S \union UNION {AdoptedBy(c) : c \in S}, y)
  BY DEF InSpace
<1>5. QED
  BY <1>2, <1>3, <1>4 DEF Grown

(* Each round adds a document to a namespace, or there is none left to     *)
(* add: there are no more rounds to make than documents.                   *)
LEMMA SpaceIsFull ==
  ASSUME NEW all, IsFiniteSet(all), NEW n \in Nat, n = Cardinality(all),
         NEW g, \A k \in 0..n : g[k] \in SUBSET all,
         \A k \in 0..n - 1 : g[k + 1] = Grown(g[k]),
         \A K \in SUBSET all : Grown(K) \in SUBSET all
  PROVE  Grown(g[n]) = g[n]
<1> DEFINE N == {k \in Nat : k <= n => Cardinality(g[k]) >= k \/ Grown(g[k]) = g[k]}
<1>0. \A k \in 0..n : IsFiniteSet(g[k]) /\ Cardinality(g[k]) \in Nat
  BY FS_Subset, FS_CardinalityType
<1>1. 0 \in N
  <2>1. 0 \in 0..n
    OBVIOUS
  <2>2. QED
    BY <1>0, <2>1
<1>2. ASSUME NEW k \in Nat, k \in N
      PROVE  k + 1 \in N
  <2>1. k + 1 \in Nat
    OBVIOUS
  <2>2. SUFFICES ASSUME k + 1 <= n
                 PROVE  Cardinality(g[k + 1]) >= k + 1 \/ Grown(g[k + 1]) = g[k + 1]
    BY <2>1
  <2>3. /\ k \in 0..n - 1 /\ k \in 0..n /\ k + 1 \in 0..n /\ g[k + 1] = Grown(g[k])
        /\ Cardinality(g[k]) >= k \/ Grown(g[k]) = g[k]
    BY <1>2, <2>2
  <2>4. CASE Grown(g[k]) = g[k]
    BY <2>3, <2>4
  <2>5. CASE Grown(g[k]) # g[k] /\ Cardinality(g[k]) >= k
    <3>1. PICK small, big : small = g[k] /\ big = g[k + 1]
      OBVIOUS
    <3>2. IsFiniteSet(big) /\ small \in SUBSET big /\ small # big
      BY <1>0, <2>3, <2>5, <3>1 DEF Grown
    <3>3. Cardinality(small) <= Cardinality(big) /\ Cardinality(big) # Cardinality(small)
      BY <3>2, FS_Subset
    <3>4. Cardinality(small) \in Nat /\ Cardinality(big) \in Nat /\ Cardinality(small) >= k
      BY <1>0, <2>3, <2>5, <3>1
    <3>5. QED
      BY <3>1, <3>3, <3>4
  <2>6. QED
    BY <2>3, <2>4, <2>5
<1> HIDE DEF N
<1>3. n \in N
  BY <1>1, <1>2, Induct!NatInduct
<1>4. Cardinality(g[n]) >= n \/ Grown(g[n]) = g[n]
  BY <1>3 DEF N
<1>5. CASE Cardinality(g[n]) >= n
  <2>1. PICK K : K = g[n]
    OBVIOUS
  <2>2. K \in SUBSET all /\ Cardinality(K) \in Nat /\ Cardinality(K) >= n
    BY <1>0, <1>5, <2>1
  <2>3. K = all
    BY <2>2, FS_Subset
  <2>4. Grown(K) \in SUBSET all /\ K \subseteq Grown(K)
    BY <2>2 DEF Grown
  <2>5. QED
    BY <2>1, <2>3, <2>4
<1>6. QED
  BY <1>4, <1>5

(* So the rounds end when nothing is left to adopt.                        *)
LEMMA ExpectedIsClosed ==
  ASSUME ShapeInv
  PROVE  /\ RootContexts \subseteq ExpectedContexts /\ Closed(ExpectedContexts)
         /\ \A c \in ExpectedContexts : IsContext(c)
<1>1. IsFiniteSet(DOMAIN docs)
  BY DEF ShapeInv, DocsInv
<1>2. PICK n \in Nat : n = Cardinality(DOMAIN docs)
  BY <1>1, FS_CardinalityType
<1>3. PICK f : /\ f[0] = RootContexts /\ f[n] = ExpectedContexts
               /\ \A k \in 0..n - 1 : f[k + 1] = f[k] \union UNION {AdoptedBy(c) : c \in f[k]}
  BY <1>2, ExpectedSteps
<1> DEFINE N == {k \in Nat : k <= n => RootContexts \subseteq f[k] /\ \A c \in f[k] : IsContext(c)}
<1>4. 0 \in N
  BY <1>3, RootContext
<1>5. ASSUME NEW k \in Nat, k \in N
      PROVE  k + 1 \in N
  <2>1. k + 1 <= n => RootContexts \subseteq f[k] /\ (\A c \in f[k] : IsContext(c)) /\ k \in 0..n - 1
    BY <1>5
  <2>2. k + 1 <= n => f[k + 1] = f[k] \union UNION {AdoptedBy(c) : c \in f[k]}
    BY <1>3, <2>1
  <2>3. k + 1 <= n => \A c \in f[k + 1] : IsContext(c)
    BY <2>1, <2>2, AdoptedContext
  <2>4. QED
    BY <2>1, <2>2, <2>3
<1> HIDE DEF N
<1>6. \A k \in Nat : k \in N
  BY <1>4, <1>5, Induct!NatInduct
<1>7. \A k \in 0..n : RootContexts \subseteq f[k] /\ \A c \in f[k] : IsContext(c)
  BY <1>6 DEF N
<1>8. RootContexts \subseteq ExpectedContexts /\ \A c \in ExpectedContexts : IsContext(c)
  BY <1>3, <1>7
<1>9. ASSUME NEW y
      PROVE  Grown(InSpace(ExpectedContexts, y)) = InSpace(ExpectedContexts, y)
  <2>1. PICK g : g = [k \in 0..n |-> InSpace(f[k], y)]
    OBVIOUS
  <2>2. \A k \in 0..n : g[k] = InSpace(f[k], y)
    BY ONLY <2>1
  <2>3. \A k \in 0..n : g[k] \in SUBSET DOMAIN docs
    BY <2>2 DEF InSpace
  <2>4. ASSUME NEW k \in 0..n - 1
        PROVE  g[k + 1] = Grown(g[k])
    <3>1. k \in 0..n /\ k + 1 \in 0..n
      OBVIOUS
    <3>2. f[k + 1] = f[k] \union UNION {AdoptedBy(c) : c \in f[k]} /\ \A c \in f[k] : IsContext(c)
      BY <1>3, <1>7, <3>1
    <3>3. InSpace(f[k + 1], y) = Grown(InSpace(f[k], y))
      BY <3>2, SpaceGrows
    <3>4. QED
      BY <2>2, <3>1, <3>3
  <2>5. \A K \in SUBSET DOMAIN docs : Grown(K) \in SUBSET DOMAIN docs
    BY DEF Grown, Edges, Loaded
  <2>6. Grown(g[n]) = g[n]
    BY <1>1, <1>2, <2>3, <2>4, <2>5, SpaceIsFull
  <2>7. g[n] = InSpace(ExpectedContexts, y)
    BY <1>3, <2>2
  <2>8. QED
    BY <2>6, <2>7
<1>10. ASSUME NEW c \in ExpectedContexts, NEW d \in AdoptedBy(c)
       PROVE  d \in ExpectedContexts
  <2>1. PICK S, y : S = ExpectedContexts /\ y = c[2]
    OBVIOUS
  <2>2. PICK ref \in Includes(c[1]) : d = <<bound[ref], y>> /\ Declared(bound[ref]) = ""
    BY <2>1 DEF AdoptedBy
  <2>3. ref \in Edges /\ ref[1] = c[1] /\ RefOf(ref).kind = "include"
    BY DEF Includes
  <2>4. c[1] \in InSpace(S, y)
    BY <1>8, <2>1 DEF IsContext, InSpace
  <2>5. bound[ref] \in Grown(InSpace(S, y))
    BY <2>2, <2>3, <2>4 DEF Grown
  <2>6. bound[ref] \in InSpace(S, y)
    BY <1>9, <2>1, <2>5
  <2>7. QED
    BY <2>1, <2>2, <2>6 DEF InSpace
<1>11. QED
  BY <1>8, <1>10 DEF Closed

(* What is expected, as a function of what it depends on.                  *)
ExpectedOf(w, d, b) ==
  LET edges == {ref \in DOMAIN b : b[ref] \in DOMAIN d}
      Kind(ref) == d[ref[1]].content.refs[ref[2]].kind
      adopted(c) == {<<b[ref], c[2]>> : ref \in
                       {r \in {s \in edges : s[1] = c[1] /\ Kind(s) = "include"} : d[b[r]].content.target = ""}}
      roots == {k \in DOMAIN d : \/ d[k].content.target # ""
                                 \/ \E s \in w.explicit : Key[s.name] = k
                                 \/ \E ref \in edges : b[ref] = k /\ Kind(ref) = "import"}
  IN  FoldLeft(LAMBDA cs, round : cs \union UNION {adopted(c) : c \in cs},
               {<<key, d[key].content.target>> : key \in roots}, [round \in 1..Cardinality(DOMAIN d) |-> round])

(* The same said of this state ...                                         *)
LEMMA ExpectedIs == ExpectedContexts = ExpectedOf(world, docs, bound)
BY DEF ExpectedContexts, ExpectedOf, Adopting, AdoptedBy, RootContexts, Root, Declared, Includes, Edges, Loaded, RefOf,
       FoldLeft, MapThenFoldSet, Max

(* ... and of the next.                                                    *)
LEMMA ExpectedNext == ExpectedContexts' = ExpectedOf(world', docs', bound')
BY DEF ExpectedContexts, ExpectedOf, Adopting, AdoptedBy, RootContexts, Root, Declared, Includes, Edges, Loaded, RefOf,
       FoldLeft, MapThenFoldSet, Max

(* Where documents and references stay, the same is expected.              *)
LEMMA SameExpected ==
  ASSUME UNCHANGED <<world, docs, bound>>
  PROVE  /\ RootContexts' = RootContexts /\ ExpectedContexts' = ExpectedContexts
         /\ \A c : AdoptedBy(c)' = AdoptedBy(c)
<1>1. \A key : Declared(key)' = Declared(key) /\ Includes(key)' = Includes(key) /\ Root(key)' = Root(key)
  BY DEF Declared, Includes, Edges, Loaded, RefOf, Root
<1>2. RootContexts' = RootContexts
  BY <1>1 DEF RootContexts
<1>3. \A c : AdoptedBy(c)' = AdoptedBy(c)
  BY <1>1 DEF AdoptedBy
<1>4. ExpectedContexts' = ExpectedContexts
  BY ExpectedIs, ExpectedNext
<1>5. QED
  BY <1>2, <1>3, <1>4

(* While contexts are found, they are among the expected ones and contain  *)
(* the roots, and those before the next have handed on their namespace.    *)
TargetInv ==
  /\ pc \notin Whole => next = 1
  /\ pc \in {"propagate", "loaded"} =>
       /\ next \in 1..Len(contexts) + 1
       /\ Distinct(contexts)
       /\ RootContexts \subseteq Range(contexts) /\ Range(contexts) \subseteq ExpectedContexts
       /\ \A i \in DOMAIN contexts : i < next \/ pc = "loaded" => AdoptedBy(contexts[i]) \subseteq Range(contexts)

(* What a list of contexts has to be for the next state.                   *)
LEMMA TargetsNow ==
  ASSUME UNCHANGED <<world, docs, bound>>, NEW list, contexts' = list, pc' \in {"propagate", "loaded"},
         next' \in 1..Len(list) + 1, Distinct(list),
         RootContexts \subseteq Range(list), Range(list) \subseteq ExpectedContexts,
         \A i \in DOMAIN list : i < next' \/ pc' = "loaded" => AdoptedBy(list[i]) \subseteq Range(list)
  PROVE  TargetInv'
<1>1. pc' \in Whole
  BY DEF Whole
<1>2. /\ RootContexts' = RootContexts /\ ExpectedContexts' = ExpectedContexts
      /\ \A c : AdoptedBy(c)' = AdoptedBy(c)
  BY SameExpected
<1>3. Range(contexts)' = Range(list) /\ Distinct(contexts)'
  BY DEF Range, Distinct
<1>4. \A i \in DOMAIN contexts' : i < next' \/ pc' = "loaded" => AdoptedBy(contexts'[i]) \subseteq Range(list)
  OBVIOUS
<1>5. \A i \in DOMAIN contexts' : i < next' \/ pc' = "loaded" => AdoptedBy(contexts[i])' \subseteq Range(list)
  <2>1. \A i \in DOMAIN contexts' : AdoptedBy(contexts[i])' = AdoptedBy(contexts'[i])
    BY DEF AdoptedBy, Includes, Edges, Loaded, RefOf, Declared
  <2>2. QED
    BY <1>4, <2>1
<1>6. QED
  BY <1>1, <1>2, <1>3, <1>5 DEF TargetInv

(* Steps that leave contexts, documents and references alone.              *)
LEMMA SameTargets ==
  ASSUME TargetInv, UNCHANGED <<world, docs, bound, contexts, next>>, pc' \in Whole \/ pc \notin Whole,
         pc' \notin {"propagate", "loaded"} \/ pc' = pc
  PROVE  TargetInv'
<1>1. CASE pc' \notin {"propagate", "loaded"}
  BY <1>1 DEF TargetInv
<1>2. CASE pc' = pc /\ pc \in {"propagate", "loaded"}
  BY <1>2, TargetsNow DEF TargetInv
<1>3. QED
  BY <1>1, <1>2

(* Only the steps from seed on have to do with contexts.                   *)
LEMMA QuietTargets ==
  ASSUME TargetInv,
         Cancel \/ Take \/ Resolve \/ Acquire \/ SkipAbsent \/ Load \/ Repeat \/ CheckTargets
           \/ (\E failure \in Failures : Stop(failure)) \/ UNCHANGED vars
  PROVE  TargetInv'
<1>1. CASE \E failure \in Failures : Stop(failure)
  <2>1. UNCHANGED <<world, docs, bound, contexts, next>> /\ pc' \in Failures
    BY <1>1 DEF Stop, Goto, graph, targets
  <2>2. pc' \in Whole /\ pc' \notin {"propagate", "loaded"}
    BY <2>1 DEF Whole, Failures
  <2>3. QED
    BY <2>1, <2>2, SameTargets
<1>2. CASE Cancel \/ UNCHANGED vars
  <2>1. UNCHANGED <<world, docs, bound, contexts, next, pc>>
    BY <1>2 DEF Cancel, vars, graph, targets
  <2>2. QED
    BY <2>1, SameTargets
<1>3. CASE Take \/ Resolve \/ Acquire \/ SkipAbsent \/ Load \/ Repeat \/ CheckTargets
  <2>1. UNCHANGED targets /\ pc \in {"take", "resolve", "open", "read", "refused", "close", "acquired"}
    <3>1. Resolve => UNCHANGED targets /\ pc = "resolve"
      BY DEF Resolve, ResolveFails, ResolveNothing, ResolveIdentity, ResolveSource, Stop, Running
    <3>2. Acquire => UNCHANGED targets /\ pc \in {"open", "read", "refused", "close"}
      BY DEF Acquire, OpenBytes, OpenFails, OpenReader, CloseRefused, Read, Close, Acquired, Running
    <3>3. Take \/ SkipAbsent \/ Load \/ Repeat \/ CheckTargets => UNCHANGED targets /\ pc \in {"take", "acquired"}
      BY DEF Take, SkipAbsent, Load, Usable, Repeat, Repeated, CheckTargets, Stop, Running
    <3>4. QED
      BY <1>3, <3>1, <3>2, <3>3
  <2>2. pc' \in {"take", "resolve", "open", "read", "refused", "close", "acquired", "seed"} \union Failures
    <3>1. Resolve => pc' \in {"take", "open"} \union Failures
      BY DEF Resolve, ResolveFails, ResolveNothing, ResolveIdentity, ResolveSource, Stop, Goto, Failures
    <3>2. Acquire => pc' \in {"read", "refused", "close", "acquired"}
      BY DEF Acquire, OpenBytes, OpenFails, OpenReader, CloseRefused, Read, Close, Acquired, Goto
    <3>3. Take \/ SkipAbsent \/ Load \/ Repeat \/ CheckTargets => pc' \in {"take", "resolve", "open", "seed"} \union Failures
      BY DEF Take, SkipAbsent, Load, Repeat, CheckTargets, Stop, Goto, Failures
    <3>4. QED
      BY <1>3, <3>1, <3>2, <3>3
  <2>3. pc \notin Whole /\ pc' \notin {"propagate", "loaded"}
    BY <2>1, <2>2 DEF Whole, Failures
  <2>4. next' = next
    BY <2>1 DEF targets
  <2>5. QED
    BY <2>3, <2>4 DEF TargetInv
<1>4. QED
  BY <1>1, <1>2, <1>3

(* What is found to be a root is one: all sources that were passed in have *)
(* been loaded.                                                            *)
LEMMA RootsAreFound ==
  ASSUME GraphInv, RootInv, pc \in Later
  PROVE  /\ \A key \in DOMAIN docs : IsRoot(key) <=> Root(key)
         /\ \A s \in world.explicit : KeyOf(s) \in DOMAIN docs /\ Root(KeyOf(s))
<1>1. pc \notin Failures /\ pc \notin Reading /\ queue = <<>>
  BY DEF GraphInv, WorkInv, QueueInv, Later, Failures, Reading
<1>2. Range(queue) = {}
  BY <1>1 DEF Range
<1>3. \A s \in world.explicit : KeyOf(s) \in DOMAIN docs /\ docs[KeyOf(s)].explicitRoot
  BY <1>1, <1>2 DEF RootInv
<1>4. ASSUME NEW key \in DOMAIN docs
      PROVE  IsRoot(key) <=> Root(key)
  <2>1. docs[key].explicitRoot <=> \E s \in world.explicit : Key[s.name] = key
    BY <1>3 DEF RootInv, KeyOf
  <2>2. QED
    BY <2>1 DEF IsRoot, Root, Imported
<1>5. QED
  BY <1>3, <1>4 DEF Root, KeyOf

(* Every document has a context among the roots and what contexts adopt.   *)
LEMMA AllAreReached ==
  ASSUME GraphInv, RootInv, ReachInv, pc \in Later, NEW S, RootContexts \subseteq S, Closed(S)
  PROVE  \A key \in DOMAIN docs : \E c \in S : c[1] = key
<1>1. PICK X : X = {key \in DOMAIN docs : \E c \in S : c[1] = key}
  OBVIOUS
<1>2. \A key \in DOMAIN docs : Root(key) => key \in X
  <2> SUFFICES ASSUME NEW key \in DOMAIN docs, Root(key)
               PROVE  key \in X
    OBVIOUS
  <2>1. PICK c : c = <<key, Declared(key)>>
    OBVIOUS
  <2>2. c[1] = key /\ c \in RootContexts
    BY <2>1 DEF RootContexts
  <2>3. QED
    BY <1>1, <2>2
<1>3. Rooted(X)
  BY <1>2, RootsAreFound DEF Rooted, IsRoot
<1>4. Follows(X)
  <2> SUFFICES ASSUME NEW ref \in Edges, ref[1] \in X
               PROVE  bound[ref] \in X
    BY DEF Follows
  <2>1. bound[ref] \in DOMAIN docs /\ ref \in DOMAIN bound
    BY DEF Edges, Loaded
  <2>2. RefOf(ref).kind \in {"include", "import"}
    <3>1. ShapeInv
      BY DEF GraphInv
    <3>2. ref[1] \in DOMAIN docs /\ ref[2] \in DOMAIN docs[ref[1]].content.refs
      BY <2>1, <3>1, CallFacts
    <3>3. docs[ref[1]].content.refs \in Seq(References)
      BY <3>1, <3>2, ContentFacts DEF IsContent
    <3>4. PICK refs, i : refs = docs[ref[1]].content.refs /\ i = ref[2]
      OBVIOUS
    <3>5. refs[i] \in References
      BY <3>2, <3>3, <3>4, ElementOfSeq, LenProperties
    <3>6. QED
      BY <3>4, <3>5 DEF RefOf, References
  <2>3. CASE Declared(bound[ref]) # "" \/ RefOf(ref).kind = "import"
    BY <1>2, <2>1, <2>3 DEF Root
  <2>4. CASE Declared(bound[ref]) = "" /\ RefOf(ref).kind = "include"
    <3>1. PICK c \in S : c[1] = ref[1]
      BY <1>1
    <3>2. ref \in Includes(c[1])
      BY <2>4, <3>1 DEF Includes
    <3>3. PICK d : d = <<bound[ref], c[2]>>
      OBVIOUS
    <3>4. d \in AdoptedBy(c) /\ d[1] = bound[ref]
      BY <2>4, <3>2, <3>3 DEF AdoptedBy
    <3>5. d \in S
      BY <3>4 DEF Closed
    <3>6. QED
      BY <1>1, <2>1, <3>4, <3>5
  <2>5. QED
    BY <2>2, <2>3, <2>4
<1>5. X = DOMAIN docs
  <2>1. X \in SUBSET DOMAIN docs
    BY <1>1
  <2>2. QED
    BY <1>3, <1>4, <2>1 DEF ReachInv
<1>6. QED
  BY <1>1, <1>5

(* Contexts are added, or one of them exceeds a limit.                     *)
LEMMA AddingEnds ==
  ASSUME NEW more, NEW label, NEW following, AddOrStop(more, label, following)
  PROVE  \/ Stop("limit")
         \/ /\ ~AddAll(more).full /\ contexts' = AddAll(more).list /\ next' = following /\ pc' = label
            /\ UNCHANGED <<world, docs, bound>>
BY DEF AddOrStop, Goto, graph

(* The same of documents without references.                               *)
LEMMA AloneEnds ==
  ASSUME SeedAlone
  PROVE  \/ Stop("limit")
         \/ /\ contexts' = OwnContexts(DOMAIN docs) /\ next' = next /\ pc' = "loaded"
            /\ UNCHANGED <<world, docs, bound>>
BY DEF SeedAlone, Goto, graph

(* Documents in their own namespaces.                                      *)
LEMMA OwnRange ==
  ASSUME ShapeInv, NEW keys \in SUBSET DOMAIN docs, NEW list, list = OwnContexts(keys)
  PROVE  /\ list \in Seq(Range(list)) /\ Distinct(list) /\ Len(list) \in Nat
         /\ Range(list) = {<<key, Declared(key)>> : key \in keys}
<1>1. PICK names, n : names = InOrder(keys) /\ n = Cardinality(keys)
  OBVIOUS
<1>2. /\ n \in Nat /\ DOMAIN names = 1..n /\ names \in Seq(keys)
      /\ \A x \in keys : \E i \in 1..n : names[i] = x
      /\ \A i, j \in 1..n : names[i] = names[j] => i = j
  BY <1>1, InOrderFacts
<1>3. list = [i \in 1..n |-> <<names[i], Declared(names[i])>>]
  BY <1>1, <1>2 DEF OwnContexts
<1>4. /\ DOMAIN list = 1..n /\ \A i \in 1..n : names[i] \in keys
      /\ \A i \in 1..n : list[i] = <<names[i], Declared(names[i])>> /\ list[i][1] = names[i]
  BY <1>2, <1>3
<1>5. Distinct(list)
  BY <1>2, <1>4 DEF Distinct
<1>6. Range(list) = {<<key, Declared(key)>> : key \in keys}
  <2>1. \A c \in Range(list) : \E i \in 1..n : c = list[i]
    BY <1>4 DEF Range
  <2>2. \A i \in 1..n : \E key \in keys : list[i] = <<key, Declared(key)>>
    BY <1>4
  <2>3. \A i \in 1..n : list[i] \in Range(list)
    BY <1>4 DEF Range
  <2>4. ASSUME NEW key \in keys
        PROVE  <<key, Declared(key)>> \in Range(list)
    <3>1. PICK i \in 1..n : names[i] = key
      BY <1>2
    <3>2. list[i] = <<key, Declared(key)>>
      BY <1>4, <3>1
    <3>3. QED
      BY <2>3, <3>2
  <2>5. QED
    <3>1. \A c \in Range(list) : \E key \in keys : c = <<key, Declared(key)>>
      BY <2>1, <2>2
    <3>2. QED
      BY ONLY <2>4, <3>1
<1>7. list \in Seq(Range(list)) /\ Len(list) \in Nat
  <2>1. \A i \in 1..n : list[i] \in Range(list)
    BY <1>4 DEF Range
  <2>2. list = [i \in 1..n |-> list[i]]
    BY <1>3, <1>4
  <2>3. list \in [1..n -> Range(list)]
    BY <2>1, <2>2
  <2>4. list \in Seq(Range(list))
    BY <1>2, <2>3
  <2>5. QED
    BY <2>4, LenProperties
<1>8. QED
  BY <1>5, <1>6, <1>7

(* The roots are expected, and nothing is asked of contexts before them.   *)
LEMMA SeedTargets ==
  ASSUME GraphInv, RootInv, ReachInv, BudgetInv, TargetInv, Seed
  PROVE  TargetInv'
<1>1. pc = "seed" /\ AddOrStop(OwnContexts({key \in DOMAIN docs : IsRoot(key)}), "propagate", next)
  BY DEF Seed, Running
<1>2. ShapeInv /\ next = 1 /\ contexts = <<>> /\ pc \in Later
  BY <1>1 DEF GraphInv, TargetInv, BudgetInv, ContextsInv, Whole, Failures, Later
<1>3. PICK keys, more : keys = {key \in DOMAIN docs : IsRoot(key)} /\ more = OwnContexts(keys)
  OBVIOUS
<1>4. keys \in SUBSET DOMAIN docs /\ keys = {key \in DOMAIN docs : Root(key)}
  BY <1>2, <1>3, RootsAreFound
<1>5. Range(more) = RootContexts
  BY <1>2, <1>3, <1>4, OwnRange DEF RootContexts
<1>6. PICK n \in Nat : n = Cardinality(keys) /\ DOMAIN more = 1..n
  BY <1>2, <1>3, <1>4, OwnFacts
<1>7. CASE Stop("limit")
  BY <1>7, QuietTargets DEF Failures
<1>8. CASE /\ ~AddAll(more).full /\ contexts' = AddAll(more).list /\ next' = next /\ pc' = "propagate"
           /\ UNCHANGED <<world, docs, bound>>
  <2>1. PICK list : list = AddAll(more).list
    OBVIOUS
  <2>2. Range(contexts) = {} /\ contexts \in Seq(Range(contexts)) /\ Distinct(contexts)
    BY <1>2 DEF Range, Distinct
  <2>3. Extends(list, Range(contexts) \union {more[i] : i \in 1..n})
    BY <1>6, <1>8, <2>1, <2>2, AllExtend
  <2>4. {more[i] : i \in 1..n} = Range(more)
    BY <1>6 DEF Range
  <2>5. Range(list) = RootContexts /\ Distinct(list) /\ list \in Seq(Range(list))
    BY <1>5, <2>2, <2>3, <2>4 DEF Extends
  <2>6. Len(list) \in Nat /\ DOMAIN list = 1..Len(list)
    BY <2>5, LenProperties
  <2>7. next' \in 1..Len(list) + 1 /\ \A i \in DOMAIN list : ~(i < next')
    BY <1>2, <1>8, <2>6
  <2>8. RootContexts \subseteq ExpectedContexts
    BY <1>2, ExpectedIsClosed
  <2>9. QED
    BY <1>8, <2>1, <2>5, <2>7, <2>8, TargetsNow
<1>9. QED
  BY <1>1, <1>3, <1>7, <1>8, AddingEnds

(* Without references every document was passed in, and is a root.         *)
LEMMA AloneTargets ==
  ASSUME GraphInv, RootInv, ReachInv, BudgetInv, TargetInv, SeedAlone
  PROVE  TargetInv'
<1>1. pc = "seed" /\ Edges = {}
  BY DEF SeedAlone, Running
<1>2. ShapeInv /\ next = 1 /\ pc \in Later
  BY <1>1 DEF GraphInv, TargetInv, Whole, Failures, Later
<1>3. \A key \in DOMAIN docs : Root(key)
  <2>1. PICK X : X = {key \in DOMAIN docs : docs[key].explicitRoot}
    OBVIOUS
  <2>2. X \in SUBSET DOMAIN docs /\ Rooted(X) /\ Follows(X)
    BY <1>1, <2>1 DEF Rooted, Follows
  <2>3. X = DOMAIN docs
    BY <2>2 DEF ReachInv
  <2>4. QED
    BY <1>2, <2>1, <2>3, RootsAreFound DEF IsRoot
<1>4. PICK list, keys : list = OwnContexts(keys) /\ keys = DOMAIN docs
  OBVIOUS
<1>5. /\ list \in Seq(Range(list)) /\ Distinct(list) /\ Len(list) \in Nat
      /\ Range(list) = {<<key, Declared(key)>> : key \in keys}
  BY <1>2, <1>4, OwnRange
<1>6. Range(list) = RootContexts
  BY <1>3, <1>4, <1>5 DEF RootContexts
<1>7. \A c : AdoptedBy(c) = {}
  BY <1>1 DEF AdoptedBy, Includes
<1>8. RootContexts \subseteq ExpectedContexts
  BY <1>2, ExpectedIsClosed
<1>9. CASE Stop("limit")
  BY <1>9, QuietTargets DEF Failures
<1>10. CASE contexts' = list /\ next' = next /\ pc' = "loaded" /\ UNCHANGED <<world, docs, bound>>
  <2>1. next' \in 1..Len(list) + 1
    BY <1>2, <1>5, <1>10
  <2>2. QED
    BY <1>5, <1>6, <1>7, <1>8, <1>10, <2>1, TargetsNow
<1>11. QED
  BY <1>4, <1>9, <1>10, AloneEnds

(* The next context hands its namespace on.                                *)
LEMMA PropagateTargets ==
  ASSUME GraphInv, BudgetInv, TargetInv, Propagate
  PROVE  TargetInv'
<1>1. /\ pc = "propagate" /\ next <= Len(contexts)
      /\ AddOrStop(Adopted(contexts[next]), "propagate", next + 1)
  BY DEF Propagate, Running
<1>2. /\ ShapeInv /\ contexts \in Seq(Range(contexts)) /\ Distinct(contexts) /\ next \in 1..Len(contexts) + 1
      /\ RootContexts \subseteq Range(contexts) /\ Range(contexts) \subseteq ExpectedContexts
      /\ \A i \in DOMAIN contexts : i < next => AdoptedBy(contexts[i]) \subseteq Range(contexts)
  BY <1>1 DEF GraphInv, TargetInv, BudgetInv, ContextsInv, Within
<1>3. PICK m : m = Len(contexts)
  OBVIOUS
<1>4. m \in Nat /\ DOMAIN contexts = 1..m /\ next \in 1..m
  BY <1>1, <1>2, <1>3, LenProperties
<1>5. PICK c, more, following : c = contexts[next] /\ more = Adopted(c) /\ following = next + 1
  OBVIOUS
<1>6. c \in ExpectedContexts
  BY <1>2, <1>4, <1>5 DEF Range
<1>7. PICK n \in Nat : DOMAIN more = 1..n
  BY <1>2, <1>5, AdoptedFacts
<1>8. {more[i] : i \in 1..n} = AdoptedBy(c)
  <2>1. Range(more) = AdoptedBy(c)
    BY <1>2, <1>5, AdoptedFacts
  <2>2. QED
    BY <1>7, <2>1 DEF Range
<1>9. CASE Stop("limit")
  BY <1>9, QuietTargets DEF Failures
<1>10. CASE /\ ~AddAll(more).full /\ contexts' = AddAll(more).list /\ next' = next + 1 /\ pc' = "propagate"
            /\ UNCHANGED <<world, docs, bound>>
  <2>1. PICK list : list = AddAll(more).list
    OBVIOUS
  <2>2. Extends(list, Range(contexts) \union AdoptedBy(c))
    BY <1>2, <1>7, <1>8, <1>10, <2>1, AllExtend
  <2>3. /\ list \in Seq(Range(list)) /\ Range(list) = Range(contexts) \union AdoptedBy(c) /\ Distinct(list)
        /\ m <= Len(list) /\ \A i \in 1..m : list[i] = contexts[i]
    BY <1>3, <2>2 DEF Extends
  <2>4. PICK k \in Nat : k = Len(list) /\ DOMAIN list = 1..k
    BY <2>3, LenProperties
  <2>5. next' \in 1..k + 1
    BY <1>4, <1>10, <2>3, <2>4
  <2>6. AdoptedBy(c) \subseteq ExpectedContexts
    BY <1>2, <1>6, ExpectedIsClosed DEF Closed
  <2>7. ASSUME NEW i \in 1..k, i < next'
        PROVE  AdoptedBy(list[i]) \subseteq Range(list)
    <3>1. i \in 1..m /\ (i < next \/ i = next)
      BY <1>4, <1>10, <2>7
    <3>2. list[i] = contexts[i]
      BY <2>3, <3>1
    <3>3. CASE i < next
      BY <1>2, <1>4, <2>3, <3>1, <3>2, <3>3
    <3>4. CASE i = next
      BY <1>5, <2>3, <3>2, <3>4
    <3>5. QED
      BY <3>1, <3>3, <3>4
  <2>8. QED
    BY <1>2, <1>10, <2>1, <2>3, <2>4, <2>5, <2>6, <2>7, TargetsNow
<1>11. AddOrStop(more, "propagate", following)
  BY <1>1, <1>5
<1>12. QED
  BY <1>5, <1>9, <1>10, <1>11, AddingEnds

(* When all contexts have, every document has one, and the loading ends.   *)
LEMMA FallbackTargets ==
  ASSUME GraphInv, RootInv, ReachInv, BudgetInv, TargetInv, Fallback
  PROVE  TargetInv'
<1>1. PICK more, label : /\ pc = "propagate" /\ next > Len(contexts)
                         /\ more = [i \in DOMAIN InOrder(Unreached) |-> <<InOrder(Unreached)[i], "">>]
                         /\ label = IF Unreached = {} THEN "loaded" ELSE "propagate"
                         /\ AddOrStop(more, label, next)
  BY DEF Fallback, Running
<1>2. /\ ShapeInv /\ contexts \in Seq(Range(contexts)) /\ Distinct(contexts) /\ next \in 1..Len(contexts) + 1
      /\ RootContexts \subseteq Range(contexts) /\ Range(contexts) \subseteq ExpectedContexts
      /\ \A i \in DOMAIN contexts : i < next => AdoptedBy(contexts[i]) \subseteq Range(contexts)
  BY <1>1 DEF GraphInv, TargetInv, BudgetInv, ContextsInv, Within
<1>3. PICK m : m = Len(contexts)
  OBVIOUS
<1>4. m \in Nat /\ DOMAIN contexts = 1..m /\ next = m + 1
  <2>1. m \in Nat /\ DOMAIN contexts = 1..m
    BY <1>2, <1>3, LenProperties
  <2>2. next > m /\ next \in 1..m + 1
    BY <1>1, <1>2, <1>3
  <2>3. QED
    BY <2>1, <2>2
<1>5. \A i \in 1..m : AdoptedBy(contexts[i]) \subseteq Range(contexts)
  BY <1>2, <1>4
<1>6. Closed(Range(contexts))
  BY <1>4, <1>5 DEF Closed, Range
<1>7. pc \in Later
  BY <1>1 DEF Later
<1>8. Unreached = {}
  BY <1>2, <1>6, <1>7, AllAreReached DEF Unreached
<1>9. label = "loaded" /\ DOMAIN more = 1..0
  <2>1. DOMAIN InOrder(Unreached) = 1..Cardinality(Unreached)
    BY <1>2, InOrderFacts DEF Unreached
  <2>2. Cardinality(Unreached) = 0
    BY <1>8, FS_EmptySet
  <2>3. QED
    BY <1>1, <1>8, <2>1, <2>2
<1>10. CASE Stop("limit")
  BY <1>10, QuietTargets DEF Failures
<1>11. CASE /\ ~AddAll(more).full /\ contexts' = AddAll(more).list /\ next' = next /\ pc' = label
            /\ UNCHANGED <<world, docs, bound>>
  <2>1. AddAll(more) = [list |-> contexts, full |-> FALSE]
    BY <1>9, AddsFold, Adding!FoldEmpty
  <2>2. AddAll(more).list = contexts
    BY ONLY <2>1
  <2>3. PICK list : list = contexts
    OBVIOUS
  <2>4. QED
    BY <1>2, <1>3, <1>4, <1>5, <1>9, <1>11, <2>2, <2>3, TargetsNow
<1>12. AddOrStop(more, label, next)
  BY <1>1
<1>13. QED
  BY <1>10, <1>11, <1>12, AddingEnds

(* Every step keeps the contexts among those expected.                     *)
LEMMA TargetStep == GraphInv /\ RootInv /\ ReachInv /\ BudgetInv /\ TargetInv /\ [Next]_vars => TargetInv'
<1> SUFFICES ASSUME GraphInv, RootInv, ReachInv, BudgetInv, TargetInv, [Next]_vars
             PROVE  TargetInv'
  OBVIOUS
<1>1. CASE Cancel \/ Take \/ Resolve \/ Acquire \/ SkipAbsent \/ Load \/ Repeat \/ CheckTargets \/ UNCHANGED vars
  BY <1>1, QuietTargets
<1>2. CASE StopCanceled \/ AcquireFails \/ LoadRejected \/ RepeatRejected
  <2>1. \E failure \in Failures : Stop(failure)
    BY <1>2 DEF StopCanceled, AcquireFails, LoadRejected, LoadFailure, RepeatRejected, RepeatFailure, Failures
  <2>2. QED
    BY <2>1, QuietTargets
<1>3. CASE SeedAlone
  BY <1>3, AloneTargets
<1>4. CASE Seed
  BY <1>4, SeedTargets
<1>5. CASE Propagate
  BY <1>5, PropagateTargets
<1>6. CASE Fallback
  BY <1>6, FallbackTargets
<1>7. QED
  BY <1>1, <1>2, <1>3, <1>4, <1>5, <1>6 DEF Next

(* When the loading is done, the contexts are the expected ones.           *)
LEMMA ContextsAreFound == GraphInv /\ RootInv /\ ReachInv /\ BudgetInv /\ TargetInv => ContextsAreRight
<1> SUFFICES ASSUME GraphInv, RootInv, ReachInv, BudgetInv, TargetInv, pc = "loaded"
             PROVE  /\ \A key \in DOMAIN docs : \E c \in Range(contexts) : c[1] = key
                    /\ \A i, j \in DOMAIN contexts : contexts[i] = contexts[j] => i = j
                    /\ \A c \in Range(contexts) : Declared(c[1]) # "" => c[2] = Declared(c[1])
                    /\ \A key \in world.explicit : <<Key[key.name], Declared(Key[key.name])>> \in Range(contexts)
                    /\ Range(contexts) = ExpectedContexts
  BY DEF ContextsAreRight
<1>1. /\ ShapeInv /\ contexts \in Seq(Range(contexts)) /\ Distinct(contexts) /\ pc \in Later
      /\ RootContexts \subseteq Range(contexts) /\ Range(contexts) \subseteq ExpectedContexts
      /\ \A i \in DOMAIN contexts : AdoptedBy(contexts[i]) \subseteq Range(contexts)
  BY DEF GraphInv, TargetInv, BudgetInv, ContextsInv, Within, Later
<1>2. Closed(Range(contexts))
  BY <1>1 DEF Closed, Range
<1>3. Range(contexts) = ExpectedContexts
  BY <1>1, <1>2, ExpectedIsLeast
<1>4. \A c \in Range(contexts) : Declared(c[1]) # "" => c[2] = Declared(c[1])
  BY <1>1, <1>3, ExpectedIsClosed DEF IsContext
<1>5. \A s \in world.explicit : <<Key[s.name], Declared(Key[s.name])>> \in Range(contexts)
  BY <1>1, RootsAreFound DEF RootContexts, KeyOf
<1>6. \A key \in DOMAIN docs : \E c \in Range(contexts) : c[1] = key
  BY <1>1, <1>2, AllAreReached
<1>7. QED
  BY <1>1, <1>3, <1>4, <1>5, <1>6 DEF Distinct

(* Every document is compiled, each of them once for every namespace that  *)
(* is expected of it and for no other, whatever the order in which sources *)
(* were read and references resolved (instantiateTargetContexts).          *)
THEOREM NamespacesAreFound == Spec => []ContextsAreRight
<1>1. Init => GraphInv /\ BudgetInv /\ RootInv /\ ReachInv /\ TargetInv
  <2>1. Init => TargetInv
    BY DEF Init, TargetInv
  <2>2. QED
    BY <2>1, InitGraph, InitBudget, InitRoots
<1>2. GraphInv /\ BudgetInv /\ RootInv /\ ReachInv /\ TargetInv /\ [Next]_vars
        => (GraphInv /\ BudgetInv /\ RootInv /\ ReachInv /\ TargetInv)'
  BY GraphStep, BudgetStep, RootStep, TargetStep
<1>3. GraphInv /\ BudgetInv /\ RootInv /\ ReachInv /\ TargetInv => ContextsAreRight
  BY ContextsAreFound
<1>4. QED
  BY <1>1, <1>2, <1>3, PTL DEF Spec

-----------------------------------------------------------------------------
(* Sums over the subsets of one finite set.                                *)

(* A sum of natural numbers does not shrink when there is more to sum.     *)
LEMMA SumGrows ==
  ASSUME NEW f, NEW T, IsFiniteSet(T), \A x \in T : f[x] \in Nat
  PROVE  \A U \in SUBSET T : \A V \in SUBSET U : SumOver(f, V) <= SumOver(f, U)
<1> DEFINE N == {n \in Nat : \A U \in SUBSET T : Cardinality(U) = n => \A V \in SUBSET U : SumOver(f, V) <= SumOver(f, U)}
<1>1. \A U \in SUBSET T : IsFiniteSet(U) /\ Cardinality(U) \in Nat /\ SumOver(f, U) \in Nat
  <2> SUFFICES ASSUME NEW U \in SUBSET T
               PROVE  IsFiniteSet(U) /\ Cardinality(U) \in Nat /\ SumOver(f, U) \in Nat
    OBVIOUS
  <2>1. IsFiniteSet(U) /\ \A x \in U : f[x] \in Nat
    BY FS_Subset
  <2>2. QED
    BY <2>1, FS_CardinalityType, SumIsNat
<1>2. 0 \in N
  <2>1. ASSUME NEW U \in SUBSET T, Cardinality(U) = 0, NEW V \in SUBSET U
        PROVE  SumOver(f, V) <= SumOver(f, U)
    <3>1. U = {}
      BY <1>1, <2>1, FS_EmptySet
    <3>2. V = U
      BY <3>1
    <3>3. QED
      BY <1>1, <3>2
  <2>2. QED
    BY <2>1
<1>3. ASSUME NEW n \in Nat, n \in N
      PROVE  n + 1 \in N
  <2>1. SUFFICES ASSUME NEW U \in SUBSET T, Cardinality(U) = n + 1, NEW V \in SUBSET U, V # U
                 PROVE  SumOver(f, V) <= SumOver(f, U)
    <3>1. \A U \in SUBSET T : SumOver(f, U) <= SumOver(f, U)
      BY <1>1
    <3>2. QED
      BY <3>1
  <2>2. PICK x \in U : x \notin V
    BY <2>1
  <2>3. /\ U \ {x} \in SUBSET T /\ V \in SUBSET (U \ {x}) /\ Cardinality(U \ {x}) = n
    <3>1. Cardinality(U \ {x}) = Cardinality(U) - 1
      BY <1>1, <2>2, FS_RemoveElement
    <3>2. QED
      BY <2>1, <2>2, <3>1
  <2>4. SumOver(f, V) <= SumOver(f, U \ {x})
    BY <1>3, <2>3
  <2>5. SumOver(f, U) = f[x] + SumOver(f, U \ {x})
    <3>1. IsFiniteSet(U) /\ \A y \in U : f[y] \in Nat
      BY <1>1
    <3>2. QED
      BY <2>2, <3>1, SumWithout
  <2>6. PICK a, b, c, d : a = SumOver(f, V) /\ b = SumOver(f, U \ {x}) /\ c = f[x] /\ d = SumOver(f, U)
    BY Zenon
  <2>7. a \in Nat /\ b \in Nat /\ c \in Nat /\ d \in Nat
    <3>1. V \in SUBSET T /\ x \in T
      BY <2>2
    <3>2. QED
      BY <1>1, <2>3, <2>6, <3>1
  <2>8. a <= b /\ d = c + b
    BY <2>4, <2>5, <2>6
  <2>9. a <= d
    BY <2>7, <2>8
  <2>10. QED
    BY <2>6, <2>9
<1> HIDE DEF N
<1>4. \A n \in Nat : n \in N
  BY <1>2, <1>3, Induct!NatInduct
<1>5. QED
  BY <1>1, <1>4 DEF N

(* One more summand is in addition to the others.                          *)
LEMMA SumGrowsBy ==
  ASSUME NEW f, NEW T, IsFiniteSet(T), \A x \in T : f[x] \in Nat,
         NEW U \in SUBSET T, NEW V \in SUBSET U, NEW x \in U, x \notin V
  PROVE  SumOver(f, V) + f[x] <= SumOver(f, U)
<1>1. V \in SUBSET (U \ {x}) /\ U \ {x} \in SUBSET T /\ x \in T /\ V \in SUBSET T
  OBVIOUS
<1>2. IsFiniteSet(U) /\ (\A y \in U : f[y] \in Nat) /\ IsFiniteSet(U \ {x}) /\ IsFiniteSet(V)
  BY <1>1, FS_Subset
<1>3. SumOver(f, U) = f[x] + SumOver(f, U \ {x})
  BY <1>2, SumWithout
<1>4. SumOver(f, V) <= SumOver(f, U \ {x})
  BY <1>1, SumGrows
<1>5. SumOver(f, V) \in Nat /\ SumOver(f, U \ {x}) \in Nat
  BY <1>1, <1>2, SumIsNat
<1>6. PICK a, b, c, d : a = SumOver(f, V) /\ b = SumOver(f, U \ {x}) /\ c = f[x] /\ d = SumOver(f, U)
  BY Zenon
<1>7. a \in Nat /\ b \in Nat /\ c \in Nat /\ a <= b /\ d = c + b
  BY <1>1, <1>3, <1>4, <1>5, <1>6
<1>8. a + c <= d
  BY <1>7
<1>9. QED
  BY <1>6, <1>8

(* What grows in a finite set stops growing after as many rounds as that   *)
(* has elements: each of them adds one, or there is none left to add.      *)
LEMMA RoundsEnd ==
  ASSUME NEW all, IsFiniteSet(all), NEW n \in Nat, n = Cardinality(all),
         NEW h, \A K \in SUBSET all : h[K] \in SUBSET all /\ K \subseteq h[K],
         NEW g, g[0] \in SUBSET all, \A k \in 0..n - 1 : g[k + 1] = h[g[k]]
  PROVE  g[n] \in SUBSET all /\ g[0] \subseteq g[n] /\ h[g[n]] = g[n]
<1> DEFINE N == {k \in Nat : k <= n => /\ g[k] \in SUBSET all /\ g[0] \subseteq g[k]
                                       /\ Cardinality(g[k]) >= k \/ h[g[k]] = g[k]}
<1>1. 0 \in N
  <2>1. IsFiniteSet(g[0])
    BY FS_Subset
  <2>2. Cardinality(g[0]) \in Nat
    BY <2>1, FS_CardinalityType
  <2>3. QED
    BY <2>2
<1>2. ASSUME NEW k \in Nat, k \in N
      PROVE  k + 1 \in N
  <2>1. k + 1 \in Nat
    OBVIOUS
  <2>2. SUFFICES ASSUME k + 1 <= n
                 PROVE  /\ g[k + 1] \in SUBSET all /\ g[0] \subseteq g[k + 1]
                        /\ Cardinality(g[k + 1]) >= k + 1 \/ h[g[k + 1]] = g[k + 1]
    BY <2>1
  <2>3. PICK small, big : small = g[k] /\ big = g[k + 1]
    OBVIOUS
  <2>4. /\ big = h[small] /\ small \in SUBSET all /\ g[0] \subseteq small
        /\ Cardinality(small) >= k \/ h[small] = small
    BY <1>2, <2>2, <2>3
  <2>5. big \in SUBSET all /\ small \subseteq big
    BY <2>4
  <2>6. CASE small = big
    BY <2>3, <2>4, <2>5, <2>6
  <2>7. CASE small # big
    <3>1. IsFiniteSet(big) /\ IsFiniteSet(small)
      BY <2>4, <2>5, FS_Subset
    <3>2. Cardinality(small) <= Cardinality(big) /\ Cardinality(big) # Cardinality(small)
      BY <2>5, <2>7, <3>1, FS_Subset
    <3>3. Cardinality(small) \in Nat /\ Cardinality(big) \in Nat /\ Cardinality(small) >= k
      BY <2>4, <2>7, <3>1, FS_CardinalityType
    <3>4. Cardinality(big) >= k + 1
      BY <3>2, <3>3
    <3>5. QED
      BY <2>3, <2>4, <2>5, <3>4
  <2>8. QED
    BY <2>6, <2>7
<1> HIDE DEF N
<1>3. n \in N
  BY <1>1, <1>2, Induct!NatInduct
<1>4. PICK K : K = g[n]
  OBVIOUS
<1>5. K \in SUBSET all /\ g[0] \subseteq K /\ (Cardinality(K) >= n \/ h[K] = K)
  BY <1>3, <1>4 DEF N
<1>6. CASE Cardinality(K) >= n
  <2>1. IsFiniteSet(K)
    BY <1>5, FS_Subset
  <2>2. Cardinality(K) \in Nat /\ Cardinality(K) <= n
    BY <1>5, <2>1, FS_Subset, FS_CardinalityType
  <2>3. Cardinality(K) = n
    BY <1>6, <2>2
  <2>4. K = all
    BY <1>5, <2>3, FS_Subset
  <2>5. QED
    BY <1>4, <1>5, <2>4
<1>7. QED
  BY <1>4, <1>5, <1>6

-----------------------------------------------------------------------------
(* All sources that loading can come to.                                   *)

Mentions == INSTANCE Folding WITH Op <- Asking

All == Mentioned(world.explicit)

(* A resolver answers with sources that the world has.                     *)
LEMMA ReachedIn ==
  ASSUME IsWorld(world), NEW K \in SUBSET DOMAIN world.data
  PROVE  Reached(K) \subseteq DOMAIN world.data
<1> SUFFICES ASSUME NEW x \in Reached(K)
             PROVE  x \in DOMAIN world.data
  OBVIOUS
<1>1. PICK s \in K : x \in UNION {SourcesOf(AnswersTo(s, d)) : d \in Contents(K, Key[s.name])}
  BY DEF Reached
<1>2. PICK d \in Contents(K, Key[s.name]) : x \in SourcesOf(AnswersTo(s, d))
  BY <1>1
<1>3. PICK t \in K : Key[t.name] = Key[s.name] /\ HasData(t) /\ d = world.data[t]
  BY <1>2 DEF Contents
<1>4. PICK r \in Range(d.refs) : Located(r) /\ world.resolve[<<s, r.location>>].kind = "source"
                                 /\ x = world.resolve[<<s, r.location>>].source
  BY <1>2 DEF SourcesOf, AnswersTo
<1>5. PICK i \in DOMAIN d.refs : r = d.refs[i]
  BY <1>4 DEF Range
<1>6. /\ s \in DOMAIN world.data /\ t \in DOMAIN world.data /\ i \in DOMAIN world.data[t].refs
      /\ world.data[t].refs[i].location # "" /\ world.data[t] # Missing
  BY <1>3, <1>4, <1>5 DEF Located, HasData
<1>7. PICK answer : answer = world.resolve[<<s, world.data[t].refs[i].location>>]
  OBVIOUS
<1>8. \/ answer.kind \in {"error", "none"}
      \/ answer.kind = "identity" /\ answer.key # ""
      \/ answer.kind = "source" /\ answer.source \in DOMAIN world.data
  BY <1>3, <1>6, <1>7 DEF IsWorld
<1>9. answer.kind = "source" /\ answer.source = x
  BY <1>3, <1>4, <1>5, <1>7
<1>10. QED
  BY <1>8, <1>9

(* They are closed: asking the references of one leads to another of them. *)
LEMMA AllFacts ==
  ASSUME IsWorld(world), IsFiniteSet(DOMAIN world.data)
  PROVE  world.explicit \subseteq All /\ All \in SUBSET DOMAIN world.data /\ IsFiniteSet(All) /\ Reached(All) \subseteq All
<1>1. PICK data, n : data = DOMAIN world.data /\ n = Cardinality(data)
  OBVIOUS
<1>2. n \in Nat /\ IsFiniteSet(data)
  BY <1>1, FS_CardinalityType
<1>3. PICK rounds : rounds = [round \in 1..n |-> round]
  OBVIOUS
<1>4. DOMAIN rounds = 1..n
  BY ONLY <1>3
<1>5. All = Mentions!Fold(world.explicit, rounds)
  <2>1. All = FoldLeft(Asking, world.explicit, rounds)
    BY <1>1, <1>3 DEF All, Mentioned
  <2>2. FoldLeft(Asking, world.explicit, rounds) = Mentions!Fold(world.explicit, rounds)
    BY DEF FoldLeft, MapThenFoldSet, Max, Mentions!Fold, Mentions!Iterated,
         Mentions!Iterates, Mentions!Step, Mentions!Largest
  <2>3. QED
    BY <2>1, <2>2
<1>6. PICK g : /\ g[0] = world.explicit /\ g[n] = All
               /\ \A k \in 0..n - 1 : g[k + 1] = Asking(g[k], rounds[k + 1])
  <2>1. PICK g : Mentions!Folds(world.explicit, rounds, n, g)
    BY ONLY <1>2, <1>4, Mentions!FoldSteps
  <2>2. /\ g[0] = world.explicit /\ g[n] = Mentions!Fold(world.explicit, rounds)
        /\ \A k \in 0..n - 1 : g[k + 1] = Asking(g[k], rounds[k + 1])
    BY ONLY <2>1 DEF Mentions!Folds
  <2>3. QED
    BY <1>5, <2>2
<1>7. PICK h : h = [K \in SUBSET data |-> K \union Reached(K)]
  OBVIOUS
<1>8. \A K \in SUBSET data : h[K] = K \union Reached(K)
  BY ONLY <1>7
<1>9. \A K \in SUBSET data : h[K] \in SUBSET data /\ K \subseteq h[K]
  BY <1>1, <1>8, ReachedIn
<1>10. g[0] \in SUBSET data
  BY <1>1, <1>6 DEF IsWorld
<1>11. \A k \in Nat : k \in {m \in Nat : m <= n => g[m] \in SUBSET data}
  <2> DEFINE N == {m \in Nat : m <= n => g[m] \in SUBSET data}
  <2>1. 0 \in N
    BY <1>10
  <2>2. ASSUME NEW k \in Nat, k \in N
        PROVE  k + 1 \in N
    <3>1. k + 1 <= n => g[k] \in SUBSET data /\ k \in 0..n - 1
      BY <1>2, <2>2
    <3>2. k + 1 <= n => g[k + 1] = h[g[k]]
      BY <1>6, <1>8, <3>1 DEF Asking
    <3>3. QED
      BY <1>9, <3>1, <3>2
  <2> HIDE DEF N
  <2>3. \A k \in Nat : k \in N
    BY <2>1, <2>2, Induct!NatInduct
  <2>4. QED
    BY <2>3 DEF N
<1>12. \A k \in 0..n - 1 : g[k + 1] = h[g[k]]
  <2> SUFFICES ASSUME NEW k \in 0..n - 1
               PROVE  g[k + 1] = h[g[k]]
    OBVIOUS
  <2>1. k \in Nat /\ k <= n
    BY <1>2
  <2>2. g[k] \in SUBSET data
    BY <1>11, <2>1
  <2>3. g[k + 1] = g[k] \union Reached(g[k])
    BY <1>6 DEF Asking
  <2>4. QED
    BY <1>8, <2>2, <2>3
<1>13. g[n] \in SUBSET data /\ g[0] \subseteq g[n] /\ h[g[n]] = g[n]
  BY ONLY <1>1, <1>2, <1>9, <1>10, <1>12, RoundsEnd
<1>14. Reached(All) \subseteq All
  BY <1>6, <1>8, <1>13
<1>15. QED
  BY <1>1, <1>2, <1>6, <1>13, <1>14, FS_Subset

(* All sources, as a function of what they depend on.                      *)
AllOf(w) ==
  LET Given(so, s) == {w.data[t] : t \in {u \in so : Key[u.name] = Key[s.name] /\ w.data[u] # Missing}}
      Answers(s, d) == {w.resolve[<<s, r.location>>] : r \in {q \in Range(d.refs) : q.location # ""}}
      Sources(s, d) == {a.source : a \in {b \in Answers(s, d) : b.kind = "source"}}
  IN  FoldLeft(LAMBDA so, round : so \union UNION {UNION {Sources(s, d) : d \in Given(so, s)} : s \in so},
               w.explicit, [round \in 1..Cardinality(DOMAIN w.data) |-> round])

(* The same said of this state ...                                         *)
LEMMA AllIs == All = AllOf(world)
BY DEF All, Mentioned, AllOf, Asking, Reached, SourcesOf, AnswersTo, Contents, HasData, Located, FoldLeft, MapThenFoldSet, Max

(* ... and of the next.                                                    *)
LEMMA AllNext == All' = AllOf(world')
BY DEF All, Mentioned, AllOf, Asking, Reached, SourcesOf, AnswersTo, Contents, HasData, Located, FoldLeft, MapThenFoldSet, Max

(* What a world can lead to stays as long as the world does.               *)
LEMMA SameWorld ==
  ASSUME world' = world
  PROVE  /\ All' = All /\ \A s : SizeOf(s)' = SizeOf(s) /\ HasData(s)' = HasData(s)
         /\ \A S : /\ Reached(S)' = Reached(S) /\ AdmittedBy(S)' = AdmittedBy(S) /\ Asked(S)' = Asked(S)
                   /\ Documents(S)' = Documents(S) /\ \A key : Contents(S, key)' = Contents(S, key)
         /\ \A ask : ReadFor(ask)' = ReadFor(ask)
<1>1. All' = All
  BY AllIs, AllNext
<1>2. \A s : SizeOf(s)' = SizeOf(s) /\ HasData(s)' = HasData(s)
  BY DEF SizeOf, HasData
<1>3. \A S, key : Contents(S, key)' = Contents(S, key)
  BY DEF Contents, HasData
<1>4. \A s, d : SourcesOf(AnswersTo(s, d))' = SourcesOf(AnswersTo(s, d))
  BY DEF SourcesOf, AnswersTo, Located
<1>5. \A S : Reached(S)' = Reached(S) /\ Asked(S)' = Asked(S) /\ Documents(S)' = Documents(S)
  BY <1>2, <1>3, <1>4 DEF Reached, Asked, Documents
<1>6. \A S : AdmittedBy(S)' = AdmittedBy(S)
  BY <1>5 DEF AdmittedBy
<1>7. \A ask : ReadFor(ask)' = ReadFor(ask)
  BY <1>2 DEF ReadFor, Located
<1>8. QED
  BY <1>1, <1>2, <1>3, <1>5, <1>6, <1>7

(* The content of a document is that of one of its sources, ...            *)
LEMMA LoadedContent ==
  ASSUME ShapeInv, Registered \subseteq All, NEW key \in DOMAIN docs
  PROVE  docs[key].content \in Contents(All, key) /\ <<key, docs[key].content>> \in Documents(All)
<1>1. IsDoc(key)
  BY DEF ShapeInv, DocsInv
<1>2. PICK t \in docs[key].sources : HasData(t)
  BY <1>1 DEF IsDoc
<1>3. t \in All /\ world.data[t] = docs[key].content /\ Key[t.name] = key
  BY <1>1, <1>2 DEF IsDoc, Registered, KeyOf
<1>4. QED
  BY <1>2, <1>3 DEF Contents, Documents

(* ... and so a source that answers is one of all.                         *)
LEMMA AnswerIsFound ==
  ASSUME ShapeInv, Registered \subseteq All, NEW ref \in Calls, NEW s \in SourcesFor(ref), AnswerTo(s, ref).kind = "source"
  PROVE  AnswerTo(s, ref).source \in Reached(All)
<1>1. PICK d : d = docs[ref[1]].content
  OBVIOUS
<1>2. /\ ref[1] \in DOMAIN docs /\ ref[2] \in DOMAIN d.refs /\ Located(RefOf(ref)) /\ RefOf(ref) = d.refs[ref[2]]
      /\ KeyOf(s) = ref[1] /\ s \in All
  BY <1>1, CallFacts DEF Calls, RefOf
<1>3. d \in Contents(All, Key[s.name])
  BY <1>1, <1>2, LoadedContent DEF KeyOf
<1>4. RefOf(ref) \in Range(d.refs)
  BY <1>2 DEF Range
<1>5. AnswerTo(s, ref) \in AnswersTo(s, d)
  BY <1>2, <1>4 DEF AnswerTo, AnswersTo
<1>6. AnswerTo(s, ref).source \in SourcesOf(AnswersTo(s, d))
  BY <1>5 DEF SourcesOf
<1>7. QED
  BY <1>2, <1>3, <1>6 DEF Reached

(* Two contexts in which a reference has different targets disagree, ...   *)
LEMMA Dispute ==
  ASSUME ShapeInv, Registered \subseteq All, NEW ref \in Calls, NEW s \in SourcesFor(ref), NEW t \in SourcesFor(ref),
         NEW a, NEW b, a = TargetOf(AnswerTo(s, ref)), b = TargetOf(AnswerTo(t, ref)), a # b, a # NoKey, b # NoKey
  PROVE  Disagreement(All)
<1>1. PICK d, r : d = docs[ref[1]].content /\ r = RefOf(ref)
  OBVIOUS
<1>2. /\ ref[1] \in DOMAIN docs /\ ref[2] \in DOMAIN d.refs /\ Located(r) /\ r = d.refs[ref[2]]
      /\ Key[s.name] = ref[1] /\ Key[t.name] = ref[1] /\ s \in All /\ t \in All
  BY <1>1, CallFacts DEF Calls, RefOf, KeyOf
<1>3. d \in Contents(All, Key[s.name]) /\ r \in Range(d.refs)
  BY <1>1, <1>2, LoadedContent DEF Range
<1>4. a = TargetOf(world.resolve[<<s, r.location>>]) /\ b = TargetOf(world.resolve[<<t, r.location>>])
  BY <1>1 DEF AnswerTo
<1>5. QED
  BY <1>2, <1>3, <1>4 DEF Disagreement

(* ... and so does a reference with a target that does not suit it.        *)
LEMMA Misfit ==
  ASSUME ShapeInv, Registered \subseteq All, NEW ref \in Calls, NEW s \in SourcesFor(ref),
         NEW to \in Contents(All, TargetOf(AnswerTo(s, ref))), ~Fits(ref, to)
  PROVE  Disagreement(All)
<1>1. PICK d, r : d = docs[ref[1]].content /\ r = RefOf(ref)
  OBVIOUS
<1>2. /\ ref[1] \in DOMAIN docs /\ ref[2] \in DOMAIN d.refs /\ Located(r) /\ r = d.refs[ref[2]]
      /\ Key[s.name] = ref[1] /\ s \in All
  BY <1>1, CallFacts DEF Calls, RefOf, KeyOf
<1>3. d \in Contents(All, Key[s.name]) /\ r \in Range(d.refs)
  BY <1>1, <1>2, LoadedContent DEF Range
<1>4. to \in Contents(All, TargetOf(world.resolve[<<s, r.location>>]))
  BY <1>1 DEF AnswerTo
<1>5. ~Suits(r, d, to)
  BY <1>1 DEF Fits, Suits
<1>6. QED
  BY <1>2, <1>3, <1>4, <1>5 DEF Disagreement

(* A bound reference has the target that one of its sources says.          *)
LEMMA BoundMisfit ==
  ASSUME ShapeInv, Registered \subseteq All, NEW ref \in Calls, bound[ref] # NoKey,
         NEW to \in Contents(All, bound[ref]), ~Fits(ref, to)
  PROVE  Disagreement(All)
<1>1. PICK s \in SourcesFor(ref) : TargetOf(AnswerTo(s, ref)) = bound[ref]
  BY DEF ShapeInv, BoundInv
<1>2. QED
  BY <1>1, Misfit

(* A reference that is bound differently was so by another source.         *)
LEMMA BoundDispute ==
  ASSUME ShapeInv, Registered \subseteq All, NEW ref \in Calls, NEW s \in SourcesFor(ref),
         TargetOf(AnswerTo(s, ref)) # NoKey, Conflicts(ref, TargetOf(AnswerTo(s, ref)))
  PROVE  Disagreement(All)
<1>1. bound[ref] # NoKey /\ bound[ref] # TargetOf(AnswerTo(s, ref))
  BY DEF Conflicts
<1>2. PICK t \in SourcesFor(ref) : TargetOf(AnswerTo(t, ref)) = bound[ref]
  BY <1>1 DEF ShapeInv, BoundInv
<1>3. QED
  BY <1>1, <1>2, Dispute

(* What is found to be wrong with a world is wrong with it in the next     *)
(* state, ...                                                              *)
LEMMA SameDisagreement ==
  ASSUME world' = world, Disagreement(All)
  PROVE  Disagreement(All)'
<1>1. All' = All /\ (\A s : HasData(s)' = HasData(s)) /\ \A S, key : Contents(S, key)' = Contents(S, key)
  BY SameWorld
<1>2. CASE \E s, t \in All : Key[s.name] = Key[t.name] /\ HasData(s) /\ HasData(t) /\ world.data[s] # world.data[t]
  BY <1>1, <1>2 DEF Disagreement
<1>3. CASE \E s \in All : HasData(s) /\ ~ImportsAreLegal(world.data[s])
  BY <1>1, <1>3 DEF Disagreement
<1>4. CASE \E s, t \in All : Key[s.name] = Key[t.name] /\
             \E d \in Contents(All, Key[s.name]) : \E r \in {q \in Range(d.refs) : Located(q)} :
               LET a == TargetOf(world.resolve[<<s, r.location>>])
                   b == TargetOf(world.resolve[<<t, r.location>>])
               IN  \/ a # b /\ NoKey \notin {a, b}
                   \/ \E to \in Contents(All, a) : ~Suits(r, d, to)
  <2>1. PICK s \in All, t \in All : Key[s.name] = Key[t.name] /\
             \E d \in Contents(All, Key[s.name]) : \E r \in {q \in Range(d.refs) : Located(q)} :
               LET a == TargetOf(world.resolve[<<s, r.location>>])
                   b == TargetOf(world.resolve[<<t, r.location>>])
               IN  \/ a # b /\ NoKey \notin {a, b}
                   \/ \E to \in Contents(All, a) : ~Suits(r, d, to)
    BY <1>4
  <2>2. PICK d \in Contents(All, Key[s.name]) : \E r \in {q \in Range(d.refs) : Located(q)} :
               LET a == TargetOf(world.resolve[<<s, r.location>>])
                   b == TargetOf(world.resolve[<<t, r.location>>])
               IN  \/ a # b /\ NoKey \notin {a, b}
                   \/ \E to \in Contents(All, a) : ~Suits(r, d, to)
    BY <2>1
  <2>3. PICK r \in {q \in Range(d.refs) : Located(q)} :
               LET a == TargetOf(world.resolve[<<s, r.location>>])
                   b == TargetOf(world.resolve[<<t, r.location>>])
               IN  \/ a # b /\ NoKey \notin {a, b}
                   \/ \E to \in Contents(All, a) : ~Suits(r, d, to)
    BY <2>2
  <2>4. PICK a, b : a = TargetOf(world.resolve[<<s, r.location>>]) /\ b = TargetOf(world.resolve[<<t, r.location>>])
    OBVIOUS
  <2>5. (a # b /\ NoKey \notin {a, b}) \/ \E to \in Contents(All, a) : ~Suits(r, d, to)
    BY <2>3, <2>4
  <2>6. a = TargetOf(world'.resolve[<<s, r.location>>]) /\ b = TargetOf(world'.resolve[<<t, r.location>>])
    BY <2>4
  <2>7. (a # b /\ NoKey \notin {a, b}) \/ \E to \in Contents(All, a)' : ~Suits(r, d, to)
    BY <1>1, <2>5
  <2>8. s \in All' /\ t \in All' /\ d \in Contents(All, Key[s.name])'
    BY <1>1
  <2>9. (\E x, y \in All : Key[x.name] = Key[y.name] /\
             \E c \in Contents(All, Key[x.name]) : \E ref \in {q \in Range(c.refs) : Located(q)} :
               LET m == TargetOf(world.resolve[<<x, ref.location>>])
                   n == TargetOf(world.resolve[<<y, ref.location>>])
               IN  \/ m # n /\ NoKey \notin {m, n}
                   \/ \E to \in Contents(All, m) : ~Suits(ref, c, to))'
    BY <2>1, <2>6, <2>7, <2>8
  <2>10. QED
    BY <2>9 DEF Disagreement
<1>5. QED
  BY <1>2, <1>3, <1>4 DEF Disagreement

(* ... and so is what it costs, once all documents are known.              *)
LEMMA SameLimits ==
  ASSUME UNCHANGED <<world, docs, bound>>, OverLimits(All)
  PROVE  OverLimits(All)'
<1>1. /\ All' = All /\ \A s : SizeOf(s)' = SizeOf(s)
      /\ \A S : AdmittedBy(S)' = AdmittedBy(S) /\ Asked(S)' = Asked(S) /\ Documents(S)' = Documents(S)
      /\ \A ask : ReadFor(ask)' = ReadFor(ask)
      /\ ExpectedContexts' = ExpectedContexts
  BY SameWorld, SameExpected
<1>2. /\ AdmittedBy(All)' = AdmittedBy(All) /\ Asked(All)' = Asked(All) /\ Documents(All)' = Documents(All)
  BY <1>1
<1>3. SumFunction([s \in world.explicit |-> SizeOf(s)])' = SumFunction([s \in world.explicit |-> SizeOf(s)])
  <2>1. [s \in world.explicit |-> SizeOf(s)]' = [s \in world.explicit |-> SizeOf(s)]
    BY <1>1
  <2>2. QED
    BY <2>1
<1>4. SumFunction([ask \in Asked(All) |-> ReadFor(ask)])' = SumFunction([ask \in Asked(All) |-> ReadFor(ask)])
  <2>1. [ask \in Asked(All) |-> ReadFor(ask)]' = [ask \in Asked(All) |-> ReadFor(ask)]
    BY <1>1, <1>2
  <2>2. QED
    BY <2>1
<1>5. SumFunction([doc \in Documents(All) |-> doc[2].nodes])' = SumFunction([doc \in Documents(All) |-> doc[2].nodes])
  <2>1. [doc \in Documents(All) |-> doc[2].nodes]' = [doc \in Documents(All) |-> doc[2].nodes]
    BY <1>2
  <2>2. QED
    BY <2>1
<1>6. SumFunction([c \in ExpectedContexts |-> docs[c[1]].content.nodes])'
        = SumFunction([c \in ExpectedContexts |-> docs[c[1]].content.nodes])
  <2>1. [c \in ExpectedContexts |-> docs[c[1]].content.nodes]' = [c \in ExpectedContexts |-> docs[c[1]].content.nodes]
    BY <1>1
  <2>2. QED
    BY <2>1
<1>7. (\E s \in All : SizeOf(s) > MaxSchemaSourceBytes) => (\E s \in All : SizeOf(s) > MaxSchemaSourceBytes)'
  BY <1>1
<1>8. /\ Cardinality(world.explicit)' = Cardinality(world.explicit)
      /\ Cardinality(AdmittedBy(All))' = Cardinality(AdmittedBy(All))
      /\ Cardinality(Asked(All))' = Cardinality(Asked(All))
      /\ Cardinality(ExpectedContexts)' = Cardinality(ExpectedContexts)
  BY <1>1, <1>2
<1>9. QED
  BY <1>3, <1>4, <1>5, <1>6, <1>7, <1>8 DEF OverLimits

-----------------------------------------------------------------------------
(* What a source adds to the documents.                                    *)

(* It was not resolved from before, and now is: it is asked for all        *)
(* references of its document, ...                                         *)
Joins(s, key, content) ==
  /\ key = KeyOf(s) /\ s \notin Registered
  /\ DOMAIN docs' = DOMAIN docs \union {key} /\ docs'[key].content = content /\ IsContent(content)
  /\ Registered' = Registered \union {s}
  /\ Enqueue(key, content.refs)

(* ... or it was, and then nothing is asked of it.                         *)
Returns == DOMAIN docs' = DOMAIN docs /\ Registered' = Registered /\ UNCHANGED <<queue, references>>

(* The documents of sources have their keys.                               *)
LEMMA KeyIsLoaded ==
  ASSUME ShapeInv, NEW s \in Registered
  PROVE  KeyOf(s) \in DOMAIN docs /\ s \in docs[KeyOf(s)].sources /\ s \in DOMAIN world.data
BY DEF ShapeInv, DocsInv, IsDoc, Registered

(* A new document or another source of one that is loaded.                 *)
LEMMA Admission ==
  ASSUME GraphInv, Load \/ Repeat, NEW s, s = item.source
  PROVE  /\ pc = "acquired" /\ pc' = "take" /\ UNCHANGED <<world, item, resolved>> /\ Kept /\ GraphInv'
         /\ got.error \in {"", "missing"} /\ totalBytes' = totalBytes + got.bytes
         /\ Returns \/ \E key, content : Joins(s, key, content)
<1>1. GraphInv' /\ Kept
  BY LoadGraph, RepeatGraph
<1>2. /\ pc = "acquired" /\ pc' = "take" /\ UNCHANGED <<world, item, resolved>>
      /\ got.error \in {"", "missing"} /\ totalBytes' = totalBytes + got.bytes
  BY DEF Load, Repeat, Usable, Repeated, Absent, Running, Goto, Charge
<1>3. ShapeInv /\ WorkInv
  BY <1>2 DEF GraphInv, Failures
<1>4. IsRead(item)
  BY <1>2, <1>3 DEF WorkInv, ItemInv, Reading
<1>5. PICK key : key = ItemKey
  OBVIOUS
<1>6. s \in DOMAIN world.data /\ key = KeyOf(s)
  BY <1>4, <1>5 DEF IsRead, ItemKey, KeyOf
<1>7. CASE Load
  <2>1. key \notin DOMAIN docs /\ got.error = ""
    BY <1>5, <1>7 DEF Load, Usable, Loaded
  <2>2. s \notin Registered
    BY <1>3, <1>6, <2>1, KeyIsLoaded
  <2>3. PICK data, doc : data = Data /\ doc = [name |-> s.name, content |-> data, sources |-> {s}, explicitRoot |-> ~Optional]
    OBVIOUS
  <2>4. doc.sources = {s} /\ doc.content = data
    BY ONLY <2>3
  <2>5. docs' = [k \in DOMAIN docs \union {key} |-> IF k # key THEN docs[k] ELSE doc]
    BY <1>5, <1>7, <2>3 DEF Load
  <2>6. /\ DOMAIN docs' = DOMAIN docs \union {key} /\ docs'[key] = doc
        /\ \A k \in DOMAIN docs : docs'[k] = docs[k]
    BY <2>1, <2>5
  <2>7. Registered' = Registered \union {s}
    BY <2>4, <2>6 DEF Registered
  <2>8. IsContent(data)
    <3>1. HasData(s)
      BY <1>2, <1>3, <2>1 DEF WorkInv, ItemInv
    <3>2. QED
      BY <1>3, <1>6, <2>3, <3>1 DEF ShapeInv, IsWorld, Data, HasData
  <2>9. Enqueue(key, data.refs)
    BY <1>5, <1>7, <2>3 DEF Load
  <2>10. Joins(s, key, data)
    BY <1>6, <2>2, <2>4, <2>6, <2>7, <2>8, <2>9 DEF Joins
  <2>11. QED
    BY <1>1, <1>2, <2>10
<1>8. CASE Repeat
  <2>1. PICK sources : sources = docs[key].sources \union (IF Fresh(s) THEN {s} ELSE {})
    OBVIOUS
  <2>2. /\ key \in DOMAIN docs /\ DOMAIN docs' = DOMAIN docs
        /\ \A k \in DOMAIN docs : k # key => docs'[k] = docs[k]
        /\ docs'[key] = [name |-> docs[key].name, content |-> docs[key].content, sources |-> sources,
                         explicitRoot |-> docs[key].explicitRoot \/ ~Optional]
    BY <1>3, <1>5, <1>8, <2>1, RepeatedDocs
  <2>3. docs'[key].sources = sources /\ docs'[key].content = docs[key].content
    BY <2>2
  <2>4. Fresh(s) <=> s \notin docs[key].sources
    BY <1>6 DEF Fresh, KeyOf
  <2>5. s \in Registered => s \in docs[key].sources
    BY <1>3, <1>6, KeyIsLoaded
  <2>6. CASE Fresh(s)
    <3>1. Registered' = Registered \union {s}
      BY <2>1, <2>2, <2>3, <2>6 DEF Registered
    <3>2. Enqueue(key, docs[key].content.refs)
      BY <1>5, <1>8, <2>6 DEF Repeat, Known
    <3>3. IsContent(docs[key].content)
      BY <1>3, <2>2, ContentFacts
    <3>4. Joins(s, key, docs[key].content)
      BY <1>6, <2>2, <2>3, <2>4, <2>5, <2>6, <3>1, <3>2, <3>3 DEF Joins
    <3>5. QED
      BY <1>1, <1>2, <3>4
  <2>7. CASE ~Fresh(s)
    <3>1. Registered' = Registered
      BY <2>1, <2>2, <2>3, <2>7 DEF Registered
    <3>2. UNCHANGED <<queue, references>>
      BY <1>8, <2>7 DEF Repeat
    <3>3. QED
      BY <1>1, <1>2, <2>2, <3>1, <3>2 DEF Returns
  <2>8. QED
    BY <2>6, <2>7
<1>9. QED
  BY <1>7, <1>8

-----------------------------------------------------------------------------
(* What a step that does not fail can be.                                  *)

Calm == UNCHANGED <<world, graph, budget, queue, item>>

(* Contexts are added without a failure.                                   *)
LEMMA AddingIsCalm ==
  ASSUME NEW more, NEW label \in Later, NEW following, AddOrStop(more, label, following), pc' \notin Failures
  PROVE  Calm /\ pc' \in Later
BY DEF AddOrStop, Stop, Goto, Calm, Later, Failures

(* Most steps leave documents, requests and what was charged alone.        *)
LEMMA Moves ==
  ASSUME [Next]_vars, pc \notin Failures, pc' \notin Failures
  PROVE  \/ Calm /\ pc' = pc /\ got' = got
         \/ Calm /\ pc \in {"take", "seed", "propagate"} /\ pc' \in Later
         \/ Calm /\ pc = "acquired" /\ pc' = "take"
         \/ Calm /\ Acquire /\ pc \in Reading /\ pc' \in Reading
         \/ Take \/ Resolve \/ Load \/ Repeat
<1>1. CASE UNCHANGED vars
  BY <1>1 DEF vars, Calm, graph, budget
<1>2. CASE Cancel
  BY <1>2 DEF Cancel, Calm
<1>3. CASE StopCanceled
  BY <1>3 DEF StopCanceled, Stop, Goto, Failures
<1>4. CASE Acquire
  <2>1. /\ UNCHANGED <<world, graph, budget, queue, item>>
        /\ pc \in {"open", "refused", "read", "close"} /\ pc' \in {"read", "refused", "close", "acquired"}
    BY <1>4 DEF Acquire, OpenBytes, OpenFails, OpenReader, CloseRefused, Read, Close, Acquired, Running, Goto
  <2>2. QED
    BY <1>4, <2>1 DEF Calm, Reading
<1>5. CASE AcquireFails
  BY <1>5 DEF AcquireFails, Stop, Goto, Failures
<1>6. CASE SkipAbsent
  BY <1>6 DEF SkipAbsent, Calm, Running, Goto
<1>7. CASE LoadRejected
  BY <1>7 DEF LoadRejected, LoadFailure, Stop, Goto, Failures
<1>8. CASE RepeatRejected
  BY <1>8 DEF RepeatRejected, RepeatFailure, Stop, Goto, Failures
<1>9. CASE CheckTargets
  BY <1>9 DEF CheckTargets, Stop, Goto, Failures, Running, Calm, Later
<1>10. CASE SeedAlone
  BY <1>10 DEF SeedAlone, Stop, Goto, Failures, Running, Calm, Later
<1>11. CASE Seed
  <2>1. pc = "seed" /\ "propagate" \in Later
    BY <1>11 DEF Seed, Running, Later
  <2>2. QED
    BY <1>11, <2>1, AddingIsCalm DEF Seed
<1>12. CASE Propagate
  <2>1. pc = "propagate" /\ "propagate" \in Later
    BY <1>12 DEF Propagate, Running, Later
  <2>2. QED
    BY <1>12, <2>1, AddingIsCalm DEF Propagate
<1>13. CASE Fallback
  <2>1. PICK more, label : /\ pc = "propagate" /\ AddOrStop(more, label, next) /\ label \in Later
    BY <1>13 DEF Fallback, Running, Later
  <2>2. QED
    BY <2>1, AddingIsCalm
<1>14. QED
  BY <1>1, <1>2, <1>3, <1>4, <1>5, <1>6, <1>7, <1>8, <1>9, <1>10, <1>11, <1>12, <1>13 DEF Next

(* What is taken is an explicit source to read or a reference to resolve.  *)
LEMMA Taking ==
  ASSUME GraphInv, Take
  PROVE  /\ UNCHANGED <<world, graph, budget>> /\ pc = "take" /\ pc' \in {"open", "resolve"} /\ GraphInv'
         /\ queue # <<>> /\ queue \in Seq(Range(queue)) /\ item' = Head(queue) /\ queue' = Tail(queue)
         /\ pc' = "open" => item'.source \in world.explicit /\ item' = Request(item'.source, NoRef, FALSE)
         /\ pc' = "resolve" => IsCall(item')
<1>1. /\ UNCHANGED <<world, graph, budget>> /\ pc = "take" /\ pc' = (IF item'.resolve THEN "resolve" ELSE "open")
      /\ queue # <<>> /\ item' = Head(queue) /\ queue' = Tail(queue)
  BY DEF Take, Running, Goto
<1>2. queue \in Seq(Range(queue)) /\ \A r \in Range(queue) : IsRequest(r)
  BY <1>1 DEF GraphInv, Failures, WorkInv, QueueInv
<1>3. IsRequest(item')
  BY <1>1, <1>2, HeadAndTail
<1>4. PICK r : r = item'
  OBVIOUS
<1>5. IsCall(r) => r.resolve = TRUE
  <2>1. r = Request(r.source, r.ref, TRUE) => r.resolve = TRUE
    BY RequestParts
  <2>2. QED
    BY <2>1 DEF IsCall
<1>6. r.source \in world.explicit /\ r = Request(r.source, NoRef, FALSE) => r.resolve = FALSE
  BY RequestParts
<1>7. QED
  BY <1>1, <1>2, <1>3, <1>4, <1>5, <1>6, TakeGraph DEF IsRequest

(* A reference is resolved to nothing that must be read, or to a source.   *)
Resolves(s, ref) ==
  /\ pc = "resolve" /\ ref \in Calls /\ s \in SourcesFor(ref) /\ item = Request(s, ref, TRUE)
  /\ UNCHANGED <<world, docs, queue, totalBytes, references, parsedNodes>>
  /\ DOMAIN bound' = DOMAIN bound /\ \A r \in DOMAIN bound : r # ref => bound'[r] = bound[r]
  /\ \/ pc' = "take" /\ resolved' = resolved
     \/ /\ AnswerTo(s, ref).kind = "source" /\ pc' = "open"
        /\ item' = Request(AnswerTo(s, ref).source, ref, FALSE)
        /\ resolved' = resolved \union {KeyOf(AnswerTo(s, ref).source)}

(* Nothing else is done unless it fails.                                   *)
LEMMA Resolving ==
  ASSUME GraphInv, Resolve, pc' \notin Failures
  PROVE  Resolves(item.source, item.ref) /\ GraphInv'
<1>0. PICK s, ref : s = item.source /\ ref = item.ref
  OBVIOUS
<1>1. pc = "resolve"
  BY DEF Resolve, ResolveFails, ResolveNothing, ResolveIdentity, ResolveSource, Running
<1>2. ShapeInv /\ WorkInv /\ GraphInv'
  BY <1>1, ResolveGraph DEF GraphInv, Failures
<1>3. ref \in Calls /\ s \in SourcesFor(ref) /\ item = Request(s, ref, TRUE)
  BY <1>0, <1>1, <1>2 DEF WorkInv, ItemInv, IsCall
<1>4. PICK answer : answer = AnswerTo(s, ref) /\ Answer = answer
  BY <1>0 DEF Answer, AnswerTo
<1>5. \A failure \in Failures : ~Stop(failure)
  BY DEF Stop, Goto
<1>6. ~Stop("unreadable") /\ ~Stop("reference") /\ ~Stop("limit")
  BY <1>5 DEF Failures
<1>7. \A key : Bind(key) => DOMAIN bound' = DOMAIN bound /\ \A r \in DOMAIN bound : r # ref => bound'[r] = bound[r]
  BY <1>0 DEF Bind
<1>8. CASE ResolveNothing
  BY <1>0, <1>1, <1>2, <1>3, <1>8 DEF ResolveNothing, Goto, graph, budget, Resolves
<1>9. CASE ResolveIdentity
  <2>1. \/ Bind(answer.key) /\ pc' = "take" /\ UNCHANGED <<world, docs, queue, budget>>
        \/ bound' = bound /\ pc' = "take" /\ UNCHANGED <<world, docs, queue, budget>>
    BY <1>0, <1>4, <1>6, <1>9 DEF ResolveIdentity, Goto
  <2>2. QED
    BY <1>0, <1>1, <1>2, <1>3, <1>7, <2>1 DEF budget, Resolves
<1>10. CASE ResolveSource
  <2>1. /\ answer.kind = "source" /\ Bind(KeyOf(answer.source)) /\ resolved' = resolved \union {KeyOf(answer.source)}
        /\ item' = Request(answer.source, ref, FALSE) /\ pc' = "open"
        /\ UNCHANGED <<world, docs, queue, totalBytes, references, parsedNodes>>
    BY <1>0, <1>4, <1>6, <1>10 DEF ResolveSource, Goto, KeyOf
  <2>2. QED
    BY <1>0, <1>1, <1>2, <1>3, <1>4, <1>7, <2>1 DEF Resolves
<1>11. QED
  BY <1>6, <1>8, <1>9, <1>10 DEF Resolve, ResolveFails

-----------------------------------------------------------------------------
(* What is found, read and asked for is part of all there is.              *)

FoundInv ==
  /\ Registered \subseteq All /\ resolved \subseteq AdmittedBy(All)
  /\ pc \in Reading => item.source \in All
  /\ \A ref \in DOMAIN bound \ Calls : bound[ref] = NoKey

(* What was read is the source, or shows that the source is too long.      *)
GotInv ==
  pc \in {"close", "acquired"} =>
    /\ got.error = "" => got.bytes = SizeOf(item.source)
    /\ got.error = "missing" => got.bytes = 0
    /\ got.error = "limit" \/ got.bytes > Remaining => SizeOf(item.source) > ReadLimit

(* Nothing is asked for twice.                                             *)
OnceInv == Distinct(queue) /\ (pc = "resolve" => item \notin Range(queue))

(* References that are not resolved are not bound, also when documents     *)
(* keep what they contain.                                                 *)
LEMMA UnboundKept ==
  ASSUME ShapeInv, Kept, NEW ref \in DOMAIN bound, ref \notin Calls'
  PROVE  ref \notin Calls /\ ref \in DOMAIN bound'
<1>1. ref \in DOMAIN bound'
  BY DEF Kept
<1>2. ref \notin Calls
  BY RefKept
<1>3. QED
  BY <1>1, <1>2

(* Steps that find nothing.                                                *)
LEMMA CalmFound ==
  ASSUME FoundInv, UNCHANGED <<world, docs, bound, resolved>>, pc' \in Reading => item'.source \in All
  PROVE  FoundInv'
<1>1. Registered' = Registered /\ Calls' = Calls
  BY DEF Registered, Calls, RefOf
<1>2. All' = All /\ AdmittedBy(All)' = AdmittedBy(All)
  BY SameWorld
<1>3. pc' \in Reading => item'.source \in All'
  BY <1>2
<1>4. \A ref \in DOMAIN bound' \ Calls' : bound'[ref] = NoKey
  BY <1>1 DEF FoundInv
<1>5. QED
  BY <1>1, <1>2, <1>3, <1>4 DEF FoundInv, Reading

(* An answer is among what asking leads to.                                *)
LEMMA ResolveFound ==
  ASSUME GraphInv, FoundInv, IsFiniteSet(DOMAIN world.data), Resolve, pc' \notin Failures
  PROVE  FoundInv'
<1>1. PICK s, ref : s = item.source /\ ref = item.ref
  OBVIOUS
<1>2. /\ pc = "resolve" /\ ref \in Calls /\ s \in SourcesFor(ref)
      /\ UNCHANGED <<world, docs, queue, totalBytes, references, parsedNodes>>
      /\ DOMAIN bound' = DOMAIN bound /\ \A r \in DOMAIN bound : r # ref => bound'[r] = bound[r]
      /\ \/ pc' = "take" /\ resolved' = resolved
         \/ /\ AnswerTo(s, ref).kind = "source" /\ pc' = "open"
            /\ item' = Request(AnswerTo(s, ref).source, ref, FALSE)
            /\ resolved' = resolved \union {KeyOf(AnswerTo(s, ref).source)}
  BY <1>1, Resolving DEF Resolves
<1>3. ShapeInv /\ IsWorld(world)
  BY <1>2 DEF GraphInv, ShapeInv
<1>4. Registered' = Registered /\ Calls' = Calls
  BY <1>2, <1>3, SameDocs
<1>5. All' = All /\ AdmittedBy(All)' = AdmittedBy(All)
  BY <1>2, SameWorld
<1>6. \A r \in DOMAIN bound' \ Calls' : bound'[r] = NoKey
  BY <1>2, <1>4 DEF FoundInv
<1>7. (pc' \in Reading => item'.source \in All) /\ resolved' \subseteq AdmittedBy(All)
  <2>1. CASE pc' = "take" /\ resolved' = resolved
    BY <2>1 DEF FoundInv, Reading
  <2>2. CASE /\ AnswerTo(s, ref).kind = "source" /\ pc' = "open"
             /\ item' = Request(AnswerTo(s, ref).source, ref, FALSE)
             /\ resolved' = resolved \union {KeyOf(AnswerTo(s, ref).source)}
    <3>1. AnswerTo(s, ref).source \in Reached(All)
      BY <1>2, <1>3, <2>2, AnswerIsFound DEF FoundInv
    <3>2. AnswerTo(s, ref).source \in All
      BY <1>3, <3>1, AllFacts
    <3>3. item'.source = AnswerTo(s, ref).source
      BY <2>2 DEF Request
    <3>4. KeyOf(AnswerTo(s, ref).source) \in AdmittedBy(All)
      BY <3>1 DEF AdmittedBy, KeyOf
    <3>5. QED
      BY <2>2, <3>2, <3>3, <3>4 DEF FoundInv
  <2>3. QED
    BY <1>2, <2>1, <2>2
<1>8. Registered' \subseteq All' /\ resolved' \subseteq AdmittedBy(All)' /\ (pc' \in Reading => item'.source \in All')
  BY <1>4, <1>5, <1>7 DEF FoundInv
<1>9. QED
  BY <1>6, <1>8 DEF FoundInv, Reading

(* A source that was read was found before.                                *)
LEMMA AdmitFound ==
  ASSUME GraphInv, FoundInv, Load \/ Repeat
  PROVE  FoundInv'
<1>1. PICK s : s = item.source
  OBVIOUS
<1>2. /\ pc = "acquired" /\ pc' = "take" /\ UNCHANGED <<world, item, resolved>> /\ Kept
      /\ Returns \/ \E key, content : Joins(s, key, content)
  BY <1>1, Admission
<1>3. ShapeInv
  BY DEF GraphInv
<1>4. Registered' \subseteq Registered \union {s}
  BY <1>2 DEF Returns, Joins
<1>5. All' = All /\ AdmittedBy(All)' = AdmittedBy(All)
  BY <1>2, SameWorld
<1>6. s \in All
  BY <1>1, <1>2 DEF FoundInv, Reading
<1>7. \A ref \in DOMAIN bound' \ Calls' : bound'[ref] = NoKey
  <2> SUFFICES ASSUME NEW ref \in DOMAIN bound', ref \notin Calls'
               PROVE  bound'[ref] = NoKey
    OBVIOUS
  <2>1. CASE Repeat
    <3>1. bound' = bound
      BY <2>1 DEF Repeat
    <3>2. QED
      BY <1>2, <1>3, <3>1, UnboundKept DEF FoundInv
  <2>2. CASE Load
    <3>1. PICK key, W, R : key = ItemKey /\ W = Waiting(key) /\ R = {key} \X DOMAIN Data.refs
      OBVIOUS
    <3>2. bound' = [r \in DOMAIN bound \union R |-> IF r \in W THEN key ELSE IF r \in DOMAIN bound THEN bound[r] ELSE NoKey]
      BY <2>2, <3>1 DEF Load, BoundBy
    <3>3. bound'[ref] = IF ref \in W THEN key ELSE IF ref \in DOMAIN bound THEN bound[ref] ELSE NoKey
      BY <3>2
    <3>4. W \subseteq Calls
      BY <1>3, <3>1 DEF Waiting, ShapeInv, PendingInv
    <3>5. ref \notin W
      BY <1>2, <1>3, <3>4, RefKept
    <3>6. CASE ref \in DOMAIN bound
      BY <1>2, <1>3, <3>3, <3>5, <3>6, UnboundKept DEF FoundInv
    <3>7. QED
      BY <3>3, <3>5, <3>6
  <2>3. QED
    BY <2>1, <2>2
<1>8. QED
  BY <1>2, <1>4, <1>5, <1>6, <1>7 DEF FoundInv, Reading

(* Every step finds what can be found.                                     *)
LEMMA FoundStep ==
  ASSUME GraphInv, FoundInv, IsFiniteSet(DOMAIN world.data), [Next]_vars, pc \notin Failures, pc' \notin Failures
  PROVE  FoundInv'
<1>1. CASE Calm /\ (pc' = pc \/ pc' \notin Reading \/ pc \in Reading)
  <2>1. UNCHANGED <<world, docs, bound, resolved>> /\ item' = item
    BY <1>1 DEF Calm, graph, budget
  <2>2. QED
    BY <1>1, <2>1, CalmFound DEF FoundInv
<1>2. CASE Take
  <2>1. /\ UNCHANGED <<world, docs, bound, resolved>>
        /\ pc' \in {"open", "resolve"} /\ (pc' = "open" => item'.source \in world.explicit)
    BY <1>2, Taking DEF graph, budget
  <2>2. world.explicit \subseteq All
    BY AllFacts DEF GraphInv, ShapeInv
  <2>3. QED
    BY <2>1, <2>2, CalmFound DEF Reading
<1>3. CASE Resolve
  BY <1>3, ResolveFound
<1>4. CASE Load \/ Repeat
  BY <1>4, AdmitFound
<1>5. QED
  BY <1>1, <1>2, <1>3, <1>4, Moves DEF Reading, Later

(* What may be known of a source that is read.                             *)
Tells(bytes, error) ==
  /\ error = "" => bytes = SizeOf(item.source)
  /\ error = "missing" => bytes = 0
  /\ error = "limit" \/ bytes > Remaining => SizeOf(item.source) > ReadLimit

(* Opening, reading and closing a source tells that.                       *)
LEMMA AcquireTells ==
  ASSUME GraphInv, BudgetInv, GotInv, Acquire, pc' \in {"close", "acquired"}
  PROVE  Tells(got'.bytes, got'.error)
<1>1. Remaining \in Nat /\ ReadLimit \in Nat /\ ReadLimit <= Remaining
  BY Left
<1>2. pc \in {"open", "refused", "read", "close"}
  BY DEF Acquire, OpenBytes, OpenFails, OpenReader, CloseRefused, Read, Close, Running
<1>3. ShapeInv /\ WorkInv
  BY <1>2 DEF GraphInv, Failures
<1>4. item.source \in DOMAIN world.data /\ (pc \in {"read", "close"} => HasData(item.source))
  BY <1>2, <1>3 DEF WorkInv, ItemInv, IsRead, Reading
<1>5. PICK size : size = SizeOf(item.source)
  OBVIOUS
<1>6. HasData(item.source) => size = Data.size /\ size \in Nat
  <2>1. HasData(item.source) => IsContent(world.data[item.source])
    BY <1>3, <1>4 DEF ShapeInv, IsWorld, HasData
  <2>2. QED
    BY <1>5, <2>1 DEF SizeOf, Data, IsContent
<1>7. \A bytes, error : Acquired(bytes, error) => got'.bytes = bytes /\ got'.error = error
  BY DEF Acquired
<1>8. Tells(0, "read") /\ Tells(0, "missing")
  BY <1>1 DEF Tells
<1>9. CASE OpenBytes
  <2>1. HasData(item.source)
    BY <1>3, <1>4, <1>9 DEF OpenBytes, ShapeInv, IsWorld, HasData
  <2>2. size = Data.size /\ size \in Nat
    BY <1>6, <2>1
  <2>3. \/ size > ReadLimit /\ got'.bytes = 0 /\ got'.error = "limit"
        \/ ~(size > ReadLimit) /\ got'.bytes = size /\ got'.error = ""
    BY <1>7, <1>9, <2>2 DEF OpenBytes
  <2>4. PICK b, e : b = got'.bytes /\ e = got'.error
    OBVIOUS
  <2>5. CASE size > ReadLimit /\ b = 0 /\ e = "limit"
    <3>1. Tells(b, "limit")
      <4>1. SizeOf(item.source) > ReadLimit
        BY <1>5, <2>5
      <4>2. "limit" # "" /\ "limit" # "missing"
        OBVIOUS
      <4>3. QED
        BY <4>1, <4>2 DEF Tells
    <3>2. QED
      BY <2>4, <2>5, <3>1
  <2>6. CASE ~(size > ReadLimit) /\ b = size /\ e = ""
    <3>1. PICK r : r = Remaining
      OBVIOUS
    <3>2. ~(b > r)
      <4>1. b \in Nat /\ ~(b > ReadLimit)
        BY <2>2, <2>6
      <4>2. QED
        BY ONLY <1>1, <3>1, <4>1
    <3>3. b = SizeOf(item.source)
      BY <1>5, <2>6
    <3>4. Tells(b, "")
      BY <3>1, <3>2, <3>3 DEF Tells
    <3>5. QED
      BY <2>4, <2>6, <3>4
  <2>7. QED
    BY <2>3, <2>4, <2>5, <2>6
<1>10. CASE OpenFails
  BY <1>7, <1>8, <1>10 DEF OpenFails
<1>11. CASE OpenReader
  BY <1>11 DEF OpenReader, Goto
<1>12. CASE CloseRefused
  BY <1>7, <1>8, <1>12 DEF CloseRefused
<1>13. CASE Read
  <2>1. size = Data.size /\ size \in Nat
    BY <1>4, <1>6, <1>13 DEF Read
  <2>2. PICK bytes, error : /\ got' = [bytes |-> bytes, error |-> error]
                            /\ bytes \in 0..size
                            /\ \/ bytes > ReadLimit /\ error = "limit"
                               \/ ~(bytes > ReadLimit) /\ error = "read"
                               \/ ~(bytes > ReadLimit) /\ bytes = size /\ error = ""
    BY <1>13, <2>1 DEF Read
  <2>3. got'.bytes = bytes /\ got'.error = error
    BY <2>2
  <2>4. bytes \in 0..size
    BY <2>2
  <2>5. bytes \in Nat /\ bytes <= size
    BY ONLY <2>1, <2>4
  <2>6. Tells(bytes, error)
    <3>1. CASE bytes > ReadLimit /\ error = "limit"
      BY <1>1, <1>5, <2>1, <2>5, <3>1 DEF Tells
    <3>2. CASE ~(bytes > ReadLimit) /\ error = "read"
      <4>1. PICK r : r = Remaining
        OBVIOUS
      <4>2. ~(bytes > r)
        BY <1>1, <2>5, <3>2, <4>1
      <4>3. QED
        BY <3>2, <4>1, <4>2 DEF Tells
    <3>3. CASE ~(bytes > ReadLimit) /\ bytes = size /\ error = ""
      <4>1. PICK r : r = Remaining
        OBVIOUS
      <4>2. ~(bytes > r)
        <5>1. ~(bytes > ReadLimit)
          BY <3>3
        <5>2. QED
          BY ONLY <1>1, <2>5, <4>1, <5>1
      <4>3. bytes = SizeOf(item.source)
        BY <1>5, <3>3
      <4>4. Tells(bytes, "")
        BY <4>1, <4>2, <4>3 DEF Tells
      <4>5. QED
        BY <3>3, <4>4
    <3>4. QED
      BY <2>2, <3>1, <3>2, <3>3
  <2>7. QED
    BY <2>3, <2>6
<1>14. CASE Close
  <2>1. Tells(got.bytes, got.error)
    BY <1>14 DEF Close, GotInv, Tells
  <2>2. got.error = "" => Tells(got.bytes, "read")
    BY <2>1 DEF Tells
  <2>3. Acquired(got.bytes, got.error) \/ (got.error = "" /\ Acquired(got.bytes, "read"))
    BY <1>14 DEF Close
  <2>4. CASE Acquired(got.bytes, got.error)
    BY <1>7, <2>1, <2>4
  <2>5. CASE got.error = "" /\ Acquired(got.bytes, "read")
    BY <1>7, <2>2, <2>5
  <2>6. QED
    BY <2>3, <2>4, <2>5
<1>15. QED
  BY <1>9, <1>10, <1>11, <1>12, <1>13, <1>14 DEF Acquire

(* It is true of every step.                                               *)
LEMMA GotStep ==
  ASSUME GraphInv, BudgetInv, GotInv, [Next]_vars, pc \notin Failures, pc' \notin Failures
  PROVE  GotInv'
<1>1. pc' \in {"close", "acquired"} => Calm /\ ((pc' = pc /\ got' = got) \/ Acquire)
  <2>1. Take => pc' \notin {"close", "acquired"}
    BY Taking
  <2>2. Resolve => pc' \notin {"close", "acquired"}
    BY Resolving DEF Resolves
  <2>3. Load \/ Repeat => pc' \notin {"close", "acquired"}
    BY DEF Load, Repeat, Goto
  <2>4. QED
    BY <2>1, <2>2, <2>3, Moves DEF Later
<1>2. SUFFICES ASSUME pc' \in {"close", "acquired"}
               PROVE  GotInv'
  BY DEF GotInv
<1>3. Tells(got'.bytes, got'.error)
  BY <1>1, <1>2, AcquireTells DEF GotInv, Tells
<1>4. item' = item /\ totalBytes' = totalBytes /\ world' = world
  BY <1>1, <1>2 DEF Calm, budget
<1>5. SizeOf(item.source)' = SizeOf(item.source) /\ Remaining' = Remaining /\ ReadLimit' = ReadLimit
  BY <1>4 DEF SizeOf, HasData, Remaining, ReadLimit
<1>6. QED
  BY <1>3, <1>5 DEF GotInv, Tells

-----------------------------------------------------------------------------
(* New requests are for the references of a source that is new, and each   *)
(* reference has one of them.                                              *)
LEMMA EnqueueOnce ==
  ASSUME NEW key, NEW refs, refs \in Seq(References), queue \in Seq(Range(queue)), Enqueue(key, refs),
         Distinct(queue), Range(queue) \cap Enqueued(item.source, key, refs) = {}
  PROVE  Distinct(queue')
<1> DEFINE S == {i \in DOMAIN refs : Located(refs[i])}
           rank == [i \in DOMAIN refs |-> i]
           located == Ascending(S, rank)
           n == Cardinality(S)
           P(j) == Request(item.source, <<key, located[j]>>, TRUE)
           more == [j \in DOMAIN located |-> P(j)]
<1>1. queue' = queue \o more
  BY DEF Enqueue
<1>2. DOMAIN refs = 1..Len(refs) /\ Len(refs) \in Nat
  OBVIOUS
<1>3. IsFiniteSet(S)
  <2>1. IsFiniteSet(1..Len(refs))
    BY <1>2, FS_Interval
  <2>2. S \in SUBSET (1..Len(refs))
    BY <1>2
  <2>3. QED
    BY <2>1, <2>2, FS_Subset
<1>4. (\A x \in S : rank[x] \in Nat) /\ (\A x, y \in S : rank[x] = rank[y] => x = y)
  BY <1>2
<1> HIDE DEF S, rank
<1>5. /\ n \in Nat /\ DOMAIN located = 1..n /\ located \in Seq(S)
      /\ \A i, j \in 1..n : located[i] = located[j] => i = j
  BY <1>3, <1>4, AscendingFacts
<1> HIDE DEF located, n
<1>6. \A j \in 1..n : P(j) \in Enqueued(item.source, key, refs)
  <2>1. \A j \in 1..n : located[j] \in S
    BY <1>5
  <2>2. QED
    BY <2>1 DEF Enqueued, S
<1>7. \A i, j \in 1..n : P(i) = P(j) => i = j
  <2> SUFFICES ASSUME NEW i \in 1..n, NEW j \in 1..n, P(i) = P(j)
               PROVE  i = j
    OBVIOUS
  <2>1. <<key, located[i]>> = <<key, located[j]>>
    BY DEF Request
  <2>2. QED
    BY <1>5, <2>1
<1> HIDE DEF P
<1>8. more = [j \in 1..n |-> P(j)]
  BY <1>5
<1>9. DOMAIN more = 1..n /\ \A j \in 1..n : more[j] = P(j)
  BY <1>8
<1> HIDE DEF more
<1>10. PICK m : m = Len(queue)
  OBVIOUS
<1>11. more \in Seq({more[j] : j \in 1..n})
  <2>1. PICK T : T = {more[j] : j \in 1..n}
    OBVIOUS
  <2>2. \A j \in 1..n : more[j] \in T
    BY <2>1
  <2>3. more = [j \in 1..n |-> more[j]]
    BY <1>8, <1>9
  <2>4. more \in [1..n -> T]
    BY <2>2, <2>3
  <2>5. n \in Nat
    BY <1>5
  <2>6. more \in Seq(T)
    BY ONLY <2>4, <2>5
  <2>7. QED
    BY <2>1, <2>6
<1>12. m \in Nat /\ DOMAIN queue = 1..m /\ Len(more) = n
  BY <1>5, <1>9, <1>10, <1>11, LenProperties
<1>13. /\ DOMAIN queue' = 1..m + n
       /\ \A i \in 1..m + n : queue'[i] = IF i <= m THEN queue[i] ELSE more[i - m]
  <2>1. PICK T : queue \in Seq(T) /\ more \in Seq(T)
    <3>1. queue \in Seq(Range(queue) \union {more[j] : j \in 1..n})
      BY SeqMonotonic
    <3>2. more \in Seq(Range(queue) \union {more[j] : j \in 1..n})
      BY <1>11, SeqMonotonic
    <3>3. QED
      BY <3>1, <3>2
  <2>2. QED
    BY <1>1, <1>10, <1>12, <2>1, ConcatProperties
<1>14. SUFFICES ASSUME NEW i \in 1..m + n, NEW j \in 1..m + n, queue'[i] = queue'[j]
                PROVE  i = j
  BY <1>13 DEF Distinct
<1>15. \A k \in 1..m : queue[k] \in Range(queue)
  BY <1>12 DEF Range
<1>16. \A k \in 1..m + n : k \in 1..m \/ (~(k <= m) /\ k - m \in 1..n)
  <2>1. m \in Nat /\ n \in Nat
    BY <1>5, <1>12
  <2>2. QED
    BY ONLY <2>1
<1>17. CASE i \in 1..m /\ j \in 1..m
  <2>1. queue[i] = queue[j]
    BY <1>12, <1>13, <1>14, <1>17
  <2>2. QED
    BY <1>12, <1>17, <2>1 DEF Distinct
<1>18. CASE i \in 1..m /\ j \notin 1..m
  <2>1. queue[i] = P(j - m) /\ j - m \in 1..n
    BY <1>5, <1>9, <1>12, <1>13, <1>14, <1>16, <1>18
  <2>2. QED
    BY <1>6, <1>15, <1>18, <2>1
<1>19. CASE i \notin 1..m /\ j \in 1..m
  <2>1. queue[j] = P(i - m) /\ i - m \in 1..n
    BY <1>5, <1>9, <1>12, <1>13, <1>14, <1>16, <1>19
  <2>2. QED
    BY <1>6, <1>15, <1>19, <2>1
<1>20. CASE i \notin 1..m /\ j \notin 1..m
  <2>1. P(i - m) = P(j - m) /\ i - m \in 1..n /\ j - m \in 1..n
    BY <1>5, <1>9, <1>12, <1>13, <1>14, <1>16, <1>20
  <2>2. i - m = j - m
    BY <1>7, <2>1
  <2>3. QED
    BY <1>5, <1>12, <2>2
<1>21. QED
  BY <1>17, <1>18, <1>19, <1>20

(* What was taken from a queue does not wait in it any longer.             *)
LEMMA TakenOnce ==
  ASSUME queue # <<>>, queue \in Seq(Range(queue)), Distinct(queue)
  PROVE  Distinct(Tail(queue)) /\ Head(queue) \notin Range(Tail(queue))
<1>1. PICK n, T : n = Len(queue) /\ T = Range(queue)
  OBVIOUS
<1>2. queue \in Seq(T) /\ n \in Nat /\ n # 0 /\ DOMAIN queue = 1..n
  BY <1>1, EmptySeq, LenProperties
<1>3. PICK tail : tail = Tail(queue)
  OBVIOUS
<1>4. DOMAIN tail = 1..n - 1 /\ \A i \in 1..n - 1 : tail[i] = queue[i + 1]
  BY <1>1, <1>2, <1>3
<1>5. Head(queue) = queue[1]
  BY <1>2
<1>6. \A i \in 1..n - 1 : i + 1 \in 1..n /\ i + 1 # 1 /\ 1 \in 1..n
  BY <1>2
<1>7. Distinct(tail)
  <2> SUFFICES ASSUME NEW i \in 1..n - 1, NEW j \in 1..n - 1, tail[i] = tail[j]
               PROVE  i = j
    BY <1>4 DEF Distinct
  <2>1. i + 1 = j + 1
    BY <1>2, <1>4, <1>6 DEF Distinct
  <2>2. QED
    BY <1>2, <2>1
<1>8. Head(queue) \notin Range(tail)
  <2> SUFFICES ASSUME NEW i \in 1..n - 1, tail[i] = queue[1]
               PROVE  FALSE
    BY <1>4, <1>5 DEF Range
  <2>1. i + 1 = 1
    BY <1>2, <1>4, <1>6 DEF Distinct
  <2>2. QED
    BY <1>6, <2>1
<1>9. QED
  BY <1>3, <1>7, <1>8

(* A source that joins was not asked for anything before.                  *)
LEMMA JoinsAlone ==
  ASSUME ShapeInv, QueueInv, NEW s, s = item.source, NEW key, NEW content, Joins(s, key, content)
  PROVE  Range(queue) \cap Enqueued(s, key, content.refs) = {}
<1> SUFFICES ASSUME NEW r \in Range(queue), r \in Enqueued(s, key, content.refs)
             PROVE  FALSE
  OBVIOUS
<1>1. PICK i \in {j \in DOMAIN content.refs : Located(content.refs[j])} : r = Request(s, <<key, i>>, TRUE)
  BY DEF Enqueued
<1>2. r.source = s /\ r.resolve = TRUE
  BY <1>1 DEF Request
<1>3. ~(r = Request(r.source, NoRef, FALSE))
  BY <1>2, RequestParts
<1>4. IsCall(r)
  BY <1>3 DEF QueueInv, IsRequest
<1>5. s \in Registered
  BY <1>2, <1>4, CallFacts DEF IsCall, Calls
<1>6. QED
  BY <1>5 DEF Joins

(* Every step keeps that nothing is asked for twice.                       *)
LEMMA OnceStep ==
  ASSUME GraphInv, OnceInv, [Next]_vars, pc \notin Failures, pc' \notin Failures
  PROVE  OnceInv'
<1>1. ShapeInv /\ QueueInv
  BY DEF GraphInv, WorkInv
<1>2. CASE Calm /\ (pc' = pc \/ pc' # "resolve")
  BY <1>2 DEF Calm, OnceInv, Distinct
<1>3. CASE Take
  <2>1. queue # <<>> /\ queue \in Seq(Range(queue)) /\ item' = Head(queue) /\ queue' = Tail(queue)
    BY <1>3, Taking
  <2>2. Distinct(queue') /\ item' \notin Range(queue')
    BY <2>1, TakenOnce DEF OnceInv
  <2>3. QED
    BY <2>2 DEF OnceInv, Distinct
<1>4. CASE Resolve
  <2>1. queue' = queue /\ pc' # "resolve"
    BY <1>4, Resolving DEF Resolves
  <2>2. QED
    BY <2>1 DEF OnceInv, Distinct
<1>5. CASE Load \/ Repeat
  <2>1. PICK s : s = item.source
    OBVIOUS
  <2>2. pc' = "take" /\ (Returns \/ \E key, content : Joins(s, key, content))
    BY <1>5, <2>1, Admission
  <2>3. CASE Returns
    BY <2>2, <2>3 DEF Returns, OnceInv, Distinct
  <2>4. CASE \E key, content : Joins(s, key, content)
    <3>1. PICK key, content : Joins(s, key, content)
      BY <2>4
    <3>2. content.refs \in Seq(References) /\ Enqueue(key, content.refs)
      BY <3>1 DEF Joins, IsContent
    <3>3. Range(queue) \cap Enqueued(item.source, key, content.refs) = {}
      BY <1>1, <2>1, <3>1, JoinsAlone
    <3>4. PICK refs : refs = content.refs
      OBVIOUS
    <3>5. Distinct(queue')
      BY <1>1, <3>2, <3>3, <3>4, EnqueueOnce DEF QueueInv, OnceInv
    <3>6. QED
      BY <2>2, <3>5 DEF OnceInv, Distinct
  <2>5. QED
    BY <2>2, <2>3, <2>4
<1>6. QED
  BY <1>2, <1>3, <1>4, <1>5, Moves DEF Reading, Later

-----------------------------------------------------------------------------
(* Only finitely much can be asked for and charged.                        *)

(* The values of a function on a finite set are finitely many, and no more *)
(* than it has elements.                                                   *)
LEMMA FiniteValues ==
  ASSUME NEW S, IsFiniteSet(S), NEW f, f = [x \in S |-> f[x]]
  PROVE  IsFiniteSet({f[x] : x \in S}) /\ Cardinality({f[x] : x \in S}) <= Cardinality(S)
<1>1. PICK T : T = {f[x] : x \in S}
  OBVIOUS
<1>2. f \in [S -> T] /\ \A y \in T : \E x \in S : f[x] = y
  BY <1>1
<1>3. f \in Surjection(S, T)
  BY ONLY <1>2 DEF Surjection
<1>4. QED
  BY <1>1, <1>3, FS_Surjection

Asks(s, content) == {<<s, content, i>> : i \in DOMAIN content.refs}

(* A source asks for each reference of its document once.                  *)
LEMMA AsksFacts ==
  ASSUME NEW s, NEW content, IsContent(content)
  PROVE  IsFiniteSet(Asks(s, content)) /\ Cardinality(Asks(s, content)) = Len(content.refs) /\ Len(content.refs) \in Nat
<1>1. PICK n : n = Len(content.refs)
  OBVIOUS
<1>2. n \in Nat /\ DOMAIN content.refs = 1..n
  BY <1>1 DEF IsContent
<1>3. PICK f : f = [i \in 1..n |-> <<s, content, i>>]
  OBVIOUS
<1>4. PICK T : T = Asks(s, content)
  OBVIOUS
<1>5. T = {<<s, content, i>> : i \in 1..n}
  BY <1>2, <1>4 DEF Asks
<1>6. f \in [1..n -> T] /\ (\A i, j \in 1..n : f[i] = f[j] => i = j) /\ \A y \in T : \E i \in 1..n : f[i] = y
  BY <1>3, <1>5
<1>7. f \in Surjection(1..n, T) /\ f \in Injection(1..n, T)
  <2>1. \A i, j \in 1..n : f[i] = f[j] => i = j
    BY <1>6
  <2>2. f \in Surjection(1..n, T)
    BY ONLY <1>6 DEF Surjection
  <2>3. f \in Injection(1..n, T)
    BY ONLY <1>6, <2>1 DEF Injection, IsInjective
  <2>4. QED
    BY <2>2, <2>3
<1>8. IsFiniteSet(1..n) /\ Cardinality(1..n) = n
  <2>1. Cardinality(1..n) = (IF 1 > n THEN 0 ELSE n - 1 + 1) /\ IsFiniteSet(1..n)
    BY <1>2, FS_Interval
  <2>2. QED
    BY <1>2, <2>1
<1>9. IsFiniteSet(T) /\ Cardinality(T) = Cardinality(1..n)
  BY <1>7, <1>8, FS_Surjection
<1>10. QED
  BY <1>1, <1>2, <1>4, <1>8, <1>9

(* The contents of a document are those of sources, of which there are     *)
(* finitely many.                                                          *)
LEMMA FiniteContents ==
  ASSUME IsFiniteSet(All), NEW key
  PROVE  IsFiniteSet(Contents(All, key))
<1>1. PICK S : S = {u \in All : Key[u.name] = key /\ HasData(u)}
  OBVIOUS
<1>2. PICK f : f = [t \in S |-> world.data[t]]
  OBVIOUS
<1>3. S \in SUBSET All
  BY <1>1
<1>4. IsFiniteSet(S)
  BY <1>3, FS_Subset
<1>5. f = [t \in S |-> f[t]] /\ \A t \in S : f[t] = world.data[t]
  BY <1>2
<1>6. Contents(All, key) = {f[t] : t \in S}
  BY <1>1, <1>5 DEF Contents
<1>7. QED
  BY <1>4, <1>5, <1>6, FiniteValues

(* They are contents of the world: what they name and cost is known.       *)
LEMMA ContentsAre ==
  ASSUME IsWorld(world), All \in SUBSET DOMAIN world.data, NEW key, NEW d \in Contents(All, key)
  PROVE  /\ IsContent(d)
         /\ \E t \in DOMAIN world.data : Key[t.name] = key /\ world.data[t] = d /\ world.data[t] # Missing
<1>1. PICK t \in All : Key[t.name] = key /\ HasData(t) /\ d = world.data[t]
  BY DEF Contents
<1>2. t \in DOMAIN world.data /\ world.data[t] # Missing
  BY <1>1 DEF HasData
<1>3. IsContent(world.data[t])
  BY <1>2 DEF IsWorld
<1>4. QED
  BY <1>1, <1>2, <1>3

(* Everything that can be asked for.                                       *)
LEMMA FiniteAsked ==
  ASSUME IsWorld(world), All \in SUBSET DOMAIN world.data, IsFiniteSet(All)
  PROVE  IsFiniteSet(Asked(All))
<1>1. \A s \in All : IsFiniteSet(UNION {Asks(s, d) : d \in Contents(All, Key[s.name])})
  <2> SUFFICES ASSUME NEW s \in All
               PROVE  IsFiniteSet(UNION {Asks(s, d) : d \in Contents(All, Key[s.name])})
    OBVIOUS
  <2>1. PICK C : C = Contents(All, Key[s.name])
    OBVIOUS
  <2>2. IsFiniteSet(C)
    BY <2>1, FiniteContents
  <2>3. PICK f : f = [d \in C |-> Asks(s, d)]
    OBVIOUS
  <2>4. f = [d \in C |-> f[d]] /\ \A d \in C : f[d] = Asks(s, d)
    BY <2>3
  <2>5. PICK F : F = {f[d] : d \in C}
    OBVIOUS
  <2>6. IsFiniteSet(F)
    BY <2>2, <2>4, <2>5, FiniteValues
  <2>7. \A d \in C : IsFiniteSet(f[d])
    BY <2>1, <2>4, ContentsAre, AsksFacts
  <2>8. IsFiniteSet(UNION F)
    BY <2>5, <2>6, <2>7, FS_UNION
  <2>9. F = {Asks(s, d) : d \in C}
    BY <2>4, <2>5
  <2>10. QED
    BY <2>1, <2>8, <2>9
<1>2. PICK f : f = [s \in All |-> UNION {Asks(s, d) : d \in Contents(All, Key[s.name])}]
  OBVIOUS
<1>3. f = [s \in All |-> f[s]] /\ \A s \in All : f[s] = UNION {Asks(s, d) : d \in Contents(All, Key[s.name])}
  BY <1>2
<1>4. PICK F : F = {f[s] : s \in All}
  OBVIOUS
<1>5. IsFiniteSet(F)
  BY <1>3, <1>4, FiniteValues
<1>6. \A T \in F : IsFiniteSet(T)
  BY <1>1, <1>3, <1>4
<1>7. IsFiniteSet(UNION F)
  BY <1>5, <1>6, FS_UNION
<1>8. Asked(All) \in SUBSET UNION F
  <2> SUFFICES ASSUME NEW ask \in Asked(All)
               PROVE  ask \in UNION F
    OBVIOUS
  <2>1. PICK s \in All : ask \in UNION {Asks(s, d) : d \in Contents(All, Key[s.name])}
    BY DEF Asked, Asks
  <2>2. ask \in f[s] /\ f[s] \in F
    BY <1>3, <1>4, <2>1
  <2>3. QED
    BY <2>2
<1>9. QED
  BY <1>7, <1>8, FS_Subset

(* The references in a content are among all that can be asked for.        *)
LEMMA AskedIn ==
  ASSUME NEW s \in All, NEW d \in Contents(All, Key[s.name])
  PROVE  Asks(s, d) \subseteq Asked(All)
BY DEF Asked, Asks

(* What all of it costs is finite and counted in natural numbers.          *)
LEMMA CostsAreFinite ==
  ASSUME IsWorld(world), IsFiniteSet(DOMAIN world.data)
  PROVE  /\ IsFiniteSet(Asked(All)) /\ \A ask \in Asked(All) : ReadFor(ask) \in Nat
         /\ IsFiniteSet(Documents(All)) /\ \A doc \in Documents(All) : doc[2].nodes \in Nat
         /\ IsFiniteSet(world.explicit) /\ \A s \in DOMAIN world.data : SizeOf(s) \in Nat
         /\ IsFiniteSet(AdmittedBy(All))
<1>1. All \in SUBSET DOMAIN world.data /\ IsFiniteSet(All) /\ Reached(All) \subseteq All
  BY AllFacts
<1>2. \A s \in DOMAIN world.data : SizeOf(s) \in Nat
  <2>1. \A s \in DOMAIN world.data : HasData(s) => world.data[s].size \in Nat
    BY DEF IsWorld, IsContent, HasData
  <2>2. QED
    BY <2>1 DEF SizeOf
<1>3. \A ask \in Asked(All) : ReadFor(ask) \in Nat
  <2> SUFFICES ASSUME NEW ask \in Asked(All)
               PROVE  ReadFor(ask) \in Nat
    OBVIOUS
  <2>1. PICK s, d, i : s \in All /\ d \in Contents(All, Key[s.name]) /\ i \in DOMAIN d.refs /\ ask = <<s, d, i>>
    BY DEF Asked
  <2>2. PICK t \in DOMAIN world.data : Key[t.name] = Key[s.name] /\ world.data[t] = d /\ world.data[t] # Missing
    BY <1>1, <2>1, ContentsAre
  <2>3. s \in DOMAIN world.data /\ i \in DOMAIN world.data[t].refs
    BY <1>1, <2>1, <2>2
  <2>4. PICK r, answer : r = d.refs[i] /\ answer = world.resolve[<<s, r.location>>]
    OBVIOUS
  <2>5. r.location # "" => \/ answer.kind \in {"error", "none"}
                           \/ answer.kind = "identity" /\ answer.key # ""
                           \/ answer.kind = "source" /\ answer.source \in DOMAIN world.data
    BY <2>2, <2>3, <2>4 DEF IsWorld
  <2>6. Located(r) /\ answer.kind = "source" => answer.source \in DOMAIN world.data
    BY <2>5 DEF Located
  <2>7. ReadFor(ask) = IF Located(r) /\ answer.kind = "source" THEN SizeOf(answer.source) ELSE 0
    BY <2>1, <2>4 DEF ReadFor
  <2>8. QED
    BY <1>2, <2>6, <2>7
<1>4. IsFiniteSet(Documents(All)) /\ \A doc \in Documents(All) : doc[2].nodes \in Nat
  <2>1. PICK S : S = {t \in All : HasData(t)}
    OBVIOUS
  <2>2. S \in SUBSET All
    BY <2>1
  <2>3. IsFiniteSet(S)
    BY <1>1, <2>2, FS_Subset
  <2>4. PICK f : f = [s \in S |-> <<Key[s.name], world.data[s]>>]
    OBVIOUS
  <2>5. f = [s \in S |-> f[s]] /\ \A s \in S : f[s] = <<Key[s.name], world.data[s]>>
    BY <2>4
  <2>6. Documents(All) = {f[s] : s \in S}
    BY <2>1, <2>5 DEF Documents
  <2>7. \A s \in S : world.data[s].nodes \in Nat
    BY <1>1, <2>1 DEF IsWorld, IsContent, HasData
  <2>8. \A s \in S : f[s][2].nodes \in Nat
    BY <2>5, <2>7
  <2>9. QED
    BY <2>3, <2>5, <2>6, <2>8, FiniteValues
<1>5. IsFiniteSet(AdmittedBy(All))
  <2>1. IsFiniteSet(Reached(All))
    BY <1>1, FS_Subset
  <2>2. PICK S, f : S = Reached(All) /\ f = [t \in S |-> Key[t.name]]
    OBVIOUS
  <2>3. f = [t \in S |-> f[t]] /\ \A t \in S : f[t] = Key[t.name]
    BY <2>2
  <2>4. AdmittedBy(All) = {f[t] : t \in S}
    BY <2>2, <2>3 DEF AdmittedBy
  <2>5. QED
    BY <2>1, <2>2, <2>3, <2>4, FiniteValues
<1>6. IsFiniteSet(world.explicit)
  BY DEF IsWorld
<1>7. QED
  BY <1>1, <1>2, <1>3, <1>4, <1>5, <1>6, FiniteAsked

-----------------------------------------------------------------------------
(* What was asked for so far, and what was parsed.                         *)

AskedNow == UNION {Asks(s, docs[KeyOf(s)].content) : s \in Registered}
CountInv == references <= Cardinality(AskedNow)

LoadedDocs == {<<key, docs[key].content>> : key \in DOMAIN docs}
NodeInv == parsedNodes <= SumOver([doc \in Documents(All) |-> doc[2].nodes], LoadedDocs)

(* It is part of what can be asked for.                                    *)
LEMMA AskedNowIn ==
  ASSUME ShapeInv, Registered \subseteq All
  PROVE  AskedNow \subseteq Asked(All)
<1> SUFFICES ASSUME NEW ask \in AskedNow
             PROVE  ask \in Asked(All)
  OBVIOUS
<1>1. PICK s \in Registered : ask \in Asks(s, docs[KeyOf(s)].content)
  BY DEF AskedNow
<1>2. s \in All /\ docs[KeyOf(s)].content \in Contents(All, Key[s.name])
  BY KeyIsLoaded, LoadedContent DEF KeyOf
<1>3. QED
  BY <1>1, <1>2, AskedIn

(* A source that joins asks for what was not asked for.                    *)
LEMMA JoinsAsks ==
  ASSUME ShapeInv, Kept, NEW s, NEW key, NEW content, Joins(s, key, content)
  PROVE  AskedNow' = AskedNow \union Asks(s, content) /\ AskedNow \cap Asks(s, content) = {}
<1>1. PICK known : known = Registered
  OBVIOUS
<1>2. /\ key = KeyOf(s) /\ s \notin known /\ docs'[key].content = content /\ Registered' = known \union {s}
  BY <1>1 DEF Joins
<1>3. \A t \in known : docs'[KeyOf(t)].content = docs[KeyOf(t)].content
  BY <1>1, KeyIsLoaded DEF Kept
<1>4. AskedNow' = UNION {Asks(t, docs'[KeyOf(t)].content) : t \in known \union {s}}
  BY <1>2 DEF AskedNow, Asks, KeyOf
<1>5. AskedNow = UNION {Asks(t, docs[KeyOf(t)].content) : t \in known}
  BY <1>1 DEF AskedNow
<1>6. ASSUME NEW ask \in AskedNow'
      PROVE  ask \in AskedNow \union Asks(s, content)
  <2>1. PICK t \in known \union {s} : ask \in Asks(t, docs'[KeyOf(t)].content)
    BY <1>4, <1>6
  <2>2. CASE t = s
    BY <1>2, <2>1, <2>2
  <2>3. CASE t \in known
    BY <1>3, <1>5, <2>1, <2>3
  <2>4. QED
    BY <2>2, <2>3
<1>7. ASSUME NEW ask \in AskedNow
      PROVE  ask \in AskedNow' /\ ask \notin Asks(s, content)
  <2>1. PICK t \in known : ask \in Asks(t, docs[KeyOf(t)].content)
    BY <1>5, <1>7
  <2>2. ask \in Asks(t, docs'[KeyOf(t)].content)
    BY <1>3, <2>1
  <2>3. ask[1] = t
    BY <2>1 DEF Asks
  <2>4. \A a \in Asks(s, content) : a[1] = s
    BY DEF Asks
  <2>5. QED
    BY <1>2, <1>4, <2>2, <2>3, <2>4
<1>8. Asks(s, content) \subseteq AskedNow'
  BY <1>2, <1>4
<1>9. QED
  BY <1>6, <1>7, <1>8

(* Other steps ask for nothing.                                            *)
LEMMA SameAsks ==
  ASSUME ShapeInv, Kept, Registered' = Registered
  PROVE  AskedNow' = AskedNow
<1>1. \A t \in Registered : docs'[KeyOf(t)].content = docs[KeyOf(t)].content
  BY KeyIsLoaded DEF Kept
<1>2. AskedNow' = UNION {Asks(t, docs'[KeyOf(t)].content) : t \in Registered}
  BY DEF AskedNow, Asks, KeyOf
<1>3. AskedNow' \subseteq AskedNow /\ AskedNow \subseteq AskedNow'
  BY <1>1, <1>2 DEF AskedNow
<1>4. QED
  BY <1>3

(* References are counted once for each source of their document.          *)
LEMMA CountStep ==
  ASSUME GraphInv, BudgetInv, FoundInv, CountInv, IsFiniteSet(DOMAIN world.data), [Next]_vars,
         pc \notin Failures, pc' \notin Failures
  PROVE  CountInv'
<1>1. ShapeInv /\ references \in Nat /\ IsFiniteSet(AskedNow)
  <2>1. ShapeInv /\ references \in Nat
    BY DEF GraphInv, BudgetInv, CountsInv
  <2>2. IsFiniteSet(Asked(All)) /\ AskedNow \in SUBSET Asked(All)
    BY <2>1, CostsAreFinite, AskedNowIn DEF ShapeInv, FoundInv
  <2>3. QED
    BY <2>1, <2>2, FS_Subset
<1>2. ASSUME UNCHANGED <<docs, references>>
      PROVE  CountInv'
  BY <1>2 DEF CountInv, AskedNow, Registered, Asks, KeyOf
<1>3. CASE Calm
  BY <1>2, <1>3 DEF Calm, graph, budget
<1>4. CASE Take
  BY <1>2, <1>4, Taking DEF graph, budget
<1>5. CASE Resolve
  BY <1>2, <1>5, Resolving DEF Resolves
<1>6. CASE Load \/ Repeat
  <2>1. PICK s : s = item.source
    OBVIOUS
  <2>2. Kept /\ (Returns \/ \E key, content : Joins(s, key, content))
    BY <1>6, <2>1, Admission
  <2>3. CASE Returns
    BY <1>1, <2>2, <2>3, SameAsks DEF Returns, CountInv
  <2>4. CASE \E key, content : Joins(s, key, content)
    <3>1. PICK key, content : Joins(s, key, content)
      BY <2>4
    <3>2. PICK old, more : old = AskedNow /\ more = Asks(s, content)
      OBVIOUS
    <3>3. AskedNow' = old \union more /\ old \cap more = {}
      BY <1>1, <2>2, <3>1, <3>2, JoinsAsks
    <3>4. IsFiniteSet(more) /\ Cardinality(more) = Len(content.refs) /\ Len(content.refs) \in Nat
      BY <3>1, <3>2, AsksFacts DEF Joins
    <3>5. references' = references + Len(content.refs)
      BY <3>1 DEF Joins, Enqueue
    <3>6. Cardinality(old \union more) = Cardinality(old) + Cardinality(more) - Cardinality({})
      BY <1>1, <3>2, <3>3, <3>4, FS_Union
    <3>7. Cardinality(old) \in Nat /\ Cardinality({}) = 0
      BY <1>1, <3>2, FS_CardinalityType, FS_EmptySet
    <3>8. references' <= Cardinality(old \union more)
      BY <1>1, <3>2, <3>4, <3>5, <3>6, <3>7 DEF CountInv
    <3>9. QED
      BY <3>3, <3>8 DEF CountInv
  <2>5. QED
    BY <2>2, <2>3, <2>4
<1>7. QED
  BY <1>3, <1>4, <1>5, <1>6, Moves

(* Loaded documents are among all there can be.                            *)
LEMMA LoadedIn ==
  ASSUME ShapeInv, Registered \subseteq All
  PROVE  LoadedDocs \subseteq Documents(All)
BY LoadedContent DEF LoadedDocs

(* A document is parsed once.                                              *)
LEMMA NodeStep ==
  ASSUME GraphInv, BudgetInv, FoundInv, FoundInv', NodeInv, IsFiniteSet(DOMAIN world.data), [Next]_vars,
         pc \notin Failures, pc' \notin Failures
  PROVE  NodeInv'
<1>1. ShapeInv /\ parsedNodes \in Nat
  BY DEF GraphInv, BudgetInv, CountsInv
<1>2. PICK D, f : D = Documents(All) /\ f = [doc \in D |-> doc[2].nodes]
  OBVIOUS
<1>3. IsFiniteSet(D) /\ \A doc \in D : f[doc] \in Nat /\ f[doc] = doc[2].nodes
  BY <1>1, <1>2, CostsAreFinite DEF ShapeInv
<1>4. parsedNodes <= SumOver(f, LoadedDocs)
  BY <1>2 DEF NodeInv
<1>5. world' = world => Documents(All)' = D
  BY <1>2, SameWorld
<1>6. world' = world /\ parsedNodes' <= SumOver(f, LoadedDocs') => NodeInv'
  BY <1>2, <1>5 DEF NodeInv
<1>7. ASSUME UNCHANGED <<world, docs, parsedNodes>>
      PROVE  NodeInv'
  BY <1>4, <1>6, <1>7 DEF LoadedDocs
<1>8. CASE Calm
  BY <1>7, <1>8 DEF Calm, graph, budget
<1>9. CASE Take
  BY <1>7, <1>9, Taking DEF graph, budget
<1>10. CASE Resolve
  BY <1>7, <1>10, Resolving DEF Resolves
<1>11. CASE Repeat
  <2>1. world' = world /\ parsedNodes' = parsedNodes
    BY <1>11 DEF Repeat
  <2>2. PICK s : s = item.source
    OBVIOUS
  <2>3. PICK key, sources : key = ItemKey /\ sources = docs[key].sources \union (IF Fresh(s) THEN {s} ELSE {})
    OBVIOUS
  <2>4. /\ key \in DOMAIN docs /\ DOMAIN docs' = DOMAIN docs
        /\ \A k \in DOMAIN docs : k # key => docs'[k] = docs[k]
        /\ docs'[key] = [name |-> docs[key].name, content |-> docs[key].content, sources |-> sources,
                         explicitRoot |-> docs[key].explicitRoot \/ ~Optional]
    BY <1>1, <1>11, <2>2, <2>3, RepeatedDocs
  <2>5. \A k \in DOMAIN docs : docs'[k].content = docs[k].content
    BY <2>4
  <2>6. LoadedDocs' = LoadedDocs
    BY <2>4, <2>5 DEF LoadedDocs
  <2>7. QED
    BY <1>4, <1>6, <2>1, <2>6
<1>12. CASE Load
  <2>1. PICK key, data, name, sources, root : key = ItemKey /\ data = Data /\ name = item.source.name
                                              /\ sources = {item.source} /\ root = ~Optional
    OBVIOUS
  <2>2. /\ world' = world /\ key \notin DOMAIN docs /\ parsedNodes' = parsedNodes + data.nodes
        /\ docs' = [k \in DOMAIN docs \union {key} |-> IF k # key THEN docs[k] ELSE
                      [name |-> name, content |-> data, sources |-> sources, explicitRoot |-> root]]
    BY <1>12, <2>1 DEF Load, Loaded
  <2>3. /\ DOMAIN docs' = DOMAIN docs \union {key} /\ docs'[key].content = data
        /\ \A k \in DOMAIN docs : docs'[k].content = docs[k].content
    BY <2>2
  <2>4. PICK old, new, doc : old = LoadedDocs /\ new = LoadedDocs' /\ doc = <<key, data>>
    OBVIOUS
  <2>5. new = old \union {doc} /\ doc \notin old
    BY <2>2, <2>3, <2>4 DEF LoadedDocs
  <2>6. new \subseteq D
    <3>1. ShapeInv'
      BY <1>12, LoadGraph DEF GraphInv
    <3>2. (ShapeInv /\ Registered \subseteq All => LoadedDocs \subseteq Documents(All))'
      BY LoadedIn, PTL
    <3>3. QED
      BY <1>5, <2>2, <2>4, <3>1, <3>2 DEF FoundInv
  <2>7. SumOver(f, old) + f[doc] <= SumOver(f, new)
    BY <1>3, <2>5, <2>6, SumGrowsBy
  <2>8. f[doc] = data.nodes /\ f[doc] \in Nat
    BY <1>3, <2>4, <2>5, <2>6
  <2>9. PICK a, b : a = SumOver(f, old) /\ b = SumOver(f, new)
    BY Zenon
  <2>10. a \in Nat /\ b \in Nat
    <3>1. IsFiniteSet(old) /\ IsFiniteSet(new) /\ old \subseteq D
      BY <1>3, <2>5, <2>6, FS_Subset
    <3>2. QED
      BY <1>3, <2>6, <2>9, <3>1, SumIsNat
  <2>11. parsedNodes' <= b
    <3>1. parsedNodes <= a /\ a + data.nodes <= b
      BY <1>4, <2>4, <2>7, <2>8, <2>9
    <3>2. QED
      BY <1>1, <2>2, <2>8, <2>10, <3>1
  <2>12. QED
    BY <1>6, <2>2, <2>4, <2>9, <2>11
<1>13. QED
  BY <1>8, <1>9, <1>10, <1>11, <1>12, Moves

-----------------------------------------------------------------------------
(* The ledger: whatever is charged is paid for by an explicit source or by *)
(* a reference that was asked for, and by each of them once.               *)

Open(r) == r \in Range(queue) \/ (pc = "resolve" /\ item = r)
DoneSources == {s \in world.explicit : ~Open(Request(s, NoRef, FALSE))}
DoneAsks == {ask \in AskedNow : ~Open(Request(ask[1], <<KeyOf(ask[1]), ask[3]>>, TRUE))}

SourceSizes == [s \in world.explicit |-> SizeOf(s)]
AskedSizes == [ask \in Asked(All) |-> ReadFor(ask)]
Spent == SumOver(SourceSizes, DoneSources) + SumOver(AskedSizes, DoneAsks)

AtHand == IF pc \in Reading THEN SizeOf(item.source) ELSE 0
LedgerInv == totalBytes + AtHand <= Spent

(* Sizes are natural numbers.                                              *)
LEMMA LedgerFacts ==
  ASSUME ShapeInv, FoundInv, IsFiniteSet(DOMAIN world.data)
  PROVE  /\ IsFiniteSet(world.explicit) /\ \A s \in world.explicit : SourceSizes[s] = SizeOf(s) /\ SizeOf(s) \in Nat
         /\ IsFiniteSet(Asked(All)) /\ \A ask \in Asked(All) : AskedSizes[ask] = ReadFor(ask) /\ ReadFor(ask) \in Nat
         /\ DoneSources \subseteq world.explicit /\ DoneAsks \subseteq Asked(All)
         /\ SumOver(SourceSizes, DoneSources) \in Nat /\ SumOver(AskedSizes, DoneAsks) \in Nat
         /\ AtHand \in Nat
<1>1. /\ IsFiniteSet(world.explicit) /\ \A s \in world.explicit : SourceSizes[s] = SizeOf(s) /\ SizeOf(s) \in Nat
      /\ IsFiniteSet(Asked(All)) /\ \A ask \in Asked(All) : AskedSizes[ask] = ReadFor(ask) /\ ReadFor(ask) \in Nat
  BY CostsAreFinite DEF ShapeInv, IsWorld, SourceSizes, AskedSizes
<1>2. DoneSources \subseteq world.explicit /\ DoneAsks \subseteq Asked(All)
  BY AskedNowIn DEF FoundInv, DoneSources, DoneAsks
<1>3. IsFiniteSet(DoneSources) /\ IsFiniteSet(DoneAsks)
  BY <1>1, <1>2, FS_Subset
<1>4. SumOver(SourceSizes, DoneSources) \in Nat
  <2>1. \A s \in DoneSources : SourceSizes[s] \in Nat
    BY <1>1, <1>2
  <2>2. QED
    BY <1>3, <2>1, SumIsNat
<1>5. SumOver(AskedSizes, DoneAsks) \in Nat
  <2>1. \A ask \in DoneAsks : AskedSizes[ask] \in Nat
    BY <1>1, <1>2
  <2>2. QED
    BY <1>3, <2>1, SumIsNat
<1>6. AtHand \in Nat
  <2>1. pc \in Reading => SizeOf(item.source) \in Nat
    BY AllFacts, CostsAreFinite DEF ShapeInv, FoundInv
  <2>2. QED
    BY <2>1 DEF AtHand
<1>7. QED
  BY <1>1, <1>2, <1>4, <1>5, <1>6

(* What was asked for is found, as one formula.                            *)
LEMMA AskedIsFound == ShapeInv /\ FoundInv => AskedNow \subseteq Asked(All)
BY AskedNowIn DEF FoundInv

(* What is done stays done, and one more source or reference pays for its  *)
(* own size.                                                               *)
LEMMA LedgerGrows ==
  ASSUME ShapeInv, FoundInv, IsFiniteSet(DOMAIN world.data), ShapeInv', FoundInv', world' = world,
         DoneSources \subseteq DoneSources', DoneAsks \subseteq DoneAsks'
  PROVE  /\ Spent \in Nat /\ Spent' \in Nat /\ Spent <= Spent'
         /\ \A s \in DoneSources' \ DoneSources : Spent + SizeOf(s) <= Spent'
         /\ \A ask \in DoneAsks' \ DoneAsks : Spent + ReadFor(ask) <= Spent'
<1>1. PICK E, A, f, g : E = world.explicit /\ A = Asked(All) /\ f = SourceSizes /\ g = AskedSizes
  OBVIOUS
<1>2. /\ IsFiniteSet(E) /\ \A s \in E : f[s] = SizeOf(s) /\ f[s] \in Nat
      /\ IsFiniteSet(A) /\ \A ask \in A : g[ask] = ReadFor(ask) /\ g[ask] \in Nat
  BY <1>1, LedgerFacts
<1>3. SourceSizes' = f /\ AskedSizes' = g
  <2>1. All' = All /\ Asked(All)' = Asked(All) /\ (\A s : SizeOf(s)' = SizeOf(s)) /\ \A ask : ReadFor(ask)' = ReadFor(ask)
    BY SameWorld
  <2>2. SourceSizes' = SourceSizes
    BY <2>1 DEF SourceSizes
  <2>3. AskedSizes' = AskedSizes
    BY <2>1 DEF AskedSizes
  <2>4. QED
    BY <1>1, <2>2, <2>3
<1>4. PICK S0, S1, A0, A1 : S0 = DoneSources /\ S1 = DoneSources' /\ A0 = DoneAsks /\ A1 = DoneAsks'
  OBVIOUS
<1>5. S0 \subseteq S1 /\ S1 \subseteq E
  BY <1>1, <1>4 DEF DoneSources
<1>6. A0 \subseteq A1 /\ A1 \subseteq A
  <2>1. (ShapeInv /\ FoundInv => AskedNow \subseteq Asked(All))'
    BY AskedIsFound, PTL
  <2>2. All' = All /\ Asked(All)' = Asked(All)
    BY SameWorld
  <2>3. QED
    BY <1>1, <1>4, <2>1, <2>2 DEF DoneAsks
<1>7. PICK a, b, c, d : a = SumOver(f, S0) /\ b = SumOver(g, A0) /\ c = SumOver(f, S1) /\ d = SumOver(g, A1)
  BY Zenon
<1>8. Spent = a + b /\ Spent' = c + d
  BY <1>1, <1>3, <1>4, <1>7 DEF Spent
<1>9. a \in Nat /\ b \in Nat /\ c \in Nat /\ d \in Nat
  <2>1. IsFiniteSet(S1) /\ S0 \subseteq E /\ IsFiniteSet(S0)
    BY <1>2, <1>5, FS_Subset
  <2>2. IsFiniteSet(A1) /\ A0 \subseteq A /\ IsFiniteSet(A0)
    BY <1>2, <1>6, FS_Subset
  <2>3. a \in Nat /\ c \in Nat
    BY <1>2, <1>5, <1>7, <2>1, SumIsNat
  <2>4. b \in Nat /\ d \in Nat
    BY <1>2, <1>6, <1>7, <2>2, SumIsNat
  <2>5. QED
    BY <2>3, <2>4
<1>10. a <= c
  <2>1. \A U \in SUBSET E : \A V \in SUBSET U : SumOver(f, V) <= SumOver(f, U)
    BY <1>2, SumGrows
  <2>2. QED
    BY <1>5, <1>7, <2>1
<1>11. b <= d
  <2>1. \A U \in SUBSET A : \A V \in SUBSET U : SumOver(g, V) <= SumOver(g, U)
    BY <1>2, SumGrows
  <2>2. QED
    BY <1>6, <1>7, <2>1
<1>12. ASSUME NEW s \in S1 \ S0
       PROVE  Spent + SizeOf(s) <= Spent'
  <2>1. SumOver(f, S0) + f[s] <= SumOver(f, S1)
    BY <1>2, <1>5, <1>12, SumGrowsBy
  <2>2. PICK n : n = f[s]
    OBVIOUS
  <2>3. n \in Nat /\ n = SizeOf(s) /\ a + n <= c
    BY <1>2, <1>5, <1>7, <1>12, <2>1, <2>2
  <2>4. a + b + n <= c + d
    BY <1>9, <1>11, <2>3
  <2>5. QED
    BY <1>8, <2>3, <2>4
<1>13. ASSUME NEW ask \in A1 \ A0
       PROVE  Spent + ReadFor(ask) <= Spent'
  <2>1. SumOver(g, A0) + g[ask] <= SumOver(g, A1)
    BY <1>2, <1>6, <1>13, SumGrowsBy
  <2>2. PICK n : n = g[ask]
    OBVIOUS
  <2>3. n \in Nat /\ n = ReadFor(ask) /\ b + n <= d
    BY <1>2, <1>6, <1>7, <1>13, <2>1, <2>2
  <2>4. a + b + n <= c + d
    BY <1>9, <1>10, <2>3
  <2>5. QED
    BY <1>8, <2>3, <2>4
<1>14. Spent \in Nat /\ Spent' \in Nat /\ Spent <= Spent'
  BY <1>8, <1>9, <1>10, <1>11
<1>15. QED
  BY <1>4, <1>12, <1>13, <1>14

(* What is at hand next.                                                   *)
LEMMA AtHandNext ==
  ASSUME world' = world
  PROVE  AtHand' = IF pc' \in Reading THEN SizeOf(item'.source) ELSE 0
BY DEF AtHand, SizeOf, HasData, Reading

(* The facts of the ledger, as one formula.                                *)
LEMMA AtHandIsNat == ShapeInv /\ FoundInv /\ IsFiniteSet(DOMAIN world.data) => AtHand \in Nat
BY LedgerFacts

(* A step keeps the ledger if what it charges was at hand, and what it     *)
(* takes in hand is paid for by what it is done with.                      *)
LEMMA LedgerPays ==
  ASSUME ShapeInv, FoundInv, IsFiniteSet(DOMAIN world.data), ShapeInv', FoundInv', world' = world, LedgerInv,
         BudgetInv, BudgetInv', DoneSources \subseteq DoneSources', DoneAsks \subseteq DoneAsks',
         \/ totalBytes' + AtHand' <= totalBytes + AtHand
         \/ \E s \in DoneSources' \ DoneSources : totalBytes' + AtHand' <= totalBytes + AtHand + SizeOf(s)
         \/ \E ask \in DoneAsks' \ DoneAsks : totalBytes' + AtHand' <= totalBytes + AtHand + ReadFor(ask)
  PROVE  LedgerInv'
<1>1. AtHand \in Nat /\ AtHand' \in Nat
  <2>1. (ShapeInv /\ FoundInv /\ IsFiniteSet(DOMAIN world.data) => AtHand \in Nat)'
    BY AtHandIsNat, PTL
  <2>2. QED
    BY <2>1, AtHandIsNat
<1>2. totalBytes \in Nat /\ totalBytes' \in Nat
  BY DEF BudgetInv, BytesInv
<1>3. PICK old, new, a, b : old = totalBytes + AtHand /\ new = totalBytes' + AtHand' /\ a = Spent /\ b = Spent'
  OBVIOUS
<1>4. old \in Nat /\ new \in Nat
  <2>1. PICK t, u, n, m : t = totalBytes /\ u = totalBytes' /\ n = AtHand /\ m = AtHand'
    OBVIOUS
  <2>2. t \in Nat /\ u \in Nat /\ n \in Nat /\ m \in Nat
    BY <1>1, <1>2, <2>1
  <2>3. old = t + n /\ new = u + m
    BY <1>3, <2>1
  <2>4. QED
    BY <2>2, <2>3
<1>5. /\ a \in Nat /\ b \in Nat /\ a <= b
      /\ \A s \in DoneSources' \ DoneSources : a + SizeOf(s) <= b
      /\ \A ask \in DoneAsks' \ DoneAsks : a + ReadFor(ask) <= b
  BY <1>3, LedgerGrows
<1>6. old <= a
  BY <1>3 DEF LedgerInv
<1>7. CASE new <= old
  BY <1>3, <1>4, <1>5, <1>6, <1>7 DEF LedgerInv
<1>8. CASE \E s \in DoneSources' \ DoneSources : new <= old + SizeOf(s)
  <2>1. PICK s \in DoneSources' \ DoneSources : new <= old + SizeOf(s)
    BY <1>8
  <2>2. SizeOf(s) \in Nat
    <3>1. s \in world.explicit
      BY <2>1 DEF DoneSources
    <3>2. QED
      BY <3>1, LedgerFacts
  <2>3. PICK n : n = SizeOf(s)
    OBVIOUS
  <2>4. n \in Nat /\ new <= old + n /\ a + n <= b
    BY <1>5, <2>1, <2>2, <2>3
  <2>5. new <= b
    BY <1>4, <1>5, <1>6, <2>4
  <2>6. QED
    BY <1>3, <2>5 DEF LedgerInv
<1>9. CASE \E ask \in DoneAsks' \ DoneAsks : new <= old + ReadFor(ask)
  <2>1. PICK ask \in DoneAsks' \ DoneAsks : new <= old + ReadFor(ask)
    BY <1>9
  <2>2. ReadFor(ask) \in Nat
    <3>1. (ShapeInv /\ FoundInv => AskedNow \subseteq Asked(All))'
      BY AskedIsFound, PTL
    <3>2. ask \in Asked(All)'
      BY <2>1, <3>1 DEF DoneAsks
    <3>3. ask \in Asked(All)
      BY <3>2, SameWorld
    <3>4. QED
      BY <3>3, LedgerFacts
  <2>3. PICK n : n = ReadFor(ask)
    OBVIOUS
  <2>4. n \in Nat /\ new <= old + n /\ a + n <= b
    BY <1>5, <2>1, <2>2, <2>3
  <2>5. new <= b
    BY <1>4, <1>5, <1>6, <2>4
  <2>6. QED
    BY <1>3, <2>5 DEF LedgerInv
<1>10. QED
  BY <1>3, <1>7, <1>8, <1>9

(* Requests that are closed stay closed.                                   *)
LEMMA DoneGrows ==
  ASSUME world' = world, AskedNow \subseteq AskedNow',
         \A s \in world.explicit : Open(Request(s, NoRef, FALSE))' => Open(Request(s, NoRef, FALSE)),
         \A s, key, i : <<s, docs[KeyOf(s)].content, i>> \in AskedNow /\ key = KeyOf(s) /\
           Open(Request(s, <<key, i>>, TRUE))' => Open(Request(s, <<key, i>>, TRUE))
  PROVE  DoneSources \subseteq DoneSources' /\ DoneAsks \subseteq DoneAsks'
<1>1. DoneSources \subseteq DoneSources'
  BY DEF DoneSources
<1>2. ASSUME NEW ask \in DoneAsks
      PROVE  ask \in DoneAsks'
  <2>1. ask \in AskedNow /\ ~Open(Request(ask[1], <<KeyOf(ask[1]), ask[3]>>, TRUE))
    BY <1>2 DEF DoneAsks
  <2>2. PICK s, i : ask = <<s, docs[KeyOf(s)].content, i>>
    BY <2>1 DEF AskedNow, Asks
  <2>3. PICK key : key = KeyOf(s)
    OBVIOUS
  <2>4. ask[1] = s /\ ask[3] = i
    BY <2>2
  <2>5. ~Open(Request(s, <<key, i>>, TRUE))
    BY <2>1, <2>3, <2>4
  <2>6. ~Open(Request(s, <<key, i>>, TRUE))'
    BY <2>1, <2>2, <2>3, <2>5
  <2>7. ~Open(Request(ask[1], <<KeyOf(ask[1]), ask[3]>>, TRUE))'
    BY <2>3, <2>4, <2>6 DEF KeyOf
  <2>8. QED
    BY <2>1, <2>7 DEF DoneAsks
<1>3. QED
  BY <1>1, <1>2

(* As long as no request is added and none is taken, ...                   *)
LEMMA StillDone ==
  ASSUME UNCHANGED <<world, docs, queue>>, pc' # "resolve" \/ UNCHANGED <<pc, item>>
  PROVE  DoneSources \subseteq DoneSources' /\ DoneAsks \subseteq DoneAsks' /\ AskedNow' = AskedNow
<1>1. \A r : Open(r)' => Open(r)
  BY DEF Open
<1>2. AskedNow' = AskedNow
  BY DEF AskedNow, Registered, Asks, KeyOf
<1>3. QED
  BY <1>1, <1>2, DoneGrows

(* ... and nothing is taken in hand, nothing is to be paid for.            *)
LEMMA QuietLedger ==
  ASSUME ShapeInv, FoundInv, IsFiniteSet(DOMAIN world.data), ShapeInv', FoundInv', LedgerInv, BudgetInv, BudgetInv',
         UNCHANGED <<world, docs, queue, totalBytes>>, pc' # "resolve" \/ UNCHANGED <<pc, item>>,
         pc' \in Reading => pc \in Reading /\ item' = item
  PROVE  LedgerInv'
<1>1. PICK t, n : t = totalBytes /\ n = AtHand
  OBVIOUS
<1>2. t \in Nat /\ n \in Nat
  BY <1>1, LedgerFacts DEF BudgetInv, BytesInv
<1>3. AtHand' = n \/ AtHand' = 0
  BY <1>1, AtHandNext DEF AtHand
<1>4. totalBytes' = t
  BY <1>1
<1>5. totalBytes' + AtHand' <= t + n
  BY <1>2, <1>3, <1>4
<1>6. QED
  BY <1>1, <1>5, StillDone, LedgerPays

(* An explicit source is taken once.                                       *)
LEMMA TakeLedger ==
  ASSUME GraphInv, FoundInv, IsFiniteSet(DOMAIN world.data), GraphInv', FoundInv', LedgerInv, BudgetInv, BudgetInv',
         OnceInv, Take
  PROVE  LedgerInv'
<1>1. /\ world' = world /\ docs' = docs /\ totalBytes' = totalBytes /\ pc = "take" /\ pc' \in {"open", "resolve"}
      /\ queue # <<>> /\ queue \in Seq(Range(queue)) /\ item' = Head(queue) /\ queue' = Tail(queue)
      /\ (pc' = "open" => item'.source \in world.explicit /\ item' = Request(item'.source, NoRef, FALSE))
  BY Taking DEF graph, budget
<1>2. ShapeInv /\ ShapeInv'
  BY DEF GraphInv
<1>3. Head(queue) \in Range(queue) /\ Range(queue) = {Head(queue)} \union Range(queue') /\ Head(queue) \notin Range(queue')
  BY <1>1, HeadAndTail, TakenOnce DEF OnceInv
<1>4. \A r : Open(r)' => Open(r)
  <2>1. \A r : Open(r)' => r \in Range(queue') \/ r = item'
    BY DEF Open, Range
  <2>2. QED
    BY <1>1, <1>3, <2>1 DEF Open
<1>5. AskedNow' = AskedNow
  BY <1>1 DEF AskedNow, Registered, Asks, KeyOf
<1>6. DoneSources \subseteq DoneSources' /\ DoneAsks \subseteq DoneAsks'
  BY <1>1, <1>4, <1>5, DoneGrows
<1>7. PICK t : t = totalBytes
  OBVIOUS
<1>8. t \in Nat /\ totalBytes' = t
  BY <1>1, <1>7 DEF BudgetInv, BytesInv
<1>9. AtHand = 0
  BY <1>1 DEF AtHand, Reading
<1>10. CASE pc' = "resolve"
  <2>1. AtHand' = 0
    BY <1>1, <1>10, AtHandNext DEF Reading
  <2>2. totalBytes' + AtHand' <= totalBytes + AtHand
    BY <1>7, <1>8, <1>9, <2>1
  <2>3. QED
    BY <1>1, <1>2, <1>6, <2>2, LedgerPays
<1>11. CASE pc' = "open"
  <2>1. PICK s : s = item'.source
    OBVIOUS
  <2>2. s \in world.explicit /\ item' = Request(s, NoRef, FALSE)
    BY <1>1, <1>11, <2>1
  <2>3. Open(Request(s, NoRef, FALSE))
    BY <1>1, <1>3, <2>2 DEF Open
  <2>4. ~Open(Request(s, NoRef, FALSE))'
    <3>1. Request(s, NoRef, FALSE) \notin Range(queue')
      BY <1>1, <1>3, <2>2
    <3>2. QED
      BY <1>11, <3>1 DEF Open, Range
  <2>5. s \in DoneSources' \ DoneSources
    BY <1>1, <2>2, <2>3, <2>4 DEF DoneSources
  <2>6. AtHand' = SizeOf(s)
    BY <1>1, <1>11, <2>1, AtHandNext DEF Reading
  <2>7. PICK n : n = SizeOf(s)
    OBVIOUS
  <2>8. n \in Nat
    BY <1>2, <2>2, <2>7, LedgerFacts
  <2>9. totalBytes' + AtHand' <= totalBytes + AtHand + SizeOf(s)
    BY <1>7, <1>8, <1>9, <2>6, <2>7, <2>8
  <2>10. QED
    BY <1>1, <1>2, <1>6, <2>5, <2>9, LedgerPays
<1>12. QED
  BY <1>1, <1>10, <1>11

(* A reference that was resolved to a source pays for reading it.          *)
LEMMA ResolveLedger ==
  ASSUME GraphInv, FoundInv, IsFiniteSet(DOMAIN world.data), GraphInv', FoundInv', LedgerInv, BudgetInv, BudgetInv',
         OnceInv, NEW s, NEW ref, Resolves(s, ref)
  PROVE  LedgerInv'
<1>1. /\ world' = world /\ docs' = docs /\ totalBytes' = totalBytes /\ queue' = queue
      /\ pc = "resolve" /\ ref \in Calls /\ s \in SourcesFor(ref) /\ item = Request(s, ref, TRUE)
      /\ \/ pc' = "take"
         \/ /\ AnswerTo(s, ref).kind = "source" /\ pc' = "open"
            /\ item' = Request(AnswerTo(s, ref).source, ref, FALSE)
  BY DEF Resolves
<1>2. ShapeInv /\ ShapeInv'
  BY DEF GraphInv
<1>3. CASE pc' = "take"
  BY <1>1, <1>2, <1>3, QuietLedger DEF Reading
<1>4. CASE /\ AnswerTo(s, ref).kind = "source" /\ pc' = "open"
           /\ item' = Request(AnswerTo(s, ref).source, ref, FALSE)
  <2>1. DoneSources \subseteq DoneSources' /\ DoneAsks \subseteq DoneAsks' /\ AskedNow' = AskedNow
    BY <1>1, <1>4, StillDone
  <2>2. PICK key, i, d : key = ref[1] /\ i = ref[2] /\ d = docs[key].content
    OBVIOUS
  <2>3. ref = <<key, i>> /\ i \in DOMAIN d.refs /\ KeyOf(s) = key /\ s \in Registered
    BY <1>1, <1>2, <2>2, CallFacts DEF Calls
  <2>4. PICK ask : ask = <<s, d, i>>
    OBVIOUS
  <2>5. ask \in AskedNow /\ ask[1] = s /\ ask[2] = d /\ ask[3] = i
    BY <2>2, <2>3, <2>4 DEF AskedNow, Asks
  <2>6. item = Request(ask[1], <<KeyOf(ask[1]), ask[3]>>, TRUE)
    BY <1>1, <2>3, <2>5
  <2>7. ask \notin DoneAsks
    BY <1>1, <2>6 DEF DoneAsks, Open
  <2>8. ask \in DoneAsks'
    <3>1. item \notin Range(queue)
      BY <1>1 DEF OnceInv
    <3>2. Request(ask[1], <<KeyOf(ask[1]), ask[3]>>, TRUE) \notin Range(queue')
      BY <1>1, <2>6, <3>1
    <3>3. ~Open(Request(ask[1], <<KeyOf(ask[1]), ask[3]>>, TRUE))'
      BY <1>4, <3>2 DEF Open, Range
    <3>4. QED
      BY <2>1, <2>5, <3>3 DEF DoneAsks
  <2>9. ReadFor(ask) = SizeOf(AnswerTo(s, ref).source)
    <3>1. d.refs[i] = RefOf(ref) /\ Located(RefOf(ref))
      BY <1>1, <2>2 DEF RefOf, Calls
    <3>2. QED
      BY <1>4, <2>5, <3>1 DEF ReadFor, AnswerTo
  <2>10. AtHand' = SizeOf(AnswerTo(s, ref).source)
    <3>1. item'.source = AnswerTo(s, ref).source
      BY <1>4 DEF Request
    <3>2. QED
      BY <1>1, <1>4, <3>1, AtHandNext DEF Reading
  <2>11. PICK t, n : t = totalBytes /\ n = ReadFor(ask)
    OBVIOUS
  <2>12. t \in Nat /\ n \in Nat
    <3>1. ask \in Asked(All)
      BY <1>2, <2>5, AskedIsFound
    <3>2. QED
      BY <1>2, <2>11, <3>1, LedgerFacts DEF BudgetInv, BytesInv
  <2>13. AtHand = 0 /\ AtHand' = n /\ totalBytes' = t
    BY <1>1, <2>9, <2>10, <2>11 DEF AtHand, Reading
  <2>14. totalBytes' + AtHand' <= totalBytes + AtHand + ReadFor(ask)
    BY <2>11, <2>12, <2>13
  <2>15. QED
    BY <1>1, <1>2, <2>1, <2>7, <2>8, <2>14, LedgerPays
<1>5. QED
  BY <1>1, <1>3, <1>4

(* What was read is charged.                                               *)
LEMMA AdmitLedger ==
  ASSUME GraphInv, FoundInv, IsFiniteSet(DOMAIN world.data), GraphInv', FoundInv', LedgerInv, BudgetInv, BudgetInv',
         GotInv, Load \/ Repeat
  PROVE  LedgerInv'
<1>1. PICK s : s = item.source
  OBVIOUS
<1>2. /\ pc = "acquired" /\ pc' = "take" /\ world' = world /\ Kept
      /\ got.error \in {"", "missing"} /\ totalBytes' = totalBytes + got.bytes
      /\ Returns \/ \E key, content : Joins(s, key, content)
  BY <1>1, Admission
<1>3. ShapeInv /\ ShapeInv' /\ QueueInv
  BY <1>2 DEF GraphInv, WorkInv, Failures
<1>4. PICK t, n, g : t = totalBytes /\ n = AtHand /\ g = got.bytes
  OBVIOUS
<1>5. t \in Nat /\ n \in Nat /\ g \in Nat
  BY <1>2, <1>3, <1>4, LedgerFacts DEF BudgetInv, BytesInv
<1>6. g <= n
  <2>1. AtHand = SizeOf(item.source)
    BY <1>2 DEF AtHand, Reading
  <2>2. g = n \/ g = 0
    BY <1>2, <1>4, <2>1 DEF GotInv
  <2>3. QED
    BY <1>5, <2>2
<1>7. AtHand' = 0
  BY <1>2, AtHandNext DEF Reading
<1>8. totalBytes' + AtHand' <= totalBytes + AtHand
  <2>1. totalBytes' = t + g /\ AtHand' = 0 /\ totalBytes = t /\ AtHand = n
    BY <1>2, <1>4, <1>7
  <2>2. PICK x, y, z, w : x = totalBytes' /\ y = AtHand' /\ z = totalBytes /\ w = AtHand
    OBVIOUS
  <2>3. x = t + g /\ y = 0 /\ z = t /\ w = n
    BY <2>1, <2>2
  <2>4. x + y <= z + w
    BY <1>5, <1>6, <2>3
  <2>5. QED
    BY <2>2, <2>4
<1>9. DoneSources \subseteq DoneSources' /\ DoneAsks \subseteq DoneAsks'
  <2>1. CASE Returns
    <3>1. \A r : Open(r)' => Open(r)
      BY <1>2, <2>1 DEF Open, Returns
    <3>2. AskedNow' = AskedNow
      BY <1>2, <1>3, <2>1, SameAsks DEF Returns
    <3>3. QED
      BY <1>2, <3>1, <3>2, DoneGrows
  <2>2. CASE \E key, content : Joins(s, key, content)
    <3>1. PICK key, content : Joins(s, key, content)
      BY <2>2
    <3>2. PICK refs : refs = content.refs
      OBVIOUS
    <3>3. refs \in Seq(References) /\ Enqueue(key, refs) /\ s \notin Registered
      BY <3>1, <3>2 DEF Joins, IsContent
    <3>4. Range(queue') = Range(queue) \union Enqueued(s, key, refs)
      BY <1>1, <1>3, <3>3, EnqueueFacts DEF QueueInv
    <3>5. \A r : Open(r)' => Open(r) \/ r \in Enqueued(s, key, refs)
      BY <1>2, <3>4 DEF Open, Range
    <3>6. \A r \in Enqueued(s, key, refs) : r.source = s /\ r.resolve = TRUE
      BY DEF Enqueued, Request
    <3>7. \A u \in world.explicit : Open(Request(u, NoRef, FALSE))' => Open(Request(u, NoRef, FALSE))
      <4>1. \A u : Request(u, NoRef, FALSE) \notin Enqueued(s, key, refs)
        <5>1. \A u : Request(u, NoRef, FALSE).resolve = FALSE
          BY DEF Request
        <5>2. QED
          BY <3>6, <5>1
      <4>2. QED
        BY <3>5, <4>1
    <3>8. \A u, k, i : <<u, docs[KeyOf(u)].content, i>> \in AskedNow /\ k = KeyOf(u) /\
            Open(Request(u, <<k, i>>, TRUE))' => Open(Request(u, <<k, i>>, TRUE))
      <4> SUFFICES ASSUME NEW u, NEW k, NEW i, <<u, docs[KeyOf(u)].content, i>> \in AskedNow,
                          Open(Request(u, <<k, i>>, TRUE))'
                   PROVE  Open(Request(u, <<k, i>>, TRUE))
        OBVIOUS
      <4>1. u \in Registered
        BY DEF AskedNow, Asks
      <4>2. u # s
        BY <3>3, <4>1
      <4>3. Request(u, <<k, i>>, TRUE).source = u
        BY DEF Request
      <4>4. Request(u, <<k, i>>, TRUE) \notin Enqueued(s, key, refs)
        BY <3>6, <4>2, <4>3
      <4>5. QED
        BY <3>5, <4>4
    <3>9. AskedNow \subseteq AskedNow'
      BY <1>2, <1>3, <3>1, JoinsAsks
    <3>10. QED
      BY <1>2, <3>7, <3>8, <3>9, DoneGrows
  <2>3. QED
    BY <1>2, <2>1, <2>2
<1>10. QED
  BY <1>2, <1>3, <1>8, <1>9, LedgerPays

(* Every step keeps the ledger.                                            *)
LEMMA LedgerStep ==
  ASSUME GraphInv, FoundInv, IsFiniteSet(DOMAIN world.data), GraphInv', FoundInv', LedgerInv, BudgetInv, BudgetInv',
         GotInv, OnceInv, [Next]_vars, pc \notin Failures, pc' \notin Failures
  PROVE  LedgerInv'
<1>1. ShapeInv /\ ShapeInv'
  BY DEF GraphInv
<1>2. CASE Calm /\ (pc' = pc \/ (pc' # "resolve" /\ (pc' \in Reading => pc \in Reading)))
  <2>1. UNCHANGED <<world, docs, queue, totalBytes, item>>
    BY <1>2 DEF Calm, graph, budget
  <2>2. QED
    BY <1>1, <1>2, <2>1, QuietLedger
<1>3. CASE Take
  BY <1>3, TakeLedger
<1>4. CASE Resolve
  <2>1. PICK s, ref : s = item.source /\ ref = item.ref
    OBVIOUS
  <2>2. Resolves(s, ref)
    BY <1>4, <2>1, Resolving
  <2>3. QED
    BY <2>2, ResolveLedger
<1>5. CASE Load \/ Repeat
  BY <1>5, AdmitLedger
<1>6. QED
  BY <1>2, <1>3, <1>4, <1>5, Moves DEF Reading, Later

-----------------------------------------------------------------------------
(* When contexts do not fit.                                               *)

(* There is no room for one more context (schemaTargetContexts.add).       *)
Overflows(list, c) ==
  Len(list) >= MaxSchemaTargetContexts \/ docs[c[1]].content.nodes > MaxSchemaInstantiatedNodes - NodesOf(list)

IsStuck(acc, S) ==
  /\ acc = [list |-> acc.list, full |-> acc.full]
  /\ Extends(acc.list, Range(acc.list)) /\ Range(acc.list) \subseteq S
  /\ acc.full = FALSE \/ (acc.full = TRUE /\ \E c \in S \ Range(acc.list) : Overflows(acc.list, c))

(* If adding ends early, a context of those to add overflows ...           *)
LEMMA AddedSticks ==
  ASSUME NEW acc, NEW S, IsStuck(acc, S), NEW c, Len(contexts) \in Nat
  PROVE  IsStuck(Added(acc, c), S \union {c})
<1>1. PICK list, full : acc = [list |-> list, full |-> full] /\ list = acc.list /\ full = acc.full
  BY DEF IsStuck
<1>2. /\ Extends(list, Range(list)) /\ Range(list) \subseteq S
      /\ full = FALSE \/ (full = TRUE /\ \E d \in S \ Range(list) : Overflows(list, d))
  BY <1>1 DEF IsStuck
<1>3. PICK added : added = Added(acc, c)
  OBVIOUS
<1>4. CASE full = TRUE
  <2>1. added = acc
    BY <1>1, <1>3, <1>4 DEF Added
  <2>2. QED
    BY <1>1, <1>2, <1>3, <1>4, <2>1 DEF IsStuck
<1>5. CASE full = FALSE
  <2>1. IsExtended(acc, Range(list))
    BY <1>1, <1>2, <1>5 DEF IsExtended
  <2>2. IsExtended(added, Range(list) \union {c})
    BY <1>3, <2>1, AddedExtends
  <2>3. CASE added.full = FALSE
    <3>1. added = [list |-> added.list, full |-> added.full] /\ Extends(added.list, Range(list) \union {c})
      BY <2>2, <2>3 DEF IsExtended
    <3>2. Range(added.list) = Range(list) \union {c}
      BY <3>1 DEF Extends
    <3>3. Range(added.list) \subseteq S \union {c} /\ Extends(added.list, Range(added.list))
      BY <1>2, <3>1, <3>2
    <3>4. QED
      BY <1>3, <2>3, <3>1, <3>3 DEF IsStuck
  <2>4. CASE added.full = TRUE
    <3>1. added # acc
      BY <1>1, <1>5, <2>4
    <3>2. added = [acc EXCEPT !.full = TRUE] /\ c \notin Range(list) /\ Overflows(list, c)
      <4>1. \/ added = acc
            \/ added = [acc EXCEPT !.full = TRUE] /\ c \notin Range(list) /\ Overflows(list, c)
            \/ added = [acc EXCEPT !.list = Append(@, c)]
        BY <1>1, <1>3 DEF Added, Overflows
      <4>2. added = [acc EXCEPT !.list = Append(@, c)] => added.full = full
        BY <1>1
      <4>3. QED
        BY <1>5, <2>4, <3>1, <4>1, <4>2
    <3>3. added = [list |-> list, full |-> TRUE]
      BY <1>1, <3>2
    <3>4. added.list = list /\ added.full = TRUE
      BY <3>3
    <3>5. c \in (S \union {c}) \ Range(list)
      BY <3>2
    <3>6. QED
      BY <1>2, <1>3, <3>2, <3>3, <3>4, <3>5 DEF IsStuck
  <2>5. QED
    BY <2>2, <2>3, <2>4 DEF IsExtended
<1>6. QED
  BY <1>2, <1>4, <1>5

(* ... a list of those before.                                             *)
LEMMA AllStick ==
  ASSUME ShapeInv, Within(contexts), Distinct(contexts), NEW more, NEW n \in Nat, DOMAIN more = 1..n,
         \A i \in 1..n : more[i][1] \in DOMAIN docs, AddAll(more).full,
         NEW T, Range(contexts) \subseteq T, \A i \in 1..n : more[i] \in T
  PROVE  \E list : /\ Within(list) /\ Distinct(list) /\ Range(list) \subseteq T
                   /\ \E c \in T \ Range(list) : Overflows(list, c)
<1>1. PICK f : /\ f[0] = [list |-> contexts, full |-> FALSE] /\ f[n] = AddAll(more)
               /\ \A k \in 0..n - 1 : f[k + 1] = Added(f[k], more[k + 1])
  <2>1. \E f : /\ f[0] = [list |-> contexts, full |-> FALSE] /\ f[n] = Adding!Fold([list |-> contexts, full |-> FALSE], more)
               /\ \A k \in 0..n - 1 : f[k + 1] = Added(f[k], more[k + 1])
    BY ONLY DOMAIN more = 1..n, n \in Nat, Adding!FoldSteps DEF Adding!Folds
  <2>2. AddAll(more) = Adding!Fold([list |-> contexts, full |-> FALSE], more)
    BY AddsFold
  <2>3. QED
    BY ONLY <2>1, <2>2
<1> DEFINE N == {k \in Nat : k <= n => IsStuck(f[k], T)}
<1>2. contexts \in Seq(Range(contexts)) /\ Len(contexts) \in Nat
  BY LenProperties DEF Within
<1>3. 0 \in N
  <2>1. f[0].list = contexts /\ f[0].full = FALSE
    BY <1>1
  <2>2. Extends(contexts, Range(contexts))
    BY <1>2 DEF Extends
  <2>3. QED
    BY <1>1, <2>1, <2>2 DEF IsStuck
<1>4. ASSUME NEW k \in Nat, k \in N
      PROVE  k + 1 \in N
  <2> SUFFICES ASSUME k + 1 <= n
               PROVE  IsStuck(f[k + 1], T)
    OBVIOUS
  <2>1. IsStuck(f[k], T) /\ k \in 0..n - 1 /\ k + 1 \in 1..n
    BY <1>4
  <2>2. IsStuck(Added(f[k], more[k + 1]), T \union {more[k + 1]})
    BY <1>2, <2>1, AddedSticks
  <2>3. T \union {more[k + 1]} = T
    BY <2>1
  <2>4. QED
    BY <1>1, <2>1, <2>2, <2>3
<1> HIDE DEF N
<1>5. n \in N
  BY <1>3, <1>4, Induct!NatInduct
<1>6. PICK acc : acc = AddAll(more)
  OBVIOUS
<1>7. IsStuck(acc, T)
  BY <1>1, <1>5, <1>6 DEF N
<1>8. Distinct(acc.list) /\ Range(acc.list) \subseteq T /\ \E c \in T \ Range(acc.list) : Overflows(acc.list, c)
  BY <1>6, <1>7 DEF IsStuck, Extends
<1>9. Within(acc.list)
  BY <1>6, AllWithin
<1>10. QED
  BY <1>8, <1>9

(* There are finitely many contexts: a document and a declared namespace.  *)
LEMMA FiniteExpected ==
  ASSUME ShapeInv
  PROVE  IsFiniteSet(ExpectedContexts)
<1>1. PICK D, f : D = DOMAIN docs /\ f = [key \in D |-> Declared(key)]
  OBVIOUS
<1>2. f = [key \in D |-> f[key]] /\ \A key \in D : f[key] = Declared(key)
  BY <1>1
<1>3. IsFiniteSet(D)
  BY <1>1 DEF ShapeInv, DocsInv
<1>4. PICK T : T = {f[key] : key \in D}
  OBVIOUS
<1>5. IsFiniteSet(T)
  BY <1>2, <1>3, <1>4, FiniteValues
<1>6. IsFiniteSet(D \X T)
  BY <1>3, <1>5, FS_Product
<1>7. RootContexts \subseteq D \X T
  BY <1>1, <1>2, <1>4 DEF RootContexts
<1>8. Closed(D \X T)
  <2> SUFFICES ASSUME NEW c \in D \X T, NEW d \in AdoptedBy(c)
               PROVE  d \in D \X T
    BY DEF Closed
  <2>1. PICK ref \in Includes(c[1]) : d = <<bound[ref], c[2]>>
    BY DEF AdoptedBy
  <2>2. bound[ref] \in D
    BY <1>1 DEF Includes, Edges, Loaded
  <2>3. QED
    BY <2>1, <2>2
<1>9. ExpectedContexts \in SUBSET (D \X T)
  BY <1>7, <1>8, ExpectedIsLeast
<1>10. QED
  BY <1>6, <1>9, FS_Subset

(* A list of expected contexts that leaves no room for another one shows   *)
(* that they exceed a limit.                                               *)
LEMMA ExpectedOverflow ==
  ASSUME ShapeInv, NEW list, Within(list), Distinct(list), Range(list) \subseteq ExpectedContexts,
         NEW c \in ExpectedContexts, c \notin Range(list), Overflows(list, c)
  PROVE  OverLimits(All)
<1>1. PICK E, g, R, n : E = ExpectedContexts /\ g = [d \in E |-> docs[d[1]].content.nodes] /\ R = Range(list) /\ n = Len(list)
  OBVIOUS
<1>2. IsFiniteSet(E) /\ R \in SUBSET E
  BY <1>1, FiniteExpected
<1>3. n \in Nat /\ DOMAIN list = 1..n /\ NodesOf(list) \in Nat
  BY <1>1, LenProperties DEF Within
<1>4. Enumerates(list, n, R)
  <2>1. list \in [1..n -> R]
    <3>1. list \in Seq(R)
      BY <1>1 DEF Within
    <3>2. QED
      BY <1>1, <1>3, <3>1
  <2>2. \A x \in R : \E i \in 1..n : list[i] = x
    BY <1>1, <1>3 DEF Range
  <2>3. \A i, j \in 1..n : list[i] = list[j] => i = j
    BY <1>3 DEF Distinct
  <2>4. QED
    BY <2>1, <2>2, <2>3 DEF Enumerates
<1>5. \A d \in E : g[d] = docs[d[1]].content.nodes /\ g[d] \in Nat
  <2>1. \A d \in E : d[1] \in DOMAIN docs
    BY <1>1, ExpectedIsClosed DEF IsContext
  <2>2. \A d \in E : docs[d[1]].content.nodes \in Nat
    BY <2>1, ContentFacts DEF IsContent
  <2>3. QED
    BY <1>1, <2>2
<1>6. CASE Len(list) >= MaxSchemaTargetContexts
  <2>1. IsFiniteSet(R) /\ Cardinality(R) = n
    <3>1. list \in Surjection(1..n, R)
      BY ONLY <1>4 DEF Enumerates, Surjection
    <3>2. list \in Injection(1..n, R)
      BY ONLY <1>4 DEF Enumerates, Injection, IsInjective
    <3>3. IsFiniteSet(1..n) /\ Cardinality(1..n) = (IF 1 > n THEN 0 ELSE n - 1 + 1)
      BY <1>3, FS_Interval
    <3>4. Cardinality(1..n) = n
      BY <1>3, <3>3
    <3>5. QED
      BY <3>1, <3>2, <3>3, <3>4, FS_Surjection
  <2>2. Cardinality(R \union {c}) = n + 1
    <3>1. Cardinality(R \union {c}) = IF c \in R THEN Cardinality(R) ELSE Cardinality(R) + 1
      BY <2>1, FS_AddElement
    <3>2. QED
      BY <1>1, <2>1, <3>1
  <2>3. R \union {c} \in SUBSET E
    BY <1>1, <1>2
  <2>4. Cardinality(R \union {c}) <= Cardinality(E) /\ Cardinality(E) \in Nat
    BY <1>2, <2>3, FS_Subset, FS_CardinalityType
  <2>5. PICK k : k = Cardinality(E)
    OBVIOUS
  <2>6. k \in Nat /\ n + 1 <= k /\ n >= MaxSchemaTargetContexts
    BY <1>1, <1>6, <2>2, <2>4, <2>5
  <2>7. k > MaxSchemaTargetContexts
    BY <1>3, <2>6, LimitAssumption
  <2>8. QED
    BY <1>1, <2>5, <2>7 DEF OverLimits
<1>7. CASE docs[c[1]].content.nodes > MaxSchemaInstantiatedNodes - NodesOf(list)
  <2>1. NodesOf(list) = SumOver(g, R)
    <3>1. IsFiniteSet(R) /\ \A x \in R : g[x] \in Nat
      BY <1>2, <1>5, FS_Subset
    <3>2. \A i \in 1..n : list[i] \in R
      BY <1>1, <1>3 DEF Range
    <3>3. \A i \in 1..n : docs[list[i][1]].content.nodes = g[list[i]]
      BY <1>2, <1>5, <3>2
    <3>4. QED
      BY <1>3, <1>4, <3>1, <3>3, NodesInARow
  <2>2. SumOver(g, R) + g[c] <= SumOver(g, E)
    BY <1>1, <1>2, <1>5, SumGrowsBy
  <2>3. SumFunction(g) = SumOver(g, E)
    <3>1. DOMAIN g = E
      BY <1>1
    <3>2. QED
      BY <3>1, SumIs
  <2>4. SumOver(g, E) \in Nat
    BY <1>2, <1>5, SumIsNat
  <2>5. PICK a, b, m : a = SumOver(g, R) /\ b = SumOver(g, E) /\ m = g[c]
    BY Zenon
  <2>6. a \in Nat /\ b \in Nat /\ m \in Nat /\ a + m <= b /\ m > MaxSchemaInstantiatedNodes - a
    BY <1>1, <1>3, <1>5, <1>7, <2>1, <2>2, <2>4, <2>5
  <2>7. b > MaxSchemaInstantiatedNodes
    BY ONLY <2>6, LimitAssumption
  <2>8. SumFunction(g) > MaxSchemaInstantiatedNodes
    BY <2>3, <2>5, <2>7
  <2>9. QED
    BY <1>1, <2>8 DEF OverLimits
<1>8. QED
  BY <1>6, <1>7 DEF Overflows

(* Adding contexts that are expected is only stopped by that.              *)
LEMMA AddingIsJustified ==
  ASSUME ShapeInv, Within(contexts), Distinct(contexts), NEW more, NEW n \in Nat, DOMAIN more = 1..n,
         Range(contexts) \subseteq ExpectedContexts, \A i \in 1..n : more[i] \in ExpectedContexts,
         NEW label \in {"propagate", "loaded"}, NEW following, AddOrStop(more, label, following), pc' = "limit"
  PROVE  OverLimits(All)
<1>1. AddAll(more).full
  BY DEF AddOrStop, Goto
<1>2. \A i \in 1..n : more[i][1] \in DOMAIN docs
  BY ExpectedIsClosed DEF IsContext
<1>3. PICK list : /\ Within(list) /\ Distinct(list) /\ Range(list) \subseteq ExpectedContexts
                  /\ \E c \in ExpectedContexts \ Range(list) : Overflows(list, c)
  BY <1>1, <1>2, AllStick
<1>4. QED
  BY <1>3, ExpectedOverflow

(* Without references each document is a context.                          *)
LEMMA AloneIsJustified ==
  ASSUME GraphInv, RootInv, ReachInv, SeedAlone, pc' = "limit"
  PROVE  OverLimits(All)
<1>1. pc = "seed" /\ Edges = {} /\ Cardinality(DOMAIN docs) > MaxSchemaTargetContexts
  BY DEF SeedAlone, Running, Goto
<1>2. ShapeInv /\ pc \in Later
  BY <1>1 DEF GraphInv, Later
<1>3. \A key \in DOMAIN docs : Root(key)
  <2>1. PICK X : X = {key \in DOMAIN docs : docs[key].explicitRoot}
    OBVIOUS
  <2>2. X \in SUBSET DOMAIN docs /\ Rooted(X) /\ Follows(X)
    BY <1>1, <2>1 DEF Rooted, Follows
  <2>3. X = DOMAIN docs
    BY <2>2 DEF ReachInv
  <2>4. QED
    BY <1>2, <2>1, <2>3, RootsAreFound DEF IsRoot
<1>4. PICK E, D, f : E = ExpectedContexts /\ D = DOMAIN docs /\ f = [c \in E |-> c[1]]
  OBVIOUS
<1>5. IsFiniteSet(E) /\ f = [c \in E |-> f[c]] /\ \A c \in E : f[c] = c[1]
  BY <1>2, <1>4, FiniteExpected
<1>6. D \in SUBSET {f[c] : c \in E}
  <2> SUFFICES ASSUME NEW key \in D
               PROVE  \E c \in E : f[c] = key
    OBVIOUS
  <2>1. <<key, Declared(key)>> \in E
    BY <1>2, <1>3, <1>4, ExpectedIsClosed DEF RootContexts
  <2>2. QED
    BY <1>5, <2>1
<1>7. PICK V : V = {f[c] : c \in E}
  OBVIOUS
<1>8. IsFiniteSet(V) /\ Cardinality(V) <= Cardinality(E)
  BY <1>5, <1>7, FiniteValues
<1>9. Cardinality(D) <= Cardinality(V) /\ Cardinality(V) \in Nat /\ IsFiniteSet(D)
  BY <1>6, <1>7, <1>8, FS_Subset, FS_CardinalityType
<1>10. PICK a, b, c : a = Cardinality(D) /\ b = Cardinality(V) /\ c = Cardinality(E)
  OBVIOUS
<1>11. a \in Nat /\ b \in Nat /\ c \in Nat /\ a <= b /\ b <= c /\ a > MaxSchemaTargetContexts
  BY <1>1, <1>4, <1>5, <1>8, <1>9, <1>10, FS_CardinalityType
<1>12. c > MaxSchemaTargetContexts
  BY ONLY <1>11, LimitAssumption
<1>13. QED
  BY <1>4, <1>10, <1>12 DEF OverLimits

(* Contexts are only refused if all there are exceed a limit.              *)
LEMMA ContextsAreJustified ==
  ASSUME GraphInv, RootInv, ReachInv, BudgetInv, TargetInv, Seed \/ Propagate \/ Fallback \/ SeedAlone, pc' = "limit"
  PROVE  OverLimits(All)
<1>1. ShapeInv /\ Within(contexts)
  BY DEF GraphInv, BudgetInv, ContextsInv
<1>2. CASE SeedAlone
  BY <1>2, AloneIsJustified
<1>3. CASE Seed
  <2>1. pc = "seed" /\ AddOrStop(OwnContexts({key \in DOMAIN docs : IsRoot(key)}), "propagate", next)
    BY <1>3 DEF Seed, Running
  <2>2. contexts = <<>> /\ pc \in Later
    BY <2>1 DEF BudgetInv, ContextsInv, Whole, Failures, Later
  <2>3. PICK keys, more : keys = {key \in DOMAIN docs : IsRoot(key)} /\ more = OwnContexts(keys)
    OBVIOUS
  <2>4. keys \in SUBSET DOMAIN docs /\ keys = {key \in DOMAIN docs : Root(key)}
    BY <2>2, <2>3, RootsAreFound
  <2>5. Range(more) = RootContexts
    BY <1>1, <2>3, <2>4, OwnRange DEF RootContexts
  <2>6. PICK n \in Nat : n = Cardinality(keys) /\ DOMAIN more = 1..n
    BY <1>1, <2>3, <2>4, OwnFacts
  <2>7. \A i \in 1..n : more[i] \in ExpectedContexts
    BY <1>1, <2>5, <2>6, ExpectedIsClosed DEF Range
  <2>8. Distinct(contexts) /\ Range(contexts) \subseteq ExpectedContexts
    BY <2>2 DEF Distinct, Range
  <2>9. AddOrStop(more, "propagate", next)
    BY <2>1, <2>3
  <2>10. QED
    BY <1>1, <2>6, <2>7, <2>8, <2>9, AddingIsJustified
<1>4. CASE Propagate
  <2>1. /\ pc = "propagate" /\ next <= Len(contexts)
        /\ AddOrStop(Adopted(contexts[next]), "propagate", next + 1)
    BY <1>4 DEF Propagate, Running
  <2>2. /\ Distinct(contexts) /\ next \in 1..Len(contexts) + 1 /\ Range(contexts) \subseteq ExpectedContexts
    BY <2>1 DEF TargetInv
  <2>3. PICK m : m = Len(contexts)
    OBVIOUS
  <2>4. m \in Nat /\ DOMAIN contexts = 1..m
    BY <1>1, <2>3, LenProperties DEF Within
  <2>5. next \in 1..m
    BY <2>1, <2>2, <2>3, <2>4
  <2>6. PICK c, more : c = contexts[next] /\ more = Adopted(c)
    OBVIOUS
  <2>7. c \in ExpectedContexts
    BY <2>2, <2>4, <2>5, <2>6 DEF Range
  <2>8. PICK n \in Nat : DOMAIN more = 1..n
    BY <1>1, <2>6, AdoptedFacts
  <2>9. \A i \in 1..n : more[i] \in ExpectedContexts
    <3>1. Range(more) = AdoptedBy(c)
      BY <1>1, <2>6, AdoptedFacts
    <3>2. AdoptedBy(c) \subseteq ExpectedContexts
      BY <1>1, <2>7, ExpectedIsClosed DEF Closed
    <3>3. QED
      BY <2>8, <3>1, <3>2 DEF Range
  <2>10. PICK following : AddOrStop(more, "propagate", following)
    BY <2>1, <2>6
  <2>11. QED
    BY <1>1, <2>2, <2>8, <2>9, <2>10, AddingIsJustified
<1>5. CASE Fallback
  <2>1. PICK more, label : /\ pc = "propagate" /\ next > Len(contexts)
                           /\ more = [i \in DOMAIN InOrder(Unreached) |-> <<InOrder(Unreached)[i], "">>]
                           /\ label \in {"propagate", "loaded"}
                           /\ AddOrStop(more, label, next)
    BY <1>5 DEF Fallback, Running
  <2>2. /\ Distinct(contexts) /\ next \in 1..Len(contexts) + 1
        /\ RootContexts \subseteq Range(contexts) /\ Range(contexts) \subseteq ExpectedContexts
        /\ \A i \in DOMAIN contexts : i < next => AdoptedBy(contexts[i]) \subseteq Range(contexts)
    BY <2>1 DEF TargetInv
  <2>3. PICK m : m = Len(contexts)
    OBVIOUS
  <2>4. m \in Nat /\ DOMAIN contexts = 1..m
    BY <1>1, <2>3, LenProperties DEF Within
  <2>5. \A i \in 1..m : AdoptedBy(contexts[i]) \subseteq Range(contexts)
    <3>1. next > m /\ next \in 1..m + 1
      BY <2>1, <2>2, <2>3
    <3>2. \A i \in 1..m : i < next
      BY <2>4, <3>1
    <3>3. QED
      BY <2>2, <2>4, <3>2
  <2>6. Closed(Range(contexts)) /\ pc \in Later
    BY <2>1, <2>4, <2>5 DEF Closed, Range, Later
  <2>7. Unreached = {}
    BY <2>2, <2>6, AllAreReached DEF Unreached
  <2>8. DOMAIN more = 1..0
    <3>1. DOMAIN InOrder(Unreached) = 1..Cardinality(Unreached)
      BY <1>1, InOrderFacts DEF Unreached
    <3>2. Cardinality(Unreached) = 0
      BY <2>7, FS_EmptySet
    <3>3. QED
      BY <2>1, <3>1, <3>2
  <2>9. QED
    BY <1>1, <2>1, <2>2, <2>8, AddingIsJustified
<1>6. QED
  BY <1>2, <1>3, <1>4, <1>5

-----------------------------------------------------------------------------
(* Limits that stop the loading.                                           *)

(* A source that is not let in makes too many of them.                     *)
LEMMA AdmissionIsJustified ==
  ASSUME GraphInv, BudgetInv, FoundInv, IsFiniteSet(DOMAIN world.data), Resolve, pc' = "limit"
  PROVE  OverLimits(All)
<1>1. PICK s, ref : s = item.source /\ ref = item.ref
  OBVIOUS
<1>2. pc = "resolve"
  BY DEF Resolve, ResolveFails, ResolveNothing, ResolveIdentity, ResolveSource, Running
<1>3. ShapeInv /\ WorkInv
  BY <1>2 DEF GraphInv, Failures
<1>4. ref \in Calls /\ s \in SourcesFor(ref)
  BY <1>1, <1>2, <1>3 DEF WorkInv, ItemInv, IsCall
<1>5. PICK answer : answer = AnswerTo(s, ref) /\ Answer = answer
  BY <1>1 DEF Answer, AnswerTo
<1>6. PICK key : key = KeyOf(answer.source)
  OBVIOUS
<1>7. answer.kind = "source" /\ ~Admitted(key)
  BY <1>5, <1>6 DEF Resolve, ResolveFails, ResolveNothing, ResolveIdentity, ResolveSource, Stop, Goto, KeyOf
<1>8. key \in AdmittedBy(All)
  <2>1. answer.source \in Reached(All)
    BY <1>3, <1>4, <1>5, <1>7, AnswerIsFound DEF FoundInv
  <2>2. QED
    BY <1>6, <2>1 DEF AdmittedBy, KeyOf
<1>9. PICK R, A : R = resolved /\ A = AdmittedBy(All)
  OBVIOUS
<1>10. IsFiniteSet(A) /\ IsFiniteSet(R) /\ R \union {key} \in SUBSET A /\ key \notin R
  BY <1>3, <1>7, <1>8, <1>9, CostsAreFinite DEF ShapeInv, FoundInv, Admitted, BudgetInv, ResolvedInv
<1>11. Cardinality(R \union {key}) = Cardinality(R) + 1
  <2>1. Cardinality(R \union {key}) = IF key \in R THEN Cardinality(R) ELSE Cardinality(R) + 1
    BY <1>10, FS_AddElement
  <2>2. QED
    BY <1>10, <2>1
<1>12. Cardinality(R \union {key}) <= Cardinality(A)
  BY <1>10, FS_Subset
<1>13. PICK e, a, r : e = Cardinality(world.explicit) /\ a = Cardinality(A) /\ r = Cardinality(R)
  OBVIOUS
<1>14. IsFiniteSet(world.explicit) /\ Cardinality(world.explicit) <= MaxSchemaSources
  BY <1>3 DEF ShapeInv, IsWorld
<1>15. e \in Nat /\ a \in Nat /\ r \in Nat
  BY <1>10, <1>13, <1>14, FS_CardinalityType
<1>16. r + 1 <= a /\ ~(r < MaxSchemaSources - e)
  BY <1>7, <1>9, <1>11, <1>12, <1>13 DEF Admitted
<1>17. e + a > MaxSchemaSources
  BY ONLY <1>15, <1>16, LimitAssumption
<1>18. QED
  BY <1>9, <1>13, <1>17 DEF OverLimits

(* A source that is too long exceeds its own limit, or all that is read    *)
(* together exceeds the total.                                             *)
LEMMA BytesAreJustified ==
  ASSUME GraphInv, BudgetInv, FoundInv, GotInv, LedgerInv, IsFiniteSet(DOMAIN world.data), AcquireFails, pc' = "limit"
  PROVE  OverLimits(All)
<1>1. pc = "acquired" /\ (got.bytes > Remaining \/ got.error = "limit")
  BY DEF AcquireFails, Running, Stop, Goto
<1>2. SizeOf(item.source) > ReadLimit
  BY <1>1 DEF GotInv
<1>3. ShapeInv /\ IsWorld(world)
  BY DEF GraphInv, ShapeInv
<1>4. PICK s, n : s = item.source /\ n = SizeOf(s)
  OBVIOUS
<1>5. s \in All
  BY <1>1, <1>4 DEF FoundInv, Reading
<1>6. n \in Nat
  BY <1>3, <1>4, <1>5, AllFacts, CostsAreFinite
<1>7. CASE ReadLimit = MaxSchemaSourceBytes
  BY <1>2, <1>4, <1>5, <1>7 DEF OverLimits
<1>8. CASE ReadLimit = Remaining
  <2>1. PICK t, r : t = totalBytes /\ r = Remaining
    OBVIOUS
  <2>2. t \in Nat /\ r \in Nat /\ t + r = MaxSchemaTotalBytes
    BY <2>1, Left DEF BudgetInv, BytesInv
  <2>3. n > r
    BY <1>2, <1>4, <1>8, <2>1
  <2>4. t + n > MaxSchemaTotalBytes
    BY <1>6, <2>2, <2>3, LimitAssumption
  <2>5. PICK E, A, f, g : E = world.explicit /\ A = Asked(All) /\ f = SourceSizes /\ g = AskedSizes
    OBVIOUS
  <2>6. /\ IsFiniteSet(E) /\ (\A x \in E : f[x] \in Nat) /\ IsFiniteSet(A) /\ (\A x \in A : g[x] \in Nat)
        /\ DoneSources \in SUBSET E /\ DoneAsks \in SUBSET A
        /\ SumOver(f, DoneSources) \in Nat /\ SumOver(g, DoneAsks) \in Nat
    BY <1>3, <2>5, LedgerFacts
  <2>7. PICK a, b, c, d : a = SumOver(f, DoneSources) /\ b = SumOver(g, DoneAsks) /\ c = SumOver(f, E) /\ d = SumOver(g, A)
    BY Zenon
  <2>8. a <= c /\ b <= d
    <3>1. \A U \in SUBSET E : \A V \in SUBSET U : SumOver(f, V) <= SumOver(f, U)
      BY <2>6, SumGrows
    <3>2. \A U \in SUBSET A : \A V \in SUBSET U : SumOver(g, V) <= SumOver(g, U)
      BY <2>6, SumGrows
    <3>3. E \in SUBSET E /\ A \in SUBSET A
      OBVIOUS
    <3>4. QED
      BY <2>6, <2>7, <3>1, <3>2, <3>3
  <2>9. a \in Nat /\ b \in Nat /\ c \in Nat /\ d \in Nat
    BY <2>6, <2>7, SumIsNat
  <2>10. t + n <= a + b
    <3>1. AtHand = n
      BY <1>1, <1>4 DEF AtHand, Reading
    <3>2. Spent = a + b
      BY <2>5, <2>7 DEF Spent
    <3>3. QED
      BY <2>1, <3>1, <3>2 DEF LedgerInv
  <2>11. c + d > MaxSchemaTotalBytes
    BY ONLY <1>6, <2>2, <2>4, <2>8, <2>9, <2>10, LimitAssumption
  <2>12. SumFunction(f) = c /\ SumFunction(g) = d
    <3>1. DOMAIN f = E /\ DOMAIN g = A
      BY <2>5 DEF SourceSizes, AskedSizes
    <3>2. QED
      BY <2>7, <3>1, SumIs
  <2>13. SumFunction([x \in world.explicit |-> SizeOf(x)]) + SumFunction([ask \in Asked(All) |-> ReadFor(ask)])
           > MaxSchemaTotalBytes
    BY <2>5, <2>11, <2>12 DEF SourceSizes, AskedSizes
  <2>14. QED
    BY <2>13 DEF OverLimits
<1>9. QED
  BY <1>7, <1>8 DEF ReadLimit

(* References that are too many for what is left are too many altogether.  *)
LEMMA ReferencesAreJustified ==
  ASSUME ShapeInv, BudgetInv, FoundInv, CountInv, IsFiniteSet(DOMAIN world.data),
         NEW s \in All, s \notin Registered, NEW d \in Contents(All, Key[s.name]), TooManyReferences(d.refs)
  PROVE  OverLimits(All)
<1>1. PICK A, old, more : A = Asked(All) /\ old = AskedNow /\ more = Asks(s, d)
  OBVIOUS
<1>2. IsFiniteSet(A) /\ old \in SUBSET A /\ more \in SUBSET A
  BY <1>1, CostsAreFinite, AskedIsFound, AskedIn DEF ShapeInv
<1>3. old \cap more = {}
  <2>1. \A ask \in more : ask[1] = s
    BY <1>1 DEF Asks
  <2>2. \A ask \in old : ask[1] \in Registered
    BY <1>1 DEF AskedNow, Asks
  <2>3. QED
    BY <2>1, <2>2
<1>4. IsContent(d)
  BY AllFacts, ContentsAre DEF ShapeInv
<1>5. PICK n, k, m : n = Len(d.refs) /\ k = Cardinality(old) /\ m = Cardinality(A)
  OBVIOUS
<1>6. IsFiniteSet(more) /\ Cardinality(more) = n /\ n \in Nat
  BY <1>1, <1>4, <1>5, AsksFacts
<1>7. IsFiniteSet(old) /\ k \in Nat /\ m \in Nat
  BY <1>2, <1>5, FS_Subset, FS_CardinalityType
<1>8. Cardinality(old \union more) = k + n
  <2>1. Cardinality(old \union more) = Cardinality(old) + Cardinality(more) - Cardinality({})
    BY <1>3, <1>6, <1>7, FS_Union
  <2>2. QED
    BY <1>5, <1>6, <1>7, <2>1, FS_EmptySet
<1>9. k + n <= m
  <2>1. old \union more \in SUBSET A
    BY <1>2
  <2>2. QED
    BY <1>2, <1>5, <1>8, <2>1, FS_Subset
<1>10. references \in Nat /\ references <= k /\ n > MaxSchemaReferences - references
  BY <1>1, <1>5 DEF BudgetInv, CountsInv, CountInv, TooManyReferences
<1>11. m > MaxSchemaReferences
  BY <1>6, <1>7, <1>9, <1>10, LimitAssumption
<1>12. QED
  BY <1>1, <1>5, <1>11 DEF OverLimits

(* Nodes that are too many for what is left are too many altogether.       *)
LEMMA NodesAreJustified ==
  ASSUME ShapeInv, BudgetInv, FoundInv, NodeInv, IsFiniteSet(DOMAIN world.data),
         NEW s \in All, HasData(s), KeyOf(s) \notin DOMAIN docs,
         world.data[s].nodes > MaxSchemaInstantiatedNodes - parsedNodes
  PROVE  OverLimits(All)
<1>1. PICK D, f, old, doc : /\ D = Documents(All) /\ f = [x \in D |-> x[2].nodes]
                            /\ old = LoadedDocs /\ doc = <<KeyOf(s), world.data[s]>>
  OBVIOUS
<1>2. IsFiniteSet(D) /\ \A x \in D : f[x] \in Nat /\ f[x] = x[2].nodes
  BY <1>1, CostsAreFinite DEF ShapeInv
<1>3. old \in SUBSET D /\ doc \in D /\ doc \notin old
  <2>1. old \subseteq D
    BY <1>1, LoadedIn DEF FoundInv
  <2>2. doc \in D
    BY <1>1 DEF Documents, KeyOf
  <2>3. doc \notin old
    BY <1>1 DEF LoadedDocs
  <2>4. QED
    BY <2>1, <2>2, <2>3
<1>4. SumOver(f, old) + f[doc] <= SumOver(f, D)
  BY <1>2, <1>3, SumGrowsBy
<1>5. PICK a, b, n : a = SumOver(f, old) /\ b = SumOver(f, D) /\ n = f[doc]
  BY Zenon
<1>6. a \in Nat /\ b \in Nat /\ n \in Nat /\ n = world.data[s].nodes
  <2>1. IsFiniteSet(old) /\ \A x \in old : f[x] \in Nat
    BY <1>2, <1>3, FS_Subset
  <2>2. a \in Nat /\ b \in Nat
    BY <1>2, <1>5, <2>1, SumIsNat
  <2>3. n \in Nat /\ n = doc[2].nodes
    BY <1>2, <1>3, <1>5
  <2>4. QED
    BY <1>1, <2>2, <2>3
<1>7. parsedNodes \in Nat /\ parsedNodes <= a
  BY <1>1, <1>5 DEF BudgetInv, CountsInv, NodeInv
<1>8. a + n <= b /\ n > MaxSchemaInstantiatedNodes - parsedNodes
  BY <1>4, <1>5, <1>6
<1>9. b > MaxSchemaInstantiatedNodes
  BY ONLY <1>6, <1>7, <1>8, LimitAssumption
<1>10. SumFunction(f) = b
  <2>1. DOMAIN f = D
    BY <1>1
  <2>2. QED
    BY <1>5, <2>1, SumIs
<1>11. QED
  BY <1>1, <1>9, <1>10 DEF OverLimits

-----------------------------------------------------------------------------
(* References that stop the loading.                                       *)

(* Sources have keys.                                                      *)
LEMMA KeyIsSome ==
  ASSUME ShapeInv, NEW s \in DOMAIN world.data
  PROVE  KeyOf(s) # NoKey
BY NamesAssumption DEF ShapeInv, IsWorld, KeyOf, NoKey

(* What an item to read stands for.                                        *)
LEMMA ItemFacts ==
  ASSUME GraphInv, FoundInv, pc = "acquired", NEW s, s = item.source, NEW ref, ref = item.ref
  PROVE  /\ ShapeInv /\ WorkInv /\ s \in DOMAIN world.data /\ s \in All /\ ItemKey = KeyOf(s) /\ Data = world.data[s]
         /\ Optional => ref \in Calls /\ bound[ref] = KeyOf(s) /\ bound[ref] # NoKey
         /\ got.error = "" => HasData(s) /\ Data \in Contents(All, KeyOf(s))
<1>1. ShapeInv /\ WorkInv
  BY DEF GraphInv, Failures
<1>2. IsRead(item) /\ (got.error = "" => HasData(item.source))
  BY <1>1 DEF WorkInv, ItemInv, Reading
<1>3. s \in DOMAIN world.data /\ (Optional => ref \in Calls /\ bound[ref] = KeyOf(s))
  BY <1>2 DEF IsRead, Optional
<1>4. s \in All
  BY DEF FoundInv, Reading
<1>5. ItemKey = KeyOf(s) /\ Data = world.data[s]
  BY DEF ItemKey, Data, KeyOf
<1>6. HasData(s) => world.data[s] \in Contents(All, KeyOf(s))
  BY <1>4 DEF Contents, KeyOf
<1>7. QED
  BY <1>1, <1>2, <1>3, <1>4, <1>5, <1>6, KeyIsSome

(* A reference is only refused where it is resolved if contexts disagree   *)
(* about it, or what it names does not suit it.                            *)
LEMMA ResolvingIsJustified ==
  ASSUME GraphInv, FoundInv, Resolve, pc' = "reference"
  PROVE  Disagreement(All)
<1>1. PICK s, ref : s = item.source /\ ref = item.ref
  OBVIOUS
<1>2. pc = "resolve"
  BY DEF Resolve, ResolveFails, ResolveNothing, ResolveIdentity, ResolveSource, Running
<1>3. ShapeInv /\ WorkInv /\ Registered \subseteq All
  BY <1>2 DEF GraphInv, Failures, FoundInv
<1>4. ref \in Calls /\ s \in SourcesFor(ref)
  BY <1>1, <1>2, <1>3 DEF WorkInv, ItemInv, IsCall
<1>5. PICK answer : answer = AnswerTo(s, ref) /\ Answer = answer
  BY <1>1 DEF Answer, AnswerTo
<1>6. \/ /\ answer.kind = "identity" /\ Loaded(answer.key)
         /\ Conflicts(ref, answer.key) \/ ~Fits(ref, docs[answer.key].content)
      \/ answer.kind = "source" /\ Conflicts(ref, KeyOf(answer.source))
  BY <1>1, <1>5 DEF Resolve, ResolveFails, ResolveNothing, ResolveIdentity, ResolveSource, Stop, Goto, KeyOf
<1>7. PICK key : key = TargetOf(AnswerTo(s, ref))
  OBVIOUS
<1>8. /\ answer.kind = "identity" => key = answer.key /\ key # NoKey
      /\ answer.kind = "source" => key = KeyOf(answer.source) /\ key # NoKey
  BY <1>3, <1>4, <1>5, <1>7, AnswerFacts DEF TargetOf, KeyOf
<1>9. CASE key # NoKey /\ Conflicts(ref, key)
  BY <1>3, <1>4, <1>7, <1>9, BoundDispute
<1>10. CASE Loaded(key) /\ ~Fits(ref, docs[key].content)
  <2>1. docs[key].content \in Contents(All, TargetOf(AnswerTo(s, ref)))
    BY <1>3, <1>7, <1>10, LoadedContent DEF Loaded
  <2>2. QED
    BY <1>3, <1>4, <1>10, <2>1, Misfit
<1>11. QED
  BY <1>6, <1>8, <1>9, <1>10

(* Why a new document is refused.                                          *)
LEMMA LoadingIsJustified ==
  ASSUME GraphInv, BudgetInv, FoundInv, CountInv, NodeInv, IsFiniteSet(DOMAIN world.data), LoadRejected
  PROVE  /\ pc' = "reference" => Disagreement(All)
         /\ pc' = "limit" => OverLimits(All)
<1>1. PICK s, ref, key, d : s = item.source /\ ref = item.ref /\ key = KeyOf(s) /\ d = Data
  OBVIOUS
<1>2. pc = "acquired" /\ ~Loaded(ItemKey) /\ got.error = "" /\ pc' = LoadFailure(ItemKey, Data)
  BY DEF LoadRejected, Usable, Running, Stop, Goto
<1>3. /\ ShapeInv /\ s \in All /\ HasData(s) /\ d = world.data[s] /\ d \in Contents(All, key) /\ ItemKey = key
      /\ Registered \subseteq All /\ key # NoKey /\ key \notin DOMAIN docs
      /\ Optional => ref \in Calls /\ bound[ref] = key /\ bound[ref] # NoKey
  BY <1>1, <1>2, ItemFacts, KeyIsSome DEF FoundInv, Loaded
<1>4. s \notin Registered
  BY <1>1, <1>3, KeyIsLoaded
<1>5. pc' = LoadFailure(key, d)
  BY <1>1, <1>2, <1>3
<1>6. ASSUME pc' = "reference"
      PROVE  Disagreement(All)
  <2>1. \/ Optional /\ ~Fits(ref, d)
        \/ ~ImportsAreLegal(d)
        \/ WaitingInVain(key, d)
    BY <1>1, <1>5, <1>6 DEF LoadFailure
  <2>2. CASE Optional /\ ~Fits(ref, d)
    BY <1>3, <2>2, BoundMisfit
  <2>3. CASE ~ImportsAreLegal(d)
    BY <1>3, <2>3 DEF Disagreement
  <2>4. CASE WaitingInVain(key, d)
    <3>1. PICK r \in Waiting(key) : Conflicts(r, key) \/ ~Fits(r, d)
      BY <2>4 DEF WaitingInVain
    <3>2. PICK p \in pending : p[1] = key /\ r = p[2]
      BY DEF Waiting
    <3>3. r \in Calls /\ \E u \in SourcesFor(r) : AnswerTo(u, r).kind = "identity" /\ AnswerTo(u, r).key = key
      BY <1>3, <3>2 DEF ShapeInv, PendingInv
    <3>4. PICK u \in SourcesFor(r) : AnswerTo(u, r).kind = "identity" /\ AnswerTo(u, r).key = key
      BY <3>3
    <3>5. TargetOf(AnswerTo(u, r)) = key
      BY <3>4 DEF TargetOf
    <3>6. CASE Conflicts(r, key)
      BY <1>3, <3>3, <3>5, <3>6, BoundDispute
    <3>7. CASE ~Fits(r, d)
      BY <1>3, <3>3, <3>5, <3>7, Misfit
    <3>8. QED
      BY <3>1, <3>6, <3>7
  <2>5. QED
    BY <2>1, <2>2, <2>3, <2>4
<1>7. ASSUME pc' = "limit"
      PROVE  OverLimits(All)
  <2>1. d.nodes > MaxSchemaInstantiatedNodes - parsedNodes \/ TooManyReferences(d.refs)
    BY <1>5, <1>7 DEF LoadFailure
  <2>2. CASE d.nodes > MaxSchemaInstantiatedNodes - parsedNodes
    BY <1>1, <1>3, <2>2, NodesAreJustified
  <2>3. CASE TooManyReferences(d.refs)
    <3>1. d \in Contents(All, Key[s.name])
      BY <1>1, <1>3 DEF KeyOf
    <3>2. QED
      BY <1>3, <1>4, <2>3, <3>1, ReferencesAreJustified
  <2>4. QED
    BY <2>1, <2>2, <2>3
<1>8. QED
  BY <1>6, <1>7

(* Why another source of a document is.                                    *)
LEMMA RepeatingIsJustified ==
  ASSUME GraphInv, BudgetInv, FoundInv, CountInv, IsFiniteSet(DOMAIN world.data), RepeatRejected
  PROVE  /\ pc' = "reference" => Disagreement(All)
         /\ pc' = "limit" => OverLimits(All)
<1>1. PICK s, ref, key, d : s = item.source /\ ref = item.ref /\ key = KeyOf(s) /\ d = docs[key].content
  OBVIOUS
<1>2. pc = "acquired" /\ Loaded(ItemKey) /\ pc' = RepeatFailure
  BY DEF RepeatRejected, Repeated, Running, Stop, Goto
<1>3. /\ ShapeInv /\ s \in All /\ Data = world.data[s] /\ ItemKey = key
      /\ Registered \subseteq All /\ key \in DOMAIN docs
      /\ Optional => ref \in Calls /\ bound[ref] = key /\ bound[ref] # NoKey
      /\ got.error = "" => HasData(s)
  BY <1>1, <1>2, ItemFacts DEF FoundInv, Loaded
<1>4. Known.content = d /\ Known.sources = docs[key].sources
  BY <1>1, <1>3 DEF Known
<1>5. d \in Contents(All, key)
  BY <1>1, <1>3, LoadedContent
<1>6. ASSUME pc' = "reference"
      PROVE  Disagreement(All)
  <2>1. (got.error = "" /\ world.data[s] # d) \/ (Optional /\ ~Fits(ref, d))
    BY <1>1, <1>2, <1>3, <1>4, <1>6 DEF RepeatFailure
  <2>2. CASE got.error = "" /\ world.data[s] # d
    <3>1. PICK t \in All : Key[t.name] = key /\ HasData(t) /\ world.data[t] = d
      BY <1>5 DEF Contents
    <3>2. Key[s.name] = Key[t.name] /\ HasData(s)
      BY <1>1, <1>3, <2>2, <3>1 DEF KeyOf
    <3>3. QED
      BY <1>3, <2>2, <3>1, <3>2 DEF Disagreement
  <2>3. CASE Optional /\ ~Fits(ref, d)
    BY <1>3, <1>5, <2>3, BoundMisfit
  <2>4. QED
    BY <2>1, <2>2, <2>3
<1>7. ASSUME pc' = "limit"
      PROVE  OverLimits(All)
  <2>1. s \notin docs[key].sources /\ TooManyReferences(d.refs)
    BY <1>1, <1>2, <1>4, <1>7 DEF RepeatFailure
  <2>2. s \notin Registered
    BY <1>1, <1>3, <2>1, KeyIsLoaded
  <2>3. d \in Contents(All, Key[s.name])
    BY <1>1, <1>5 DEF KeyOf
  <2>4. QED
    BY <1>3, <2>1, <2>2, <2>3, ReferencesAreJustified
<1>8. QED
  BY <1>6, <1>7

(* Why the whole set is: a reference to a document that does not suit it.  *)
LEMMA TargetsAreJustified ==
  ASSUME GraphInv, FoundInv, CheckTargets, pc' = "reference"
  PROVE  Disagreement(All)
<1>1. ShapeInv /\ Registered \subseteq All
  BY DEF GraphInv, FoundInv
<1>2. PICK ref \in Edges : ~Fits(ref, docs[bound[ref]].content)
  BY DEF CheckTargets, Goto
<1>3. ref \in DOMAIN bound /\ bound[ref] \in DOMAIN docs
  BY DEF Edges, Loaded
<1>4. bound[ref] # NoKey
  BY <1>1, <1>3 DEF ShapeInv, DocsInv, IsDoc
<1>5. ref \in Calls
  BY <1>3, <1>4 DEF FoundInv
<1>6. docs[bound[ref]].content \in Contents(All, bound[ref])
  BY <1>1, <1>3, LoadedContent
<1>7. QED
  BY <1>1, <1>2, <1>4, <1>5, <1>6, BoundMisfit

-----------------------------------------------------------------------------
(* So every refusal is justified.                                          *)

WorkedInv == FoundInv /\ GotInv /\ OnceInv /\ CountInv /\ NodeInv /\ LedgerInv
JustInv == (pc \notin Failures => WorkedInv) /\ RefusalsAreJustified
CompileInv == GraphInv /\ BudgetInv /\ RootInv /\ ReachInv /\ TargetInv

(* Who fails has seen the failure, and has failed for good.                *)
LEMMA RefusalFacts ==
  ASSUME [Next]_vars, pc' \in {"reference", "limit"}
  PROVE  /\ UNCHANGED <<world, docs, bound>>
         /\ \/ pc' = pc
            \/ /\ pc \notin Failures
               /\ \/ Resolve \/ LoadRejected \/ RepeatRejected
                  \/ pc' = "reference" /\ CheckTargets
                  \/ pc' = "limit" /\ (AcquireFails \/ Seed \/ Propagate \/ Fallback \/ SeedAlone)
<1>1. CASE UNCHANGED vars \/ Cancel
  BY <1>1 DEF vars, graph, Cancel
<1>2. CASE StopCanceled
  BY <1>2 DEF StopCanceled, Stop, Goto
<1>3. CASE Take \/ SkipAbsent \/ Load \/ Repeat \/ Acquire
  BY <1>3 DEF Take, SkipAbsent, Load, Repeat, Acquire, OpenBytes, OpenFails, OpenReader, CloseRefused, Read, Close,
              Acquired, Goto
<1>4. CASE Resolve
  <2>1. pc = "resolve"
    BY <1>4 DEF Resolve, ResolveFails, ResolveNothing, ResolveIdentity, ResolveSource, Running
  <2>2. \E failure \in Failures : Stop(failure)
    BY <1>4 DEF Resolve, ResolveFails, ResolveNothing, ResolveIdentity, ResolveSource, Goto, Failures
  <2>3. QED
    BY <1>4, <2>1, <2>2 DEF Stop, graph, Failures
<1>5. CASE AcquireFails
  BY <1>5 DEF AcquireFails, Running, Stop, Goto, graph, Failures
<1>6. CASE LoadRejected \/ RepeatRejected
  BY <1>6 DEF LoadRejected, RepeatRejected, Usable, Repeated, Running, Stop, graph, Failures
<1>7. CASE CheckTargets
  BY <1>7 DEF CheckTargets, Running, Stop, Goto, graph, Failures
<1>8. CASE Seed \/ Propagate \/ Fallback \/ SeedAlone
  <2>1. pc \in {"seed", "propagate"}
    BY <1>8 DEF Seed, Propagate, Fallback, SeedAlone, Running
  <2>2. CASE SeedAlone
    BY <2>1, <2>2, AloneEnds DEF Stop, Goto, graph, Failures
  <2>3. CASE Seed \/ Propagate \/ Fallback
    <3>1. \E more, following : AddOrStop(more, "propagate", following) \/ AddOrStop(more, "loaded", following)
      <4>1. CASE Seed
        <5>1. AddOrStop(OwnContexts({key \in DOMAIN docs : IsRoot(key)}), "propagate", next)
          BY <4>1 DEF Seed
        <5>2. QED
          BY <5>1
      <4>2. CASE Propagate
        <5>1. AddOrStop(Adopted(contexts[next]), "propagate", next + 1)
          BY <4>2 DEF Propagate
        <5>2. QED
          BY <5>1
      <4>3. CASE Fallback
        <5>1. PICK more : more = [i \in DOMAIN InOrder(Unreached) |-> <<InOrder(Unreached)[i], "">>]
          OBVIOUS
        <5>2. AddOrStop(more, IF Unreached = {} THEN "loaded" ELSE "propagate", next)
          BY <4>3, <5>1 DEF Fallback
        <5>3. CASE Unreached = {}
          BY <5>2, <5>3
        <5>4. CASE Unreached # {}
          BY <5>2, <5>4
        <5>5. QED
          BY <5>3, <5>4
      <4>4. QED
        BY <2>3, <4>1, <4>2, <4>3
    <3>2. PICK more, following : AddOrStop(more, "propagate", following) \/ AddOrStop(more, "loaded", following)
      BY <3>1
    <3>3. pc' # "propagate" /\ pc' # "loaded"
      OBVIOUS
    <3>4. Stop("limit")
      BY <3>2, <3>3, AddingEnds
    <3>5. QED
      BY <2>1, <2>3, <3>4 DEF Stop, Goto, graph, Failures
  <2>4. QED
    BY <1>8, <2>2, <2>3
<1>9. QED
  BY <1>1, <1>2, <1>3, <1>4, <1>5, <1>6, <1>7, <1>8 DEF Next

(* While nothing has failed, nothing fails without a reason ...            *)
LEMMA NowIsJustified ==
  ASSUME CompileInv, WorkedInv, IsFiniteSet(DOMAIN world.data), [Next]_vars, pc' # pc
  PROVE  /\ pc' = "reference" => Disagreement(All)
         /\ pc' = "limit" => OverLimits(All)
<1>1. /\ GraphInv /\ BudgetInv /\ RootInv /\ ReachInv /\ TargetInv
      /\ FoundInv /\ GotInv /\ CountInv /\ NodeInv /\ LedgerInv
  BY DEF CompileInv, WorkedInv
<1>2. CASE pc' = "reference"
  <2>1. Resolve \/ LoadRejected \/ RepeatRejected \/ CheckTargets
    BY <1>2, RefusalFacts
  <2>2. Disagreement(All)
    BY <1>1, <1>2, <2>1, ResolvingIsJustified, LoadingIsJustified, RepeatingIsJustified, TargetsAreJustified
  <2>3. QED
    BY <1>2, <2>2
<1>3. CASE pc' = "limit"
  <2>1. Resolve \/ LoadRejected \/ RepeatRejected \/ AcquireFails \/ Seed \/ Propagate \/ Fallback \/ SeedAlone
    BY <1>3, RefusalFacts
  <2>2. OverLimits(All)
    BY <1>1, <1>3, <2>1, AdmissionIsJustified, LoadingIsJustified, RepeatingIsJustified, BytesAreJustified,
       ContextsAreJustified
  <2>3. QED
    BY <1>3, <2>2
<1>4. QED
  BY <1>2, <1>3

(* ... and what had a reason keeps it.                                     *)
LEMMA RefusalsStep ==
  ASSUME CompileInv, JustInv, IsFiniteSet(DOMAIN world.data), [Next]_vars
  PROVE  RefusalsAreJustified'
<1>1. ASSUME pc' \in {"reference", "limit"}
      PROVE  /\ pc' = "reference" => Disagreement(All)
             /\ pc' = "limit" => OverLimits(All)
  <2>1. CASE pc' = pc
    BY <2>1 DEF JustInv, RefusalsAreJustified, All
  <2>2. CASE pc' # pc
    <3>1. pc \notin Failures
      BY <1>1, <2>2, RefusalFacts
    <3>2. WorkedInv
      BY <3>1 DEF JustInv
    <3>3. QED
      BY <2>2, <3>2, NowIsJustified
  <2>3. QED
    BY <2>1, <2>2
<1>2. ASSUME pc' = "reference"
      PROVE  Disagreement(All)'
  BY <1>1, <1>2, RefusalFacts, SameDisagreement
<1>3. ASSUME pc' = "limit"
      PROVE  OverLimits(All)'
  BY <1>1, <1>3, RefusalFacts, SameLimits
<1>4. QED
  BY <1>2, <1>3 DEF RefusalsAreJustified, All

(* The world stays as it is, and a failure is final.                       *)
LEMMA WorldStays ==
  ASSUME [Next]_vars
  PROVE  world' = world /\ (pc \in Failures => pc' \in Failures)
<1>1. CASE UNCHANGED vars
  BY <1>1 DEF vars
<1>2. CASE Cancel \/ StopCanceled
  BY <1>2 DEF Cancel, StopCanceled, Stop, Goto, Ended
<1>3. CASE Take \/ CheckTargets
  BY <1>3 DEF Take, CheckTargets, Running, Stop, Failures
<1>4. CASE Resolve
  BY <1>4 DEF Resolve, ResolveFails, ResolveNothing, ResolveIdentity, ResolveSource, Running, Stop, Failures
<1>5. CASE Acquire
  BY <1>5 DEF Acquire, OpenBytes, OpenFails, OpenReader, CloseRefused, Read, Close, Acquired, Running, Failures
<1>6. CASE AcquireFails \/ SkipAbsent \/ LoadRejected \/ Load \/ RepeatRejected \/ Repeat
  BY <1>6 DEF AcquireFails, SkipAbsent, LoadRejected, Load, RepeatRejected, Repeat, Usable, Repeated, Running, Stop, Failures
<1>7. CASE SeedAlone \/ Seed \/ Propagate \/ Fallback
  BY <1>7 DEF SeedAlone, Seed, Propagate, Fallback, AddOrStop, Running, Stop, Failures
<1>8. QED
  BY <1>1, <1>2, <1>3, <1>4, <1>5, <1>6, <1>7 DEF Next

(* What is found, asked and paid for grows together.                       *)
LEMMA WorkedStep ==
  ASSUME CompileInv, CompileInv', WorkedInv, IsFiniteSet(DOMAIN world.data), [Next]_vars, pc \notin Failures, pc' \notin Failures
  PROVE  WorkedInv'
<1>1. /\ GraphInv /\ BudgetInv /\ GraphInv' /\ BudgetInv'
      /\ FoundInv /\ GotInv /\ OnceInv /\ CountInv /\ NodeInv /\ LedgerInv
  BY DEF CompileInv, WorkedInv
<1>2. FoundInv'
  BY <1>1, FoundStep
<1>3. GotInv' /\ OnceInv' /\ CountInv'
  BY <1>1, GotStep, OnceStep, CountStep
<1>4. NodeInv' /\ LedgerInv'
  BY <1>1, <1>2, NodeStep, LedgerStep
<1>5. QED
  BY <1>2, <1>3, <1>4 DEF WorkedInv

(* In the beginning only the explicit sources are known and asked for.     *)
LEMMA InitJustified ==
  ASSUME Init, IsFiniteSet(DOMAIN world.data)
  PROVE  JustInv
<1>1. /\ ShapeInv /\ BudgetInv /\ pc = "take" /\ DOMAIN docs = {} /\ DOMAIN bound = {} /\ resolved = {}
      /\ totalBytes = 0 /\ references = 0 /\ parsedNodes = 0
  <2>1. docs = <<>> /\ bound = <<>> /\ pc = "take" /\ resolved = {} /\ totalBytes = 0 /\ references = 0 /\ parsedNodes = 0
    BY DEF Init
  <2>2. DOMAIN docs = {} /\ DOMAIN bound = {}
    BY <2>1
  <2>3. QED
    BY <2>1, <2>2, InitGraph, InitBudget DEF GraphInv
<1>2. Registered = {} /\ AskedNow = {} /\ LoadedDocs = {}
  BY <1>1 DEF Registered, AskedNow, LoadedDocs
<1>3. FoundInv
  BY <1>1, <1>2 DEF FoundInv, Reading
<1>4. GotInv
  BY <1>1 DEF GotInv
<1>5. OnceInv
  <2>1. PICK sources \in SetToSeqs(world.explicit) : queue = [i \in DOMAIN sources |-> Request(sources[i], NoRef, FALSE)]
    BY DEF Init
  <2>2. \A i, j \in DOMAIN sources : i # j => sources[i] # sources[j]
    BY <2>1 DEF SetToSeqs, IsInjective
  <2>3. \A i, j \in DOMAIN queue : queue[i] = queue[j] => i = j
    BY <2>1, <2>2 DEF Request
  <2>4. QED
    BY <1>1, <2>3 DEF OnceInv, Distinct
<1>6. CountInv
  BY <1>1, <1>2, FS_EmptySet DEF CountInv
<1>7. NodeInv
  BY <1>1, <1>2, SumEmpty DEF NodeInv
<1>8. LedgerInv
  <2>1. AtHand = 0
    BY <1>1 DEF AtHand, Reading
  <2>2. PICK a, b : a = SumOver(SourceSizes, DoneSources) /\ b = SumOver(AskedSizes, DoneAsks)
    OBVIOUS
  <2>3. a \in Nat /\ b \in Nat
    BY <1>1, <1>3, <2>2, LedgerFacts
  <2>4. 0 + 0 <= a + b
    BY <2>3
  <2>5. QED
    BY <1>1, <2>1, <2>2, <2>4 DEF LedgerInv, Spent
<1>9. QED
  BY <1>1, <1>3, <1>4, <1>5, <1>6, <1>7, <1>8 DEF JustInv, WorkedInv, RefusalsAreJustified

(* A compilation is refused for its references only if two sources that    *)
(* belong to it disagree, and for a limit only if loading all of them      *)
(* costs more than it, whatever the order of reading and resolving was     *)
(* (schemaSourceLoader.read, resolveReference, schemaTargetContexts.add).  *)
THEOREM RefusalsHold == Spec => [](IsFiniteSet(DOMAIN world.data) => RefusalsAreJustified)
<1> DEFINE Inv == CompileInv /\ (IsFiniteSet(DOMAIN world.data) => JustInv)
<1>1. Init => Inv
  <2>1. Init => TargetInv
    BY DEF Init, TargetInv
  <2>2. QED
    BY <2>1, InitGraph, InitBudget, InitRoots, InitJustified DEF CompileInv
<1>2. Inv /\ [Next]_vars => Inv'
  <2> SUFFICES ASSUME Inv, [Next]_vars
               PROVE  Inv'
    OBVIOUS
  <2>1. CompileInv'
    BY GraphStep, BudgetStep, RootStep, TargetStep DEF CompileInv
  <2>2. world' = world
    BY WorldStays
  <2>3. ASSUME IsFiniteSet(DOMAIN world.data)
        PROVE  JustInv'
    <3>1. JustInv
      BY <2>3
    <3>2. RefusalsAreJustified'
      BY <2>3, <3>1, RefusalsStep
    <3>3. ASSUME pc' \notin Failures
          PROVE  WorkedInv'
      <4>1. pc \notin Failures
        BY <3>3, WorldStays
      <4>2. WorkedInv
        BY <3>1, <4>1 DEF JustInv
      <4>3. QED
        BY <2>1, <2>3, <3>3, <4>1, <4>2, WorkedStep
    <3>4. QED
      BY <3>2, <3>3 DEF JustInv
  <2>4. QED
    BY <2>1, <2>2, <2>3
<1>3. Inv => (IsFiniteSet(DOMAIN world.data) => RefusalsAreJustified)
  BY DEF JustInv
<1>4. QED
  BY <1>1, <1>2, <1>3, PTL DEF Spec
=============================================================================
