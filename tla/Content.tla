------------------------------- MODULE Content -------------------------------
(***************************************************************************)
(* The content of one element: the schema compiles its content model, and  *)
(* a validation matches the children of the element one by one and asks at *)
(* the end tag whether the content may end.                                *)
(***************************************************************************)
EXTENDS ContentAutomaton, ContentReference, ContentRestriction

CONSTANTS
  Sources,      \* bound of the model: the contents of complex types
  Names,        \* bound of the model: names of children
  MaxChildren   \* bound of the model

(* The content model of the type, and the table it is one of.              *)
ModelOf(s) ==
  CASE s.kind = "extension" -> Extended(Lowered(s.base), Lowered(s.extension))
    [] s.kind = "restriction" -> Lowered(s.restriction)
    [] s.kind \notin {"extension", "restriction"} -> Lowered(s)

TableOf(s) ==
  ModelsOf(ModelOf(s)) \union
  (CASE s.kind = "extension" -> Table(s.base) \union Table(s.extension)
     [] s.kind = "restriction" -> Table(s.base) \union Table(s.restriction)
     [] s.kind \notin {"extension", "restriction"} -> Table(s))

VARIABLES
  source,    \* the content as the schema document states it
  model,     \* what it compiles to
  phase,     \* "refused", "open", or how the content ended
  st,        \* ContentState, with the bits of an all-group
  children,  \* how many children were matched, for the bound
  pending,   \* history: what may follow the children so far
  inBase     \* history: what may follow them in the type that is restricted

vars == <<source, model, phase, st, children, pending, inBase>>

(* A schema compiles if every model of its table does.                     *)
Main(table, kinds) ==
  IF kinds \subseteq {"dfa", "all"} THEN table
  ELSE Refusal(CHOOSE kind \in kinds : kind \notin {"dfa", "all"})

Built(s) ==
  IF s.kind = "restriction" /\ ~ModelRestricts(Lowered(s.base), Lowered(s.restriction)) THEN Refusal("restriction")
  ELSE IF \E m \in TableOf(s) : DirectlyAmbiguous(m) THEN Refusal("direct")
  ELSE Main(Compile(ModelOf(s)), {Compile(m).kind : m \in TableOf(s)})

BaseOf(s) == IF s.kind = "restriction" THEN {<<Meaning(s.base)>>} ELSE {}

(* ContentFrame.                                                           *)
Fresh(m) == [state |-> IF m.kind = "dfa" THEN m.start ELSE 0, count |-> 0, seen |-> {}]

Init ==
  /\ source \in Sources
  /\ model = Built(source)
  /\ phase = IF model.kind \in {"dfa", "all"} THEN "open" ELSE "refused"
  /\ st = Fresh(model)
  /\ children = 0
  /\ pending = {<<Meaning(source)>>}
  /\ inBase = BaseOf(source)

(* advancePublishedDFAState.                                               *)
Row == model.rows[st.state]
Loops(edge) == Row.count.counted /\ edge.to = st.state /\ edge.term = Row.count.term

Passes(edge) ==
  IF Loops(edge) THEN Row.count.unbounded \/ st.count < Row.count.max
  ELSE Row.count.counted => st.count >= Row.count.min

Counted(edge) ==
  LET next == model.rows[edge.to].count
  IN  IF Loops(edge) THEN st.count + 1
      ELSE IF next.counted /\ edge.term = next.term THEN 1 ELSE 0

(* The edges, and the terms of an all-group, that a child may take.        *)
Edges(name) == {e \in Row.edges : name \in Admits[e.term] /\ Passes(e)}
Unseen(name) == {i \in DOMAIN model.terms \ st.seen : name \in Admits[model.terms[i].term]}
Matches(name) == IF model.kind = "dfa" THEN Edges(name) ELSE Unseen(name)

(* AdvanceContent.                                                         *)
Matched(name) ==
  /\ phase = "open" /\ children < MaxChildren
  /\ \/ /\ model.kind = "dfa"
        /\ \E e \in Edges(name) : st' = [st EXCEPT !.state = e.to, !.count = Counted(e)]
     \/ /\ model.kind = "all"
        /\ \E i \in Unseen(name) : st' = [st EXCEPT !.seen = @ \union {i}]
  /\ children' = children + 1
  /\ pending' = After(pending, name)
  /\ inBase' = After(inBase, name)
  /\ UNCHANGED <<source, model, phase>>

Unexpected(name) ==
  /\ phase = "open"
  /\ Matches(name) = {}
  /\ phase' = "unexpected"
  /\ UNCHANGED <<source, model, st, children, pending, inBase>>

(* CompleteContent.                                                        *)
MayEnd ==
  IF model.kind = "dfa" THEN Row.accept /\ (Row.count.counted => st.count >= Row.count.min)
  ELSE IF st.seen = {} /\ model.empty THEN TRUE
  ELSE st.seen # {} /\ \A i \in DOMAIN model.terms : model.terms[i].required => i \in st.seen

Close ==
  /\ phase = "open"
  /\ phase' = IF MayEnd THEN "complete" ELSE "incomplete"
  /\ UNCHANGED <<source, model, st, children, pending, inBase>>

(* Another element of the same type.                                       *)
NextElement ==
  /\ phase \in {"complete", "incomplete", "unexpected"}
  /\ phase' = "open"
  /\ st' = Fresh(model)
  /\ children' = 0
  /\ pending' = {<<Meaning(source)>>}
  /\ inBase' = BaseOf(source)
  /\ UNCHANGED <<source, model>>

Next ==
  \/ \E name \in Names : Matched(name) \/ Unexpected(name)
  \/ Close
  \/ NextElement

Spec == Init /\ [][Next]_vars

-----------------------------------------------------------------------------
(* Properties.                                                             *)

(* The content may end exactly where the groups of the schema document,    *)
(* before lowering and compilation, say that it may; and a child is matched*)
(* exactly when some content continues with it, so that an error is        *)
(* reported at the first child that is wrong, never later.                 *)
ContentIsRight ==
  phase = "open" =>
    /\ MayEnd <=> \E items \in pending : Finished(items)
    /\ \A name \in Names : Matches(name) # {} <=> After(pending, name) # {}

(* What compiles is deterministic: a child never has a choice of edges, or *)
(* of particles of the source; and the check of the automaton refuses only *)
(* what is ambiguous.                                                      *)
AmbiguityIsRefused ==
  /\ phase = "open" => \A name \in Names :
       Cardinality(Matches(name)) <= 1 /\ ~IsAmbiguous(pending, name)
  /\ phase = "refused" /\ model.kind = "upa" => Ambiguous(source, Names)

(* "Any valid restricted instance must also be valid against the base": what*)
(* the restriction admits, child by child, its base admits.                *)
RestrictionIsSubset ==
  source.kind = "restriction" /\ phase = "open" =>
    /\ inBase # {}
    /\ (\E items \in pending : Finished(items)) => \E items \in inBase : Finished(items)

(* That holds but for two rules that are too wide: where a choice of the   *)
(* base has a branch that occurs once, and the restriction a leaf that may *)
(* repeat; and where the base repeats a group of one wildcard.             *)
LeafIn(group, Is(_)) == \E p \in Range(group.particles) : IsLeaf(p) /\ Is(p)
RECURSIVE GroupsIn(_)
GroupsIn(group) == {group} \union UNION {GroupsIn(p) : p \in {q \in Range(group.particles) : ~IsLeaf(q)}}

ChoiceNormalized(s) ==
  /\ \E g \in GroupsIn(s.base) : g.kind = "choice" /\ LeafIn(g, LAMBDA p : p.occurs = One)
  /\ \E g \in GroupsIn(s.restriction) : LeafIn(g, LAMBDA p : Repeats(p.occurs))
WildcardRepeated(s) ==
  /\ Len(s.base.particles) = 1 /\ LeafIn(s.base, LAMBDA p : p.kind = "wildcard" /\ p.occurs # One)
  /\ Repeats(s.base.occurs)

RestrictionsAreSubsets ==
  source.kind = "restriction" =>
    ChoiceNormalized(source) \/ WildcardRepeated(source) \/ RestrictionIsSubset
=============================================================================
