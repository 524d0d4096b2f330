------------------------------- MODULE Types -------------------------------
(***************************************************************************)
(* Types and substitution groups of one schema, from the end of their      *)
(* compilation to the questions a session asks: elements are linked to     *)
(* their heads in the order of names, types are handed down, defaults are  *)
(* judged, the table is built and installed; then a session asks whether   *)
(* an xsi:type may override a type, and whether an element may stand in.   *)
(***************************************************************************)
EXTENDS Substitution

CONSTANTS
  Graphs,        \* type graphs
  Declared,      \* for each graph, element declarations as they are compiled
  MaxRetained,   \* 4,096 in the code: entries a session keeps
  MaxQueries     \* bound: questions of one document

ASSUME TypesAssumption ==
  /\ AnyType \in Nat /\ MaxMemoEntries \in Nat /\ Generations \in Nat \ {0, 1}
  /\ MaxSubstitutionClosureEntries \in Nat /\ MaxRetained \in Nat /\ MaxQueries \in Nat

VARIABLES
  graph,       \* the types of the schema
  declared,    \* the elements: head by name, own type or none, default or none
  phase,       \* "link", "propagate", "constraints", "table",
               \* "installed" or "refused"
  at,          \* the next element of the phase
  elements,    \* the copies of the declarations that are worked on
  queue,       \* the elements whose type is settled
  installed,   \* the elements and the table of the build
  error,       \* why the schema is refused
  scratch,     \* the derivation scratch of the session
  asked        \* the last question and its answer

vars == <<graph, declared, phase, at, elements, queue, installed, error, scratch, asked>>

Ids == DOMAIN declared
NotAsked == [kind |-> "none", element |-> NoElement, name |-> 0, type |-> NoType, answer |-> FALSE, n |-> 0]
NotInstalled == [elements |-> <<>>, table |-> <<>>, index |-> <<>>]

(* elementUsesSubstitutionType.                                            *)
InheritsType(e) == declared[e].type = NoType /\ declared[e].headName # 0
HeadsNamed(name) == {h \in Ids : declared[h].name = name}

Init ==
  /\ graph \in Graphs
  /\ declared \in Declared[graph]
  /\ phase = "link" /\ at = 1 /\ queue = <<>> /\ error = "none"
  /\ elements = [e \in Ids |-> [name |-> declared[e].name, head |-> NoElement,
                                type |-> IF declared[e].type = NoType THEN AnyType ELSE declared[e].type,
                                block |-> declared[e].block, final |-> declared[e].final,
                                abstract |-> declared[e].abstract]]
  /\ installed = NotInstalled
  /\ scratch = NewScratch /\ asked = NotAsked

Refuse(reason) == phase' = "refused" /\ error' = reason
IdleSession == UNCHANGED <<scratch, asked>>
Working == phase \notin {"installed", "refused"}

(* The context is looked at before every element of every phase.           *)
Cancel ==
  /\ Working
  /\ Refuse("canceled")
  /\ UNCHANGED <<graph, declared, at, elements, queue, installed>> /\ IdleSession

(* One member, in the order of names; an unknown head is passed over.      *)
Link ==
  /\ phase = "link"
  /\ LET order == ByName(declared, {e \in Ids : declared[e].headName # 0})
     IN  IF at <= Len(order)
         THEN /\ elements' = IF HeadsNamed(declared[order[at]].headName) = {} THEN elements
                             ELSE [elements EXCEPT ![order[at]].head =
                                     CHOOSE h \in HeadsNamed(declared[order[at]].headName) : TRUE]
              /\ at' = at + 1
              /\ UNCHANGED <<phase, queue>>
         ELSE /\ queue' = SetToSortSeq({e \in Ids : elements[e].head = NoElement}, <)
              /\ phase' = "propagate" /\ at' = 1
              /\ UNCHANGED elements
  /\ UNCHANGED <<graph, declared, installed, error>> /\ IdleSession

HandedDown(els, head) ==
  [e \in Ids |-> IF els[e].head = head /\ InheritsType(e) THEN [els[e] EXCEPT !.type = els[head].type] ELSE els[e]]

(* One element of the queue hands its type to the members without one.     *)
Propagate ==
  /\ phase = "propagate"
  /\ IF at <= Len(queue)
     THEN /\ elements' = HandedDown(elements, queue[at])
          /\ queue' = queue \o ByName(declared, {e \in Ids : elements[e].head = queue[at]})
          /\ at' = at + 1
          /\ UNCHANGED <<phase, error>>
     ELSE /\ IF \E e \in Ids : e \notin ToSet(queue) THEN Refuse("cycle")
             ELSE phase' = "constraints" /\ UNCHANGED error
          /\ at' = 1
          /\ UNCHANGED <<elements, queue>>
  /\ UNCHANGED <<graph, declared, installed>> /\ IdleSession

(* The default of one element, with the type it has by now.                *)
JudgeConstraint ==
  /\ phase = "constraints"
  /\ LET pending == SetToSortSeq({e \in Ids : declared[e].default}, <)
     IN  IF at > Len(pending) THEN phase' = "table" /\ at' = 1 /\ UNCHANGED error
         ELSE IF TakesConstraint(graph, elements[pending[at]].type)
           THEN at' = at + 1 /\ UNCHANGED <<phase, error>>
         ELSE Refuse("constraint") /\ UNCHANGED at
  /\ UNCHANGED <<graph, declared, elements, queue, installed>> /\ IdleSession

Install ==
  /\ phase = "table"
  /\ LET built == BuildSubstitutionTable(graph, elements)
     IN  IF built.error # "none" THEN Refuse(built.error) /\ UNCHANGED installed
         ELSE /\ installed' = [elements |-> elements, table |-> built.table, index |-> Index(graph)]
              /\ phase' = "installed" /\ UNCHANGED error
  /\ UNCHANGED <<graph, declared, at, elements, queue>> /\ IdleSession

-----------------------------------------------------------------------------
(* The questions of a session.                                             *)

Decl(e) == installed.elements[e]

(* effectiveElementBlock, as it is published with the element.             *)
EffectiveBlock(e) ==
  Decl(e).block \union (IF Decl(e).type \in Complexes(graph) THEN graph.complex[Decl(e).type].block ELSE {})

(* validateXSITypeOverride *)
Overrides(e, type, mask) ==
  /\ mask # NotDerived
  /\ type = Decl(e).type \/ EffectiveBlock(e) \intersect mask \intersect {"extension", "restriction"} = {}

AskType(e, type) ==
  /\ phase = "installed" /\ asked.n < MaxQueries
  /\ LET d == Derivation(installed.index, 1, type, Decl(e).type, scratch)
     IN  /\ scratch' = d.scratch
         /\ asked' = [kind |-> "type", element |-> e, name |-> 0, type |-> type,
                      answer |-> Overrides(e, type, d.mask), n |-> asked.n + 1]
  /\ UNCHANGED <<graph, declared, phase, at, elements, queue, installed, error>>

AskName(head, name) ==
  /\ phase = "installed" /\ asked.n < MaxQueries
  /\ asked' = [kind |-> "name", element |-> head, name |-> name, type |-> NoType,
               answer |-> MemberByName(installed.table, head, name) # NoElement, n |-> asked.n + 1]
  /\ UNCHANGED <<graph, declared, phase, at, elements, queue, installed, error, scratch>>

EndDocument ==
  /\ phase = "installed" /\ asked.n > 0
  /\ scratch' = ResetScratch(scratch, MaxRetained)
  /\ asked' = NotAsked
  /\ UNCHANGED <<graph, declared, phase, at, elements, queue, installed, error>>

Done == phase = "refused" /\ UNCHANGED vars

Next ==
  \/ Link \/ Propagate \/ JudgeConstraint \/ Install \/ Cancel
  \/ \E e \in Ids, t \in TypesOf(graph) : AskType(e, t)
  \/ \E h \in Ids, e \in Ids : AskName(h, declared[e].name)
  \/ EndDocument
  \/ Done

Spec == Init /\ [][Next]_vars

-----------------------------------------------------------------------------
(* What the elements are by their declarations.                            *)

HeadOf(e) == LET named == HeadsNamed(declared[e].headName) IN IF named = {} THEN NoElement ELSE CHOOSE h \in named : TRUE
Linked == [e \in Ids |-> [elements[e] EXCEPT !.head = HeadOf(e)]]
Cyclic == \E e \in Ids : LeadsToCycle(Linked, e)

RECURSIVE FinalType(_)
FinalType(e) ==
  IF declared[e].type # NoType THEN declared[e].type
  ELSE IF HeadOf(e) = NoElement THEN AnyType ELSE FinalType(HeadOf(e))
Final == [e \in Ids |-> [Linked[e] EXCEPT !.type = FinalType(e)]]

(* Whatever a session has remembered and marked before, the index answers  *)
(* an xsi:type as the definition of derivation does, and so does the walk  *)
(* the compiler takes: the override is accepted if its type is derived     *)
(* from the declared one by no step that the element or that type blocks.  *)
QueriesAreRight ==
  /\ asked.kind = "type" =>
       LET type == Decl(asked.element).type
           methods == Methods(graph, asked.type, type)
           blocks == Decl(asked.element).block
                     \union (IF type \in Complexes(graph) THEN graph.complex[type].block ELSE {})
       IN  asked.answer <=> methods # NotDerived /\ (asked.type = type \/ methods \intersect blocks = {})
  /\ phase = "table" => \A d, b \in TypesOf(graph) : TypeDerivationMask(graph, d, b) = Methods(graph, d, b)

(* What is installed is the substitution groups of the declarations: each  *)
(* element has the type it inherits, the audit accepts the table, and a    *)
(* name is found under a head exactly if its element may stand in; it is   *)
(* looked at before questions, for nothing of it changes then.  A schema   *)
(* is refused for what its declarations really have, and nothing of it is  *)
(* installed: heads in a cycle, a default on a type that cannot have one,  *)
(* more pairs than the limit, or a member whose type is not derived from   *)
(* that of its head, or by a step the head excludes.                       *)
SubstitutionsAreRight ==
  /\ phase = "installed" /\ scratch = NewScratch =>
       /\ installed.elements = Final
       /\ Audited(graph, installed.elements, installed.table)
       /\ \A h, e \in Ids : MemberByName(installed.table, h, declared[e].name) =
            IF MaySubstitute(graph, Final, e, h) THEN e ELSE NoElement
  /\ phase = "refused" => installed = NotInstalled
  /\ phase \in {"constraints", "table", "installed"} => ~Cyclic
  /\ error = "cycle" => Cyclic
  /\ error = "constraint" => \E e \in Ids : declared[e].default /\ ~TakesConstraint(graph, FinalType(e))
  /\ ~Cyclic /\ scratch = NewScratch =>
       LET pairs == Cardinality({<<e, h>> \in Ids \X Ids : e \in TransitiveMembers(Final, h)})
           methods(e) == Methods(graph, FinalType(e), FinalType(HeadOf(e)))
           wrong == {e \in Members(Final) : \/ methods(e) = NotDerived
                                            \/ methods(e) \intersect declared[HeadOf(e)].final # {}}
       IN  /\ error = "limit" <=> phase = "refused" /\ pairs > MaxSubstitutionClosureEntries
                                  /\ error \notin {"canceled", "constraint"}
           /\ error \in {"not derived", "excluded derivation"} => wrong # {}
           /\ phase = "installed" => wrong = {} /\ pairs <= MaxSubstitutionClosureEntries
=============================================================================
