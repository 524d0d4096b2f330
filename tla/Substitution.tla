---------------------------- MODULE Substitution ----------------------------
(***************************************************************************)
(* Substitution groups: the elements that may stand in for another one.    *)
(* Each global element names at most one head; the table has, for every    *)
(* head, all elements below it, and whether each may really stand in.      *)
(*                                                                         *)
(* An element has its name, a number in the order of names, the type, the  *)
(* derivations it blocks and excludes, whether it is abstract, and its     *)
(* head.  Elements are numbered in the order in which they were compiled.  *)
(***************************************************************************)
EXTENDS TypeDerivation

CONSTANT MaxSubstitutionClosureEntries   \* normalized limit

NoElement == 0

RECURSIVE HeadsAbove(_, _)
HeadsAbove(elements, e) ==
  IF elements[e].head = NoElement THEN <<>>
  ELSE <<elements[e].head>> \o HeadsAbove(elements, elements[e].head)

(* The elements that lead into a cycle of heads, by at most one step each. *)
RECURSIVE Ascend(_, _, _)
Ascend(elements, e, n) == IF e = NoElement \/ n = 0 THEN e ELSE Ascend(elements, elements[e].head, n - 1)
LeadsToCycle(elements, e) == Ascend(elements, e, Cardinality(DOMAIN elements)) # NoElement

ByName(elements, members) ==
  SetToSortSeq(members, LAMBDA a, b : elements[a].name < elements[b].name)

(* validateSubstitutionForest: the number of pairs of an element and an    *)
(* element above it.                                                       *)
ClosureEntries(elements) ==
  FoldSet(LAMBDA e, n : n + Len(HeadsAbove(elements, e)), 0, DOMAIN elements)

(* validateSubstitutionEdges, for one element and its head.                *)
EdgeError(g, elements, e) ==
  LET head == elements[elements[e].head]
      mask == TypeDerivationMask(g, elements[e].type, head.type)
  IN  IF mask = NotDerived THEN "not derived"
      ELSE IF head.final \intersect mask # {} THEN "excluded derivation" ELSE "none"

Members(elements) == {e \in DOMAIN elements : elements[e].head # NoElement}

FirstEdgeError(g, elements) ==
  LET wrong == {e \in Members(elements) : EdgeError(g, elements, e) # "none"}
  IN  IF wrong = {} THEN "none" ELSE EdgeError(g, elements, Min(wrong))

SubstitutionEffective(head, member, mask, blocks) ==
  /\ ~member.abstract
  /\ "substitution" \notin head.block
  /\ mask \intersect head.block = {}
  /\ mask \intersect blocks = {}

(* Slip: only the last step to the head counts.                            *)
StepMask(g, elements, path, n) ==
  TypeDerivationMask(g, elements[path[n]].type, elements[path[n + 1]].type)

(* What the steps from an element up to its n-th head use, or block.       *)
PathMask(g, elements, path, n) ==
  UNION {TypeDerivationMask(g, elements[path[i]].type, elements[path[i + 1]].type) : i \in 1..n}
PathBlocks(g, elements, path, n) ==
  UNION {SubstitutionTypeBlocks(g, elements[path[i]].type, elements[path[i + 1]].type) : i \in 1..n}

(* BuildSubstitutionTable, once the edges are found in order.              *)
Entries(g, elements, head) ==
  LET below == {e \in Members(elements) : head \in ToSet(HeadsAbove(elements, e))}
      entry(e) ==
        LET path == <<e>> \o HeadsAbove(elements, e)
            n == (CHOOSE i \in DOMAIN path : path[i] = head) - 1
        IN  [name |-> elements[e].name, member |-> e,
             effective |-> SubstitutionEffective(elements[head], elements[e],
                             PathMask(g, elements, path, n), PathBlocks(g, elements, path, n))]
      sorted == ByName(elements, below)
  IN  [i \in DOMAIN sorted |-> entry(sorted[i])]

BuildSubstitutionTable(g, elements) ==
  IF \E e \in DOMAIN elements : LeadsToCycle(elements, e) THEN [error |-> "cycle", table |-> <<>>]
  ELSE IF Members(elements) = {} THEN [error |-> "none", table |-> [e \in DOMAIN elements |-> <<>>]]
  ELSE IF ClosureEntries(elements) > MaxSubstitutionClosureEntries THEN [error |-> "limit", table |-> <<>>]
  ELSE IF FirstEdgeError(g, elements) # "none"
    THEN [error |-> FirstEdgeError(g, elements), table |-> <<>>]
  ELSE [error |-> "none", table |-> [e \in DOMAIN elements |-> Entries(g, elements, e)]]

(* MemberByName: binary search in the entries of a head.                   *)
RECURSIVE Search(_, _, _, _)
Search(entries, name, low, high) ==
  LET middle == (low + high) \div 2
  IN  IF low = high THEN low
      ELSE IF entries[middle].name < name THEN Search(entries, name, middle + 1, high)
      ELSE Search(entries, name, low, middle)

MemberByName(table, head, name) ==
  LET entries == table[head]
      i == Search(entries, name, 1, Len(entries) + 1)
  IN  IF i <= Len(entries) /\ entries[i].name = name /\ entries[i].effective
      THEN entries[i].member ELSE NoElement

(* ValidateSubstitutionTable: element by element in the order of names,    *)
(* each at the next place of every head above it.                          *)
Audited(g, elements, table) ==
  LET order == ByName(elements, Members(elements))
      place(e, head) == 1 + Cardinality({i \in DOMAIN order : /\ elements[order[i]].name < elements[e].name
                                                             /\ head \in ToSet(HeadsAbove(elements, order[i]))})
      effective(e, head) ==
        LET path == <<e>> \o HeadsAbove(elements, e)
            n == (CHOOSE i \in DOMAIN path : path[i] = head) - 1
        IN  SubstitutionEffective(elements[head], elements[e],
                PathMask(g, elements, path, n), PathBlocks(g, elements, path, n))
  IN  /\ \A e \in Members(elements) : \A head \in ToSet(HeadsAbove(elements, e)) :
           /\ place(e, head) \in DOMAIN table[head]
           /\ table[head][place(e, head)] =
                [name |-> elements[e].name, member |-> e, effective |-> effective(e, head)]
      /\ FoldSet(LAMBDA e, n : n + Len(table[e]), 0, DOMAIN table) = ClosureEntries(elements)

(* validateElementValueConstraints, by the type: only simple content, and  *)
(* mixed content that may be empty, can have a default or a fixed value.   *)
TakesConstraint(g, type) == type \in Simples(g) \/ g.complex[type].content \in {"simple", "mixed"}

-----------------------------------------------------------------------------
(* The definition of a substitution group, from the types alone.           *)

RECURSIVE TransitiveMembers(_, _)
TransitiveMembers(elements, head) ==
  LET direct == {e \in DOMAIN elements : elements[e].head = head}
  IN  direct \union UNION {TransitiveMembers(elements, e) : e \in direct}

MaySubstitute(g, elements, member, head) ==
  LET d == elements[member].type
      b == elements[head].type
      blocksOf(t) == IF t \in Complexes(g) THEN g.complex[t].block ELSE {}
      blocked == elements[head].block
                 \union UNION {blocksOf(t) : t \in TypesBetween(g, d, b) \union {b}}
  IN  /\ member \in TransitiveMembers(elements, head)
      /\ ~elements[member].abstract
      /\ "substitution" \notin elements[head].block
      /\ Methods(g, d, b) \intersect blocked = {}
=============================================================================
