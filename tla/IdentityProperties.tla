------------------------- MODULE IdentityProperties -------------------------
(***************************************************************************)
(* What the identity-constraint machine of Identity promises.  The verdict *)
(* is compared with the definitions of Structures 3.11.4 and 3.11.5,       *)
(* evaluated over the complete document instead of over a stack.           *)
(***************************************************************************)
EXTENDS Identity

-----------------------------------------------------------------------------
(* The reference: node sets of paths, qualified node sets, node tables.    *)

Nodes == DOMAIN tree
Children(n) == {m \in Nodes : tree[m].parent = n}

AncestorsOrSelf ==
  LET up[n \in 0..Len(tree)] == IF n = 0 THEN {} ELSE {n} \union up[tree[n].parent]
  IN  up

DescendantsOrSelf(n) == {m \in Nodes : n \in AncestorsOrSelf[m]}

(* The elements a path selects, step by step.                              *)
Evaluate(n, p) ==
  LET after[k \in 0..Len(p.steps)] ==
        IF k = 0 THEN IF p.descendant THEN DescendantsOrSelf(n) ELSE {n}
        ELSE {m \in Nodes : tree[m].parent \in after[k - 1] /\ tree[m].name \in p.steps[k]}
  IN  after[Len(p.steps)]

(* A field selects elements, or attributes of elements.                    *)
FieldNodes(n, paths) ==
  UNION {{<<m, p.attribute>> : m \in {m \in Evaluate(n, p) :
             p.attribute => tree[m].attr.kind # "none"}} : p \in paths}

Datum(x) == IF x[2] THEN tree[x[1]].attr ELSE tree[x[1]].content

HasSimpleValue(x) ==
  /\ Assessed(tree[x[1]].mode)
  /\ Datum(x).kind = "value"
  /\ ~x[2] /\ tree[x[1]].mode = "declared" /\ tree[x[1]].name \in Nillable
       => ~tree[x[1]].invalid

Targets(n, c) == UNION {Evaluate(n, p) : p \in Selector[c]}

FieldsAreSingle(m, c) ==
  \A f \in DOMAIN Field[c] :
    /\ Cardinality(FieldNodes(m, Field[c][f])) <= 1
    /\ \A x \in FieldNodes(m, Field[c][f]) : HasSimpleValue(x)

QualifiedNodes(n, c) ==
  {m \in Targets(n, c) :
     FieldsAreSingle(m, c) /\ \A f \in DOMAIN Field[c] : FieldNodes(m, Field[c][f]) # {}}

KeySequence(m, c) ==
  [f \in DOMAIN Field[c] |-> Datum(CHOOSE x \in FieldNodes(m, Field[c][f]) : TRUE).value]

OwnerOf(c, n) == tree[n].mode = "declared" /\ c \in ToSet(Owned[tree[n].name])

Distinct(n, c) ==
  \A m, o \in QualifiedNodes(n, c) : KeySequence(m, c) = KeySequence(o, c) => m = o

(* An element's own entries win over conflicting entries of its children,  *)
(* and conflicting entries of different children leave no entry.           *)
NodeTable(c) ==
  LET table[n \in Nodes] ==
        LET own == IF OwnerOf(c, n)
                   THEN {<<KeySequence(m, c), m>> : m \in QualifiedNodes(n, c)} ELSE {}
            below == UNION {table[m] : m \in Children(n)}
        IN  own \union {e \in below : \A f \in own \union below : f[1] = e[1] => f[2] = e[2]}
  IN  table

Resolved(n, c) ==
  \A m \in QualifiedNodes(n, c) :
    \E e \in NodeTable(Refer[c])[n] : e[1] = KeySequence(m, c)

NoNillableField(m, c) ==
  \A f \in DOMAIN Field[c] : \A x \in FieldNodes(m, Field[c][f]) :
    ~(~x[2] /\ tree[x[1]].mode = "declared" /\ tree[x[1]].name \in Nillable)

SatisfiedAt(n, c) ==
  /\ \A m \in Targets(n, c) : FieldsAreSingle(m, c)
  /\ Kind[c] # "keyref" => Distinct(n, c)
  /\ Kind[c] = "key" => /\ Targets(n, c) = QualifiedNodes(n, c)
                        /\ \A m \in Targets(n, c) : NoNillableField(m, c)
  /\ Kind[c] = "keyref" => Resolved(n, c)

Satisfied == \A n \in Nodes, c \in Constraints : OwnerOf(c, n) => SatisfiedAt(n, c)

Codes == {errors[k].code : k \in DOMAIN errors}

-----------------------------------------------------------------------------
(* Properties.                                                             *)

(* The scope stack follows the element stack: one scope for every open     *)
(* element that declares constraints and is not closing, in nesting order, *)
(* and nothing is left when the root has ended.                            *)
ScopeDiscipline ==
  /\ \A i, j \in DOMAIN identity.scopes :
       i < j => identity.scopes[i].depth < identity.scopes[j].depth
  /\ {identity.scopes[i].depth : i \in DOMAIN identity.scopes} =
       {d \in DOMAIN frames : /\ frames[d].mode = "declared"
                              /\ Owned[frames[d].name] # <<>>
                              /\ phase = "elsewhere" => d < Depth}
  /\ phase \in {"done", "syntax", "failed"} =>
       identity.selections = <<>> /\ identity.fieldValues = <<>>

(* Every selection refers to an open scope that owns its constraint and to *)
(* an open element, so the internal-invariant errors of the selection code *)
(* cannot occur; the selections are ordered like the elements they select. *)
SelectionDiscipline ==
  LET sel(i) == identity.selections[i] IN
  /\ \A i \in DOMAIN identity.selections :
       /\ sel(i).scope \in DOMAIN identity.scopes
       /\ sel(i).constraint \in ToSet(Owner(sel(i)).constraints)
       /\ Owner(sel(i)).depth <= sel(i).depth
       /\ sel(i).depth \in DOMAIN frames
       /\ frames[sel(i).depth].node = sel(i).element
       /\ sel(i).fieldLen = Len(Field[sel(i).constraint])
  /\ \A i, j \in DOMAIN identity.selections :
       i < j => sel(i).depth <= sel(j).depth /\ sel(i).node < sel(j).node

(* The field slices of the pending selections never overlap, stay inside   *)
(* fieldValues, and between tokens cover it without a hole, so a field of  *)
(* a finished selection is never seen by a later one.                      *)
FieldSlices ==
  LET sel == identity.selections
      end(i) == sel[i].fieldStart + sel[i].fieldLen
  IN  /\ \A i, j \in DOMAIN sel : i < j => end(i) <= sel[j].fieldStart
      /\ \A i \in DOMAIN sel : end(i) <= Len(identity.fieldValues)
      /\ phase = "run" =>
           /\ \A i \in DOMAIN sel : sel[i].fieldStart = IF i = 1 THEN 0 ELSE end(i - 1)
           /\ Len(identity.fieldValues) = IF sel = <<>> THEN 0 ELSE end(Len(sel))

(* Scopes, selections and field values are those of the elements that are  *)
(* open, at every step of an end tag that fails half-way too.              *)
StacksAreOwn == ScopeDiscipline /\ SelectionDiscipline /\ FieldSlices

(* The tuples the tables of open scopes hold, and the references they wait *)
(* to resolve.                                                             *)
Tabled(scopes) ==
  UNION {{<<i, c, k>> : k \in DOMAIN scopes[i].tables[c]} : i \in DOMAIN scopes, c \in Constraints}
Referring(scopes) ==
  UNION {{<<i, k>> : k \in DOMAIN scopes[i].refs} : i \in DOMAIN scopes}

(* The tuples and IDs that are held were all counted, and what is counted *)
(* and what is open stay in the limits of the session.                     *)
EntryBudget ==
  /\ Cardinality(Tabled(identity.scopes)) + Cardinality(Referring(identity.scopes))
       + Cardinality(identity.ids) <= identity.entries
  /\ frames # <<>> =>
       /\ identity.entries <= MaxEntries[frames[1].name]
       /\ Len(identity.selections) <= MaxEntries[frames[1].name]
       /\ Len(identity.scopes) <= MaxScopes[frames[1].name]

(* Nothing is dropped in silence: as long as no diagnostic was reported,   *)
(* no field, scope or open element is marked invalid.                      *)
SilenceIsClean ==
  errors = <<>> =>
    /\ \A k \in DOMAIN identity.fieldValues : identity.fieldValues[k].state # "invalid"
    /\ \A i \in DOMAIN identity.scopes : ~identity.scopes[i].invalid
    /\ \A d \in DOMAIN frames : ~frames[d].invalid

(* A tuple in a table or among the references was published for an element *)
(* whose fields all have exactly one sound value, and is its key-sequence: *)
(* nothing invalid, skipped, nilled by mistake or ambiguous is published.  *)
TuplesAreQualified ==
  \A i \in DOMAIN identity.scopes :
    LET scope == identity.scopes[i] IN
    \A c \in Constraints : \A k \in DOMAIN scope.tables[c] :
      LET m == scope.tables[c][k].element IN
        /\ frames[scope.depth].node \in AncestorsOrSelf[m]
        /\ FieldsAreSingle(m, c)
        /\ k = KeySequence(m, c)

(* Scopes of one key or unique constraint enclose each other: their tables *)
(* are merged, and the definition looks at one table only.                 *)
ScopesNest ==
  \E m, n \in Nodes : \E c \in Constraints :
    /\ m # n /\ n \in AncestorsOrSelf[m]
    /\ Kind[c] # "keyref" /\ OwnerOf(c, m) /\ OwnerOf(c, n)

(* The verdict of Structures 3.11.4: a document that violates a constraint *)
(* is never accepted, and one that was assessed without other errors and   *)
(* satisfies its constraints is never refused, unless scopes nest.  And at *)
(* every step on the way the tables hold qualified tuples only.            *)
Verdict ==
  /\ TuplesAreQualified
  /\ phase = "done" =>
       /\ errors = <<>> => Satisfied
       /\ Satisfied /\ "assessment" \notin Codes /\ ~ScopesNest => errors = <<>>
=============================================================================
