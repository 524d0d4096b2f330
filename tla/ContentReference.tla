-------------------------- MODULE ContentReference --------------------------
(***************************************************************************)
(* What the content of a complex type means: the sequences of children its *)
(* groups admit, by what may still follow the children so far.  What may   *)
(* follow is a sequence of groups and leaves, each with the occurrences    *)
(* that are left; a leaf is told from others by its place in the source.   *)
(***************************************************************************)
EXTENDS ContentModel

(* Particles that may occur no times are not there.                        *)
Present(group) == SelectSeq(group.particles, LAMBDA p : ~Absent(p.occurs))

RECURSIVE Skippable(_)
Skippable(item) ==
  \/ item.occurs.min = 0
  \/ CASE IsLeaf(item) -> FALSE
       [] item.kind = "choice" -> \E p \in Range(Present(item)) : Skippable(p)
       [] OTHER -> \A p \in Range(Present(item)) : Skippable(p)

OneLess(item) ==
  [item EXCEPT !.occurs.min = IF @ = 0 THEN 0 ELSE @ - 1,
               !.occurs.max = IF @ = 0 THEN 0 ELSE @ - 1]

(* The leaves that may come next, with what may follow each of them.       *)
RECURSIVE NextLeaves(_)
Within(item) ==
  LET ps == Present(item)
      allOther(i) == [item EXCEPT !.occurs = One, !.particles = RemoveAt(ps, i)]
  IN  CASE IsLeaf(item) -> {[leaf |-> item, rest |-> <<>>]}
        [] item.kind = "sequence" -> NextLeaves(ps)
        [] item.kind = "choice" -> UNION {NextLeaves(<<p>>) : p \in Range(ps)}
        [] item.kind = "all" ->
             UNION {{[n EXCEPT !.rest = @ \o <<allOther(i)>>] : n \in NextLeaves(<<ps[i]>>)} : i \in DOMAIN ps}

NextLeaves(items) ==
  IF items = <<>> THEN {}
  ELSE LET item == Head(items)
           left == OneLess(item)
           after == (IF Absent(left.occurs) THEN <<>> ELSE <<left>>) \o Tail(items)
       IN  (IF Absent(item.occurs) THEN {} ELSE {[n EXCEPT !.rest = @ \o after] : n \in Within(item)})
           \union (IF Skippable(item) THEN NextLeaves(Tail(items)) ELSE {})

Finished(items) == \A i \in DOMAIN items : Skippable(items[i])

(* An extension stands for its base, followed by what it adds.             *)
Meaning(source) ==
  CASE source.kind = "extension" ->
         [kind |-> "sequence", occurs |-> One, particles |-> <<source.base, source.extension>>]
    [] source.kind = "restriction" -> source.restriction
    [] source.kind \notin {"extension", "restriction"} -> source

Consumers(pending, name) ==
  {n \in UNION {NextLeaves(items) : items \in pending} : name \in Admits[n.leaf.term]}

After(pending, name) == {n.rest : n \in Consumers(pending, name)}

(* The particle of the next child cannot be determined by its name.        *)
IsAmbiguous(pending, name) ==
  Cardinality({n.leaf.at : n \in Consumers(pending, name)}) > 1

RECURSIVE Reached(_, _)
Reached(names, sets) ==
  LET more == sets \union {After(pending, name) : pending \in sets, name \in names}
  IN  IF more = sets THEN sets ELSE Reached(names, more)

(* Unique Particle Attribution, over every sequence of children.           *)
Ambiguous(source, names) ==
  \E pending \in Reached(names, {{<<Meaning(source)>>}}), name \in names : IsAmbiguous(pending, name)
=============================================================================
