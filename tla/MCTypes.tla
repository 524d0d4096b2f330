------------------------------ MODULE MCTypes ------------------------------
(* Graphs of up to three complex types over simple ones, and elements of   *)
(* several shapes over them.                                               *)
EXTENDS Types

MCAnyType == 7
Sim(base, union) == [base |-> base, union |-> union]
(* 1 anySimpleType, 2 string, 3 decimal, 4 a union of them, 5 a part of it *)
MCSimple == <<Sim(NoType, <<>>), Sim(1, <<>>), Sim(1, <<>>), Sim(1, <<2, 3>>), Sim(4, <<2, 3>>)>>
Cplx(base, kind, block, content) == [base |-> base, kind |-> kind, block |-> block, content |-> content]
GraphOf(simple, complex) == [simple |-> simple, complex |-> (7 :> Cplx(NoType, "none", {}, "mixed")) @@ complex]

Types8 ==
  {Cplx(7, "restriction", block, "elements") : block \in {{}, {"extension"}}}
  \union {Cplx(7, "extension", {"restriction"}, "mixed"), Cplx(2, "extension", {}, "simple"), Cplx(5, "extension", {}, "simple")}
Types9(t8) ==
  {Cplx(8, kind, {}, t8.content) : kind \in {"extension", "restriction"}}
  \union {Cplx(8, "extension", {"extension"}, t8.content), Cplx(7, "restriction", {}, "mixed")}
Types10(t9) == {Cplx(9, kind, {}, t9.content) : kind \in {"extension", "restriction"}}

(* One graph has more simple types than a session retains marks for.       *)
ManySimple == GraphOf(Append(MCSimple, Sim(1, <<3, 2>>)), (8 :> Cplx(5, "extension", {}, "simple")))
MCGraphs ==
  {ManySimple}
  \union {GraphOf(MCSimple, (8 :> c)) : c \in Types8}
  \union UNION {{GraphOf(MCSimple, (8 :> c) @@ (9 :> d)) : d \in Types9(c)} : c \in Types8}
  \union UNION {UNION {{GraphOf(MCSimple, (8 :> c) @@ (9 :> d) @@ (10 :> e)) : e \in Types10(d)} : d \in Types9(c)}
                  : c \in Types8}

El(name, head, type) ==
  [name |-> name, headName |-> head, type |-> type, block |-> {}, final |-> {}, abstract |-> FALSE, default |-> FALSE]
Deep(g) == Max(Complexes(g))
(* In every graph: elements of types far apart, to be asked about.         *)
Apart(g) == {<<El(1, 0, 4), El(2, 0, 8)>>} \union {<<El(2, 0, b), El(1, 2, Deep(g))>> : b \in {4, 7, 8}}
(* In some graphs: a member named before or after its head, of the deepest *)
(* type or of none, with what blocks, excludes, or is abstract.            *)
Chain(g) == {<<El(2, 0, b), El(1, 2, m), El(3, 1, d)>> : b \in {4, 8}, m \in {NoType, 8}, d \in {NoType, Deep(g)}}
Varied(els) ==
  {els, [els EXCEPT ![1].block = {"extension"}], [els EXCEPT ![1].block = {"substitution"}, ![3].default = TRUE],
   [els EXCEPT ![2].abstract = TRUE], [els EXCEPT ![1].final = {"restriction"}], [els EXCEPT ![2].final = {"extension"}]}
ChainGraphs == {g \in MCGraphs : 10 \in Complexes(g) /\ g.complex[10].kind = "extension" /\ g.complex[9].base = 8
                                 /\ (g.complex[9].block # {} \/ g.complex[9].kind = "restriction")}
(* Cycles, unknown heads, forests and the limit.                           *)
Odd == {<<El(1, 2, 8), El(2, 1, 8)>>, <<El(1, 1, NoType)>>, <<El(1, 9, NoType), El(2, 1, 8)>>,
        <<El(3, 2, NoType), El(2, 1, NoType), El(1, 0, 4)>>,
        <<El(1, 0, 7), El(2, 1, 7), El(3, 2, 7), El(4, 3, 7)>>,
        <<El(1, 0, 7), El(4, 1, 8), El(3, 1, NoType), El(2, 4, NoType)>>}
MCDeclared ==
  [g \in MCGraphs |->
     Apart(g) \union (IF g \in ChainGraphs THEN UNION {Varied(els) : els \in Chain(g)} ELSE {})
              \union (IF g = ManySimple THEN Odd ELSE {})]
=============================================================================
