---------------------------- MODULE MCComponents -----------------------------
(* Families of schemas whose components refer to one another.               *)
EXTENDS ComponentProperties

NoType == [name |-> "", simple |-> <<>>, complex |-> <<>>]
Anonymous(def) == [NoType EXCEPT !.complex = <<def>>]

Term(kind, name, type) ==
  [kind |-> kind, name |-> name, type |-> type, keys |-> {}, refers |-> {}]
Local(type) == Term("local", "x", type)
Ref(q) == Term("ref", q, NoType)
GroupRef(g) == Term("group", g, NoType)

Sequence(terms) == <<[group |-> "", particles |-> terms]>>
OfGroup(g) == <<[group |-> g, particles |-> <<>>]>>

Def(derivation, base, model) ==
  [derivation |-> derivation, base |-> base, simple |-> FALSE, model |-> model,
   attrs |-> {}, final |-> {}]

NoNames == [q \in {} |-> <<>>]
Schema(simple, complex, group, element) ==
  [simple |-> simple, complex |-> complex, group |-> group, element |-> element,
   order |-> <<>>]
(* In every order of the given names of complex and of simple types: the    *)
(* passes go by kind, and no schema has two groups or two elements.         *)
InEveryOrder(schemas, complex, simple) ==
  {[s EXCEPT !.order = p \o <<"G">> \o q \o <<"e">>] :
     s \in schemas, p \in SetToSeqs(complex), q \in SetToSeqs(simple)}
Global(q, type) == q :> Term("global", q, type)

(* Recursion: two types, a group and an element.                            *)
Plain == {Local(TypeNamed("A")), Local(TypeNamed("B")), GroupRef("G"), Ref("e")}
Nested == {Local(Anonymous(Def("extension", q, m))) :
             q \in {"A", "B"}, m \in {<<>>, Sequence(<<Local(TypeNamed("A"))>>), OfGroup("G")}}
            \cup {Local(Anonymous(Def("none", "", Sequence(<<GroupRef("G")>>))))}
Mixed == {<<Local(TypeNamed(String)), p>> : p \in Plain \cup Nested}

Bases(q) == {<<"none", "">>, <<"extension", q>>, <<"restriction", q>>}

Recursion(t) ==
  {Schema(NoNames,
          ("A" :> Def(a[1], a[2], m)) @@ ("B" :> Def(b[1], b[2], n)),
          ("G" :> g), Global("e", t)) :
     a \in Bases("B"), b \in Bases("A") \ {<<"restriction", "A">>},
     m \in {OfGroup("G")} \cup {Sequence(s) : s \in Mixed},
     n \in {<<>>, OfGroup("G"), Sequence(<<Local(TypeNamed("A"))>>),
            Sequence(<<Local(Anonymous(Def("extension", "A", <<>>)))>>)},
     g \in {<<>>, <<Local(TypeNamed("B"))>>, <<Local(TypeNamed(String)), GroupRef("G")>>,
            <<Local(Anonymous(Def("extension", "B", OfGroup("G"))))>>,
            <<Ref("e"), Local(Anonymous(Def("none", "", OfGroup("G"))))>>}}

(* Bases with attributes, text and final derivations; simple content has no *)
(* model.                                                                   *)
Content == {<<FALSE, m>> : m \in {<<>>, Sequence(<<Local(TypeNamed("S"))>>)}} \cup {<<TRUE, <<>>>>}
Inherited == {<<"none", "", m>> : m \in {<<>>, Sequence(<<Local(TypeNamed("A"))>>)}}
               \cup {<<d, q, <<>>>> : d \in {"extension", "restriction"}, q \in {"S", "C"}}
Inheritance ==
  {Schema("S" :> [variety |-> "restriction", of |-> <<TypeNamed(String)>>, final |-> f],
          ("A" :> [Def(a, "B", m[2]) EXCEPT !.simple = m[1], !.attrs = {"a"}])
            @@ ("B" :> [Def(b[1], b[2], b[3]) EXCEPT !.simple = b[2] # "", !.attrs = {"b"},
                                                     !.final = g]),
          NoNames, Global("e", Anonymous([Def(d, "A", <<>>) EXCEPT !.simple = y]))) :
     f \in {{}, {"extension"}}, a \in {"extension", "restriction"}, m \in Content,
     b \in Inherited, g \in {{}, {"extension"}}, d \in {"extension", "restriction"},
     y \in BOOLEAN}

(* Simple types that are built from one another.                            *)
SimpleDefsOver(names) ==
  {[variety |-> v, of |-> <<TypeNamed(q)>>, final |-> f] :
     v \in {"restriction", "list"}, q \in names, f \in {{}, {"list"}}}
    \cup {[variety |-> "union", of |-> <<TypeNamed(q), TypeNamed(r)>>, final |-> f] :
            q \in names, r \in names, f \in {{}, {"union", "restriction"}}}
Varieties ==
  {Schema(("S" :> s) @@ ("T" :> t) @@ ("U" :> u), NoNames, NoNames,
          Global("e", [NoType EXCEPT !.simple =
                         <<[variety |-> "list", of |-> <<TypeNamed("S")>>, final |-> {}]>>])) :
     s \in SimpleDefsOver({"T", "U"}), t \in SimpleDefsOver({String, "U"}),
     u \in {[variety |-> v, of |-> <<TypeNamed(q)>>, final |-> {}] :
              v \in {"restriction", "list", "union"}, q \in {String, "S"}}}

(* Keyrefs inside types and elements, to keys declared here and there, and  *)
(* to one that the next element of a sequence declares.                     *)
Keyed(t, k, r) == [t EXCEPT !.keys = k, !.refers = r]
Containing(terms) == Anonymous(Def("none", "", Sequence(terms)))
Keys ==
  {Schema(NoNames,
          ("A" :> Def("none", "", Sequence(<<Keyed(Local(v), {}, r)>>)))
            @@ ("B" :> Def("none", "", Sequence(<<Keyed(Local(t), k, w)>>))),
          NoNames, "e" :> Keyed(Term("global", "e", u), l, s)) :
     r \in {{}, {"k"}}, k \in {{}, {"k"}}, w \in {{}, {"k"}},
     t \in {TypeNamed(String), TypeNamed("A")}, v \in {TypeNamed(String), TypeNamed("B")},
     u \in {TypeNamed("A"), Containing(<<Keyed(Local(TypeNamed("M")), {}, {"j"})>>),
            Containing(<<Keyed(Local(NoType), {"j"}, {"k", "l"})>>),
            Containing(<<Keyed(Local(NoType), {}, {"j"}), Keyed(Local(NoType), {"j"}, {})>>)},
     l \in {{}, {"l"}}, s \in {{}, {"j"}}}

RefersToElement(s) == \E m \in ModelsOf(s) : \E t \in LocalsIn(m) : t.kind = "ref"

MCNames == {"A", "B", "C", "G", "S", "T", "U", "e"}
MCSources ==
  InEveryOrder(Recursion(Anonymous(Def("extension", "A", Sequence(<<Ref("e")>>))))
                 \cup {s \in Recursion(TypeNamed("B")) : RefersToElement(s)}
                 \cup Inheritance \cup Keys, {"A", "B"}, {"S"})
    \cup InEveryOrder(Varieties, {}, {"S", "T", "U"})
=============================================================================
