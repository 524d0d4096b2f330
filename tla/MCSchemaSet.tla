---------------------------- MODULE MCSchemaSet ----------------------------
(* Up to five documents, in one resolution context or two.                *)
EXTENDS SchemaSetProperties

MCNames == <<"a", "b", "c", "c/../c", "d", "e">>
MCKey == [n \in Range(MCNames) |-> IF n = "c/../c" THEN "c" ELSE n]
MCRank == [n \in Range(MCNames) |-> CHOOSE i \in DOMAIN MCNames : MCNames[i] = n]
Locations == {"x", "y", "z"}

Src(name, owner) == [name |-> name, owner |-> owner]
Include(l) == [kind |-> "include", namespace |-> "", location |-> l]
Import(n, l) == [kind |-> "import", namespace |-> n, location |-> l]
Doc(bytes, target, refs) == [bytes |-> bytes, target |-> target, refs |-> refs, size |-> 1 + Len(refs), nodes |-> 2]
Found(s) == [kind |-> "source", source |-> s]
Identity(key) == [kind |-> "identity", key |-> key]
None == [kind |-> "none"]
Error == [kind |-> "error"]

World(explicit, data, resolve) ==
  [explicit |-> explicit, bytes |-> explicit, data |-> data, resolve |-> resolve]

\* One context: includes and imports in every namespace, cycles, repetitions.
P == {Src(n, "p") : n \in {"a", "c", "d"}}
AtHome == [q \in P \X Locations |->
             CASE q[2] = "x" -> Found(Src("c", "p")) [] q[2] = "y" -> Found(Src("d", "p")) [] q[2] = "z" -> Identity("a")]
Graphs ==
  {World(explicit, [s \in P |-> IF s.name = "a" THEN a ELSE IF s.name = "c" THEN c ELSE d], AtHome) :
     explicit \in {{Src("a", "p")}, {Src("a", "p"), Src("c", "p")}},
     a \in {Doc("a", n, r) : n \in {"", "n"}, r \in {<<Include("x")>>, <<Include("x"), Include("y")>>,
                                                   <<Import("m", "x"), Include("y")>>, <<Import("m", ""), Include("x")>>}},
     c \in {Doc("c", n, r) : n \in {"", "n", "m"}, r \in {<<>>, <<Include("y")>>, <<Include("z"), Import("", "y")>>}},
     d \in {Missing} \union {Doc("d", n, r) : n \in {"", "m"}, r \in {<<>>, <<Include("x")>>}}}

\* Two contexts that share a document, agree or not about it and its reference.
Q == {Src(n, o) : n \in Range(MCNames), o \in {"p", "q"}}
Roots2 == {Src("a", "p"), Src("b", "q")}
Owned(o) == {Found(Src("c", o)), Found(Src("c/../c", o)), Identity("c"), None, Error}
Below(o) == {Found(Src("d", o)), Found(Src("e", o)), Identity("d"), None}
Shared ==
  {World(Roots2,
         [s \in Q |-> CASE s.name = "a" -> Doc("a", "", <<Include("x")>>)
                        [] s.name = "b" -> Doc("b", "", b)
                        [] s.name \in {"c", "c/../c"} -> IF s.owner = "p" THEN p ELSE q
                        [] OTHER -> Doc("leaf", "", <<>>)],
         [k \in Q \X Locations |-> LET o == k[1].owner
                                   IN  CASE k[2] = "x" -> (IF o = "p" THEN xp ELSE xq)
                                     [] k[2] = "y" -> (IF o = "p" THEN yp ELSE yq)
                                     [] k[2] = "z" -> zq]) :
     <<b, zq>> \in {<< <<Include("x")>>, None>>} \union
                  ({<<Include("x"), Include("z")>>} \X {Found(Src("c/../c", "q")), Found(Src("e", "q"))}),
     p \in {Doc("c", "", <<Include("y")>>), Missing},
     q \in {Doc("c", "", <<Include("y")>>), Doc("c2", "", <<>>), Missing},
     xp \in Owned("p") \ {Found(Src("c/../c", "p")), Error}, xq \in Owned("q"), yp \in Below("p"), yq \in Below("q")}

\* One name in two contexts: which is read first is open.
Twins ==
  {[w EXCEPT !.explicit = {Src("a", "p"), Src("a", "q")}, !.bytes = {}] :
     w \in {v \in Shared : v.resolve[<<Src("c", "q"), "z">>] = None /\ v.data[Src("c", "q")] # Missing}}

MCWorlds == Graphs \union Shared \union Twins
=============================================================================
