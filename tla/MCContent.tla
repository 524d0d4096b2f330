----------------------------- MODULE MCContent -----------------------------
(* Contents of up to four leaves in up to three groups.                   *)
EXTENDS Content

\* "m" may stand in for "c"; "an" is a local "a" that may also be nilled, and
\* "aw" one of a wider type: the names "n" and "w" stand for such elements.
MCTerms == {"a", "an", "aw", "b", "c", "m", "any"}
MCWildcards == {"any"}
MCNames == {"a", "b", "c", "m", "n", "w"}
MCAdmits ==
  [t \in MCTerms |->
     CASE t = "any" -> MCNames \ {"b"} [] t = "c" -> {"c", "m"} [] t = "an" -> {"a", "n"} [] t = "aw" -> {"a", "w"}
       [] OTHER -> {t}]
MCDeclarations ==
  [t \in MCTerms \ MCWildcards |->
     [name |-> IF t \in {"an", "aw"} THEN "a" ELSE t, global |-> t \in {"c", "m"},
      type |-> IF t = "aw" THEN "wide" ELSE "narrow", nillable |-> t = "an", block |-> {}, identities |-> {}, fixed |-> "none"]]
MCMembers == [t \in MCTerms \ MCWildcards |-> IF t = "c" THEN {"m"} ELSE {}]
MCRestrictsType == {<<t, t>> : t \in {"narrow", "wide"}} \union {<<"narrow", "wide">>}

Occ(min, max) == [min |-> min, max |-> max, unbounded |-> FALSE]
Many(min) == [min |-> min, max |-> 0, unbounded |-> TRUE]

Leaf(at, t, o) ==
  [kind |-> IF t \in MCWildcards THEN "wildcard" ELSE "element", term |-> t, at |-> at, occurs |-> o]
Group(k, o, ps) == [kind |-> k, occurs |-> o, particles |-> ps]
Leaves(at, ts, os) == {Leaf(at, t, o) : t \in ts, o \in os}
Kinds == {"sequence", "choice"}

Few == {Occ(1, 1), Occ(0, 1), Occ(2, 2)}
Flat == {Group(k, One, <<x, y, z>>) :
           k \in Kinds, x \in Leaves(1, {"a"}, Few \union {Many(0), Occ(1, 3)}),
           y \in Leaves(2, {"a", "b"}, Few \union {Occ(2, 3)}), z \in Leaves(3, {"a", "any"}, Few)}
Inner == {Group(k, o, <<x, y>>) :
           k \in Kinds, o \in {Occ(1, 1), Occ(0, 1), Occ(2, 2), Occ(1, 3), Many(2)},
           x \in Leaves(1, {"a"}, {Occ(1, 1), Occ(0, 1), Occ(2, 3)}),
           y \in Leaves(2, {"b"}, {Occ(1, 1), Occ(0, 2)}) \union Leaves(2, {"any"}, {Occ(1, 1)})}
Single == {Group("sequence", One, <<Group(k, o, <<x>>), Leaf(2, "b", Occ(0, 1))>>) :
             k \in Kinds, o \in {Occ(0, 1), Occ(2, 2), Occ(1, 2), Many(0), Many(2)},
             x \in Leaves(1, {"a"}, {Occ(0, 1), Occ(2, 2), Occ(1, 3), Occ(0, 0), Many(1), Many(2)})}
Nested == {Group(k, o, <<g, z>>) : k \in Kinds, o \in {Occ(1, 1), Occ(2, 2)}, g \in Inner,
             z \in Leaves(3, {"a", "b"}, {Occ(1, 1), Occ(0, 1)})}
Deep == {Group("sequence", One, <<Group(k, o, <<g, Leaf(3, "c", One)>>), z>>) :
           k \in Kinds, o \in {Occ(1, 1), Occ(0, 1), Occ(2, 2)}, g \in Inner, z \in Leaves(4, {"a"}, {Occ(1, 1)})}
AllGroups == {Group("all", o, <<x, y, z>>) :
                o \in {Occ(1, 1), Occ(0, 1)}, x \in Leaves(1, {"a"}, {Occ(1, 1), Occ(0, 1)}),
                y \in Leaves(2, {"a", "b"}, {Occ(1, 1), Occ(0, 1)}),
                z \in Leaves(3, {"c"}, {Occ(1, 1), Occ(0, 1), Occ(0, 0)})}
Extensions == {[kind |-> "extension", base |-> g, extension |-> Group(k, Occ(1, 1), <<Leaf(3, "a", Occ(0, 2))>>)] :
                 g \in Inner, k \in Kinds}

RPairs(k, o, ts, us, os) == {Group(k, o, <<x, y>>) : x \in Leaves(1, ts, os), y \in Leaves(2, us, os)}
ROnes == {Occ(1, 1), Occ(0, 1)}
RBases ==
  RPairs("sequence", One, {"an", "c"}, {"any"}, {Occ(1, 1), Occ(0, 2)})
  \union RPairs("sequence", One, {"a", "aw"}, {"b", "c"}, {Occ(0, 1)})
  \union RPairs("choice", One, {"an"}, {"c", "any"}, {Occ(1, 1), Occ(2, 2)})
  \union RPairs("choice", Occ(0, 2), {"an"}, {"c"}, {Occ(1, 1)})
  \union RPairs("all", One, {"an"}, {"c"}, ROnes)
  \union {Group("sequence", o, <<x>>) : o \in {One, Many(0)}, x \in Leaves(1, {"any", "c"}, {Occ(1, 1), Many(1)})}
  \union {Group("sequence", Many(0), <<Leaf(1, "any", Occ(2, 2))>>)}
  \union {Group("sequence", One, <<Group(k, o, <<x, Leaf(2, "c", One)>>), z>>) :
            k \in Kinds, o \in {One, Occ(0, 2)}, x \in Leaves(1, {"an"}, ROnes), z \in Leaves(3, {"b"}, ROnes)}
RDerived ==
  UNION {RPairs(k, One, {"a", "an"}, {"m"}, {Occ(1, 1), Occ(2, 2)}) : k \in Kinds}
  \union RPairs("sequence", One, {"a", "aw"}, {"c"}, ROnes) \union RPairs("choice", Occ(1, 2), {"a"}, {"m"}, {One})
  \union RPairs("all", One, {"a"}, {"c", "m"}, ROnes)
  \union {Group(k, One, <<x>>) : k \in Kinds, x \in Leaves(1, {"a", "b"}, {Occ(1, 1), Occ(0, 1)})}
  \union {Group("all", One, <<x>>) : x \in Leaves(1, {"m"}, ROnes)}
  \union {Group("sequence", One, <<x>>) : x \in Leaves(1, {"c", "any"}, {Occ(1, 1), Occ(3, 3), Many(1)})}
  \union {Group(k, One, <<Group(j, o, <<x, Leaf(2, "m", One)>>), Leaf(3, "b", One)>>) :
            k \in Kinds, j \in Kinds, o \in {One, Occ(1, 2)}, x \in Leaves(1, {"a"}, ROnes)}
  \union {Group("sequence", One, <<>>)}
Restrictions == {[kind |-> "restriction", base |-> b, restriction |-> d] : b \in RBases, d \in RDerived}

MCSources == UNION {Flat, Single, Nested, Deep, AllGroups, Extensions, Restrictions}
=============================================================================
