----------------------------- MODULE MCIdentity -----------------------------
(***************************************************************************)
(* Three schemas for Identity, told apart by the root of the document.     *)
(*                                                                         *)
(*   r   Every group g keys its items i by attribute and content, and      *)
(*       makes their contents unique; the items of the root refer to the   *)
(*       keys of the groups.                                               *)
(*   f   Fields go wrong: the root keys its groups h by the content of a   *)
(*       nillable child x, which may repeat, be missing, nilled, invalid   *)
(*       or not assessed; every h has unique attributes of its children.   *)
(*   n   Scopes of one key enclose each other: elements e, which may be    *)
(*       below each other, key the items k below them, and items y of the  *)
(*       root refer to them.                                               *)
(***************************************************************************)
EXTENDS IdentityProperties

CONSTANTS v, w

Dot == Path(FALSE, <<>>, FALSE)
At == Path(FALSE, <<>>, TRUE)
Child(n) == Path(FALSE, <<{n}>>, FALSE)
Below(n) == Path(TRUE, <<{n}>>, FALSE)

Groups == {"r", "g", "i"}
Faults == {"f", "h", "x"}
Nested == {"n", "e", "k", "y"}

MCNames == Groups \union Faults \union Nested
MCRoots == {"r", "f", "n"}
MCAdmits == {<<"r", "g">>, <<"r", "i">>, <<"g", "i">>,
             <<"f", "h">>, <<"h", "x">>,
             <<"n", "e">>, <<"n", "y">>, <<"e", "e">>, <<"e", "k">>}
MCModes == [n \in MCNames |->
  IF n \in Faults THEN {"declared", "lax", "skipped", "recovery"} ELSE {"declared"}]

PerRoot(ofGroups, ofFaults, ofNested) ==
  [n \in MCNames |-> CASE n \in Groups -> ofGroups [] n \in Faults -> ofFaults
                       [] n \in Nested -> ofNested]

MCMaxScopes == PerRoot(2, 2, 3)
MCMaxEntries == PerRoot(10, 4, 4)
MCMaxDepth == PerRoot(3, 3, 5)
MCMaxElements == PerRoot(6, 5, 8)

MCOwned == [n \in MCNames |->
  CASE n = "r" -> <<"ref">>     [] n = "g" -> <<"key", "uni">>
    [] n = "f" -> <<"group">>   [] n = "h" -> <<"attr">>
    [] n = "n" -> <<"toItem">>  [] n = "e" -> <<"item">>
    [] OTHER -> <<>>]
MCConstraints == {"key", "ref", "uni", "group", "attr", "item", "toItem"}
MCKind == [c \in MCConstraints |->
  CASE c \in {"key", "group", "item"} -> "key"
    [] c \in {"ref", "toItem"} -> "keyref"
    [] OTHER -> "unique"]
MCRefer == [c \in MCConstraints |-> IF c = "toItem" THEN "item" ELSE "key"]
MCSelector == [c \in MCConstraints |->
  CASE c \in {"key", "ref"} -> {Child("i")}  [] c = "uni" -> {Below("i")}
    [] c = "group" -> {Child("h")}           [] c = "attr" -> {Child("x")}
    [] c = "item" -> {Below("k")}            [] c = "toItem" -> {Child("y")}]
MCField == [c \in MCConstraints |->
  CASE c \in {"key", "ref"} -> <<{At}, {Dot}>>
    [] c = "group" -> <<{Child("x")}>>
    [] c = "attr" -> <<{At}>>
    [] OTHER -> <<{Dot}>>]

Val(a) == [kind |-> "value", value |-> a]
Id(a) == [kind |-> "id", value |-> a]
Kin(k) == [kind |-> k]
MCContents == [n \in MCNames |->
  CASE n = "i" -> {Val(v), Val(w)}
    [] n = "x" -> {Val(v), Id(v), Kin("invalid")}
    [] n \in {"k", "y"} -> {Val(v)}
    [] OTHER -> {Kin("complex")}]
MCAttributes == [n \in MCNames |->
  CASE n = "i" -> {Kin("none"), Val(v)}
    [] n = "x" -> {Kin("none"), Val(v), Kin("invalid"), Kin("unassessed")}
    [] OTHER -> {Kin("none")}]
=============================================================================
