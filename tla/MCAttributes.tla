---------------------------- MODULE MCAttributes ----------------------------
(* Types of up to two children, over three namespaces.                     *)
EXTENDS AttributeProperties

MCNamespaces == {"", "t", "u"}
MCTypes == {"decimal", "integer", "id", "gone"}
MCTypeDerives == {<<t, t>> : t \in MCTypes} \union {<<"integer", "decimal">>}
MCCanonical ==
  [t \in MCTypes |->
     CASE t = "decimal" -> [v \in {"1", "01", "1.0", "2"} |-> IF v = "2" THEN "2.0" ELSE "1.0"]
       [] t = "integer" -> [v \in {"1", "01", "2"} |-> IF v = "2" THEN "2" ELSE "1"]
       [] OTHER -> [v \in {"x"} |-> v]]
MCIdentity ==
  [t \in MCTypes |-> [v \in DOMAIN MCCanonical[t] |-> IF v \in {"2", "x"} THEN v ELSE "one"]]

Name(ns, local) == [ns |-> ns, local |-> local]
a == Name("", "a")
b == Name("", "b")
ta == Name("t", "a")
uc == Name("u", "c")
Decl(type, default, fixed) == [type |-> type, default |-> default, fixed |-> fixed]
MCGlobalAttributes ==
  (ta :> Decl("decimal", None, "1.0")) @@ (uc :> Decl("id", None, None))

Local(name, type, use, fixed) ==
  [kind |-> "attribute", ref |-> FALSE, name |-> name, type |-> type, use |-> use, default |-> None, fixed |-> fixed]
Ref(name, use, fixed) ==
  [kind |-> "attribute", ref |-> TRUE, name |-> name, type |-> None, use |-> use, default |-> None, fixed |-> fixed]
Of(group) == [kind |-> "group", group |-> group]
AnyOf(form, target, process) ==
  [kind |-> "any", spec |-> [form |-> form, target |-> target, parts |-> {}, process |-> process]]
ListOf(target, parts, process) ==
  [kind |-> "any", spec |-> [form |-> "list", target |-> target, parts |-> parts, process |-> process]]

MCAttributeGroups ==
  [g \in {"g", "h", "r"} |->
     CASE g = "g" -> <<Local(b, "integer", "optional", None), AnyOf("##other", "t", Lax)>>
       [] g = "h" -> <<Of("g"), ListOf("u", {"##local", "##targetNamespace"}, Strict)>>
       [] g = "r" -> <<Of("r")>>]

Attribute(use) == Local(a, "decimal", use, None)
MCBaseChildren ==
  {Attribute("optional"), Attribute("required"), Local(a, "decimal", "optional", "1.0"), Local(b, "id", "optional", None),
   Ref(ta, "optional", None), Ref(uc, "optional", None), Of("h"), AnyOf("##any", "t", Lax),
   AnyOf("##other", "t", Strict), AnyOf("##other", "u", Lax), ListOf("t", {"##local", "t"}, Skip)}
MCDerivedChildren ==
  {Attribute("required"), Attribute("prohibited"), Local(a, "integer", "required", "1"), Local(b, "integer", "optional", None),
   Local(a, "gone", "optional", "1"), [Local(a, "integer", "optional", None) EXCEPT !.default = "2"],
   Ref(ta, "required", "1"), Ref(uc, "optional", None), Of("h"), Of("r")}
  \union {AnyOf("##other", "t", Strict), AnyOf("##other", "", Skip), AnyOf("##targetNamespace", "t", Lax),
          AnyOf("##local", "t", Skip), ListOf("t", {"##local", "u"}, Strict), ListOf("t", {"##local", "t"}, Skip)}
MCChildren == [base |-> MCBaseChildren, derived |-> MCDerivedChildren]

At(name, value) == [kind |-> "plain", name |-> name, value |-> value]
MCInstanceAttributes ==
  {<<>>, <<[kind |-> "xsi", name |-> Name("xsi", "nil"), value |-> "x"], At(a, "01")>>,
   <<At(b, "x"), At(uc, "x")>>, <<At(ta, "1.0"), At(a, "1")>>, <<At(Name("u", "n"), "1"), At(a, "2")>>}
=============================================================================
