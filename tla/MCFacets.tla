------------------------------ MODULE MCFacets ------------------------------
(***************************************************************************)
(* Small kinds: decimals with two texts of one value, digits, doubles with *)
(* a value that is not equal to itself in comparisons, durations of which  *)
(* a month is comparable with neither thirty nor thirty-one days, times    *)
(* one of which is of the day before as it is written, integers down to    *)
(* xs:int, strings, name tokens, booleans, names that need a namespace,    *)
(* IDs and references.                                                     *)
(***************************************************************************)
EXTENDS Values

Atomic == {"decimal", "digits", "integer", "double", "duration", "time", "boolean", "string", "length",
           "token", "qname", "ID", "IDREF"}
MCKinds == Atomic \union {"union"}

Low == "-2147483648"
High == "2147483647"

Values(k) ==
  CASE k = "decimal" -> <<"-1", "1", "1.0", "2", "3.5">>
    [] k = "digits" -> <<"1", "1.0", "2", "3.5">>
    [] k = "integer" -> <<Low, "0", High, "2147483648">>
    [] k = "boolean" -> <<"1", "true">>
    [] k = "qname" -> <<"n", "p:n", "q:n">>
    [] k \in {"token", "ID", "IDREF"} -> <<"i", "kk">>
    [] k = "double"   -> <<"1", "NaN", "2">>
    [] k = "duration" -> <<"P1D", "P30D", "P1M", "P31D", "P40D">>
    [] k = "time"     -> <<"12:00Z", "22:00Z", "01:00+02:00">>
    [] k = "string" -> <<"a", "ab", "abc", "a b">>
    [] k \in {"length", "union"} -> <<"a", "ab", "abc">>

Literals(k) == {Values(k)[i] : i \in DOMAIN Values(k)}
MCTexts == UNION {Literals(k) : k \in MCKinds} \union {"other"}
At(k, t) == CHOOSE i \in DOMAIN Values(k) : Values(k)[i] = t

(* Places on the line of values; the month has an interval of them.        *)
Place == [t \in MCTexts |->
  CASE t \in {"1", "1.0", "P1D", "a", "i", "true", "n"} -> 1 [] t \in {"2", "ab", "kk"} -> 2
    [] t \in {"3.5", "abc", "a b", "p:n", "q:n"} -> 3 [] t \in {"other", "-1"} -> 0
    [] t = Low -> 4 [] t = "0" -> 5 [] t = High -> 6 [] t = "2147483648" -> 7
    [] t = "P30D" -> 30 [] t = "P1M" -> 28 [] t = "P31D" -> 31 [] t = "P40D" -> 40
    [] t = "12:00Z" -> 12 [] t = "22:00Z" -> 22 [] t = "01:00+02:00" -> 23 [] t = "NaN" -> 0]
PlaceEnd == [t \in MCTexts |-> IF t = "P1M" THEN 31 ELSE Place[t]]
RawPlace == [t \in MCTexts |-> IF t = "01:00+02:00" THEN 0 ELSE Place[t]]

Compared(p, a, b) ==
  IF a = "NaN" \/ b = "NaN" THEN "incomparable"
  ELSE IF a = b THEN "equal"
  ELSE IF p = Place /\ PlaceEnd[a] < Place[b] THEN "less"
  ELSE IF p = Place /\ Place[a] > PlaceEnd[b] THEN "greater"
  ELSE IF p[a] < p[b] /\ "P1M" \notin {a, b} THEN "less"
  ELSE IF p[a] > p[b] /\ "P1M" \notin {a, b} THEN "greater"
  ELSE IF "P1M" \in {a, b} THEN "incomparable" ELSE "equal"

MCOrder == [k \in MCKinds |-> [p \in MCTexts \X MCTexts |-> Compared(Place, p[1], p[2])]]
MCWritten == [k \in MCKinds |-> [p \in MCTexts \X MCTexts |->
  IF p = <<"NaN", "NaN">> THEN "equal" ELSE Compared(IF k = "time" THEN RawPlace ELSE Place, p[1], p[2])]]
MCSame == [k \in MCKinds |-> {<<a, b>> \in MCTexts \X MCTexts :
  a = b \/ {a, b} = CASE k = "boolean" -> {"1", "true"} [] k = "qname" -> {"p:n", "q:n"} [] OTHER -> {"1", "1.0"}}]

MCSizeOf == [k \in MCKinds |-> [c \in Sizes |-> [t \in MCTexts |->
  CASE c = "totalDigits" -> IF t = "3.5" THEN 2 ELSE 1
    [] c = "fractionDigits" -> IF t = "3.5" THEN 1 ELSE 0
    [] c \in Lengths -> Place[t]]]]

MCFamily == [k \in MCKinds |->
  CASE k \in {"decimal", "digits", "integer"} -> "decimal" [] k \in {"double", "duration", "time"} -> "ordered"
    [] k \in {"string", "length", "token", "ID", "IDREF"} -> "measured" [] k \in {"boolean", "qname"} -> "plain"
    [] k = "union" -> "union"]
MCCompanions == {"boolean", "token", "IDREF", "qname"}
MCSpace == [k \in MCKinds |->
  IF k \in {"string", "length"} THEN Literals("string") \union UNION {Literals(c) : c \in MCCompanions} \union {"other"}
  ELSE Literals(k)]
MCWhiteSpaceOf == [k \in MCKinds |-> IF k \in {"string", "length"} THEN 1 ELSE 2]

Facet(facets, values, fixed) == {[facet |-> f, value |-> v, fixed |-> x] : f \in facets, v \in values, x \in fixed}

MCOffers == [k \in MCKinds |->
  CASE k = "decimal" -> Facet(Bounds, {"1", "2"}, {FALSE}) \union Facet({"minInclusive"}, {"1", "1.0"}, {TRUE})
         \union Facet({"minInclusive"}, {"-1"}, {FALSE}) \union Facet({"enumeration"}, {"1"}, {FALSE})
         \union Facet({"pattern"}, {{"2", "3.5"}}, {FALSE})
    [] k = "digits" -> Facet({"totalDigits", "fractionDigits"}, 0..2, BOOLEAN) \union Facet({"minLength"}, {1}, {FALSE})
         \union Facet({"enumeration"}, {"1.0", "3.5"}, {FALSE})
    [] k = "double" -> Facet(Bounds, {"1", "NaN"}, {FALSE}) \union Facet({"maxInclusive"}, {"NaN"}, {TRUE})
         \union Facet({"pattern"}, {{"NaN", "1"}}, {FALSE}) \union Facet({"enumeration"}, {"NaN"}, {FALSE})
    [] k = "duration" -> Facet(Bounds, {"P30D", "P1M", "P31D"}, {FALSE})
    [] k = "time" -> Facet(Bounds, Literals("time"), {FALSE})
    [] k = "integer" -> Facet({"fractionDigits"}, {0}, {FALSE}) \union Facet({"minInclusive"}, {Low, "0"}, {FALSE})
         \union Facet({"maxInclusive"}, {High}, {FALSE}) \union Facet({"pattern"}, {{"0", High}}, {FALSE})
    [] k = "boolean" -> Facet({"pattern"}, {{"true"}}, {FALSE})
    [] k = "token" -> Facet({"pattern"}, {{"i"}}, {FALSE}) \union Facet({"enumeration"}, {"i"}, {FALSE})
         \union Facet({"maxLength"}, {1}, {FALSE})
    [] k = "qname" -> Facet({"pattern"}, {{"n", "p:n"}}, {FALSE}) \union Facet({"enumeration"}, {"p:n"}, {FALSE})
    [] k \in {"ID", "IDREF"} -> Facet({"pattern"}, {{"i"}}, {FALSE}) \union Facet({"minLength"}, {1}, {FALSE})
    [] k = "length" -> Facet(Lengths, 1..2, {FALSE}) \union Facet({"maxLength"}, {2}, {TRUE})
    [] k = "string" -> Facet({"whiteSpace"}, 0..2, BOOLEAN) \union Facet({"pattern"}, {{"a", "ab"}, {"abc"}}, {FALSE})
         \union Facet({"enumeration"}, {"ab", "abc"}, {FALSE})
    [] k = "union" -> Facet({"pattern"}, {{"a", "ab"}, {"ab", "abc"}}, {FALSE})
         \union Facet({"enumeration"}, {"a", "ab"}, {FALSE}) \union Facet({"whiteSpace"}, {2}, {FALSE})]

MCPrimitive == [k \in Atomic |->
  CASE k \in {"decimal", "digits", "integer"} -> "decimal"
    [] k \in {"string", "length", "token", "ID", "IDREF"} -> "string"
    [] k = "qname" -> "QName" [] OTHER -> k]
MCBuiltin == [k \in Atomic |->
  CASE k = "integer" -> "integer" [] k = "token" -> "NMTOKEN" [] k \in {"ID", "IDREF"} -> "NCName" [] OTHER -> "none"]
MCIdentityOf == [k \in Atomic |-> IF k \in {"ID", "IDREF"} THEN k ELSE "none"]
MCExtremes == <<Low, High>>

(* Canonical forms: a decimal has a point, an integer has none, and a name *)
(* has the namespace of its prefix.                                        *)
MCNumeric == [k \in Atomic |-> [t \in MCTexts |->
  CASE k \in {"decimal", "digits"} /\ t \in {"1", "1.0"} -> "1.0" [] k = "boolean" -> "true"
    [] k = "qname" /\ t \in {"p:n", "q:n"} -> "{u}n" [] k = "qname" /\ t = "n" -> "{d}n"
    [] k = "integer" /\ t = "0" -> "0.0" [] OTHER -> t]]
MCCanonical == [MCNumeric EXCEPT !["integer"] = [t \in MCTexts |-> t]]

MCWords == [k \in Atomic |-> (Literals(k) \ {"a b"}) \union (IF k \in {"string", "length"} THEN {} ELSE {"other"})]
MCMaxJudged == [k \in Atomic |-> IF k \in {"integer", "token", "boolean", "qname"} THEN 2 ELSE 1]
=============================================================================
