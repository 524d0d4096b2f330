------------------------------ MODULE MCParser ------------------------------
(***************************************************************************)
(* Inputs for Parser: everything short that can stand in each place of a   *)
(* document, and documents on which limits bite.                           *)
(***************************************************************************)
EXTENDS ParserProperties

Strings(bytes, n) == UNION {[1..k -> bytes] : k \in 0..n}
Around(open, inner, close) == {open \o s \o c : s \in inner, c \in close}

Texts ==
  Strings({"]", ">", "cr", "lf", "lead", "tail"}, 3)
    \union Strings({"]", ">", "&", "a", ";"}, 3)
    \union Around(<<"a">>, Strings({"cr", "&", "a", ";", "bad"}, 3), {<<"<">>, <<"<", "a", ">">>})
    \union Around(<<"]">>, Strings({"]", ">"}, 4), {<<"a">>})
    \union Around(<<"]", "]">>, Strings({"cr", "lf", "&", "a", ";"}, 3), {<<">">>})

Sections ==
  Around(<<"<", "!", "[">>,
         Strings({"]", ">", "cr", "lf"}, 3) \union Strings({"]", "a", "lead", "tail"}, 3),
         {<<"]", "]", ">", "a">>, <<"]">>})
    \union Around(<<"<", "!", "[">>, Strings({"]", "a"}, 6), {<<"]", "]", ">">>})

Comments ==
  Around(<<"<", "!", "-">>, Strings({"-", ">", "lead", "tail"}, 3) \union Strings({"-", ">"}, 4), {<<>>, <<"a">>})

Instructions ==
  Around(<<"<", "?">>, Strings({"a", "sp", "?", ">"}, 4), {<<>>})
    \union Around(<<"<", "?">>, Strings({"a", "sp", "?", "x"}, 2), {<<>>, <<"?", ">">>})
    \union Around(<<"<", "?", "x", "sp">>, Strings({"u", "v", "?"}, 2), {<<>>, <<"?", ">">>, <<"?", ">", "<">>})
    \union Around(<<"<", "?", "a", "lf">>, Strings({"?", "lead", "tail", "bad"}, 2), {<<>>, <<"?", ">">>})

Tags ==
  Around(<<"<">>, Strings({"a", "sp", "/", ">", "="}, 3), {<<>>, <<">">>})
    \union Around(<<"<", "a">>, Strings({"sp", "a", "=", "'"}, 4), {<<"'", ">">>})

Attributed ==
  Around(<<"<", "a", "sp", "a", "=", "'">>, Strings({"cr", "lf", "&", "a", ";", "<"}, 3), {<<"'", ">">>})
    \union Around(<<"<", "a", "sp", "a", "=", "'">>, Strings({"a", "'", "sp", "="}, 3), {<<"'", "/", ">">>})

Typical ==
  {<<"<", "a", ">", "a", "cr", "lf", "a", "<", "/", "a", ">">>,
   <<"<", "a", "sp", "x", "=", "'", "a", "'", "sp", "a", "=", "'", "e", "'", "/", ">">>,
   <<"<", "!", "[", "a", "]", "a", "a", "]", "]", "]", ">", "a">>,
   <<"<", "?", "x", "sp", "v", "?", ">", "lf", "<", "a", "/", ">">>,
   <<"<", "?", "a", "sp", "?", "a", "?", ">", "a", "&", "a", ";", "a">>}

Mark == <<ByteOrderMark>>

Given(data, end, maxBytes, maxToken, maxAttrs, mode) ==
  [data |-> data, end |-> end, maxBytes |-> maxBytes, maxToken |-> maxToken,
   maxAttrs |-> maxAttrs, mode |-> mode]

Plain(texts, mode) == {Given(t, EOF, 0, 0, 0, mode) : t \in texts}

MCInputs ==
  Plain(Texts \union Sections \union Instructions \union Tags \union Attributed, "instance")
    \union Plain(Comments \union Instructions \union Attributed, "schema")
    \union {Given(m \o t, end, b, k, n, mode) :
              m \in {<<>>, Mark}, t \in Typical, end \in {EOF, {"broken"}},
              b \in {0, 5, 8, 11}, k \in {0, 2}, n \in {0, 1}, mode \in {"instance", "schema"}}
    \union {Given(t, EOF, 0, k, 0, mode) : t \in Typical, k \in 1..6, mode \in {"instance", "schema"}}
=============================================================================
