-------------------------- MODULE ParserReference --------------------------
(***************************************************************************)
(* The tokens of a text, by a grammar on the whole of it: no window, no    *)
(* reads, no state.  It is the reference for Parser.                       *)
(*                                                                         *)
(* `end' says how the tokens end: "end" when the input is exhausted        *)
(* between two tokens or in character data, "cut" when it is exhausted     *)
(* inside a tag where the next thing is a delimiter or a name, "within"    *)
(* when it is exhausted elsewhere, "unterminated" in a declaration of an   *)
(* encoding, and otherwise what is wrong.  A cost is the most bytes that   *)
(* are retained while the token is read.                                   *)
(***************************************************************************)
EXTENDS Parser

Done == Len(Text) + 1
First(bytes, i) == Min({j \in i..Len(Text) : Text[j] \in bytes} \union {Done})
Other(bytes, i) == Min({j \in i..Len(Text) : Text[j] \notin bytes} \union {Done})
FirstOf(term, i) ==
  Min({j \in i..(Done - Len(term)) : SubSeq(Text, j, j + Len(term) - 1) = term} \union {Done})
Between(i, j) == SubSeq(Text, i, j - 1)

(* Line and column behind byte i.                                          *)
Place(i) ==
  LET breaks == {j \in 1..i : Text[j] = LineFeed}
  IN  <<1 + Cardinality(breaks), i - Max(breaks \union {0})>>

Failed(why) == [tokens |-> <<>>, next |-> Done, end |-> why]
Read(found, next) == [tokens |-> found, next |-> next, end |-> "ok"]

(* Valid runes; the last may be incomplete if the text ends there.         *)
SoFar(s, j) ==
  ValidRunes(s) \/ (j = Done /\ s # <<>> /\ Last(s) = "lead" /\ ValidRunes(Front(s)))

(* Line ends, references and runes from i to the first of the stops.  The   *)
(* cost counts what is retained from i on.                                 *)
InText == {"<"}
InValue == {"<", "'"}

Characters[i \in 1..Done, stops \in {InText, InValue}] ==
  LET unit(out, next, peak) ==
        LET r == Characters[next, stops]
        IN  [r EXCEPT !.out = out \o @, !.cost = Max({Len(out) + @, peak})]
      fail(why) == [out |-> <<>>, next |-> i, why |-> why, cost |-> 0]
      semicolon == First({";"}, i)
  IN  IF i = Done THEN fail("end")
      ELSE IF Text[i] \in stops THEN fail("stop")
      ELSE CASE Text[i] = "cr" ->
                  unit(<<"lf">>, IF i + 1 < Done /\ Text[i + 1] = "lf" THEN i + 2 ELSE i + 1, 0)
             [] Text[i] = "lead" ->
                  IF i + 1 = Done THEN fail("within")
                  ELSE IF Text[i + 1] = "tail" THEN unit(<<"lead", "tail">>, i + 2, 0)
                  ELSE fail("syntax")
             [] Text[i] \in {"tail", "bad"} -> fail("syntax")
             [] Text[i] = "&" ->
                  IF semicolon = Done THEN fail("within")
                  ELSE IF Between(i + 1, semicolon) = <<"a">> THEN unit(<<"e">>, semicolon + 1, 2)
                  ELSE fail("syntax")
             [] OTHER -> unit(<<Text[i]>>, i + 1, 0)

(* Character data is a token at the end of the input, not before an error  *)
(* or at the end of the budget.                                            *)
OverBytes == input.maxBytes > 0 /\ Len(input.data) > input.maxBytes
EndsCleanly == ~OverBytes /\ IsOnlyEOF(input.end)

CharacterData(i) ==
  LET r == Characters[i, InText]
      closes == \E j \in i..(r.next - 3) : SubSeq(Text, j, j + 2) = <<"]", "]", ">">>
      token == [kind |-> "text", data |-> r.out, at |-> Place(i), cost |-> r.cost]
  IN  IF r.why = "syntax" \/ closes THEN Failed("syntax")
      ELSE IF r.why = "within" THEN Failed("within")
      ELSE IF r.why = "end" /\ ~EndsCleanly THEN Failed("end")
      ELSE Read(<<token>>, r.next)

CDATA(i) ==
  LET j == FirstOf(<<"]", "]", ">">>, i + 3)
      content == Between(i + 3, j)
      lines == SelectSeq([k \in DOMAIN content |->
                 CASE content[k] = "cr" -> "lf"
                   [] content[k] = "lf" /\ k > 1 /\ content[k - 1] = "cr" -> "none"
                   [] OTHER -> content[k]], LAMBDA b : b # "none")
  IN  IF ~SoFar(content, j) THEN Failed("syntax")
      ELSE IF j = Done THEN Failed("within")
      ELSE Read(<<[kind |-> "cdata", data |-> lines, at |-> Place(i), cost |-> Len(lines)]>>, j + 3)

Comment(i) ==
  LET j == FirstOf(<<"-", "-">>, i + 4)
      content == Between(i + 4, j)
      token == [kind |-> IF Emits THEN "comment" ELSE "skipped", data |-> content,
                at |-> Place(i), cost |-> IF Emits THEN Len(content) ELSE 0]
  IN  IF i + 3 >= Done THEN Failed("within")
      ELSE IF Text[i + 3] # "-" \/ ~SoFar(content, j) THEN Failed("syntax")
      ELSE IF j + 2 >= Done THEN Failed("within")
      ELSE IF Text[j + 2] = ">" THEN Read(<<token>>, j + 3)
      ELSE Failed("syntax")

PI(i) ==
  LET j == First(Space \union {"?"}, i + 2)
      name == Between(i + 2, j)
      close == FirstOf(<<"?", ">">>, IF j < Done /\ Text[j] = "?" THEN j ELSE j + 1)
      content == Between(j + 1, close)
      xml == name = <<"x">>
      kept == xml \/ Emits
      token == [kind |-> IF Emits /\ ~xml THEN "instruction" ELSE "skipped", name |-> name,
                data |-> content, at |-> Place(i),
                cost |-> Len(name) + (IF kept THEN Len(content) ELSE 0)]
  IN  IF j = Done THEN Failed("within")
      ELSE IF ~ValidName(name) \/ (xml /\ (i > 1 \/ Text[j] = "?")) THEN Failed("syntax")
      ELSE IF xml /\ j + 1 < Done /\ Text[j + 1] = "u"
           THEN Failed(IF close = Done THEN "unterminated" ELSE "unsupported")
      ELSE IF Text[j] = "?" /\ j + 1 < Done /\ Text[j + 1] # ">" THEN Failed("syntax")
      ELSE IF close = Done
           THEN Failed(IF kept \/ SoFar(content, Done) THEN "within" ELSE "syntax")
      ELSE IF ~ValidRunes(content) \/ (xml /\ content # <<"v">>) THEN Failed("syntax")
      ELSE Read(<<token>>, close + 2)

-----------------------------------------------------------------------------
(* A name has at least one byte, whatever that is.                         *)
NameEnd(i) == First(NameTerminators, i + 1)
BadName(i) ==
  CASE i = Done -> "cut"
    [] i < Done /\ NameEnd(i) = Done -> "within"
    [] OTHER -> IF ValidName(Between(i, NameEnd(i))) THEN "" ELSE "syntax"

EndOf(i) ==
  LET j == NameEnd(i + 2)
      close == Other(Space, j)
      token == [kind |-> "end", name |-> Between(i + 2, j), at |-> Place(i), cost |-> j - i - 2]
  IN  IF i + 2 < Done /\ Text[i + 2] \in Space THEN Failed("syntax")
      ELSE IF BadName(i + 2) # "" THEN Failed(BadName(i + 2))
      ELSE IF close = Done THEN Failed("cut")
      ELSE IF Text[close] = ">" THEN Read(<<token>>, close + 1)
      ELSE Failed("syntax")

(* Attributes from j on, after n others.                                   *)
AttributesFrom[j \in 1..Done, n \in 0..Done] ==
  LET m == Other(Space, j)
      name == Between(m, NameEnd(m))
      equals == Other(Space, NameEnd(m))
      quote == Other(Space, equals + 1)
      value == Characters[quote + 1, InValue]
      spaced == [k \in DOMAIN value.out |-> IF value.out[k] = "lf" THEN "sp" ELSE value.out[k]]
      rest == AttributesFrom[value.next + 1, n + 1]
      fail(why) == [attrs |-> <<>>, next |-> Done, end |-> why, cost |-> 0, empty |-> FALSE]
      close(k, empty) == [attrs |-> <<>>, next |-> k, end |-> "ok", cost |-> 0, empty |-> empty]
  IN  IF m = Done THEN fail("cut")
      ELSE IF Text[m] = ">" THEN close(m + 1, FALSE)
      ELSE IF Text[m] = "/"
      THEN IF m + 1 = Done THEN fail("within")
           ELSE IF Text[m + 1] = ">" THEN close(m + 2, TRUE) ELSE fail("syntax")
      ELSE IF m = j THEN fail("syntax")
      ELSE IF BadName(m) # "" THEN fail(BadName(m))
      ELSE IF input.maxAttrs > 0 /\ n + 1 > input.maxAttrs THEN fail("attributes")
      ELSE IF equals = Done THEN fail("cut")
      ELSE IF Text[equals] # "=" THEN fail("syntax")
      ELSE IF quote = Done THEN fail("cut")
      ELSE IF Text[quote] # "'" THEN fail("syntax")
      ELSE IF value.why \in {"end", "within"} THEN fail("within")
      ELSE IF value.why = "syntax" \/ Text[value.next] = "<" THEN fail("syntax")
      ELSE [rest EXCEPT !.attrs = <<[name |-> name, value |-> spaced]>> \o @,
                        !.cost = Len(name) + Max({value.cost, Len(spaced) + @})]

StartOf(i) ==
  LET n == NameEnd(i + 1)
      name == Between(i + 1, n)
      found(rest) ==
        <<[kind |-> "start", name |-> name, attrs |-> rest.attrs, at |-> Place(i),
           cost |-> Len(name) + rest.cost]>>
          \o (IF rest.empty
              THEN <<[kind |-> "end", name |-> name, at |-> Place(rest.next - 1), cost |-> 0]>>
              ELSE <<>>)
      with(rest) == IF rest.end # "ok" THEN Failed(rest.end) ELSE Read(found(rest), rest.next)
  IN  IF BadName(i + 1) # "" THEN Failed(BadName(i + 1)) ELSE with(AttributesFrom[n, 0])

Construct(i) ==
  LET second == IF i + 1 < Done THEN Text[i + 1] ELSE "none"
      third == IF i + 2 < Done THEN Text[i + 2] ELSE "none"
  IN  CASE Text[i] # "<" -> CharacterData(i)
        [] Text[i] = "<" /\ second = "none" -> Failed("within")
        [] Text[i] = "<" /\ second = "/" -> EndOf(i)
        [] Text[i] = "<" /\ second = "?" -> PI(i)
        [] Text[i] = "<" /\ second = "!" ->
             CASE third = "[" -> CDATA(i)
               [] third \in {"-", "none"} -> Comment(i)
               [] OTHER -> Failed("syntax")
        [] OTHER -> StartOf(i)

TokensFrom[i \in 1..Done] ==
  LET after(first) ==
        IF first.end # "ok" THEN [tokens |-> <<>>, end |-> first.end]
        ELSE [TokensFrom[first.next] EXCEPT !.tokens = first.tokens \o @]
  IN  IF i = Done THEN [tokens |-> <<>>, end |-> "end"] ELSE after(Construct(i))
=============================================================================
