-------------------------- MODULE ParserProperties --------------------------
(***************************************************************************)
(* What the tokenizer and its buffer promise.                              *)
(***************************************************************************)
EXTENDS ParserReference

(* byteStream is a text without a buffer: no byte is lost, repeated or     *)
(* reordered by a read, an unread byte or a look ahead, none beyond the    *)
(* budget is seen, and line and column are those of what was taken.        *)
Source == INSTANCE ByteSource WITH
            text <- Text, taken <- Taken, line <- br.line, col <- br.col
IsByteSource == Source!Spec

-----------------------------------------------------------------------------
(* Pieces of one CDATA section are one token.                              *)
Joined(acc, token) ==
  IF acc # <<>> /\ Last(acc).kind = "cdata" /\ Last(acc).more
  THEN Append(Front(acc), [Last(acc) EXCEPT !.data = @ \o token.data, !.more = token.more])
  ELSE Append(acc, token)

Whole(token) == ~(token.kind = "cdata" /\ token.more)
Visible(token) == token.kind # "skipped"

Returned == FoldLeft(Joined, <<>>, tokens)
Complete == SelectSeq(Returned, Whole)

Same(token, other) ==
  \A field \in {"kind", "name", "data", "attrs", "at"} \intersect DOMAIN other :
    token[field] = other[field]

(* A start that cannot be looked at is not read.                           *)
Reference ==
  IF Len(Text) < PrefixLength /\ ~EndsCleanly THEN [tokens |-> <<>>, end |-> "end"]
  ELSE TokensFrom[1]

IsCause(err) == IF OverBytes THEN "limit" \in err ELSE err = input.end

Interrupted == result \intersect {"canceled", "no progress"} # {}
OverToken == result = {"token"}

(* However the reader cuts the input, whatever it reports and wherever the *)
(* budget ends, Next returns the tokens of the grammar, at their places,   *)
(* and then says how the input ends.  A call that is stopped has returned  *)
(* the first of them; the token limit stops it only where the next token   *)
(* would go beyond it or is malformed.                                     *)
TokensAreRight ==
  pc = "done" =>
    LET reference == Reference
        expected == SelectSeq(reference.tokens, Visible)
        rank(k) == Len(SelectSeq(SubSeq(reference.tokens, 1, k - 1), Visible))
        read == {k \in DOMAIN reference.tokens : rank(k) < Len(Complete)}
        next == {k \in DOMAIN reference.tokens : rank(k) = Len(Complete)}
        costly(k) == OverLimit(reference.tokens[k].cost)
    IN  /\ Len(Complete) <= Len(expected)
        /\ \A k \in DOMAIN Complete : Same(Complete[k], expected[k])
        /\ Returned # Complete /\ Len(Complete) < Len(expected) =>
             /\ expected[Len(Returned)].kind = "cdata"
             /\ IsPrefix(Last(Returned).data, expected[Len(Returned)].data)
        /\ ~Interrupted /\ ~OverToken =>
             /\ Len(Complete) = Len(expected)
             /\ \/ result = {reference.end}
                \/ reference.end = "end" /\ IsCause(result)
                \/ reference.end = "unterminated" /\ result = {"unsupported"}
                \/ /\ reference.end \in {"within", "cut", "unterminated"}
                   /\ IF EndsCleanly THEN result = Syntax ELSE IsCause(result)
                \/ reference.end = "cut" /\ EndsCleanly /\ result = EOF
        /\ \A k \in read : costly(k) => reference.tokens[k].kind = "cdata"
        /\ OverToken => \/ \E k \in next : costly(k)
                        \/ /\ \A k \in next : ~Visible(reference.tokens[k])
                           /\ reference.end # "end" \/ ~EndsCleanly

(* How much of the text a token holds, all its names and values together.  *)
AddAttribute(n, a) == n + Len(a.name) + Len(a.value)
AttributesLength(attrs) == FoldLeft(AddAttribute, 0, attrs)

Length(token) ==
  CASE token.kind = "start" -> Len(token.name) + AttributesLength(token.attrs)
    [] token.kind = "end" -> Len(token.name)
    [] token.kind = "instruction" -> Len(token.name) + Len(token.data)
    [] OTHER -> Len(token.data)

Fits(token) ==
  /\ ~OverLimit(Length(token))
  /\ token.kind = "cdata" => Len(token.data) < Capacity + 4
  /\ token.kind = "start" /\ input.maxAttrs > 0 => Len(token.attrs) <= input.maxAttrs

(* No token is longer than the limit, none has more attributes than the    *)
(* limit, and a CDATA section is returned in pieces not much larger than   *)
(* the buffer.                                                             *)
LimitsAreKept == \A k \in DOMAIN tokens : Fits(tokens[k])

(* Every call returns in the end, if the reader's do.                      *)
ParserStops == <>(pc = "done")

(* An input that ends inside a tag is not reported as one that has ended.  *)
TruncationIsReported ==
  pc = "done" /\ IsOnlyEOF(result) => Reference.end = "end"
=============================================================================
