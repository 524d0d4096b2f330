------------------------------- MODULE Parser -------------------------------
(***************************************************************************)
(* The tokenizer of internal/stream on its input buffer.  Every step asks  *)
(* the buffer for one byte, or for its window, and a read may happen before*)
(* any of them; so a reader decides where a token, a rune, a line end or a *)
(* terminator is cut in two, and none of that may show in the tokens.      *)
(*                                                                         *)
(* Bytes are the members of a small set: markup characters, "sp", "lf" and *)
(* "cr", "a" for an ordinary character, "lead" and "tail" for the bytes of *)
(* a rune, "bad" for one that XML does not admit.  "x" is the name xml, "[" *)
(* is [CDATA[, the entity a is declared and stands for "e".  Of XML        *)
(* declarations there are "v", which is right, and "u", which declares an  *)
(* encoding other than UTF-8.                                              *)
(***************************************************************************)
EXTENDS ByteStream, SequencesExt

ASSUME ParserAssumption == \A i \in Inputs : i.maxToken \in Int /\ i.maxAttrs \in Int

VARIABLES
  pc,      \* where Reset or Next is
  p,       \* Parser
  tokens,  \* what Next has returned
  result   \* the error that ended it

vars == <<input, given, br, pc, p, tokens, result>>
reading == <<pc, p, tokens, result>>

Space == {"sp", "lf", "cr"}
NameTerminators == Space \union {"/", ">", "="}
Syntax == {"syntax"}

(* Instance documents are read without comments and instructions and with  *)
(* attribute values that are slices of one buffer, schemas with both.      *)
Emits == input.mode = "schema"
Lazy == input.mode = "instance"

Init ==
  /\ StreamInit
  /\ pc = "prefix"
  /\ p = [place |-> "text", name |-> <<>>, element |-> <<>>, attrs |-> <<>>, ends |-> <<>>,
          out |-> <<>>, entity |-> <<>>, matched |-> 0, retained |-> 0, at |-> <<0, 0>>,
          hadSpace |-> FALSE, hasEnd |-> FALSE, inCDATA |-> FALSE, atStart |-> TRUE, want |-> 0]
  /\ tokens = <<>>
  /\ result = Nil

-----------------------------------------------------------------------------
(* How a step ends.                                                        *)
Stop(err) == pc' = "done" /\ result' = err /\ UNCHANGED <<p, tokens>>

Return(token, q) ==
  /\ pc' = "next" /\ p' = [q EXCEPT !.atStart = FALSE]
  /\ tokens' = Append(tokens, token)
  /\ UNCHANGED result

(* A comment or an instruction that is not emitted: Next goes on.          *)
Skip(q) == pc' = "next" /\ p' = [q EXCEPT !.atStart = FALSE] /\ UNCHANGED <<tokens, result>>

OverLimit(n) == input.maxToken > 0 /\ n > input.maxToken

Goto(where, q) ==
  IF OverLimit(q.retained) THEN Stop({"token"})
  ELSE pc' = where /\ p' = q /\ UNCHANGED <<tokens, result>>

(* appendTokenBytes, unless the place is skipped.                          *)
Keeps(q) == q.place \in {"text", "cdata", "value", "declaration"} \/ Emits

(* Slip: what goes to the buffer of all values is not counted.             *)
KeptUncounted(q, bytes) ==
  CASE ~Keeps(q) -> q
    [] Keeps(q) /\ Lazy /\ q.place = "value" -> [q EXCEPT !.out = @ \o bytes]
    [] OTHER -> [q EXCEPT !.out = @ \o bytes, !.retained = @ + Len(bytes)]

Kept(q, bytes) ==
  IF Keeps(q) THEN [q EXCEPT !.out = @ \o bytes, !.retained = @ + Len(bytes)] ELSE q

CDATAChunk(q) ==
  Return([kind |-> "cdata", data |-> q.out, at |-> q.at, more |-> TRUE], q)

(* On to the next byte of the place.  A CDATA section that fills the       *)
(* buffer is returned in pieces.                                           *)
Resume(q) ==
  IF q.place = "cdata" /\ Len(q.out) >= Capacity /\ ~OverLimit(q.retained)
  THEN CDATAChunk(q)
  ELSE Goto("scan", q)

(* appendXMLRune and consumeXMLRune.                                       *)
Rune(q, b) ==
  IF OverLimit(q.retained) THEN Stop({"token"})
  ELSE CASE b = "lead" -> Goto("rune", q)
         [] b \in {"tail", "bad"} -> Stop(Syntax)
         [] OTHER -> Resume(Kept(q, <<b>>))

FinishRune(b) == IF b = "tail" THEN Resume(Kept(p, <<"lead", "tail">>)) ELSE Stop(Syntax)

(* After a carriage return, whether or not it was followed by a line feed. *)
LineEnd == Resume(Kept(p, <<IF p.place = "value" THEN "sp" ELSE LineFeed>>))

(* readEntity.  The reference is counted while it is read.                 *)
Entity(b) ==
  IF b # ";"
  THEN IF OverLimit(p.retained + Len(p.entity) + 1) THEN Stop({"token"})
       ELSE Goto("entity", [p EXCEPT !.entity = Append(@, b)])
  ELSE IF p.entity # <<"a">> THEN Stop(Syntax)
  ELSE IF OverLimit(p.retained + Len(p.entity) + 1) THEN Stop({"token"})
  ELSE Resume(Kept([p EXCEPT !.entity = <<>>], <<"e">>))

-----------------------------------------------------------------------------
(* Character data.                                                         *)
AdvanceCDATAEnd(matched, b) ==
  CASE b = "]" -> Min({matched + 1, 2})
    [] matched = 2 /\ b = ">" -> 3
    [] OTHER -> 0

(* What scanCharDataChunk passes over: not markup, not a line end, and of  *)
(* a rune all bytes or none.                                               *)
Ordinary(w, i) ==
  CASE w[i] = "lead" -> i < Len(w) /\ w[i + 1] = "tail"
    [] w[i] = "tail" -> i > 1 /\ w[i - 1] = "lead"
    [] OTHER -> w[i] \notin {"<", "&", "lf", "cr", "bad"}

ChunkLength(w) == Max({n \in 0..Len(w) : \A i \in 1..n : Ordinary(w, i)})
MatchedAfter(matched, s) == FoldLeft(AdvanceCDATAEnd, matched, s)

BadChunk(w, matched) ==
  LET n == ChunkLength(w) IN
  \/ \E k \in 1..n : MatchedAfter(matched, SubSeq(w, 1, k)) = 3
  \/ /\ n < Len(w)
     /\ w[n + 1] \in {"bad", "tail"} \/ (w[n + 1] = "lead" /\ n + 1 < Len(w))

(* Slip: the brackets before a line end or a reference are remembered.     *)
TextByteRemembering(q, b) ==
  CASE b = "cr" -> Goto("linefeed", q)
    [] b = "&" -> Goto("entity", q)
    [] OTHER ->
         LET matched == AdvanceCDATAEnd(q.matched, b)
         IN  IF matched = 3 THEN Stop(Syntax) ELSE Rune([q EXCEPT !.matched = matched], b)

TextByte(q, b) ==
  CASE b = "cr" -> Goto("linefeed", [q EXCEPT !.matched = 0])
    [] b = "&" -> Goto("entity", [q EXCEPT !.matched = 0])
    [] OTHER ->
         LET matched == AdvanceCDATAEnd(q.matched, b)
         IN  IF matched = 3 THEN Stop(Syntax) ELSE Rune([q EXCEPT !.matched = matched], b)

TextToken(q) == Return([kind |-> "text", data |-> q.out, at |-> q.at], q)

ScanText ==
  LET n == ChunkLength(Window)
      q == [Kept(p, SubSeq(Window, 1, n)) EXCEPT
              !.matched = MatchedAfter(p.matched, SubSeq(Window, 1, n))]
  IN  IF BadChunk(Window, p.matched) THEN Stop(Syntax) /\ UNCHANGED stream
      ELSE IF n > 0 /\ OverLimit(q.retained) THEN Stop({"token"}) /\ UNCHANGED stream
      ELSE IF n > 0 THEN Goto("scan", q) /\ ConsumeBuffered(n)
      ELSE IF FirstByte = "<" THEN TextToken(p) /\ Peek
      ELSE TextByte(p, FirstByte) /\ ReadByte

(* CDATA: brackets wait until it is clear that they do not end the section.*)
Pending(q) == [Kept(q, [i \in 1..q.matched |-> "]"]) EXCEPT !.matched = 0]

ScanCDATA(b) ==
  CASE b = "]" -> IF p.matched = 2 THEN Resume(Kept(p, <<b>>))
                  ELSE Resume([p EXCEPT !.matched = @ + 1])
    [] b = ">" /\ p.matched = 2 ->
         Return([kind |-> "cdata", data |-> p.out, at |-> p.at, more |-> FALSE],
                [p EXCEPT !.inCDATA = FALSE, !.matched = 0])
    [] b = "cr" -> Goto("linefeed", Pending(p))
    [] OTHER -> Rune(Pending(p), b)

-----------------------------------------------------------------------------
(* Comments and processing instructions.                                   *)
ScanComment(b) ==
  IF b = "-"
  THEN IF p.matched = 1 THEN Goto("commentEnd", p) ELSE Goto("scan", [p EXCEPT !.matched = 1])
  ELSE Rune(IF p.matched = 1 THEN [Kept(p, <<"-">>) EXCEPT !.matched = 0] ELSE p, b)

CommentEnd(b) ==
  IF b # ">" THEN Stop(Syntax)
  ELSE IF Emits THEN Return([kind |-> "comment", data |-> p.out, at |-> p.at], p)
  ELSE Skip(p)

ValidRunes(s) ==
  \A i \in DOMAIN s :
    /\ s[i] # "bad"
    /\ s[i] = "lead" => i < Len(s) /\ s[i + 1] = "tail"
    /\ s[i] = "tail" => i > 1 /\ s[i - 1] = "lead"

ValidName(s) == s # <<>> /\ ValidRunes(s) /\ ToSet(s) \subseteq {"a", "x", "lead", "tail"}

Instruction(content) == [kind |-> "instruction", name |-> p.name, data |-> content, at |-> p.at]

(* The target up to "?" or a space.  The target xml is that of a           *)
(* declaration, which stands at the start and has content.                 *)
Target(b) ==
  IF b \notin Space \union {"?"}
  THEN Goto("target", [p EXCEPT !.name = Append(@, b), !.retained = @ + 1])
  ELSE IF ~ValidName(p.name) \/ (p.name = <<"x">> /\ (~p.atStart \/ b = "?")) THEN Stop(Syntax)
  ELSE IF b = "?" THEN Goto("targetEnd", p)
  ELSE Goto("scan", [p EXCEPT !.out = <<>>, !.matched = 0,
                              !.place = IF p.name = <<"x">> THEN "declaration" ELSE "content"])

TargetEnd(b) ==
  IF b # ">" THEN Stop(Syntax)
  ELSE IF Emits THEN Return(Instruction(<<>>), p) ELSE Skip(p)

FinishContent ==
  IF ~Keeps(p) THEN Skip(p)
  ELSE IF ~ValidRunes(p.out) THEN Stop(Syntax)
  ELSE IF p.place = "content" THEN Return(Instruction(p.out), p)
  ELSE CASE p.out = <<"v">> -> Skip(p)
         [] p.out # <<>> /\ Head(p.out) = "u" -> Stop({"unsupported"})
         [] OTHER -> Stop(Syntax)

(* readUntil and skipUntil with the terminator "?>".                       *)
ScanContent(b) ==
  LET next == CASE b = "?" -> 1 [] p.matched = 1 /\ b = ">" -> 2 [] OTHER -> 0
      confirmed == IF p.matched = 1 THEN <<"?">> ELSE <<>>
      data == CASE next = 0 -> Append(confirmed, b) [] next = 1 -> confirmed [] OTHER -> <<>>
      q == [p EXCEPT !.matched = next]
  IN  IF ~Keeps(p) /\ b \in {"lead", "tail", "bad"} THEN Rune(q, b)
      ELSE IF next = 2 THEN FinishContent
      ELSE Goto("scan", Kept(q, data))

-----------------------------------------------------------------------------
(* Tags.                                                                   *)
Name(place, b, q) ==
  Goto("name", [q EXCEPT !.place = place, !.name = <<b>>, !.retained = @ + 1])

FinishName(q) ==
  IF ~ValidName(q.name) THEN Stop(Syntax)
  ELSE CASE q.place = "start" ->
              Goto("tag", [q EXCEPT !.element = q.name, !.attrs = <<>>, !.ends = <<>>,
                                    !.out = <<>>, !.hadSpace = FALSE])
         [] q.place = "end" -> Goto("endTag", q)
         [] OTHER -> IF input.maxAttrs > 0 /\ Len(q.attrs) + 1 > input.maxAttrs
                     THEN Stop({"attributes"})
                     ELSE Goto("equals", q)

(* readName: as much of the name as the window holds.                      *)
ScanName ==
  LET w == Window
      n == Max({k \in 0..Len(w) : \A i \in 1..k : w[i] \notin NameTerminators})
      q == [p EXCEPT !.name = @ \o SubSeq(w, 1, n), !.retained = @ + n]
  IN  IF OverLimit(q.retained) THEN Stop({"token"}) /\ UNCHANGED stream
      ELSE /\ IF n < Len(w) THEN FinishName(q) ELSE Goto("name", q)
           /\ IF n > 0 THEN ConsumeBuffered(n) ELSE UNCHANGED stream

(* finishLazyAttrValues.                                                   *)
Attributes ==
  IF ~Lazy THEN p.attrs
  ELSE [i \in DOMAIN p.attrs |->
          [p.attrs[i] EXCEPT !.value =
             SubSeq(p.out, IF i = 1 THEN 1 ELSE p.ends[i - 1] + 1, p.ends[i])]]

StartToken == [kind |-> "start", name |-> p.element, attrs |-> Attributes, at |-> p.at]
EndToken(name, at) == [kind |-> "end", name |-> name, at |-> at]

Tag(b) ==
  CASE b \in Space -> Goto("tag", [p EXCEPT !.hadSpace = TRUE])
    [] b = ">" -> Return(StartToken, p)
    [] b = "/" -> Goto("emptyTag", p)
    [] OTHER -> IF p.hadSpace THEN Name("attribute", b, p) ELSE Stop(Syntax)

EmptyTag(b) ==
  IF b = ">" THEN Return(StartToken, [p EXCEPT !.hasEnd = TRUE]) ELSE Stop(Syntax)

Equals(b) ==
  CASE b \in Space -> Goto("equals", p)
    [] b = "=" -> Goto("quote", p)
    [] OTHER -> Stop(Syntax)

Quote(b) ==
  CASE b \in Space -> Goto("quote", p)
    [] b = "'" -> Goto("scan", [p EXCEPT !.place = "value", !.matched = 0,
                                         !.out = IF Lazy THEN @ ELSE <<>>])
    [] OTHER -> Stop(Syntax)

FinishValue ==
  Goto("tag", [p EXCEPT !.hadSpace = FALSE, !.ends = Append(@, Len(p.out)),
                        !.attrs = Append(@, [name |-> p.name, value |-> p.out])])

ScanValue ==
  LET w == Window
      apart == {"lead", "tail", "bad", "lf", "cr", "'", "<", "&"}
      n == Max({k \in 0..Len(w) : \A i \in 1..k : w[i] \notin apart})
      q == Kept(p, SubSeq(w, 1, n))
  IN  IF n > 0 /\ OverLimit(q.retained) THEN Stop({"token"}) /\ UNCHANGED stream
      ELSE IF n > 0 THEN Goto("scan", q) /\ ConsumeBuffered(n)
      ELSE /\ CASE FirstByte = "'" -> FinishValue
                [] FirstByte = "<" -> Stop(Syntax)
                [] FirstByte = "cr" -> Goto("linefeed", p)
                [] FirstByte = "&" -> Goto("entity", p)
                [] OTHER -> Rune(p, IF FirstByte = "lf" THEN "sp" ELSE FirstByte)
           /\ ReadByte

EndFirst(b) == IF b \in Space THEN Stop(Syntax) ELSE Name("end", b, p)

EndTag(b) ==
  CASE b \in Space -> Goto("endTag", p)
    [] b = ">" -> Return(EndToken(p.name, p.at), p)
    [] OTHER -> Stop(Syntax)

-----------------------------------------------------------------------------
(* Next, at the start of a token.                                          *)
StartToRead(b) ==
  LET at == <<AfterReadByte.line, AfterReadByte.col>>
      q == [p EXCEPT !.at = at, !.retained = 0, !.matched = 0, !.name = <<>>]
  IN  IF b = "<" THEN Goto("open", q)
      ELSE TextByte([q EXCEPT !.place = "text", !.out = <<>>, !.atStart = FALSE], b)

Open(b) ==
  CASE b = "/" -> Goto("endFirst", p)
    [] b = "!" -> Goto("bang", p)
    [] b = "?" -> Goto("target", p)
    [] OTHER -> Name("start", b, p)

Bang(b) ==
  CASE b = "-" -> Goto("dash", p)
    [] b = "[" -> Goto("scan", [p EXCEPT !.place = "cdata", !.inCDATA = TRUE, !.out = <<>>])
    [] OTHER -> Stop(Syntax)

Dash(b) == IF b = "-" THEN Goto("scan", [p EXCEPT !.place = "comment", !.out = <<>>])
           ELSE Stop(Syntax)

(* The rest of a CDATA section, and the end of an empty element.           *)
ContinueCDATA ==
  /\ pc = "next" /\ p.inCDATA
  /\ Goto("scan", [p EXCEPT !.retained = 0, !.out = <<>>, !.at = Pos])
  /\ UNCHANGED stream

PendingEnd ==
  /\ pc = "next" /\ ~p.inCDATA /\ p.hasEnd
  /\ Return(EndToken(p.element, Pos), [p EXCEPT !.hasEnd = FALSE])
  /\ UNCHANGED stream

-----------------------------------------------------------------------------
(* prepareXMLProlog: looks at the start without consuming it.              *)
PrefixLength == 4
DeclarationStart == <<"<", "?", "x">>

Preview ==
  /\ \/ pc \in {"prefix", "marked"} /\ Extend(PrefixLength)
     \/ pc = "declaration" /\ Extend(p.want)
  /\ UNCHANGED reading

StartsDeclaration(w) == Len(w) >= PrefixLength /\ SubSeq(w, 1, 3) = DeclarationStart /\ w[4] \in Space
DeclaresEncoding(w) == Len(w) > PrefixLength /\ w[PrefixLength + 1] = "u"

Prefix ==
  /\ pc \in {"prefix", "marked"}
  /\ \E err \in {Nil, br.err, {"no progress"}} :
       /\ Ensured(PrefixLength, err)
       /\ IF err # Nil /\ ~IsOnlyEOF(err) THEN Stop(err) /\ UNCHANGED stream
          ELSE IF pc = "prefix" /\ Window # <<>> /\ Head(Window) = ByteOrderMark
          THEN Goto("marked", p) /\ DiscardMark
          ELSE /\ IF StartsDeclaration(Window)
                  THEN Goto("declaration", [p EXCEPT !.want = PrefixLength])
                  ELSE Goto("next", p)
               /\ UNCHANGED stream

Closed(w) == \E i \in 1..(Len(w) - 1) : w[i] = "?" /\ w[i + 1] = ">"

(* Slip: the look ahead does not grow.                                     *)
DeclarationInPlace ==
  /\ pc = "declaration"
  /\ \E err \in {Nil, br.err, {"no progress"}} :
       /\ Ensured(p.want, err)
       /\ IF Closed(Window) \/ err # Nil \/ p.want = Capacity
          THEN IF DeclaresEncoding(Window) THEN Stop({"unsupported"}) ELSE Goto("next", p)
          ELSE Goto("declaration", p)
  /\ UNCHANGED stream

Declaration ==
  /\ pc = "declaration"
  /\ \E err \in {Nil, br.err, {"no progress"}} :
       /\ Ensured(p.want, err)
       /\ IF Closed(Window) \/ err # Nil \/ p.want = Capacity
          THEN IF DeclaresEncoding(Window) THEN Stop({"unsupported"}) ELSE Goto("next", p)
          ELSE Goto("declaration", [p EXCEPT !.want = Min({2 * @, Capacity})])
  /\ UNCHANGED stream

-----------------------------------------------------------------------------
(* What is done with a byte, with the window, and with an error.           *)
NeedsInput ==
  /\ pc \notin {"prefix", "marked", "declaration", "done"}
  /\ pc = "next" => ~p.inCDATA /\ ~p.hasEnd

FillBuffer == NeedsInput /\ Fill /\ UNCHANGED reading

OnByte ==
  /\ NeedsInput /\ ~Empty
  /\ LET b == FirstByte IN
     \/ pc = "next" /\ StartToRead(b)
     \/ pc = "open" /\ Open(b)
     \/ pc = "bang" /\ Bang(b)
     \/ pc = "dash" /\ Dash(b)
     \/ pc = "rune" /\ FinishRune(b)
     \/ pc = "entity" /\ Entity(b)
     \/ pc = "scan" /\ p.place = "cdata" /\ ScanCDATA(b)
     \/ pc = "scan" /\ p.place = "comment" /\ ScanComment(b)
     \/ pc = "scan" /\ p.place \in {"content", "declaration"} /\ ScanContent(b)
     \/ pc = "commentEnd" /\ CommentEnd(b)
     \/ pc = "target" /\ Target(b)
     \/ pc = "targetEnd" /\ TargetEnd(b)
     \/ pc = "tag" /\ Tag(b)
     \/ pc = "emptyTag" /\ EmptyTag(b)
     \/ pc = "equals" /\ Equals(b)
     \/ pc = "quote" /\ Quote(b)
     \/ pc = "endFirst" /\ EndFirst(b)
     \/ pc = "endTag" /\ EndTag(b)
  /\ ReadByte

OnWindow ==
  /\ NeedsInput /\ ~Empty
  /\ \/ pc = "scan" /\ p.place = "text" /\ ScanText
     \/ pc = "scan" /\ p.place = "value" /\ ScanValue
     \/ pc = "name" /\ ScanName

(* consumeLineFeed: a byte that is not a line feed is put back.            *)
OnLineEnd ==
  /\ pc = "linefeed" /\ ~Empty
  /\ LineEnd
  /\ IF FirstByte = LineFeed THEN ReadByte ELSE Peek

(* The places that pass io.EOF on as it is.                                *)
Unguarded == {"next", "tag", "equals", "quote", "endFirst", "endTag"}

Raised == IF br.err # Nil THEN {br.err}
          ELSE {ErrorOf(r) : r \in {r \in Reads(Capacity) : r.n = 0}}

OnError ==
  /\ NeedsInput /\ Empty
  /\ \E err \in Raised :
       /\ Raise(err)
       /\ IF ~IsOnlyEOF(err) \/ pc \in Unguarded THEN Stop(err)
          ELSE IF pc = "linefeed" THEN LineEnd
          ELSE IF pc = "scan" /\ p.place = "text" THEN TextToken(p)
          ELSE Stop(Syntax)

Next ==
  \/ Preview \/ Prefix \/ Declaration
  \/ FillBuffer \/ OnByte \/ OnWindow \/ OnLineEnd \/ OnError
  \/ ContinueCDATA \/ PendingEnd

Spec == Init /\ [][Next]_vars /\ WF_vars(Next)
=============================================================================
