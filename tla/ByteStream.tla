----------------------------- MODULE ByteStream -----------------------------
(***************************************************************************)
(* The input buffer of internal/stream: a window on what an io.Reader      *)
(* gives, one byte that may be unread, the position in the document, the   *)
(* budget of input bytes, and an error that came with data and waits until *)
(* the data is read.                                                       *)
(*                                                                         *)
(* The reader is the caller's.  It gives any number of bytes at a time and *)
(* its error with the last of them or after them; it may give nothing, and *)
(* the call may be cancelled, at any read.  An error is the set of its     *)
(* causes, {} for nil.  A byte is a member of a small set; the byte order  *)
(* mark is one byte here.                                                  *)
(***************************************************************************)
EXTENDS Integers, Sequences, FiniteSets, FiniteSetsExt

CONSTANTS
  LineFeed, ByteOrderMark,
  Capacity,    \* xmlInputBufferSize
  Inputs       \* bound of the model: what readers hold, and under which limits

ASSUME ByteStreamAssumption ==
  /\ Capacity \in Nat \ {0}
  /\ \A i \in Inputs : i.data \in Seq(STRING) /\ i.end # {} /\ i.maxBytes \in Nat

VARIABLES
  input,   \* the reader's bytes, its last error, and the limits
  given,   \* how many of them have been admitted to the buffer
  br       \* byteStream

stream == <<input, given, br>>

Nil == {}
EOF == {"eof"}

(* Every cause is io.EOF.                                                  *)
IsOnlyEOF(err) == err = EOF

StreamInit ==
  /\ input \in Inputs
  /\ given = 0
  /\ br = [buf |-> <<>>, off |-> 0, nlIndex |-> -1, line |-> 1, col |-> 0,
           lastPos |-> <<0, 0>>, unread |-> FALSE, last |-> "", err |-> Nil, readBytes |-> 0]

End == Len(br.buf)
Pos == <<br.line, br.col>>

-----------------------------------------------------------------------------
(* byteStream.read: what may come of asking for as many bytes as fit.  The *)
(* reader is asked for one byte more than the budget, which proves that    *)
(* there is more and is never shown.                                       *)
Remaining == input.maxBytes - br.readBytes

Admit(n, err) ==
  IF input.maxBytes = 0 \/ n <= Remaining
  THEN [n |-> n, raw |-> n, err |-> err]
  ELSE [n |-> Remaining, raw |-> n, err |-> err \union {"limit"}]

Asked(room) == IF input.maxBytes > 0 /\ room > Remaining THEN Remaining + 1 ELSE room

Reads(room) ==
  LET left == Len(input.data) - given
      most == Min({Asked(room), left})
  IN  IF input.maxBytes > 0 /\ Remaining < 0
      THEN {[n |-> 0, raw |-> 0, err |-> {"limit"}]}
      ELSE {[n |-> 0, raw |-> 0, err |-> {"canceled"}]}
           \union {Admit(n, Nil) : n \in 0..most}
           \union {Admit(n, input.end) : n \in {most} \intersect {left}}

Bytes(r) == SubSeq(input.data, given + 1, given + r.n)
Counted(r) == [br EXCEPT !.readBytes = IF input.maxBytes > 0 THEN @ + r.raw ELSE @]

(* A read that gives neither bytes nor an error is an error.               *)
ErrorOf(r) == IF r.err = Nil THEN {"no progress"} ELSE r.err

-----------------------------------------------------------------------------
(* fill, the first half of readByte and of buffered: an empty window is    *)
(* replaced by what a read gives.                                          *)
Empty == ~br.unread /\ br.off = End

Fill ==
  /\ Empty /\ br.err = Nil
  /\ \E r \in Reads(Capacity) :
       /\ r.n > 0
       /\ br' = [Counted(r) EXCEPT !.buf = Bytes(r), !.off = 0, !.nlIndex = -1, !.err = r.err]
       /\ given' = given + r.n
  /\ UNCHANGED input

(* The other outcome: the error that waited, or that of the read.          *)
Raise(err) ==
  /\ Empty
  /\ \/ /\ br.err # Nil /\ err = br.err
        /\ br' = [br EXCEPT !.err = Nil]
     \/ /\ br.err = Nil
        /\ \E r \in Reads(Capacity) :
             /\ r.n = 0 /\ err = ErrorOf(r)
             /\ br' = Counted(r)
  /\ UNCHANGED <<input, given>>

(* ensure, where the window has fewer than n bytes: one more read after    *)
(* those in the buffer.  The error of an empty read stays, that of a read  *)
(* without progress does not.                                              *)
Short(n) == End - br.off < n /\ End < Capacity

Extend(n) ==
  /\ Short(n) /\ br.err = Nil
  /\ \E r \in Reads(Capacity - End) :
       /\ r.n > 0 \/ r.err # Nil
       /\ br' = [Counted(r) EXCEPT !.buf = @ \o Bytes(r), !.err = r.err]
       /\ given' = given + r.n
  /\ UNCHANGED input

(* What ensure returns beside the window.                                  *)
Ensured(n, err) ==
  err = IF ~Short(n) THEN Nil ELSE IF br.err = Nil THEN {"no progress"} ELSE br.err

DiscardMark ==
  /\ br' = [br EXCEPT !.buf = Tail(@), !.off = 0, !.nlIndex = -1]
  /\ UNCHANGED <<input, given>>

-----------------------------------------------------------------------------
(* Taking bytes.                                                           *)
Advanced(b, c) ==
  IF c = LineFeed THEN [b EXCEPT !.line = @ + 1, !.col = 0] ELSE [b EXCEPT !.col = @ + 1]

(* The byte that readByte returns, and the window that buffered returns.   *)
FirstByte == IF br.unread THEN br.last ELSE br.buf[br.off + 1]
Window == IF br.unread THEN <<br.last>> ELSE SubSeq(br.buf, br.off + 1, End)

AfterReadByte ==
  IF br.unread THEN Advanced([br EXCEPT !.unread = FALSE], br.last)
  ELSE Advanced([br EXCEPT !.off = @ + 1, !.last = FirstByte, !.lastPos = Pos], FirstByte)

ReadByte == br' = AfterReadByte /\ UNCHANGED <<input, given>>

Unread(b) == [b EXCEPT !.unread = TRUE, !.line = b.lastPos[1], !.col = b.lastPos[2]]

(* readByte and unreadByte after it.                                       *)
Peek == br' = Unread(AfterReadByte) /\ UNCHANGED <<input, given>>

NextNewline(from) ==
  Min({i \in from..(End - 1) : br.buf[i + 1] = LineFeed} \union {End})

(* Slip: an index behind the window is taken for a line break.             *)
FixupWithStaleIndex(b, start) ==
  LET first == IF b.nlIndex < 0 THEN NextNewline(start) ELSE b.nlIndex
  IN  IF first >= b.off THEN [b EXCEPT !.nlIndex = first]
      ELSE [b EXCEPT !.line = @ + 1, !.col = b.off - first - 1, !.nlIndex = NextNewline(b.off)]

(* fixupLineBreaks after the bytes from start were consumed.               *)
FixupLineBreaks(b, start) ==
  LET first == IF b.nlIndex < start THEN NextNewline(start) ELSE b.nlIndex
      more == {i \in (first + 1)..(b.off - 1) : b.buf[i + 1] = LineFeed}
      last == Max(more \union {first})
  IN  IF first >= b.off THEN [b EXCEPT !.nlIndex = first]
      ELSE [b EXCEPT !.line = @ + 1 + Cardinality(more), !.col = b.off - last - 1,
                     !.nlIndex = NextNewline(b.off)]

AfterConsume(n) ==
  IF br.unread THEN Advanced([br EXCEPT !.unread = FALSE], br.last)
  ELSE LET b == [br EXCEPT !.off = @ + n, !.col = @ + n]
       IN  IF br.nlIndex < br.off + n THEN FixupLineBreaks(b, br.off) ELSE b

ConsumeBuffered(n) == br' = AfterConsume(n) /\ UNCHANGED <<input, given>>

(* What is left after the mark, up to the budget.                          *)
Marked == input.data # <<>> /\ input.data[1] = ByteOrderMark
Shown == IF input.maxBytes = 0 THEN Len(input.data) ELSE Min({input.maxBytes, Len(input.data)})
Text == SubSeq(input.data, IF Marked THEN 2 ELSE 1, Shown)

(* The bytes taken, in the document and without the mark.                  *)
Position == given - End + br.off - (IF br.unread THEN 1 ELSE 0)
Taken == Max({0, Position - (IF Marked THEN 1 ELSE 0)})
=============================================================================
