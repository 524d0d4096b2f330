---------------------------- MODULE ParserProofs ----------------------------
(***************************************************************************)
(* For all readers, contents, limits and sizes of the buffer: the          *)
(* tokenizer's buffer is a text without a buffer (the steps of Parser on   *)
(* its byteStream are steps of ByteSource), and no token holds more than   *)
(* the limits of the reader allow.                                         *)
(***************************************************************************)
EXTENDS ParserProperties, FiniteSetTheorems, TLAPS

-----------------------------------------------------------------------------
(* The least and the greatest number of a set.                             *)

(* A set of natural numbers has a least one.                               *)
LEMMA MinIsLeast ==
  ASSUME NEW S, S \subseteq Nat, S # {}
  PROVE  Min(S) \in S /\ \A y \in S : Min(S) <= y
<1> DEFINE T == {1..x : x \in S}
<1>1. IsWellFoundedOn(StrictSubsetOrdering(Nat), FiniteSubsetsOf(Nat))
  BY FS_StrictSubsetOrderingWellFounded
<1>2. \A x \in S : 1..x \in SUBSET Nat /\ IsFiniteSet(1..x)
  BY FS_Interval
<1>3. T \subseteq FiniteSubsetsOf(Nat) /\ T # {}
  BY <1>2 DEF FiniteSubsetsOf
<1>4. PICK X \in T : \A Y \in T : ~(<<Y, X>> \in StrictSubsetOrdering(Nat))
  <2> HIDE DEF T
  <2>1. QED
    BY <1>1, <1>3, WFMin
<1>5. PICK x \in S : X = 1..x
  BY <1>4
<1>6. \A y \in S : x <= y
  <2>1. SUFFICES ASSUME NEW y \in S, y < x PROVE FALSE
    OBVIOUS
  <2>2. 1..y \subseteq 1..x /\ 1..y # 1..x
    <3>1. x \in 1..x /\ x \notin 1..y
      BY <2>1
    <3>2. QED
      BY <2>1, <3>1
  <2>3. 1..y \in T /\ <<1..y, 1..x>> \in StrictSubsetOrdering(Nat)
    BY <1>2, <2>2 DEF StrictSubsetOrdering
  <2>4. QED
    BY <1>4, <1>5, <2>3
<1>7. QED
  BY <1>6 DEF Min

(* A set of natural numbers with a bound has a greatest one.               *)
LEMMA MaxIsGreatest ==
  ASSUME NEW N \in Nat, NEW S, S \subseteq 0..N, S # {}
  PROVE  Max(S) \in S /\ \A y \in S : y <= Max(S)
<1> DEFINE T == {N - x : x \in S}
<1>1. T \subseteq Nat /\ T # {}
  <2>1. \A x \in S : x \in 0..N /\ N - x \in Nat
    OBVIOUS
  <2>2. QED
    BY <2>1
<1>2. Min(T) \in T /\ \A y \in T : Min(T) <= y
  BY <1>1, MinIsLeast
<1>3. PICK x \in S : Min(T) = N - x
  BY <1>2
<1>4. \A y \in S : y <= x
  <2>1. SUFFICES ASSUME NEW y \in S PROVE y <= x
    OBVIOUS
  <2>2. N - y \in T
    OBVIOUS
  <2>3. N - x <= N - y
    BY <1>2, <1>3, <2>2
  <2>4. QED
    BY <2>3
<1>5. QED
  BY <1>4 DEF Max

(* Of two numbers.                                                         *)
LEMMA MinOfTwo ==
  ASSUME NEW a \in Int, NEW b \in Int
  PROVE  Min({a, b}) = IF a <= b THEN a ELSE b
BY DEF Min

(* The greater of two numbers.                                             *)
LEMMA MaxOfTwo ==
  ASSUME NEW a \in Int, NEW b \in Int
  PROVE  Max({a, b}) = IF a >= b THEN a ELSE b
BY DEF Max

(* Two sequences one after the other.                                      *)
LEMMA ConcatFacts ==
  ASSUME NEW S, NEW s \in Seq(S), NEW t \in Seq(S)
  PROVE  /\ s \o t \in Seq(S) /\ Len(s) \in Nat /\ Len(t) \in Nat
         /\ Len(s \o t) = Len(s) + Len(t)
         /\ \A i \in 1..Len(s) : (s \o t)[i] = s[i]
         /\ \A i \in 1..Len(t) : (s \o t)[Len(s) + i] = t[i]
<1>1. /\ s \o t \in Seq(S) /\ Len(s) \in Nat /\ Len(t) \in Nat
      /\ Len(s \o t) = Len(s) + Len(t)
  OBVIOUS
<1>2. \A i \in 1..Len(s) : (s \o t)[i] = s[i]
  OBVIOUS
<1>3. \A i \in 1..Len(t) : (s \o t)[Len(s) + i] = t[i]
  OBVIOUS
<1>4. QED
  BY <1>1, <1>2, <1>3

-----------------------------------------------------------------------------
(* Lines and columns of a text.                                            *)

BreaksOf(text, n) == {i \in 1..n : text[i] = LineFeed}
LineOf(text, n) == 1 + Cardinality(BreaksOf(text, n))
LastBreak(text, n) == CHOOSE i \in BreaksOf(text, n) : \A j \in BreaksOf(text, n) : j <= i
ColumnOf(text, n) == IF BreaksOf(text, n) = {} THEN n ELSE n - LastBreak(text, n)

(* There are finitely many line breaks.                                    *)
LEMMA BreaksAreFinite ==
  ASSUME NEW text, NEW n \in Nat
  PROVE  IsFiniteSet(BreaksOf(text, n)) /\ Cardinality(BreaksOf(text, n)) \in Nat
<1>1. IsFiniteSet(1..n)
  BY FS_Interval
<1>2. BreaksOf(text, n) \in SUBSET (1..n)
  BY DEF BreaksOf
<1>3. QED
  BY <1>1, <1>2, FS_Subset, FS_CardinalityType

(* At the start.                                                           *)
LEMMA StartOfText ==
  ASSUME NEW text
  PROVE  LineOf(text, 0) = 1 /\ ColumnOf(text, 0) = 0
<1>1. BreaksOf(text, 0) = {}
  BY DEF BreaksOf
<1>2. QED
  BY <1>1, FS_EmptySet DEF LineOf, ColumnOf

(* Bytes without a line break only move the column.                        *)
LEMMA WithoutBreak ==
  ASSUME NEW text, NEW t \in Nat, NEW n \in Nat, \A i \in t + 1..t + n : text[i] # LineFeed
  PROVE  LineOf(text, t + n) = LineOf(text, t) /\ ColumnOf(text, t + n) = ColumnOf(text, t) + n
<1>1. BreaksOf(text, t + n) = BreaksOf(text, t)
  BY DEF BreaksOf
<1>2. ASSUME BreaksOf(text, t) # {}
      PROVE  LastBreak(text, t) \in Nat
  <2>1. BreaksOf(text, t) \subseteq 0..t
    BY DEF BreaksOf
  <2>2. PICK i \in BreaksOf(text, t) : \A j \in BreaksOf(text, t) : j <= i
    BY <1>2, <2>1, MaxIsGreatest
  <2>3. QED
    BY <2>1, <2>2 DEF LastBreak
<1>3. LineOf(text, t + n) = LineOf(text, t)
  BY <1>1 DEF LineOf
<1>4. CASE BreaksOf(text, t) = {}
  BY <1>1, <1>3, <1>4 DEF ColumnOf
<1>5. CASE BreaksOf(text, t) # {}
  <2>1. LastBreak(text, t + n) = LastBreak(text, t)
    BY <1>1 DEF LastBreak
  <2>2. QED
    BY <1>1, <1>2, <1>3, <1>5, <2>1 DEF ColumnOf
<1>6. QED
  BY <1>4, <1>5

(* Line breaks in a window at d, from s to before e: `first' is the first  *)
(* one, `more' are the others and `last' is the last one.                  *)
AreBreaks(text, d, s, e, first, last, more) ==
  /\ d \in Nat /\ s \in Nat /\ e \in Nat
  /\ first \in s..e - 1 /\ last \in first..e - 1 /\ more \subseteq first + 1..e - 1
  /\ \A i \in s..first - 1 : text[d + i + 1] # LineFeed
  /\ text[d + first + 1] = LineFeed /\ text[d + last + 1] = LineFeed
  /\ \A i \in first + 1..e - 1 : i \in more <=> text[d + i + 1] = LineFeed
  /\ \A i \in more : i <= last

(* Bytes with line breaks end on the line of the last one.                 *)
LEMMA WithBreaks ==
  ASSUME NEW text, NEW d, NEW s, NEW e, NEW first, NEW last, NEW more,
         AreBreaks(text, d, s, e, first, last, more)
  PROVE  /\ LineOf(text, d + e) = LineOf(text, d + s) + 1 + Cardinality(more)
         /\ ColumnOf(text, d + e) = e - last - 1
<1> USE DEF AreBreaks
<1> DEFINE before == BreaksOf(text, d + s)
           shifted == {d + i + 1 : i \in more}
           f == [i \in more |-> d + i + 1]
<1>1. IsFiniteSet(more)
  <2>1. IsFiniteSet(first + 1..e - 1) /\ more \in SUBSET (first + 1..e - 1)
    BY FS_Interval
  <2>2. QED
    BY <2>1, FS_Subset
<1>2. IsFiniteSet(shifted) /\ Cardinality(shifted) = Cardinality(more)
  <2>1. f \in Bijection(more, shifted)
    <3>1. f \in [more -> shifted]
      OBVIOUS
    <3>2. \A x, y \in more : d + x + 1 = d + y + 1 => x = y
      OBVIOUS
    <3>3. \A x, y \in more : f[x] = f[y] => x = y
      BY <3>2
    <3>4. \A z \in shifted : \E x \in more : f[x] = z
      OBVIOUS
    <3>5. QED
      BY <3>1, <3>3, <3>4 DEF Bijection, Injection, Surjection, IsInjective
  <2>2. ExistsBijection(more, shifted)
    BY <2>1 DEF ExistsBijection
  <2>3. QED
    BY <1>1, <2>2, FS_Bijection
<1>3. IsFiniteSet(before) /\ Cardinality(before) \in Nat
  BY BreaksAreFinite
<1>4. BreaksOf(text, d + e) = (before \cup {d + first + 1}) \cup shifted
  <2>1. ASSUME NEW j \in BreaksOf(text, d + e)
        PROVE  j \in (before \cup {d + first + 1}) \cup shifted
    <3>1. j \in 1..d + e /\ text[j] = LineFeed
      BY <2>1 DEF BreaksOf
    <3>2. CASE j <= d + s
      BY <3>1, <3>2 DEF BreaksOf
    <3>3. CASE j > d + s
      <4>1. j - d - 1 \in s..e - 1 /\ d + (j - d - 1) + 1 = j
        BY <3>1, <3>3
      <4>2. PICK i \in s..e - 1 : j = d + i + 1
        BY <4>1
      <4>3. ~(i < first)
        BY <3>1, <4>2
      <4>4. i = first \/ i \in more
        BY <3>1, <4>2, <4>3
      <4>5. QED
        BY <4>2, <4>4
    <3>4. QED
      BY <3>1, <3>2, <3>3
  <2>2. ASSUME NEW j \in (before \cup {d + first + 1}) \cup shifted
        PROVE  j \in BreaksOf(text, d + e)
    <3>1. CASE j \in before
      BY <3>1 DEF BreaksOf
    <3>2. CASE j = d + first + 1
      BY <3>2 DEF BreaksOf
    <3>3. CASE j \in shifted
      BY <3>3 DEF BreaksOf
    <3>4. QED
      BY <3>1, <3>2, <3>3
  <2>3. QED
    BY <2>1, <2>2
<1>5. d + first + 1 \notin before /\ (before \cup {d + first + 1}) \cap shifted = {}
  BY DEF BreaksOf
<1>6. /\ IsFiniteSet(before \cup {d + first + 1})
      /\ Cardinality(before \cup {d + first + 1}) = Cardinality(before) + 1
  BY <1>3, <1>5, FS_AddElement
<1>7. Cardinality(BreaksOf(text, d + e)) = Cardinality(before) + 1 + Cardinality(more)
  <2> DEFINE S == before \cup {d + first + 1}
  <2>1. Cardinality(S \cap shifted) = 0
    BY <1>5, FS_EmptySet
  <2>2. Cardinality(S \cup shifted) = Cardinality(S) + Cardinality(shifted) - Cardinality(S \cap shifted)
    BY <1>2, <1>6, FS_Union
  <2>3. Cardinality(more) \in Nat
    BY <1>1, FS_CardinalityType
  <2> HIDE DEF S, shifted, before
  <2>4. Cardinality(S \cup shifted) = Cardinality(before) + 1 + Cardinality(more)
    BY <1>2, <1>3, <1>6, <2>1, <2>2, <2>3 DEF S
  <2>5. QED
    BY <1>4, <2>4 DEF S
<1>8. LineOf(text, d + e) = LineOf(text, d + s) + 1 + Cardinality(more)
  <2>1. Cardinality(more) \in Nat
    BY <1>1, FS_CardinalityType
  <2>2. QED
    BY <1>3, <1>7, <2>1 DEF LineOf
<1>9. d + last + 1 \in BreaksOf(text, d + e) /\ \A j \in BreaksOf(text, d + e) : j <= d + last + 1
  <2>1. d + last + 1 \in BreaksOf(text, d + e)
    BY DEF BreaksOf
  <2>2. ASSUME NEW j \in BreaksOf(text, d + e) PROVE j <= d + last + 1
    <3>1. CASE j \in before
      BY <3>1 DEF BreaksOf
    <3>2. CASE j = d + first + 1
      BY <3>2
    <3>3. CASE j \in shifted
      BY <3>3
    <3>4. QED
      BY <1>4, <3>1, <3>2, <3>3
  <2>3. QED
    BY <2>1, <2>2
<1>10. LastBreak(text, d + e) = d + last + 1
  <2>1. BreaksOf(text, d + e) \subseteq Nat
    BY DEF BreaksOf
  <2>2. QED
    BY <1>9, <2>1 DEF LastBreak
<1>11. ColumnOf(text, d + e) = e - last - 1
  <2>1. ColumnOf(text, d + e) = d + e - (d + last + 1)
    BY <1>9, <1>10 DEF ColumnOf
  <2>2. QED
    BY <2>1
<1>12. QED
  BY <1>8, <1>11

-----------------------------------------------------------------------------
(* The buffer.                                                             *)

Mark == IF Marked THEN 1 ELSE 0

IsBuffer(b) ==
  /\ b = [buf |-> b.buf, off |-> b.off, nlIndex |-> b.nlIndex, line |-> b.line, col |-> b.col,
          lastPos |-> b.lastPos, unread |-> b.unread, last |-> b.last, err |-> b.err,
          readBytes |-> b.readBytes]
  /\ b.buf \in Seq(STRING) /\ b.off \in 0..Len(b.buf) /\ b.nlIndex \in -1..Len(b.buf)
  /\ b.line \in Nat /\ b.col \in Nat /\ b.unread \in BOOLEAN /\ b.readBytes \in Nat

Typed == input \in Inputs /\ given \in Nat /\ IsBuffer(br)

(* What was admitted is in the budget, and the end of the input comes last.*)
InBudget ==
  /\ given <= Len(input.data)
  /\ input.maxBytes > 0 => given <= br.readBytes /\ given <= input.maxBytes
  /\ br.err = EOF => given = Len(input.data)

(* The window is the last that was admitted.                               *)
InWindow == End <= given /\ \A i \in 1..End : br.buf[i] = input.data[given - End + i]

(* A byte that was unread is still in the window, at the place before it.  *)
CanReread == br.unread => br.off # 0 /\ br.last = br.buf[br.off] /\ br.lastPos = Pos

(* An index that is not behind the window is that of the next line break.  *)
IsNextBreak(b) ==
  b.off <= b.nlIndex => /\ \A i \in b.off..b.nlIndex - 1 : b.buf[i + 1] # LineFeed
                        /\ b.nlIndex < Len(b.buf) => b.buf[b.nlIndex + 1] = LineFeed

InPlace == br.line = LineOf(Text, Taken) /\ br.col = ColumnOf(Text, Taken)

BufferInv == Typed /\ InBudget /\ InWindow /\ CanReread /\ IsNextBreak(br) /\ InPlace

(* The mark is behind the window, or there is none.                        *)
Past == Mark <= given - End

(* What the input is.                                                      *)
LEMMA InputFacts ==
  ASSUME input \in Inputs
  PROVE  /\ input.data \in Seq(STRING) /\ Len(input.data) \in Nat /\ input.maxBytes \in Nat
         /\ Shown = (IF input.maxBytes = 0 \/ Len(input.data) <= input.maxBytes
                     THEN Len(input.data) ELSE input.maxBytes)
         /\ Mark \in 0..1 /\ Mark <= Shown /\ Shown <= Len(input.data)
         /\ Text = SubSeq(input.data, Mark + 1, Shown)
<1>1. input.data \in Seq(STRING) /\ Len(input.data) \in Nat /\ input.maxBytes \in Nat
  BY ByteStreamAssumption
<1>2. Shown = (IF input.maxBytes = 0 \/ Len(input.data) <= input.maxBytes
               THEN Len(input.data) ELSE input.maxBytes)
  BY <1>1, MinOfTwo DEF Shown
<1>3. Mark \in 0..1 /\ (Mark = 1 => Len(input.data) # 0)
  BY <1>1 DEF Mark, Marked
<1>4. Text = SubSeq(input.data, Mark + 1, Shown)
  <2>1. (IF Marked THEN 2 ELSE 1) = Mark + 1
    BY DEF Mark
  <2>2. QED
    BY <2>1 DEF Text
<1>5. QED
  BY <1>1, <1>2, <1>3, <1>4

(* Its text.                                                               *)
LEMMA TextFacts ==
  ASSUME input \in Inputs
  PROVE  /\ Len(Text) = Shown - Mark
         /\ \A i \in 1..Shown - Mark : Text[i] = input.data[Mark + i]
<1> DEFINE data == input.data
           m == Mark
           n == Shown
<1>1. /\ data \in Seq(STRING) /\ m \in Nat /\ n \in Nat /\ m <= n /\ n <= Len(data)
      /\ Text = SubSeq(data, m + 1, n)
  BY InputFacts
<1> HIDE DEF data, m, n
<1>2. Len(SubSeq(data, m + 1, n)) = n - m /\ \A i \in 1..n - m : SubSeq(data, m + 1, n)[i] = data[m + i]
  BY <1>1
<1>3. QED
  BY <1>1, <1>2 DEF data, m, n

(* Behind the mark, the window is a part of the text.                      *)
LEMMA WindowIsText ==
  ASSUME Typed, InBudget, InWindow, CanReread, Past
  PROVE  /\ given - End - Mark \in Nat /\ given - Mark <= Len(Text)
         /\ \A i \in 1..End : br.buf[i] = Text[given - End - Mark + i]
         /\ Taken = given - End - Mark + br.off - (IF br.unread THEN 1 ELSE 0)
         /\ Taken \in Nat
<1>1. /\ End \in Nat /\ given \in Nat /\ br.off \in 0..End /\ br.unread \in BOOLEAN
      /\ Mark \in 0..1 /\ Mark <= Shown /\ Shown \in Nat
  BY InputFacts DEF Typed, IsBuffer, End
<1>2. given <= Shown /\ End <= given
  BY <1>1, InputFacts DEF Typed, InBudget, InWindow
<1>3. given - End - Mark \in Nat
  BY <1>1, <1>2 DEF Past
<1>4. given - Mark <= Len(Text)
  BY <1>1, <1>2, TextFacts DEF Typed
<1>5. ASSUME NEW i \in 1..End
      PROVE  br.buf[i] = Text[given - End - Mark + i]
  <2>1. given - End - Mark + i \in 1..Shown - Mark
    BY <1>1, <1>2, <1>3
  <2>2. Text[given - End - Mark + i] = input.data[Mark + (given - End - Mark + i)]
    BY <2>1, TextFacts DEF Typed
  <2>3. Mark + (given - End - Mark + i) = given - End + i
    BY <1>1
  <2>4. QED
    BY <2>2, <2>3 DEF InWindow
<1>6. Taken = given - End - Mark + br.off - (IF br.unread THEN 1 ELSE 0) /\ Taken \in Nat
  <2> DEFINE place == given - End + br.off - (IF br.unread THEN 1 ELSE 0)
  <2>1. place \in Int /\ place - Mark \in Nat
    BY <1>1, <1>3 DEF CanReread
  <2>2. Taken = Max({0, place - Mark})
    BY DEF Taken, Position, Mark
  <2>3. Taken = place - Mark
    BY <2>1, <2>2, MaxOfTwo
  <2>4. QED
    BY <1>1, <2>1, <2>3
<1>7. QED
  BY <1>3, <1>4, <1>5, <1>6

-----------------------------------------------------------------------------
(* Reads.                                                                  *)

(* What a read may give: bytes that are there, and in the budget.          *)
Gives(r) ==
  /\ r.n \in 0..Len(input.data) - given /\ r.raw \in Nat /\ r.n <= r.raw
  /\ input.maxBytes > 0 => r.n = 0 \/ given + r.n <= input.maxBytes
  /\ r.err = EOF => given + r.n = Len(input.data)

(* Every outcome of read is such.                                          *)
LEMMA ReadsGive ==
  ASSUME Typed, InBudget, NEW room \in Nat, NEW r \in Reads(room)
  PROVE  Gives(r)
<1> DEFINE left == Len(input.data) - given
           most == Min({Asked(room), left})
<1>1. /\ Len(input.data) \in Nat /\ input.maxBytes \in Nat /\ left \in Nat
      /\ given \in Nat /\ br.readBytes \in Nat /\ Remaining \in Int
  <2>1. Len(input.data) \in Nat /\ input.maxBytes \in Nat
    BY InputFacts DEF Typed
  <2>2. given \in Nat /\ br.readBytes \in Nat
    BY DEF Typed, IsBuffer
  <2>3. given <= Len(input.data)
    BY DEF InBudget
  <2>4. QED
    BY <2>1, <2>2, <2>3 DEF Remaining
<1>2. CASE r = [n |-> 0, raw |-> 0, err |-> {"limit"}] \/ r = [n |-> 0, raw |-> 0, err |-> {"canceled"}]
  <2>1. r.n = 0 /\ r.raw = 0 /\ r.err \in {{"limit"}, {"canceled"}}
    BY <1>2
  <2>2. r.err # EOF
    BY <2>1 DEF EOF
  <2>3. QED
    BY <1>1, <2>1, <2>2 DEF Gives
<1>3. ASSUME ~(input.maxBytes > 0 /\ Remaining < 0)
      PROVE  most \in Nat /\ most <= left
  <2>1. Asked(room) \in Nat
    BY <1>1, <1>3 DEF Asked
  <2>2. QED
    BY <1>1, <2>1, MinOfTwo
<1>4. ASSUME ~(input.maxBytes > 0 /\ Remaining < 0), NEW n \in 0..left, NEW err,
             r = Admit(n, err), err = EOF => n = left
      PROVE  Gives(r)
  <2>1. CASE input.maxBytes = 0 \/ n <= Remaining
    <3>1. r = [n |-> n, raw |-> n, err |-> err]
      BY <1>4, <2>1 DEF Admit
    <3>2. QED
      BY <1>1, <1>4, <2>1, <3>1 DEF Gives, InBudget, Remaining
  <2>2. CASE ~(input.maxBytes = 0 \/ n <= Remaining)
    <3>1. r = [n |-> Remaining, raw |-> n, err |-> err \union {"limit"}]
      BY <1>4, <2>2 DEF Admit
    <3>2. err \union {"limit"} # EOF
      BY DEF EOF
    <3>3. QED
      BY <1>1, <1>4, <2>2, <3>1, <3>2, SMTT(30) DEF Gives, InBudget, Remaining
  <2>3. QED
    BY <2>1, <2>2
<1>5. CASE ~(input.maxBytes > 0 /\ Remaining < 0) /\ \E n \in 0..most : r = Admit(n, Nil)
  <2>1. PICK n \in 0..most : r = Admit(n, Nil)
    BY <1>5
  <2>2. n \in 0..left /\ Nil # EOF
    BY <1>1, <1>3, <1>5 DEF Nil, EOF
  <2>3. QED
    BY <1>4, <1>5, <2>1, <2>2
<1>6. CASE ~(input.maxBytes > 0 /\ Remaining < 0) /\ \E n \in {most} \intersect {left} : r = Admit(n, input.end)
  <2>1. r = Admit(left, input.end) /\ left \in 0..left
    BY <1>1, <1>6
  <2>2. QED
    BY <1>4, <1>6, <2>1
<1>7. QED
  BY <1>2, <1>5, <1>6 DEF Reads

(* The bytes that are admitted.                                            *)
LEMMA BytesGiven ==
  ASSUME Typed, InBudget, NEW r, Gives(r)
  PROVE  /\ Bytes(r) \in Seq(STRING) /\ Len(Bytes(r)) = r.n
         /\ \A i \in 1..r.n : Bytes(r)[i] = input.data[given + i]
<1> DEFINE data == input.data
           g == given
           n == r.n
<1>1. data \in Seq(STRING) /\ Len(data) \in Nat /\ g \in Nat /\ n \in 0..Len(data) - g
  BY InputFacts DEF Typed, Gives
<1>2. Bytes(r) = SubSeq(data, g + 1, g + n)
  BY DEF Bytes
<1> HIDE DEF data, g, n
<1>3. /\ SubSeq(data, g + 1, g + n) \in Seq(STRING) /\ Len(SubSeq(data, g + 1, g + n)) = n
      /\ \A i \in 1..n : SubSeq(data, g + 1, g + n)[i] = data[g + i]
  <2>1. g + 1 \in Nat /\ g + n \in Nat /\ g + n <= Len(data) /\ n \in Nat
    BY <1>1
  <2>2. SubSeq(data, g + 1, g + n) \in Seq(STRING)
    BY <1>1, <2>1
  <2>3. Len(SubSeq(data, g + 1, g + n)) = n
    BY <1>1, <2>1
  <2>4. \A i \in 1..n : SubSeq(data, g + 1, g + n)[i] = data[g + i]
    BY <1>1, <2>1
  <2>5. QED
    BY <2>2, <2>3, <2>4
<1>4. QED
  BY <1>2, <1>3 DEF data, g, n

(* What is counted of a read.                                              *)
LEMMA CountedFacts ==
  ASSUME Typed, InBudget, NEW r, Gives(r)
  PROVE  /\ Counted(r) = [br EXCEPT !.readBytes = Counted(r).readBytes]
         /\ Counted(r).readBytes \in Nat
         /\ input.maxBytes > 0 => given + r.n <= Counted(r).readBytes
<1>1. /\ br.readBytes \in Nat /\ r.n \in Nat /\ r.raw \in Nat /\ r.n <= r.raw /\ given \in Nat
      /\ input.maxBytes > 0 => given <= br.readBytes
  BY InputFacts DEF Typed, IsBuffer, InBudget, Gives
<1>2. Counted(r).readBytes = IF input.maxBytes > 0 THEN br.readBytes + r.raw ELSE br.readBytes
  BY DEF Typed, IsBuffer, Counted
<1>3. Counted(r) = [br EXCEPT !.readBytes = Counted(r).readBytes]
  BY <1>2 DEF Counted
<1>4. QED
  BY <1>1, <1>2, <1>3

(* The text is that of the input.                                          *)
LEMMA SameText ==
  ASSUME input' = input
  PROVE  Text' = Text /\ Mark' = Mark
BY DEF Text, Mark, Marked, Shown

(* A step that only changes what is behind the place takes nothing.        *)
LEMMA SamePlace ==
  ASSUME InPlace, input' = input, Taken' = Taken, br'.line = br.line, br'.col = br.col
  PROVE  InPlace' /\ UNCHANGED Source!source
BY SameText DEF InPlace, Source!source

(* The same position is the same place.                                    *)
LEMMA SamePosition ==
  ASSUME input' = input, Position' = Position
  PROVE  Taken' = Taken
BY DEF Taken, Marked

(* fill reads a new window behind the old one, which was taken.            *)
LEMMA FillKeeps ==
  ASSUME BufferInv, Fill
  PROVE  BufferInv' /\ UNCHANGED Source!source /\ (Past => Past')
<1>1. PICK r \in Reads(Capacity) :
        /\ r.n > 0 /\ given' = given + r.n
        /\ br' = [Counted(r) EXCEPT !.buf = Bytes(r), !.off = 0, !.nlIndex = -1, !.err = r.err]
  BY DEF Fill
<1>2. input' = input /\ ~br.unread /\ br.off = End
  BY DEF Fill, Empty
<1>3. Gives(r)
  BY ReadsGive, ByteStreamAssumption DEF BufferInv
<1>4. /\ br' = [buf |-> Bytes(r), off |-> 0, nlIndex |-> -1, line |-> br.line, col |-> br.col,
                lastPos |-> br.lastPos, unread |-> br.unread, last |-> br.last, err |-> r.err,
                readBytes |-> Counted(r).readBytes]
  <2> DEFINE c == Counted(r)
             k == c.readBytes
             bytes == Bytes(r)
             e == r.err
             b == br'
  <2>1. /\ br = [buf |-> br.buf, off |-> br.off, nlIndex |-> br.nlIndex, line |-> br.line, col |-> br.col,
                 lastPos |-> br.lastPos, unread |-> br.unread, last |-> br.last, err |-> br.err,
                 readBytes |-> br.readBytes]
        /\ c = [br EXCEPT !.readBytes = k]
        /\ b = [c EXCEPT !.buf = bytes, !.off = 0, !.nlIndex = -1, !.err = e]
    BY <1>1, <1>3, CountedFacts DEF BufferInv, Typed, IsBuffer
  <2> HIDE DEF c, k, bytes, e, b
  <2>2. b = [buf |-> bytes, off |-> 0, nlIndex |-> -1, line |-> br.line, col |-> br.col,
             lastPos |-> br.lastPos, unread |-> br.unread, last |-> br.last, err |-> e,
             readBytes |-> k]
    BY <2>1
  <2>3. QED
    BY <2>2 DEF c, k, bytes, e, b
<1>5. /\ Bytes(r) \in Seq(STRING) /\ Len(Bytes(r)) = r.n
      /\ \A i \in 1..r.n : Bytes(r)[i] = input.data[given + i]
  BY <1>3, BytesGiven DEF BufferInv
<1>6. /\ given \in Nat /\ r.n \in Nat /\ End \in Nat /\ End <= given
      /\ Len(input.data) \in Nat /\ given <= Len(input.data)
  BY <1>3, InputFacts DEF BufferInv, Typed, IsBuffer, InBudget, InWindow, Gives, End
<1>7. Typed'
  <2>1. Counted(r).readBytes \in Nat
    BY <1>3, CountedFacts DEF BufferInv
  <2>2. br.line \in Nat /\ br.col \in Nat /\ br.unread \in BOOLEAN
    BY DEF BufferInv, Typed, IsBuffer
  <2>3. br'.off \in 0..Len(br'.buf) /\ br'.nlIndex \in -1..Len(br'.buf) /\ br'.buf \in Seq(STRING)
    BY <1>4, <1>5, <1>6
  <2>4. IsBuffer(br')
    BY <1>4, <2>1, <2>2, <2>3 DEF IsBuffer
  <2>5. given' \in Nat /\ input' \in Inputs
    BY <1>1, <1>2, <1>6 DEF BufferInv, Typed
  <2>6. QED
    BY <2>4, <2>5 DEF Typed
<1>8. InBudget'
  <2>1. /\ given' = given + r.n /\ br'.err = r.err /\ input' = input
        /\ given' \in Nat /\ Len(input.data) \in Nat
    BY <1>1, <1>2, <1>4, <1>6
  <2>2. /\ given' <= Len(input.data)
        /\ r.err = EOF => given' = Len(input.data)
    BY <1>3, <1>6, <2>1 DEF Gives
  <2>3. input.maxBytes > 0 => given' <= br'.readBytes /\ given' <= input.maxBytes
    <3>1. SUFFICES ASSUME input.maxBytes > 0
                   PROVE  given' <= br'.readBytes /\ given' <= input.maxBytes
      OBVIOUS
    <3>2. given + r.n <= Counted(r).readBytes
      BY <1>3, <3>1, CountedFacts DEF BufferInv
    <3>3. given' <= br'.readBytes
      BY <1>4, <2>1, <3>2
    <3>4. given <= input.maxBytes
      BY <3>1 DEF BufferInv, InBudget
    <3>5. QED
      BY <1>3, <1>6, <2>1, <3>1, <3>3, <3>4 DEF Gives
  <2>4. QED
    BY <2>1, <2>2, <2>3 DEF InBudget
<1>9. End' = r.n /\ InWindow'
  <2>1. End' = r.n
    BY <1>4, <1>5 DEF End
  <2>2. given' - r.n = given /\ r.n <= given'
    BY <1>1, <1>6
  <2>3. \A i \in 1..r.n : br'.buf[i] = input.data[given + i]
    BY <1>4, <1>5
  <2>4. QED
    BY <1>2, <2>1, <2>2, <2>3 DEF InWindow
<1>10. CanReread' /\ IsNextBreak(br)'
  BY <1>2, <1>4 DEF CanReread, IsNextBreak
<1>11. Position' = Position
  <2>1. Position = given - End + End - 0 /\ Position' = given' - r.n + 0 - 0
    BY <1>2, <1>4, <1>9 DEF Position
  <2>2. QED
    BY <1>1, <1>6, <2>1
<1>12. InPlace' /\ UNCHANGED Source!source
  BY <1>2, <1>4, <1>11, SamePosition, SamePlace DEF BufferInv
<1>13. Past => Past'
  BY <1>1, <1>2, <1>6, <1>9, InputFacts, SameText DEF Past, BufferInv, Typed
<1>14. QED
  BY <1>7, <1>8, <1>9, <1>10, <1>12, <1>13 DEF BufferInv

(* An error takes nothing.                                                 *)
LEMMA RaiseKeeps ==
  ASSUME BufferInv, NEW err, Raise(err)
  PROVE  BufferInv' /\ UNCHANGED Source!source /\ (Past => Past')
<1>1. input' = input /\ given' = given
  BY DEF Raise
<1>2. \/ br' = [br EXCEPT !.err = Nil]
      \/ br.err = Nil /\ \E r \in Reads(Capacity) : r.n = 0 /\ br' = Counted(r)
  BY DEF Raise
<1>3. /\ br' = [br EXCEPT !.err = br'.err, !.readBytes = br'.readBytes]
      /\ br'.readBytes \in Nat /\ br'.err = Nil
      /\ input.maxBytes > 0 => given <= br'.readBytes
  <2>1. CASE br' = [br EXCEPT !.err = Nil]
    BY <2>1 DEF BufferInv, Typed, IsBuffer, InBudget
  <2>2. CASE br.err = Nil /\ \E r \in Reads(Capacity) : r.n = 0 /\ br' = Counted(r)
    <3>1. PICK r \in Reads(Capacity) : r.n = 0 /\ br' = Counted(r)
      BY <2>2
    <3>2. Gives(r)
      BY ReadsGive, ByteStreamAssumption DEF BufferInv
    <3>3. given + r.n = given
      BY <3>1 DEF BufferInv, Typed
    <3>4. QED
      BY <2>2, <3>1, <3>2, <3>3, CountedFacts DEF BufferInv, Typed, IsBuffer
  <2>3. QED
    BY <1>2, <2>1, <2>2
<1>4. br' = [buf |-> br.buf, off |-> br.off, nlIndex |-> br.nlIndex, line |-> br.line, col |-> br.col,
             lastPos |-> br.lastPos, unread |-> br.unread, last |-> br.last, err |-> br'.err,
             readBytes |-> br'.readBytes]
  BY <1>3 DEF BufferInv, Typed, IsBuffer
<1>5. Typed' /\ InBudget'
  BY <1>1, <1>3, <1>4 DEF BufferInv, Typed, IsBuffer, InBudget, Nil, EOF
<1>6. End' = End /\ Pos' = Pos /\ InWindow' /\ CanReread' /\ IsNextBreak(br)'
  BY <1>1, <1>4 DEF BufferInv, InWindow, CanReread, IsNextBreak, End, Pos
<1>7. Position' = Position
  BY <1>1, <1>4, <1>6 DEF Position
<1>8. InPlace' /\ UNCHANGED Source!source
  BY <1>1, <1>4, <1>7, SamePosition, SamePlace DEF BufferInv
<1>9. Past => Past'
  BY <1>1, <1>6, SameText DEF Past
<1>10. QED
  BY <1>5, <1>6, <1>8, <1>9 DEF BufferInv

(* Looking ahead reads behind the window, before an index is known.        *)
LEMMA ExtendKeeps ==
  ASSUME BufferInv, NEW n, Extend(n), br.nlIndex = -1
  PROVE  /\ BufferInv' /\ UNCHANGED Source!source
         /\ given' - End' = given - End /\ br'.off = br.off /\ br'.unread = br.unread /\ br'.nlIndex = -1
<1>1. PICK r \in Reads(Capacity - End) :
        /\ given' = given + r.n
        /\ br' = [Counted(r) EXCEPT !.buf = @ \o Bytes(r), !.err = r.err]
  BY DEF Extend
<1>2. input' = input /\ End \in Nat /\ Capacity - End \in Nat
  BY ByteStreamAssumption DEF Extend, Short, BufferInv, Typed, IsBuffer, End
<1>3. Gives(r)
  BY <1>2, ReadsGive DEF BufferInv
<1>4. br' = [buf |-> br.buf \o Bytes(r), off |-> br.off, nlIndex |-> br.nlIndex, line |-> br.line, col |-> br.col,
             lastPos |-> br.lastPos, unread |-> br.unread, last |-> br.last, err |-> r.err,
             readBytes |-> Counted(r).readBytes]
  <2> DEFINE c == Counted(r)
             k == c.readBytes
             buf == br.buf \o Bytes(r)
             e == r.err
             b == br'
  <2>1. /\ br = [buf |-> br.buf, off |-> br.off, nlIndex |-> br.nlIndex, line |-> br.line, col |-> br.col,
                 lastPos |-> br.lastPos, unread |-> br.unread, last |-> br.last, err |-> br.err,
                 readBytes |-> br.readBytes]
        /\ c = [br EXCEPT !.readBytes = k]
    BY <1>3, CountedFacts DEF BufferInv, Typed, IsBuffer
  <2>2. b = [c EXCEPT !.buf = c.buf \o Bytes(r), !.err = e]
    BY <1>1
  <2>3. c.buf \o Bytes(r) = buf
    <3>1. c.buf = br.buf
      <4> HIDE DEF c, k
      <4>1. QED
        BY <2>1
    <3>2. QED
      BY <3>1
  <2>4. b = [c EXCEPT !.buf = buf, !.err = e]
    BY <2>2, <2>3
  <2> HIDE DEF c, k, buf, e, b
  <2>5. b = [buf |-> buf, off |-> br.off, nlIndex |-> br.nlIndex, line |-> br.line, col |-> br.col,
             lastPos |-> br.lastPos, unread |-> br.unread, last |-> br.last, err |-> e,
             readBytes |-> k]
    BY <2>1, <2>4
  <2>6. QED
    BY <2>5 DEF c, k, buf, e, b
<1>5. /\ Bytes(r) \in Seq(STRING) /\ Len(Bytes(r)) = r.n
      /\ \A i \in 1..r.n : Bytes(r)[i] = input.data[given + i]
  BY <1>3, BytesGiven DEF BufferInv
<1>6. /\ given \in Nat /\ r.n \in Nat /\ End <= given /\ br.buf \in Seq(STRING) /\ Len(br.buf) = End
      /\ Len(input.data) \in Nat /\ given <= Len(input.data)
  BY <1>3, InputFacts DEF BufferInv, Typed, IsBuffer, InBudget, InWindow, Gives, End
<1>7. /\ br.buf \o Bytes(r) \in Seq(STRING) /\ Len(br.buf \o Bytes(r)) = End + r.n
      /\ \A i \in 1..End : (br.buf \o Bytes(r))[i] = br.buf[i]
      /\ \A i \in 1..r.n : (br.buf \o Bytes(r))[End + i] = Bytes(r)[i]
  <2> DEFINE s == br.buf
             t == Bytes(r)
  <2>1. s \in Seq(STRING) /\ t \in Seq(STRING) /\ Len(s) = End /\ Len(t) = r.n
    BY <1>5, <1>6
  <2> HIDE DEF s, t
  <2>2. /\ s \o t \in Seq(STRING) /\ Len(s \o t) = Len(s) + Len(t)
        /\ \A i \in 1..Len(s) : (s \o t)[i] = s[i]
        /\ \A i \in 1..Len(t) : (s \o t)[Len(s) + i] = t[i]
    <3>1. PICK S : S = STRING
      OBVIOUS
    <3>2. s \in Seq(S) /\ t \in Seq(S)
      BY <2>1, <3>1
    <3>3. /\ s \o t \in Seq(S) /\ Len(s \o t) = Len(s) + Len(t)
          /\ \A i \in 1..Len(s) : (s \o t)[i] = s[i]
          /\ \A i \in 1..Len(t) : (s \o t)[Len(s) + i] = t[i]
      BY <3>2, ConcatFacts
    <3>4. QED
      BY <3>1, <3>3
  <2>3. QED
    BY <2>1, <2>2 DEF s, t
<1>8. End' = End + r.n /\ Pos' = Pos
  BY <1>4, <1>7 DEF End, Pos
<1>9. Typed'
  <2>1. Counted(r).readBytes \in Nat
    BY <1>3, CountedFacts DEF BufferInv
  <2>2. /\ br.line \in Nat /\ br.col \in Nat /\ br.unread \in BOOLEAN
        /\ br.off \in 0..End /\ br.nlIndex = -1
    BY DEF BufferInv, Typed, IsBuffer, End
  <2>3. br'.off \in 0..Len(br'.buf) /\ br'.nlIndex \in -1..Len(br'.buf) /\ br'.buf \in Seq(STRING)
    <3>1. br'.off = br.off /\ br'.nlIndex = br.nlIndex /\ br'.buf = br.buf \o Bytes(r)
      BY <1>4
    <3>2. Len(br'.buf) = End + r.n /\ br'.buf \in Seq(STRING)
      BY <1>7, <3>1
    <3>3. PICK new : new = Len(br'.buf)
      OBVIOUS
    <3>4. End \in Nat /\ r.n \in Nat /\ new = End + r.n
      BY <1>6, <2>2, <3>2, <3>3
    <3>5. br.off \in 0..new /\ br.nlIndex \in -1..new
      BY <2>2, <3>4
    <3>6. QED
      BY <3>1, <3>2, <3>3, <3>5, Zenon
  <2>4. IsBuffer(br')
    BY <1>4, <2>1, <2>2, <2>3 DEF IsBuffer
  <2>5. given' \in Nat /\ input' \in Inputs
    BY <1>1, <1>2, <1>6 DEF BufferInv, Typed
  <2>6. QED
    BY <2>4, <2>5 DEF Typed
<1>10. InBudget'
  <2>1. /\ given' = given + r.n /\ br'.err = r.err /\ input' = input
        /\ given' \in Nat /\ Len(input.data) \in Nat
    BY <1>1, <1>2, <1>4, <1>6
  <2>2. /\ given' <= Len(input.data)
        /\ r.err = EOF => given' = Len(input.data)
    BY <1>3, <1>6, <2>1 DEF Gives
  <2>3. input.maxBytes > 0 => given' <= br'.readBytes /\ given' <= input.maxBytes
    <3>1. SUFFICES ASSUME input.maxBytes > 0
                   PROVE  given' <= br'.readBytes /\ given' <= input.maxBytes
      OBVIOUS
    <3>2. given + r.n <= Counted(r).readBytes
      BY <1>3, <3>1, CountedFacts DEF BufferInv
    <3>3. given' <= br'.readBytes
      BY <1>4, <2>1, <3>2
    <3>4. given <= input.maxBytes
      BY <3>1 DEF BufferInv, InBudget
    <3>5. QED
      BY <1>3, <1>6, <2>1, <3>1, <3>3, <3>4 DEF Gives
  <2>4. QED
    BY <2>1, <2>2, <2>3 DEF InBudget
<1>11. InWindow'
  <2>1. ASSUME NEW i \in 1..End + r.n
        PROVE  (br.buf \o Bytes(r))[i] = input.data[given - End + i]
    <3>1. CASE i <= End
      <4>1. i \in 1..End
        BY <1>2, <1>6, <3>1
      <4>2. QED
        BY <1>7, <4>1 DEF BufferInv, InWindow
    <3>2. CASE i > End
      <4>1. PICK j \in 1..r.n : i = End + j
        BY <1>2, <1>6, <3>2
      <4>2. given + j = given - End + i
        BY <1>2, <1>6, <4>1
      <4>3. QED
        BY <1>5, <1>7, <4>1, <4>2
    <3>3. i \in Int
      BY <1>2, <1>6
    <3>4. i <= End \/ i > End
      BY <1>2, <3>3
    <3>5. QED
      BY <3>1, <3>2, <3>4
  <2>2. given' - End' = given - End /\ End' <= given'
    BY <1>1, <1>2, <1>6, <1>8
  <2>3. QED
    BY <1>2, <1>4, <1>8, <2>1, <2>2 DEF InWindow
<1>12. CanReread'
  <2>1. br.unread => br.off \in 1..End
    BY <1>2 DEF BufferInv, Typed, IsBuffer, CanReread, End
  <2>2. QED
    BY <1>4, <1>7, <1>8, <2>1 DEF BufferInv, CanReread
<1>13. IsNextBreak(br)'
  BY <1>4 DEF BufferInv, Typed, IsBuffer, IsNextBreak
<1>14. given' - End' = given - End
  BY <1>1, <1>2, <1>6, <1>8
<1>15. Position' = Position
  BY <1>4, <1>14 DEF Position
<1>16. InPlace' /\ UNCHANGED Source!source
  BY <1>2, <1>4, <1>15, SamePosition, SamePlace DEF BufferInv
<1>17. QED
  BY <1>4, <1>9, <1>10, <1>11, <1>12, <1>13, <1>14, <1>16 DEF BufferInv

-----------------------------------------------------------------------------
(* The start of the input.                                                 *)

(* The mark is not of the text: dropping it takes nothing.                 *)
LEMMA DiscardKeeps ==
  ASSUME BufferInv, DiscardMark, br.off = 0, ~br.unread, br.nlIndex = -1, given = End,
         Window # <<>>, Head(Window) = ByteOrderMark
  PROVE  BufferInv' /\ UNCHANGED Source!source /\ Past'
<1> DEFINE buf == br.buf
           rest == Tail(buf)
<1>1. input' = input /\ given' = given /\ br' = [br EXCEPT !.buf = rest, !.off = 0, !.nlIndex = -1]
  BY DEF DiscardMark
<1>2. /\ br' = [buf |-> rest, off |-> 0, nlIndex |-> -1, line |-> br.line, col |-> br.col,
                lastPos |-> br.lastPos, unread |-> br.unread, last |-> br.last, err |-> br.err,
                readBytes |-> br.readBytes]
  <2> DEFINE b == br'
  <2>1. /\ br = [buf |-> br.buf, off |-> br.off, nlIndex |-> br.nlIndex, line |-> br.line, col |-> br.col,
                 lastPos |-> br.lastPos, unread |-> br.unread, last |-> br.last, err |-> br.err,
                 readBytes |-> br.readBytes]
        /\ b = [br EXCEPT !.buf = rest, !.off = 0, !.nlIndex = -1]
    BY <1>1 DEF BufferInv, Typed, IsBuffer
  <2> HIDE DEF rest, b
  <2>2. b = [buf |-> rest, off |-> 0, nlIndex |-> -1, line |-> br.line, col |-> br.col,
             lastPos |-> br.lastPos, unread |-> br.unread, last |-> br.last, err |-> br.err,
             readBytes |-> br.readBytes]
    BY <2>1
  <2>3. QED
    BY <2>2 DEF b
<1>3. buf \in Seq(STRING) /\ Len(buf) = End /\ End \in Nat
  BY DEF BufferInv, Typed, IsBuffer, End
<1>4. Window = SubSeq(buf, 1, End)
  <2>1. Window = SubSeq(buf, br.off + 1, End)
    BY DEF Window
  <2>2. br.off + 1 = 1
    OBVIOUS
  <2>3. QED
    BY <2>1, <2>2
<1>5. End # 0 /\ buf[1] = ByteOrderMark
  <2> HIDE DEF buf
  <2>1. SubSeq(buf, 1, Len(buf)) = buf
    BY <1>3
  <2>2. QED
    BY <1>3, <1>4, <2>1
<1>6. /\ rest \in Seq(STRING) /\ Len(rest) = End - 1
      /\ \A i \in 1..End - 1 : rest[i] = buf[i + 1]
  <2> HIDE DEF buf
  <2>1. buf # <<>>
    BY <1>3, <1>5
  <2>2. QED
    BY <1>3, <2>1
<1>7. \A i \in 1..End : buf[i] = input.data[i]
  <2>1. \A i \in 1..End : given - End + i = i
    BY <1>3
  <2>2. QED
    BY <2>1 DEF BufferInv, InWindow
<1>8. Mark = 1
  <2>1. 1 \in 1..End
    BY <1>3, <1>5
  <2>2. input.data[1] = ByteOrderMark
    BY <1>5, <1>7, <2>1
  <2>3. Len(input.data) # 0
    <3>1. given <= Len(input.data) /\ Len(input.data) \in Nat
      BY InputFacts DEF BufferInv, Typed, InBudget
    <3>2. QED
      BY <1>3, <1>5, <3>1
  <2>4. input.data # <<>>
    BY <2>3
  <2>5. QED
    BY <2>2, <2>4 DEF Mark, Marked
<1>9. End' = End - 1 /\ Mark' = 1
  BY <1>1, <1>2, <1>6, <1>8, SameText DEF End
<1>10. Typed'
  <2>1. br.line \in Nat /\ br.col \in Nat /\ br.unread \in BOOLEAN /\ br.readBytes \in Nat
    BY DEF BufferInv, Typed, IsBuffer
  <2>2. br'.off \in 0..Len(br'.buf) /\ br'.nlIndex \in -1..Len(br'.buf) /\ br'.buf \in Seq(STRING)
    BY <1>2, <1>3, <1>5, <1>6
  <2>3. IsBuffer(br')
    BY <1>2, <2>1, <2>2 DEF IsBuffer
  <2>4. QED
    BY <1>1, <2>3 DEF BufferInv, Typed
<1>11. InBudget'
  BY <1>1, <1>2 DEF BufferInv, InBudget
<1>12. InWindow'
  <2>1. \A i \in 1..End - 1 : rest[i] = input.data[given - (End - 1) + i]
    <3>1. SUFFICES ASSUME NEW i \in 1..End - 1 PROVE rest[i] = input.data[given - (End - 1) + i]
      OBVIOUS
    <3>2. i + 1 \in 1..End /\ given - (End - 1) + i = i + 1
      BY <1>3
    <3>3. QED
      BY <1>6, <1>7, <3>2
  <2>2. QED
    BY <1>1, <1>2, <1>3, <1>9, <2>1 DEF InWindow
<1>13. CanReread' /\ IsNextBreak(br)'
  BY <1>2 DEF CanReread, IsNextBreak
<1>14. Taken' = Taken
  <2>1. Position = 0 /\ Position' = 1
    BY <1>1, <1>2, <1>3, <1>9 DEF Position
  <2>2. Taken = Max({0, -1}) /\ Taken' = Max({0, 0})
    <3>1. Position - Mark = -1 /\ Position' - Mark' = 0
      BY <1>8, <1>9, <2>1
    <3>2. QED
      BY <3>1 DEF Taken, Mark
  <2>3. QED
    BY <2>2, MaxOfTwo
<1>15. InPlace' /\ UNCHANGED Source!source
  BY <1>1, <1>2, <1>14, SamePlace DEF BufferInv
<1>16. Past'
  BY <1>1, <1>3, <1>9 DEF Past
<1>17. QED
  BY <1>10, <1>11, <1>12, <1>13, <1>15, <1>16 DEF BufferInv

-----------------------------------------------------------------------------
(* Taking bytes.                                                           *)

(* A byte that is read and put back was not taken.                         *)
LEMMA PeekKeeps ==
  ASSUME BufferInv, Peek, ~Empty
  PROVE  BufferInv' /\ UNCHANGED Source!source /\ (Past => Past')
<1>1. input' = input /\ given' = given /\ br' = Unread(AfterReadByte)
  BY DEF Peek
<1>2. /\ br = [buf |-> br.buf, off |-> br.off, nlIndex |-> br.nlIndex, line |-> br.line, col |-> br.col,
               lastPos |-> br.lastPos, unread |-> br.unread, last |-> br.last, err |-> br.err,
               readBytes |-> br.readBytes]
      /\ br.unread \in BOOLEAN /\ End \in Nat /\ br.off \in 0..End /\ given \in Nat
      /\ br.nlIndex \in Int
  BY DEF BufferInv, Typed, IsBuffer, End
<1>3. CASE br.unread
  <2>1. AfterReadByte = Advanced([br EXCEPT !.unread = FALSE], br.last)
    BY <1>3 DEF AfterReadByte
  <2>2. br.lastPos[1] = br.line /\ br.lastPos[2] = br.col /\ br.unread = TRUE
    BY <1>2, <1>3 DEF BufferInv, CanReread, Pos
  <2>3. br' = br
    <3>1. /\ AfterReadByte.lastPos = br.lastPos
          /\ br' = [br EXCEPT !.unread = TRUE, !.line = br.lastPos[1], !.col = br.lastPos[2]]
      BY <1>1, <1>2, <2>1 DEF Unread, Advanced
    <3>2. QED
      BY <1>2, <2>2, <3>1
  <2>4. BufferInv' /\ Taken' = Taken
    BY <1>1, <2>3 DEF BufferInv, Typed, IsBuffer, InBudget, InWindow, End, CanReread, Pos, IsNextBreak,
                      InPlace, Text, Marked, Shown, Taken, Position
  <2>5. UNCHANGED Source!source
    BY <1>1, <2>3, <2>4, SameText DEF Source!source
  <2>6. Past => Past'
    BY <1>1, <2>3, SameText DEF Past, End
  <2>7. QED
    BY <2>4, <2>5, <2>6
<1>4. CASE ~br.unread
  <2> DEFINE c == br.buf[br.off + 1]
  <2>1. AfterReadByte = Advanced([br EXCEPT !.off = @ + 1, !.last = c, !.lastPos = Pos], c)
    BY <1>4 DEF AfterReadByte, FirstByte
  <2>2. br' = [buf |-> br.buf, off |-> br.off + 1, nlIndex |-> br.nlIndex, line |-> br.line, col |-> br.col,
               lastPos |-> Pos, unread |-> TRUE, last |-> c, err |-> br.err,
               readBytes |-> br.readBytes]
    <3> HIDE DEF c
    <3>1. Pos[1] = br.line /\ Pos[2] = br.col
      BY DEF Pos
    <3>2. QED
      BY <1>1, <1>2, <2>1, <3>1 DEF Unread, Advanced
  <2>3. br.off < End
    BY <1>2, <1>4 DEF Empty
  <2>4. End' = End /\ Pos' = Pos
    BY <2>2 DEF End, Pos
  <2>5. Typed' /\ InBudget' /\ InWindow'
    BY <1>1, <1>2, <2>2, <2>3, <2>4 DEF BufferInv, Typed, IsBuffer, InBudget, InWindow, End
  <2>6. CanReread' /\ IsNextBreak(br)'
    <3>1. CanReread'
      BY <1>2, <2>2, <2>4 DEF CanReread
    <3>2. IsNextBreak(br)'
      BY <1>2, <2>2 DEF BufferInv, IsNextBreak
    <3>3. QED
      BY <3>1, <3>2
  <2>7. Position' = Position
    BY <1>1, <1>2, <1>4, <2>2, <2>4 DEF Position
  <2>8. InPlace' /\ UNCHANGED Source!source
    BY <1>1, <2>2, <2>7, SamePosition, SamePlace DEF BufferInv
  <2>9. Past => Past'
    BY <1>1, <2>4, SameText DEF Past
  <2>10. QED
    BY <2>5, <2>6, <2>8, <2>9 DEF BufferInv
<1>5. QED
  BY <1>2, <1>3, <1>4

(* One byte moves the column, or ends the line.                            *)
LEMMA OneByte ==
  ASSUME NEW text, NEW t \in Nat
  PROVE  /\ text[t + 1] # LineFeed => /\ LineOf(text, t + 1) = LineOf(text, t)
                                      /\ ColumnOf(text, t + 1) = ColumnOf(text, t) + 1
         /\ text[t + 1] = LineFeed => /\ LineOf(text, t + 1) = LineOf(text, t) + 1
                                      /\ ColumnOf(text, t + 1) = 0
<1>1. ASSUME text[t + 1] # LineFeed
      PROVE  /\ LineOf(text, t + 1) = LineOf(text, t)
             /\ ColumnOf(text, t + 1) = ColumnOf(text, t) + 1
  <2>1. \A i \in t + 1..t + 1 : text[i] # LineFeed
    <3>1. \A i \in t + 1..t + 1 : i = t + 1
      OBVIOUS
    <3>2. QED
      BY <1>1, <3>1
  <2>2. QED
    BY <2>1, WithoutBreak
<1>2. ASSUME text[t + 1] = LineFeed
      PROVE  /\ LineOf(text, t + 1) = LineOf(text, t) + 1
             /\ ColumnOf(text, t + 1) = 0
  <2>1. BreaksOf(text, t + 1) = BreaksOf(text, t) \cup {t + 1} /\ t + 1 \notin BreaksOf(text, t)
    BY <1>2 DEF BreaksOf
  <2>2. Cardinality(BreaksOf(text, t + 1)) = Cardinality(BreaksOf(text, t)) + 1
    BY <2>1, BreaksAreFinite, FS_AddElement
  <2>3. \A j \in BreaksOf(text, t + 1) : j \in Nat /\ j <= t + 1
    BY DEF BreaksOf
  <2>4. LastBreak(text, t + 1) = t + 1
    BY <2>1, <2>3 DEF LastBreak
  <2>5. LineOf(text, t + 1) = LineOf(text, t) + 1
    BY <2>2, BreaksAreFinite DEF LineOf
  <2>6. ColumnOf(text, t + 1) = 0
    BY <2>1, <2>4 DEF ColumnOf
  <2>7. QED
    BY <2>5, <2>6
<1>3. QED
  BY <1>1, <1>2

(* The next line break of the window, or its end.                          *)
LEMMA NextNewlineFacts ==
  ASSUME Typed, NEW from \in 0..End
  PROVE  /\ NextNewline(from) \in from..End
         /\ \A i \in from..NextNewline(from) - 1 : br.buf[i + 1] # LineFeed
         /\ NextNewline(from) < End => br.buf[NextNewline(from) + 1] = LineFeed
<1> DEFINE S == {i \in from..(End - 1) : br.buf[i + 1] = LineFeed} \union {End}
           first == NextNewline(from)
<1>1. End \in Nat
  BY DEF Typed, IsBuffer, End
<1>2. S \subseteq Nat /\ S # {}
  BY <1>1
<1>3. first = Min(S)
  BY DEF NextNewline
<1>4. first \in S /\ \A y \in S : first <= y
  <2> HIDE DEF S, first
  <2>1. QED
    BY <1>2, <1>3, MinIsLeast
<1>5. first \in from..End
  BY <1>1, <1>4
<1>6. \A i \in from..first - 1 : br.buf[i + 1] # LineFeed
  <2>1. SUFFICES ASSUME NEW i \in from..first - 1, br.buf[i + 1] = LineFeed PROVE FALSE
    OBVIOUS
  <2>2. i < first /\ i \in from..End - 1
    BY <1>1, <1>5
  <2>3. i \in S
    BY <2>1, <2>2
  <2>4. QED
    BY <1>1, <1>4, <1>5, <2>2, <2>3
<1>7. first < End => br.buf[first + 1] = LineFeed
  BY <1>1, <1>4
<1>8. QED
  BY <1>5, <1>6, <1>7

(* A step that takes n bytes, and arrives where they end.                  *)
LEMMA Taking ==
  ASSUME BufferInv, Past, NEW n \in Nat \ {0},
         input' = input, given' = given, Position' = Position + n, Taken + n <= Len(Text),
         br'.line = LineOf(Text, Taken + n), br'.col = ColumnOf(Text, Taken + n)
  PROVE  InPlace' /\ Source!Take
<1>1. Text' = Text /\ Mark' = Mark
  BY SameText
<1>2. /\ Taken = Position - Mark /\ Taken \in Nat /\ Position \in Int /\ Mark \in 0..1
  <2>1. /\ Taken = given - End - Mark + br.off - (IF br.unread THEN 1 ELSE 0) /\ Taken \in Nat
    BY WindowIsText DEF BufferInv
  <2>2. /\ End \in Nat /\ given \in Nat /\ br.off \in Nat /\ br.unread \in BOOLEAN /\ Mark \in 0..1
    BY InputFacts DEF BufferInv, Typed, IsBuffer, End
  <2>3. QED
    BY <2>1, <2>2 DEF Position
<1>3. Taken' = Taken + n
  <2>1. Taken' = Max({0, Position' - Mark'})
    BY DEF Taken, Mark
  <2>2. Position' - Mark' = Taken + n /\ Taken + n \in Nat
    BY <1>1, <1>2
  <2>3. QED
    BY <2>1, <2>2, MaxOfTwo
<1>4. InPlace'
  BY <1>1, <1>3 DEF InPlace
<1>5. /\ Source!Line(Taken + n) = LineOf(Text, Taken + n)
      /\ Source!Column(Taken + n) = ColumnOf(Text, Taken + n)
  <2>1. Source!Breaks(Taken + n) = BreaksOf(Text, Taken + n)
    BY DEF Source!Breaks, BreaksOf
  <2>2. QED
    <3>1. Source!Line(Taken + n) = LineOf(Text, Taken + n)
      <4>1. Source!Cardinality(BreaksOf(Text, Taken + n)) = Cardinality(BreaksOf(Text, Taken + n))
        BY DEF Source!Cardinality, Cardinality
      <4>2. QED
        BY <2>1, <4>1 DEF Source!Line, LineOf
    <3>2. Source!Column(Taken + n) = ColumnOf(Text, Taken + n)
      BY <2>1, Zenon DEF Source!Column, ColumnOf, LastBreak
    <3>3. QED
      BY <3>1, <3>2
<1>6. Source!At(Taken + n)
  BY <1>1, <1>3, <1>5 DEF Source!At
<1>7. Taken + n \in (Taken + 1)..Len(Text)
  <2>1. Len(Text) \in Int
    BY TextFacts, InputFacts DEF BufferInv, Typed
  <2>2. QED
    BY <1>2, <2>1
<1>8. QED
  BY <1>4, <1>6, <1>7 DEF Source!Take

(* The byte that is read next.                                             *)
AfterFirst == IF br.unread THEN br.off ELSE br.off + 1

(* It is the next byte of the text.                                        *)
LEMMA FirstByteFacts ==
  ASSUME BufferInv, Past, ~Empty
  PROVE  /\ AfterFirst \in 1..End /\ FirstByte = br.buf[AfterFirst]
         /\ Position + 1 = given - End + AfterFirst
         /\ Taken \in Nat /\ Taken + 1 <= Len(Text) /\ Text[Taken + 1] = FirstByte
<1>1. /\ End \in Nat /\ br.off \in 0..End /\ given \in Nat /\ End <= given
      /\ br.unread \in BOOLEAN /\ (br.unread => br.off # 0)
  BY DEF BufferInv, Typed, IsBuffer, End, CanReread, InWindow
<1>2. AfterFirst \in 1..End
  <2>1. ~br.unread => br.off # End
    BY DEF Empty
  <2>2. QED
    BY <1>1, <2>1 DEF AfterFirst
<1>3. FirstByte = br.buf[AfterFirst]
  BY <1>1 DEF BufferInv, CanReread, FirstByte, AfterFirst
<1>4. Position + 1 = given - End + AfterFirst
  BY <1>1 DEF Position, AfterFirst
<1>5. /\ given - End - Mark \in Nat /\ given - Mark <= Len(Text)
      /\ \A i \in 1..End : br.buf[i] = Text[given - End - Mark + i]
      /\ Taken = given - End - Mark + br.off - (IF br.unread THEN 1 ELSE 0) /\ Taken \in Nat
  BY WindowIsText DEF BufferInv
<1>6. Mark \in 0..1 /\ Len(Text) \in Int
  BY InputFacts, TextFacts DEF BufferInv, Typed
<1>7. Taken + 1 = given - End - Mark + AfterFirst
  BY <1>1, <1>5, <1>6 DEF AfterFirst
<1>8. Taken + 1 <= Len(Text)
  BY <1>1, <1>2, <1>5, <1>6, <1>7
<1>9. Text[Taken + 1] = FirstByte
  BY <1>2, <1>3, <1>5, <1>7
<1>10. QED
  BY <1>2, <1>3, <1>4, <1>5, <1>8, <1>9

(* A step that takes it.                                                   *)
LEMMA ByteTakes ==
  ASSUME BufferInv, Past, ~Empty, input' = input, given' = given, NEW line, NEW col, NEW lastPos,
         line = IF FirstByte = LineFeed THEN br.line + 1 ELSE br.line,
         col = IF FirstByte = LineFeed THEN 0 ELSE br.col + 1,
         br' = [buf |-> br.buf, off |-> AfterFirst, nlIndex |-> br.nlIndex, line |-> line, col |-> col,
                lastPos |-> lastPos, unread |-> FALSE, last |-> FirstByte, err |-> br.err,
                readBytes |-> br.readBytes]
  PROVE  BufferInv' /\ Past' /\ Source!Take
<1>1. /\ End \in Nat /\ br.off \in 0..End /\ given \in Nat /\ End <= given /\ br.nlIndex \in Int
      /\ br.line \in Nat /\ br.col \in Nat /\ br.unread \in BOOLEAN
  BY DEF BufferInv, Typed, IsBuffer, End, InWindow
<1>2. End' = End /\ Mark' = Mark
  BY SameText DEF End
<1>3. AfterFirst \in 1..End
  BY FirstByteFacts
<1>4. line \in Nat /\ col \in Nat
  BY <1>1
<1>5. Typed'
  BY <1>1, <1>3, <1>4 DEF BufferInv, Typed, IsBuffer, End
<1>6. InBudget' /\ InWindow' /\ Past'
  BY <1>2 DEF BufferInv, InBudget, InWindow, Past
<1>7. CanReread'
  BY DEF CanReread
<1>8. IsNextBreak(br)'
  <2>1. br.off <= AfterFirst
    BY <1>1 DEF AfterFirst
  <2>2. \A i \in AfterFirst..br.nlIndex - 1 : i \in br.off..br.nlIndex - 1
    BY <1>1, <1>3, <2>1
  <2>3. QED
    BY <1>1, <1>3, <2>1, <2>2 DEF BufferInv, IsNextBreak
<1>9. Position' = Position + 1
  <2>1. Position' = given - End + AfterFirst - 0
    BY <1>2 DEF Position
  <2>2. QED
    BY <1>1, <1>3, <2>1, FirstByteFacts
<1>10. br'.line = LineOf(Text, Taken + 1) /\ br'.col = ColumnOf(Text, Taken + 1)
  <2>1. br.line = LineOf(Text, Taken) /\ br.col = ColumnOf(Text, Taken)
    BY DEF BufferInv, InPlace
  <2>2. br'.line = line /\ br'.col = col
    OBVIOUS
  <2>3. QED
    BY <2>1, <2>2, FirstByteFacts, OneByte
<1>11. InPlace' /\ Source!Take
  <2>1. 1 \in Nat \ {0}
    OBVIOUS
  <2>2. QED
    BY <1>9, <1>10, <2>1, FirstByteFacts, Taking
<1>12. QED
  BY <1>5, <1>6, <1>7, <1>8, <1>11 DEF BufferInv

(* What advance makes of a buffer.                                         *)
LEMMA AdvancedFacts ==
  ASSUME NEW b, NEW c, NEW line, NEW col,
         b = [buf |-> b.buf, off |-> b.off, nlIndex |-> b.nlIndex, line |-> b.line, col |-> b.col,
              lastPos |-> b.lastPos, unread |-> b.unread, last |-> b.last, err |-> b.err,
              readBytes |-> b.readBytes],
         line = IF c = LineFeed THEN b.line + 1 ELSE b.line,
         col = IF c = LineFeed THEN 0 ELSE b.col + 1
  PROVE  Advanced(b, c)
           = [buf |-> b.buf, off |-> b.off, nlIndex |-> b.nlIndex, line |-> line, col |-> col,
              lastPos |-> b.lastPos, unread |-> b.unread, last |-> b.last, err |-> b.err,
              readBytes |-> b.readBytes]
<1> DEFINE a == Advanced(b, c)
<1>1. CASE c = LineFeed
  <2>1. a = [b EXCEPT !.line = line, !.col = col]
    BY <1>1 DEF Advanced
  <2> HIDE DEF a
  <2>2. a = [buf |-> b.buf, off |-> b.off, nlIndex |-> b.nlIndex, line |-> line, col |-> col,
             lastPos |-> b.lastPos, unread |-> b.unread, last |-> b.last, err |-> b.err,
             readBytes |-> b.readBytes]
    BY <2>1
  <2>3. QED
    BY <2>2 DEF a
<1>2. CASE c # LineFeed
  <2>1. a = [b EXCEPT !.col = col] /\ line = b.line
    BY <1>2 DEF Advanced
  <2> HIDE DEF a
  <2>2. a = [buf |-> b.buf, off |-> b.off, nlIndex |-> b.nlIndex, line |-> line, col |-> col,
             lastPos |-> b.lastPos, unread |-> b.unread, last |-> b.last, err |-> b.err,
             readBytes |-> b.readBytes]
    BY <2>1
  <2>3. QED
    BY <2>2 DEF a
<1>3. QED
  BY <1>1, <1>2

(* A byte that was unread is taken again.                                  *)
LEMMA RereadTakes ==
  ASSUME BufferInv, Past, br.unread, input' = input, given' = given,
         br' = Advanced([br EXCEPT !.unread = FALSE], br.last)
  PROVE  BufferInv' /\ Past' /\ Source!Take
<1> DEFINE line == IF FirstByte = LineFeed THEN br.line + 1 ELSE br.line
           col == IF FirstByte = LineFeed THEN 0 ELSE br.col + 1
           b == [br EXCEPT !.unread = FALSE]
<1>1. AfterFirst = br.off /\ FirstByte = br.last /\ ~Empty
  BY DEF AfterFirst, FirstByte, Empty
<1>2. br = [buf |-> br.buf, off |-> br.off, nlIndex |-> br.nlIndex, line |-> br.line, col |-> br.col,
            lastPos |-> br.lastPos, unread |-> br.unread, last |-> br.last, err |-> br.err,
            readBytes |-> br.readBytes]
  BY DEF BufferInv, Typed, IsBuffer
<1>3. b = [buf |-> br.buf, off |-> br.off, nlIndex |-> br.nlIndex, line |-> br.line, col |-> br.col,
           lastPos |-> br.lastPos, unread |-> FALSE, last |-> FirstByte, err |-> br.err,
           readBytes |-> br.readBytes]
  <2>1. b = [br EXCEPT !.unread = FALSE]
    OBVIOUS
  <2> HIDE DEF b
  <2>2. QED
    BY <1>1, <1>2, <2>1
<1>4. br' = Advanced(b, FirstByte)
  BY <1>1
<1> HIDE DEF b
<1>5. b = [buf |-> b.buf, off |-> b.off, nlIndex |-> b.nlIndex, line |-> b.line, col |-> b.col,
           lastPos |-> b.lastPos, unread |-> b.unread, last |-> b.last, err |-> b.err,
           readBytes |-> b.readBytes]
  BY <1>3
<1>6. /\ line = IF FirstByte = LineFeed THEN b.line + 1 ELSE b.line
      /\ col = IF FirstByte = LineFeed THEN 0 ELSE b.col + 1
  BY <1>3
<1> HIDE DEF line, col
<1>7. Advanced(b, FirstByte)
        = [buf |-> b.buf, off |-> b.off, nlIndex |-> b.nlIndex, line |-> line, col |-> col,
           lastPos |-> b.lastPos, unread |-> b.unread, last |-> b.last, err |-> b.err,
           readBytes |-> b.readBytes]
  BY <1>5, <1>6, AdvancedFacts
<1>8. br' = [buf |-> br.buf, off |-> AfterFirst, nlIndex |-> br.nlIndex, line |-> line, col |-> col,
             lastPos |-> br.lastPos, unread |-> FALSE, last |-> FirstByte, err |-> br.err,
             readBytes |-> br.readBytes]
  BY <1>1, <1>3, <1>4, <1>7
<1>9. /\ line = IF FirstByte = LineFeed THEN br.line + 1 ELSE br.line
      /\ col = IF FirstByte = LineFeed THEN 0 ELSE br.col + 1
  BY DEF line, col
<1>10. QED
  BY <1>1, <1>8, <1>9, ByteTakes

(* readByte takes one byte.                                                *)
LEMMA ReadByteTakes ==
  ASSUME BufferInv, Past, ReadByte, ~Empty
  PROVE  BufferInv' /\ Past' /\ Source!Take
<1>1. input' = input /\ given' = given /\ br' = AfterReadByte
  BY DEF ReadByte
<1>2. CASE br.unread
  <2>1. br' = Advanced([br EXCEPT !.unread = FALSE], br.last)
    BY <1>1, <1>2 DEF AfterReadByte
  <2>2. QED
    BY <1>1, <1>2, <2>1, RereadTakes
<1>3. CASE ~br.unread
  <2> DEFINE line == IF FirstByte = LineFeed THEN br.line + 1 ELSE br.line
             col == IF FirstByte = LineFeed THEN 0 ELSE br.col + 1
             b == [br EXCEPT !.off = @ + 1, !.last = FirstByte, !.lastPos = Pos]
  <2>1. /\ br = [buf |-> br.buf, off |-> br.off, nlIndex |-> br.nlIndex, line |-> br.line, col |-> br.col,
                 lastPos |-> br.lastPos, unread |-> br.unread, last |-> br.last, err |-> br.err,
                 readBytes |-> br.readBytes]
        /\ br.unread \in BOOLEAN
    BY DEF BufferInv, Typed, IsBuffer
  <2>2. b = [buf |-> br.buf, off |-> br.off + 1, nlIndex |-> br.nlIndex, line |-> br.line, col |-> br.col,
             lastPos |-> Pos, unread |-> FALSE, last |-> FirstByte, err |-> br.err,
             readBytes |-> br.readBytes]
    <3>1. b = [br EXCEPT !.off = br.off + 1, !.last = FirstByte, !.lastPos = Pos] /\ br.unread = FALSE
      BY <1>3, <2>1
    <3> HIDE DEF b
    <3>2. QED
      BY <2>1, <3>1
  <2>3. br' = Advanced(b, FirstByte)
    BY <1>1, <1>3 DEF AfterReadByte
  <2> HIDE DEF b
  <2>4. b = [buf |-> b.buf, off |-> b.off, nlIndex |-> b.nlIndex, line |-> b.line, col |-> b.col,
             lastPos |-> b.lastPos, unread |-> b.unread, last |-> b.last, err |-> b.err,
             readBytes |-> b.readBytes]
    BY <2>2
  <2>5. /\ line = IF FirstByte = LineFeed THEN b.line + 1 ELSE b.line
        /\ col = IF FirstByte = LineFeed THEN 0 ELSE b.col + 1
    BY <2>2
  <2> HIDE DEF line, col
  <2>6. Advanced(b, FirstByte)
          = [buf |-> b.buf, off |-> b.off, nlIndex |-> b.nlIndex, line |-> line, col |-> col,
             lastPos |-> b.lastPos, unread |-> b.unread, last |-> b.last, err |-> b.err,
             readBytes |-> b.readBytes]
    BY <2>4, <2>5, AdvancedFacts
  <2>7. AfterFirst = br.off + 1
    BY <1>3 DEF AfterFirst
  <2>8. br' = [buf |-> br.buf, off |-> AfterFirst, nlIndex |-> br.nlIndex, line |-> line, col |-> col,
               lastPos |-> Pos, unread |-> FALSE, last |-> FirstByte, err |-> br.err,
               readBytes |-> br.readBytes]
    BY <2>2, <2>3, <2>6, <2>7
  <2>9. /\ line = IF FirstByte = LineFeed THEN br.line + 1 ELSE br.line
        /\ col = IF FirstByte = LineFeed THEN 0 ELSE br.col + 1
    BY DEF line, col
  <2>10. QED
    BY <1>1, <2>8, <2>9, ByteTakes
<1>4. QED
  BY <1>2, <1>3

(* A step that takes n bytes of the buffer.                                *)
LEMMA BytesTaken ==
  ASSUME BufferInv, Past, ~br.unread, NEW n \in 1..End - br.off, input' = input, given' = given,
         NEW index \in -1..End, NEW line, NEW col,
         br' = [buf |-> br.buf, off |-> br.off + n, nlIndex |-> index, line |-> line, col |-> col,
                lastPos |-> br.lastPos, unread |-> FALSE, last |-> br.last, err |-> br.err,
                readBytes |-> br.readBytes],
         br.off + n <= index => /\ \A i \in br.off + n..index - 1 : br.buf[i + 1] # LineFeed
                                /\ index < End => br.buf[index + 1] = LineFeed,
         line = LineOf(Text, Taken + n), col = ColumnOf(Text, Taken + n), line \in Nat, col \in Nat
  PROVE  BufferInv' /\ Past' /\ Source!Take
<1>1. /\ End \in Nat /\ br.off \in 0..End /\ given \in Nat /\ End <= given
  BY DEF BufferInv, Typed, IsBuffer, End, InWindow
<1>2. End' = End /\ Mark' = Mark
  BY SameText DEF End
<1>3. Typed'
  BY <1>1 DEF BufferInv, Typed, IsBuffer, End
<1>4. InBudget' /\ InWindow' /\ Past'
  BY <1>2 DEF BufferInv, InBudget, InWindow, Past
<1>5. CanReread' /\ IsNextBreak(br)'
  BY DEF CanReread, IsNextBreak, End
<1>6. Position' = Position + n
  <2>1. Position = given - End + br.off - 0 /\ Position' = given - End + (br.off + n) - 0
    BY <1>2 DEF Position
  <2>2. QED
    BY <1>1, <2>1
<1>7. Taken + n <= Len(Text)
  <2>1. /\ given - End - Mark \in Nat /\ given - Mark <= Len(Text)
        /\ Taken = given - End - Mark + br.off - 0
    BY WindowIsText DEF BufferInv
  <2>2. Mark \in 0..1 /\ Len(Text) \in Int
    BY InputFacts, TextFacts DEF BufferInv, Typed
  <2> DEFINE d == given - End - Mark
             o == br.off
             l == Len(Text)
  <2>3. d \in Nat /\ o \in Nat /\ l \in Int /\ Taken = d + o /\ d + End <= l /\ o + n <= End /\ n \in Nat
    <3>1. d \in Nat /\ l \in Int /\ Taken = d + o - 0
      BY <2>1, <2>2
    <3>2. o \in Nat /\ n \in Nat /\ o + n <= End
      BY <1>1
    <3>3. d + End = given - Mark
      BY <1>1, <2>2
    <3>4. d + End <= l
      BY <2>1, <3>3
    <3> HIDE DEF d, o, l
    <3>5. QED
      BY <3>1, <3>2, <3>4
  <2> HIDE DEF d, o, l
  <2>4. Taken + n <= l
    BY <1>1, <2>3
  <2>5. QED
    BY <2>4 DEF l
<1>8. InPlace' /\ Source!Take
  <2>1. n \in Nat \ {0}
    BY <1>1
  <2>2. br'.line = LineOf(Text, Taken + n) /\ br'.col = ColumnOf(Text, Taken + n)
    OBVIOUS
  <2>3. QED
    BY <1>6, <1>7, <2>1, <2>2, Taking
<1>9. QED
  BY <1>3, <1>4, <1>5, <1>8 DEF BufferInv

(* The first line break at or behind the place, or the end.                *)
FirstBreak == IF br.nlIndex < br.off THEN NextNewline(br.off) ELSE br.nlIndex

(* It is the first one.                                                    *)
LEMMA FirstBreakFacts ==
  ASSUME BufferInv
  PROVE  /\ FirstBreak \in br.off..End
         /\ \A i \in br.off..FirstBreak - 1 : br.buf[i + 1] # LineFeed
         /\ FirstBreak < End => br.buf[FirstBreak + 1] = LineFeed
<1>1. /\ End \in Nat /\ br.off \in 0..End /\ br.nlIndex \in -1..End /\ End = Len(br.buf)
  BY DEF BufferInv, Typed, IsBuffer, End
<1>2. CASE br.nlIndex < br.off
  BY <1>1, <1>2, NextNewlineFacts DEF FirstBreak, BufferInv
<1>3. CASE ~(br.nlIndex < br.off)
  BY <1>1, <1>3 DEF FirstBreak, BufferInv, IsNextBreak
<1>4. QED
  BY <1>2, <1>3

(* The n bytes in the text.                                                *)
LEMMA PlaceFacts ==
  ASSUME BufferInv, Past, ~br.unread
  PROVE  /\ End \in Nat /\ br.off \in 0..End /\ br.line \in Nat /\ br.col \in Nat
         /\ given - End - Mark \in Nat /\ Taken = given - End - Mark + br.off /\ Taken \in Nat
         /\ \A i \in 0..End - 1 : br.buf[i + 1] = Text[given - End - Mark + i + 1]
         /\ br.line = LineOf(Text, Taken) /\ br.col = ColumnOf(Text, Taken)
<1>1. /\ End \in Nat /\ br.off \in 0..End /\ br.line \in Nat /\ br.col \in Nat
  BY DEF BufferInv, Typed, IsBuffer, End
<1>2. /\ given - End - Mark \in Nat
      /\ Taken = given - End - Mark + br.off - 0 /\ Taken \in Nat
      /\ \A i \in 1..End : br.buf[i] = Text[given - End - Mark + i]
  BY WindowIsText DEF BufferInv
<1>3. ASSUME NEW i \in 0..End - 1
      PROVE  br.buf[i + 1] = Text[given - End - Mark + i + 1]
  <2>1. i + 1 \in 1..End /\ given - End - Mark + (i + 1) = given - End - Mark + i + 1
    BY <1>1, <1>2
  <2>2. QED
    BY <1>2, <2>1
<1>4. QED
  BY <1>1, <1>2, <1>3 DEF BufferInv, InPlace

(* Up to the first line break the column moves.                            *)
LEMMA BeforeBreak ==
  ASSUME BufferInv, Past, ~br.unread, NEW n \in 1..End - br.off, br.off + n <= FirstBreak
  PROVE  br.line = LineOf(Text, Taken + n) /\ br.col + n = ColumnOf(Text, Taken + n)
<1>1. \A i \in Taken + 1..Taken + n : Text[i] # LineFeed
  <2>1. SUFFICES ASSUME NEW i \in Taken + 1..Taken + n PROVE Text[i] # LineFeed
    OBVIOUS
  <2> DEFINE d == given - End - Mark
             k == i - d - 1
  <2>2. d \in Nat /\ Taken = d + br.off /\ Taken \in Nat /\ br.off \in 0..End /\ End \in Nat
    BY PlaceFacts
  <2>3. FirstBreak \in br.off..End
    BY FirstBreakFacts
  <2> HIDE DEF d
  <2>4. k \in br.off..FirstBreak - 1 /\ k \in 0..End - 1 /\ d + k + 1 = i
    BY <2>2, <2>3
  <2>5. br.buf[k + 1] # LineFeed
    BY <2>4, FirstBreakFacts
  <2>6. br.buf[k + 1] = Text[d + k + 1]
    BY <2>4, PlaceFacts DEF d
  <2>7. QED
    BY <2>4, <2>5, <2>6
<1>2. Taken \in Nat /\ n \in Nat
  BY PlaceFacts
<1>3. /\ LineOf(Text, Taken + n) = LineOf(Text, Taken)
      /\ ColumnOf(Text, Taken + n) = ColumnOf(Text, Taken) + n
  BY <1>1, <1>2, WithoutBreak
<1>4. QED
  BY <1>3, PlaceFacts

(* What is counted behind it, when e is where the n bytes end.             *)
IsCount(n, e, first, last, more) ==
  /\ n \in 1..End - br.off /\ e = br.off + n /\ first = FirstBreak /\ first < e
  /\ more \subseteq first + 1..e - 1
  /\ \A i \in first + 1..e - 1 : i \in more <=> br.buf[i + 1] = LineFeed
  /\ last = first \/ last \in more
  /\ first <= last /\ \A i \in more : i <= last

(* Behind it the lines are counted.                                        *)
LEMMA BehindBreak ==
  ASSUME BufferInv, Past, ~br.unread, NEW n, NEW e, NEW first, NEW last, NEW more,
         IsCount(n, e, first, last, more)
  PROVE  /\ br.line + 1 + Cardinality(more) = LineOf(Text, Taken + n)
         /\ e - last - 1 = ColumnOf(Text, Taken + n)
         /\ br.line + 1 + Cardinality(more) \in Nat /\ e - last - 1 \in Nat
<1> USE DEF IsCount
<1> DEFINE d == given - End - Mark
           s == br.off
<1>1. /\ d \in Nat /\ Taken = d + s /\ Taken \in Nat /\ s \in 0..End /\ s \in Nat /\ End \in Nat
      /\ e \in Nat /\ e <= End
  BY PlaceFacts
<1>2. \A i \in 0..End - 1 : br.buf[i + 1] = Text[d + i + 1]
  BY PlaceFacts
<1>3. /\ first \in s..e - 1 /\ \A i \in s..first - 1 : br.buf[i + 1] # LineFeed
      /\ br.buf[first + 1] = LineFeed
  <2>1. /\ first \in s..End /\ \A i \in s..first - 1 : br.buf[i + 1] # LineFeed
        /\ first < End => br.buf[first + 1] = LineFeed
    BY FirstBreakFacts
  <2> HIDE DEF s
  <2>2. QED
    BY <1>1, <2>1
<1>4. Taken + n = d + e
  <2>1. n \in Nat /\ br.off \in Nat
    BY <1>1
  <2> HIDE DEF d
  <2>2. QED
    BY <1>1, <2>1
<1>5. br.line = LineOf(Text, d + s) /\ br.line \in Nat
  BY <1>1, PlaceFacts
<1> HIDE DEF d, s
<1>6. last \in first..e - 1 /\ br.buf[last + 1] = LineFeed
  <2>1. CASE last = first
    BY <1>1, <1>3, <2>1
  <2>2. CASE last \in more
    BY <1>1, <1>3, <2>2
  <2>3. QED
    BY <2>1, <2>2
<1>7. AreBreaks(Text, d, s, e, first, last, more)
  <2>1. \A i \in s..e - 1 : br.buf[i + 1] = Text[d + i + 1]
    BY <1>1, <1>2
  <2>2. /\ first \in s..e - 1 /\ last \in s..e - 1
        /\ \A i \in s..first - 1 : i \in s..e - 1
        /\ \A i \in first + 1..e - 1 : i \in s..e - 1
    BY <1>1, <1>3, <1>6
  <2>3. /\ \A i \in s..first - 1 : Text[d + i + 1] # LineFeed
        /\ Text[d + first + 1] = LineFeed /\ Text[d + last + 1] = LineFeed
    BY <1>3, <1>6, <2>1, <2>2
  <2>4. \A i \in first + 1..e - 1 : i \in more <=> Text[d + i + 1] = LineFeed
    BY <2>1, <2>2
  <2>5. QED
    BY <1>1, <1>3, <1>6, <2>3, <2>4 DEF AreBreaks
<1>8. /\ LineOf(Text, d + e) = LineOf(Text, d + s) + 1 + Cardinality(more)
      /\ ColumnOf(Text, d + e) = e - last - 1
  BY <1>7, WithBreaks
<1>9. Cardinality(more) \in Nat
  <2>1. first + 1 \in Int /\ e - 1 \in Int
    BY <1>1, <1>3
  <2>2. IsFiniteSet(first + 1..e - 1) /\ more \in SUBSET (first + 1..e - 1)
    BY <2>1, FS_Interval
  <2>3. QED
    BY <2>2, FS_Subset, FS_CardinalityType
<1>10. e - last - 1 \in Nat
  BY <1>1, <1>3, <1>6
<1>11. QED
  BY <1>4, <1>5, <1>8, <1>9, <1>10

(* consumeBuffered takes n bytes.                                          *)
LEMMA ConsumeTakes ==
  ASSUME BufferInv, Past, NEW n \in 1..Len(Window), ConsumeBuffered(n)
  PROVE  BufferInv' /\ Past' /\ Source!Take
<1>1. input' = input /\ given' = given /\ br' = AfterConsume(n)
  BY DEF ConsumeBuffered
<1>2. CASE br.unread
  <2>1. br' = Advanced([br EXCEPT !.unread = FALSE], br.last)
    BY <1>1, <1>2 DEF AfterConsume
  <2>2. QED
    BY <1>1, <1>2, <2>1, RereadTakes
<1>3. CASE ~br.unread
  <2> DEFINE e == br.off + n
             b == [br EXCEPT !.off = @ + n, !.col = @ + n]
             first == FirstBreak
  <2>1. /\ br = [buf |-> br.buf, off |-> br.off, nlIndex |-> br.nlIndex, line |-> br.line, col |-> br.col,
                 lastPos |-> br.lastPos, unread |-> br.unread, last |-> br.last, err |-> br.err,
                 readBytes |-> br.readBytes]
        /\ br.unread \in BOOLEAN /\ br.nlIndex \in -1..End /\ br.buf \in Seq(STRING) /\ End = Len(br.buf)
        /\ br.line \in Nat /\ br.col \in Nat /\ br.off \in 0..End /\ End \in Nat
    BY DEF BufferInv, Typed, IsBuffer, End
  <2>2. n \in 1..End - br.off
    <3>1. Window = SubSeq(br.buf, br.off + 1, End)
      BY <1>3 DEF Window
    <3>2. Len(Window) = End - br.off
      BY <2>1, <3>1
    <3>3. QED
      BY <3>2
  <2>3. e \in 0..End
    BY <2>1, <2>2
  <2>4. b = [buf |-> br.buf, off |-> e, nlIndex |-> br.nlIndex, line |-> br.line, col |-> br.col + n,
             lastPos |-> br.lastPos, unread |-> FALSE, last |-> br.last, err |-> br.err,
             readBytes |-> br.readBytes]
    <3> DEFINE col == br.col + n
    <3>1. b = [br EXCEPT !.off = e, !.col = col] /\ br.unread = FALSE
      BY <1>3, <2>1
    <3> HIDE DEF b, e, col
    <3>2. b = [buf |-> br.buf, off |-> e, nlIndex |-> br.nlIndex, line |-> br.line, col |-> col,
               lastPos |-> br.lastPos, unread |-> FALSE, last |-> br.last, err |-> br.err,
               readBytes |-> br.readBytes]
      BY <2>1, <3>1
    <3>3. QED
      BY <3>2 DEF col
  <2>5. br' = IF br.nlIndex < e THEN FixupLineBreaks(b, br.off) ELSE b
    BY <1>1, <1>3 DEF AfterConsume
  <2>6. /\ first \in br.off..End
        /\ \A i \in br.off..first - 1 : br.buf[i + 1] # LineFeed
        /\ first < End => br.buf[first + 1] = LineFeed
    BY FirstBreakFacts
  <2>7. first = IF b.nlIndex < br.off THEN NextNewline(br.off) ELSE b.nlIndex
    <3> HIDE DEF b
    <3>1. QED
      BY <2>4 DEF FirstBreak
  <2> HIDE DEF b
  <2>8. CASE first >= e
    <3>1. br' = [buf |-> br.buf, off |-> e, nlIndex |-> first, line |-> br.line, col |-> br.col + n,
                 lastPos |-> br.lastPos, unread |-> FALSE, last |-> br.last, err |-> br.err,
                 readBytes |-> br.readBytes]
      <4> HIDE DEF e, first
      <4>1. CASE br.nlIndex < e
        <5>1. br' = [b EXCEPT !.nlIndex = first]
          <6>1. br' = FixupLineBreaks(b, br.off) /\ first >= b.off
            BY <2>4, <2>5, <2>8, <4>1
          <6>2. QED
            BY <2>7, <6>1 DEF FixupLineBreaks
        <5> DEFINE new == br'
                   col == br.col + n
        <5> HIDE DEF new, col
        <5>2. new = [buf |-> br.buf, off |-> e, nlIndex |-> first, line |-> br.line, col |-> col,
                     lastPos |-> br.lastPos, unread |-> FALSE, last |-> br.last, err |-> br.err,
                     readBytes |-> br.readBytes]
          BY <2>4, <5>1 DEF new, col
        <5>3. QED
          BY <5>2 DEF new, col
      <4>2. CASE ~(br.nlIndex < e)
        <5>1. br' = b
          BY <2>5, <4>2
        <5>2. br.nlIndex = first
          <6>1. ~(br.nlIndex < br.off)
            BY <2>1, <2>2, <4>2 DEF e
          <6>2. QED
            BY <6>1 DEF first, FirstBreak
        <5>3. QED
          BY <2>4, <5>1, <5>2
      <4>3. QED
        BY <4>1, <4>2
    <3>2. br.line = LineOf(Text, Taken + n) /\ br.col + n = ColumnOf(Text, Taken + n)
      <4>1. br.off + n <= FirstBreak
        BY <2>1, <2>2, <2>6, <2>8
      <4>2. QED
        BY <1>3, <2>2, <4>1, BeforeBreak
    <3>3. \A i \in e..first - 1 : br.buf[i + 1] # LineFeed
      <4>1. \A i \in e..first - 1 : i \in br.off..first - 1
        BY <2>1, <2>2, <2>6
      <4>2. QED
        BY <2>6, <4>1
    <3>4. first \in -1..End /\ br.col + n \in Nat
      BY <2>1, <2>2, <2>6
    <3> DEFINE col == br.col + n
    <3> HIDE DEF first, col
    <3>5. QED
      BY <1>1, <1>3, <2>1, <2>2, <2>6, <3>1, <3>2, <3>3, <3>4, BytesTaken DEF col
  <2>9. CASE ~(first >= e)
    <3> DEFINE more == {i \in (first + 1)..(e - 1) : br.buf[i + 1] = LineFeed}
               last == Max(more \union {first})
               line == br.line + 1 + Cardinality(more)
               col == e - last - 1
               index == NextNewline(e)
    <3>1. br.nlIndex < e
      <4>1. CASE br.nlIndex < br.off
        BY <2>1, <2>2, <4>1
      <4>2. CASE ~(br.nlIndex < br.off)
        <5>1. first = br.nlIndex
          BY <4>2 DEF FirstBreak
        <5>2. QED
          BY <2>1, <2>3, <2>9, <5>1
      <4>3. QED
        BY <4>1, <4>2
    <3>2. br' = FixupLineBreaks(b, br.off) /\ ~(first >= b.off)
      BY <2>4, <2>5, <2>9, <3>1
    <3>3. b.off = e /\ b.buf = br.buf /\ b.line = br.line
      BY <2>4
    <3> HIDE DEF e, first
    <3>4. br' = [b EXCEPT !.line = line, !.col = col, !.nlIndex = index]
      BY <2>7, <3>2, <3>3 DEF FixupLineBreaks
    <3>5. /\ more \subseteq first + 1..e - 1
          /\ \A i \in first + 1..e - 1 : i \in more <=> br.buf[i + 1] = LineFeed
      OBVIOUS
    <3>6. last \in more \union {first} /\ \A i \in more \union {first} : i <= last
      <4> DEFINE S == more \union {first}
      <4>1. S \subseteq 0..End /\ S # {}
        BY <2>1, <2>3, <2>6
      <4> HIDE DEF S
      <4>2. Max(S) \in S /\ \A i \in S : i <= Max(S)
        BY <2>1, <4>1, MaxIsGreatest
      <4>3. QED
        BY <4>2 DEF S
    <3> HIDE DEF more, last
    <3>7. first < e
      BY <2>3, <2>6, <2>9
    <3>8. /\ (last = first \/ last \in more) /\ first <= last /\ \A i \in more : i <= last
      BY <3>6
    <3>9. /\ line = LineOf(Text, Taken + n) /\ col = ColumnOf(Text, Taken + n)
          /\ line \in Nat /\ col \in Nat
      <4>1. e = br.off + n /\ first = FirstBreak
        BY DEF e, first
      <4>2. IsCount(n, e, first, last, more)
        BY <2>2, <3>5, <3>7, <3>8, <4>1 DEF IsCount
      <4>3. /\ br.line + 1 + Cardinality(more) = LineOf(Text, Taken + n)
            /\ e - last - 1 = ColumnOf(Text, Taken + n)
            /\ br.line + 1 + Cardinality(more) \in Nat /\ e - last - 1 \in Nat
        BY <1>3, <4>2, BehindBreak
      <4>4. QED
        BY <4>3
    <3>10. /\ index \in e..End
           /\ \A i \in e..index - 1 : br.buf[i + 1] # LineFeed
           /\ index < End => br.buf[index + 1] = LineFeed
      BY <2>3, NextNewlineFacts DEF BufferInv
    <3> DEFINE new == br'
    <3> HIDE DEF line, col, index, new
    <3>11. new = [buf |-> br.buf, off |-> e, nlIndex |-> index, line |-> line, col |-> col,
                  lastPos |-> br.lastPos, unread |-> FALSE, last |-> br.last, err |-> br.err,
                  readBytes |-> br.readBytes]
      BY <2>4, <3>4 DEF new
    <3>12. br' = [buf |-> br.buf, off |-> br.off + n, nlIndex |-> index, line |-> line, col |-> col,
                  lastPos |-> br.lastPos, unread |-> FALSE, last |-> br.last, err |-> br.err,
                  readBytes |-> br.readBytes]
      BY <3>11 DEF new, e
    <3>13. /\ index \in -1..End
           /\ \A i \in br.off + n..index - 1 : br.buf[i + 1] # LineFeed
      <4>1. index \in -1..End
        BY <2>1, <2>3, <3>10
      <4>2. QED
        BY <3>10, <4>1 DEF e
    <3>14. QED
      BY <1>1, <1>3, <2>2, <3>9, <3>10, <3>12, <3>13, BytesTaken
  <2>10. QED
    BY <2>8, <2>9
<1>4. br.unread \in BOOLEAN
  BY DEF BufferInv, Typed, IsBuffer
<1>5. QED
  BY <1>2, <1>3, <1>4

-----------------------------------------------------------------------------
(* Where Reset and Next are.                                               *)

Previews == {"prefix", "marked", "declaration"}

(* A preview moves nothing, and leaves the start when the mark is dropped  *)
(* or known to be absent.                                                  *)
Phase ==
  /\ pc \in Previews => br.off = 0 /\ ~br.unread /\ br.nlIndex = -1
  /\ pc = "prefix" => given = End
  /\ pc \notin {"prefix", "done"} => Past

IInv == BufferInv /\ Phase

Left == pc' \notin Previews
Moves == Source!Take \/ UNCHANGED Source!source

(* Init establishes the invariant.                                         *)
LEMMA InitBuffer == Init => IInv /\ Source!Init
<1>1. SUFFICES ASSUME Init PROVE IInv /\ Source!Init
  OBVIOUS
<1>2. /\ input \in Inputs /\ given = 0 /\ pc = "prefix"
      /\ br = [buf |-> <<>>, off |-> 0, nlIndex |-> -1, line |-> 1, col |-> 0,
               lastPos |-> <<0, 0>>, unread |-> FALSE, last |-> "", err |-> Nil, readBytes |-> 0]
  BY <1>1 DEF Init, StreamInit
<1>3. /\ br.buf = <<>> /\ br.off = 0 /\ br.nlIndex = -1 /\ br.line = 1 /\ br.col = 0
      /\ br.unread = FALSE /\ br.err = Nil /\ br.readBytes = 0
  BY <1>2
<1>4. End = 0 /\ Len(br.buf) = 0
  BY <1>3 DEF End
<1>5. Typed
  <2>1. br = [buf |-> br.buf, off |-> br.off, nlIndex |-> br.nlIndex, line |-> br.line, col |-> br.col,
              lastPos |-> br.lastPos, unread |-> br.unread, last |-> br.last, err |-> br.err,
              readBytes |-> br.readBytes]
    BY <1>2
  <2>2. br.buf \in Seq(STRING)
    <3>1. <<>> \in Seq(STRING)
      OBVIOUS
    <3>2. QED
      BY <1>3, <3>1
  <2>3. br.off \in 0..Len(br.buf) /\ br.nlIndex \in -1..Len(br.buf)
    BY <1>3, <1>4
  <2>4. br.line \in Nat /\ br.col \in Nat /\ br.unread \in BOOLEAN /\ br.readBytes \in Nat
    <3>1. br.line = 1 /\ br.col = 0 /\ br.readBytes = 0
      BY <1>3
    <3>2. br.line \in Nat /\ br.col \in Nat /\ br.readBytes \in Nat
      BY <3>1
    <3>3. br.unread \in BOOLEAN
      BY <1>3, Zenon
    <3>4. QED
      BY <3>2, <3>3
  <2>5. QED
    BY <1>2, <2>1, <2>2, <2>3, <2>4 DEF Typed, IsBuffer
<1>6. InBudget /\ InWindow /\ CanReread /\ IsNextBreak(br)
  <2>1. Len(input.data) \in Nat /\ input.maxBytes \in Nat
    BY <1>2, InputFacts
  <2>2. br.err # EOF
    BY <1>3 DEF Nil, EOF
  <2>3. given = 0
    BY <1>2
  <2>4. InBudget
    BY <1>3, <2>1, <2>2, <2>3 DEF InBudget
  <2>5. InWindow
    BY <1>4, <2>3 DEF InWindow
  <2>6. CanReread /\ IsNextBreak(br)
    BY <1>3 DEF CanReread, IsNextBreak
  <2>7. QED
    BY <2>4, <2>5, <2>6
<1>7. Taken = 0
  <2>1. given = 0 /\ Mark \in 0..1
    BY <1>2, InputFacts
  <2>2. Position = 0
    <3>1. Position = given - End + br.off - 0
      BY <1>3 DEF Position
    <3>2. QED
      BY <1>3, <1>4, <2>1, <3>1
  <2>3. Taken = Max({0, Position - Mark}) /\ Position - Mark \in Int /\ Position - Mark <= 0
    BY <2>1, <2>2 DEF Taken, Mark
  <2>4. QED
    BY <2>3, MaxOfTwo
<1>8. InPlace
  BY <1>3, <1>7, StartOfText DEF InPlace
<1>9. Phase
  <2>1. pc = "prefix" /\ given = 0
    BY <1>2
  <2>2. QED
    BY <1>3, <1>4, <2>1 DEF Phase, Previews
<1>10. Source!Init
  BY <1>3, <1>7 DEF Source!Init
<1>11. QED
  BY <1>5, <1>6, <1>8, <1>9, <1>10 DEF IInv, BufferInv

(* A step that does not touch the buffer.                                  *)
LEMMA StreamStays ==
  ASSUME BufferInv, UNCHANGED stream
  PROVE  BufferInv' /\ UNCHANGED Source!source /\ (Past => Past')
<1>1. input' = input /\ given' = given /\ br' = br
  BY DEF stream
<1>2. End' = End /\ Pos' = Pos /\ Text' = Text /\ Mark' = Mark
  BY <1>1, SameText DEF End, Pos
<1>3. Position' = Position
  BY <1>1, <1>2 DEF Position
<1>4. Taken' = Taken
  BY <1>1, <1>3, SamePosition
<1>5. BufferInv'
  BY <1>1, <1>2, <1>4 DEF BufferInv, Typed, InBudget, InWindow, CanReread, InPlace
<1>6. QED
  BY <1>1, <1>2, <1>4, <1>5 DEF Past, Source!source

-----------------------------------------------------------------------------
(* No step of Next leads back to a preview.                                *)

(* An error ends the call.                                                 *)
LEMMA StopLeaves ==
  ASSUME NEW err, Stop(err)
  PROVE  Left
BY DEF Stop, Left, Previews

(* So does a token.                                                        *)
LEMMA ReturnLeaves ==
  ASSUME NEW token, NEW q, Return(token, q)
  PROVE  Left
BY DEF Return, Left, Previews

(* A token that is not emitted is followed by the next.                    *)
LEMMA SkipLeaves ==
  ASSUME NEW q, Skip(q)
  PROVE  Left
BY DEF Skip, Left, Previews

(* Inside a token the place is one of the token's.                         *)
LEMMA GotoLeaves ==
  ASSUME NEW where, NEW q, Goto(where, q), where \notin Previews
  PROVE  Left
BY StopLeaves DEF Goto, Left

(* So it is after a byte.                                                  *)
LEMMA ResumeLeaves ==
  ASSUME NEW q, Resume(q)
  PROVE  Left
BY ReturnLeaves, GotoLeaves DEF Resume, CDATAChunk, Previews

(* After a part of a rune.                                                 *)
LEMMA RuneLeaves ==
  ASSUME NEW q, NEW b, Rune(q, b)
  PROVE  Left
BY StopLeaves, GotoLeaves, ResumeLeaves DEF Rune, Previews

(* At the start of a name.                                                 *)
LEMMA NameLeaves ==
  ASSUME NEW place, NEW b, NEW q, Name(place, b, q)
  PROVE  Left
BY GotoLeaves DEF Name, Previews

(* After a byte of character data.                                         *)
LEMMA TextByteLeaves ==
  ASSUME NEW q, NEW b, TextByte(q, b)
  PROVE  Left
BY StopLeaves, GotoLeaves, RuneLeaves DEF TextByte, Previews

(* After a name.                                                           *)
LEMMA FinishNameLeaves ==
  ASSUME NEW q, FinishName(q)
  PROVE  Left
BY StopLeaves, GotoLeaves DEF FinishName, Previews

(* After an instruction.                                                   *)
LEMMA FinishContentLeaves ==
  ASSUME FinishContent
  PROVE  Left
BY StopLeaves, SkipLeaves, ReturnLeaves DEF FinishContent

(* After a line end.                                                       *)
LEMMA LineEndLeaves ==
  ASSUME LineEnd
  PROVE  Left
BY ResumeLeaves DEF LineEnd

(* Whatever is done with a byte, it is not previewed again.                *)
LEMMA ByteLeaves ==
  ASSUME NEW b,
         StartToRead(b) \/ Open(b) \/ Bang(b) \/ Dash(b) \/ FinishRune(b) \/ Entity(b)
         \/ ScanCDATA(b) \/ ScanComment(b) \/ ScanContent(b) \/ CommentEnd(b) \/ Target(b)
         \/ TargetEnd(b) \/ Tag(b) \/ EmptyTag(b) \/ Equals(b) \/ Quote(b) \/ EndFirst(b) \/ EndTag(b)
  PROVE  Left
<1>1. CASE StartToRead(b)
  BY <1>1, GotoLeaves, TextByteLeaves DEF StartToRead, Previews
<1>2. CASE Open(b)
  BY <1>2, GotoLeaves, NameLeaves DEF Open, Previews
<1>3. CASE Bang(b)
  BY <1>3, GotoLeaves, StopLeaves DEF Bang, Previews
<1>4. CASE Dash(b)
  BY <1>4, GotoLeaves, StopLeaves DEF Dash, Previews
<1>5. CASE FinishRune(b)
  BY <1>5, ResumeLeaves, StopLeaves DEF FinishRune
<1>6. CASE Entity(b)
  <2>1. CASE b = ";"
    BY <1>6, <2>1, ResumeLeaves, StopLeaves DEF Entity
  <2>2. CASE b # ";"
    <3>1. Stop({"token"}) \/ \E q : Goto("entity", q)
      BY <1>6, <2>2, Zenon DEF Entity
    <3>2. QED
      BY <3>1, GotoLeaves, StopLeaves DEF Previews
  <2>3. QED
    BY <2>1, <2>2
<1>7. CASE ScanCDATA(b)
  BY <1>7, GotoLeaves, ResumeLeaves, ReturnLeaves, RuneLeaves DEF ScanCDATA, Previews
<1>8. CASE ScanComment(b)
  BY <1>8, GotoLeaves, RuneLeaves DEF ScanComment, Previews
<1>9. CASE ScanContent(b)
  BY <1>9, GotoLeaves, RuneLeaves, FinishContentLeaves DEF ScanContent, Previews
<1>10. CASE CommentEnd(b)
  BY <1>10, StopLeaves, ReturnLeaves, SkipLeaves DEF CommentEnd
<1>11. CASE Target(b)
  BY <1>11, StopLeaves, GotoLeaves DEF Target, Previews
<1>12. CASE TargetEnd(b)
  BY <1>12, StopLeaves, ReturnLeaves, SkipLeaves DEF TargetEnd
<1>13. CASE Tag(b)
  BY <1>13, StopLeaves, GotoLeaves, ReturnLeaves, NameLeaves DEF Tag, Previews
<1>14. CASE EmptyTag(b)
  BY <1>14, StopLeaves, ReturnLeaves DEF EmptyTag
<1>15. CASE Equals(b)
  BY <1>15, StopLeaves, GotoLeaves DEF Equals, Previews
<1>16. CASE Quote(b)
  BY <1>16, StopLeaves, GotoLeaves DEF Quote, Previews
<1>17. CASE EndFirst(b)
  BY <1>17, StopLeaves, NameLeaves DEF EndFirst
<1>18. CASE EndTag(b)
  BY <1>18, StopLeaves, GotoLeaves, ReturnLeaves DEF EndTag, Previews
<1>19. QED
  BY <1>1, <1>2, <1>3, <1>4, <1>5, <1>6, <1>7, <1>8, <1>9, <1>10, <1>11, <1>12, <1>13, <1>14,
     <1>15, <1>16, <1>17, <1>18

-----------------------------------------------------------------------------
(* The steps.                                                              *)

(* A step that has left the previews, behind the mark.                     *)
LEMMA Settles ==
  ASSUME BufferInv', Past', Left
  PROVE  IInv'
BY DEF IInv, Phase, Left, Previews

(* A step that is not a preview is behind the mark.                        *)
LEMMA Behind ==
  ASSUME IInv, pc \notin Previews, pc # "done"
  PROVE  BufferInv /\ Past
BY DEF IInv, Phase, Previews

(* What is scanned of a window is a part of it.                            *)
LEMMA ScannedFacts ==
  ASSUME BufferInv
  PROVE  /\ Len(Window) \in Nat
         /\ ChunkLength(Window) \in 0..Len(Window)
         /\ \A T : Max({k \in 0..Len(Window) : \A i \in 1..k : Window[i] \notin T}) \in 0..Len(Window)
<1>1. Len(Window) \in Nat
  <2>1. CASE br.unread
    <3>1. Window = <<br.last>>
      BY <2>1 DEF Window
    <3>2. QED
      BY <3>1
  <2>2. CASE ~br.unread
    <3>1. Window = SubSeq(br.buf, br.off + 1, End)
      BY <2>2 DEF Window
    <3>2. br.buf \in Seq(STRING) /\ br.off \in 0..End /\ End = Len(br.buf) /\ End \in Nat
      BY DEF BufferInv, Typed, IsBuffer, End
    <3>3. QED
      BY <3>1, <3>2
  <2>3. QED
    BY <2>1, <2>2
<1> DEFINE w == Window
<1>2. ChunkLength(w) \in 0..Len(w)
  <2> DEFINE S == {k \in 0..Len(w) : \A i \in 1..k : Ordinary(w, i)}
  <2>1. 0 \in S
    BY <1>1
  <2>2. S \subseteq 0..Len(w) /\ S # {}
    BY <2>1
  <2>3. ChunkLength(w) = Max(S)
    BY DEF ChunkLength
  <2> HIDE DEF S, w
  <2>4. Max(S) \in S
    BY <1>1, <2>2, MaxIsGreatest DEF w
  <2>5. QED
    BY <2>2, <2>3, <2>4
<1>3. ASSUME NEW T
      PROVE  Max({k \in 0..Len(w) : \A i \in 1..k : w[i] \notin T}) \in 0..Len(w)
  <2> DEFINE S == {k \in 0..Len(w) : \A i \in 1..k : w[i] \notin T}
  <2>1. 0 \in S
    BY <1>1
  <2>2. S \subseteq 0..Len(w) /\ S # {}
    BY <2>1
  <2> HIDE DEF S, w
  <2>3. Max(S) \in S
    BY <1>1, <2>2, MaxIsGreatest DEF w
  <2>4. Max(S) \in 0..Len(w)
    BY <2>2, <2>3
  <2>5. QED
    BY <2>4 DEF S
<1>4. QED
  BY <1>1, <1>2, <1>3

(* consumeBuffered, or nothing.                                            *)
LEMMA PartTakes ==
  ASSUME BufferInv, Past, NEW n \in 0..Len(Window),
         IF n > 0 THEN ConsumeBuffered(n) ELSE UNCHANGED stream
  PROVE  BufferInv' /\ Past' /\ Moves
<1>1. CASE n > 0
  <2>1. n \in 1..Len(Window)
    BY <1>1, ScannedFacts
  <2>2. QED
    BY <1>1, <2>1, ConsumeTakes DEF Moves
<1>2. CASE ~(n > 0)
  BY <1>2, StreamStays DEF Moves
<1>3. QED
  BY <1>1, <1>2

(* Character data.                                                         *)
LEMMA TextMoves ==
  ASSUME BufferInv, Past, ~Empty, ScanText
  PROVE  BufferInv' /\ Past' /\ Left /\ Moves
<1> DEFINE n == ChunkLength(Window)
<1>1. n \in 0..Len(Window)
  BY ScannedFacts
<1>2. \/ (\E err : Stop(err)) /\ UNCHANGED stream
      \/ n > 0 /\ (\E q : Goto("scan", q)) /\ ConsumeBuffered(n)
      \/ TextToken(p) /\ Peek
      \/ TextByte(p, FirstByte) /\ ReadByte
  BY Zenon DEF ScanText
<1> HIDE DEF n
<1>3. CASE (\E err : Stop(err)) /\ UNCHANGED stream
  BY <1>3, StopLeaves, StreamStays DEF Moves
<1>4. CASE n > 0 /\ (\E q : Goto("scan", q)) /\ ConsumeBuffered(n)
  <2>1. Left
    BY <1>4, GotoLeaves DEF Previews
  <2>2. QED
    BY <1>1, <1>4, <2>1, PartTakes
<1>5. CASE TextToken(p) /\ Peek
  BY <1>5, ReturnLeaves, PeekKeeps DEF TextToken, Moves
<1>6. CASE TextByte(p, FirstByte) /\ ReadByte
  BY <1>6, TextByteLeaves, ReadByteTakes DEF Moves
<1>7. QED
  BY <1>2, <1>3, <1>4, <1>5, <1>6

(* Attribute values.                                                       *)
LEMMA ValueMoves ==
  ASSUME BufferInv, Past, ~Empty, ScanValue
  PROVE  BufferInv' /\ Past' /\ Left /\ Moves
<1> DEFINE apart == {"lead", "tail", "bad", "lf", "cr", "'", "<", "&"}
           n == Max({k \in 0..Len(Window) : \A i \in 1..k : Window[i] \notin apart})
<1>1. n \in 0..Len(Window)
  BY ScannedFacts
<1>2. \/ (\E err : Stop(err)) /\ UNCHANGED stream
      \/ n > 0 /\ (\E q : Goto("scan", q)) /\ ConsumeBuffered(n)
      \/ /\ \/ FinishValue \/ (\E err : Stop(err))
            \/ Goto("linefeed", p) \/ Goto("entity", p) \/ (\E b : Rune(p, b))
         /\ ReadByte
  BY Zenon DEF ScanValue
<1> HIDE DEF n
<1>3. CASE (\E err : Stop(err)) /\ UNCHANGED stream
  BY <1>3, StopLeaves, StreamStays DEF Moves
<1>4. CASE n > 0 /\ (\E q : Goto("scan", q)) /\ ConsumeBuffered(n)
  <2>1. Left
    BY <1>4, GotoLeaves DEF Previews
  <2>2. QED
    BY <1>1, <1>4, <2>1, PartTakes
<1>5. CASE /\ \/ FinishValue \/ (\E err : Stop(err))
              \/ Goto("linefeed", p) \/ Goto("entity", p) \/ (\E b : Rune(p, b))
           /\ ReadByte
  <2>1. Left
    BY <1>5, GotoLeaves, StopLeaves, RuneLeaves DEF FinishValue, Previews
  <2>2. QED
    BY <1>5, <2>1, ReadByteTakes DEF Moves
<1>6. QED
  BY <1>2, <1>3, <1>4, <1>5

(* Names.                                                                  *)
LEMMA NameMoves ==
  ASSUME BufferInv, Past, ~Empty, ScanName
  PROVE  BufferInv' /\ Past' /\ Left /\ Moves
<1> DEFINE n == Max({k \in 0..Len(Window) : \A i \in 1..k : Window[i] \notin NameTerminators})
<1>1. n \in 0..Len(Window)
  BY ScannedFacts
<1>2. \/ (\E err : Stop(err)) /\ UNCHANGED stream
      \/ /\ (\E q : FinishName(q)) \/ (\E q : Goto("name", q))
         /\ IF n > 0 THEN ConsumeBuffered(n) ELSE UNCHANGED stream
  BY Zenon DEF ScanName
<1> HIDE DEF n
<1>3. CASE (\E err : Stop(err)) /\ UNCHANGED stream
  BY <1>3, StopLeaves, StreamStays DEF Moves
<1>4. CASE /\ (\E q : FinishName(q)) \/ (\E q : Goto("name", q))
           /\ IF n > 0 THEN ConsumeBuffered(n) ELSE UNCHANGED stream
  <2>1. Left
    BY <1>4, FinishNameLeaves, GotoLeaves DEF Previews
  <2>2. QED
    BY <1>1, <1>4, <2>1, PartTakes
<1>5. QED
  BY <1>2, <1>3, <1>4

(* A step on a byte, on the window, on a line end or on an error.          *)
LEMMA ReadingMoves ==
  ASSUME IInv, FillBuffer \/ OnByte \/ OnWindow \/ OnLineEnd \/ OnError \/ ContinueCDATA \/ PendingEnd
  PROVE  IInv' /\ Moves
<1>1. pc \notin Previews /\ pc # "done"
  BY DEF FillBuffer, OnByte, OnWindow, OnLineEnd, OnError, NeedsInput, ContinueCDATA, PendingEnd, Previews
<1>2. BufferInv /\ Past
  BY <1>1, Behind
<1>3. CASE FillBuffer
  <2>1. Left
    BY <1>1, <1>3 DEF FillBuffer, reading, Left
  <2>2. QED
    BY <1>2, <1>3, <2>1, FillKeeps, Settles DEF FillBuffer, Moves
<1>4. CASE OnByte
  <2>1. ~Empty /\ ReadByte
    BY <1>4 DEF OnByte
  <2>2. Left
    BY <1>4, ByteLeaves DEF OnByte
  <2>3. QED
    BY <1>2, <2>1, <2>2, ReadByteTakes, Settles DEF Moves
<1>5. CASE OnWindow
  BY <1>2, <1>5, TextMoves, ValueMoves, NameMoves, Settles DEF OnWindow
<1>6. CASE OnLineEnd
  BY <1>2, <1>6, LineEndLeaves, ReadByteTakes, PeekKeeps, Settles DEF OnLineEnd, Moves
<1>7. CASE OnError
  <2>1. PICK err \in Raised :
          /\ Raise(err)
          /\ IF ~IsOnlyEOF(err) \/ pc \in Unguarded THEN Stop(err)
             ELSE IF pc = "linefeed" THEN LineEnd
             ELSE IF pc = "scan" /\ p.place = "text" THEN TextToken(p)
             ELSE Stop(Syntax)
    BY <1>7 DEF OnError
  <2>2. Left
    BY <2>1, StopLeaves, LineEndLeaves, ReturnLeaves DEF TextToken
  <2>3. QED
    BY <1>2, <2>1, <2>2, RaiseKeeps, Settles DEF Moves
<1>8. CASE ContinueCDATA
  <2>1. Left /\ UNCHANGED stream
    BY <1>8, GotoLeaves DEF ContinueCDATA, Previews
  <2>2. QED
    BY <1>2, <2>1, StreamStays, Settles DEF Moves
<1>9. CASE PendingEnd
  <2>1. Left /\ UNCHANGED stream
    BY <1>9, ReturnLeaves DEF PendingEnd
  <2>2. QED
    BY <1>2, <2>1, StreamStays, Settles DEF Moves
<1>10. QED
  BY <1>3, <1>4, <1>5, <1>6, <1>7, <1>8, <1>9

(* Without a mark there is nothing to pass.                                *)
LEMMA NoMarkToPass ==
  ASSUME ~Marked, given \in Nat, given = End
  PROVE  Past
BY DEF Past, Mark

(* Before the first byte, an input with a mark shows it, or it has ended.  *)
LEMMA MarkShows ==
  ASSUME BufferInv, br.off = 0, ~br.unread, given = End,
         NEW err, Ensured(PrefixLength, err), err = Nil \/ IsOnlyEOF(err), Marked
  PROVE  Window # <<>> /\ Head(Window) = ByteOrderMark
<1>1. /\ End \in Nat /\ br.buf \in Seq(STRING) /\ End = Len(br.buf)
      /\ Len(input.data) \in Nat /\ Mark = 1 /\ Len(input.data) # 0
  <2>1. Mark = 1
    BY DEF Mark
  <2>2. Mark <= Shown /\ Shown <= Len(input.data) /\ Shown \in Int /\ Len(input.data) \in Nat
    BY InputFacts DEF BufferInv, Typed
  <2>3. End \in Nat /\ br.buf \in Seq(STRING) /\ End = Len(br.buf)
    BY DEF BufferInv, Typed, IsBuffer, End
  <2>4. QED
    BY <2>1, <2>2, <2>3
<1>2. End # 0
  <2>1. CASE ~Short(PrefixLength)
    <3>1. ~(End < PrefixLength) \/ ~(End < Capacity)
      BY <1>1, <2>1 DEF Short
    <3>2. QED
      BY <1>1, <3>1, ByteStreamAssumption DEF PrefixLength
  <2>2. CASE Short(PrefixLength)
    <3>1. err = IF br.err = Nil THEN {"no progress"} ELSE br.err
      BY <2>2 DEF Ensured
    <3>2. br.err = EOF
      <4>1. {"no progress"} # EOF /\ {"no progress"} # Nil
        BY DEF EOF, Nil
      <4>2. QED
        BY <3>1, <4>1 DEF IsOnlyEOF
    <3>3. given = Len(input.data)
      BY <3>2 DEF BufferInv, InBudget
    <3>4. QED
      BY <1>1, <3>3
  <2>3. QED
    BY <2>1, <2>2
<1>3. br.buf[1] = ByteOrderMark
  <2>1. 1 \in 1..End /\ given - End + 1 = 1
    BY <1>1, <1>2
  <2>2. br.buf[1] = input.data[1]
    BY <2>1 DEF BufferInv, InWindow
  <2>3. QED
    BY <2>2 DEF Marked
<1>4. Window = br.buf
  <2> DEFINE buf == br.buf
  <2>1. Window = SubSeq(buf, 1, End)
    <3>1. Window = SubSeq(buf, br.off + 1, End)
      BY DEF Window
    <3>2. br.off + 1 = 1
      OBVIOUS
    <3>3. QED
      BY <3>1, <3>2
  <2>2. buf \in Seq(STRING) /\ End = Len(buf)
    BY <1>1
  <2> HIDE DEF buf
  <2>3. SubSeq(buf, 1, Len(buf)) = buf
    BY <2>2
  <2>4. QED
    BY <2>1, <2>2, <2>3 DEF buf
<1>5. QED
  <2> DEFINE buf == br.buf
  <2>1. buf \in Seq(STRING) /\ Len(buf) # 0 /\ buf[1] = ByteOrderMark /\ Window = buf
    BY <1>1, <1>2, <1>3, <1>4
  <2> HIDE DEF buf
  <2>2. QED
    BY <2>1

(* Looking ahead moves nothing.                                            *)
LEMMA PreviewMoves ==
  ASSUME IInv, Preview
  PROVE  IInv' /\ Moves
<1>1. pc \in Previews /\ pc' = pc
  BY DEF Preview, reading, Previews
<1>2. BufferInv /\ br.off = 0 /\ ~br.unread /\ br.nlIndex = -1
  BY <1>1 DEF IInv, Phase
<1>3. PICK n : Extend(n)
  BY DEF Preview
<1>4. /\ BufferInv' /\ UNCHANGED Source!source
      /\ given' - End' = given - End /\ br'.off = br.off /\ br'.unread = br.unread /\ br'.nlIndex = -1
  BY <1>2, <1>3, ExtendKeeps
<1>5. Mark' = Mark
  BY SameText DEF Preview, Extend
<1>6. given \in Nat /\ End \in Nat /\ given' \in Nat /\ End' \in Nat
  BY <1>2, <1>4 DEF BufferInv, Typed, IsBuffer, End
<1>7. pc = "prefix" => given' = End'
  <2>1. ASSUME pc = "prefix" PROVE given' = End'
    <3>1. given = End
      BY <2>1 DEF IInv, Phase
    <3>2. given' - End' = given - End
      BY <1>4
    <3> DEFINE g == given'
               e == End'
    <3>3. g \in Nat /\ e \in Nat /\ g - e = given - End
      BY <1>6, <3>2
    <3> HIDE DEF g, e
    <3>4. g = e
      BY <1>6, <3>1, <3>3
    <3>5. QED
      BY <3>4 DEF g, e
  <2>2. QED
    BY <2>1
<1>8. Past => Past'
  BY <1>4, <1>5 DEF Past
<1>9. Phase'
  BY <1>1, <1>2, <1>4, <1>7, <1>8 DEF IInv, Phase
<1>10. QED
  BY <1>4, <1>9 DEF IInv, Moves

(* The start of the document.                                              *)
LEMMA PrefixMoves ==
  ASSUME IInv, Prefix
  PROVE  IInv' /\ Moves
<1>1. pc \in {"prefix", "marked"}
  BY DEF Prefix
<1>2. /\ BufferInv /\ br.off = 0 /\ ~br.unread /\ br.nlIndex = -1
      /\ pc = "prefix" => given = End
      /\ pc = "marked" => Past
  BY <1>1 DEF IInv, Phase, Previews
<1>3. PICK err \in {Nil, br.err, {"no progress"}} :
        /\ Ensured(PrefixLength, err)
        /\ IF err # Nil /\ ~IsOnlyEOF(err) THEN Stop(err) /\ UNCHANGED stream
           ELSE IF pc = "prefix" /\ Window # <<>> /\ Head(Window) = ByteOrderMark
           THEN Goto("marked", p) /\ DiscardMark
           ELSE /\ IF StartsDeclaration(Window)
                   THEN Goto("declaration", [p EXCEPT !.want = PrefixLength])
                   ELSE Goto("next", p)
                /\ UNCHANGED stream
  BY DEF Prefix
<1>4. CASE err # Nil /\ ~IsOnlyEOF(err)
  <2>1. pc' = "done" /\ UNCHANGED stream
    BY <1>3, <1>4 DEF Stop
  <2>2. BufferInv' /\ UNCHANGED Source!source
    BY <1>2, <2>1, StreamStays
  <2>3. QED
    BY <2>1, <2>2 DEF IInv, Phase, Previews, Moves
<1>5. CASE /\ err = Nil \/ IsOnlyEOF(err)
           /\ pc = "prefix" /\ Window # <<>> /\ Head(Window) = ByteOrderMark
  <2>1. Goto("marked", p) /\ DiscardMark
    BY <1>3, <1>5
  <2>2. BufferInv' /\ UNCHANGED Source!source /\ Past'
    BY <1>2, <1>5, <2>1, DiscardKeeps
  <2>3. br'.off = 0 /\ ~br'.unread /\ br'.nlIndex = -1
    <3>1. br' = [br EXCEPT !.buf = Tail(br.buf), !.off = 0, !.nlIndex = -1]
      BY <2>1 DEF DiscardMark
    <3>2. br = [buf |-> br.buf, off |-> br.off, nlIndex |-> br.nlIndex, line |-> br.line, col |-> br.col,
                lastPos |-> br.lastPos, unread |-> br.unread, last |-> br.last, err |-> br.err,
                readBytes |-> br.readBytes]
      BY <1>2 DEF BufferInv, Typed, IsBuffer
    <3> DEFINE rest == Tail(br.buf)
               new == br'
    <3>3. new = [br EXCEPT !.buf = rest, !.off = 0, !.nlIndex = -1]
      BY <3>1
    <3> HIDE DEF rest, new
    <3>4. new.off = 0 /\ new.nlIndex = -1 /\ new.unread = br.unread
      BY <3>2, <3>3
    <3>5. QED
      BY <1>2, <3>4 DEF new
  <2>4. pc' \in {"marked", "done"}
    BY <2>1 DEF Goto, Stop
  <2>5. QED
    BY <2>2, <2>3, <2>4 DEF IInv, Phase, Previews, Moves
<1>6. CASE /\ err = Nil \/ IsOnlyEOF(err)
           /\ ~(pc = "prefix" /\ Window # <<>> /\ Head(Window) = ByteOrderMark)
  <2>1. /\ \/ \E q : Goto("declaration", q)
           \/ \E q : Goto("next", q)
        /\ UNCHANGED stream
    BY <1>3, <1>6, Zenon
  <2>2. Past
    <3>1. CASE pc = "marked"
      BY <1>2, <3>1
    <3>2. CASE pc = "prefix"
      <4>1. ~Marked
        BY <1>2, <1>3, <1>6, <3>2, MarkShows
      <4>2. given = End /\ given \in Nat
        BY <1>2, <3>2 DEF BufferInv, Typed
      <4>3. QED
        BY <4>1, <4>2, NoMarkToPass
    <3>3. QED
      BY <1>1, <3>1, <3>2
  <2>3. BufferInv' /\ UNCHANGED Source!source /\ Past'
    BY <1>2, <2>1, <2>2, StreamStays
  <2>4. br' = br
    BY <2>1 DEF stream
  <2>5. pc' \in {"declaration", "next", "done"}
    BY <2>1 DEF Goto, Stop
  <2>6. QED
    BY <1>2, <2>3, <2>4, <2>5 DEF IInv, Phase, Previews, Moves
<1>7. QED
  BY <1>4, <1>5, <1>6

(* The preview of an XML declaration.                                      *)
LEMMA DeclarationMoves ==
  ASSUME IInv, Declaration
  PROVE  IInv' /\ Moves
<1>1. /\ BufferInv /\ br.off = 0 /\ ~br.unread /\ br.nlIndex = -1 /\ Past
  BY DEF IInv, Phase, Previews, Declaration
<1>2. UNCHANGED stream /\ br' = br
  BY DEF Declaration, stream
<1>3. BufferInv' /\ UNCHANGED Source!source /\ Past'
  BY <1>1, <1>2, StreamStays
<1>4. \/ \E err : Stop(err)
      \/ \E q : Goto("declaration", q)
      \/ \E q : Goto("next", q)
  BY Zenon DEF Declaration
<1>5. pc' \in {"declaration", "next", "done"}
  BY <1>4 DEF Goto, Stop
<1>6. QED
  BY <1>1, <1>2, <1>3, <1>5 DEF IInv, Phase, Previews, Moves

(* Every step keeps the invariant, and moves the text or nothing.          *)
LEMMA StepMoves == IInv /\ [Next]_vars => IInv' /\ Moves
<1>1. SUFFICES ASSUME IInv, [Next]_vars PROVE IInv' /\ Moves
  OBVIOUS
<1>2. CASE Preview
  BY <1>1, <1>2, PreviewMoves
<1>3. CASE Prefix
  BY <1>1, <1>3, PrefixMoves
<1>4. CASE Declaration
  BY <1>1, <1>4, DeclarationMoves
<1>5. CASE FillBuffer \/ OnByte \/ OnWindow \/ OnLineEnd \/ OnError \/ ContinueCDATA \/ PendingEnd
  BY <1>1, <1>5, ReadingMoves
<1>6. CASE UNCHANGED vars
  <2>1. UNCHANGED stream /\ br' = br /\ given' = given /\ pc' = pc
    BY <1>6 DEF vars, stream
  <2>2. BufferInv' /\ UNCHANGED Source!source /\ (Past => Past') /\ End' = End
    BY <1>1, <2>1, StreamStays DEF IInv, End
  <2>3. QED
    BY <1>1, <2>1, <2>2 DEF IInv, Phase, Moves
<1>7. QED
  BY <1>1, <1>2, <1>3, <1>4, <1>5, <1>6 DEF Next

(* byteStream is a text without a buffer: whatever the reader gives at a   *)
(* time, wherever the budget ends and whatever error comes with data, the  *)
(* bytes that Next takes are those of the document without its mark, each  *)
(* once and in order, and line and column are where they end.              *)
THEOREM BufferIsSource == Spec => IsByteSource
<1>1. Init => IInv /\ Source!Init
  BY InitBuffer
<1>2. IInv /\ [Next]_vars => IInv' /\ [Source!Next]_(Source!source)
  BY StepMoves DEF Moves, Source!Next
<1>3. QED
  BY <1>1, <1>2, PTL DEF Spec, IsByteSource, Source!Spec

(* What Next sees is what the document has next, and where it says it is.  *)
SeesText ==
  /\ InPlace
  /\ pc \notin {"prefix", "done"} => \A i \in 1..Len(Window) : Window[i] = Text[Taken + i]

(* The invariant says so.                                                  *)
LEMMA InvariantSees == IInv => SeesText
<1>1. SUFFICES ASSUME IInv PROVE SeesText
  OBVIOUS
<1>2. BufferInv /\ InPlace
  BY <1>1 DEF IInv, BufferInv
<1>3. ASSUME Past, NEW i \in 1..Len(Window)
      PROVE  Window[i] = Text[Taken + i]
  <2>1. CASE br.unread
    <3>1. Window = <<br.last>> /\ FirstByte = br.last /\ ~Empty
      BY <2>1 DEF Window, FirstByte, Empty
    <3>2. i = 1 /\ Window[1] = br.last
      BY <3>1
    <3>3. Text[Taken + 1] = FirstByte
      BY <1>2, <1>3, <3>1, FirstByteFacts
    <3>4. QED
      BY <3>1, <3>2, <3>3
  <2>2. CASE ~br.unread
    <3> DEFINE buf == br.buf
               d == given - End - Mark
    <3>1. /\ Window = SubSeq(buf, br.off + 1, End) /\ buf \in Seq(STRING) /\ End = Len(buf)
      BY <1>2, <2>2 DEF Window, BufferInv, Typed, IsBuffer, End
    <3>2. /\ End \in Nat /\ br.off \in 0..End /\ d \in Nat /\ Taken = d + br.off
          /\ \A k \in 0..End - 1 : buf[k + 1] = Text[d + k + 1]
      BY <1>2, <1>3, <2>2, PlaceFacts
    <3> HIDE DEF buf, d
    <3>3. i \in 1..End - br.off /\ Window[i] = buf[br.off + i]
      <4>1. Len(Window) = End - br.off
        BY <3>1, <3>2
      <4>2. i \in 1..End - br.off
        BY <1>3, <4>1
      <4> DEFINE o == br.off
                 n == End
      <4>3. buf \in Seq(STRING) /\ n = Len(buf) /\ n \in Nat /\ o \in 0..n /\ i \in 1..n - o
        BY <3>1, <3>2, <4>2
      <4> HIDE DEF o, n
      <4>4. SubSeq(buf, o + 1, n)[i] = buf[o + i]
        BY <4>3
      <4>5. QED
        BY <3>1, <4>2, <4>4 DEF o, n
    <3> DEFINE k == br.off + i - 1
    <3>4. k \in 0..End - 1 /\ k + 1 = br.off + i /\ d + k + 1 = Taken + i
      <4>1. i \in 1..End - br.off /\ End \in Nat /\ br.off \in 0..End
        BY <3>2, <3>3
      <4>2. k \in 0..End - 1
        BY <4>1
      <4>3. k + 1 = br.off + i
        BY <4>1
      <4>4. d + k + 1 = Taken + i
        BY <3>2, <4>1
      <4>5. QED
        BY <4>2, <4>3, <4>4
    <3>5. QED
      BY <3>2, <3>3, <3>4
  <2>3. QED
    BY <2>1, <2>2
<1>4. pc \notin {"prefix", "done"} => Past
  BY <1>1 DEF IInv, Phase
<1>5. QED
  BY <1>2, <1>3, <1>4 DEF SeesText

(* At every call the window is the text behind what was taken, up to the   *)
(* budget and without the mark, and line and column are where the taken    *)
(* part ends.                                                              *)
THEOREM WindowsAreText == Spec => []SeesText
<1>1. Init => IInv
  BY InitBuffer
<1>2. IInv /\ [Next]_vars => IInv'
  BY StepMoves
<1>3. QED
  BY <1>1, <1>2, InvariantSees, PTL DEF Spec

-----------------------------------------------------------------------------
(* How much a token holds.                                                 *)

Lengths == INSTANCE Folding WITH Op <- AddAttribute

AddName(n, a) == n + Len(a.name)
NamesLength(attrs) == FoldLeft(AddName, 0, attrs)

Names == INSTANCE Folding WITH Op <- AddName

(* The bytes of the input and those that the parser writes.                *)
Byte == STRING \union {"lead", "tail", "e", "]", "-", "?", "sp", LineFeed}
Attribute == [name : Seq(Byte), value : Seq(Byte)]

(* Attributes one after the other.                                         *)
LEMMA AppendFacts ==
  ASSUME NEW S, NEW s \in Seq(S), NEW e \in S
  PROVE  /\ Append(s, e) \in Seq(S) /\ Len(s) \in Nat /\ Len(Append(s, e)) = Len(s) + 1
         /\ DOMAIN s = 1..Len(s) /\ DOMAIN Append(s, e) = 1..Len(s) + 1
         /\ \A i \in 1..Len(s) : Append(s, e)[i] = s[i]
         /\ Append(s, e)[Len(s) + 1] = e
OBVIOUS

(* The length of attributes is a number, and that of one more is added.    *)
LEMMA LengthFacts ==
  ASSUME NEW attrs \in Seq(Attribute)
  PROVE  /\ AttributesLength(<<>>) = 0 /\ NamesLength(<<>>) = 0
         /\ AttributesLength(attrs) \in Nat /\ NamesLength(attrs) \in Nat
         /\ \A a \in Attribute :
              /\ AttributesLength(Append(attrs, a)) = AttributesLength(attrs) + Len(a.name) + Len(a.value)
              /\ NamesLength(Append(attrs, a)) = NamesLength(attrs) + Len(a.name)
<1> DEFINE n == Len(attrs)
<1>1. n \in Nat /\ DOMAIN attrs = 1..n
  OBVIOUS
<1>2. \A s : AttributesLength(s) = Lengths!Fold(0, s)
  BY DEF AttributesLength, FoldLeft, MapThenFoldSet, Max,
         Lengths!Fold, Lengths!Iterated, Lengths!Iterates, Lengths!Step, Lengths!Largest
<1>3. \A s : NamesLength(s) = Names!Fold(0, s)
  BY DEF NamesLength, FoldLeft, MapThenFoldSet, Max,
         Names!Fold, Names!Iterated, Names!Iterates, Names!Step, Names!Largest
<1>4. AttributesLength(<<>>) = 0 /\ NamesLength(<<>>) = 0
  <2>1. DOMAIN <<>> = 1..0
    OBVIOUS
  <2>2. Lengths!Fold(0, <<>>) = 0
    BY <2>1, Lengths!FoldEmpty
  <2>3. Names!Fold(0, <<>>) = 0
    BY <2>1, Names!FoldEmpty
  <2>4. QED
    BY <1>2, <1>3, <2>2, <2>3
<1>5. \A i \in 1..n : Len(attrs[i].name) \in Nat /\ Len(attrs[i].value) \in Nat
  BY <1>1 DEF Attribute
<1>6. AttributesLength(attrs) \in Nat
  <2>1. PICK f : /\ f[0] = 0 /\ f[n] = AttributesLength(attrs)
                 /\ \A k \in 0..n - 1 : f[k + 1] = AddAttribute(f[k], attrs[k + 1])
    <3>1. PICK f : Lengths!Folds(0, attrs, n, f)
      BY <1>1, Lengths!FoldSteps
    <3>2. QED
      BY <1>2, <3>1 DEF Lengths!Folds
  <2> DEFINE T == {k \in Nat : k <= n => f[k] \in Nat}
  <2>2. 0 \in T
    BY <2>1
  <2>3. ASSUME NEW k \in Nat, k \in T
        PROVE  k + 1 \in T
    <3>1. SUFFICES ASSUME k + 1 <= n PROVE f[k + 1] \in Nat
      OBVIOUS
    <3>2. f[k] \in Nat /\ k \in 0..n - 1 /\ k + 1 \in 1..n
      BY <1>1, <2>3, <3>1
    <3>3. f[k + 1] = f[k] + Len(attrs[k + 1].name) + Len(attrs[k + 1].value)
      BY <2>1, <3>2 DEF AddAttribute
    <3>4. QED
      BY <1>5, <3>2, <3>3
  <2> HIDE DEF T
  <2>4. n \in T
    BY <1>1, <2>2, <2>3, Lengths!NatInduct
  <2>5. QED
    BY <1>1, <2>1, <2>4 DEF T
<1>7. NamesLength(attrs) \in Nat
  <2>1. PICK f : /\ f[0] = 0 /\ f[n] = NamesLength(attrs)
                 /\ \A k \in 0..n - 1 : f[k + 1] = AddName(f[k], attrs[k + 1])
    <3>1. PICK f : Names!Folds(0, attrs, n, f)
      BY <1>1, Names!FoldSteps
    <3>2. QED
      BY <1>3, <3>1 DEF Names!Folds
  <2> DEFINE T == {k \in Nat : k <= n => f[k] \in Nat}
  <2>2. 0 \in T
    BY <2>1
  <2>3. ASSUME NEW k \in Nat, k \in T
        PROVE  k + 1 \in T
    <3>1. SUFFICES ASSUME k + 1 <= n PROVE f[k + 1] \in Nat
      OBVIOUS
    <3>2. f[k] \in Nat /\ k \in 0..n - 1 /\ k + 1 \in 1..n
      BY <1>1, <2>3, <3>1
    <3>3. f[k + 1] = f[k] + Len(attrs[k + 1].name)
      BY <2>1, <3>2 DEF AddName
    <3>4. QED
      BY <1>5, <3>2, <3>3
  <2> HIDE DEF T
  <2>4. n \in T
    BY <1>1, <2>2, <2>3, Names!NatInduct
  <2>5. QED
    BY <1>1, <2>1, <2>4 DEF T
<1>8. ASSUME NEW a \in Attribute
      PROVE  /\ AttributesLength(Append(attrs, a)) = AttributesLength(attrs) + Len(a.name) + Len(a.value)
             /\ NamesLength(Append(attrs, a)) = NamesLength(attrs) + Len(a.name)
  <2>1. PICK t : t = Append(attrs, a)
    OBVIOUS
  <2>2. DOMAIN t = 1..n + 1 /\ t[n + 1] = a /\ \A i \in 1..n : t[i] = attrs[i]
    BY <2>1, AppendFacts
  <2>3. Lengths!Fold(0, t) = AddAttribute(Lengths!Fold(0, attrs), t[n + 1])
    <3>1. Lengths!Alike(attrs, t, n)
      BY <2>2 DEF Lengths!Alike
    <3>2. QED
      BY <1>1, <2>2, <3>1, Lengths!FoldAppend
  <2>4. Names!Fold(0, t) = AddName(Names!Fold(0, attrs), t[n + 1])
    <3>1. Names!Alike(attrs, t, n)
      BY <2>2 DEF Names!Alike
    <3>2. QED
      BY <1>1, <2>2, <3>1, Names!FoldAppend
  <2>5. AttributesLength(t) = AttributesLength(attrs) + Len(a.name) + Len(a.value)
    BY <1>2, <2>2, <2>3 DEF AddAttribute
  <2>6. NamesLength(t) = NamesLength(attrs) + Len(a.name)
    BY <1>3, <2>2, <2>4 DEF AddName
  <2>7. QED
    BY <2>1, <2>5, <2>6
<1>9. QED
  BY <1>4, <1>6, <1>7, <1>8

(* Slices of a buffer, each from the end of the one before.                *)
AreSlices(ends, n) ==
  /\ \A i \in 1..Len(ends) : ends[i] <= n
  /\ \A i \in 1..Len(ends) - 1 : ends[i] <= ends[i + 1]

Slices(attrs, out, ends) ==
  [i \in DOMAIN attrs |->
     [attrs[i] EXCEPT !.value = SubSeq(out, IF i = 1 THEN 1 ELSE ends[i - 1] + 1, ends[i])]]

(* Together they are no longer than the buffer.                            *)
LEMMA SlicesLength ==
  ASSUME NEW attrs \in Seq(Attribute), NEW out \in Seq(Byte), NEW ends \in Seq(Nat),
         Len(ends) = Len(attrs), AreSlices(ends, Len(out))
  PROVE  /\ Len(Slices(attrs, out, ends)) = Len(attrs)
         /\ AttributesLength(Slices(attrs, out, ends)) <= NamesLength(attrs) + Len(out)
         /\ AttributesLength(Slices(attrs, out, ends)) \in Nat
<1> DEFINE n == Len(attrs)
           m == Len(out)
<1>1. n \in Nat /\ m \in Nat /\ DOMAIN attrs = 1..n /\ \A i \in 1..n : ends[i] \in 0..m
  BY DEF AreSlices
<1>2. PICK s : s = Slices(attrs, out, ends)
  OBVIOUS
<1>3. ASSUME NEW i \in 1..n
      PROVE  /\ s[i].name = attrs[i].name /\ s[i] \in Attribute
             /\ Len(s[i].value) = ends[i] - (IF i = 1 THEN 0 ELSE ends[i - 1])
             /\ Len(s[i].value) \in Nat
  <2>1. PICK from : from = IF i = 1 THEN 0 ELSE ends[i - 1]
    OBVIOUS
  <2>2. from \in 0..ends[i]
    <3>1. CASE i = 1
      BY <1>1, <2>1, <3>1
    <3>2. CASE i # 1
      <4>1. i - 1 \in 1..n /\ i - 1 \in 1..Len(ends) - 1 /\ (i - 1) + 1 = i
        BY <1>1, <3>2
      <4>2. ends[i - 1] <= ends[i]
        BY <4>1 DEF AreSlices
      <4>3. QED
        BY <1>1, <2>1, <3>2, <4>1, <4>2
    <3>3. QED
      BY <3>1, <3>2
  <2>3. PICK to : to = ends[i]
    OBVIOUS
  <2>4. to \in 0..m /\ from \in 0..to
    BY <1>1, <2>2, <2>3
  <2>5. PICK v : v = SubSeq(out, from + 1, to)
    OBVIOUS
  <2>6. v \in Seq(Byte) /\ Len(v) = to - from
    BY <1>1, <2>4, <2>5
  <2>7. s[i] = [attrs[i] EXCEPT !.value = v]
    <3>1. (IF i = 1 THEN 1 ELSE ends[i - 1] + 1) = from + 1
      BY <2>1
    <3>2. s[i] = [attrs[i] EXCEPT !.value = SubSeq(out, IF i = 1 THEN 1 ELSE ends[i - 1] + 1, ends[i])]
      BY <1>1, <1>2 DEF Slices
    <3>3. QED
      BY <2>3, <2>5, <3>1, <3>2
  <2>8. attrs[i] \in Attribute
    BY <1>1
  <2>9. s[i] \in Attribute /\ s[i].name = attrs[i].name /\ s[i].value = v
    BY <2>6, <2>7, <2>8 DEF Attribute
  <2>10. QED
    BY <1>1, <2>1, <2>3, <2>4, <2>6, <2>9
<1>4. DOMAIN s = 1..n
  BY <1>1, <1>2 DEF Slices
<1>5. s \in Seq(Attribute) /\ Len(s) = n
  <2>1. s = [i \in 1..n |-> s[i]]
    BY <1>1, <1>2 DEF Slices
  <2>2. s \in [1..n -> Attribute]
    BY <1>3, <2>1
  <2>3. s \in Seq(Attribute)
    BY <1>1, <2>2
  <2>4. QED
    BY <1>1, <1>4, <2>3
<1>6. PICK f : /\ f[0] = 0 /\ f[n] = AttributesLength(s)
               /\ \A k \in 0..n - 1 : f[k + 1] = AddAttribute(f[k], s[k + 1])
  <2>1. AttributesLength(s) = Lengths!Fold(0, s)
    BY DEF AttributesLength, FoldLeft, MapThenFoldSet, Max,
           Lengths!Fold, Lengths!Iterated, Lengths!Iterates, Lengths!Step, Lengths!Largest
  <2>2. PICK f : Lengths!Folds(0, s, n, f)
    BY <1>1, <1>4, Lengths!FoldSteps
  <2>3. QED
    BY <2>1, <2>2 DEF Lengths!Folds
<1>7. PICK g : /\ g[0] = 0 /\ g[n] = NamesLength(attrs)
               /\ \A k \in 0..n - 1 : g[k + 1] = AddName(g[k], attrs[k + 1])
  <2>1. NamesLength(attrs) = Names!Fold(0, attrs)
    BY DEF NamesLength, FoldLeft, MapThenFoldSet, Max,
           Names!Fold, Names!Iterated, Names!Iterates, Names!Step, Names!Largest
  <2>2. PICK g : Names!Folds(0, attrs, n, g)
    BY <1>1, Names!FoldSteps
  <2>3. QED
    BY <2>1, <2>2 DEF Names!Folds
<1> DEFINE T == {k \in Nat : k <= n => g[k] \in Nat /\ f[k] = g[k] + (IF k = 0 THEN 0 ELSE ends[k])}
<1>8. 0 \in T
  BY <1>6, <1>7
<1>9. ASSUME NEW k \in Nat, k \in T
      PROVE  k + 1 \in T
  <2>1. SUFFICES ASSUME k + 1 <= n
                 PROVE  g[k + 1] \in Nat /\ f[k + 1] = g[k + 1] + ends[k + 1]
    OBVIOUS
  <2>2. k \in 0..n - 1 /\ k + 1 \in 1..n /\ (k # 0 => k \in 1..n)
    BY <1>1, <2>1
  <2>3. PICK e : e = IF k = 0 THEN 0 ELSE ends[k]
    OBVIOUS
  <2>4. g[k] \in Nat /\ f[k] = g[k] + e /\ e \in Nat
    BY <1>1, <1>9, <2>2, <2>3
  <2>5. f[k + 1] = f[k] + Len(s[k + 1].name) + Len(s[k + 1].value) /\ g[k + 1] = g[k] + Len(attrs[k + 1].name)
    BY <1>6, <1>7, <2>2 DEF AddAttribute, AddName
  <2>6. s[k + 1].name = attrs[k + 1].name /\ Len(s[k + 1].value) = ends[k + 1] - e
    <3>1. (k + 1 = 1 <=> k = 0) /\ (k + 1) - 1 = k
      OBVIOUS
    <3>2. QED
      BY <1>3, <2>2, <2>3, <3>1
  <2>7. Len(attrs[k + 1].name) \in Nat /\ ends[k + 1] \in Nat
    <3>1. attrs[k + 1] \in Attribute /\ ends[k + 1] \in 0..m
      BY <1>1, <2>2
    <3>2. QED
      BY <1>1, <3>1 DEF Attribute
  <2>8. PICK name : name = Len(attrs[k + 1].name)
    OBVIOUS
  <2>9. PICK value : value = Len(s[k + 1].value)
    OBVIOUS
  <2>10. PICK to : to = ends[k + 1]
    OBVIOUS
  <2>11. name \in Nat /\ to \in Nat /\ value = to - e
    BY <2>6, <2>7, <2>8, <2>9, <2>10
  <2>12. f[k + 1] = f[k] + name + value /\ g[k + 1] = g[k] + name
    BY <2>5, <2>6, <2>8, <2>9, Zenon
  <2>13. g[k + 1] \in Nat /\ f[k + 1] = g[k + 1] + to
    BY <2>4, <2>11, <2>12
  <2>14. QED
    BY <2>10, <2>13
<1> HIDE DEF T
<1>10. n \in T
  BY <1>1, <1>8, <1>9, Lengths!NatInduct
<1>11. AttributesLength(s) <= NamesLength(attrs) + m /\ AttributesLength(s) \in Nat
  <2>1. g[n] \in Nat /\ f[n] = g[n] + (IF n = 0 THEN 0 ELSE ends[n])
    BY <1>1, <1>10 DEF T
  <2>2. CASE n = 0
    BY <1>1, <1>6, <1>7, <2>1, <2>2
  <2>3. CASE n # 0
    <3>1. n \in 1..n
      BY <1>1, <2>3
    <3>2. ends[n] \in 0..m
      BY <1>1, <3>1
    <3>3. QED
      BY <1>1, <1>6, <1>7, <2>1, <2>3, <3>2
  <2>4. QED
    BY <2>2, <2>3
<1>12. QED
  BY <1>2, <1>5, <1>11

-----------------------------------------------------------------------------
(* What the parser holds of the text while it reads a token.               *)

IsParser(q) ==
  /\ q = [place |-> q.place, name |-> q.name, element |-> q.element, attrs |-> q.attrs,
          ends |-> q.ends, out |-> q.out, entity |-> q.entity, matched |-> q.matched,
          retained |-> q.retained, at |-> q.at, hadSpace |-> q.hadSpace, hasEnd |-> q.hasEnd,
          inCDATA |-> q.inCDATA, atStart |-> q.atStart, want |-> q.want]
  /\ q.name \in Seq(Byte) /\ q.element \in Seq(Byte) /\ q.out \in Seq(Byte) /\ q.entity \in Seq(Byte)
  /\ q.attrs \in Seq(Attribute) /\ q.ends \in Seq(Nat)
  /\ q.retained \in Nat /\ q.hasEnd \in BOOLEAN /\ q.inCDATA \in BOOLEAN

(* The tag so far; a value that is a slice of the buffer counts with it.   *)
Tagged(q) ==
  Len(q.element) + IF Lazy THEN NamesLength(q.attrs) + Len(q.out) ELSE AttributesLength(q.attrs)

Sliced(q) == Lazy => Len(q.ends) = Len(q.attrs) /\ AreSlices(q.ends, Len(q.out))

Admits(n) == input.maxAttrs > 0 => n <= input.maxAttrs

(* Between attributes, behind the name of one, and in its value.           *)
InTag(q) == Sliced(q) /\ Admits(Len(q.attrs)) /\ Tagged(q) <= q.retained
InAttribute(q) == Sliced(q) /\ Admits(Len(q.attrs) + 1) /\ Tagged(q) + Len(q.name) <= q.retained
InValueHolds(q) ==
  /\ Sliced(q) /\ Admits(Len(q.attrs) + 1)
  /\ Tagged(q) + Len(q.name) + (IF Lazy THEN 0 ELSE Len(q.out)) <= q.retained

Data(q) ==
  CASE q.place \in {"text", "cdata", "comment"} -> Len(q.out) <= q.retained
    [] q.place \in {"content", "declaration"} -> Len(q.name) + Len(q.out) <= q.retained
    [] q.place = "value" -> InValueHolds(q)
    [] OTHER -> FALSE

(* A CDATA section is not much larger than the buffer.                     *)
Section(q, n) == q.place = "cdata" => Len(q.out) < Capacity + n /\ q.matched \in 0..2

Scanned(q, n) ==
  /\ IsParser(q) /\ Data(q) /\ Section(q, n)
  /\ q.inCDATA => q.place = "cdata"
  /\ ~q.hasEnd

(* What is so where Next goes on.                                          *)
Scans == {"rune", "entity", "linefeed"}

Holds(where, q) ==
  /\ IsParser(q)
  /\ where = "scan" => Scanned(q, 0)
  /\ where \in Scans => Scanned(q, 2)
  /\ where = "commentEnd" => Len(q.out) <= q.retained
  /\ where \in {"target", "targetEnd", "endTag"} => Len(q.name) <= q.retained
  /\ where = "name" =>
       /\ Len(q.name) <= q.retained /\ q.place \in {"start", "end", "attribute"}
       /\ q.place = "attribute" =>
            Sliced(q) /\ Admits(Len(q.attrs)) /\ Tagged(q) + Len(q.name) <= q.retained
  /\ where \in {"equals", "quote"} => InAttribute(q)
  /\ where \in {"tag", "emptyTag"} => InTag(q)
  /\ where = "open" => q.name = <<>>
  /\ where \in {"open", "bang", "dash"} => q.matched = 0
  /\ where = "next" /\ q.inCDATA => q.place = "cdata" /\ q.matched \in 0..2 /\ ~q.hasEnd
  /\ where \notin Scans \union {"scan", "next"} => ~q.inCDATA
  /\ q.hasEnd => where = "next" /\ ~OverLimit(Len(q.element))

(* Nothing is held beyond the limit, nor was it returned.                  *)
HasFitting == (\E S : tokens \in Seq(S)) /\ LimitsAreKept

LInv == HasFitting /\ (pc # "done" => Holds(pc, p) /\ ~OverLimit(p.retained))

Ready == input \in Inputs /\ input' = input /\ HasFitting

(* What is less than what is in the limit is in it.                        *)
LEMMA LessIsInLimit ==
  ASSUME input \in Inputs, NEW m \in Nat, NEW n \in Nat, m <= n, ~OverLimit(n)
  PROVE  ~OverLimit(m)
<1>1. input.maxToken \in Int
  BY ParserAssumption
<1>2. QED
  BY <1>1 DEF OverLimit

(* The limits are those of the input.                                      *)
LEMMA SameLimits ==
  ASSUME input' = input, NEW where, NEW q, pc' = where, p' = q, Holds(where, q), ~OverLimit(q.retained)
  PROVE  Holds(pc, p)' /\ ~OverLimit(p.retained)'
BY DEF Holds, Scanned, Data, Section, InTag, InAttribute, InValueHolds, Sliced, Tagged, Admits, OverLimit,
       Lazy, IsParser

(* And so are the tokens.                                                  *)
LEMMA SameTokens ==
  ASSUME Ready, tokens' = tokens
  PROVE  HasFitting'
BY DEF Ready, HasFitting, LimitsAreKept, Fits, OverLimit

-----------------------------------------------------------------------------
(* How a step ends.                                                        *)

(* An error holds nothing.                                                 *)
LEMMA StopKeeps ==
  ASSUME Ready, NEW err, Stop(err)
  PROVE  LInv'
BY SameTokens DEF Stop, LInv

(* The limit is checked where Next goes on.                                *)
LEMMA GotoKeeps ==
  ASSUME Ready, NEW where, NEW q, Goto(where, q), Holds(where, q)
  PROVE  LInv'
<1>1. CASE OverLimit(q.retained)
  BY <1>1, StopKeeps DEF Goto
<1>2. CASE ~OverLimit(q.retained)
  <2>1. pc' = where /\ p' = q /\ tokens' = tokens
    BY <1>2 DEF Goto
  <2>2. QED
    BY <1>2, <2>1, SameLimits, SameTokens DEF LInv, Ready
<1>3. QED
  BY <1>1, <1>2

(* Between two tokens.                                                     *)
LEMMA NextHolds ==
  ASSUME NEW q, Holds("next", q)
  PROVE  Holds("next", [q EXCEPT !.atStart = FALSE]) /\ [q EXCEPT !.atStart = FALSE].retained = q.retained
<1>1. PICK r : r = [q EXCEPT !.atStart = FALSE]
  OBVIOUS
<1>2. /\ IsParser(r) /\ r.inCDATA = q.inCDATA /\ r.place = q.place /\ r.matched = q.matched
      /\ r.hasEnd = q.hasEnd /\ r.element = q.element /\ r.retained = q.retained
  BY <1>1 DEF Holds, IsParser
<1>3. Holds("next", r)
  BY <1>2 DEF Holds, Scans
<1>4. QED
  BY <1>1, <1>2, <1>3

(* A token that fits is returned.                                          *)
LEMMA ReturnKeeps ==
  ASSUME Ready, NEW token, NEW q, Return(token, q), Fits(token), Holds("next", q), ~OverLimit(q.retained)
  PROVE  LInv'
<1>1. pc' = "next" /\ p' = [q EXCEPT !.atStart = FALSE] /\ tokens' = Append(tokens, token)
  BY DEF Return
<1>2. Holds(pc, p)' /\ ~OverLimit(p.retained)'
  <2>1. PICK r : r = [q EXCEPT !.atStart = FALSE]
    OBVIOUS
  <2>2. Holds("next", r) /\ r.retained = q.retained
    BY <2>1, NextHolds
  <2>3. QED
    BY <1>1, <2>1, <2>2, SameLimits DEF Ready
<1>3. HasFitting'
  <2>1. PICK S : tokens \in Seq(S)
    BY DEF Ready, HasFitting
  <2>2. PICK T : T = S \union {token}
    OBVIOUS
  <2>3. tokens \in Seq(T) /\ token \in T
    BY <2>1, <2>2
  <2>4. tokens' \in Seq(T)
    BY <1>1, <2>3, AppendFacts
  <2>5. ASSUME NEW k \in DOMAIN tokens'
        PROVE  Fits(tokens'[k])
    <3>1. k \in 1..Len(tokens) \/ k = Len(tokens) + 1
      BY <1>1, <2>3, AppendFacts
    <3>2. k \in 1..Len(tokens) => k \in DOMAIN tokens /\ tokens'[k] = tokens[k]
      BY <1>1, <2>3, AppendFacts
    <3>3. k = Len(tokens) + 1 => tokens'[k] = token
      BY <1>1, <2>3, AppendFacts
    <3>4. QED
      BY <3>1, <3>2, <3>3 DEF Ready, HasFitting, LimitsAreKept
  <2>6. \A t : Fits(t)' <=> Fits(t)
    BY DEF Fits, OverLimit, Ready
  <2>7. LimitsAreKept'
    BY <2>5, <2>6 DEF LimitsAreKept
  <2>8. QED
    BY <2>4, <2>7 DEF HasFitting
<1>4. QED
  BY <1>2, <1>3 DEF LInv

(* A token that is not emitted.                                            *)
LEMMA SkipKeeps ==
  ASSUME Ready, NEW q, Skip(q), Holds("next", q), ~OverLimit(q.retained)
  PROVE  LInv'
<1>1. pc' = "next" /\ p' = [q EXCEPT !.atStart = FALSE] /\ tokens' = tokens
  BY DEF Skip
<1>2. PICK r : r = [q EXCEPT !.atStart = FALSE]
  OBVIOUS
<1>3. Holds("next", r) /\ r.retained = q.retained
  BY <1>2, NextHolds
<1>4. QED
  BY <1>1, <1>2, <1>3, SameLimits, SameTokens DEF LInv, Ready

(* What was scanned.                                                       *)
LEMMA ScanHolds ==
  ASSUME NEW q, NEW n, Scanned(q, n), NEW where,
         (where \in Scans /\ n \in 0..2) \/ (where = "scan" /\ n = 0)
  PROVE  Holds(where, q)
<1>1. IsParser(q) /\ ~q.hasEnd
  BY DEF Scanned
<1>2. where \in Scans => Scanned(q, 2)
  <2>1. where \in Scans /\ Len(q.out) \in Nat /\ Capacity \in Nat => Scanned(q, 2)
    BY DEF Scanned, Section, Scans
  <2>2. Len(q.out) \in Nat /\ Capacity \in Nat
    BY <1>1, ByteStreamAssumption DEF IsParser
  <2>3. QED
    BY <2>1, <2>2
<1>3. QED
  BY <1>1, <1>2 DEF Holds, Scans

(* In the data of any place one more piece is kept, or nothing is.         *)
LEMMA KeptScans ==
  ASSUME NEW q, NEW n \in Nat, Scanned(q, n), NEW bytes \in Seq(Byte)
  PROVE  /\ Scanned(Kept(q, bytes), n + Len(bytes))
         /\ Kept(q, bytes).place = q.place /\ Kept(q, bytes).matched = q.matched
         /\ Kept(q, bytes).inCDATA = q.inCDATA
<1>1. IsParser(q)
  BY DEF Scanned
<1>2. Capacity \in Nat /\ Len(bytes) \in Nat
  BY ByteStreamAssumption
<1>3. CASE ~Keeps(q)
  <2>1. Kept(q, bytes) = q
    BY <1>3 DEF Kept
  <2>2. Section(q, n + Len(bytes))
    BY <1>3 DEF Section, Keeps
  <2>3. QED
    BY <2>1, <2>2 DEF Scanned
<1>4. CASE Keeps(q)
  <2>1. PICK r : r = [q EXCEPT !.out = q.out \o bytes, !.retained = q.retained + Len(bytes)]
    OBVIOUS
  <2>2. Kept(q, bytes) = r
    BY <1>4, <2>1 DEF Kept
  <2>3. q.out \o bytes \in Seq(Byte) /\ Len(q.out \o bytes) = Len(q.out) + Len(bytes) /\ Len(q.out) \in Nat
    BY <1>1, ConcatFacts DEF IsParser
  <2>4. /\ r.out = q.out \o bytes /\ r.retained = q.retained + Len(bytes)
        /\ r.place = q.place /\ r.name = q.name /\ r.element = q.element /\ r.attrs = q.attrs
        /\ r.ends = q.ends /\ r.entity = q.entity /\ r.matched = q.matched
        /\ r.hasEnd = q.hasEnd /\ r.inCDATA = q.inCDATA
        /\ r = [place |-> r.place, name |-> r.name, element |-> r.element, attrs |-> r.attrs,
                ends |-> r.ends, out |-> r.out, entity |-> r.entity, matched |-> r.matched,
                retained |-> r.retained, at |-> r.at, hadSpace |-> r.hadSpace, hasEnd |-> r.hasEnd,
                inCDATA |-> r.inCDATA, atStart |-> r.atStart, want |-> r.want]
    BY <1>1, <2>1 DEF IsParser
  <2>5. q.retained \in Nat /\ Len(q.name) \in Nat /\ Len(q.element) \in Nat
    BY <1>1 DEF IsParser
  <2>6. IsParser(r)
    <3>1. r.out \in Seq(Byte) /\ r.retained \in Nat
      BY <1>2, <2>3, <2>4, <2>5
    <3>2. QED
      BY <1>1, <2>4, <3>1 DEF IsParser
  <2>7. Len(r.out) = Len(q.out) + Len(bytes)
    BY <2>3, <2>4
  <2> DEFINE Grows(held) == held + Len(q.out) <= q.retained => held + Len(r.out) <= r.retained
  <2>8. ASSUME NEW held \in Nat
         PROVE  Grows(held)
    <3>1. PICK more : more = Len(bytes)
      OBVIOUS
    <3>2. PICK out : out = Len(q.out)
      OBVIOUS
    <3>3. PICK retained : retained = q.retained
      OBVIOUS
    <3>4. more \in Nat /\ out \in Nat /\ retained \in Nat
      BY <1>2, <2>3, <2>5, <3>1, <3>2, <3>3
    <3>5. Len(r.out) = out + more /\ r.retained = retained + more
      BY <2>4, <2>7, <3>1, <3>2, <3>3
    <3>6. held + out <= retained => held + (out + more) <= retained + more
      BY <3>4
    <3>7. QED
      BY <3>2, <3>3, <3>5, <3>6
  <2>9. Data(r)
    <3>1. CASE q.place \in {"text", "cdata", "comment"}
      <4>1. Len(q.out) <= q.retained
        BY <3>1 DEF Scanned, Data
      <4>2. Len(r.out) <= r.retained
        BY <1>2, <2>3, <2>4, <2>5, <2>7, <4>1
      <4>3. QED
        BY <2>4, <3>1, <4>2 DEF Data
    <3>2. CASE q.place \in {"content", "declaration"}
      <4>1. Len(q.name) + Len(q.out) <= q.retained
        BY <3>2 DEF Scanned, Data
      <4>2. Len(q.name) + Len(r.out) <= r.retained
        BY <2>5, <2>8, <4>1
      <4>3. QED
        BY <2>4, <3>2, <4>2, Zenon DEF Data
    <3>3. CASE q.place = "value"
      <4>1. InValueHolds(q)
        BY <3>3 DEF Scanned, Data
      <4>2. NamesLength(q.attrs) \in Nat /\ AttributesLength(q.attrs) \in Nat
        BY <1>1, LengthFacts DEF IsParser
      <4>3. Sliced(r)
        <5>1. SUFFICES ASSUME Lazy
                       PROVE  Len(q.ends) = Len(q.attrs) /\ AreSlices(q.ends, Len(r.out))
          BY <2>4 DEF Sliced
        <5>2. Len(q.ends) = Len(q.attrs) /\ AreSlices(q.ends, Len(q.out))
          BY <4>1, <5>1 DEF InValueHolds, Sliced
        <5>3. \A i \in 1..Len(q.ends) : q.ends[i] \in Nat
          BY <1>1 DEF IsParser
        <5>4. \A i \in 1..Len(q.ends) : q.ends[i] <= Len(r.out)
          BY <1>2, <2>3, <2>7, <5>2, <5>3 DEF AreSlices
        <5>5. QED
          BY <5>2, <5>4 DEF AreSlices
      <4>4. Tagged(r) + Len(r.name) + (IF Lazy THEN 0 ELSE Len(r.out)) <= r.retained
        <5>1. CASE Lazy
          <6>1. Len(q.element) + (NamesLength(q.attrs) + Len(q.out)) + Len(q.name) + 0 <= q.retained
            BY <4>1, <5>1 DEF InValueHolds, Tagged
          <6>2. PICK element : element = Len(q.element)
            OBVIOUS
          <6>3. PICK names : names = NamesLength(q.attrs)
            OBVIOUS
          <6>4. PICK name : name = Len(q.name)
            OBVIOUS
          <6>5. element \in Nat /\ names \in Nat /\ name \in Nat
            BY <2>5, <4>2, <6>2, <6>3, <6>4
          <6>6. element + names + name + Len(q.out) <= q.retained
            <7>1. PICK out : out = Len(q.out)
              OBVIOUS
            <7>2. out \in Nat /\ element + (names + out) + name + 0 <= q.retained
              BY <2>3, <6>1, <6>2, <6>3, <6>4, <7>1, Zenon
            <7>3. element + names + name + out = element + (names + out) + name + 0
              BY <6>5, <7>2
            <7>4. QED
              BY <7>1, <7>2, <7>3, Zenon
          <6>7. element + names + name + Len(r.out) <= r.retained
            <7>1. element + names + name \in Nat
              BY <6>5
            <7>2. QED
              BY <2>8, <6>6, <7>1
          <6>8. element + (names + Len(r.out)) + name + 0 <= r.retained
            <7>1. PICK out : out = Len(r.out)
              OBVIOUS
            <7>2. out \in Nat
              BY <2>6, <7>1 DEF IsParser
            <7>3. element + names + name + out = element + (names + out) + name + 0
              BY <6>5, <7>2
            <7>4. QED
              BY <6>7, <7>1, <7>3, Zenon
          <6>9. Len(r.element) = element /\ NamesLength(r.attrs) = names /\ Len(r.name) = name
            BY <2>4, <6>2, <6>3, <6>4, Zenon
          <6>10. Tagged(r) = element + (names + Len(r.out))
            BY <5>1, <6>9 DEF Tagged
          <6>11. QED
            BY <5>1, <6>8, <6>9, <6>10
        <5>2. CASE ~Lazy
          <6>1. Len(q.element) + AttributesLength(q.attrs) + Len(q.name) + Len(q.out) <= q.retained
            BY <4>1, <5>2 DEF InValueHolds, Tagged
          <6>2. PICK held : held = Len(q.element) + AttributesLength(q.attrs) + Len(q.name)
            OBVIOUS
          <6>3. held \in Nat
            BY <2>5, <4>2, <6>2
          <6>4. held + Len(r.out) <= r.retained
            BY <2>8, <6>1, <6>2, <6>3
          <6>5. Tagged(r) + Len(r.name) = held
            <7>1. /\ Len(r.element) = Len(q.element) /\ AttributesLength(r.attrs) = AttributesLength(q.attrs)
                  /\ Len(r.name) = Len(q.name)
              BY <2>4, Zenon
            <7>2. QED
              BY <5>2, <6>2, <7>1 DEF Tagged
          <6>6. QED
            BY <5>2, <6>4, <6>5
        <5>3. QED
          BY <5>1, <5>2
      <4>5. QED
        BY <2>4, <3>3, <4>1, <4>3, <4>4 DEF Data, InValueHolds
    <3>4. QED
      BY <3>1, <3>2, <3>3 DEF Scanned, Data
  <2>10. Section(r, n + Len(bytes))
    BY <1>2, <2>3, <2>4, <2>7 DEF Scanned, Section
  <2>11. QED
    BY <2>2, <2>4, <2>6, <2>9, <2>10 DEF Scanned
<1>5. QED
  BY <1>3, <1>4

(* Behind data Next may be called again.                                   *)
LEMMA ScannedNext ==
  ASSUME NEW q, NEW n, Scanned(q, n)
  PROVE  Holds("next", q)
BY DEF Scanned, Section, Holds, Scans

(* What is not a CDATA section may be as large as the limit.               *)
LEMMA ScannedElsewhere ==
  ASSUME NEW q, NEW n, Scanned(q, n), q.place # "cdata"
  PROVE  \A m : Scanned(q, m)
BY DEF Scanned, Section

(* The matched part of a terminator is not data.                           *)
LEMMA MatchedScans ==
  ASSUME NEW q, NEW n, Scanned(q, n), NEW m, q.place = "cdata" => m \in 0..2
  PROVE  /\ Scanned([q EXCEPT !.matched = m], n)
         /\ [q EXCEPT !.matched = m].place = q.place /\ [q EXCEPT !.matched = m].out = q.out
         /\ [q EXCEPT !.matched = m].matched = m /\ [q EXCEPT !.matched = m].retained = q.retained
<1>1. PICK r : r = [q EXCEPT !.matched = m]
  OBVIOUS
<1>2. IsParser(q)
  BY DEF Scanned
<1>3. /\ IsParser(r) /\ r.place = q.place /\ r.out = q.out /\ r.name = q.name /\ r.element = q.element
      /\ r.attrs = q.attrs /\ r.ends = q.ends /\ r.retained = q.retained /\ r.matched = m
      /\ r.inCDATA = q.inCDATA /\ r.hasEnd = q.hasEnd
  BY <1>1, <1>2 DEF IsParser
<1>4. Data(r) /\ Section(r, n)
  BY <1>3 DEF Scanned, Data, Section, InValueHolds, Sliced, Tagged
<1>5. QED
  BY <1>1, <1>3, <1>4 DEF Scanned

(* Nor is a reference before its end.                                      *)
LEMMA EntityScans ==
  ASSUME NEW q, NEW n, Scanned(q, n), NEW entity \in Seq(Byte)
  PROVE  Scanned([q EXCEPT !.entity = entity], n)
<1>1. PICK r : r = [q EXCEPT !.entity = entity]
  OBVIOUS
<1>2. IsParser(q)
  BY DEF Scanned
<1>3. /\ IsParser(r) /\ r.place = q.place /\ r.out = q.out /\ r.name = q.name /\ r.element = q.element
      /\ r.attrs = q.attrs /\ r.ends = q.ends /\ r.retained = q.retained /\ r.matched = q.matched
      /\ r.inCDATA = q.inCDATA /\ r.hasEnd = q.hasEnd
  BY <1>1, <1>2 DEF IsParser
<1>4. Data(r) /\ Section(r, n)
  BY <1>3 DEF Scanned, Data, Section, InValueHolds, Sliced, Tagged
<1>5. QED
  BY <1>1, <1>3, <1>4 DEF Scanned

(* A section that fills the buffer is returned, and fits.                  *)
LEMMA ResumeKeeps ==
  ASSUME Ready, NEW q, NEW n \in 0..4, Scanned(q, n), Resume(q)
  PROVE  LInv'
<1>1. IsParser(q)
  BY DEF Scanned
<1>2. q.out \in Seq(Byte) /\ Len(q.out) \in Nat /\ Capacity \in Nat /\ q.retained \in Nat
  BY <1>1, ByteStreamAssumption DEF IsParser
<1>3. CASE q.place = "cdata" /\ Len(q.out) >= Capacity /\ ~OverLimit(q.retained)
  <2>1. PICK token : token = [kind |-> "cdata", data |-> q.out, at |-> q.at, more |-> TRUE]
    OBVIOUS
  <2>2. Return(token, q)
    BY <1>3, <2>1 DEF Resume, CDATAChunk
  <2>3. Len(q.out) <= q.retained /\ Len(q.out) < Capacity + 4
    BY <1>2, <1>3 DEF Scanned, Data, Section
  <2>4. ~OverLimit(Len(q.out))
    BY <1>2, <1>3, <2>3, LessIsInLimit DEF Ready
  <2>5. token.kind = "cdata" /\ token.data = q.out /\ Length(token) = Len(q.out)
    BY <2>1 DEF Length
  <2>6. Fits(token)
    BY <2>3, <2>4, <2>5 DEF Fits
  <2>7. QED
    BY <1>3, <2>2, <2>6, ReturnKeeps, ScannedNext
<1>4. CASE ~(q.place = "cdata" /\ Len(q.out) >= Capacity /\ ~OverLimit(q.retained))
  <2>1. Goto("scan", q)
    BY <1>4 DEF Resume
  <2>2. CASE OverLimit(q.retained)
    BY <2>1, <2>2, StopKeeps DEF Goto
  <2>3. CASE ~OverLimit(q.retained)
    <3>1. Scanned(q, 0)
      BY <1>2, <1>4, <2>3 DEF Scanned, Section
    <3>2. QED
      BY <2>1, <3>1, ScanHolds, GotoKeeps
  <2>4. QED
    BY <2>2, <2>3
<1>5. QED
  BY <1>3, <1>4

(* So it is with one more piece.                                           *)
LEMMA PieceKeeps ==
  ASSUME Ready, NEW q, NEW n \in Nat, Scanned(q, n), NEW bytes \in Seq(Byte), n + Len(bytes) <= 4,
         Resume(Kept(q, bytes))
  PROVE  LInv'
<1>1. PICK r : r = Kept(q, bytes)
  OBVIOUS
<1>2. Scanned(r, n + Len(bytes)) /\ n + Len(bytes) \in 0..4 /\ Resume(r)
  BY <1>1, KeptScans
<1>3. QED
  BY <1>2, ResumeKeeps

(* One byte is a sequence of bytes.                                        *)
LEMMA ByteFacts ==
  ASSUME NEW b \in Byte
  PROVE  <<b>> \in Seq(Byte) /\ Len(<<b>>) = 1
OBVIOUS

(* So are the bytes that the parser writes.                                *)
LEMMA BytesWritten ==
  /\ <<"lead", "tail">> \in Seq(Byte) /\ Len(<<"lead", "tail">>) = 2
  /\ \A b \in {"e", "]", "-", "?", "sp", LineFeed} : b \in Byte
  /\ <<>> \in Seq(Byte) /\ Len(<<>>) = 0
<1>1. "lead" \in Byte /\ "tail" \in Byte
  BY DEF Byte
<1>2. <<"lead", "tail">> \in Seq(Byte) /\ Len(<<"lead", "tail">>) = 2
  BY <1>1
<1>3. \A b \in {"e", "]", "-", "?", "sp", LineFeed} : b \in Byte
  BY Zenon DEF Byte
<1>4. <<>> \in Seq(Byte) /\ Len(<<>>) = 0
  OBVIOUS
<1>5. QED
  BY <1>2, <1>3, <1>4

(* A byte of data.                                                         *)
LEMMA RuneKeeps ==
  ASSUME Ready, NEW q, NEW n \in 0..2, Scanned(q, n), NEW b \in Byte, Rune(q, b)
  PROVE  LInv'
<1>1. CASE OverLimit(q.retained)
  BY <1>1, StopKeeps DEF Rune
<1>2. CASE ~OverLimit(q.retained)
  <2>1. CASE b = "lead"
    <3>1. Goto("rune", q)
      BY <1>2, <2>1 DEF Rune
    <3>2. Holds("rune", q)
      BY ScanHolds DEF Scans
    <3>3. QED
      BY <3>1, <3>2, GotoKeeps
  <2>2. CASE b \in {"tail", "bad"}
    BY <1>2, <2>2, StopKeeps DEF Rune
  <2>3. CASE b # "lead" /\ b \notin {"tail", "bad"}
    <3>1. Resume(Kept(q, <<b>>))
      BY <1>2, <2>3 DEF Rune
    <3>2. <<b>> \in Seq(Byte) /\ n \in Nat /\ n + Len(<<b>>) <= 4
      BY ByteFacts
    <3>3. QED
      BY <3>1, <3>2, PieceKeeps
  <2>4. QED
    BY <2>1, <2>2, <2>3
<1>3. QED
  BY <1>1, <1>2

(* Its second byte.                                                        *)
LEMMA FinishRuneKeeps ==
  ASSUME Ready, Scanned(p, 2), NEW b, FinishRune(b)
  PROVE  LInv'
<1>1. CASE b = "tail"
  <2>1. Resume(Kept(p, <<"lead", "tail">>))
    BY <1>1 DEF FinishRune
  <2>2. <<"lead", "tail">> \in Seq(Byte) /\ 2 + Len(<<"lead", "tail">>) <= 4
    BY BytesWritten
  <2>3. QED
    BY <2>1, <2>2, PieceKeeps
<1>2. CASE b # "tail"
  BY <1>2, StopKeeps DEF FinishRune
<1>3. QED
  BY <1>1, <1>2

(* A line end.                                                             *)
LEMMA LineEndKeeps ==
  ASSUME Ready, Scanned(p, 2), LineEnd
  PROVE  LInv'
<1>1. PICK b : b = IF p.place = "value" THEN "sp" ELSE LineFeed
  OBVIOUS
<1>2. b \in Byte /\ Resume(Kept(p, <<b>>))
  BY <1>1, BytesWritten DEF LineEnd
<1>3. <<b>> \in Seq(Byte) /\ 2 + Len(<<b>>) <= 4
  BY <1>2, ByteFacts
<1>4. QED
  BY <1>2, <1>3, PieceKeeps

(* A reference.                                                            *)
LEMMA EntityKeeps ==
  ASSUME Ready, Scanned(p, 2), NEW b \in Byte, Entity(b)
  PROVE  LInv'
<1>1. PICK more : more = Append(p.entity, b)
  OBVIOUS
<1>2. more \in Seq(Byte) /\ <<>> \in Seq(Byte)
  BY <1>1, AppendFacts, BytesWritten DEF Scanned, IsParser
<1>3. PICK q : q = [p EXCEPT !.entity = more]
  OBVIOUS
<1>4. PICK r : r = [p EXCEPT !.entity = <<>>]
  OBVIOUS
<1>5. Scanned(q, 2) /\ Scanned(r, 2)
  BY <1>2, <1>3, <1>4, EntityScans
<1>6. \/ \E err : Stop(err)
      \/ Goto("entity", q)
      \/ Resume(Kept(r, <<"e">>))
  BY <1>1, <1>3, <1>4, Zenon DEF Entity
<1>7. CASE Goto("entity", q)
  <2>1. Holds("entity", q)
    BY <1>5, ScanHolds DEF Scans
  <2>2. QED
    BY <1>7, <2>1, GotoKeeps
<1>8. CASE Resume(Kept(r, <<"e">>))
  <2>1. <<"e">> \in Seq(Byte) /\ 2 + Len(<<"e">>) <= 4
    BY BytesWritten, ByteFacts
  <2>2. QED
    BY <1>5, <1>8, <2>1, PieceKeeps
<1>9. QED
  BY <1>6, <1>7, <1>8, StopKeeps

-----------------------------------------------------------------------------
(* Character data and CDATA sections.                                      *)

(* A byte of character data.                                               *)
LEMMA TextByteKeeps ==
  ASSUME Ready, NEW q, Scanned(q, 0), q.place = "text", NEW b \in Byte, TextByte(q, b)
  PROVE  LInv'
<1>1. PICK r : r = [q EXCEPT !.matched = 0]
  OBVIOUS
<1>2. Scanned(r, 0) /\ Holds("linefeed", r) /\ Holds("entity", r)
  <2>1. Scanned(r, 0)
    BY <1>1, MatchedScans
  <2>2. QED
    BY <2>1, ScanHolds DEF Scans
<1>3. CASE b = "cr"
  <2>1. Goto("linefeed", r)
    BY <1>1, <1>3 DEF TextByte
  <2>2. QED
    BY <1>2, <2>1, GotoKeeps
<1>4. CASE b = "&"
  <2>1. Goto("entity", r)
    BY <1>1, <1>4 DEF TextByte
  <2>2. QED
    BY <1>2, <2>1, GotoKeeps
<1>5. CASE b # "cr" /\ b # "&"
  <2>1. PICK matched : matched = AdvanceCDATAEnd(q.matched, b)
    OBVIOUS
  <2>2. PICK t : t = [q EXCEPT !.matched = matched]
    OBVIOUS
  <2>3. Stop(Syntax) \/ Rune(t, b)
    BY <1>5, <2>1, <2>2 DEF TextByte
  <2>4. Scanned(t, 0)
    BY <2>2, MatchedScans
  <2>5. QED
    BY <2>3, <2>4, StopKeeps, RuneKeeps
<1>6. QED
  BY <1>3, <1>4, <1>5

(* The bytes of the window.                                                *)
LEMMA WindowBytes ==
  ASSUME BufferInv
  PROVE  /\ Window \in Seq(Byte)
         /\ \A n \in 0..Len(Window) : /\ SubSeq(Window, 1, n) \in Seq(Byte)
                                      /\ Len(SubSeq(Window, 1, n)) = n
         /\ ~Empty => FirstByte \in Byte
<1>1. /\ br.buf \in Seq(STRING) /\ br.off \in 0..Len(br.buf) /\ Len(br.buf) \in Nat
      /\ br.unread => br.off # 0 /\ br.last = br.buf[br.off]
  BY DEF BufferInv, Typed, IsBuffer, CanReread
<1>2. PICK buf : buf = br.buf
  OBVIOUS
<1>3. PICK o : o = br.off
  OBVIOUS
<1>4. buf \in Seq(Byte) /\ \A i \in 1..Len(buf) : buf[i] \in Byte
  BY <1>1, <1>2 DEF Byte
<1>5. Window \in Seq(Byte)
  <2>1. CASE br.unread
    <3>1. o \in 1..Len(buf) /\ br.last = buf[o]
      BY <1>1, <1>2, <1>3, <2>1
    <3>2. br.last \in Byte
      BY <1>4, <3>1
    <3>3. QED
      BY <2>1, <3>2, ByteFacts DEF Window
  <2>2. CASE ~br.unread
    <3>1. Window = SubSeq(buf, o + 1, Len(buf))
      BY <1>2, <1>3, <2>2 DEF Window, End
    <3>2. SubSeq(buf, o + 1, Len(buf)) \in Seq(Byte)
      BY <1>1, <1>2, <1>3, <1>4
    <3>3. QED
      BY <3>1, <3>2
  <2>3. QED
    BY <2>1, <2>2
<1>6. PICK w : w = Window
  OBVIOUS
<1>7. ASSUME NEW n \in 0..Len(w)
      PROVE  SubSeq(w, 1, n) \in Seq(Byte) /\ Len(SubSeq(w, 1, n)) = n
  <2>1. w \in Seq(Byte) /\ Len(w) \in Nat
    BY <1>5, <1>6
  <2>2. QED
    BY <2>1
<1>8. ASSUME ~Empty
      PROVE  FirstByte \in Byte
  <2>1. CASE br.unread
    <3>1. o \in 1..Len(buf) /\ br.last = buf[o]
      BY <1>1, <1>2, <1>3, <2>1
    <3>2. QED
      BY <1>4, <2>1, <3>1 DEF FirstByte
  <2>2. CASE ~br.unread
    <3>1. o # Len(buf)
      BY <1>2, <1>3, <1>8, <2>2 DEF Empty, End
    <3>2. o + 1 \in 1..Len(buf)
      BY <1>1, <1>2, <1>3, <3>1
    <3>3. FirstByte = buf[o + 1]
      BY <1>2, <1>3, <2>2 DEF FirstByte
    <3>4. QED
      BY <1>4, <3>2, <3>3
  <2>3. QED
    BY <2>1, <2>2
<1>9. QED
  BY <1>5, <1>6, <1>7, <1>8

(* Character data fits.                                                    *)
LEMMA TextTokenKeeps ==
  ASSUME Ready, NEW q, Scanned(q, 0), q.place = "text", ~OverLimit(q.retained), TextToken(q)
  PROVE  LInv'
<1>1. PICK token : token = [kind |-> "text", data |-> q.out, at |-> q.at]
  OBVIOUS
<1>2. Return(token, q)
  BY <1>1 DEF TextToken
<1>3. Len(q.out) \in Nat /\ q.retained \in Nat /\ Len(q.out) <= q.retained
  BY DEF Scanned, IsParser, Data
<1>4. ~OverLimit(Len(q.out))
  BY <1>3, LessIsInLimit DEF Ready
<1>5. token.kind = "text" /\ Length(token) = Len(q.out)
  BY <1>1 DEF Length
<1>6. Fits(token)
  BY <1>4, <1>5 DEF Fits
<1>7. QED
  BY <1>2, <1>6, ReturnKeeps, ScannedNext

(* Character data, as much as the window holds.                            *)
LEMMA ScanTextKeeps ==
  ASSUME Ready, BufferInv, ~Empty, Scanned(p, 0), p.place = "text", ~OverLimit(p.retained), ScanText
  PROVE  LInv'
<1>1. PICK n : n = ChunkLength(Window)
  OBVIOUS
<1>2. PICK bytes : bytes = SubSeq(Window, 1, n)
  OBVIOUS
<1>3. n \in 0..Len(Window) /\ bytes \in Seq(Byte) /\ Len(bytes) \in Nat
  BY <1>1, <1>2, ScannedFacts, WindowBytes
<1>4. PICK matched : matched = MatchedAfter(p.matched, bytes)
  OBVIOUS
<1>5. PICK k : k = Kept(p, bytes)
  OBVIOUS
<1>6. PICK q : q = [k EXCEPT !.matched = matched]
  OBVIOUS
<1>7. \/ \E err : Stop(err)
      \/ Goto("scan", q)
      \/ TextToken(p)
      \/ TextByte(p, FirstByte)
  BY <1>1, <1>2, <1>4, <1>5, <1>6, Zenon DEF ScanText
<1>8. CASE Goto("scan", q)
  <2>1. Scanned(k, 0 + Len(bytes)) /\ k.place = "text"
    BY <1>3, <1>5, KeptScans
  <2>2. Scanned(k, 0)
    BY <2>1, ScannedElsewhere
  <2>3. Scanned(q, 0)
    BY <1>6, <2>1, <2>2, MatchedScans
  <2>4. QED
    BY <1>8, <2>3, ScanHolds, GotoKeeps
<1>9. CASE TextToken(p)
  BY <1>9, TextTokenKeeps
<1>10. CASE TextByte(p, FirstByte)
  BY <1>10, WindowBytes, TextByteKeeps
<1>11. QED
  BY <1>7, <1>8, <1>9, <1>10, StopKeeps

(* Brackets that did not end the section.                                  *)
LEMMA PendingScans ==
  ASSUME NEW q, Scanned(q, 0), q.place = "cdata"
  PROVE  Scanned(Pending(q), 2)
<1>1. PICK m : m = q.matched
  OBVIOUS
<1>2. m \in 0..2 /\ IsParser(q)
  BY <1>1 DEF Scanned, Section
<1>3. PICK bytes : bytes = [i \in 1..m |-> "]"]
  OBVIOUS
<1>4. bytes \in Seq(Byte) /\ Len(bytes) = m
  <2>1. PICK b : b = "]"
    OBVIOUS
  <2>2. b \in Byte /\ bytes = [i \in 1..m |-> b]
    BY <1>3, <2>1, BytesWritten
  <2>3. m \in Nat
    BY <1>2
  <2>4. QED
    BY <2>2, <2>3
<1>5. PICK k : k = Kept(q, bytes)
  OBVIOUS
<1>6. Scanned(k, 0 + Len(bytes)) /\ k.place = "cdata"
  BY <1>4, <1>5, KeptScans
<1>7. Scanned(k, 2)
  <2>1. Len(k.out) \in Nat /\ Capacity \in Nat
    BY <1>6, ByteStreamAssumption DEF Scanned, IsParser
  <2>2. QED
    BY <1>2, <1>4, <1>6, <2>1 DEF Scanned, Section
<1>8. Pending(q) = [k EXCEPT !.matched = 0]
  BY <1>1, <1>3, <1>5 DEF Pending
<1>9. QED
  BY <1>7, <1>8, MatchedScans

(* A byte of a section.                                                    *)
LEMMA ScanCDATAKeeps ==
  ASSUME Ready, Scanned(p, 0), p.place = "cdata", ~OverLimit(p.retained), NEW b \in Byte, ScanCDATA(b)
  PROVE  LInv'
<1>1. p.matched \in 0..2 /\ IsParser(p)
  BY DEF Scanned, Section
<1>2. CASE b = "]"
  <2>1. CASE p.matched = 2
    <3>1. Resume(Kept(p, <<b>>))
      BY <1>2, <2>1 DEF ScanCDATA
    <3>2. <<b>> \in Seq(Byte) /\ 0 + Len(<<b>>) <= 4
      BY ByteFacts
    <3>3. QED
      BY <3>1, <3>2, PieceKeeps
  <2>2. CASE p.matched # 2
    <3>1. PICK m : m = p.matched + 1
      OBVIOUS
    <3>2. PICK q : q = [p EXCEPT !.matched = m]
      OBVIOUS
    <3>3. Resume(q)
      BY <1>2, <2>2, <3>1, <3>2 DEF ScanCDATA
    <3>4. m \in 0..2
      BY <1>1, <2>2, <3>1
    <3>5. Scanned(q, 0)
      BY <3>2, <3>4, MatchedScans
    <3>6. QED
      BY <3>3, <3>5, ResumeKeeps
  <2>3. QED
    BY <2>1, <2>2
<1>3. CASE b = ">" /\ p.matched = 2
  <2>1. PICK token : token = [kind |-> "cdata", data |-> p.out, at |-> p.at, more |-> FALSE]
    OBVIOUS
  <2>2. PICK q : q = [p EXCEPT !.inCDATA = FALSE, !.matched = 0]
    OBVIOUS
  <2>3. Return(token, q)
    BY <1>3, <2>1, <2>2 DEF ScanCDATA
  <2>4. IsParser(q) /\ ~q.inCDATA /\ q.hasEnd = p.hasEnd /\ q.retained = p.retained
    BY <1>1, <2>2 DEF IsParser
  <2>5. Holds("next", q)
    BY <2>4 DEF Holds, Scanned, Scans
  <2>6. /\ Len(p.out) \in Nat /\ p.retained \in Nat /\ Capacity \in Nat
        /\ Len(p.out) <= p.retained /\ Len(p.out) < Capacity + 0
    BY <1>1, ByteStreamAssumption DEF Scanned, IsParser, Data, Section
  <2>7. ~OverLimit(Len(p.out))
    BY <2>6, LessIsInLimit DEF Ready
  <2>8. token.kind = "cdata" /\ token.data = p.out /\ Length(token) = Len(p.out)
    BY <2>1 DEF Length
  <2>9. Fits(token)
    BY <2>6, <2>7, <2>8 DEF Fits
  <2>10. QED
    BY <2>3, <2>4, <2>5, <2>9, ReturnKeeps
<1>4. CASE b = "cr"
  <2>1. PICK q : q = Pending(p)
    OBVIOUS
  <2>2. Goto("linefeed", q) /\ Scanned(q, 2)
    BY <1>4, <2>1, PendingScans DEF ScanCDATA
  <2>3. Holds("linefeed", q)
    BY <2>2, ScanHolds DEF Scans
  <2>4. QED
    BY <2>2, <2>3, GotoKeeps
<1>5. CASE b # "]" /\ ~(b = ">" /\ p.matched = 2) /\ b # "cr"
  <2>1. PICK q : q = Pending(p)
    OBVIOUS
  <2>2. Rune(q, b) /\ Scanned(q, 2)
    BY <1>5, <2>1, PendingScans DEF ScanCDATA
  <2>3. QED
    BY <2>2, RuneKeeps
<1>6. QED
  BY <1>2, <1>3, <1>4, <1>5

-----------------------------------------------------------------------------
(* Comments and instructions.                                              *)

(* A byte of a comment.                                                    *)
LEMMA ScanCommentKeeps ==
  ASSUME Ready, Scanned(p, 0), p.place = "comment", NEW b \in Byte, ScanComment(b)
  PROVE  LInv'
<1>1. CASE b = "-" /\ p.matched = 1
  <2>1. Goto("commentEnd", p)
    BY <1>1 DEF ScanComment
  <2>2. Holds("commentEnd", p)
    BY DEF Scanned, Data, Holds, Scans
  <2>3. QED
    BY <2>1, <2>2, GotoKeeps
<1>2. CASE b = "-" /\ p.matched # 1
  <2>1. PICK q : q = [p EXCEPT !.matched = 1]
    OBVIOUS
  <2>2. Goto("scan", q)
    BY <1>2, <2>1 DEF ScanComment
  <2>3. Scanned(q, 0)
    BY <2>1, MatchedScans
  <2>4. QED
    BY <2>2, <2>3, ScanHolds, GotoKeeps
<1>3. CASE b # "-" /\ p.matched = 1
  <2>1. PICK k : k = Kept(p, <<"-">>)
    OBVIOUS
  <2>2. PICK q : q = [k EXCEPT !.matched = 0]
    OBVIOUS
  <2>3. Rune(q, b)
    BY <1>3, <2>1, <2>2 DEF ScanComment
  <2>4. Scanned(k, 0 + Len(<<"-">>)) /\ k.place = "comment"
    BY <2>1, BytesWritten, ByteFacts, KeptScans
  <2>5. Scanned(k, 0)
    BY <2>4, ScannedElsewhere
  <2>6. Scanned(q, 0)
    BY <2>2, <2>4, <2>5, MatchedScans
  <2>7. QED
    BY <2>3, <2>6, RuneKeeps
<1>4. CASE b # "-" /\ p.matched # 1
  <2>1. Rune(p, b)
    BY <1>4 DEF ScanComment
  <2>2. QED
    BY <2>1, RuneKeeps
<1>5. QED
  BY <1>1, <1>2, <1>3, <1>4

(* A comment that is emitted fits.                                         *)
LEMMA CommentEndKeeps ==
  ASSUME Ready, Holds("commentEnd", p), ~OverLimit(p.retained), NEW b, CommentEnd(b)
  PROVE  LInv'
<1>1. PICK token : token = [kind |-> "comment", data |-> p.out, at |-> p.at]
  OBVIOUS
<1>2. Stop(Syntax) \/ Return(token, p) \/ Skip(p)
  BY <1>1, Zenon DEF CommentEnd
<1>3. Holds("next", p)
  BY DEF Holds, Scans
<1>4. Len(p.out) \in Nat /\ p.retained \in Nat /\ Len(p.out) <= p.retained
  BY DEF Holds, IsParser
<1>5. ~OverLimit(Len(p.out))
  BY <1>4, LessIsInLimit DEF Ready
<1>6. token.kind = "comment" /\ Length(token) = Len(p.out)
  BY <1>1 DEF Length
<1>7. Fits(token)
  BY <1>5, <1>6 DEF Fits
<1>8. QED
  BY <1>2, <1>3, <1>7, StopKeeps, ReturnKeeps, SkipKeeps

(* An instruction fits with its target.                                    *)
LEMMA InstructionFits ==
  ASSUME Ready, IsParser(p), ~OverLimit(p.retained), NEW content \in Seq(Byte),
         Len(p.name) + Len(content) <= p.retained
  PROVE  Fits(Instruction(content))
<1>1. PICK n : n = Len(p.name) + Len(content)
  OBVIOUS
<1>2. n \in Nat /\ p.retained \in Nat
  BY <1>1 DEF IsParser
<1>3. ~OverLimit(n)
  BY <1>1, <1>2, LessIsInLimit DEF Ready
<1>4. Instruction(content).kind = "instruction" /\ Length(Instruction(content)) = n
  BY <1>1 DEF Length, Instruction
<1>5. QED
  BY <1>3, <1>4 DEF Fits

(* A byte of a target.                                                     *)
LEMMA TargetKeeps ==
  ASSUME Ready, Holds("target", p), NEW b \in Byte, Target(b)
  PROVE  LInv'
<1>1. IsParser(p) /\ Len(p.name) \in Nat /\ p.retained \in Nat /\ Len(p.name) <= p.retained
      /\ ~p.hasEnd /\ ~p.inCDATA
  BY DEF Holds, IsParser, Scans
<1>2. PICK name : name = Append(p.name, b)
  OBVIOUS
<1>3. PICK n : n = p.retained + 1
  OBVIOUS
<1>4. PICK place : place = IF p.name = <<"x">> THEN "declaration" ELSE "content"
  OBVIOUS
<1>5. PICK q : q = [p EXCEPT !.name = name, !.retained = n]
  OBVIOUS
<1>6. PICK r : r = [p EXCEPT !.out = <<>>, !.matched = 0, !.place = place]
  OBVIOUS
<1>7. Stop(Syntax) \/ Goto("target", q) \/ Goto("targetEnd", p) \/ Goto("scan", r)
  BY <1>2, <1>3, <1>4, <1>5, <1>6, Zenon DEF Target
<1>8. CASE Goto("target", q)
  <2>1. name \in Seq(Byte) /\ Len(name) = Len(p.name) + 1
    BY <1>1, <1>2, AppendFacts DEF IsParser
  <2>2. n \in Nat /\ Len(name) <= n
    BY <1>1, <1>3, <2>1
  <2>3. /\ IsParser(q) /\ q.name = name /\ q.retained = n /\ q.hasEnd = p.hasEnd /\ q.inCDATA = p.inCDATA
    BY <1>1, <1>5, <2>1, <2>2 DEF IsParser
  <2>4. Holds("target", q)
    BY <1>1, <2>2, <2>3 DEF Holds, Scans
  <2>5. QED
    BY <1>8, <2>4, GotoKeeps
<1>9. CASE Goto("targetEnd", p)
  <2>1. Holds("targetEnd", p)
    BY <1>1 DEF Holds, Scans
  <2>2. QED
    BY <1>9, <2>1, GotoKeeps
<1>10. CASE Goto("scan", r)
  <2>1. /\ IsParser(r) /\ r.out = <<>> /\ r.place = place /\ r.name = p.name /\ r.retained = p.retained
        /\ r.hasEnd = p.hasEnd /\ r.inCDATA = p.inCDATA
    BY <1>1, <1>6, BytesWritten DEF IsParser
  <2>2. Data(r) /\ Section(r, 0)
    BY <1>1, <1>4, <2>1 DEF Data, Section
  <2>3. Scanned(r, 0)
    BY <1>1, <2>1, <2>2 DEF Scanned
  <2>4. QED
    BY <1>10, <2>3, ScanHolds, GotoKeeps
<1>11. QED
  BY <1>7, <1>8, <1>9, <1>10, StopKeeps

(* The end of an instruction without content.                              *)
LEMMA TargetEndKeeps ==
  ASSUME Ready, Holds("targetEnd", p), ~OverLimit(p.retained), NEW b, TargetEnd(b)
  PROVE  LInv'
<1>1. Stop(Syntax) \/ Return(Instruction(<<>>), p) \/ Skip(p)
  BY Zenon DEF TargetEnd
<1>2. Holds("next", p)
  BY DEF Holds, Scans
<1>3. /\ IsParser(p) /\ Len(p.name) + Len(<<>>) <= p.retained /\ <<>> \in Seq(Byte)
  BY BytesWritten DEF Holds, IsParser
<1>4. Fits(Instruction(<<>>))
  BY <1>3, InstructionFits
<1>5. QED
  BY <1>1, <1>2, <1>4, StopKeeps, ReturnKeeps, SkipKeeps

(* A byte of the content, and its end.                                     *)
LEMMA ScanContentKeeps ==
  ASSUME Ready, Scanned(p, 0), p.place \in {"content", "declaration"}, ~OverLimit(p.retained),
         NEW b \in Byte, ScanContent(b)
  PROVE  LInv'
<1>1. PICK next : next = CASE b = "?" -> 1 [] p.matched = 1 /\ b = ">" -> 2 [] OTHER -> 0
  OBVIOUS
<1>2. PICK confirmed : confirmed = IF p.matched = 1 THEN <<"?">> ELSE <<>>
  OBVIOUS
<1>3. PICK data : data = CASE next = 0 -> Append(confirmed, b) [] next = 1 -> confirmed [] OTHER -> <<>>
  OBVIOUS
<1>4. PICK q : q = [p EXCEPT !.matched = next]
  OBVIOUS
<1>5. Rune(q, b) \/ FinishContent \/ Goto("scan", Kept(q, data))
  BY <1>1, <1>2, <1>3, <1>4, Zenon DEF ScanContent
<1>6. Scanned(q, 0) /\ q.place = p.place
  BY <1>4, MatchedScans
<1>7. data \in Seq(Byte) /\ Len(data) \in Nat
  <2>1. <<"?">> \in Seq(Byte) /\ <<>> \in Seq(Byte)
    BY BytesWritten, ByteFacts
  <2>2. confirmed \in Seq(Byte)
    BY <1>2, <2>1
  <2>3. Append(confirmed, b) \in Seq(Byte)
    BY <2>2, AppendFacts
  <2>4. data \in Seq(Byte)
    BY <1>3, <2>1, <2>2, <2>3
  <2>5. QED
    BY <2>4
<1>8. CASE Rune(q, b)
  BY <1>6, <1>8, RuneKeeps
<1>9. CASE FinishContent
  <2>1. Skip(p) \/ (\E err : Stop(err)) \/ (p.place = "content" /\ Return(Instruction(p.out), p))
    BY <1>9 DEF FinishContent
  <2>2. Holds("next", p)
    BY ScannedNext
  <2>3. IsParser(p) /\ p.out \in Seq(Byte) /\ Len(p.name) + Len(p.out) <= p.retained
    BY DEF Scanned, Data, IsParser
  <2>4. Fits(Instruction(p.out))
    BY <2>3, InstructionFits
  <2>5. QED
    BY <2>1, <2>2, <2>4, StopKeeps, SkipKeeps, ReturnKeeps
<1>10. CASE Goto("scan", Kept(q, data))
  <2>1. PICK k : k = Kept(q, data)
    OBVIOUS
  <2>2. Scanned(k, 0 + Len(data)) /\ k.place = q.place
    BY <1>6, <1>7, <2>1, KeptScans
  <2>3. Scanned(k, 0)
    BY <1>6, <2>2, ScannedElsewhere
  <2>4. QED
    BY <1>10, <2>1, <2>3, ScanHolds, GotoKeeps
<1>11. QED
  BY <1>5, <1>8, <1>9, <1>10

-----------------------------------------------------------------------------
(* Tags.                                                                   *)

(* What a tag holds is a number.                                           *)
LEMMA TaggedFacts ==
  ASSUME NEW q, IsParser(q)
  PROVE  /\ Tagged(q) \in Nat /\ Len(q.element) \in Nat /\ Len(q.element) <= Tagged(q)
         /\ Len(q.name) \in Nat /\ Len(q.out) \in Nat /\ Len(q.attrs) \in Nat /\ q.retained \in Nat
<1>1. /\ Len(q.element) \in Nat /\ Len(q.name) \in Nat /\ Len(q.out) \in Nat /\ Len(q.attrs) \in Nat
      /\ q.retained \in Nat
  BY DEF IsParser
<1>2. NamesLength(q.attrs) \in Nat /\ AttributesLength(q.attrs) \in Nat
  BY LengthFacts DEF IsParser
<1>3. CASE Lazy
  <2>1. Tagged(q) = Len(q.element) + (NamesLength(q.attrs) + Len(q.out))
    BY <1>3 DEF Tagged
  <2>2. QED
    BY <1>1, <1>2, <2>1
<1>4. CASE ~Lazy
  <2>1. Tagged(q) = Len(q.element) + AttributesLength(q.attrs)
    BY <1>4 DEF Tagged
  <2>2. QED
    BY <1>1, <1>2, <2>1
<1>5. QED
  BY <1>3, <1>4

(* A tag is what its attributes, slices of the buffer or not, make it.     *)
LEMMA TagFits ==
  ASSUME Ready, IsParser(p), InTag(p), ~OverLimit(p.retained)
  PROVE  Fits(StartToken) /\ ~OverLimit(Len(p.element))
<1>1. /\ Tagged(p) \in Nat /\ Len(p.element) \in Nat /\ Len(p.element) <= Tagged(p)
      /\ p.retained \in Nat /\ Tagged(p) <= p.retained /\ Len(p.attrs) \in Nat /\ Len(p.out) \in Nat
  BY TaggedFacts DEF InTag
<1>2. ~OverLimit(Tagged(p)) /\ ~OverLimit(Len(p.element))
  <2>1. Len(p.element) <= p.retained
    BY <1>1
  <2>2. QED
    BY <1>1, <2>1, LessIsInLimit DEF Ready
<1>3. /\ Len(Attributes) = Len(p.attrs) /\ AttributesLength(Attributes) \in Nat
      /\ Len(p.element) + AttributesLength(Attributes) <= Tagged(p)
  <2>1. CASE Lazy
    <3>1. /\ p.attrs \in Seq(Attribute) /\ p.out \in Seq(Byte) /\ p.ends \in Seq(Nat)
          /\ Len(p.ends) = Len(p.attrs) /\ AreSlices(p.ends, Len(p.out))
      BY <2>1 DEF InTag, Sliced, IsParser
    <3>2. PICK s : s = Slices(p.attrs, p.out, p.ends)
      OBVIOUS
    <3>3. Attributes = s
      BY <2>1, <3>2, Zenon DEF Attributes, Slices
    <3>4. /\ Len(s) = Len(p.attrs) /\ AttributesLength(s) \in Nat
          /\ AttributesLength(s) <= NamesLength(p.attrs) + Len(p.out)
      BY <3>1, <3>2, SlicesLength
    <3>5. Tagged(p) = Len(p.element) + (NamesLength(p.attrs) + Len(p.out)) /\ NamesLength(p.attrs) \in Nat
      BY <2>1, <3>1, LengthFacts DEF Tagged
    <3>6. QED
      BY <1>1, <3>3, <3>4, <3>5
  <2>2. CASE ~Lazy
    <3>1. Attributes = p.attrs /\ Tagged(p) = Len(p.element) + AttributesLength(p.attrs)
      BY <2>2 DEF Attributes, Tagged
    <3>2. AttributesLength(p.attrs) \in Nat
      BY LengthFacts DEF IsParser
    <3>3. QED
      BY <1>1, <3>1, <3>2
  <2>3. QED
    BY <2>1, <2>2
<1>4. PICK n : n = Len(p.element) + AttributesLength(Attributes)
  OBVIOUS
<1>5. ~OverLimit(n)
  BY <1>1, <1>2, <1>3, <1>4, LessIsInLimit DEF Ready
<1>6. PICK attrs : attrs = Attributes
  OBVIOUS
<1>7. StartToken = [kind |-> "start", name |-> p.element, attrs |-> attrs, at |-> p.at]
  BY <1>6 DEF StartToken
<1>8. StartToken.kind = "start" /\ StartToken.attrs = attrs /\ Length(StartToken) = n
  BY <1>4, <1>6, <1>7 DEF Length
<1>9. Fits(StartToken)
  BY <1>3, <1>5, <1>6, <1>8 DEF Fits, InTag, Admits
<1>10. QED
  BY <1>2, <1>9

(* The first byte of a name.                                               *)
LEMMA NameKeeps ==
  ASSUME Ready, IsParser(p), ~p.hasEnd, ~p.inCDATA, NEW place \in {"start", "end", "attribute"},
         place = "attribute" => InTag(p), NEW b \in Byte, Name(place, b, p)
  PROVE  LInv'
<1>1. PICK n : n = p.retained + 1
  OBVIOUS
<1>2. PICK q : q = [p EXCEPT !.place = place, !.name = <<b>>, !.retained = n]
  OBVIOUS
<1>3. Goto("name", q)
  BY <1>1, <1>2 DEF Name
<1>4. <<b>> \in Seq(Byte) /\ Len(<<b>>) = 1 /\ n \in Nat /\ 1 <= n /\ n = p.retained + 1 /\ p.retained \in Nat
  BY <1>1, ByteFacts DEF IsParser
<1>5. /\ IsParser(q) /\ q.place = place /\ q.name = <<b>> /\ q.retained = n /\ q.hasEnd = p.hasEnd
      /\ q.inCDATA = p.inCDATA /\ q.element = p.element /\ q.attrs = p.attrs /\ q.out = p.out
      /\ q.ends = p.ends
  BY <1>2, <1>4 DEF IsParser
<1>6. place = "attribute" => Sliced(q) /\ Admits(Len(q.attrs)) /\ Tagged(q) + Len(q.name) <= q.retained
  <2>1. SUFFICES ASSUME InTag(p)
                 PROVE  Sliced(q) /\ Admits(Len(q.attrs)) /\ Tagged(q) + Len(q.name) <= q.retained
    OBVIOUS
  <2>2. Tagged(q) = Tagged(p) /\ Sliced(q) /\ Admits(Len(q.attrs))
    BY <1>5, <2>1 DEF Tagged, Sliced, InTag
  <2>3. Tagged(p) \in Nat /\ Tagged(p) <= p.retained
    BY <2>1, TaggedFacts DEF InTag
  <2>4. Len(q.name) = 1 /\ q.retained = p.retained + 1
    BY <1>4, <1>5
  <2>5. QED
    BY <1>4, <2>2, <2>3, <2>4
<1>7. Len(q.name) <= q.retained
  BY <1>4, <1>5
<1>8. Holds("name", q)
  BY <1>5, <1>6, <1>7 DEF Holds, Scans
<1>9. QED
  BY <1>3, <1>8, GotoKeeps

(* Behind a name.                                                          *)
LEMMA FinishNameKeeps ==
  ASSUME Ready, NEW q, Holds("name", q), FinishName(q)
  PROVE  LInv'
<1>1. /\ IsParser(q) /\ Len(q.name) \in Nat /\ q.retained \in Nat /\ Len(q.name) <= q.retained
      /\ ~q.hasEnd /\ ~q.inCDATA /\ q.place \in {"start", "end", "attribute"}
  BY DEF Holds, IsParser, Scans
<1>2. CASE ~ValidName(q.name)
  BY <1>2, StopKeeps DEF FinishName
<1>3. CASE ValidName(q.name) /\ q.place = "start"
  <2>1. PICK r : r = [q EXCEPT !.element = q.name, !.attrs = <<>>, !.ends = <<>>,
                               !.out = <<>>, !.hadSpace = FALSE]
    OBVIOUS
  <2>2. Goto("tag", r)
    BY <1>3, <2>1 DEF FinishName
  <2>3. <<>> \in Seq(Attribute) /\ <<>> \in Seq(Nat) /\ <<>> \in Seq(Byte)
    BY BytesWritten
  <2>4. /\ IsParser(r) /\ r.element = q.name /\ r.attrs = <<>> /\ r.ends = <<>> /\ r.out = <<>>
        /\ r.retained = q.retained /\ r.hasEnd = q.hasEnd /\ r.inCDATA = q.inCDATA
    BY <1>1, <2>1, <2>3 DEF IsParser
  <2>5. Sliced(r)
    BY <2>4 DEF Sliced, AreSlices
  <2>6. Admits(Len(r.attrs))
    <3>1. input.maxAttrs \in Int
      BY ParserAssumption DEF Ready
    <3>2. Len(r.attrs) = 0
      BY <2>4
    <3>3. QED
      BY <3>1, <3>2 DEF Admits
  <2>7. Tagged(r) <= r.retained
    <3>1. NamesLength(r.attrs) = 0 /\ AttributesLength(r.attrs) = 0 /\ Len(r.out) = 0
      BY <2>3, <2>4, LengthFacts
    <3>2. Tagged(r) = Len(q.name)
      BY <1>1, <2>4, <3>1 DEF Tagged
    <3>3. QED
      BY <1>1, <2>4, <3>2
  <2>8. Holds("tag", r)
    BY <1>1, <2>4, <2>5, <2>6, <2>7 DEF Holds, InTag, Scans
  <2>9. QED
    BY <2>2, <2>8, GotoKeeps
<1>4. CASE ValidName(q.name) /\ q.place = "end"
  <2>1. Goto("endTag", q)
    BY <1>4 DEF FinishName
  <2>2. Holds("endTag", q)
    BY <1>1 DEF Holds, Scans
  <2>3. QED
    BY <2>1, <2>2, GotoKeeps
<1>5. CASE ValidName(q.name) /\ q.place = "attribute"
  <2>1. \/ Stop({"attributes"})
        \/ Goto("equals", q) /\ ~(input.maxAttrs > 0 /\ Len(q.attrs) + 1 > input.maxAttrs)
    BY <1>5 DEF FinishName
  <2>2. CASE Goto("equals", q) /\ ~(input.maxAttrs > 0 /\ Len(q.attrs) + 1 > input.maxAttrs)
    <3>1. Admits(Len(q.attrs) + 1)
      <4>1. input.maxAttrs \in Int /\ Len(q.attrs) \in Nat
        BY <1>1, ParserAssumption DEF Ready, IsParser
      <4>2. QED
        BY <2>2, <4>1 DEF Admits
    <3>2. InAttribute(q)
      BY <1>5, <3>1 DEF Holds, InAttribute
    <3>3. Holds("equals", q)
      BY <1>1, <3>2 DEF Holds, Scans
    <3>4. QED
      BY <2>2, <3>3, GotoKeeps
  <2>3. QED
    BY <2>1, <2>2, StopKeeps
<1>6. QED
  BY <1>1, <1>2, <1>3, <1>4, <1>5

(* A name, as much as the window holds.                                    *)
LEMMA ScanNameKeeps ==
  ASSUME Ready, BufferInv, Holds("name", p), ScanName
  PROVE  LInv'
<1>1. PICK n : n = Max({k \in 0..Len(Window) : \A i \in 1..k : Window[i] \notin NameTerminators})
  OBVIOUS
<1>2. PICK bytes : bytes = SubSeq(Window, 1, n)
  OBVIOUS
<1>3. n \in 0..Len(Window) /\ bytes \in Seq(Byte) /\ Len(bytes) = n /\ n \in Nat
  <2>1. n \in 0..Len(Window)
    BY <1>1, ScannedFacts
  <2>2. bytes \in Seq(Byte) /\ Len(bytes) = n
    BY <1>2, <2>1, WindowBytes
  <2>3. QED
    BY <2>1, <2>2
<1>4. PICK name : name = p.name \o bytes
  OBVIOUS
<1>5. PICK retained : retained = p.retained + n
  OBVIOUS
<1>6. PICK q : q = [p EXCEPT !.name = name, !.retained = retained]
  OBVIOUS
<1>7. (\E err : Stop(err)) \/ FinishName(q) \/ Goto("name", q)
  BY <1>1, <1>2, <1>4, <1>5, <1>6, Zenon DEF ScanName
<1>8. IsParser(p) /\ Len(p.name) \in Nat /\ p.retained \in Nat
  BY DEF Holds, IsParser
<1>9. name \in Seq(Byte) /\ Len(name) = Len(p.name) + n /\ retained \in Nat
  <2>1. p.name \in Seq(Byte)
    BY <1>8 DEF IsParser
  <2>2. name \in Seq(Byte) /\ Len(name) = Len(p.name) + Len(bytes)
    BY <1>3, <1>4, <2>1, ConcatFacts
  <2>3. QED
    BY <1>3, <1>5, <1>8, <2>2
<1>10. /\ IsParser(q) /\ q.place = p.place /\ q.name = name /\ q.retained = retained /\ q.hasEnd = p.hasEnd
       /\ q.inCDATA = p.inCDATA /\ q.element = p.element /\ q.attrs = p.attrs /\ q.out = p.out
       /\ q.ends = p.ends
  BY <1>6, <1>8, <1>9 DEF IsParser
<1>11. Len(q.name) <= q.retained
  <2>1. Len(p.name) <= p.retained
    BY DEF Holds
  <2>2. QED
    BY <1>3, <1>5, <1>8, <1>9, <1>10, <2>1
<1>12. q.place = "attribute" => Sliced(q) /\ Admits(Len(q.attrs)) /\ Tagged(q) + Len(q.name) <= q.retained
  <2>1. SUFFICES ASSUME p.place = "attribute"
                 PROVE  Sliced(q) /\ Admits(Len(q.attrs)) /\ Tagged(q) + Len(q.name) <= q.retained
    BY <1>10
  <2>2. Sliced(p) /\ Admits(Len(p.attrs)) /\ Tagged(p) + Len(p.name) <= p.retained
    BY <2>1 DEF Holds
  <2>3. Tagged(q) = Tagged(p) /\ Sliced(q) /\ Admits(Len(q.attrs))
    BY <1>10, <2>2 DEF Tagged, Sliced
  <2>4. Tagged(p) \in Nat
    BY <1>8, TaggedFacts
  <2>5. QED
    BY <1>3, <1>5, <1>8, <1>9, <1>10, <2>2, <2>3, <2>4
<1>13. Holds("name", q)
  BY <1>10, <1>11, <1>12 DEF Holds, Scans
<1>14. QED
  BY <1>7, <1>13, StopKeeps, FinishNameKeeps, GotoKeeps

(* Between two attributes, and at the end of the tag.                      *)
LEMMA TagKeeps ==
  ASSUME Ready, Holds("tag", p), ~OverLimit(p.retained), NEW b \in Byte, Tag(b)
  PROVE  LInv'
<1>1. IsParser(p) /\ InTag(p) /\ ~p.hasEnd /\ ~p.inCDATA
  BY DEF Holds, Scans
<1>2. PICK q : q = [p EXCEPT !.hadSpace = TRUE]
  OBVIOUS
<1>3. Goto("tag", q) \/ Return(StartToken, p) \/ Goto("emptyTag", p) \/ Name("attribute", b, p) \/ Stop(Syntax)
  BY <1>2, Zenon DEF Tag
<1>4. CASE Goto("tag", q)
  <2>1. /\ IsParser(q) /\ q.hasEnd = p.hasEnd /\ q.inCDATA = p.inCDATA /\ q.element = p.element
        /\ q.attrs = p.attrs /\ q.out = p.out /\ q.ends = p.ends /\ q.retained = p.retained
    BY <1>1, <1>2 DEF IsParser
  <2>2. InTag(q)
    BY <1>1, <2>1 DEF InTag, Sliced, Tagged
  <2>3. Holds("tag", q)
    BY <1>1, <2>1, <2>2 DEF Holds, Scans
  <2>4. QED
    BY <1>4, <2>3, GotoKeeps
<1>5. CASE Return(StartToken, p)
  <2>1. Holds("next", p)
    BY <1>1 DEF Holds, Scans
  <2>2. Fits(StartToken)
    BY <1>1, TagFits
  <2>3. QED
    BY <1>5, <2>1, <2>2, ReturnKeeps
<1>6. CASE Goto("emptyTag", p)
  <2>1. Holds("emptyTag", p)
    BY <1>1 DEF Holds, Scans
  <2>2. QED
    BY <1>6, <2>1, GotoKeeps
<1>7. CASE Name("attribute", b, p)
  BY <1>1, <1>7, NameKeeps
<1>8. QED
  BY <1>3, <1>4, <1>5, <1>6, <1>7, StopKeeps

(* An empty element has an end tag that fits.                              *)
LEMMA EmptyTagKeeps ==
  ASSUME Ready, Holds("emptyTag", p), ~OverLimit(p.retained), NEW b, EmptyTag(b)
  PROVE  LInv'
<1>1. IsParser(p) /\ InTag(p) /\ ~p.hasEnd /\ ~p.inCDATA
  BY DEF Holds, Scans
<1>2. PICK q : q = [p EXCEPT !.hasEnd = TRUE]
  OBVIOUS
<1>3. Return(StartToken, q) \/ Stop(Syntax)
  BY <1>2 DEF EmptyTag
<1>4. IsParser(q) /\ q.hasEnd /\ q.inCDATA = p.inCDATA /\ q.element = p.element /\ q.retained = p.retained
  BY <1>1, <1>2 DEF IsParser
<1>5. Fits(StartToken) /\ ~OverLimit(Len(p.element))
  BY <1>1, TagFits
<1>6. Holds("next", q)
  BY <1>1, <1>4, <1>5 DEF Holds, Scans
<1>7. QED
  BY <1>3, <1>4, <1>5, <1>6, ReturnKeeps, StopKeeps

(* Behind the name of an attribute.                                        *)
LEMMA EqualsKeeps ==
  ASSUME Ready, Holds("equals", p), NEW b, Equals(b)
  PROVE  LInv'
<1>1. Goto("equals", p) \/ Goto("quote", p) \/ Stop(Syntax)
  BY Zenon DEF Equals
<1>2. Holds("quote", p)
  BY DEF Holds, Scans
<1>3. QED
  BY <1>1, <1>2, GotoKeeps, StopKeeps

(* Before its value.                                                       *)
LEMMA QuoteKeeps ==
  ASSUME Ready, Holds("quote", p), NEW b, Quote(b)
  PROVE  LInv'
<1>1. IsParser(p) /\ InAttribute(p) /\ ~p.hasEnd /\ ~p.inCDATA
  BY DEF Holds, Scans
<1>2. PICK out : out = IF Lazy THEN p.out ELSE <<>>
  OBVIOUS
<1>3. PICK q : q = [p EXCEPT !.place = "value", !.matched = 0, !.out = out]
  OBVIOUS
<1>4. Goto("quote", p) \/ Goto("scan", q) \/ Stop(Syntax)
  BY <1>2, <1>3, Zenon DEF Quote
<1>5. CASE Goto("scan", q)
  <2>1. out \in Seq(Byte)
    BY <1>1, <1>2, BytesWritten DEF IsParser
  <2>2. /\ IsParser(q) /\ q.place = "value" /\ q.out = out /\ q.name = p.name /\ q.hasEnd = p.hasEnd
        /\ q.inCDATA = p.inCDATA /\ q.element = p.element /\ q.attrs = p.attrs /\ q.ends = p.ends
        /\ q.retained = p.retained
    BY <1>1, <1>3, <2>1 DEF IsParser
  <2>3. Tagged(q) = Tagged(p) /\ Sliced(q)
    BY <1>1, <1>2, <2>2 DEF Tagged, Sliced, InAttribute
  <2>4. ~Lazy => Len(q.out) = 0
    BY <1>2, <2>2, BytesWritten
  <2>5. Tagged(p) \in Nat /\ Len(p.name) \in Nat /\ Tagged(p) + Len(p.name) <= p.retained
    BY <1>1, TaggedFacts DEF InAttribute
  <2>6. Tagged(q) + Len(q.name) + (IF Lazy THEN 0 ELSE Len(q.out)) <= q.retained
    BY <2>2, <2>3, <2>4, <2>5
  <2>7. InValueHolds(q)
    BY <1>1, <2>2, <2>3, <2>6 DEF InValueHolds, InAttribute
  <2>8. Scanned(q, 0)
    BY <1>1, <2>2, <2>7 DEF Scanned, Data, Section
  <2>9. QED
    BY <1>5, <2>8, ScanHolds, GotoKeeps
<1>6. QED
  BY <1>4, <1>5, GotoKeeps, StopKeeps

(* Behind it: one more attribute.                                          *)
LEMMA FinishValueKeeps ==
  ASSUME Ready, Scanned(p, 0), p.place = "value", FinishValue
  PROVE  LInv'
<1>1. IsParser(p) /\ InValueHolds(p) /\ ~p.hasEnd /\ ~p.inCDATA
  BY DEF Scanned, Data
<1>2. PICK n : n = Len(p.out)
  OBVIOUS
<1>3. PICK ends : ends = Append(p.ends, n)
  OBVIOUS
<1>4. PICK a : a = [name |-> p.name, value |-> p.out]
  OBVIOUS
<1>5. PICK attrs : attrs = Append(p.attrs, a)
  OBVIOUS
<1>6. PICK q : q = [p EXCEPT !.hadSpace = FALSE, !.ends = ends, !.attrs = attrs]
  OBVIOUS
<1>7. Goto("tag", q)
  BY <1>2, <1>3, <1>4, <1>5, <1>6 DEF FinishValue
<1>8. /\ n \in Nat /\ a \in Attribute /\ p.ends \in Seq(Nat) /\ p.attrs \in Seq(Attribute)
      /\ a.name = p.name /\ a.value = p.out /\ Len(p.name) \in Nat /\ Len(p.element) \in Nat
      /\ p.retained \in Nat
  BY <1>1, <1>2, <1>4 DEF IsParser, Attribute
<1>9. /\ ends \in Seq(Nat) /\ Len(p.ends) \in Nat /\ Len(ends) = Len(p.ends) + 1
      /\ \A i \in 1..Len(p.ends) : ends[i] = p.ends[i] /\ p.ends[i] \in Nat
      /\ ends[Len(p.ends) + 1] = n
  <2>1. p.ends \in Seq(Nat) /\ n \in Nat
    BY <1>8
  <2>2. \A i \in 1..Len(p.ends) : p.ends[i] \in Nat
    BY <2>1
  <2>3. QED
    BY <1>3, <2>1, <2>2, AppendFacts
<1>10. attrs \in Seq(Attribute) /\ Len(p.attrs) \in Nat /\ Len(attrs) = Len(p.attrs) + 1
  <2>1. p.attrs \in Seq(Attribute) /\ a \in Attribute
    BY <1>8
  <2>2. QED
    BY <1>5, <2>1, AppendFacts
<1>11. /\ IsParser(q) /\ q.ends = ends /\ q.attrs = attrs /\ q.out = p.out /\ q.element = p.element
       /\ q.hasEnd = p.hasEnd /\ q.inCDATA = p.inCDATA /\ q.retained = p.retained
  BY <1>1, <1>6, <1>9, <1>10 DEF IsParser
<1>12. Sliced(q)
  <2>1. SUFFICES ASSUME Lazy
                 PROVE  Len(ends) = Len(attrs) /\ AreSlices(ends, n)
    BY <1>2, <1>11 DEF Sliced
  <2>2. Len(p.ends) = Len(p.attrs) /\ AreSlices(p.ends, n)
    BY <1>1, <1>2, <2>1 DEF InValueHolds, Sliced
  <2>3. PICK m : m = Len(p.ends)
    OBVIOUS
  <2>4. m \in Nat /\ Len(ends) = m + 1 /\ ends[m + 1] = n /\ \A i \in 1..m : ends[i] = p.ends[i] /\ ends[i] <= n
    BY <1>9, <2>2, <2>3 DEF AreSlices
  <2>5. ASSUME NEW i \in 1..m + 1
        PROVE  ends[i] <= n
    <3>1. i \in 1..m \/ i = m + 1
      BY <2>4
    <3>2. QED
      BY <1>8, <2>4, <3>1
  <2>6. ASSUME NEW i \in 1..m
        PROVE  ends[i] <= ends[i + 1]
    <3>1. CASE i = m
      BY <2>4, <3>1
    <3>2. CASE i # m
      <4>1. i \in 1..m - 1 /\ i + 1 \in 1..m
        BY <2>4, <3>2
      <4>2. p.ends[i] <= p.ends[i + 1]
        BY <2>2, <2>3, <4>1 DEF AreSlices
      <4>3. QED
        BY <2>4, <4>1, <4>2
    <3>3. QED
      BY <3>1, <3>2
  <2>7. AreSlices(ends, n)
    <3>1. Len(ends) = m + 1 /\ Len(ends) - 1 = m
      BY <2>4
    <3>2. QED
      BY <2>5, <2>6, <3>1 DEF AreSlices
  <2>8. QED
    BY <1>9, <1>10, <2>2, <2>7
<1>13. Admits(Len(q.attrs))
  BY <1>1, <1>10, <1>11 DEF InValueHolds
<1>14. Tagged(q) <= q.retained
  <2>1. NamesLength(attrs) = NamesLength(p.attrs) + Len(p.name) /\ NamesLength(p.attrs) \in Nat
    BY <1>5, <1>8, LengthFacts
  <2>2. /\ AttributesLength(attrs) = AttributesLength(p.attrs) + Len(p.name) + n
        /\ AttributesLength(p.attrs) \in Nat
    BY <1>2, <1>5, <1>8, LengthFacts
  <2>3. CASE Lazy
    <3>1. Len(p.element) + (NamesLength(p.attrs) + n) + Len(p.name) + 0 <= p.retained
      BY <1>1, <1>2, <2>3 DEF InValueHolds, Tagged
    <3>2. Tagged(q) = Len(p.element) + (NamesLength(attrs) + n)
      BY <1>2, <1>11, <2>3 DEF Tagged
    <3>3. QED
      BY <1>8, <1>11, <2>1, <3>1, <3>2
  <2>4. CASE ~Lazy
    <3>1. Len(p.element) + AttributesLength(p.attrs) + Len(p.name) + n <= p.retained
      BY <1>1, <1>2, <2>4 DEF InValueHolds, Tagged
    <3>2. Tagged(q) = Len(p.element) + AttributesLength(attrs)
      BY <1>11, <2>4 DEF Tagged
    <3>3. QED
      BY <1>8, <1>11, <2>2, <3>1, <3>2
  <2>5. QED
    BY <2>3, <2>4
<1>15. Holds("tag", q)
  BY <1>1, <1>11, <1>12, <1>13, <1>14 DEF Holds, InTag, Scans
<1>16. QED
  BY <1>7, <1>15, GotoKeeps

(* A value, as much as the window holds.                                   *)
LEMMA ScanValueKeeps ==
  ASSUME Ready, BufferInv, ~Empty, Scanned(p, 0), p.place = "value", ScanValue
  PROVE  LInv'
<1>1. PICK apart : apart = {"lead", "tail", "bad", "lf", "cr", "'", "<", "&"}
  OBVIOUS
<1>2. PICK n : n = Max({k \in 0..Len(Window) : \A i \in 1..k : Window[i] \notin apart})
  OBVIOUS
<1>3. PICK bytes : bytes = SubSeq(Window, 1, n)
  OBVIOUS
<1>4. n \in 0..Len(Window) /\ bytes \in Seq(Byte) /\ Len(bytes) \in Nat
  <2>1. n \in 0..Len(Window)
    BY <1>2, ScannedFacts
  <2>2. bytes \in Seq(Byte)
    BY <1>3, <2>1, WindowBytes
  <2>3. QED
    BY <2>1, <2>2
<1>5. PICK q : q = Kept(p, bytes)
  OBVIOUS
<1>6. PICK b : b = IF FirstByte = "lf" THEN "sp" ELSE FirstByte
  OBVIOUS
<1>7. \/ \E err : Stop(err)
      \/ Goto("scan", q)
      \/ FinishValue
      \/ Goto("linefeed", p) \/ Goto("entity", p)
      \/ Rune(p, b)
  BY <1>1, <1>2, <1>3, <1>5, <1>6, Zenon DEF ScanValue
<1>8. CASE Goto("scan", q)
  <2>1. Scanned(q, 0 + Len(bytes)) /\ q.place = "value"
    BY <1>4, <1>5, KeptScans
  <2>2. Scanned(q, 0)
    BY <2>1, ScannedElsewhere
  <2>3. QED
    BY <1>8, <2>2, ScanHolds, GotoKeeps
<1>9. CASE Goto("linefeed", p) \/ Goto("entity", p)
  <2>1. Holds("linefeed", p) /\ Holds("entity", p)
    BY ScanHolds DEF Scans
  <2>2. QED
    BY <1>9, <2>1, GotoKeeps
<1>10. CASE Rune(p, b)
  <2>1. b \in Byte
    BY <1>6, WindowBytes, BytesWritten
  <2>2. QED
    BY <1>10, <2>1, RuneKeeps
<1>11. QED
  BY <1>7, <1>8, <1>9, <1>10, StopKeeps, FinishValueKeeps

(* An end tag.                                                             *)
LEMMA EndTagKeeps ==
  ASSUME Ready, Holds("endTag", p), ~OverLimit(p.retained), NEW b, EndTag(b)
  PROVE  LInv'
<1>1. PICK token : token = EndToken(p.name, p.at)
  OBVIOUS
<1>2. Goto("endTag", p) \/ Return(token, p) \/ Stop(Syntax)
  BY <1>1, Zenon DEF EndTag
<1>3. Holds("next", p)
  BY DEF Holds, Scans
<1>4. Len(p.name) \in Nat /\ p.retained \in Nat /\ Len(p.name) <= p.retained
  BY DEF Holds, IsParser
<1>5. ~OverLimit(Len(p.name))
  BY <1>4, LessIsInLimit DEF Ready
<1>6. token.kind = "end" /\ Length(token) = Len(p.name)
  BY <1>1 DEF Length, EndToken
<1>7. Fits(token)
  BY <1>5, <1>6 DEF Fits
<1>8. QED
  BY <1>2, <1>3, <1>7, GotoKeeps, ReturnKeeps, StopKeeps

-----------------------------------------------------------------------------
(* The start of a token.                                                   *)

(* A new token holds nothing.                                              *)
LEMMA StartKeeps ==
  ASSUME Ready, Holds("next", p), ~p.inCDATA, ~p.hasEnd, NEW b \in Byte, StartToRead(b)
  PROVE  LInv'
<1>1. PICK at : at = <<AfterReadByte.line, AfterReadByte.col>>
  OBVIOUS
<1>2. PICK q : q = [p EXCEPT !.at = at, !.retained = 0, !.matched = 0, !.name = <<>>]
  OBVIOUS
<1>3. PICK r : r = [q EXCEPT !.place = "text", !.out = <<>>, !.atStart = FALSE]
  OBVIOUS
<1>4. (b = "<" /\ Goto("open", q)) \/ TextByte(r, b)
  BY <1>1, <1>2, <1>3, Zenon DEF StartToRead
<1>5. IsParser(p)
  BY DEF Holds
<1>6. /\ IsParser(q) /\ q.name = <<>> /\ q.matched = 0 /\ q.retained = 0 /\ q.hasEnd = p.hasEnd
      /\ q.inCDATA = p.inCDATA
  BY <1>2, <1>5, BytesWritten DEF IsParser
<1>7. /\ IsParser(r) /\ r.place = "text" /\ r.out = <<>> /\ r.retained = 0 /\ r.hasEnd = q.hasEnd
      /\ r.inCDATA = q.inCDATA
  BY <1>3, <1>6, BytesWritten DEF IsParser
<1>8. Holds("open", q)
  BY <1>6 DEF Holds, Scans
<1>9. Scanned(r, 0)
  BY <1>6, <1>7 DEF Scanned, Data, Section
<1>10. QED
  BY <1>4, <1>7, <1>8, <1>9, GotoKeeps, TextByteKeeps

(* Markup.                                                                 *)
LEMMA OpenKeeps ==
  ASSUME Ready, Holds("open", p), NEW b \in Byte, Open(b)
  PROVE  LInv'
<1>1. IsParser(p) /\ ~p.hasEnd /\ ~p.inCDATA /\ p.matched = 0 /\ p.name = <<>> /\ p.retained \in Nat
  BY DEF Holds, IsParser, Scans
<1>2. Goto("endFirst", p) \/ Goto("bang", p) \/ Goto("target", p) \/ Name("start", b, p)
  BY Zenon DEF Open
<1>3. Len(p.name) <= p.retained
  BY <1>1, BytesWritten
<1>4. Holds("endFirst", p) /\ Holds("bang", p) /\ Holds("target", p)
  BY <1>1, <1>3 DEF Holds, Scans
<1>5. QED
  BY <1>1, <1>2, <1>4, GotoKeeps, NameKeeps

(* A comment or a CDATA section.                                           *)
LEMMA BangKeeps ==
  ASSUME Ready, Holds("bang", p), NEW b, Bang(b)
  PROVE  LInv'
<1>1. IsParser(p) /\ ~p.hasEnd /\ ~p.inCDATA /\ p.matched = 0
  BY DEF Holds, Scans
<1>2. PICK q : q = [p EXCEPT !.place = "cdata", !.inCDATA = TRUE, !.out = <<>>]
  OBVIOUS
<1>3. Goto("dash", p) \/ Goto("scan", q) \/ Stop(Syntax)
  BY <1>2, Zenon DEF Bang
<1>4. Holds("dash", p)
  BY <1>1 DEF Holds, Scans
<1>5. /\ IsParser(q) /\ q.place = "cdata" /\ q.out = <<>> /\ q.matched = 0 /\ q.hasEnd = p.hasEnd
      /\ q.retained \in Nat
  BY <1>1, <1>2, BytesWritten DEF IsParser
<1>6. Len(q.out) = 0 /\ Capacity \in Nat \ {0}
  BY <1>5, BytesWritten, ByteStreamAssumption
<1>7. Scanned(q, 0)
  BY <1>1, <1>5, <1>6 DEF Scanned, Data, Section
<1>8. Holds("scan", q)
  BY <1>7, ScanHolds
<1>9. QED
  BY <1>3, <1>4, <1>8, GotoKeeps, StopKeeps

(* A comment.                                                              *)
LEMMA DashKeeps ==
  ASSUME Ready, Holds("dash", p), NEW b, Dash(b)
  PROVE  LInv'
<1>1. IsParser(p) /\ ~p.hasEnd /\ ~p.inCDATA
  BY DEF Holds, Scans
<1>2. PICK q : q = [p EXCEPT !.place = "comment", !.out = <<>>]
  OBVIOUS
<1>3. Goto("scan", q) \/ Stop(Syntax)
  BY <1>2, Zenon DEF Dash
<1>4. /\ IsParser(q) /\ q.place = "comment" /\ q.out = <<>> /\ q.hasEnd = p.hasEnd
      /\ q.inCDATA = p.inCDATA /\ q.retained \in Nat
  BY <1>1, <1>2, BytesWritten DEF IsParser
<1>5. Len(q.out) = 0
  BY <1>4, BytesWritten
<1>6. Scanned(q, 0)
  BY <1>1, <1>4, <1>5 DEF Scanned, Data, Section
<1>7. QED
  BY <1>3, <1>6, ScanHolds, GotoKeeps, StopKeeps

(* The rest of a CDATA section is a token of its own.                      *)
LEMMA ContinueCDATAKeeps ==
  ASSUME Ready, Holds("next", p), ContinueCDATA
  PROVE  LInv'
<1>1. IsParser(p) /\ p.inCDATA /\ p.place = "cdata" /\ p.matched \in 0..2 /\ ~p.hasEnd
  BY DEF ContinueCDATA, Holds
<1>2. PICK q : q = [p EXCEPT !.retained = 0, !.out = <<>>, !.at = Pos]
  OBVIOUS
<1>3. Goto("scan", q)
  BY <1>2 DEF ContinueCDATA
<1>4. /\ IsParser(q) /\ q.place = "cdata" /\ q.out = <<>> /\ q.matched = p.matched /\ q.retained = 0
      /\ q.hasEnd = p.hasEnd
  BY <1>1, <1>2, BytesWritten DEF IsParser
<1>5. Len(q.out) = 0 /\ Capacity \in Nat \ {0}
  BY <1>4, BytesWritten, ByteStreamAssumption
<1>6. Scanned(q, 0)
  BY <1>1, <1>4, <1>5 DEF Scanned, Data, Section
<1>7. QED
  BY <1>3, <1>6, ScanHolds, GotoKeeps

(* The end of an empty element.                                            *)
LEMMA PendingEndKeeps ==
  ASSUME Ready, Holds("next", p), ~OverLimit(p.retained), PendingEnd
  PROVE  LInv'
<1>1. IsParser(p) /\ ~p.inCDATA /\ ~OverLimit(Len(p.element))
  BY DEF PendingEnd, Holds
<1>2. PICK q : q = [p EXCEPT !.hasEnd = FALSE]
  OBVIOUS
<1>3. PICK at : at = Pos
  OBVIOUS
<1>4. PICK token : token = EndToken(p.element, at)
  OBVIOUS
<1>5. Return(token, q)
  BY <1>2, <1>3, <1>4 DEF PendingEnd
<1>6. IsParser(q) /\ ~q.hasEnd /\ q.inCDATA = p.inCDATA /\ q.retained = p.retained
  BY <1>1, <1>2 DEF IsParser
<1>7. Holds("next", q)
  BY <1>1, <1>6 DEF Holds, Scans
<1>8. token.kind = "end" /\ Length(token) = Len(p.element)
  BY <1>4 DEF Length, EndToken
<1>9. Fits(token)
  BY <1>1, <1>8 DEF Fits
<1>10. QED
  BY <1>5, <1>6, <1>7, <1>9, ReturnKeeps

-----------------------------------------------------------------------------
(* The steps.                                                              *)

(* What is done with a byte.                                               *)
LEMMA ByteKeeps ==
  ASSUME Ready, BufferInv, LInv, OnByte
  PROVE  LInv'
<1>1. PICK b : b = FirstByte
  OBVIOUS
<1>2. /\ b \in Byte /\ Holds(pc, p) /\ ~OverLimit(p.retained)
      /\ pc = "next" => ~p.inCDATA /\ ~p.hasEnd
  BY <1>1, WindowBytes DEF OnByte, NeedsInput, LInv
<1>3. CASE pc = "next" /\ StartToRead(b)
  BY <1>2, <1>3, StartKeeps
<1>4. CASE pc = "open" /\ Open(b)
  BY <1>2, <1>4, OpenKeeps
<1>5. CASE pc = "bang" /\ Bang(b)
  BY <1>2, <1>5, BangKeeps
<1>6. CASE pc = "dash" /\ Dash(b)
  BY <1>2, <1>6, DashKeeps
<1>7. CASE pc = "rune" /\ FinishRune(b)
  BY <1>2, <1>7, FinishRuneKeeps DEF Holds, Scans
<1>8. CASE pc = "entity" /\ Entity(b)
  BY <1>2, <1>8, EntityKeeps DEF Holds, Scans
<1>9. CASE pc = "scan" /\ p.place = "cdata" /\ ScanCDATA(b)
  BY <1>2, <1>9, ScanCDATAKeeps DEF Holds
<1>10. CASE pc = "scan" /\ p.place = "comment" /\ ScanComment(b)
  BY <1>2, <1>10, ScanCommentKeeps DEF Holds
<1>11. CASE pc = "scan" /\ p.place \in {"content", "declaration"} /\ ScanContent(b)
  BY <1>2, <1>11, ScanContentKeeps DEF Holds
<1>12. CASE pc = "commentEnd" /\ CommentEnd(b)
  BY <1>2, <1>12, CommentEndKeeps
<1>13. CASE pc = "target" /\ Target(b)
  BY <1>2, <1>13, TargetKeeps
<1>14. CASE pc = "targetEnd" /\ TargetEnd(b)
  BY <1>2, <1>14, TargetEndKeeps
<1>15. CASE pc = "tag" /\ Tag(b)
  BY <1>2, <1>15, TagKeeps
<1>16. CASE pc = "emptyTag" /\ EmptyTag(b)
  BY <1>2, <1>16, EmptyTagKeeps
<1>17. CASE pc = "equals" /\ Equals(b)
  BY <1>2, <1>17, EqualsKeeps
<1>18. CASE pc = "quote" /\ Quote(b)
  BY <1>2, <1>18, QuoteKeeps
<1>19. CASE pc = "endFirst" /\ EndFirst(b)
  <2>1. IsParser(p) /\ ~p.hasEnd /\ ~p.inCDATA
    BY <1>2, <1>19 DEF Holds, Scans
  <2>2. Stop(Syntax) \/ Name("end", b, p)
    BY <1>19 DEF EndFirst
  <2>3. QED
    BY <1>2, <2>1, <2>2, StopKeeps, NameKeeps
<1>20. CASE pc = "endTag" /\ EndTag(b)
  BY <1>2, <1>20, EndTagKeeps
<1>21. QED
  BY <1>1, <1>3, <1>4, <1>5, <1>6, <1>7, <1>8, <1>9, <1>10, <1>11, <1>12, <1>13, <1>14, <1>15, <1>16,
     <1>17, <1>18, <1>19, <1>20, Zenon DEF OnByte

(* What is done with an error.                                             *)
LEMMA ErrorKeeps ==
  ASSUME Ready, LInv, OnError
  PROVE  LInv'
<1>1. Holds(pc, p) /\ ~OverLimit(p.retained)
  BY DEF OnError, NeedsInput, LInv
<1>2. \/ \E err : Stop(err)
      \/ pc = "linefeed" /\ LineEnd
      \/ pc = "scan" /\ p.place = "text" /\ TextToken(p)
  BY Zenon DEF OnError
<1>3. CASE pc = "linefeed" /\ LineEnd
  BY <1>1, <1>3, LineEndKeeps DEF Holds, Scans
<1>4. CASE pc = "scan" /\ p.place = "text" /\ TextToken(p)
  BY <1>1, <1>4, TextTokenKeeps DEF Holds
<1>5. QED
  BY <1>2, <1>3, <1>4, StopKeeps

(* At the start nothing is held.                                           *)
LEMMA InitLimits == Init => LInv
<1>1. SUFFICES ASSUME Init PROVE LInv
  OBVIOUS
<1>2. tokens = <<>> /\ pc = "prefix" /\ input \in Inputs
  BY <1>1 DEF Init, StreamInit
<1>3. HasFitting
  <2>1. tokens \in Seq({}) /\ DOMAIN tokens = {}
    BY <1>2
  <2>2. QED
    BY <2>1 DEF HasFitting, LimitsAreKept
<1>4. <<>> \in Seq(Byte) /\ <<>> \in Seq(Attribute) /\ <<>> \in Seq(Nat)
  BY BytesWritten
<1>5. IsParser(p) /\ ~p.hasEnd /\ ~p.inCDATA /\ p.retained = 0
  BY <1>1, <1>4 DEF Init, IsParser
<1>6. Holds("prefix", p)
  BY <1>5 DEF Holds, Scans
<1>7. ~OverLimit(0)
  BY <1>2, ParserAssumption DEF OverLimit
<1>8. QED
  BY <1>2, <1>3, <1>5, <1>6, <1>7 DEF LInv

(* Every step keeps to the limits.                                         *)
LEMMA StepKeepsLimits == IInv /\ LInv /\ [Next]_vars => LInv'
<1>1. SUFFICES ASSUME IInv, LInv, [Next]_vars PROVE LInv'
  OBVIOUS
<1>2. BufferInv /\ input \in Inputs /\ HasFitting
  BY <1>1 DEF IInv, BufferInv, Typed, LInv
<1>3. CASE Preview \/ FillBuffer \/ UNCHANGED vars
  <2>1. pc' = pc /\ p' = p /\ tokens' = tokens /\ input' = input
    BY <1>3 DEF Preview, Extend, FillBuffer, Fill, vars, reading
  <2>2. QED
    BY <1>1, <1>2, <2>1, SameLimits, SameTokens DEF LInv, Ready
<1>4. CASE Prefix
  <2>1. PICK q : q = [p EXCEPT !.want = PrefixLength]
    OBVIOUS
  <2>2. pc \in {"prefix", "marked"} /\ Holds(pc, p)
    BY <1>1, <1>4 DEF Prefix, LInv
  <2>3. IsParser(p) /\ ~p.hasEnd /\ ~p.inCDATA
    BY <2>2 DEF Holds, Scans
  <2>4. IsParser(q) /\ q.hasEnd = p.hasEnd /\ q.inCDATA = p.inCDATA
    BY <2>1, <2>3 DEF IsParser
  <2>5. Holds("marked", p) /\ Holds("declaration", q) /\ Holds("next", p)
    BY <2>3, <2>4 DEF Holds, Scans
  <2>6. /\ (\E err : Stop(err)) \/ Goto("marked", p) \/ Goto("declaration", q) \/ Goto("next", p)
        /\ UNCHANGED stream \/ DiscardMark
    BY <1>4, <2>1, Zenon DEF Prefix
  <2>7. Ready
    BY <1>2, <2>6 DEF Ready, stream, DiscardMark
  <2>8. QED
    BY <2>5, <2>6, <2>7, StopKeeps, GotoKeeps
<1>5. CASE Declaration
  <2>1. PICK want : want = Min({2 * p.want, Capacity})
    OBVIOUS
  <2>2. PICK q : q = [p EXCEPT !.want = want]
    OBVIOUS
  <2>3. IsParser(p) /\ ~p.hasEnd /\ ~p.inCDATA
    BY <1>1, <1>5 DEF Declaration, LInv, Holds, Scans
  <2>4. IsParser(q) /\ q.hasEnd = p.hasEnd /\ q.inCDATA = p.inCDATA
    BY <2>2, <2>3 DEF IsParser
  <2>5. Holds("declaration", q) /\ Holds("next", p)
    BY <2>3, <2>4 DEF Holds, Scans
  <2>6. (\E err : Stop(err)) \/ Goto("declaration", q) \/ Goto("next", p)
    BY <1>5, <2>1, <2>2, Zenon DEF Declaration
  <2>7. Ready
    BY <1>2, <1>5 DEF Ready, Declaration, stream
  <2>8. QED
    BY <2>5, <2>6, <2>7, StopKeeps, GotoKeeps
<1>6. CASE OnByte
  <2>1. Ready
    BY <1>2, <1>6 DEF Ready, OnByte, ReadByte
  <2>2. QED
    BY <1>1, <1>2, <1>6, <2>1, ByteKeeps
<1>7. CASE OnWindow
  <2>1. Holds(pc, p) /\ ~OverLimit(p.retained) /\ ~Empty
    BY <1>1, <1>7 DEF OnWindow, NeedsInput, LInv
  <2>2. CASE pc = "scan" /\ p.place = "text" /\ ScanText
    <3>1. UNCHANGED stream \/ (\E n : ConsumeBuffered(n)) \/ Peek \/ ReadByte
      BY <2>2, Zenon DEF ScanText
    <3>2. Ready
      BY <1>2, <3>1 DEF Ready, stream, ConsumeBuffered, Peek, ReadByte
    <3>3. QED
      BY <1>2, <2>1, <2>2, <3>2, ScanTextKeeps DEF Holds
  <2>3. CASE pc = "scan" /\ p.place = "value" /\ ScanValue
    <3>1. UNCHANGED stream \/ (\E n : ConsumeBuffered(n)) \/ ReadByte
      BY <2>3, Zenon DEF ScanValue
    <3>2. Ready
      BY <1>2, <3>1 DEF Ready, stream, ConsumeBuffered, ReadByte
    <3>3. QED
      BY <1>2, <2>1, <2>3, <3>2, ScanValueKeeps DEF Holds
  <2>4. CASE pc = "name" /\ ScanName
    <3>1. UNCHANGED stream \/ (\E n : ConsumeBuffered(n))
      BY <2>4, Zenon DEF ScanName
    <3>2. Ready
      BY <1>2, <3>1 DEF Ready, stream, ConsumeBuffered
    <3>3. QED
      BY <1>2, <2>1, <2>4, <3>2, ScanNameKeeps
  <2>5. QED
    BY <1>7, <2>2, <2>3, <2>4 DEF OnWindow
<1>8. CASE OnLineEnd
  <2>1. Scanned(p, 2)
    BY <1>1, <1>8 DEF OnLineEnd, LInv, Holds, Scans
  <2>2. Ready
    BY <1>2, <1>8 DEF Ready, OnLineEnd, ReadByte, Peek
  <2>3. QED
    BY <1>8, <2>1, <2>2, LineEndKeeps DEF OnLineEnd
<1>9. CASE OnError
  <2>1. Ready
    BY <1>2, <1>9 DEF Ready, OnError, Raise
  <2>2. QED
    BY <1>1, <1>9, <2>1, ErrorKeeps
<1>10. CASE ContinueCDATA
  <2>1. Ready /\ Holds("next", p)
    BY <1>1, <1>2, <1>10 DEF Ready, ContinueCDATA, stream, LInv
  <2>2. QED
    BY <1>10, <2>1, ContinueCDATAKeeps
<1>11. CASE PendingEnd
  <2>1. Ready /\ Holds("next", p) /\ ~OverLimit(p.retained)
    BY <1>1, <1>2, <1>11 DEF Ready, PendingEnd, stream, LInv
  <2>2. QED
    BY <1>11, <2>1, PendingEndKeeps
<1>12. QED
  BY <1>1, <1>3, <1>4, <1>5, <1>6, <1>7, <1>8, <1>9, <1>10, <1>11 DEF Next

(* No token is longer than the limit, with all its names and values, none  *)
(* has more attributes than the limit, and a CDATA section is returned in  *)
(* pieces not much larger than the buffer: wherever the reader cuts the    *)
(* input, and whether the values of attributes are kept each for itself or *)
(* as slices of one buffer.                                                *)
THEOREM LimitsHold == Spec => []LimitsAreKept
<1>1. Init => IInv /\ LInv
  BY InitBuffer, InitLimits
<1>2. IInv /\ LInv /\ [Next]_vars => IInv' /\ LInv'
  BY StepMoves, StepKeepsLimits
<1>3. LInv => LimitsAreKept
  BY DEF LInv, HasFitting
<1>4. QED
  BY <1>1, <1>2, <1>3, PTL DEF Spec
=============================================================================
