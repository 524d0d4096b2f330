--------------------------- MODULE DocumentProofs ---------------------------
(***************************************************************************)
(* The stacks of a document stay aligned and its arenas are those of the   *)
(* open elements; names are resolved by what is in scope, the path of an   *)
(* element is the one it has, and start tags are judged by the rules: for  *)
(* all names, start tags, types and limits.                                *)
(***************************************************************************)
EXTENDS DocumentProperties, SequenceTheorems, TLAPS

-----------------------------------------------------------------------------
(* A stack of n entries that share the k values of an arena: each begins   *)
(* behind its mark, ends where the next one does, and holds its own part.  *)

EndOf(n, marks, k, d) == IF d = n THEN k ELSE marks[d + 1]

Parted(n, marks, k, arena, parts) ==
  /\ n = 0 => k = 0
  /\ n # 0 => marks[1] = 0
  /\ \A d \in 1..n : marks[d] \in 0..k
  /\ \A d, e \in 1..n : d <= e => marks[d] <= marks[e]
  /\ \A d \in 1..n : Len(parts[d]) \in Nat /\ marks[d] + Len(parts[d]) = EndOf(n, marks, k, d)
  /\ \A d \in 1..n : \A i \in 1..Len(parts[d]) : arena[marks[d] + i] = parts[d][i]

(* A part ends inside the arena, and that of an entry below the last one   *)
(* ends before the last mark.                                              *)
LEMMA Ends ==
  ASSUME NEW n \in Nat, NEW k \in Nat, NEW marks, NEW arena, NEW parts,
         Parted(n, marks, k, arena, parts), NEW d \in 1..n
  PROVE  /\ marks[d] \in 0..k /\ Len(parts[d]) \in Nat
         /\ marks[d] + Len(parts[d]) = EndOf(n, marks, k, d)
         /\ EndOf(n, marks, k, d) \in 0..k
         /\ marks[n] \in 0..k
         /\ d # n => d + 1 \in 1..n /\ EndOf(n, marks, k, d) <= marks[n]
<1>1. marks[d] \in 0..k /\ Len(parts[d]) \in Nat /\ marks[d] + Len(parts[d]) = EndOf(n, marks, k, d)
  BY DEF Parted
<1>2. n \in 1..n /\ marks[n] \in 0..k
  BY DEF Parted
<1>3. CASE d = n
  BY <1>1, <1>2, <1>3 DEF EndOf
<1>4. CASE d # n
  <2>1. d + 1 \in 1..n /\ EndOf(n, marks, k, d) = marks[d + 1]
    BY <1>4 DEF EndOf
  <2>2. marks[d + 1] \in 0..k /\ marks[d + 1] <= marks[n]
    BY <1>2, <2>1 DEF Parted
  <2>3. QED
    BY <1>1, <1>2, <2>1, <2>2, <1>4
<1>5. QED
  BY <1>3, <1>4

(* So the places of a part lie in the arena, below the last mark for all   *)
(* but the last entry.                                                     *)
LEMMA EndsInside ==
  ASSUME NEW n \in Nat, NEW k \in Nat, NEW marks, NEW arena, NEW parts,
         Parted(n, marks, k, arena, parts), NEW d \in 1..n, NEW i \in 1..Len(parts[d])
  PROVE  /\ marks[d] \in Nat /\ marks[d] + i \in 1..k
         /\ d # n => marks[d] + i \in 1..marks[n]
<1>1. marks[d] \in Nat /\ marks[d] + i \in 1..EndOf(n, marks, k, d)
  BY Ends
<1>2. EndOf(n, marks, k, d) \in 0..k /\ marks[n] \in 0..k
  BY Ends
<1>3. d # n => EndOf(n, marks, k, d) <= marks[n]
  BY Ends
<1>4. QED
  BY <1>1, <1>2, <1>3

(* The same entries, and values, up to the given places.                   *)
SameEntries(n, marks, parts, marks2, parts2) ==
  \A d \in 1..n : marks2[d] = marks[d] /\ parts2[d] = parts[d]

SameValues(k, arena, arena2) == \A i \in 1..k : arena2[i] = arena[i]

(* The n-th entry consists of l values of the arena behind the k-th one.   *)
IsEntry(n, marks, k, l, arena, parts) ==
  /\ marks[n] = k /\ Len(parts[n]) = l
  /\ \A i \in 1..l : arena[k + i] = parts[n][i]

(* A new entry takes the values appended behind the arena as its part.     *)
LEMMA PartedPush ==
  ASSUME NEW n \in Nat, NEW k \in Nat, NEW marks, NEW arena, NEW parts,
         Parted(n, marks, k, arena, parts),
         NEW marks2, NEW arena2, NEW parts2, NEW l \in Nat,
         SameEntries(n, marks, parts, marks2, parts2), SameValues(k, arena, arena2),
         IsEntry(n + 1, marks2, k, l, arena2, parts2)
  PROVE  Parted(n + 1, marks2, k + l, arena2, parts2)
<1> USE DEF SameEntries, SameValues, IsEntry
<1>1. marks2[1] = 0
  <2>1. CASE n = 0
    BY <2>1 DEF Parted
  <2>2. CASE n # 0
    BY <2>2 DEF Parted
  <2>3. QED
    BY <2>1, <2>2
<1>2. /\ \A d \in 1..n : marks2[d] = marks[d] /\ marks[d] \in 0..k
      /\ marks2[n + 1] = k /\ \A d \in 1..n + 1 : d \in 1..n \/ d = n + 1
  BY DEF Parted
<1>3. \A d \in 1..n + 1 : marks2[d] \in 0..k + l
  BY <1>2
<1>4. ASSUME NEW d \in 1..n + 1, NEW e \in 1..n + 1, d <= e
      PROVE  marks2[d] <= marks2[e]
  <2>1. CASE e = n + 1
    BY <1>2, <2>1
  <2>2. CASE e \in 1..n
    <3>1. d \in 1..n /\ marks[d] <= marks[e]
      BY <1>4, <2>2 DEF Parted
    <3>2. QED
      BY <1>2, <2>2, <3>1
  <2>3. QED
    BY <1>2, <2>1, <2>2
<1>5. \A d \in 1..n + 1 : /\ Len(parts2[d]) \in Nat
                          /\ marks2[d] + Len(parts2[d]) = EndOf(n + 1, marks2, k + l, d)
  <2>1. SUFFICES ASSUME NEW d \in 1..n + 1
                 PROVE  /\ Len(parts2[d]) \in Nat
                        /\ marks2[d] + Len(parts2[d]) = EndOf(n + 1, marks2, k + l, d)
    OBVIOUS
  <2>2. CASE d = n + 1
    BY <2>2 DEF EndOf
  <2>3. CASE d \in 1..n
    <3>1. EndOf(n + 1, marks2, k + l, d) = EndOf(n, marks, k, d)
      <4>1. CASE d = n
        <5>1. d # n + 1 /\ d + 1 = n + 1
          BY <4>1
        <5>2. QED
          BY <4>1, <5>1 DEF EndOf
      <4>2. CASE d # n
        <5>1. d # n + 1 /\ d + 1 \in 1..n
          BY <2>3, <4>2
        <5>2. QED
          BY <4>2, <5>1 DEF EndOf
      <4>3. QED
        BY <4>1, <4>2
    <3>2. marks2[d] = marks[d] /\ parts2[d] = parts[d]
      BY <2>3
    <3>3. QED
      BY <2>3, <3>1, <3>2, Ends
  <2>4. QED
    BY <2>2, <2>3
<1>6. ASSUME NEW d \in 1..n + 1, NEW i \in 1..Len(parts2[d])
      PROVE  arena2[marks2[d] + i] = parts2[d][i]
  <2>1. CASE d = n + 1
    BY <2>1
  <2>2. CASE d # n + 1
    <3>1. d \in 1..n /\ marks2[d] = marks[d] /\ parts2[d] = parts[d]
      BY <2>2
    <3>2. marks[d] + i \in 1..k
      BY <3>1, EndsInside
    <3>3. arena[marks[d] + i] = parts[d][i]
      BY <3>1 DEF Parted
    <3>4. QED
      BY <3>1, <3>2, <3>3
  <2>3. QED
    BY <2>1, <2>2
<1>7. QED
  BY <1>1, <1>3, <1>4, <1>5, <1>6 DEF Parted

(* Without the last entry, the arena ends at its mark.                     *)
LEMMA PartedPop ==
  ASSUME NEW n \in Nat \ {0}, NEW k \in Nat, NEW marks, NEW arena, NEW parts,
         Parted(n, marks, k, arena, parts),
         NEW marks2, NEW arena2, NEW parts2,
         SameEntries(n - 1, marks, parts, marks2, parts2), SameValues(marks[n], arena, arena2)
  PROVE  Parted(n - 1, marks2, marks[n], arena2, parts2)
<1> USE DEF SameEntries, SameValues
<1>1. n - 1 = 0 => marks[n] = 0
  BY DEF Parted
<1>2. n - 1 # 0 => marks2[1] = 0
  BY DEF Parted
<1>3. \A d \in 1..n - 1 : marks2[d] \in 0..marks[n]
  BY DEF Parted
<1>4. \A d, e \in 1..n - 1 : d <= e => marks2[d] <= marks2[e]
  BY DEF Parted
<1>5. \A d \in 1..n - 1 : /\ Len(parts2[d]) \in Nat
                          /\ marks2[d] + Len(parts2[d]) = EndOf(n - 1, marks2, marks[n], d)
  <2>1. SUFFICES ASSUME NEW d \in 1..n - 1
                 PROVE  /\ Len(parts2[d]) \in Nat
                        /\ marks2[d] + Len(parts2[d]) = EndOf(n - 1, marks2, marks[n], d)
    OBVIOUS
  <2>2. EndOf(n - 1, marks2, marks[n], d) = EndOf(n, marks, k, d)
    BY DEF EndOf
  <2>3. d \in 1..n /\ marks2[d] = marks[d] /\ parts2[d] = parts[d]
    OBVIOUS
  <2>4. QED
    BY <2>2, <2>3, Ends
<1>6. ASSUME NEW d \in 1..n - 1, NEW i \in 1..Len(parts2[d])
      PROVE  arena2[marks2[d] + i] = parts2[d][i]
  <2>1. d \in 1..n /\ d # n /\ marks2[d] = marks[d] /\ parts2[d] = parts[d]
    OBVIOUS
  <2>2. marks[d] + i \in 1..marks[n]
    BY <2>1, EndsInside
  <2>3. arena[marks[d] + i] = parts[d][i]
    BY <2>1 DEF Parted
  <2>4. QED
    BY <2>1, <2>2, <2>3
<1>7. QED
  BY <1>1, <1>2, <1>3, <1>4, <1>5, <1>6 DEF Parted

(* What is appended to the arena belongs to the last entry.                *)
LEMMA PartedExtend ==
  ASSUME NEW n \in Nat \ {0}, NEW k \in Nat, NEW marks, NEW arena, NEW parts,
         Parted(n, marks, k, arena, parts),
         NEW arena2, NEW parts2,
         SameEntries(n - 1, marks, parts, marks, parts2), SameValues(k, arena, arena2),
         Len(parts2[n]) = Len(parts[n]) + 1, SameValues(Len(parts[n]), parts[n], parts2[n]),
         arena2[k + 1] = parts2[n][Len(parts[n]) + 1]
  PROVE  Parted(n, marks, k + 1, arena2, parts2)
<1> USE DEF SameEntries, SameValues
<1>1. Len(parts[n]) \in Nat /\ marks[n] \in Nat /\ marks[n] + Len(parts[n]) = k
  BY DEF Parted, EndOf
<1>2. \A d \in 1..n : marks[d] \in 0..k + 1
  BY DEF Parted
<1>3. \A d \in 1..n : /\ Len(parts2[d]) \in Nat
                      /\ marks[d] + Len(parts2[d]) = EndOf(n, marks, k + 1, d)
  <2>1. SUFFICES ASSUME NEW d \in 1..n
                 PROVE  /\ Len(parts2[d]) \in Nat
                        /\ marks[d] + Len(parts2[d]) = EndOf(n, marks, k + 1, d)
    OBVIOUS
  <2>2. CASE d = n
    <3>1. EndOf(n, marks, k + 1, n) = k + 1
      BY DEF EndOf
    <3> DEFINE a == marks[n]
               l == Len(parts[n])
    <3>2. Len(parts2[n]) = l + 1 /\ l \in Nat /\ a \in Nat /\ a + l = k
      BY <1>1
    <3> HIDE DEF a, l
    <3>3. l + 1 \in Nat /\ a + (l + 1) = k + 1
      BY <3>2
    <3>4. QED
      BY <2>2, <3>1, <3>2, <3>3 DEF a
  <2>3. CASE d # n
    <3>1. EndOf(n, marks, k + 1, d) = EndOf(n, marks, k, d) /\ parts2[d] = parts[d]
      BY <2>3 DEF EndOf
    <3>2. QED
      BY <3>1, Ends
  <2>4. QED
    BY <2>2, <2>3
<1>4. ASSUME NEW d \in 1..n, NEW i \in 1..Len(parts2[d])
      PROVE  arena2[marks[d] + i] = parts2[d][i]
  <2>1. CASE d = n /\ i = Len(parts[n]) + 1
    <3>1. marks[n] + (Len(parts[n]) + 1) = k + 1
      BY ONLY <1>1, k \in Nat
    <3>2. QED
      BY <2>1, <3>1
  <2>2. CASE ~(d = n /\ i = Len(parts[n]) + 1)
    <3>1. i \in 1..Len(parts[d]) /\ parts2[d][i] = parts[d][i]
      <4>1. CASE d = n
        <5>1. PICK l \in Nat : l = Len(parts[n])
          BY <1>1
        <5>2. i \in 1..l + 1 /\ i # l + 1
          BY <2>2, <4>1, <5>1
        <5>3. i \in 1..l
          BY ONLY <5>1, <5>2
        <5>4. QED
          BY <4>1, <5>1, <5>3
      <4>2. CASE d # n
        <5>1. parts2[d] = parts[d]
          BY <4>2
        <5>2. QED
          BY <5>1
      <4>3. QED
        BY <4>1, <4>2
    <3>2. marks[d] + i \in 1..k
      BY <3>1, EndsInside
    <3>3. arena[marks[d] + i] = parts[d][i]
      BY <3>1 DEF Parted
    <3>4. QED
      BY <3>1, <3>2, <3>3
  <2>3. QED
    BY <2>1, <2>2
<1>5. QED
  BY <1>2, <1>3, <1>4 DEF Parted

-----------------------------------------------------------------------------
(* Sequences of whatever they hold.                                        *)

IsSeq(s) == s \in Seq(Range(s))

(* Every sequence, whatever its elements, is one of the elements it has.   *)
LEMMA SeqIsSeq ==
  ASSUME NEW S, NEW s \in Seq(S)
  PROVE  IsSeq(s)
BY SeqOfRange DEF IsSeq

(* The length and the domain of a sequence.                                *)
LEMMA SeqFacts ==
  ASSUME NEW s, IsSeq(s)
  PROVE  Len(s) \in Nat /\ DOMAIN s = 1..Len(s) /\ (s = <<>> <=> Len(s) = 0)
BY DEF IsSeq

(* The empty sequence.                                                     *)
LEMMA EmptyIsSeq == IsSeq(<<>>) /\ Len(<<>>) = 0
<1>1. <<>> \in Seq({})
  OBVIOUS
<1>2. QED
  BY <1>1, SeqIsSeq

(* What Append keeps and adds.                                             *)
LEMMA AppendFacts ==
  ASSUME NEW s, IsSeq(s), NEW x
  PROVE  /\ IsSeq(Append(s, x)) /\ Len(Append(s, x)) = Len(s) + 1
         /\ \A d \in 1..Len(s) : Append(s, x)[d] = s[d]
         /\ Append(s, x)[Len(s) + 1] = x
<1> DEFINE S == Range(s) \union {x}
<1>1. s \in Seq(S) /\ x \in S
  <2>1. Range(s) \subseteq S
    OBVIOUS
  <2>2. QED
    BY <2>1, SeqMonotonic DEF IsSeq
<1> HIDE DEF S
<1>2. /\ Append(s, x) \in Seq(S) /\ Len(Append(s, x)) = Len(s) + 1
      /\ \A d \in 1..Len(s) : Append(s, x)[d] = s[d]
      /\ Append(s, x)[Len(s) + 1] = x
  BY <1>1
<1>3. QED
  BY <1>2, SeqIsSeq

(* Where the values of a concatenation come from.                          *)
LEMMA ConcatFacts ==
  ASSUME NEW s, IsSeq(s), NEW t, IsSeq(t)
  PROVE  /\ IsSeq(s \o t) /\ Len(s \o t) = Len(s) + Len(t)
         /\ \A d \in 1..Len(s) : (s \o t)[d] = s[d]
         /\ \A d \in 1..Len(t) : (s \o t)[Len(s) + d] = t[d]
<1> DEFINE S == Range(s) \union Range(t)
<1>1. s \in Seq(S) /\ t \in Seq(S)
  <2>1. Range(s) \subseteq S /\ Range(t) \subseteq S
    OBVIOUS
  <2>2. QED
    BY <2>1, SeqMonotonic DEF IsSeq
<1> HIDE DEF S
<1>2. s \o t \in Seq(S) /\ Len(s \o t) = Len(s) + Len(t)
  BY <1>1
<1>3. \A d \in 1..Len(s) : (s \o t)[d] = s[d]
  BY <1>1
<1>4. \A d \in 1..Len(t) : (s \o t)[Len(s) + d] = t[d]
  BY <1>1
<1>5. QED
  BY <1>2, <1>3, <1>4, SeqIsSeq

(* A prefix keeps the values it has.                                       *)
LEMMA PrefixFacts ==
  ASSUME NEW s, IsSeq(s), NEW n \in 0..Len(s)
  PROVE  /\ IsSeq(SubSeq(s, 1, n)) /\ Len(SubSeq(s, 1, n)) = n
         /\ \A d \in 1..n : SubSeq(s, 1, n)[d] = s[d]
<1> DEFINE S == Range(s)
<1> HIDE DEF S
<1>1. s \in Seq(S)
  BY DEF IsSeq, S
<1>2. SubSeq(s, 1, n) \in Seq(S) /\ Len(SubSeq(s, 1, n)) = n
  BY <1>1
<1>3. \A d \in 1..n : SubSeq(s, 1, n)[d] = s[d]
  BY <1>1
<1>4. QED
  BY <1>2, <1>3, SeqIsSeq

(* Front drops the last value, and Last is that value.                     *)
LEMMA FrontFacts ==
  ASSUME NEW s, IsSeq(s), s # <<>>
  PROVE  /\ IsSeq(Front(s)) /\ Len(s) \in Nat \ {0} /\ Len(Front(s)) = Len(s) - 1
         /\ \A d \in 1..Len(s) - 1 : Front(s)[d] = s[d]
         /\ Last(s) = s[Len(s)]
<1> DEFINE n == Len(s) - 1
<1>1. Len(s) \in Nat \ {0} /\ n \in 0..Len(s)
  BY SeqFacts
<1> HIDE DEF n
<1>2. IsSeq(SubSeq(s, 1, n)) /\ Len(SubSeq(s, 1, n)) = n /\ \A d \in 1..n : SubSeq(s, 1, n)[d] = s[d]
  BY <1>1, PrefixFacts
<1>3. QED
  BY <1>1, <1>2 DEF Front, Last, n

(* A change at one place leaves the others as they are.                    *)
LEMMA ExceptFacts ==
  ASSUME NEW s, IsSeq(s), NEW i \in 1..Len(s), NEW x
  PROVE  /\ IsSeq([s EXCEPT ![i] = x]) /\ Len([s EXCEPT ![i] = x]) = Len(s)
         /\ \A d \in 1..Len(s) : [s EXCEPT ![i] = x][d] = IF d = i THEN x ELSE s[d]
<1> DEFINE S == Range(s) \union {x}
<1>1. s \in Seq(S) /\ x \in S
  <2>1. Range(s) \subseteq S
    OBVIOUS
  <2>2. QED
    BY <2>1, SeqMonotonic DEF IsSeq
<1> HIDE DEF S
<1>2. /\ [s EXCEPT ![i] = x] \in Seq(S) /\ Len([s EXCEPT ![i] = x]) = Len(s)
      /\ \A d \in 1..Len(s) : [s EXCEPT ![i] = x][d] = IF d = i THEN x ELSE s[d]
  BY <1>1, ExceptSeq
<1>3. QED
  BY <1>2, SeqIsSeq

(* Sequences are equal if their lengths and values are.                    *)
LEMMA SameSeq ==
  ASSUME NEW s, IsSeq(s), NEW t, IsSeq(t), Len(s) = Len(t), \A d \in 1..Len(s) : s[d] = t[d]
  PROVE  s = t
<1> DEFINE S == Range(s) \union Range(t)
<1>1. s \in Seq(S) /\ t \in Seq(S)
  <2>1. Range(s) \subseteq S /\ Range(t) \subseteq S
    OBVIOUS
  <2>2. QED
    BY <2>1, SeqMonotonic DEF IsSeq
<1> HIDE DEF S
<1>2. QED
  BY <1>1, SeqEqual

(* A function on 1..n is a sequence of length n.                           *)
LEMMA MapFacts ==
  ASSUME NEW n \in Nat, NEW f, f = [i \in 1..n |-> f[i]]
  PROVE  IsSeq(f) /\ Len(f) = n
<1>1. f \in Seq(Range(f))
  BY DEF Range
<1>2. QED
  BY <1>1 DEF IsSeq

(* An entry's slice of the arena is its part.                              *)
LEMMA SliceIsPart ==
  ASSUME NEW arena, IsSeq(arena), NEW n \in Nat, NEW marks, NEW parts,
         Parted(n, marks, Len(arena), arena, parts), NEW d \in 1..n, IsSeq(parts[d])
  PROVE  SubSeq(arena, marks[d] + 1, EndOf(n, marks, Len(arena), d)) = parts[d]
<1> DEFINE m == marks[d]
           e == EndOf(n, marks, Len(arena), d)
           p == parts[d]
           S == Range(arena)
           a == m + 1
<1>1. Len(arena) \in Nat
  BY SeqFacts
<1>2. m \in Nat /\ e \in Nat /\ e <= Len(arena) /\ Len(p) \in Nat /\ m + Len(p) = e
  BY <1>1, Ends
<1>3. \A i \in 1..Len(p) : arena[m + i] = p[i]
  BY DEF Parted
<1>4. arena \in Seq(S)
  BY DEF IsSeq
<1> HIDE DEF m, e, p, S
<1>5. \A i \in a..e : arena[i] \in S
  BY <1>2, <1>4
<1>6. a \in Int /\ e \in Int
  BY <1>2
<1> HIDE DEF a
<1>7. /\ SubSeq(arena, a, e) \in Seq(S)
      /\ Len(SubSeq(arena, a, e)) = IF a <= e THEN e - a + 1 ELSE 0
      /\ \A i \in 1..e - a + 1 : SubSeq(arena, a, e)[i] = arena[a + i - 1]
  BY <1>5, <1>6, SubSeqProperties
<1>8. e - a + 1 = Len(p) /\ Len(SubSeq(arena, a, e)) = Len(p)
  BY <1>2, <1>7 DEF a
<1>9. ASSUME NEW i \in 1..Len(p)
      PROVE  SubSeq(arena, a, e)[i] = p[i]
  <2>1. a + i - 1 = m + i
    BY <1>2 DEF a
  <2>2. QED
    BY <1>3, <1>7, <1>8, <2>1
<1>10. IsSeq(p)
  BY DEF p
<1>11. IsSeq(SubSeq(arena, a, e))
  BY <1>7, SeqIsSeq
<1>12. SubSeq(arena, a, e) = p
  BY <1>8, <1>9, <1>10, <1>11, SameSeq
<1>13. QED
  BY <1>12 DEF m, e, p, a

-----------------------------------------------------------------------------
(* What PushStream reads from the attributes of a tag.                     *)

(* PushStream goes through the attributes one by one.                      *)
Scan == INSTANCE Folding WITH Op <- AddBinding

(* The n-th declaration is written by one of the first k attributes.       *)
IsFrom(b, attrs, k) ==
  \E j \in 1..k : IsNamespaceName(attrs[j].name) /\ b = Binding(attrs[j])

IsScan(bindings, attrs, k) ==
  /\ IsSeq(bindings)
  /\ \A i \in 1..Len(bindings) : IsFrom(bindings[i], attrs, k)

HasDistinctNames(attrs) == \A i, j \in DOMAIN attrs : i # j => attrs[i].name # attrs[j].name

HasDistinctPrefixes(bindings) ==
  \A i, j \in 1..Len(bindings) : bindings[i].prefix = bindings[j].prefix => i = j

(* Different names declare different prefixes.                             *)
LEMMA PrefixNames ==
  ASSUME NEW a \in LexicalAttributes, NEW b \in LexicalAttributes,
         IsNamespaceName(a.name), IsNamespaceName(b.name),
         Binding(a).prefix = Binding(b).prefix
  PROVE  a.name = b.name
<1>1. /\ a.name = [space |-> a.name.space, local |-> a.name.local] /\ a.name.local # ""
      /\ b.name = [space |-> b.name.space, local |-> b.name.local] /\ b.name.local # ""
  BY DEF LexicalAttributes, LexicalNames
<1>2. /\ Binding(a).prefix = IF a.name.space = XmlnsPrefix THEN a.name.local ELSE ""
      /\ Binding(b).prefix = IF b.name.space = XmlnsPrefix THEN b.name.local ELSE ""
  BY DEF Binding
<1>3. a.name.space = b.name.space /\ a.name.local = b.name.local
  BY <1>1, <1>2 DEF IsNamespaceName
<1>4. QED
  BY <1>1, <1>3

(* One more attribute adds its declaration, if it is one.                  *)
LEMMA ScanStep ==
  ASSUME NEW attrs, NEW n \in Nat, attrs \in Seq(LexicalAttributes), n < Len(attrs),
         NEW bindings, IsScan(bindings, attrs, n)
  PROVE  /\ IsScan(AddBinding(bindings, attrs[n + 1]), attrs, n + 1)
         /\ HasDistinctNames(attrs) /\ HasDistinctPrefixes(bindings)
              => HasDistinctPrefixes(AddBinding(bindings, attrs[n + 1]))
<1> DEFINE a == attrs[n + 1]
<1>1. \A i \in 1..Len(bindings) : IsFrom(bindings[i], attrs, n) /\ IsFrom(bindings[i], attrs, n + 1)
  BY DEF IsScan, IsFrom
<1>2. CASE ~IsNamespaceName(a.name)
  BY <1>1, <1>2 DEF AddBinding, IsScan
<1>3. CASE IsNamespaceName(a.name)
  <2> DEFINE b == Binding(a)
             after == Append(bindings, b)
  <2>1. AddBinding(bindings, a) = after
    BY <1>3 DEF AddBinding
  <2>2. /\ IsSeq(after) /\ Len(after) = Len(bindings) + 1 /\ Len(bindings) \in Nat
        /\ \A i \in 1..Len(bindings) : after[i] = bindings[i]
        /\ after[Len(bindings) + 1] = b
    BY AppendFacts, SeqFacts DEF IsScan
  <2>3. IsFrom(b, attrs, n + 1)
    BY <1>3 DEF IsFrom
  <2> HIDE DEF after, b
  <2>4. IsScan(after, attrs, n + 1)
    BY <1>1, <2>2, <2>3 DEF IsScan
  <2>5. ASSUME HasDistinctNames(attrs), HasDistinctPrefixes(bindings)
        PROVE  HasDistinctPrefixes(after)
    <3>1. ASSUME NEW i \in 1..Len(bindings)
          PROVE  bindings[i].prefix # b.prefix
      <4>1. PICK j \in 1..n : IsNamespaceName(attrs[j].name) /\ bindings[i] = Binding(attrs[j])
        BY <1>1 DEF IsFrom
      <4>2. DOMAIN attrs = 1..Len(attrs) /\ Len(attrs) \in Nat
        OBVIOUS
      <4>3. j \in DOMAIN attrs /\ n + 1 \in DOMAIN attrs /\ j # n + 1
        BY <4>2
      <4>4. attrs[j] \in LexicalAttributes /\ a \in LexicalAttributes
        BY <4>3
      <4>5. attrs[j].name # a.name
        BY <2>5, <4>3 DEF HasDistinctNames
      <4>6. QED
        BY <1>3, <4>1, <4>4, <4>5, PrefixNames DEF b
    <3>2. ASSUME NEW i \in 1..Len(after), NEW j \in 1..Len(after), after[i].prefix = after[j].prefix
          PROVE  i = j
      <4>1. /\ i \in 1..Len(bindings) \/ i = Len(bindings) + 1
            /\ j \in 1..Len(bindings) \/ j = Len(bindings) + 1
        BY <2>2
      <4>2. QED
        BY <2>2, <2>5, <3>1, <3>2, <4>1 DEF HasDistinctPrefixes
    <3>3. QED
      BY <3>2 DEF HasDistinctPrefixes
  <2>6. QED
    BY <2>1, <2>4, <2>5
<1>4. QED
  BY <1>2, <1>3

(* So the declarations of a start tag are those of its attributes, and     *)
(* those of different names declare different prefixes.                    *)
LEMMA DeclarationFacts ==
  ASSUME NEW attrs \in Seq(LexicalAttributes)
  PROVE  /\ IsScan(Declarations(attrs), attrs, Len(attrs))
         /\ HasDistinctNames(attrs) => HasDistinctPrefixes(Declarations(attrs))
<1> DEFINE n == Len(attrs)
<1>1. n \in Nat /\ DOMAIN attrs = 1..n
  OBVIOUS
<1>2. Declarations(attrs) = Scan!Fold(<<>>, attrs)
  BY DEF Declarations, FoldLeft, MapThenFoldSet, Max,
         Scan!Fold, Scan!Iterated, Scan!Iterates, Scan!Step, Scan!Largest
<1>3. PICK f : /\ f[0] = <<>> /\ f[n] = Declarations(attrs)
               /\ \A k \in 0..n - 1 : f[k + 1] = AddBinding(f[k], attrs[k + 1])
  BY <1>1, <1>2, Scan!FoldSteps DEF Scan!Folds
<1> DEFINE T == {k \in Nat : k <= n => /\ IsScan(f[k], attrs, k)
                                       /\ HasDistinctNames(attrs) => HasDistinctPrefixes(f[k])}
<1>4. 0 \in T
  BY <1>3, EmptyIsSeq DEF IsScan, HasDistinctPrefixes
<1>5. ASSUME NEW k \in Nat, k \in T
      PROVE  k + 1 \in T
  <2>1. SUFFICES ASSUME k + 1 <= n
                 PROVE  /\ IsScan(f[k + 1], attrs, k + 1)
                        /\ HasDistinctNames(attrs) => HasDistinctPrefixes(f[k + 1])
    OBVIOUS
  <2>2. k <= n /\ k \in 0..n - 1 /\ k < Len(attrs)
    BY <1>1, <2>1
  <2>3. f[k + 1] = AddBinding(f[k], attrs[k + 1])
    BY <1>3, <2>2
  <2>4. IsScan(f[k], attrs, k) /\ (HasDistinctNames(attrs) => HasDistinctPrefixes(f[k]))
    BY <1>5, <2>2
  <2>5. QED
    BY <2>2, <2>3, <2>4, ScanStep
<1> HIDE DEF T
<1>6. \A k \in Nat : k \in T
  BY <1>4, <1>5, Scan!NatInduct
<1>7. QED
  BY <1>1, <1>3, <1>6 DEF T

-----------------------------------------------------------------------------
(* The inductive invariant.                                                *)

(* The marks and parts of the open elements, for Parted.                   *)
TextMarks == [d \in 1..Depth |-> elements[d].frame.textStart]
Data == [d \in 1..Depth |-> open[d].data]
Declared == [d \in 1..Depth |-> open[d].declared]

(* The shape of the variables, as far as the steps rely on it.             *)
IsTag(tag) ==
  /\ tag = [name |-> tag.name, declared |-> tag.declared, data |-> tag.data, seen |-> tag.seen]
  /\ IsSeq(tag.declared) /\ IsSeq(tag.data)

TagShape ==
  /\ IsSeq(open) /\ IsSeq(ns.frames) /\ IsSeq(ns.bindings)
  /\ Len(open) = Depth /\ Len(ns.frames) = Depth
  /\ \A d \in 1..Depth : IsTag(open[d])

IsArena(arena) ==
  /\ arena = [words |-> arena.words, used |-> arena.used]
  /\ IsSeq(arena.words) /\ arena.used \in Nat

ArenaShape == IsSeq(namePath) /\ IsSeq(text) /\ IsArena(bits)

Shape == IsSeq(elements) /\ TagShape /\ ArenaShape /\ syntaxOnly \in BOOLEAN

(* Bindings and text are parted among the open elements.                   *)
BindingsInv == Parted(Depth, ns.frames, Len(ns.bindings), ns.bindings, Declared)

TextInv == ~syntaxOnly => Parted(Depth, TextMarks, Len(text), text, Data)

(* The path of names is that of the stack while identity is checked.       *)
NamePathInv ==
  namePath = IF syntaxOnly \/ ~HasIdentityConstraints THEN <<>>
             ELSE [d \in DOMAIN elements |-> elements[d].name]

(* The words of the frames follow each other, up to the last one in use.   *)
Words(d) == elements[d].frame.bitBase + elements[d].frame.bitLen

WordsInv ==
  /\ bits.used <= Len(bits.words)
  /\ \A d \in 1..Depth :
       /\ elements[d].frame.bitBase \in Nat /\ elements[d].frame.bitLen \in Nat
       /\ Words(d) <= bits.used
  /\ \A d, e \in 1..Depth : d < e => Words(d) <= elements[e].frame.bitBase

BitsInv == ~syntaxOnly => WordsInv /\ BitsAreOwn

IInv == Shape /\ BindingsInv /\ TextInv /\ NamePathInv /\ BitsInv

(* The fields of an arena of bits.                                         *)
LEMMA ArenaFacts ==
  ASSUME NEW words, IsSeq(words), NEW used \in Nat, NEW arena,
         arena = [words |-> words, used |-> used]
  PROVE  IsArena(arena) /\ arena.words = words /\ arena.used = used
<1>1. arena.words = words /\ arena.used = used
  OBVIOUS
<1>2. QED
  BY <1>1 DEF IsArena

-----------------------------------------------------------------------------
(* Steps that leave the stacks alone.                                      *)

(* A step that leaves the stacks and arenas alone keeps the invariant.     *)
LEMMA StacksUnchanged ==
  ASSUME IInv, UNCHANGED <<elements, ns.frames, ns.bindings, namePath, bits, text, open, syntaxOnly>>
  PROVE  IInv'
<1>1. Depth' = Depth /\ Data' = Data /\ Declared' = Declared /\ TextMarks' = TextMarks
  BY DEF Depth, Data, Declared, TextMarks
<1>2. TagShape' /\ BindingsInv'
  BY <1>1 DEF IInv, Shape, TagShape, BindingsInv, IsTag
<1>3. ArenaShape' /\ TextInv' /\ NamePathInv'
  BY <1>1 DEF IInv, Shape, ArenaShape, TextInv, NamePathInv, IsArena
<1>4. BitsInv'
  BY <1>1 DEF IInv, BitsInv, WordsInv, BitsAreOwn, Words, SeenIn
<1>5. QED
  BY <1>2, <1>3, <1>4 DEF IInv, Shape

(* Initially everything is empty.                                          *)
LEMMA InitIInv == Init => IInv
<1> SUFFICES ASSUME Init PROVE IInv
  OBVIOUS
<1>1. IsSeq(<<>>) /\ Len(<<>>) = 0
  BY EmptyIsSeq
<1>2. Depth = 0 /\ 1..Depth = {}
  BY <1>1 DEF Init, Depth
<1>3. Shape
  BY <1>1, <1>2, ArenaFacts DEF Init, Shape, TagShape, ArenaShape, Depth
<1>4. BindingsInv /\ TextInv
  BY <1>1, <1>2 DEF Init, BindingsInv, TextInv, Parted
<1>5. NamePathInv
  BY <1>1 DEF Init, NamePathInv
<1>6. BitsInv
  BY <1>1, <1>2 DEF Init, BitsInv, WordsInv, BitsAreOwn
<1>7. QED
  BY <1>3, <1>4, <1>5, <1>6 DEF IInv

(* An error that ends the call leaves the stacks as they are               *)
(* (session.parseError).                                                   *)
LEMMA FailWithKeeps ==
  ASSUME IInv, NEW kind, NEW stack, stack.frames = ns.frames, stack.bindings = ns.bindings,
         FailWith(kind, stack)
  PROVE  IInv'
BY StacksUnchanged DEF FailWith, arenas

(* So does one that touches no namespace.                                  *)
LEMMA FailKeeps ==
  ASSUME IInv, NEW kind, Fail(kind)
  PROVE  IInv'
BY FailWithKeeps DEF Fail

(* The end of the input, and text outside of the root.                     *)
LEMMA EndOfInputKeeps ==
  ASSUME IInv, EndOfInput
  PROVE  IInv'
BY StacksUnchanged DEF EndOfInput, xml, arenas

(* Reset empties everything but the words of the bits, which it keeps      *)
(* (session.reset).                                                        *)
LEMMA ResetStarts ==
  ASSUME IInv, Reset
  PROVE  IInv'
<1>1. IsSeq(<<>>) /\ Len(<<>>) = 0
  BY EmptyIsSeq
<1>2. Depth' = 0 /\ 1..0 = {}
  BY <1>1 DEF Reset, Depth
<1>3. /\ bits' = [words |-> bits.words, used |-> 0]
      /\ bits'.words = bits.words /\ bits'.used = 0
  BY DEF Reset, IInv, Shape, ArenaShape, IsArena
<1>4. Len(bits.words) \in Nat /\ IsSeq(bits.words)
  BY SeqFacts DEF IInv, Shape, ArenaShape, IsArena
<1>5. Shape'
  <2>1. TagShape'
    BY <1>1, <1>2 DEF Reset, TagShape
  <2>2. ArenaShape'
    <3>1. IsSeq(namePath') /\ IsSeq(text')
      BY <1>1 DEF Reset
    <3>2. IsArena(bits')
      BY <1>3, <1>4, ArenaFacts
    <3>3. QED
      BY <3>1, <3>2 DEF ArenaShape, IsArena
  <2>3. QED
    BY <1>1, <2>1, <2>2 DEF Reset, Shape
<1>6. BindingsInv' /\ TextInv'
  BY <1>1, <1>2 DEF Reset, BindingsInv, TextInv, Parted
<1>7. NamePathInv'
  BY <1>1 DEF Reset, NamePathInv
<1>8. BitsInv'
  BY <1>2, <1>3, <1>4 DEF BitsInv, WordsInv, BitsAreOwn, Reset
<1>9. QED
  BY <1>5, <1>6, <1>7, <1>8 DEF IInv

-----------------------------------------------------------------------------
(* What a start tag and an end tag do to the bindings.                     *)

(* The bindings of a tag that is accepted are pushed (PushStream) ...      *)
LEMMA PushStreamFacts ==
  ASSUME NEW name, NEW attrs, Preparable(name, attrs)
  PROVE  PushStream(attrs) = [frames |-> Append(ns.frames, Len(ns.bindings)),
                              bindings |-> Pushed(attrs)]
BY DEF Preparable, PushStream

(* ... those of the last open element are popped (Pop) ...                 *)
LEMMA PopFacts ==
  ASSUME IInv, elements # <<>>
  PROVE  Pop(ns) = [frames |-> Front(ns.frames), bindings |-> SubSeq(ns.bindings, 1, Last(ns.frames))]
<1>1. ns.frames # <<>>
  BY SeqFacts DEF IInv, Shape, TagShape, Depth
<1>2. QED
  BY <1>1 DEF Pop

(* ... and a tag that fails leaves what was there, whether it fails at a   *)
(* declaration or at a later check (appendBinding, PrepareStart and        *)
(* AbortStart).                                                            *)
LEMMA RollbackFacts ==
  ASSUME IInv, NEW attrs \in Tags
  PROVE  /\ RolledBack(attrs).frames = ns.frames /\ RolledBack(attrs).bindings = ns.bindings
         /\ Declarable(attrs) => RolledBack(attrs) = Pop(PushStream(attrs))
<1> DEFINE k == Len(ns.bindings)
           cut == SubSeq(Pushed(attrs), 1, k)
           stack == Append(ns.frames, k)
           old == ns.frames
           arena == ns.bindings
<1>1. IsSeq(old) /\ IsSeq(arena)
  BY DEF IInv, Shape, TagShape
<1>2. IsSeq(Declarations(attrs))
  BY TagsAssumption, DeclarationFacts DEF IsScan
<1>3. cut = arena
  <2> DEFINE new == Declarations(attrs)
             pushed == Pushed(attrs)
  <2>1. Len(arena) \in Nat /\ Len(new) \in Nat
    BY <1>1, <1>2, SeqFacts
  <2>2. pushed = arena \o new
    BY DEF Pushed
  <2> HIDE DEF new, pushed
  <2>3. /\ IsSeq(pushed) /\ Len(pushed) = Len(arena) + Len(new)
        /\ \A i \in 1..Len(arena) : pushed[i] = arena[i]
    BY <1>1, <1>2, <2>2, ConcatFacts DEF new
  <2>4. IsSeq(pushed) /\ k \in 0..Len(pushed) /\ \A i \in 1..k : pushed[i] = arena[i]
    BY <2>1, <2>3
  <2>5. IsSeq(cut) /\ Len(cut) = k /\ \A i \in 1..k : cut[i] = arena[i]
    BY <2>4, PrefixFacts DEF pushed
  <2> HIDE DEF cut
  <2>6. QED
    BY <1>1, <2>5, SameSeq
<1>4. stack # <<>> /\ Front(stack) = old /\ Last(stack) = k
  <2>1. /\ IsSeq(stack) /\ Len(stack) = Len(old) + 1 /\ stack[Len(old) + 1] = k
        /\ \A d \in 1..Len(old) : stack[d] = old[d]
    BY <1>1, AppendFacts
  <2>2. Len(old) \in Nat /\ stack # <<>>
    <3>1. Len(old) \in Nat
      BY <1>1, SeqFacts
    <3> HIDE DEF stack, old
    <3>2. Len(stack) # 0
      BY <2>1, <3>1
    <3>3. QED
      BY <2>1, <3>1, <3>2, SeqFacts
  <2> HIDE DEF stack
  <2>3. /\ IsSeq(Front(stack)) /\ Len(Front(stack)) = Len(old)
        /\ \A d \in 1..Len(old) : Front(stack)[d] = old[d]
        /\ Last(stack) = k
    BY <2>1, <2>2, FrontFacts
  <2>4. QED
    BY <1>1, <2>2, <2>3, SameSeq
<1>5. CASE Declarable(attrs)
  <2>1. PushStream(attrs) = [frames |-> stack, bindings |-> Pushed(attrs)]
    BY <1>5 DEF PushStream
  <2> HIDE DEF cut, stack, k
  <2>2. PushStream(attrs).frames = stack /\ PushStream(attrs).bindings = Pushed(attrs)
    BY <2>1
  <2>3. Pop(PushStream(attrs)) = [frames |-> old, bindings |-> arena]
    BY <1>3, <1>4, <2>2 DEF Pop, cut
  <2>4. QED
    BY <1>5, <2>3 DEF RolledBack
<1>6. CASE ~Declarable(attrs)
  <2>1. RolledBack(attrs) = [frames |-> old, bindings |-> cut]
    BY <1>6 DEF RolledBack, PushStream
  <2>2. QED
    BY <1>3, <1>6, <2>1
<1>7. QED
  BY <1>5, <1>6

(* A start tag pushes the bindings it declares, whatever is recorded of    *)
(* its parent meanwhile.                                                   *)
LEMMA TagOpened ==
  ASSUME IInv, NEW name, NEW attrs \in Tags, Depth' = Depth + 1,
         NEW before, IsSeq(before), Len(before) = Depth,
         \A d \in 1..Depth : IsTag(before[d]) /\ before[d].declared = open[d].declared,
         ns' = [frames |-> Append(ns.frames, Len(ns.bindings)), bindings |-> Pushed(attrs)],
         open' = Append(before, Told(name, attrs))
  PROVE  TagShape' /\ BindingsInv'
<1> DEFINE new == Declarations(attrs)
<1>1. IsSeq(new) /\ Len(new) \in Nat
  BY TagsAssumption, DeclarationFacts, SeqFacts DEF IsScan
<1>2. Pushed(attrs) = ns.bindings \o new
  BY DEF Pushed
<1>3. Told(name, attrs) = [name |-> name, declared |-> new, data |-> <<>>, seen |-> {}]
  BY DEF Told
<1> HIDE DEF new
<1>4. /\ IsSeq(ns.frames) /\ IsSeq(ns.bindings) /\ Len(ns.frames) = Depth
      /\ Depth \in Nat /\ Len(ns.bindings) \in Nat
  BY SeqFacts DEF IInv, Shape, TagShape
<1>5. /\ IsSeq(ns'.frames) /\ Len(ns'.frames) = Depth + 1
      /\ \A d \in 1..Depth : ns'.frames[d] = ns.frames[d]
      /\ ns'.frames[Depth + 1] = Len(ns.bindings)
  BY <1>4, AppendFacts
<1>6. /\ IsSeq(ns'.bindings) /\ Len(ns'.bindings) = Len(ns.bindings) + Len(new)
      /\ \A i \in 1..Len(ns.bindings) : ns'.bindings[i] = ns.bindings[i]
      /\ \A i \in 1..Len(new) : ns'.bindings[Len(ns.bindings) + i] = new[i]
  BY <1>1, <1>2, <1>4, ConcatFacts
<1>7. /\ IsSeq(open') /\ Len(open') = Depth + 1
      /\ \A d \in 1..Depth : open'[d] = before[d]
      /\ open'[Depth + 1] = Told(name, attrs)
  BY AppendFacts
<1>8. IsTag(Told(name, attrs)) /\ Told(name, attrs).declared = new
  BY <1>1, <1>3, EmptyIsSeq DEF IsTag
<1>9. TagShape'
  <2>1. ASSUME NEW d \in 1..Depth + 1
        PROVE  IsTag(open'[d])
    <3>1. CASE d = Depth + 1
      BY <1>7, <1>8, <3>1
    <3>2. CASE d # Depth + 1
      BY <1>4, <1>7, <3>2
    <3>3. QED
      BY <3>1, <3>2
  <2>2. ASSUME NEW d \in 1..Depth'
        PROVE  IsTag(open'[d]) /\ IsTag(open[d])'
    BY <2>1 DEF IsTag
  <2>3. QED
    BY <1>5, <1>6, <1>7, <2>2 DEF TagShape
<1>10. /\ \A d \in 1..Depth : Declared'[d] = Declared[d]
       /\ Declared'[Depth + 1] = new
  <2>1. \A d \in 1..Depth + 1 : Declared'[d] = open'[d].declared
    BY DEF Declared
  <2>2. \A d \in 1..Depth : Declared[d] = open[d].declared
    BY DEF Declared
  <2>3. Declared'[Depth + 1] = new
    BY <1>4, <1>7, <1>8, <2>1
  <2>4. ASSUME NEW d \in 1..Depth
        PROVE  Declared'[d] = Declared[d]
    <3>1. d \in 1..Depth + 1 /\ open'[d] = before[d] /\ before[d].declared = open[d].declared
      BY <1>4, <1>7
    <3>2. QED
      BY <2>1, <2>2, <3>1
  <2>5. QED
    BY <2>3, <2>4
<1>11. Parted(Depth + 1, ns'.frames, Len(ns.bindings) + Len(new), ns'.bindings, Declared')
  <2> DEFINE n == Depth
             k == Len(ns.bindings)
             marks == ns.frames
             arena == ns.bindings
             parts == Declared
             marks2 == ns'.frames
             arena2 == ns'.bindings
             parts2 == Declared'
             l == Len(new)
  <2>1. n \in Nat /\ k \in Nat /\ l \in Nat /\ Parted(n, marks, k, arena, parts)
    BY <1>1, <1>4 DEF IInv, BindingsInv
  <2>2. SameEntries(n, marks, parts, marks2, parts2)
    BY <1>5, <1>10 DEF SameEntries
  <2>3. SameValues(k, arena, arena2)
    BY <1>6 DEF SameValues
  <2>4. IsEntry(n + 1, marks2, k, l, arena2, parts2)
    BY <1>5, <1>6, <1>10 DEF IsEntry
  <2> HIDE DEF n, k, marks, arena, parts, marks2, arena2, parts2, l
  <2>5. Parted(n + 1, marks2, k + l, arena2, parts2)
    BY <2>1, <2>2, <2>3, <2>4, PartedPush
  <2>6. QED
    BY <2>5 DEF n, k, marks2, arena2, parts2, l
<1>12. BindingsInv'
  BY <1>6, <1>11 DEF BindingsInv
<1>13. QED
  BY <1>9, <1>12

(* An end tag gives back the bindings of the element it closes.            *)
LEMMA TagClosed ==
  ASSUME IInv, elements # <<>>, Depth' = Depth - 1,
         ns' = [frames |-> Front(ns.frames), bindings |-> SubSeq(ns.bindings, 1, Last(ns.frames))],
         open' = Front(open)
  PROVE  TagShape' /\ BindingsInv'
<1> DEFINE n == Depth
           k == Len(ns.bindings)
           marks == ns.frames
           arena == ns.bindings
           parts == Declared
           marks2 == ns'.frames
           arena2 == ns'.bindings
           parts2 == Declared'
<1>1. /\ IsSeq(marks) /\ IsSeq(arena) /\ IsSeq(open) /\ Len(marks) = n /\ Len(open) = n
      /\ n \in Nat \ {0} /\ k \in Nat /\ marks # <<>> /\ open # <<>>
  BY SeqFacts DEF IInv, Shape, TagShape, Depth
<1>2. Parted(n, marks, k, arena, parts)
  BY DEF IInv, BindingsInv
<1>3. marks[n] \in 0..k
  BY <1>1, <1>2 DEF Parted
<1>4. /\ IsSeq(marks2) /\ Len(marks2) = n - 1 /\ \A d \in 1..n - 1 : marks2[d] = marks[d]
      /\ Last(marks) = marks[n]
  BY <1>1, FrontFacts
<1>5. IsSeq(arena2) /\ Len(arena2) = marks[n] /\ SameValues(marks[n], arena, arena2)
  BY <1>1, <1>3, <1>4, PrefixFacts DEF SameValues
<1>6. IsSeq(open') /\ Len(open') = n - 1 /\ \A d \in 1..n - 1 : open'[d] = open[d]
  BY <1>1, FrontFacts
<1>7. \A d \in 1..n - 1 : d \in 1..n /\ d \in 1..Depth' /\ IsTag(open[d])
  BY <1>1 DEF IInv, Shape, TagShape
<1>8. TagShape'
  <2>1. ASSUME NEW d \in 1..Depth'
        PROVE  IsTag(open[d])'
    BY <1>6, <1>7 DEF IsTag
  <2>2. QED
    BY <1>4, <1>5, <1>6, <2>1 DEF TagShape
<1>9. SameEntries(n - 1, marks, parts, marks2, parts2)
  <2>1. ASSUME NEW d \in 1..n - 1
        PROVE  parts2[d] = parts[d]
    <3>1. parts2[d] = open'[d].declared /\ parts[d] = open[d].declared
      BY <1>7 DEF Declared
    <3>2. QED
      BY <1>6, <3>1
  <2>2. QED
    BY <1>4, <2>1 DEF SameEntries
<1> HIDE DEF n, k, marks, arena, parts, marks2, arena2, parts2
<1>10. Parted(n - 1, marks2, marks[n], arena2, parts2)
  BY <1>1, <1>2, <1>5, <1>9, PartedPop
<1>11. BindingsInv'
  BY <1>5, <1>10 DEF BindingsInv, n, marks2, arena2, parts2
<1>12. QED
  BY <1>8, <1>11

-----------------------------------------------------------------------------
(* The stop of the semantic check drops the arenas.                        *)

(* When the assessment stops the stack is kept, and nothing is said of the *)
(* arenas any more.                                                        *)
LEMMA SemanticsDropped ==
  ASSUME NEW stack, IsSeq(stack), Discard(stack), syntaxOnly', TagShape', BindingsInv'
  PROVE  IInv'
<1>1. IsSeq(elements')
  <2>1. Len(stack) \in Nat /\ DOMAIN stack = 1..Len(stack)
    BY SeqFacts
  <2>2. elements' = [i \in 1..Len(stack) |-> elements'[i]]
    BY <2>1 DEF Discard
  <2>3. QED
    BY <2>1, <2>2, MapFacts
<1>2. ArenaShape' /\ NamePathInv'
  <2>1. IsArena(bits')
    BY EmptyIsSeq, ArenaFacts DEF Discard
  <2>2. QED
    BY <2>1, EmptyIsSeq DEF Discard, ArenaShape, NamePathInv, IsArena
<1>3. TextInv' /\ BitsInv'
  BY DEF TextInv, BitsInv
<1>4. QED
  BY <1>1, <1>2, <1>3 DEF IInv, Shape

(* Dropping the semantic state keeps the depth.                            *)
LEMMA DroppedDepth ==
  ASSUME NEW stack, IsSeq(stack), Discard(stack)
  PROVE  Depth' = Len(stack)
<1>1. Len(stack) \in Nat /\ DOMAIN stack = 1..Len(stack)
  BY SeqFacts
<1>2. elements' = [i \in 1..Len(stack) |-> elements'[i]]
  BY <1>1 DEF Discard
<1>3. QED
  BY <1>1, <1>2, MapFacts DEF Depth

-----------------------------------------------------------------------------
(* What the start and the end of an element do to the element stack, to    *)
(* the names of the path and to the text.                                  *)

(* The stack of elements after a push ...                                  *)
LEMMA ElementOpened ==
  ASSUME IsSeq(elements), NEW e, elements' = Append(elements, e)
  PROVE  /\ IsSeq(elements') /\ Depth \in Nat /\ Depth' = Depth + 1
         /\ \A d \in 1..Depth : elements'[d] = elements[d]
         /\ elements'[Depth + 1] = e
BY AppendFacts, SeqFacts DEF Depth

(* ... and after a pop.                                                    *)
LEMMA ElementClosed ==
  ASSUME IsSeq(elements), elements # <<>>, elements' = Front(elements)
  PROVE  /\ IsSeq(elements') /\ Depth \in Nat \ {0} /\ Depth' = Depth - 1
         /\ \A d \in 1..Depth - 1 : elements'[d] = elements[d]
         /\ Top = elements[Depth]
BY FrontFacts DEF Depth, Top

(* A start tag appends the name of the element to the path of names.       *)
LEMMA NameOpened ==
  ASSUME IInv, ~syntaxOnly, NEW e, elements' = Append(elements, e), ~syntaxOnly',
         namePath' = IF HasIdentityConstraints THEN Append(namePath, e.name) ELSE namePath
  PROVE  NamePathInv' /\ IsSeq(namePath')
<1>1. CASE ~HasIdentityConstraints
  BY <1>1, EmptyIsSeq DEF IInv, NamePathInv
<1>2. CASE HasIdentityConstraints
  <2> DEFINE names == [d \in DOMAIN elements' |-> elements'[d].name]
  <2>1. /\ IsSeq(elements) /\ DOMAIN elements = 1..Depth /\ Depth \in Nat
        /\ IsSeq(elements') /\ DOMAIN elements' = 1..Depth + 1
        /\ \A d \in 1..Depth : elements'[d] = elements[d]
        /\ elements'[Depth + 1] = e
    BY ElementOpened, SeqFacts DEF IInv, Shape, Depth
  <2>2. IsSeq(namePath) /\ namePath = [d \in 1..Depth |-> elements[d].name]
    BY <1>2, <2>1 DEF IInv, Shape, ArenaShape, NamePathInv
  <2>3. Len(namePath) = Depth
    BY <2>1, <2>2, MapFacts
  <2>4. /\ IsSeq(namePath') /\ Len(namePath') = Depth + 1
        /\ \A d \in 1..Depth : namePath'[d] = elements[d].name
        /\ namePath'[Depth + 1] = e.name
    <3>1. namePath' = Append(namePath, e.name) /\ IsSeq(namePath) /\ Len(namePath) = Depth
      BY <1>2, <2>2, <2>3
    <3>2. /\ IsSeq(namePath') /\ Len(namePath') = Depth + 1
          /\ \A d \in 1..Depth : namePath'[d] = namePath[d]
          /\ namePath'[Depth + 1] = e.name
      BY <3>1, AppendFacts
    <3>3. \A d \in 1..Depth : namePath[d] = elements[d].name
      BY <2>2
    <3>4. QED
      BY <3>2, <3>3
  <2>5. names = [d \in 1..Depth + 1 |-> names[d]]
    BY <2>1
  <2>6. IsSeq(names) /\ Len(names) = Depth + 1
    <3>1. Depth + 1 \in Nat
      BY <2>1
    <3> HIDE DEF names
    <3>2. QED
      BY <2>5, <3>1, MapFacts
  <2>7. \A d \in 1..Depth + 1 : namePath'[d] = names[d]
    BY <2>1, <2>4
  <2>8. namePath' = names
    <3> HIDE DEF names
    <3>1. QED
      BY <2>4, <2>6, <2>7, SameSeq
  <2>9. QED
    BY <1>2, <2>4, <2>8 DEF NamePathInv
<1>3. QED
  BY <1>1, <1>2

(* An end tag removes the name of the element from the path of names.      *)
LEMMA NameClosed ==
  ASSUME IInv, ~syntaxOnly, elements # <<>>, elements' = Front(elements), ~syntaxOnly',
         namePath' = IF HasIdentityConstraints THEN Front(namePath) ELSE namePath
  PROVE  NamePathInv' /\ IsSeq(namePath')
<1>1. CASE ~HasIdentityConstraints
  BY <1>1, EmptyIsSeq DEF IInv, NamePathInv
<1>2. CASE HasIdentityConstraints
  <2> DEFINE names == [d \in DOMAIN elements' |-> elements'[d].name]
  <2>1. /\ IsSeq(elements) /\ DOMAIN elements = 1..Depth /\ Depth \in Nat \ {0}
        /\ IsSeq(elements') /\ DOMAIN elements' = 1..Depth - 1
        /\ \A d \in 1..Depth - 1 : elements'[d] = elements[d]
    BY ElementClosed, SeqFacts DEF IInv, Shape, Depth
  <2>2. IsSeq(namePath) /\ namePath = [d \in 1..Depth |-> elements[d].name]
    BY <1>2, <2>1 DEF IInv, Shape, ArenaShape, NamePathInv
  <2>3. Len(namePath) = Depth /\ namePath # <<>>
    BY <2>1, <2>2, MapFacts, EmptyIsSeq
  <2>4. /\ IsSeq(namePath') /\ Len(namePath') = Depth - 1
        /\ \A d \in 1..Depth - 1 : namePath'[d] = elements[d].name
    <3>1. namePath' = Front(namePath) /\ IsSeq(namePath) /\ Len(namePath) = Depth /\ namePath # <<>>
      BY <1>2, <2>2, <2>3
    <3>2. /\ IsSeq(namePath') /\ Len(namePath') = Depth - 1
          /\ \A d \in 1..Depth - 1 : namePath'[d] = namePath[d]
      BY <3>1, FrontFacts
    <3>3. \A d \in 1..Depth - 1 : d \in 1..Depth /\ namePath[d] = elements[d].name
      BY <2>1, <2>2
    <3>4. QED
      BY <3>2, <3>3
  <2>5. names = [d \in 1..Depth - 1 |-> names[d]]
    BY <2>1
  <2>6. IsSeq(names) /\ Len(names) = Depth - 1
    <3>1. Depth - 1 \in Nat
      BY <2>1
    <3> HIDE DEF names
    <3>2. QED
      BY <2>5, <3>1, MapFacts
  <2>7. \A d \in 1..Depth - 1 : namePath'[d] = names[d]
    BY <2>1, <2>4
  <2>8. namePath' = names
    <3> HIDE DEF names
    <3>1. QED
      BY <2>4, <2>6, <2>7, SameSeq
  <2>9. QED
    BY <1>2, <2>4, <2>8 DEF NamePathInv
<1>3. QED
  BY <1>1, <1>2

(* A new element has no text, behind that of the elements around it.       *)
LEMMA TextOpened ==
  ASSUME IInv, ~syntaxOnly, NEW e, elements' = Append(elements, e),
         e.frame.textStart = Len(text), text' = text,
         NEW before, IsSeq(before), Len(before) = Depth,
         \A d \in 1..Depth : before[d].data = open[d].data,
         NEW tag, tag.data = <<>>, open' = Append(before, tag)
  PROVE  TextInv'
<1> DEFINE n == Depth
           k == Len(text)
           marks == TextMarks
           parts == Data
           marks2 == TextMarks'
           parts2 == Data'
<1>1. /\ IsSeq(text) /\ k \in Nat /\ n \in Nat /\ Depth' = n + 1
      /\ \A d \in 1..n : elements'[d] = elements[d]
      /\ elements'[n + 1] = e
  BY SeqFacts, ElementOpened DEF IInv, Shape, ArenaShape
<1>2. Parted(n, marks, k, text, parts)
  BY DEF IInv, TextInv
<1>3. \A d \in 1..n : open'[d] = before[d]
  BY AppendFacts
<1>4. open'[n + 1] = tag
  BY AppendFacts
<1>5. ASSUME NEW d \in 1..n
      PROVE  marks2[d] = marks[d] /\ parts2[d] = parts[d]
  <2>1. d \in 1..n + 1
    BY <1>1
  <2>2. marks2[d] = elements'[d].frame.textStart /\ parts2[d] = open'[d].data
    BY <1>1, <2>1 DEF TextMarks, Data
  <2>3. marks[d] = elements[d].frame.textStart /\ parts[d] = open[d].data
    BY DEF TextMarks, Data
  <2>4. QED
    BY <1>1, <1>3, <2>2, <2>3
<1>6. marks2[n + 1] = k /\ parts2[n + 1] = <<>>
  <2>1. n + 1 \in 1..Depth'
    BY <1>1
  <2>2. marks2[n + 1] = elements'[n + 1].frame.textStart /\ parts2[n + 1] = open'[n + 1].data
    BY <2>1 DEF TextMarks, Data
  <2>3. QED
    BY <1>1, <1>4, <2>2
<1>7. SameEntries(n, marks, parts, marks2, parts2)
  BY <1>5 DEF SameEntries
<1>8. IsEntry(n + 1, marks2, k, 0, text, parts2)
  BY <1>6, EmptyIsSeq DEF IsEntry
<1>9. SameValues(k, text, text) /\ 0 \in Nat /\ k + 0 = k
  BY <1>1 DEF SameValues
<1> HIDE DEF n, k, marks, parts, marks2, parts2
<1>10. Parted(n + 1, marks2, k + 0, text, parts2)
  BY <1>1, <1>2, <1>7, <1>8, <1>9, PartedPush
<1>11. QED
  BY <1>1, <1>9, <1>10 DEF TextInv, n, k, marks2, parts2

(* A closed element gives its text back.                                   *)
LEMMA TextClosed ==
  ASSUME IInv, ~syntaxOnly, elements # <<>>, elements' = Front(elements),
         text' = SubSeq(text, 1, Top.frame.textStart), open' = Front(open)
  PROVE  TextInv' /\ IsSeq(text')
<1> DEFINE n == Depth
           k == Len(text)
           marks == TextMarks
           parts == Data
           marks2 == TextMarks'
           parts2 == Data'
<1>1. /\ IsSeq(text) /\ k \in Nat /\ n \in Nat \ {0} /\ Depth' = n - 1
      /\ \A d \in 1..n - 1 : elements'[d] = elements[d]
      /\ Top = elements[n]
  BY SeqFacts, ElementClosed DEF IInv, Shape, ArenaShape
<1>2. Parted(n, marks, k, text, parts)
  BY DEF IInv, TextInv
<1>3. marks[n] \in 0..k /\ marks[n] = Top.frame.textStart
  BY <1>1, <1>2 DEF Parted, TextMarks
<1>4. IsSeq(text') /\ Len(text') = marks[n] /\ SameValues(marks[n], text, text')
  BY <1>1, <1>3, PrefixFacts DEF SameValues
<1>5. \A d \in 1..n - 1 : open'[d] = open[d]
  <2>1. IsSeq(open) /\ Len(open) = n /\ open # <<>>
    BY <1>1, SeqFacts DEF IInv, Shape, TagShape
  <2>2. QED
    BY <2>1, FrontFacts
<1>6. ASSUME NEW d \in 1..n - 1
      PROVE  marks2[d] = marks[d] /\ parts2[d] = parts[d]
  <2>1. d \in 1..n
    BY <1>1
  <2>2. marks2[d] = elements'[d].frame.textStart /\ parts2[d] = open'[d].data
    BY <1>1 DEF TextMarks, Data
  <2>3. marks[d] = elements[d].frame.textStart /\ parts[d] = open[d].data
    BY <2>1 DEF TextMarks, Data
  <2>4. QED
    BY <1>1, <1>5, <2>2, <2>3
<1>7. SameEntries(n - 1, marks, parts, marks2, parts2)
  BY <1>6 DEF SameEntries
<1> HIDE DEF n, k, marks, parts, marks2, parts2
<1>8. Parted(n - 1, marks2, marks[n], text', parts2)
  BY <1>1, <1>2, <1>4, <1>7, PartedPop
<1>9. QED
  BY <1>1, <1>4, <1>8 DEF TextInv, marks2, parts2

-----------------------------------------------------------------------------
(* Occurrence bits.                                                        *)

(* What a frame has seen is in its own words only.                         *)
LEMMA SameWords ==
  ASSUME NEW f, NEW f2, f.bitBase = f2.bitBase, f.bitLen = f2.bitLen, NEW words, NEW words2,
         \A w \in 1..f.bitLen : words2[f.bitBase + w] = words[f.bitBase + w]
  PROVE  SeenIn(f2, words2) = SeenIn(f, words)
BY DEF SeenIn

(* Empty words have seen nothing.                                          *)
LEMMA EmptyWords ==
  ASSUME NEW f, NEW words, \A w \in 1..f.bitLen : words[f.bitBase + w] = {}
  PROVE  SeenIn(f, words) = {}
BY DEF SeenIn

(* A particle has been seen if its bit is set in a word of the frame.      *)
LEMMA SeenMember ==
  ASSUME NEW f, NEW words, NEW x
  PROVE  x \in SeenIn(f, words) <=> \E w \in 1..f.bitLen : \E k \in words[f.bitBase + w] : x = <<w, k>>
BY DEF SeenIn

(* The words of a frame differ by the particle p of the word u.            *)
MarkedIn(f, words, words2, u, p) ==
  \A w \in 1..f.bitLen :
    words2[f.bitBase + w] = IF w = u THEN words[f.bitBase + w] \union {p} ELSE words[f.bitBase + w]

(* To set one bit adds one particle.                                       *)
LEMMA MarkedWord ==
  ASSUME NEW f, NEW words, NEW words2, NEW u, NEW p,
         MarkedIn(f, words, words2, u, p), f.bitBase \in Nat, u \in 1..f.bitLen
  PROVE  SeenIn(f, words2) = SeenIn(f, words) \union {<<u, p>>}
<1> USE DEF MarkedIn
<1>1. ASSUME NEW x \in SeenIn(f, words2)
      PROVE  x \in SeenIn(f, words) \union {<<u, p>>}
  <2>1. PICK w \in 1..f.bitLen : \E k \in words2[f.bitBase + w] : x = <<w, k>>
    BY SeenMember
  <2>2. PICK k \in words2[f.bitBase + w] : x = <<w, k>>
    BY <2>1
  <2>3. CASE k \in words[f.bitBase + w]
    BY <2>2, <2>3, SeenMember
  <2>4. CASE k \notin words[f.bitBase + w]
    <3>1. w = u /\ k = p
      BY <2>2, <2>4
    <3>2. QED
      BY <2>2, <3>1
  <2>5. QED
    BY <2>3, <2>4
<1>2. ASSUME NEW x \in SeenIn(f, words)
      PROVE  x \in SeenIn(f, words2)
  <2>1. PICK w \in 1..f.bitLen : \E k \in words[f.bitBase + w] : x = <<w, k>>
    BY SeenMember
  <2>2. PICK k \in words[f.bitBase + w] : x = <<w, k>>
    BY <2>1
  <2>3. k \in words2[f.bitBase + w]
    BY <2>2
  <2>4. QED
    BY <2>2, <2>3, SeenMember
<1>3. <<u, p>> \in SeenIn(f, words2)
  <2>1. p \in words2[f.bitBase + u]
    OBVIOUS
  <2>2. QED
    BY <2>1, SeenMember
<1>4. QED
  BY <1>1, <1>2, <1>3

(* The array keeps the words in use and adds empty ones.                   *)
LEMMA GrownFacts ==
  ASSUME IsSeq(bits.words), bits.used \in Nat, bits.used <= Len(bits.words), NEW length \in Nat
  PROVE  /\ IsArena(Grown(length)) /\ bits.used + length <= Len(Grown(length).words)
         /\ Grown(length).used = bits.used + length
         /\ \A i \in 1..bits.used : Grown(length).words[i] = bits.words[i]
         /\ \A i \in bits.used + 1..bits.used + length : Grown(length).words[i] = {}
<1> DEFINE last == bits.used + length
           size == IF last <= Len(bits.words) THEN Len(bits.words) ELSE last
           words == [i \in 1..size |-> IF i \in bits.used + 1..last THEN {} ELSE bits.words[i]]
<1>1. Len(bits.words) \in Nat /\ last \in Nat /\ size \in Nat /\ last <= size
  BY SeqFacts
<1>2. Grown(length) = [words |-> words, used |-> last]
  BY DEF Grown
<1>3. \A i \in 1..bits.used : words[i] = bits.words[i]
  BY <1>1
<1>4. \A i \in bits.used + 1..last : words[i] = {}
  BY <1>1
<1>5. words = [i \in 1..size |-> words[i]]
  BY <1>1
<1>6. IsSeq(words) /\ Len(words) = size
  <2> HIDE DEF words, size
  <2>1. QED
    BY <1>1, <1>5, MapFacts
<1> HIDE DEF words, size
<1>7. IsArena(Grown(length)) /\ Grown(length).words = words /\ Grown(length).used = last
  BY <1>1, <1>2, <1>6, ArenaFacts
<1>8. QED
  BY <1>1, <1>3, <1>4, <1>6, <1>7

(* The words of a frame are in use, and end before those of a frame above  *)
(* it begin.                                                               *)
LEMMA WordsFacts ==
  ASSUME WordsInv, NEW d \in 1..Depth
  PROVE  /\ elements[d].frame.bitBase \in Nat /\ elements[d].frame.bitLen \in Nat
         /\ elements[d].frame.bitBase + elements[d].frame.bitLen <= bits.used
         /\ \A e \in 1..Depth : d < e =>
              elements[d].frame.bitBase + elements[d].frame.bitLen <= elements[e].frame.bitBase
BY DEF WordsInv, Words

(* The end of an element gives its words back.                             *)
LEMMA BitsClosed ==
  ASSUME IInv, ~syntaxOnly, elements # <<>>, elements' = Front(elements),
         open' = Front(open), bits' = [bits EXCEPT !.used = Top.frame.bitBase]
  PROVE  BitsInv' /\ IsArena(bits')
<1> DEFINE n == Depth
<1>1. /\ n \in Nat \ {0} /\ Depth' = n - 1
      /\ \A d \in 1..n - 1 : elements'[d] = elements[d] /\ d \in 1..n
      /\ DOMAIN elements = 1..n /\ DOMAIN elements' = 1..n - 1
      /\ Top = elements[n] /\ n \in 1..n
  BY SeqFacts, ElementClosed DEF IInv, Shape, Depth
<1>2. IsSeq(bits.words) /\ bits.used \in Nat /\ Len(bits.words) \in Nat
  BY SeqFacts DEF IInv, Shape, ArenaShape, IsArena
<1>3. WordsInv /\ BitsAreOwn
  BY DEF IInv, BitsInv
<1>4. /\ bits'.words = bits.words /\ bits'.used = elements[n].frame.bitBase
      /\ bits' = [words |-> bits.words, used |-> elements[n].frame.bitBase]
  BY <1>1 DEF IInv, Shape, ArenaShape, IsArena
<1>5. \A d \in 1..n - 1 : open'[d] = open[d]
  <2>1. IsSeq(open) /\ Len(open) = n /\ open # <<>>
    BY <1>1, SeqFacts DEF IInv, Shape, TagShape
  <2>2. QED
    BY <2>1, FrontFacts
<1>6. elements[n].frame.bitBase \in Nat /\ elements[n].frame.bitBase <= bits.used
  BY <1>1, <1>2, <1>3, WordsFacts
<1>7. bits.used <= Len(bits.words)
  BY <1>3 DEF WordsInv
<1>8. ASSUME NEW d \in 1..n - 1
      PROVE  /\ elements'[d].frame.bitBase \in Nat /\ elements'[d].frame.bitLen \in Nat
             /\ elements'[d].frame.bitBase + elements'[d].frame.bitLen <= bits'.used
             /\ \A e \in 1..n - 1 : d < e =>
                  elements'[d].frame.bitBase + elements'[d].frame.bitLen <= elements'[e].frame.bitBase
  <2>1. d \in 1..n /\ elements'[d] = elements[d] /\ d < n
    BY <1>1
  <2>2. QED
    BY <1>1, <1>3, <1>4, <2>1, WordsFacts
<1>9. WordsInv'
  BY <1>1, <1>2, <1>4, <1>6, <1>7, <1>8 DEF WordsInv, Words
<1>10. ASSUME NEW d \in 1..n - 1
       PROVE  /\ elements'[d].frame.bitBase + elements'[d].frame.bitLen =
                   IF d = n - 1 THEN bits'.used ELSE elements'[d + 1].frame.bitBase
              /\ open'[d].seen = SeenIn(elements'[d].frame, bits'.words)
  <2>1. /\ elements[d].frame.bitBase + elements[d].frame.bitLen = elements[d + 1].frame.bitBase
        /\ open[d].seen = SeenIn(elements[d].frame, bits.words)
    BY <1>1, <1>3 DEF BitsAreOwn
  <2>2. d + 1 = n \/ d + 1 \in 1..n - 1
    BY <1>1
  <2>3. QED
    BY <1>1, <1>4, <1>5, <2>1, <2>2
<1>11. BitsAreOwn'
  BY <1>1, <1>10 DEF BitsAreOwn
<1>12. QED
  BY <1>2, <1>4, <1>6, <1>9, <1>11, ArenaFacts DEF BitsInv

(* The start of an element marks its particle in the words of its parent,  *)
(* and takes over empty words for its own children.                        *)
LEMMA ToldFacts ==
  ASSUME IInv, NEW start, start.word # 0 => elements # <<>>
  PROVE  /\ IsSeq(ToldSeen(start)) /\ Len(ToldSeen(start)) = Depth
         /\ \A d \in 1..Depth :
              /\ IsTag(ToldSeen(start)[d])
              /\ ToldSeen(start)[d].declared = open[d].declared
              /\ ToldSeen(start)[d].data = open[d].data
              /\ ToldSeen(start)[d].seen = IF start.word # 0 /\ d = Depth
                                           THEN open[d].seen \union {Particle(start)}
                                           ELSE open[d].seen
<1>1. IsSeq(open) /\ Len(open) = Depth /\ \A d \in 1..Depth : IsTag(open[d])
  BY DEF IInv, Shape, TagShape
<1>2. CASE start.word = 0
  BY <1>1, <1>2 DEF ToldSeen
<1>3. CASE start.word # 0
  <2> DEFINE n == Depth
             t == open[n]
             t2 == [t EXCEPT !.seen = t.seen \union {Particle(start)}]
  <2>1. n \in 1..Len(open)
    BY <1>1, <1>3, SeqFacts DEF IInv, Shape, Depth
  <2>2. IsTag(t)
    BY <1>1, <2>1
  <2>3. /\ IsTag(t2) /\ t2.declared = t.declared /\ t2.data = t.data
        /\ t2.seen = t.seen \union {Particle(start)}
    <3> DEFINE seen == t.seen \union {Particle(start)}
    <3> HIDE DEF t
    <3>1. t = [name |-> t.name, declared |-> t.declared, data |-> t.data, seen |-> t.seen]
      BY <2>2 DEF IsTag
    <3> HIDE DEF seen
    <3>2. [t EXCEPT !.seen = seen]
            = [name |-> t.name, declared |-> t.declared, data |-> t.data, seen |-> seen]
      BY <3>1
    <3>3. IsSeq(t.declared) /\ IsSeq(t.data)
      BY <2>2 DEF IsTag
    <3>4. t2 = [name |-> t.name, declared |-> t.declared, data |-> t.data, seen |-> seen]
      BY <3>2 DEF seen
    <3> HIDE DEF t2
    <3>5. QED
      BY <3>3, <3>4 DEF IsTag, seen
  <2>4. ToldSeen(start) = [open EXCEPT ![n] = t2]
    BY <1>3 DEF ToldSeen
  <2> HIDE DEF t2, n
  <2>5. /\ IsSeq(ToldSeen(start)) /\ Len(ToldSeen(start)) = Len(open)
        /\ \A d \in 1..Len(open) : ToldSeen(start)[d] = IF d = n THEN t2 ELSE open[d]
    <3>1. IsSeq(open)
      BY <1>1
    <3> DEFINE after == [open EXCEPT ![n] = t2]
    <3>2. /\ IsSeq(after) /\ Len(after) = Len(open)
          /\ \A d \in 1..Len(open) : after[d] = IF d = n THEN t2 ELSE open[d]
      BY ONLY <2>1, <3>1, ExceptFacts
    <3>3. ToldSeen(start) = after
      BY <2>4
    <3> HIDE DEF after
    <3>4. QED
      BY <3>2, <3>3
  <2>6. ASSUME NEW d \in 1..n
        PROVE  /\ IsTag(ToldSeen(start)[d])
               /\ ToldSeen(start)[d].declared = open[d].declared
               /\ ToldSeen(start)[d].data = open[d].data
               /\ ToldSeen(start)[d].seen = IF d = n THEN open[d].seen \union {Particle(start)}
                                            ELSE open[d].seen
    <3>1. CASE d = n
      BY <1>1, <2>3, <2>5, <3>1 DEF n
    <3>2. CASE d # n
      BY <1>1, <2>5, <3>2 DEF n
    <3>3. QED
      BY <3>1, <3>2
  <2>7. QED
    BY <1>1, <1>3, <2>5, <2>6 DEF n
<1>4. QED
  BY <1>2, <1>3

Markable(arena, start) ==
  /\ IsArena(arena)
  /\ start.word # 0 => Top.frame.bitBase + start.word \in 1..Len(arena.words)

MarkedBy(arena, arena2, start) ==
  /\ IsArena(arena2) /\ arena2.used = arena.used /\ Len(arena2.words) = Len(arena.words)
  /\ \A i \in 1..Len(arena.words) :
       arena2.words[i] = IF start.word # 0 /\ i = Top.frame.bitBase + start.word
                         THEN arena.words[i] \union {start.particle} ELSE arena.words[i]

(* ContentScratch.SetAllSeen changes one word, the one of the admitted     *)
(* particle.                                                               *)
LEMMA MarkFacts ==
  ASSUME NEW arena, NEW start, Markable(arena, start)
  PROVE  MarkedBy(arena, MarkSeen(arena, start), start)
<1> USE DEF Markable, MarkedBy
<1>1. CASE start.word = 0
  BY <1>1 DEF MarkSeen
<1>2. CASE start.word # 0
  <2> DEFINE i == Top.frame.bitBase + start.word
             old == arena.words
             x == old[i] \union {start.particle}
             w == [old EXCEPT ![i] = x]
  <2>1. MarkSeen(arena, start) = [words |-> w, used |-> arena.used]
    BY <1>2 DEF MarkSeen, IsArena
  <2>2. i \in 1..Len(old) /\ IsSeq(old) /\ arena.used \in Nat
    BY <1>2 DEF IsArena
  <2> HIDE DEF i, x, old
  <2>3. IsSeq(w) /\ Len(w) = Len(old) /\ \A j \in 1..Len(old) : w[j] = IF j = i THEN x ELSE old[j]
    BY <2>2, ExceptFacts
  <2> HIDE DEF w
  <2>4. /\ IsArena(MarkSeen(arena, start)) /\ MarkSeen(arena, start).words = w
        /\ MarkSeen(arena, start).used = arena.used
    BY <2>1, <2>2, <2>3, ArenaFacts
  <2>5. \A j \in 1..Len(old) : w[j] = IF j = i THEN old[j] \union {start.particle} ELSE old[j]
    BY <2>3 DEF x
  <2>6. QED
    BY <1>2, <2>3, <2>4, <2>5 DEF i, old
<1>3. QED
  BY <1>1, <1>2

(* A start tag marks its particle among the words of the parent, and takes *)
(* over empty words for its own children.                                  *)
LEMMA BitsOpened ==
  ASSUME IInv, ~syntaxOnly, NEW start \in Starts, Admitted(start),
         NEW e, elements' = Append(elements, e), e.frame = FrameOf(start),
         bits' = MarkSeen(Grown(start.length), start),
         NEW tag, tag.seen = {}, open' = Append(ToldSeen(start), tag)
  PROVE  BitsInv' /\ IsArena(bits')
<1> DEFINE n == Depth
           length == start.length
           u == start.word
           k == start.particle
           base(d) == elements[d].frame.bitBase
           len(d) == elements[d].frame.bitLen
           base2(d) == elements'[d].frame.bitBase
           len2(d) == elements'[d].frame.bitLen
           at == Top.frame.bitBase + u
           old == bits.words
           new == bits'.words
           used == bits.used
           g == Grown(length)
<1>1. /\ n \in Nat /\ Depth' = n + 1 /\ DOMAIN elements = 1..n /\ DOMAIN elements' = 1..n + 1
      /\ \A d \in 1..n : elements'[d] = elements[d]
      /\ elements'[n + 1] = e
      /\ \A d \in 1..n + 1 : d \in 1..n \/ d = n + 1
  BY SeqFacts, ElementOpened DEF IInv, Shape, Depth
<1>2. used \in Nat /\ length \in Nat /\ u \in Nat
  BY StartsAssumption DEF IInv, Shape, ArenaShape, IsArena
<1>3. IsSeq(old) /\ used <= Len(old)
  BY DEF IInv, Shape, ArenaShape, IsArena, BitsInv, WordsInv
<1>4. \A d \in 1..n : /\ base(d) \in Nat /\ len(d) \in Nat /\ base(d) + len(d) <= used
                      /\ \A f \in 1..n : d < f => base(d) + len(d) <= base(f)
  BY DEF IInv, BitsInv, WordsInv, Words
<1>5. \A d \in 1..n : /\ base(d) + len(d) = IF d = n THEN used ELSE base(d + 1)
                      /\ open[d].seen = SeenIn(elements[d].frame, old)
  BY <1>1 DEF IInv, BitsInv, BitsAreOwn
<1>6. /\ \A d \in 1..n : base2(d) = base(d) /\ len2(d) = len(d)
      /\ base2(n + 1) = used /\ len2(n + 1) = length
  BY <1>1 DEF FrameOf
<1>7. u # 0 => elements # <<>> /\ n \in 1..n /\ u \in 1..len(n) /\ at = base(n) + u
  <2>1. u # 0 => elements # <<>> /\ u <= Top.frame.bitLen
    BY DEF Admitted
  <2>2. u # 0 => n # 0
    BY <2>1, SeqFacts DEF IInv, Shape, Depth
  <2>3. Top = elements[n]
    BY DEF Top, Last, Depth
  <2>4. u # 0 => n \in 1..n
    BY <1>1, <2>2
  <2>5. u # 0 => len(n) \in Nat /\ u <= len(n)
    BY <1>4, <2>1, <2>3, <2>4
  <2>6. at = base(n) + u
    BY <2>3
  <2> HIDE DEF u, n, len, at, base
  <2>7. u # 0 => u \in 1..len(n)
    BY <1>2, <2>5
  <2>8. QED
    BY <2>1, <2>4, <2>6, <2>7 DEF u
<1>8. /\ IsArena(g) /\ g.used = used + length /\ used + length <= Len(g.words)
      /\ \A i \in 1..used : g.words[i] = old[i]
      /\ \A i \in used + 1..used + length : g.words[i] = {}
  BY <1>2, <1>3, GrownFacts DEF IsArena
<1>9. bits' = MarkSeen(g, start) /\ start.word = u /\ Top.frame.bitBase + start.word = at
  OBVIOUS
<1>10. /\ \A d \in 1..n : open'[d] = ToldSeen(start)[d]
       /\ \A d \in 1..n : ToldSeen(start)[d].seen =
            IF u # 0 /\ d = n THEN open[d].seen \union {<<u, k>>} ELSE open[d].seen
       /\ open'[n + 1] = tag
  <2>1. start.word # 0 => elements # <<>>
    BY DEF Admitted
  <2>2. /\ IsSeq(ToldSeen(start)) /\ Len(ToldSeen(start)) = Depth
        /\ \A d \in 1..Depth : ToldSeen(start)[d].seen = IF start.word # 0 /\ d = Depth
                                                         THEN open[d].seen \union {Particle(start)}
                                                         ELSE open[d].seen
    BY <2>1, ToldFacts
  <2>3. /\ \A d \in 1..n : open'[d] = ToldSeen(start)[d]
        /\ open'[n + 1] = tag
    BY <2>2, AppendFacts
  <2>4. QED
    BY <2>2, <2>3 DEF Particle
<1> HIDE DEF n, length, u, base, len, base2, len2, at, old, used, g
<1>11. u # 0 => at \in 1..used
  BY <1>2, <1>4, <1>7
<1>12. Len(g.words) \in Nat
  BY <1>8, SeqFacts DEF IsArena
<1>13. /\ IsArena(bits') /\ bits'.used = used + length /\ Len(new) = Len(g.words)
       /\ \A i \in 1..Len(g.words) :
            new[i] = IF u # 0 /\ i = at THEN g.words[i] \union {k} ELSE g.words[i]
  <2>1. u # 0 => at \in 1..Len(g.words)
    BY <1>2, <1>8, <1>11, <1>12
  <2>2. Markable(g, start)
    BY <1>8, <1>9, <2>1 DEF Markable
  <2>3. MarkedBy(g, MarkSeen(g, start), start)
    BY <2>2, MarkFacts
  <2>4. QED
    BY <1>8, <1>9, <2>3 DEF MarkedBy
<1> HIDE DEF new
<1>14. ASSUME NEW i \in 1..used
       PROVE  new[i] = IF u # 0 /\ i = at THEN old[i] \union {k} ELSE old[i]
  <2>1. i \in 1..Len(g.words)
    BY <1>2, <1>8, <1>12
  <2>2. QED
    BY <1>8, <1>13, <2>1
<1>15. ASSUME NEW i \in used + 1..used + length
       PROVE  new[i] = {}
  <2>1. i \in 1..Len(g.words) /\ (u # 0 => i # at)
    BY <1>2, <1>8, <1>11, <1>12
  <2>2. QED
    BY <1>8, <1>13, <2>1
<1>16. WordsInv'
  <2>1. ASSUME NEW d \in 1..n + 1
        PROVE  base2(d) \in Nat /\ len2(d) \in Nat /\ base2(d) + len2(d) <= used + length
    <3>1. CASE d = n + 1
      BY <1>2, <1>6, <3>1
    <3>2. CASE d \in 1..n
      <4>1. base(d) \in Nat /\ len(d) \in Nat /\ base(d) + len(d) <= used
        BY <1>4, <3>2
      <4>2. base(d) + len(d) <= used + length
        BY <1>2, <4>1
      <4>3. QED
        BY <1>6, <3>2, <4>1, <4>2
    <3>3. QED
      BY <1>1, <3>1, <3>2
  <2>2. ASSUME NEW d \in 1..n + 1, NEW f \in 1..n + 1, d < f
        PROVE  base2(d) + len2(d) <= base2(f)
    <3>1. d \in 1..n
      BY <1>1, <2>2
    <3>2. CASE f = n + 1
      BY <1>4, <1>6, <3>1, <3>2
    <3>3. CASE f \in 1..n
      BY <1>4, <1>6, <2>2, <3>1, <3>3
    <3>4. QED
      BY <1>1, <3>2, <3>3
  <2>3. bits'.used <= Len(bits'.words)
    BY <1>8, <1>13 DEF new
  <2>4. QED
    BY <1>1, <1>13, <2>1, <2>2, <2>3 DEF WordsInv, Words, base2, len2
<1>17. ASSUME NEW d \in 1..n
       PROVE  open'[d].seen = SeenIn(elements[d].frame, new)
  <2> DEFINE f == elements[d].frame
  <2>1. f.bitBase = base(d) /\ f.bitLen = len(d)
    BY DEF base, len
  <2>2. base(d) \in Nat /\ len(d) \in Nat /\ base(d) + len(d) <= used
    BY <1>4
  <2>3. open[d].seen = SeenIn(f, old)
    BY <1>5
  <2>4. open'[d].seen = IF u # 0 /\ d = n THEN open[d].seen \union {<<u, k>>} ELSE open[d].seen
    BY <1>10
  <2> HIDE DEF f, k
  <2>5. \A w \in 1..len(d) : base(d) + w \in 1..used
    BY <1>2, <2>2
  <2>6. CASE u # 0 /\ d = n
    <3>1. \A w \in 1..len(d) : base(d) + w = at <=> w = u
      BY <1>2, <1>7, <2>2, <2>6
    <3>2. MarkedIn(f, old, new, u, k)
      BY <1>14, <2>1, <2>5, <2>6, <3>1 DEF MarkedIn
    <3>3. u \in 1..f.bitLen /\ f.bitBase \in Nat
      BY <1>7, <2>1, <2>2, <2>6
    <3>4. SeenIn(f, new) = SeenIn(f, old) \union {<<u, k>>}
      BY <3>2, <3>3, MarkedWord
    <3>5. QED
      BY <2>3, <2>4, <2>6, <3>4 DEF f
  <2>7. CASE ~(u # 0 /\ d = n)
    <3>1. ASSUME u # 0, NEW w \in 1..len(d)
          PROVE  base(d) + w # at
      <4>1. d < n /\ n \in 1..n
        BY <1>1, <1>7, <2>7, <3>1
      <4>2. base(d) + len(d) <= base(n) /\ base(n) \in Nat
        BY <1>4, <4>1
      <4>3. at = base(n) + u /\ u > 0
        BY <1>2, <1>7, <3>1
      <4>4. QED
        BY <1>2, <2>2, <4>2, <4>3
    <3>2. \A w \in 1..f.bitLen : new[f.bitBase + w] = old[f.bitBase + w]
      BY <1>14, <2>1, <2>5, <3>1
    <3>3. SeenIn(f, new) = SeenIn(f, old)
      BY <3>2, SameWords
    <3>4. QED
      BY <2>3, <2>4, <2>7, <3>3 DEF f
  <2>8. QED
    BY <2>6, <2>7
<1>18. open'[n + 1].seen = SeenIn(e.frame, new)
  <2>1. e.frame.bitBase = used /\ e.frame.bitLen = length
    BY <1>1, <1>6 DEF base2, len2
  <2>2. \A w \in 1..length : used + w \in used + 1..used + length
    BY <1>2
  <2>3. \A w \in 1..e.frame.bitLen : new[e.frame.bitBase + w] = {}
    BY <1>15, <2>1, <2>2
  <2>4. QED
    BY <1>10, <2>3, EmptyWords
<1>19. ASSUME NEW d \in 1..n + 1
       PROVE  base2(d) + len2(d) = IF d = n + 1 THEN used + length ELSE base2(d + 1)
  <2>1. CASE d = n + 1
    BY <1>6, <2>1
  <2>2. CASE d \in 1..n
    <3>1. base(d) + len(d) = IF d = n THEN used ELSE base(d + 1)
      BY <1>5, <2>2
    <3>2. d # n + 1 /\ (d = n \/ d + 1 \in 1..n)
      BY <1>1, <2>2
    <3>3. QED
      BY <1>6, <2>2, <3>1, <3>2
  <2>3. QED
    BY <1>1, <2>1, <2>2
<1>20. ASSUME NEW d \in 1..n + 1
       PROVE  open'[d].seen = SeenIn(elements'[d].frame, new)
  <2>1. CASE d = n + 1
    BY <1>1, <1>18, <2>1
  <2>2. CASE d \in 1..n
    BY <1>1, <1>17, <2>2
  <2>3. QED
    BY <1>1, <2>1, <2>2
<1>21. BitsAreOwn'
  BY <1>1, <1>13, <1>19, <1>20 DEF BitsAreOwn, base2, len2, new
<1>22. QED
  BY <1>13, <1>16, <1>21 DEF BitsInv

-----------------------------------------------------------------------------
(* The handlers.                                                           *)

(* A start tag after the assessment has stopped (session.syntaxStart).     *)
LEMMA StartSyntaxKeeps ==
  ASSUME IInv, NEW name, NEW attrs \in Tags, StartSyntax(name, attrs)
  PROVE  IInv'
<1> DEFINE e == [name |-> ElementName(Pushed(attrs), name), prefix |-> name.space, expanded |-> FALSE,
                 pathLength |-> PathLength(elements, FALSE), frame |-> EmptyFrame]
<1>1. /\ elements' = Append(elements, e)
      /\ ns' = [frames |-> Append(ns.frames, Len(ns.bindings)), bindings |-> Pushed(attrs)]
      /\ UNCHANGED <<namePath, bits, text, syntaxOnly>> /\ syntaxOnly
  BY PushStreamFacts DEF StartSyntax, StartWith, Commit, PushElement, arenas
<1>2. open' = Append(open, Told(name, attrs))
  BY DEF StartSyntax, Commit, NoStart, ToldSeen
<1>3. IsSeq(elements) /\ IsSeq(open) /\ Len(open) = Depth /\ \A d \in 1..Depth : IsTag(open[d])
  BY DEF IInv, Shape, TagShape
<1> HIDE DEF e
<1>4. IsSeq(elements') /\ Depth' = Depth + 1
  BY <1>1, <1>3, ElementOpened
<1>5. TagShape' /\ BindingsInv'
  BY <1>1, <1>2, <1>3, <1>4, TagOpened
<1>6. ArenaShape' /\ NamePathInv' /\ TextInv' /\ BitsInv'
  BY <1>1 DEF IInv, Shape, ArenaShape, NamePathInv, TextInv, BitsInv, IsArena
<1>7. QED
  BY <1>1, <1>4, <1>5, <1>6 DEF IInv, Shape

(* A start tag that is assessed (session.start).                           *)
LEMMA StartKeeps ==
  ASSUME IInv, ~syntaxOnly, NEW name, NEW attrs \in Tags,
         NEW start \in Starts, Admitted(start), Start(name, attrs, start)
  PROVE  IInv'
<1> DEFINE full == InFull(ElementName(Pushed(attrs), name), start)
           e == [name |-> ElementName(Pushed(attrs), name), prefix |-> name.space, expanded |-> full,
                 pathLength |-> PathLength(elements, full), frame |-> FrameOf(start)]
           tag == Told(name, attrs)
           before == ToldSeen(start)
<1>1. /\ elements' = Append(elements, e)
      /\ ns' = [frames |-> Append(ns.frames, Len(ns.bindings)), bindings |-> Pushed(attrs)]
      /\ open' = Append(before, tag)
      /\ namePath' = IF HasIdentityConstraints
                     THEN Append(namePath, ElementName(Pushed(attrs), name)) ELSE namePath
      /\ bits' = MarkSeen(Grown(start.length), start)
      /\ text' = text /\ syntaxOnly' = syntaxOnly
  BY PushStreamFacts DEF Start, StartWith, Commit, PushElement
<1>2. e.frame = FrameOf(start) /\ e.frame.textStart = Len(text)
      /\ e.name = ElementName(Pushed(attrs), name)
  BY DEF FrameOf
<1>3. tag.data = <<>> /\ tag.seen = {}
  BY DEF Told
<1>4. start.word # 0 => elements # <<>>
  BY DEF Admitted
<1>5. /\ IsSeq(before) /\ Len(before) = Depth
      /\ \A d \in 1..Depth : /\ IsTag(before[d])
                             /\ before[d].declared = open[d].declared
                             /\ before[d].data = open[d].data
  BY <1>4, ToldFacts
<1> HIDE DEF e, before
<1>6. IsSeq(elements') /\ Depth' = Depth + 1
  BY <1>1, ElementOpened DEF IInv, Shape
<1>7. TagShape' /\ BindingsInv'
  BY <1>1, <1>5, <1>6, TagOpened
<1> HIDE DEF tag
<1>8. NamePathInv' /\ IsSeq(namePath')
  BY <1>1, <1>2, NameOpened
<1>9. TextInv' /\ IsSeq(text')
  <2>1. TextInv'
    BY <1>1, <1>2, <1>3, <1>5, TextOpened
  <2>2. IsSeq(text')
    BY <1>1 DEF IInv, Shape, ArenaShape
  <2>3. QED
    BY <2>1, <2>2
<1>10. BitsInv' /\ IsArena(bits')
  BY <1>1, <1>2, <1>3, BitsOpened DEF before
<1>11. Shape'
  BY <1>1, <1>6, <1>7, <1>8, <1>9, <1>10 DEF IInv, Shape, ArenaShape, IsArena
<1>12. QED
  BY <1>7, <1>8, <1>9, <1>10, <1>11 DEF IInv

(* A start tag at which the assessment stops, before or after the push of  *)
(* its frame.                                                              *)
LEMMA StartAndStopKeeps ==
  ASSUME IInv, NEW name, NEW attrs \in Tags, NEW start, StartAndStop(name, attrs, start)
  PROVE  IInv'
<1> DEFINE full == start.after = 1 /\ InFull(ElementName(Pushed(attrs), name), start)
           e == [name |-> ElementName(Pushed(attrs), name), prefix |-> name.space, expanded |-> full,
                 pathLength |-> PathLength(elements, full), frame |-> EmptyFrame]
           stack == Append(elements, e)
<1>1. /\ Discard(stack) /\ syntaxOnly'
      /\ ns' = [frames |-> Append(ns.frames, Len(ns.bindings)), bindings |-> Pushed(attrs)]
      /\ open' = Append(open, Told(name, attrs))
  BY PushStreamFacts DEF StartAndStop, StartWith, PushElement
<1>2. /\ IsSeq(elements) /\ IsSeq(open) /\ Len(open) = Depth
      /\ \A d \in 1..Depth : IsTag(open[d])
  BY DEF IInv, Shape, TagShape
<1> HIDE DEF e
<1>3. IsSeq(stack) /\ Len(stack) = Depth + 1
  BY <1>2, AppendFacts DEF Depth
<1> HIDE DEF stack
<1>4. Depth' = Depth + 1
  BY <1>1, <1>3, DroppedDepth
<1>5. TagShape' /\ BindingsInv'
  BY <1>1, <1>2, <1>4, TagOpened
<1>6. QED
  BY <1>1, <1>3, <1>5, SemanticsDropped

(* An end tag after the assessment has stopped.                            *)
LEMMA EndSyntaxKeeps ==
  ASSUME IInv, NEW name, EndSyntax(name)
  PROVE  IInv'
<1>1. /\ elements' = Front(elements) /\ elements # <<>>
      /\ ns' = [frames |-> Front(ns.frames), bindings |-> SubSeq(ns.bindings, 1, Last(ns.frames))]
      /\ open' = Front(open)
      /\ UNCHANGED <<namePath, bits, text, syntaxOnly>> /\ syntaxOnly
  BY PopFacts DEF EndSyntax, CommitEnd, Matches, arenas
<1>2. IsSeq(elements') /\ Depth' = Depth - 1
  BY <1>1, ElementClosed DEF IInv, Shape
<1>3. TagShape' /\ BindingsInv'
  BY <1>1, <1>2, TagClosed
<1>4. ArenaShape' /\ NamePathInv' /\ TextInv' /\ BitsInv'
  BY <1>1 DEF IInv, Shape, ArenaShape, NamePathInv, TextInv, BitsInv, IsArena
<1>5. QED
  BY <1>1, <1>2, <1>3, <1>4 DEF IInv, Shape

(* An end tag that is assessed (session.end).                              *)
LEMMA EndKeeps ==
  ASSUME IInv, NEW name, NEW reports, End(name, reports)
  PROVE  IInv'
<1>1. /\ elements' = Front(elements) /\ elements # <<>>
      /\ ns' = [frames |-> Front(ns.frames), bindings |-> SubSeq(ns.bindings, 1, Last(ns.frames))]
      /\ open' = Front(open)
      /\ ~syntaxOnly /\ syntaxOnly' = syntaxOnly
  BY PopFacts DEF End, CommitEnd, Matches
<1>2. /\ bits' = [bits EXCEPT !.used = Top.frame.bitBase]
      /\ text' = SubSeq(text, 1, Top.frame.textStart)
      /\ namePath' = IF HasIdentityConstraints THEN Front(namePath) ELSE namePath
  BY DEF End, Released
<1>3. IsSeq(elements') /\ Depth' = Depth - 1
  BY <1>1, ElementClosed DEF IInv, Shape
<1>4. TagShape' /\ BindingsInv'
  BY <1>1, <1>3, TagClosed
<1>5. NamePathInv' /\ IsSeq(namePath')
  BY <1>1, <1>2, NameClosed
<1>6. TextInv' /\ IsSeq(text')
  BY <1>1, <1>2, TextClosed
<1>7. BitsInv' /\ IsArena(bits')
  BY <1>1, <1>2, BitsClosed
<1>8. Shape'
  BY <1>1, <1>3, <1>4, <1>5, <1>6, <1>7 DEF IInv, Shape, ArenaShape, IsArena
<1>9. QED
  BY <1>4, <1>5, <1>6, <1>7, <1>8 DEF IInv

(* An end tag at which the assessment stops.                               *)
LEMMA EndAndStopKeeps ==
  ASSUME IInv, NEW name, EndAndStop(name)
  PROVE  IInv'
<1> DEFINE stack == Front(elements)
<1>1. /\ Discard(stack) /\ syntaxOnly' /\ elements # <<>>
      /\ ns' = [frames |-> Front(ns.frames), bindings |-> SubSeq(ns.bindings, 1, Last(ns.frames))]
      /\ open' = Front(open)
  BY PopFacts DEF EndAndStop, Matches
<1>2. IsSeq(stack) /\ Len(stack) = Depth - 1
  BY <1>1, FrontFacts DEF IInv, Shape, Depth
<1> HIDE DEF stack
<1>3. Depth' = Depth - 1
  BY <1>1, <1>2, DroppedDepth
<1>4. TagShape' /\ BindingsInv'
  BY <1>1, <1>3, TagClosed
<1>5. QED
  BY <1>1, <1>2, <1>4, SemanticsDropped

(* Without a change of the tags, the bindings stay as they are.            *)
LEMMA TagsUnchanged ==
  ASSUME IInv, UNCHANGED <<ns, open>>, Depth' = Depth
  PROVE  TagShape' /\ BindingsInv'
BY DEF IInv, Shape, TagShape, BindingsInv, Declared, IsTag

(* Text outside of the root.                                               *)
LEMMA TextOutsideKeeps ==
  ASSUME IInv, NEW cdata, TextOutside(cdata)
  PROVE  IInv'
<1>1. UNCHANGED <<elements, ns, namePath, text, open>> /\ elements = <<>>
  BY DEF TextOutside, xml, arenas
<1>2. CASE cdata \/ syntaxOnly
  BY <1>1, <1>2, StacksUnchanged DEF TextOutside, arenas
<1>3. CASE ~(cdata \/ syntaxOnly) /\ ~syntaxOnly'
  BY <1>1, <1>3, StacksUnchanged DEF TextOutside, IInv, Shape
<1>4. CASE ~(cdata \/ syntaxOnly) /\ syntaxOnly'
  <2>1. syntaxOnly' \in BOOLEAN
    BY <1>4 DEF TextOutside
  <2>2. IsArena(bits')
    BY <1>4, EmptyIsSeq, ArenaFacts DEF TextOutside
  <2>3. namePath = <<>>
    <3>1. DOMAIN elements = {}
      BY <1>1
    <3>2. namePath = <<>> \/ namePath = [d \in {} |-> elements[d].name]
      BY <1>4, <3>1 DEF IInv, NamePathInv
    <3>3. [d \in {} |-> elements[d].name] = <<>>
      OBVIOUS
    <3>4. QED
      BY <3>2, <3>3
  <2>4. Depth' = Depth
    BY <1>1 DEF Depth
  <2>5. TagShape' /\ BindingsInv'
    BY <1>1, <2>4, TagsUnchanged
  <2>6. Shape'
    BY <1>1, <2>1, <2>2, <2>5 DEF IInv, Shape, ArenaShape, IsArena
  <2>7. NamePathInv' /\ TextInv' /\ BitsInv'
    BY <1>1, <1>4, <2>3 DEF NamePathInv, TextInv, BitsInv
  <2>8. QED
    BY <2>5, <2>6, <2>7 DEF IInv
<1>5. QED
  BY <1>2, <1>3, <1>4

(* Text that the frame does not admit is reported and dropped              *)
(* (session.chars).                                                        *)
LEMMA CharsRefusedKeeps ==
  ASSUME IInv, CharsRefused
  PROVE  IInv'
<1>1. ~syntaxOnly /\ UNCHANGED <<ns, open>> /\ syntaxOnly' = (errors' = MaxErrors)
  BY DEF CharsRefused, Report
<1>2. CASE syntaxOnly'
  <2>1. Discard(elements) /\ IsSeq(elements)
    BY <1>2 DEF CharsRefused, Report, IInv, Shape
  <2>2. Depth' = Depth
    BY <2>1, DroppedDepth DEF Depth
  <2>3. QED
    BY <1>1, <1>2, <2>1, <2>2, TagsUnchanged, SemanticsDropped
<1>3. CASE ~syntaxOnly'
  <2>1. UNCHANGED <<elements, namePath, bits, text>>
    BY <1>3 DEF CharsRefused, Report, arenas
  <2>2. syntaxOnly' = syntaxOnly
    BY <1>1, <1>3 DEF IInv, Shape
  <2>3. QED
    BY <1>1, <2>1, <2>2, StacksUnchanged
<1>4. QED
  BY <1>2, <1>3

(* Text that the frame collects goes behind the text of the elements       *)
(* around it (session.appendText).                                         *)
LEMMA CharsCollectedKeeps ==
  ASSUME IInv, NEW chunk, CharsCollected(chunk)
  PROVE  IInv'
<1>1. CASE Len(text) = MaxInstanceTextBytes
  BY <1>1, FailKeeps DEF CharsCollected
<1>2. CASE Len(text) # MaxInstanceTextBytes
  <2> DEFINE n == Depth
             k == Len(text)
             parts == Data
             parts2 == Data'
             marks == TextMarks
             t == open[n]
             data == Append(t.data, chunk)
             t2 == [t EXCEPT !.data = data]
  <2>1. /\ UNCHANGED <<elements, ns, namePath, bits, syntaxOnly>>
        /\ elements # <<>> /\ ~syntaxOnly
        /\ text' = Append(text, chunk)
    BY <1>2 DEF CharsCollected, xml
  <2>2. open' = [open EXCEPT ![n] = t2]
    BY <1>2 DEF CharsCollected
  <2>3. /\ IsSeq(open) /\ Len(open) = n /\ n \in Nat \ {0} /\ Depth' = n
        /\ IsSeq(text) /\ k \in Nat
        /\ \A d \in 1..n : IsTag(open[d])
    BY <2>1, SeqFacts DEF IInv, Shape, TagShape, ArenaShape, Depth
  <2>4. IsTag(t) /\ n \in 1..Len(open)
    BY <2>3
  <2> HIDE DEF t
  <2>5. /\ IsSeq(data) /\ Len(data) = Len(t.data) + 1 /\ Len(t.data) \in Nat
        /\ SameValues(Len(t.data), t.data, data)
        /\ data[Len(t.data) + 1] = chunk
    <3> DEFINE v == t.data
    <3>1. IsSeq(v)
      BY <2>4 DEF IsTag
    <3> HIDE DEF v
    <3>2. Len(v) \in Nat /\ IsSeq(Append(v, chunk)) /\ Len(Append(v, chunk)) = Len(v) + 1
          /\ \A i \in 1..Len(v) : Append(v, chunk)[i] = v[i]
          /\ Append(v, chunk)[Len(v) + 1] = chunk
      BY <3>1, AppendFacts, SeqFacts
    <3>3. QED
      BY <3>2 DEF SameValues, v
  <2> HIDE DEF data
  <2>6. /\ IsTag(t2) /\ t2.declared = t.declared /\ t2.seen = t.seen /\ t2.data = data
    <3>1. t = [name |-> t.name, declared |-> t.declared, data |-> t.data, seen |-> t.seen]
      BY <2>4 DEF IsTag
    <3>2. t2 = [name |-> t.name, declared |-> t.declared, data |-> data, seen |-> t.seen]
      BY <3>1
    <3>3. IsSeq(t.declared)
      BY <2>4 DEF IsTag
    <3> HIDE DEF t2
    <3>4. QED
      BY <2>5, <3>2, <3>3 DEF IsTag
  <2> HIDE DEF t2, n
  <2>7. /\ IsSeq(open') /\ Len(open') = n
        /\ \A d \in 1..n : open'[d] = IF d = n THEN t2 ELSE open[d]
    <3> DEFINE after == [open EXCEPT ![n] = t2]
    <3>1. IsSeq(open) /\ n \in 1..Len(open)
      BY <2>3, <2>4
    <3>2. /\ IsSeq(after) /\ Len(after) = Len(open)
          /\ \A d \in 1..Len(open) : after[d] = IF d = n THEN t2 ELSE open[d]
      BY ONLY <3>1, ExceptFacts
    <3>3. open' = after
      BY <2>2
    <3> HIDE DEF after
    <3>4. QED
      BY <2>3, <3>2, <3>3
  <2>8. ASSUME NEW d \in 1..n
        PROVE  IsTag(open'[d]) /\ open'[d].declared = open[d].declared
               /\ open'[d].seen = open[d].seen /\ (d # n => open'[d] = open[d])
    <3>1. CASE d = n
      BY <2>6, <2>7, <3>1 DEF t
    <3>2. CASE d # n
      BY <2>3, <2>7, <3>2
    <3>3. QED
      BY <3>1, <3>2
  <2>9. TagShape' /\ BindingsInv'
    <3>1. Declared' = Declared
      BY <2>3, <2>8 DEF Declared, n
    <3>2. BindingsInv'
      BY <2>1, <2>3, <3>1 DEF IInv, BindingsInv, n
    <3>3. ASSUME NEW d \in 1..Depth'
          PROVE  IsTag(open[d])'
      BY <2>3, <2>8 DEF IsTag
    <3>4. TagShape'
      BY <2>1, <2>3, <2>7, <3>3 DEF IInv, Shape, TagShape, n
    <3>5. QED
      BY <3>2, <3>4
  <2>10. TextInv' /\ IsSeq(text')
    <3>1. Parted(n, marks, k, text, parts)
      BY <2>1 DEF IInv, TextInv, n
    <3>2. /\ IsSeq(text') /\ Len(text') = k + 1 /\ SameValues(k, text, text')
          /\ text'[k + 1] = chunk
      BY <2>1, <2>3, AppendFacts DEF SameValues
    <3>3. /\ \A d \in 1..n : parts[d] = open[d].data /\ parts2[d] = open'[d].data
          /\ TextMarks' = marks
      BY <2>1, <2>3 DEF Data, TextMarks, n, Depth
    <3>4. parts[n] = t.data /\ parts2[n] = data
      BY <2>3, <2>4, <2>6, <2>7, <3>3 DEF t
    <3>5. SameEntries(n - 1, marks, parts, marks, parts2)
      BY <2>3, <2>8, <3>3 DEF SameEntries
    <3> HIDE DEF k, parts, parts2, marks
    <3>6. /\ Len(parts2[n]) = Len(parts[n]) + 1 /\ SameValues(Len(parts[n]), parts[n], parts2[n])
          /\ text'[k + 1] = parts2[n][Len(parts[n]) + 1]
      BY <2>5, <3>2, <3>4
    <3>7. Parted(n, marks, k + 1, text', parts2)
      BY <2>3, <3>1, <3>2, <3>5, <3>6, PartedExtend DEF k
    <3>8. QED
      BY <2>3, <3>2, <3>3, <3>7 DEF TextInv, parts2
  <2>11. NamePathInv' /\ ArenaShape' /\ IsSeq(elements') /\ syntaxOnly' \in BOOLEAN
    BY <2>1, <2>10 DEF IInv, Shape, ArenaShape, NamePathInv, IsArena
  <2>12. BitsInv'
    <3>1. WordsInv'
      BY <2>1 DEF IInv, BitsInv, WordsInv, Words, Depth
    <3>2. DOMAIN elements = 1..n
      BY SeqFacts DEF IInv, Shape, n, Depth
    <3>3. BitsAreOwn'
      BY <2>1, <2>8, <3>2 DEF IInv, BitsInv, BitsAreOwn, Depth, SeenIn
    <3>4. QED
      BY <3>1, <3>3 DEF BitsInv
  <2>13. QED
    BY <2>9, <2>10, <2>11, <2>12 DEF IInv, Shape
<1>3. QED
  BY <1>1, <1>2

-----------------------------------------------------------------------------
(* Every step keeps the invariant.                                         *)
LEMMA NextIInv == IInv /\ [Next]_vars => IInv'
<1> SUFFICES ASSUME IInv, [Next]_vars PROVE IInv'
  OBVIOUS
<1>1. CASE StartTag
  <2>1. CASE StartTooDeep
    BY <2>1, FailKeeps DEF StartTooDeep
  <2>2. ASSUME NEW name \in Names, NEW attrs \in Tags,
               StartMalformed(name, attrs) \/ StartAborted(name, attrs)
        PROVE  IInv'
    BY <2>2, RollbackFacts, FailWithKeeps DEF StartMalformed, StartAborted, StartWith, Preparable
  <2>3. ASSUME NEW name \in Names, NEW attrs \in Tags, StartSyntax(name, attrs)
        PROVE  IInv'
    BY <2>3, StartSyntaxKeeps
  <2>4. ASSUME NEW start \in Starts, ~syntaxOnly, Admitted(start),
               NEW name \in Names, NEW attrs \in Tags,
               Start(name, attrs, start) \/ StartAndStop(name, attrs, start)
        PROVE  IInv'
    BY <2>4, StartKeeps, StartAndStopKeeps
  <2>5. QED
    BY <1>1, <2>1, <2>2, <2>3, <2>4 DEF StartTag
<1>2. CASE CharData
  BY <1>2, TextOutsideKeeps, CharsCollectedKeeps, CharsRefusedKeeps DEF CharData
<1>3. CASE EndTag
  <2>1. ASSUME NEW name \in Names, EndMalformed(name)
        PROVE  IInv'
    BY <2>1, FailKeeps DEF EndMalformed
  <2>2. ASSUME NEW name \in Names, EndSyntax(name) \/ EndAndStop(name)
        PROVE  IInv'
    BY <2>2, EndSyntaxKeeps, EndAndStopKeeps
  <2>3. ASSUME NEW name \in Names, NEW reports \in 0..1, End(name, reports)
        PROVE  IInv'
    BY <2>3, EndKeeps
  <2>4. QED
    BY <1>3, <2>1, <2>2, <2>3 DEF EndTag
<1>4. CASE EndOfInput
  BY <1>4, EndOfInputKeeps
<1>5. CASE Reset
  BY <1>5, ResetStarts
<1>6. CASE UNCHANGED vars
  BY <1>6, StacksUnchanged DEF vars, xml, arenas
<1>7. QED
  BY <1>1, <1>2, <1>3, <1>4, <1>5, <1>6 DEF Next

(* So it is one of the specification.                                      *)
LEMMA SpecIInv == Spec => []IInv
BY InitIInv, NextIInv, PTL DEF Spec

(* It implies that the stacks are aligned ...                              *)
LEMMA IInvAligned == IInv => StacksAligned
<1> SUFFICES ASSUME IInv PROVE StacksAligned
  OBVIOUS
<1>1. /\ IsSeq(elements) /\ IsSeq(open) /\ IsSeq(ns.frames) /\ IsSeq(ns.bindings)
      /\ Len(ns.frames) = Depth /\ Depth \in Nat /\ DOMAIN ns.frames = 1..Depth
      /\ \A d \in 1..Depth : IsSeq(open[d].declared)
  BY SeqFacts DEF IInv, Shape, TagShape, IsTag, Depth
<1>2. Parted(Depth, ns.frames, Len(ns.bindings), ns.bindings, Declared)
  BY DEF IInv, BindingsInv
<1>3. ASSUME NEW d \in 1..Depth
      PROVE  SubSeq(ns.bindings, ns.frames[d] + 1,
                    IF d = Depth THEN Len(ns.bindings) ELSE ns.frames[d + 1]) = open[d].declared
  <2>1. Declared[d] = open[d].declared /\ IsSeq(open[d].declared)
    BY <1>1 DEF Declared
  <2>2. SubSeq(ns.bindings, ns.frames[d] + 1, EndOf(Depth, ns.frames, Len(ns.bindings), d)) = Declared[d]
    BY <1>1, <1>2, <2>1, SliceIsPart
  <2>3. QED
    BY <2>1, <2>2 DEF EndOf
<1>4. Depth = 0 => ns.bindings = <<>>
  BY <1>1, <1>2, SeqFacts DEF Parted
<1>5. QED
  BY <1>1, <1>3, <1>4 DEF IInv, NamePathInv, StacksAligned

(* ... and that each element has its own text and bits.                    *)
LEMMA IInvOwn == IInv => ArenasAreOwn
<1> SUFFICES ASSUME IInv, ~syntaxOnly PROVE TextIsOwn /\ BitsAreOwn
  BY DEF ArenasAreOwn
<1>1. /\ IsSeq(elements) /\ IsSeq(open) /\ IsSeq(text)
      /\ Depth \in Nat /\ DOMAIN elements = 1..Depth
      /\ \A d \in 1..Depth : IsSeq(open[d].data)
  BY SeqFacts DEF IInv, Shape, TagShape, ArenaShape, IsTag, Depth
<1>2. Parted(Depth, TextMarks, Len(text), text, Data)
  BY DEF IInv, TextInv
<1>3. ASSUME NEW d \in 1..Depth
      PROVE  SubSeq(text, elements[d].frame.textStart + 1,
                    IF d = Depth THEN Len(text) ELSE elements[d + 1].frame.textStart) = open[d].data
  <2>1. /\ Data[d] = open[d].data /\ IsSeq(open[d].data)
        /\ TextMarks[d] = elements[d].frame.textStart
        /\ d # Depth => TextMarks[d + 1] = elements[d + 1].frame.textStart
    BY <1>1 DEF Data, TextMarks
  <2>2. SubSeq(text, TextMarks[d] + 1, EndOf(Depth, TextMarks, Len(text), d)) = Data[d]
    BY <1>1, <1>2, <2>1, SliceIsPart
  <2>3. QED
    BY <2>1, <2>2 DEF EndOf
<1>4. elements = <<>> => text = <<>>
  BY <1>1, <1>2, SeqFacts DEF Parted, Depth
<1>5. QED
  BY <1>1, <1>3, <1>4 DEF IInv, BitsInv, TextIsOwn

(* The namespace frames, their marks and the names of the path belong to   *)
(* the open elements in every state, also after a start tag that failed or *)
(* stopped half-way (xmlDocument.CommitStart and CommitEnd, session.end).  *)
THEOREM StacksStayAligned == Spec => []StacksAligned
BY SpecIInv, IInvAligned, PTL

(* As long as the semantics are checked, the text and the occurrence bits  *)
(* of an open element are what it and its children have added, however     *)
(* elements, calls and stops have used the arenas before (newSchemaFrame,  *)
(* appendText, ContentScratch.SetAllSeen, session.end and reset).          *)
THEOREM ArenasStayOwn == Spec => []ArenasAreOwn
BY SpecIInv, IInvOwn, PTL

-----------------------------------------------------------------------------
(* The binding of a prefix that was pushed last is that of the innermost   *)
(* element that declares it.                                               *)

(* The open elements own the bindings, and none declares a prefix twice.   *)
IsScope(marks, bindings, tags) ==
  /\ IsSeq(tags) /\ IsSeq(bindings)
  /\ Parted(Len(tags), marks, Len(bindings), bindings, [d \in 1..Len(tags) |-> tags[d].declared])
  /\ \A d \in 1..Len(tags) : IsSeq(tags[d].declared) /\ HasDistinctPrefixes(tags[d].declared)

(* Every value of an arena belongs to an entry.                            *)
LEMMA PartOf ==
  ASSUME NEW n \in Nat, NEW k \in Nat, NEW marks, NEW arena, NEW parts,
         Parted(n, marks, k, arena, parts), NEW i \in 1..k
  PROVE  \E d \in 1..n : \E j \in 1..Len(parts[d]) : i = marks[d] + j
<1> DEFINE T == {d \in 1..n : marks[d] < i}
<1>1. n # 0 /\ marks[1] = 0
  BY DEF Parted
<1>2. 1 \in T
  BY <1>1
<1>3. PICK d \in T : \A e \in T : e <= d
  BY <1>2, Scan!NatMax
<1>4. d \in 1..n /\ marks[d] < i
  BY <1>3
<1>5. /\ marks[d] \in 0..k /\ Len(parts[d]) \in Nat
      /\ marks[d] + Len(parts[d]) = EndOf(n, marks, k, d)
      /\ EndOf(n, marks, k, d) \in 0..k
      /\ d # n => d + 1 \in 1..n
  BY <1>4, Ends
<1>6. i <= EndOf(n, marks, k, d)
  <2>1. CASE d = n
    BY <2>1 DEF EndOf
  <2>2. CASE d # n
    <3>1. d + 1 \in 1..n /\ d + 1 \notin T
      BY <1>3, <1>5, <2>2
    <3>2. marks[d + 1] \in 0..k /\ ~(marks[d + 1] < i)
      BY <3>1 DEF Parted
    <3>3. QED
      BY <2>2, <3>2 DEF EndOf
  <2>3. QED
    BY <2>1, <2>2
<1>7. i - marks[d] \in 1..Len(parts[d]) /\ i = marks[d] + (i - marks[d])
  BY <1>4, <1>5, <1>6
<1>8. QED
  BY <1>4, <1>7

(* Where a prefix is bound.                                                *)
BoundAt(bindings, prefix) == {i \in DOMAIN bindings : bindings[i].prefix = prefix}

DeclaredAt(tags, prefix) ==
  {d \in DOMAIN tags : \E i \in DOMAIN tags[d].declared : tags[d].declared[i].prefix = prefix}

IsLargest(x, S) == x \in S /\ \A y \in S : y <= x

(* A set of numbers has at most one largest, which CHOOSE finds.           *)
LEMMA LargestIsOne ==
  ASSUME NEW S, S \subseteq Nat, NEW x, IsLargest(x, S)
  PROVE  x = CHOOSE y \in S : \A z \in S : z <= y
<1> DEFINE c == CHOOSE y \in S : \A z \in S : z <= y
<1>1. c \in S /\ \A z \in S : z <= c
  BY Zenon DEF IsLargest
<1>2. x \in Nat /\ c \in Nat /\ x <= c /\ c <= x
  BY <1>1 DEF IsLargest
<1> HIDE DEF c
<1>3. x = c
  BY <1>2
<1>4. QED
  BY <1>3 DEF c

(* The j-th declaration of the d-th element is the innermost one, and the  *)
(* i-th binding the last one; they are the same.                           *)
IsInnermost(bindings, tags, prefix, d, i, j) ==
  /\ IsLargest(d, DeclaredAt(tags, prefix)) /\ IsLargest(i, BoundAt(bindings, prefix))
  /\ d \in 1..Len(tags) /\ j \in 1..Len(tags[d].declared)
  /\ tags[d].declared[j].prefix = prefix
  /\ \A l \in 1..Len(tags[d].declared) : tags[d].declared[l].prefix = prefix => l = j
  /\ bindings[i] = tags[d].declared[j]

(* The last binding of a prefix is the one that its innermost declaration  *)
(* pushed, and there is one if and only if there is a declaration.         *)
LEMMA InnermostIsLast ==
  ASSUME NEW marks, NEW bindings, NEW tags, IsScope(marks, bindings, tags), NEW prefix
  PROVE  /\ BoundAt(bindings, prefix) = {} <=> DeclaredAt(tags, prefix) = {}
         /\ BoundAt(bindings, prefix) # {} =>
              \E d, i, j : IsInnermost(bindings, tags, prefix, d, i, j)
<1> DEFINE n == Len(tags)
           k == Len(bindings)
           parts == [d \in 1..n |-> tags[d].declared]
           B == BoundAt(bindings, prefix)
           D == DeclaredAt(tags, prefix)
<1>1. /\ n \in Nat /\ k \in Nat /\ DOMAIN tags = 1..n /\ DOMAIN bindings = 1..k
      /\ Parted(n, marks, k, bindings, parts)
  BY SeqFacts DEF IsScope
<1>2. \A d \in 1..n : /\ parts[d] = tags[d].declared
                      /\ DOMAIN parts[d] = 1..Len(parts[d]) /\ Len(parts[d]) \in Nat
                      /\ HasDistinctPrefixes(parts[d])
  BY SeqFacts DEF IsScope
<1>3. /\ B \subseteq 1..k /\ D \subseteq 1..n
      /\ \A i \in 1..k : i \in B <=> bindings[i].prefix = prefix
      /\ \A d \in 1..n : d \in D <=> \E j \in 1..Len(parts[d]) : parts[d][j].prefix = prefix
  BY <1>1, <1>2 DEF BoundAt, DeclaredAt
<1> HIDE DEF B, D, parts, n, k
<1>4. ASSUME NEW d \in 1..n, NEW j \in 1..Len(parts[d]), parts[d][j].prefix = prefix
      PROVE  d \in D /\ marks[d] + j \in B /\ bindings[marks[d] + j] = parts[d][j]
  <2>1. marks[d] + j \in 1..k
    BY <1>1, EndsInside
  <2>2. bindings[marks[d] + j] = parts[d][j]
    BY <1>1 DEF Parted
  <2>3. QED
    BY <1>3, <1>4, <2>1, <2>2
<1>5. ASSUME NEW i \in B
      PROVE  \E d \in D : \E j \in 1..Len(parts[d]) : i = marks[d] + j /\ parts[d][j].prefix = prefix
  <2>1. i \in 1..k
    BY <1>3
  <2>2. PICK d \in 1..n : \E j \in 1..Len(parts[d]) : i = marks[d] + j
    BY <1>1, <2>1, PartOf
  <2>3. PICK j \in 1..Len(parts[d]) : i = marks[d] + j
    BY <2>2
  <2>4. bindings[marks[d] + j] = parts[d][j]
    BY <1>1 DEF Parted
  <2>5. parts[d][j].prefix = prefix
    BY <1>3, <2>1, <2>3, <2>4
  <2>6. QED
    BY <1>3, <2>3, <2>5
<1>6. B = {} <=> D = {}
  BY <1>3, <1>4, <1>5
<1>7. ASSUME B # {}
      PROVE  \E d, i, j : IsInnermost(bindings, tags, prefix, d, i, j)
  <2>1. PICK d \in D : \A e \in D : e <= d
    BY <1>1, <1>3, <1>6, <1>7, Scan!NatMax
  <2>2. d \in 1..n
    BY <1>3, <2>1
  <2>3. PICK j \in 1..Len(parts[d]) : parts[d][j].prefix = prefix
    BY <1>3, <2>1, <2>2
  <2>4. \A l \in 1..Len(parts[d]) : parts[d][l].prefix = prefix => l = j
    BY <1>2, <2>2, <2>3 DEF HasDistinctPrefixes
  <2>5. marks[d] + j \in B /\ bindings[marks[d] + j] = parts[d][j]
    BY <1>4, <2>2, <2>3
  <2>6. ASSUME NEW i \in B
        PROVE  i <= marks[d] + j
    <3>1. PICK e \in D : \E l \in 1..Len(parts[e]) : i = marks[e] + l /\ parts[e][l].prefix = prefix
      BY <1>5
    <3>2. PICK l \in 1..Len(parts[e]) : i = marks[e] + l /\ parts[e][l].prefix = prefix
      BY <3>1
    <3>3. e \in 1..n /\ e <= d
      BY <1>3, <2>1, <3>1
    <3>4. CASE e = d
      <4>1. l = j
        BY <2>4, <3>2, <3>4
      <4>2. QED
        BY <2>2, <3>2, <3>4, <4>1, <1>1, EndsInside
    <3>5. CASE e # d
      <4>1. e # n /\ e + 1 \in 1..n /\ e + 1 <= d
        BY <1>1, <2>2, <3>3, <3>5
      <4>2. /\ marks[e] \in 0..k /\ Len(parts[e]) \in Nat
            /\ marks[e] + Len(parts[e]) = marks[e + 1]
        BY <1>1, <3>3, <4>1, Ends DEF EndOf
      <4>3. marks[e + 1] <= marks[d] /\ marks[d] \in 0..k /\ marks[e + 1] \in 0..k
        BY <1>1, <2>2, <4>1 DEF Parted
      <4>4. l <= Len(parts[e]) /\ l \in Nat /\ j \in Nat
        BY <3>2, <2>3
      <4>5. QED
        BY <3>2, <4>2, <4>3, <4>4
    <3>6. QED
      BY <3>4, <3>5
  <2>7. IsLargest(d, D) /\ IsLargest(marks[d] + j, B)
    BY <2>1, <2>5, <2>6 DEF IsLargest
  <2>8. IsInnermost(bindings, tags, prefix, d, marks[d] + j, j)
    BY <1>2, <2>2, <2>3, <2>4, <2>5, <2>7 DEF IsInnermost, B, D, n
  <2>9. QED
    BY <2>8
<1>8. QED
  BY <1>6, <1>7 DEF B, D

(* So the code's search from the end finds what is in scope.               *)
LEMMA LookupFindsScope ==
  ASSUME NEW marks, NEW bindings, NEW tags, IsScope(marks, bindings, tags), NEW prefix
  PROVE  Lookup(bindings, prefix) = InScope(tags, prefix)
<1> DEFINE B == BoundAt(bindings, prefix)
           D == DeclaredAt(tags, prefix)
<1>1. CASE prefix = XmlPrefix
  BY <1>1 DEF Lookup, InScope
<1>2. CASE prefix # XmlPrefix /\ B = {}
  <2>1. D = {}
    BY <1>2, InnermostIsLast
  <2>2. QED
    BY <1>2, <2>1 DEF Lookup, InScope, BoundAt, DeclaredAt
<1>3. CASE prefix # XmlPrefix /\ B # {}
  <2>1. PICK d, i, j : IsInnermost(bindings, tags, prefix, d, i, j)
    BY <1>3, InnermostIsLast
  <2> USE DEF IsInnermost
  <2>2. B \subseteq Nat /\ D \subseteq Nat
    BY SeqFacts DEF IsScope, BoundAt, DeclaredAt
  <2>3. /\ i = CHOOSE y \in B : \A z \in B : z <= y
        /\ d = CHOOSE y \in D : \A z \in D : z <= y
    BY <2>1, <2>2, LargestIsOne
  <2>4. Lookup(bindings, prefix) = bindings[i].uri
    BY <1>3, <2>3 DEF Lookup, BoundAt
  <2>5. DOMAIN tags[d].declared = 1..Len(tags[d].declared)
    BY <2>1, SeqFacts DEF IsScope
  <2>6. j = CHOOSE l \in DOMAIN tags[d].declared : tags[d].declared[l].prefix = prefix
    BY <2>1, <2>5
  <2>7. D # {}
    BY <2>1 DEF IsLargest
  <2>8. InScope(tags, prefix) = tags[d].declared[j].uri
    BY <1>3, <2>3, <2>6, <2>7 DEF InScope, DeclaredAt
  <2>9. QED
    BY <2>1, <2>4, <2>8
<1>4. QED
  BY <1>1, <1>2, <1>3

(* Only what the elements declare matters.                                 *)
LEMMA SameScope ==
  ASSUME NEW tags, IsSeq(tags), NEW tags2, DOMAIN tags2 = DOMAIN tags,
         \A d \in DOMAIN tags : tags2[d].declared = tags[d].declared, NEW prefix
  PROVE  InScope(tags2, prefix) = InScope(tags, prefix)
<1> DEFINE D == DeclaredAt(tags, prefix)
           D2 == DeclaredAt(tags2, prefix)
           c == CHOOSE d \in D : \A e \in D : e <= d
<1>1. D2 = D
  BY DEF DeclaredAt
<1>2. CASE D = {} \/ prefix = XmlPrefix
  BY <1>1, <1>2 DEF InScope, DeclaredAt
<1>3. CASE D # {} /\ prefix # XmlPrefix /\ c \in DOMAIN tags
  <2>1. tags2[c].declared = tags[c].declared
    BY <1>3
  <2>2. InScope(tags, prefix) = tags[c].declared[CHOOSE i \in DOMAIN tags[c].declared :
                                                   tags[c].declared[i].prefix = prefix].uri
    BY <1>3 DEF InScope, DeclaredAt
  <2>3. c = CHOOSE d \in D2 : \A e \in D2 : e <= d
    BY <1>1
  <2> HIDE DEF c
  <2>4. InScope(tags2, prefix) = tags2[c].declared[CHOOSE i \in DOMAIN tags2[c].declared :
                                                     tags2[c].declared[i].prefix = prefix].uri
    BY <1>1, <1>3, <2>3 DEF InScope, DeclaredAt
  <2>5. QED
    BY <2>1, <2>2, <2>4
<1>4. D # {} => c \in DOMAIN tags
  <2>1. Len(tags) \in Nat /\ DOMAIN tags = 1..Len(tags) /\ D \subseteq 1..Len(tags)
    BY SeqFacts DEF DeclaredAt
  <2> HIDE DEF D
  <2>2. D # {} => \E d \in D : \A e \in D : e <= d
    BY <2>1, Scan!NatMax
  <2>3. D # {} => c \in D
    BY <2>2, Zenon
  <2>4. QED
    BY <2>1, <2>3
<1>5. QED
  BY <1>2, <1>3, <1>4

(* What the open elements declare is legal.                                *)
IsLegal(bindings) == \A i \in 1..Len(bindings) : LegalBinding(bindings[i])

ScopeInv ==
  \A d \in 1..Depth : IsLegal(open[d].declared) /\ HasDistinctPrefixes(open[d].declared)

(* Between two calls the bindings are those of the open elements.          *)
LEMMA OpenScope ==
  ASSUME IInv, ScopeInv
  PROVE  IsScope(ns.frames, ns.bindings, open)
<1>1. IsSeq(open) /\ IsSeq(ns.bindings) /\ Len(open) = Depth /\ \A d \in 1..Depth : IsSeq(open[d].declared)
  BY DEF IInv, Shape, TagShape, IsTag
<1>2. Parted(Depth, ns.frames, Len(ns.bindings), ns.bindings, [d \in 1..Depth |-> open[d].declared])
  BY DEF IInv, BindingsInv, Declared
<1>3. QED
  BY <1>1, <1>2 DEF IsScope, ScopeInv

(* So it is while a start tag is judged, whose declarations are pushed.    *)
LEMMA PushedScope ==
  ASSUME IInv, ScopeInv, NEW name, NEW attrs \in Seq(LexicalAttributes), HasDistinctNames(attrs)
  PROVE  IsScope(Append(ns.frames, Len(ns.bindings)), Pushed(attrs), Append(open, Told(name, attrs)))
<1> DEFINE n == Depth
           k == Len(ns.bindings)
           new == Declarations(attrs)
           marks2 == Append(ns.frames, k)
           arena2 == Pushed(attrs)
           tags2 == Append(open, Told(name, attrs))
           parts2 == [d \in 1..n + 1 |-> tags2[d].declared]
<1>1. IsScope(ns.frames, ns.bindings, open)
  BY OpenScope
<1>2. /\ IsSeq(ns.frames) /\ IsSeq(ns.bindings) /\ IsSeq(open) /\ Len(ns.frames) = n
      /\ Len(open) = n /\ n \in Nat /\ k \in Nat
  BY SeqFacts DEF IInv, Shape, TagShape
<1>3. IsSeq(new) /\ HasDistinctPrefixes(new) /\ Len(new) \in Nat
  BY DeclarationFacts, SeqFacts DEF IsScan
<1>4. /\ \A d \in 1..n : marks2[d] = ns.frames[d]
      /\ marks2[n + 1] = k
  BY <1>2, AppendFacts
<1>5. /\ IsSeq(arena2) /\ Len(arena2) = k + Len(new) /\ SameValues(k, ns.bindings, arena2)
      /\ \A i \in 1..Len(new) : arena2[k + i] = new[i]
  BY <1>2, <1>3, ConcatFacts DEF Pushed, SameValues
<1>6. /\ IsSeq(tags2) /\ Len(tags2) = n + 1
      /\ \A d \in 1..n : tags2[d] = open[d]
      /\ tags2[n + 1] = Told(name, attrs)
  BY <1>2, AppendFacts
<1>7. Told(name, attrs).declared = new
  BY DEF Told
<1>8. /\ \A d \in 1..n : parts2[d] = Declared[d]
      /\ parts2[n + 1] = new
  BY <1>2, <1>6, <1>7 DEF Declared
<1>9. Parted(n, ns.frames, k, ns.bindings, Declared)
  BY DEF IInv, BindingsInv
<1> HIDE DEF n, k, new, marks2, arena2, tags2, parts2
<1>10. SameEntries(n, ns.frames, Declared, marks2, parts2)
  BY <1>4, <1>8 DEF SameEntries
<1>11. IsEntry(n + 1, marks2, k, Len(new), arena2, parts2)
  BY <1>4, <1>5, <1>8 DEF IsEntry
<1>12. Parted(n + 1, marks2, Len(arena2), arena2, parts2)
  BY <1>2, <1>3, <1>5, <1>9, <1>10, <1>11, PartedPush
<1>13. ASSUME NEW d \in 1..n + 1
       PROVE  IsSeq(tags2[d].declared) /\ HasDistinctPrefixes(tags2[d].declared)
  <2>1. CASE d = n + 1
    BY <1>3, <1>6, <1>7, <2>1
  <2>2. CASE d \in 1..n
    BY <1>1, <1>2, <1>6, <2>2 DEF IsScope
  <2>3. QED
    BY <1>2, <2>1, <2>2
<1>14. IsScope(marks2, arena2, tags2)
  BY <1>5, <1>6, <1>12, <1>13 DEF IsScope, parts2
<1>15. QED
  BY <1>14 DEF marks2, arena2, tags2, k

(* Attributes that are told apart as they are resolved are told apart as   *)
(* they are written.                                                       *)
LEMMA PreparableFacts ==
  ASSUME NEW name, NEW attrs \in Seq(LexicalAttributes), Preparable(name, attrs)
  PROVE  /\ HasDistinctNames(attrs)
         /\ IsLegal(Declarations(attrs)) /\ HasDistinctPrefixes(Declarations(attrs))
<1> DEFINE b == Pushed(attrs)
           resolved == [i \in DOMAIN attrs |-> AttributeName(b, attrs[i].name)]
<1>1. IsUnique(resolved)
  BY DEF Preparable, HasUniqueNames
<1>2. ASSUME NEW i \in DOMAIN attrs, NEW j \in DOMAIN attrs, attrs[i].name = attrs[j].name
      PROVE  i = j
  <2>1. resolved[i] = resolved[j]
    BY <1>2
  <2>2. i \in DOMAIN resolved /\ j \in DOMAIN resolved
    OBVIOUS
  <2> HIDE DEF resolved
  <2>3. QED
    BY <1>1, <2>1, <2>2 DEF IsUnique
<1>3. HasDistinctNames(attrs)
  BY <1>2 DEF HasDistinctNames
<1>4. HasDistinctPrefixes(Declarations(attrs)) /\ IsSeq(Declarations(attrs))
  BY <1>3, DeclarationFacts DEF IsScan
<1>5. IsLegal(Declarations(attrs))
  BY <1>4, SeqFacts DEF Preparable, Declarable, IsLegal
<1>6. QED
  BY <1>3, <1>4, <1>5

(* The namespace name of a prefix is not empty.                            *)
LEMMA PrefixedUri ==
  ASSUME NEW tags, IsSeq(tags),
         \A d \in 1..Len(tags) : IsSeq(tags[d].declared) /\ IsLegal(tags[d].declared),
         NEW prefix, prefix # ""
  PROVE  InScope(tags, prefix) # ""
<1> DEFINE D == DeclaredAt(tags, prefix)
           c == CHOOSE d \in D : \A e \in D : e <= d
           declared == tags[c].declared
           i == CHOOSE x \in DOMAIN declared : declared[x].prefix = prefix
<1>1. CASE prefix = XmlPrefix
  BY <1>1 DEF InScope, XmlUri
<1>2. CASE prefix # XmlPrefix /\ D = {}
  BY <1>2 DEF InScope, DeclaredAt, Unbound
<1>3. CASE prefix # XmlPrefix /\ D # {}
  <2>1. InScope(tags, prefix) = declared[i].uri
    BY <1>3 DEF InScope, DeclaredAt
  <2>2. Len(tags) \in Nat /\ DOMAIN tags = 1..Len(tags) /\ D \subseteq 1..Len(tags)
    BY SeqFacts DEF DeclaredAt
  <2>3. \A d \in D : \E x \in DOMAIN tags[d].declared : tags[d].declared[x].prefix = prefix
    BY DEF DeclaredAt
  <2> HIDE DEF D
  <2>4. c \in D
    <3>1. \E d \in D : \A e \in D : e <= d
      BY <1>3, <2>2, Scan!NatMax
    <3>2. QED
      BY <3>1, Zenon
  <2>5. c \in 1..Len(tags) /\ IsSeq(declared) /\ IsLegal(declared)
    BY <2>2, <2>4
  <2>6. \E x \in DOMAIN declared : declared[x].prefix = prefix
    BY <2>3, <2>4
  <2> HIDE DEF c, declared
  <2>7. i \in DOMAIN declared /\ declared[i].prefix = prefix
    BY <2>6, Zenon
  <2>8. LegalBinding(declared[i])
    BY <2>5, <2>7, SeqFacts DEF IsLegal
  <2> HIDE DEF i
  <2>9. declared[i].uri # ""
    BY <2>7, <2>8 DEF LegalBinding
  <2>10. QED
    BY <2>1, <2>9 DEF declared
<1>4. QED
  BY <1>1, <1>2, <1>3

(* What a start tag is judged by: its attribute names as they are          *)
(* resolved, over the scope its own declarations open.                     *)
IsPrefixed(attr) == ~IsDeclaration(attr) /\ attr.name.space # ""

(* A resolved name is the one that is written, or one of the namespace     *)
(* that the prefix is bound to.                                            *)
LEMMA ResolvedName ==
  ASSUME NEW bindings, NEW tags, NEW a \in LexicalAttributes,
         Lookup(bindings, a.name.space) = InScope(tags, a.name.space)
  PROVE  /\ a.name = [space |-> a.name.space, local |-> a.name.local]
         /\ IsPrefixed(a) => AttributeName(bindings, a.name)
                               = [space |-> InScope(tags, a.name.space), local |-> a.name.local]
         /\ ~IsPrefixed(a) => /\ AttributeName(bindings, a.name) = a.name
                              /\ a.name.space \in {"", XmlnsPrefix}
BY DEF LexicalAttributes, LexicalNames, AttributeName, IsPrefixed, IsDeclaration, IsNamespaceName

(* Two attributes get the same name ...                                    *)
Clash(tags, a, b) ==
  /\ IsPrefixed(a) /\ IsPrefixed(b) /\ a.name.local = b.name.local
  /\ InScope(tags, a.name.space) = InScope(tags, b.name.space)

Taken(tags, a, b) ==
  /\ IsPrefixed(a) /\ InScope(tags, a.name.space) = XmlnsPrefix
  /\ b.name = [space |-> XmlnsPrefix, local |-> a.name.local]

(* Every prefix is resolved by the scope, and none to no namespace.        *)
Resolves(bindings, tags) ==
  \A prefix : /\ Lookup(bindings, prefix) = InScope(tags, prefix)
              /\ prefix # "" => InScope(tags, prefix) # ""

(* Names are equal if their parts are.                                     *)
LEMMA SameParts ==
  ASSUME NEW s, NEW l, NEW s2, NEW l2
  PROVE  [space |-> s, local |-> l] = [space |-> s2, local |-> l2] <=> s = s2 /\ l = l2
OBVIOUS

(* Two attributes of a tag get the same name if both are prefixed and have *)
(* the same local part and namespace, or if one is taken for a declaration *)
(* of the other.                                                           *)
LEMMA SameResolvedName ==
  ASSUME NEW bindings, NEW tags, Resolves(bindings, tags),
         NEW a \in LexicalAttributes, NEW b \in LexicalAttributes, a.name # b.name
  PROVE  AttributeName(bindings, a.name) = AttributeName(bindings, b.name)
           <=> Clash(tags, a, b) \/ Taken(tags, a, b) \/ Taken(tags, b, a)
<1> DEFINE an == a.name
           bn == b.name
           A == AttributeName(bindings, an)
           B == AttributeName(bindings, bn)
           sa == an.space
           la == an.local
           sb == bn.space
           lb == bn.local
           ua == InScope(tags, sa)
           ub == InScope(tags, sb)
<1>1. /\ an = [space |-> sa, local |-> la]
      /\ IsPrefixed(a) => A = [space |-> ua, local |-> la]
      /\ ~IsPrefixed(a) => A = an /\ sa \in {"", XmlnsPrefix}
  BY ResolvedName DEF Resolves
<1>2. /\ bn = [space |-> sb, local |-> lb]
      /\ IsPrefixed(b) => B = [space |-> ub, local |-> lb]
      /\ ~IsPrefixed(b) => B = bn /\ sb \in {"", XmlnsPrefix}
  BY ResolvedName DEF Resolves
<1>3. /\ IsPrefixed(a) => sa # XmlnsPrefix /\ ua # ""
      /\ IsPrefixed(b) => sb # XmlnsPrefix /\ ub # ""
  BY DEF IsPrefixed, IsDeclaration, IsNamespaceName, Resolves
<1>4. /\ Clash(tags, a, b) <=> IsPrefixed(a) /\ IsPrefixed(b) /\ la = lb /\ ua = ub
      /\ Taken(tags, a, b)
           <=> IsPrefixed(a) /\ ua = XmlnsPrefix /\ bn = [space |-> XmlnsPrefix, local |-> la]
      /\ Taken(tags, b, a)
           <=> IsPrefixed(b) /\ ub = XmlnsPrefix /\ an = [space |-> XmlnsPrefix, local |-> lb]
  BY DEF Clash, Taken
<1>5. an # bn
  OBVIOUS
<1> SUFFICES A = B <=> Clash(tags, a, b) \/ Taken(tags, a, b) \/ Taken(tags, b, a)
  OBVIOUS
<1> HIDE DEF an, bn, A, B, sa, la, sb, lb, ua, ub
<1>6. /\ Taken(tags, a, b) <=> IsPrefixed(a) /\ ua = XmlnsPrefix /\ sb = XmlnsPrefix /\ lb = la
      /\ Taken(tags, b, a) <=> IsPrefixed(b) /\ ub = XmlnsPrefix /\ sa = XmlnsPrefix /\ la = lb
  <2>1. /\ bn = [space |-> XmlnsPrefix, local |-> la] <=> sb = XmlnsPrefix /\ lb = la
        /\ an = [space |-> XmlnsPrefix, local |-> lb] <=> sa = XmlnsPrefix /\ la = lb
    BY <1>1, <1>2, SameParts
  <2>2. QED
    BY <1>4, <2>1
<1>7. CASE IsPrefixed(a) /\ IsPrefixed(b)
  <2>1. A = B <=> ua = ub /\ la = lb
    BY <1>1, <1>2, <1>7, SameParts
  <2>2. QED
    BY <1>3, <1>4, <1>6, <1>7, <2>1
<1>8. CASE IsPrefixed(a) /\ ~IsPrefixed(b)
  <2>1. A = B <=> ua = sb /\ la = lb
    <3>1. A = [space |-> ua, local |-> la] /\ B = [space |-> sb, local |-> lb]
      BY <1>1, <1>2, <1>8
    <3>2. QED
      BY <3>1, SameParts
  <2>2. QED
    BY <1>2, <1>3, <1>4, <1>6, <1>8, <2>1
<1>9. CASE ~IsPrefixed(a) /\ IsPrefixed(b)
  <2>1. A = B <=> sa = ub /\ la = lb
    <3>1. A = [space |-> sa, local |-> la] /\ B = [space |-> ub, local |-> lb]
      BY <1>1, <1>2, <1>9
    <3>2. QED
      BY <3>1, SameParts
  <2>2. QED
    BY <1>1, <1>3, <1>4, <1>6, <1>9, <2>1
<1>10. CASE ~IsPrefixed(a) /\ ~IsPrefixed(b)
  BY <1>1, <1>2, <1>4, <1>5, <1>10
<1>11. QED
  BY <1>7, <1>8, <1>9, <1>10

(* A start tag is accepted if it may stand here.                           *)
LEMMA StartTagJudged ==
  ASSUME IInv, ScopeInv, NEW name, NEW attrs \in Seq(LexicalAttributes)
  PROVE  Preparable(name, attrs) <=> LegalStart(name, attrs) /\ ~TakenForDeclaration(name, attrs)
<1> DEFINE b == Pushed(attrs)
           tags == Append(open, Told(name, attrs))
           new == Declarations(attrs)
           resolved == [i \in DOMAIN attrs |-> AttributeName(b, attrs[i].name)]
<1>1. CASE ~HasDistinctNames(attrs)
  <2>1. ~Preparable(name, attrs)
    BY <1>1, PreparableFacts
  <2>2. ~LegalStart(name, attrs)
    BY <1>1 DEF LegalStart, HasDistinctNames
  <2>3. QED
    BY <2>1, <2>2
<1>2. CASE HasDistinctNames(attrs) /\ ~\A i \in DOMAIN new : LegalBinding(new[i])
  BY <1>2 DEF Preparable, Declarable, LegalStart
<1>3. CASE HasDistinctNames(attrs) /\ \A i \in DOMAIN new : LegalBinding(new[i])
  <2>1. \A p : Lookup(b, p) = InScope(tags, p)
    BY <1>3, PushedScope, LookupFindsScope
  <2>2. \A p : p # "" => InScope(tags, p) # ""
    <3>1. IsSeq(open) /\ Len(open) = Depth /\ \A d \in 1..Depth : IsTag(open[d])
      BY DEF IInv, Shape, TagShape
    <3>2. /\ IsSeq(tags) /\ Len(tags) = Depth + 1 /\ Depth \in Nat
          /\ \A d \in 1..Depth : tags[d] = open[d]
          /\ tags[Depth + 1] = Told(name, attrs)
      BY <3>1, AppendFacts, SeqFacts
    <3>3. Told(name, attrs).declared = new
      BY DEF Told
    <3>4. IsSeq(new) /\ IsLegal(new)
      BY <1>3, DeclarationFacts, SeqFacts DEF IsScan, IsLegal
    <3> HIDE DEF tags, new
    <3>5. \A d \in 1..Len(tags) : IsSeq(tags[d].declared) /\ IsLegal(tags[d].declared)
      <4>1. SUFFICES ASSUME NEW d \in 1..Depth + 1
                     PROVE  IsSeq(tags[d].declared) /\ IsLegal(tags[d].declared)
        BY <3>2
      <4>2. CASE d = Depth + 1
        BY <3>2, <3>3, <3>4, <4>2
      <4>3. CASE d \in 1..Depth
        BY <3>1, <3>2, <4>3 DEF ScopeInv, IsTag
      <4>4. QED
        BY <3>2, <4>2, <4>3
    <3>6. QED
      BY <3>2, <3>5, PrefixedUri
  <2>3. \A i \in DOMAIN attrs : attrs[i] \in LexicalAttributes
    OBVIOUS
  <2> HIDE DEF b, tags, new
  <2>4. ElementName(b, name).space # Unbound <=> InScope(tags, name.space) # Unbound
    BY <2>1 DEF ElementName
  <2>5. ASSUME NEW i \in DOMAIN attrs
        PROVE  AttributeName(b, attrs[i].name).space # Unbound
                 <=> (IsPrefixed(attrs[i]) => InScope(tags, attrs[i].name.space) # Unbound)
    <3> DEFINE a == attrs[i]
    <3>1. a \in LexicalAttributes /\ Lookup(b, a.name.space) = InScope(tags, a.name.space)
      BY <2>1, <2>3
    <3> HIDE DEF a
    <3>2. CASE IsPrefixed(a)
      <4>1. AttributeName(b, a.name) = [space |-> InScope(tags, a.name.space), local |-> a.name.local]
        BY <3>1, <3>2, ResolvedName
      <4>2. AttributeName(b, a.name).space = InScope(tags, a.name.space)
        BY <4>1
      <4>3. QED
        BY <3>2, <4>2 DEF a
    <3>3. CASE ~IsPrefixed(a)
      <4>1. AttributeName(b, a.name) = a.name /\ a.name.space \in {"", XmlnsPrefix}
        BY <3>1, <3>3, ResolvedName
      <4>2. a.name.space # Unbound
        BY <4>1 DEF Unbound, XmlnsPrefix
      <4>3. QED
        BY <3>3, <4>1, <4>2 DEF a
    <3>4. QED
      BY <3>2, <3>3
  <2>6. ASSUME NEW i \in DOMAIN attrs, NEW j \in DOMAIN attrs, i # j
        PROVE  AttributeName(b, attrs[i].name) = AttributeName(b, attrs[j].name)
                 <=> \/ Clash(tags, attrs[i], attrs[j])
                     \/ Taken(tags, attrs[i], attrs[j]) \/ Taken(tags, attrs[j], attrs[i])
    <3>1. attrs[i].name # attrs[j].name
      BY <1>3, <2>6 DEF HasDistinctNames
    <3>2. QED
      BY <2>1, <2>2, <2>3, <3>1, SameResolvedName DEF Resolves
  <2>7. ASSUME NEW i \in DOMAIN attrs
        PROVE  ~Taken(tags, attrs[i], attrs[i])
    <3>1. ASSUME Taken(tags, attrs[i], attrs[i])
          PROVE  attrs[i].name.space = XmlnsPrefix
      BY <3>1 DEF Taken
    <3>2. QED
      BY <3>1 DEF Taken, IsPrefixed, IsDeclaration, IsNamespaceName
  <2>8. IsUnique(resolved)
          <=> /\ \A i, j \in DOMAIN attrs : Clash(tags, attrs[i], attrs[j]) => i = j
              /\ \A i, j \in DOMAIN attrs : ~Taken(tags, attrs[i], attrs[j])
    <3>1. IsUnique(resolved)
            <=> \A i, j \in DOMAIN attrs :
                  AttributeName(b, attrs[i].name) = AttributeName(b, attrs[j].name) => i = j
      BY DEF IsUnique
    <3> HIDE DEF resolved
    <3>2. QED
      BY <2>6, <2>7, <3>1
  <2>9. TakenForDeclaration(name, attrs) <=> \E i, j \in DOMAIN attrs : Taken(tags, attrs[i], attrs[j])
    BY DEF TakenForDeclaration, Taken, IsPrefixed, tags
  <2>10. LegalStart(name, attrs)
           <=> /\ InScope(tags, name.space) # Unbound
               /\ \A i \in DOMAIN attrs : IsPrefixed(attrs[i]) => InScope(tags, attrs[i].name.space) # Unbound
               /\ \A i, j \in DOMAIN attrs : Clash(tags, attrs[i], attrs[j]) => i = j
               /\ open = <<>> => ~seenRoot
    BY <1>3 DEF LegalStart, Clash, IsPrefixed, tags, new, HasDistinctNames
  <2>11. Preparable(name, attrs)
           <=> /\ InScope(tags, name.space) # Unbound
               /\ \A i \in DOMAIN attrs : IsPrefixed(attrs[i]) => InScope(tags, attrs[i].name.space) # Unbound
               /\ IsUnique(resolved)
               /\ ~(seenRoot /\ Depth = 0)
    BY <1>3, <2>4, <2>5 DEF Preparable, Declarable, HasUniqueNames, b, new
  <2>12. open = <<>> <=> Depth = 0
    BY SeqFacts DEF IInv, Shape, TagShape
  <2>13. QED
    BY <2>8, <2>9, <2>10, <2>11, <2>12
<1>4. QED
  BY <1>1, <1>2, <1>3

-----------------------------------------------------------------------------
(* The names of the open elements.                                         *)

IsElement(e) ==
  e = [name |-> e.name, prefix |-> e.prefix, expanded |-> e.expanded,
       pathLength |-> e.pathLength, frame |-> e.frame]

IsNamed(e, tags, d) ==
  /\ tags[d].name \in LexicalNames
  /\ e.prefix = tags[d].name.space
  /\ e.name = [space |-> InScope(SubSeq(tags, 1, d), tags[d].name.space), local |-> tags[d].name.local]

NamesInv == \A d \in 1..Depth : IsElement(elements[d]) /\ IsNamed(elements[d], open, d)

(* Exactly the end tag is accepted that closes the innermost element.      *)
LEMMA EndTagJudged ==
  ASSUME IInv, ScopeInv, NamesInv, NEW name \in LexicalNames
  PROVE  Matches(name) <=> open # <<>> /\ Last(open).name = name
<1>1. /\ IsSeq(open) /\ IsSeq(elements) /\ Len(open) = Depth /\ Depth \in Nat
      /\ (open = <<>> <=> Depth = 0) /\ (elements = <<>> <=> Depth = 0)
  BY SeqFacts DEF IInv, Shape, TagShape, Depth
<1>2. CASE Depth = 0
  BY <1>1, <1>2 DEF Matches
<1>3. CASE Depth # 0
  <2> DEFINE tag == open[Depth]
  <2>1. Top = elements[Depth] /\ Last(open) = tag
    BY <1>1 DEF Top, Last, Depth
  <2>2. Depth \in 1..Depth
    BY <1>1, <1>3
  <2>3. SubSeq(open, 1, Depth) = open
    <3>1. Depth \in 0..Len(open)
      BY <1>1
    <3>2. /\ IsSeq(SubSeq(open, 1, Depth)) /\ Len(SubSeq(open, 1, Depth)) = Depth
          /\ \A d \in 1..Depth : SubSeq(open, 1, Depth)[d] = open[d]
      BY <1>1, <3>1, PrefixFacts
    <3>3. QED
      BY <1>1, <3>2, SameSeq
  <2>4. /\ tag.name \in LexicalNames /\ Top.prefix = tag.name.space
        /\ Top.name = [space |-> InScope(open, tag.name.space), local |-> tag.name.local]
    BY <2>1, <2>2, <2>3 DEF NamesInv, IsNamed
  <2>5. Lookup(ns.bindings, name.space) = InScope(open, name.space)
    BY OpenScope, LookupFindsScope
  <2>6. ElementName(ns.bindings, name) = [space |-> InScope(open, name.space), local |-> name.local]
    BY <2>5 DEF ElementName
  <2> HIDE DEF tag
  <2>7. /\ tag.name = [space |-> tag.name.space, local |-> tag.name.local]
        /\ name = [space |-> name.space, local |-> name.local]
    BY <2>4 DEF LexicalNames
  <2>8. Matches(name) <=> name.space = tag.name.space /\ name.local = tag.name.local
    BY <1>1, <1>3, <2>4, <2>6 DEF Matches
  <2>9. QED
    BY <1>1, <1>3, <2>1, <2>7, <2>8
<1>4. QED
  BY <1>2, <1>3

(* A step keeps what is named of the first n elements.                     *)
Kept(n) ==
  \A d \in 1..n :
    /\ IsElement(elements'[d])
    /\ elements'[d].name = elements[d].name /\ elements'[d].prefix = elements[d].prefix
    /\ open'[d].name = open[d].name /\ open'[d].declared = open[d].declared

(* Elements that are kept keep their names and their legal declarations.   *)
LEMMA KeptNames ==
  ASSUME IInv, IInv', ScopeInv, NamesInv, NEW n \in 0..Depth, n <= Depth', Kept(n)
  PROVE  \A d \in 1..n :
           /\ IsElement(elements'[d]) /\ IsNamed(elements'[d], open', d)
           /\ IsLegal(open'[d].declared) /\ HasDistinctPrefixes(open'[d].declared)
<1>1. /\ IsSeq(open) /\ Len(open) = Depth /\ IsSeq(open') /\ Len(open') = Depth'
      /\ Depth \in Nat /\ Depth' \in Nat
  BY SeqFacts DEF IInv, Shape, TagShape
<1>2. SUFFICES ASSUME NEW d \in 1..n
               PROVE  /\ IsElement(elements'[d]) /\ IsNamed(elements'[d], open', d)
                      /\ IsLegal(open'[d].declared) /\ HasDistinctPrefixes(open'[d].declared)
  OBVIOUS
<1>3. d \in 1..Depth /\ d \in 0..Len(open) /\ d \in 0..Len(open') /\ \A i \in 1..d : i \in 1..n
  BY <1>1
<1>4. /\ IsElement(elements'[d])
      /\ elements'[d].name = elements[d].name /\ elements'[d].prefix = elements[d].prefix
      /\ open'[d].name = open[d].name /\ open'[d].declared = open[d].declared
  BY DEF Kept
<1> DEFINE before == SubSeq(open, 1, d)
           after == SubSeq(open', 1, d)
<1>5. /\ IsSeq(before) /\ Len(before) = d /\ \A i \in 1..d : before[i] = open[i]
      /\ IsSeq(after) /\ Len(after) = d /\ \A i \in 1..d : after[i] = open'[i]
  BY <1>1, <1>3, PrefixFacts
<1> HIDE DEF before, after
<1>6. DOMAIN before = 1..d /\ DOMAIN after = 1..d
  BY <1>5, SeqFacts
<1>7. \A i \in 1..d : after[i].declared = before[i].declared
  BY <1>3, <1>5 DEF Kept
<1>8. \A p : InScope(after, p) = InScope(before, p)
  BY <1>5, <1>6, <1>7, SameScope
<1>9. IsNamed(elements[d], open, d)
  BY <1>3 DEF NamesInv
<1>10. IsNamed(elements'[d], open', d)
  BY <1>4, <1>8, <1>9 DEF IsNamed, before, after
<1>11. QED
  BY <1>3, <1>4, <1>10 DEF ScopeInv

(* A step that opens no element keeps the names of those that stay.        *)
LEMMA NamesClosed ==
  ASSUME IInv, IInv', ScopeInv, NamesInv, Depth' \in 0..Depth, Kept(Depth')
  PROVE  ScopeInv' /\ NamesInv'
<1> DEFINE n == Depth'
<1>1. n \in 0..Depth /\ n <= Depth' /\ Kept(n)
  BY SeqFacts DEF IInv, Shape, Depth
<1> HIDE DEF n
<1>2. \A d \in 1..n :
        /\ IsElement(elements'[d]) /\ IsNamed(elements'[d], open', d)
        /\ IsLegal(open'[d].declared) /\ HasDistinctPrefixes(open'[d].declared)
  BY <1>1, KeptNames
<1>3. QED
  BY <1>2 DEF ScopeInv, NamesInv, n, IsElement, IsNamed, IsLegal

(* A start tag names its element by the scope that its declarations open.  *)
LEMMA NamesOpened ==
  ASSUME IInv, IInv', ScopeInv, NamesInv, Depth' = Depth + 1, Kept(Depth),
         NEW name \in LexicalNames, NEW attrs \in Seq(LexicalAttributes), Preparable(name, attrs),
         NEW e, elements'[Depth + 1] = e, IsElement(e),
         e.name = ElementName(Pushed(attrs), name), e.prefix = name.space,
         open'[Depth + 1] = Told(name, attrs)
  PROVE  ScopeInv' /\ NamesInv'
<1> DEFINE n == Depth
           tag == Told(name, attrs)
           tags == Append(open, tag)
           after == SubSeq(open', 1, n + 1)
<1>1. /\ IsSeq(open) /\ Len(open) = n /\ IsSeq(open') /\ Len(open') = n + 1 /\ n \in Nat
      /\ n \in 0..Depth /\ n <= Depth'
  BY SeqFacts DEF IInv, Shape, TagShape
<1>2. \A d \in 1..n :
        /\ IsElement(elements'[d]) /\ IsNamed(elements'[d], open', d)
        /\ IsLegal(open'[d].declared) /\ HasDistinctPrefixes(open'[d].declared)
  BY <1>1, KeptNames
<1>3. /\ HasDistinctNames(attrs)
      /\ IsLegal(Declarations(attrs)) /\ HasDistinctPrefixes(Declarations(attrs))
  BY PreparableFacts
<1>4. tag.declared = Declarations(attrs) /\ tag.name = name
  BY DEF Told
<1>5. Lookup(Pushed(attrs), name.space) = InScope(tags, name.space)
  BY <1>3, PushedScope, LookupFindsScope
<1>6. /\ IsSeq(tags) /\ Len(tags) = n + 1 /\ \A d \in 1..n : tags[d] = open[d]
      /\ tags[n + 1] = tag
  BY <1>1, AppendFacts
<1>7. IsSeq(after) /\ Len(after) = n + 1 /\ \A d \in 1..n + 1 : after[d] = open'[d]
  <2>1. n + 1 \in 0..Len(open')
    BY <1>1
  <2>2. QED
    BY <1>1, <2>1, PrefixFacts
<1>8. open'[n + 1] = tag
  OBVIOUS
<1> HIDE DEF tag, tags, after
<1>9. InScope(after, name.space) = InScope(tags, name.space)
  <2>1. DOMAIN tags = 1..n + 1 /\ DOMAIN after = 1..n + 1
    BY <1>6, <1>7, SeqFacts
  <2>2. ASSUME NEW d \in 1..n + 1
        PROVE  after[d].declared = tags[d].declared
    <3>1. CASE d = n + 1
      BY <1>6, <1>7, <1>8, <3>1
    <3>2. CASE d \in 1..n
      BY <1>6, <1>7, <3>2 DEF Kept
    <3>3. QED
      BY <1>1, <3>1, <3>2
  <2>3. QED
    BY <1>6, <2>1, <2>2, SameScope
<1>10. e.name = [space |-> InScope(after, name.space), local |-> name.local]
  BY <1>5, <1>9 DEF ElementName
<1>11. IsNamed(e, open', n + 1)
  BY <1>4, <1>8, <1>10 DEF IsNamed, after
<1>12. ASSUME NEW d \in 1..n + 1
       PROVE  /\ IsElement(elements'[d]) /\ IsNamed(elements'[d], open', d)
              /\ IsLegal(open'[d].declared) /\ HasDistinctPrefixes(open'[d].declared)
  <2>1. CASE d = n + 1
    BY <1>3, <1>4, <1>8, <1>11, <2>1
  <2>2. CASE d \in 1..n
    BY <1>2, <2>2
  <2>3. QED
    BY <1>1, <2>1, <2>2
<1>13. Depth' = n + 1
  OBVIOUS
<1> HIDE DEF n
<1>14. QED
  BY <1>12, <1>13 DEF ScopeInv, NamesInv, IsElement, IsNamed, IsLegal

(* A path is rendered one segment after the other.                         *)
AddSegment(acc, e) == acc \o Segment(e)

Paths == INSTANCE Folding WITH Op <- AddSegment

(* RenderPath is a fold over the elements.                                 *)
LEMMA RenderedFolds ==
  ASSUME NEW s
  PROVE  Rendered(s) = Paths!Fold(<<>>, s)
BY DEF Rendered, FoldLeft, MapThenFoldSet, Max, AddSegment,
       Paths!Fold, Paths!Iterated, Paths!Iterates, Paths!Step, Paths!Largest

(* Another element adds its segment behind the path.                       *)
LEMMA RenderedAppend ==
  ASSUME NEW s, NEW t, NEW n \in Nat, DOMAIN s = 1..n, DOMAIN t = 1..n + 1,
         \A i \in 1..n : Segment(t[i]) = Segment(s[i])
  PROVE  Rendered(t) = Rendered(s) \o Segment(t[n + 1])
<1>1. Paths!Alike(s, t, n)
  BY DEF AddSegment, Paths!Alike
<1>2. PICK none : none = <<>>
  OBVIOUS
<1>3. Paths!Fold(none, t) = AddSegment(Paths!Fold(none, s), t[n + 1])
  BY <1>1, Paths!FoldAppend
<1>4. Rendered(t) = Paths!Fold(none, t) /\ Rendered(s) = Paths!Fold(none, s)
  BY <1>2, RenderedFolds
<1>5. QED
  BY <1>3, <1>4 DEF AddSegment

(* The path depends on the segments only.                                  *)
LEMMA RenderedSame ==
  ASSUME NEW s, NEW t, NEW n \in Nat, DOMAIN s = 1..n, DOMAIN t = 1..n,
         \A i \in 1..n : Segment(t[i]) = Segment(s[i])
  PROVE  Rendered(t) = Rendered(s)
BY RenderedFolds, Paths!FoldSame DEF AddSegment, Paths!Alike

(* No element, no path.                                                    *)
LEMMA RenderedEmpty ==
  ASSUME NEW s, DOMAIN s = 1..0
  PROVE  Rendered(s) = <<>>
BY RenderedFolds, Paths!FoldEmpty

(* A segment adds a mark and a name, or a name with its namespace in       *)
(* braces.                                                                 *)
LEMMA SegmentFacts ==
  ASSUME NEW e
  PROVE  IsSeq(Segment(e)) /\ Len(Segment(e)) = 2 + (IF e.expanded THEN 3 ELSE 0)
<1> DEFINE S == {"/", "{", "}", e.name.space, e.name.local}
           a == <<"/">>
           b == IF e.expanded THEN <<"{", e.name.space, "}">> ELSE <<>>
           c == <<e.name.local>>
<1>1. a \in Seq(S) /\ Len(a) = 1
  OBVIOUS
<1>2. c \in Seq(S) /\ Len(c) = 1
  OBVIOUS
<1>3. b \in Seq(S) /\ Len(b) = IF e.expanded THEN 3 ELSE 0
  <2>1. CASE e.expanded
    BY <2>1
  <2>2. CASE ~e.expanded
    BY <2>2
  <2>3. QED
    BY <2>1, <2>2
<1>4. Segment(e) = a \o b \o c
  BY DEF Segment
<1> HIDE DEF a, b, c, S
<1>5. IsSeq(a) /\ IsSeq(b) /\ IsSeq(c)
  BY <1>1, <1>2, <1>3, SeqIsSeq
<1> DEFINE ab == a \o b
<1>6. IsSeq(ab) /\ Len(ab) = 1 + Len(b)
  BY <1>1, <1>5, ConcatFacts
<1> HIDE DEF ab
<1>7. IsSeq(ab \o c) /\ Len(ab \o c) = 1 + Len(b) + 1
  <2>1. IsSeq(ab \o c) /\ Len(ab \o c) = Len(ab) + Len(c)
    BY <1>5, <1>6, ConcatFacts, Zenon
  <2>2. QED
    BY <1>2, <1>6, <2>1
<1> USE DEF ab
<1>8. CASE e.expanded
  BY <1>3, <1>4, <1>7, <1>8
<1>9. CASE ~e.expanded
  BY <1>3, <1>4, <1>7, <1>9
<1>10. QED
  BY <1>8, <1>9

(* A segment depends on the name and on how it is written only.            *)
LEMMA SegmentSame ==
  ASSUME NEW e, NEW f, e.name = f.name, e.expanded = f.expanded
  PROVE  Segment(e) = Segment(f)
BY DEF Segment

(* Concatenation is associative.                                           *)
LEMMA ConcatTwice ==
  ASSUME NEW s, IsSeq(s), NEW t, IsSeq(t), NEW u, IsSeq(u)
  PROVE  (s \o t) \o u = s \o (t \o u)
<1> DEFINE S == Range(s) \union Range(t) \union Range(u)
<1>1. s \in Seq(S) /\ t \in Seq(S) /\ u \in Seq(S)
  <2>1. Range(s) \subseteq S /\ Range(t) \subseteq S /\ Range(u) \subseteq S
    OBVIOUS
  <2>2. QED
    BY <2>1, SeqMonotonic DEF IsSeq
<1> HIDE DEF S
<1>2. QED
  BY <1>1, ConcatAssociative

(* A slice of a sequence.                                                  *)
LEMMA SliceFacts ==
  ASSUME NEW s, IsSeq(s), NEW c \in Nat, NEW k \in Nat, c + k <= Len(s)
  PROVE  /\ IsSeq(SubSeq(s, c + 1, c + k)) /\ Len(SubSeq(s, c + 1, c + k)) = k
         /\ \A i \in 1..k : SubSeq(s, c + 1, c + k)[i] = s[c + i]
<1> DEFINE S == Range(s)
           a == c + 1
           e == c + k
<1>1. Len(s) \in Nat /\ s \in Seq(S)
  BY SeqFacts DEF IsSeq
<1> HIDE DEF S
<1>2. \A i \in a..e : s[i] \in S
  BY <1>1
<1>3. a \in Int /\ e \in Int
  OBVIOUS
<1> HIDE DEF a, e
<1>4. /\ SubSeq(s, a, e) \in Seq(S)
      /\ Len(SubSeq(s, a, e)) = IF a <= e THEN e - a + 1 ELSE 0
      /\ \A i \in 1..e - a + 1 : SubSeq(s, a, e)[i] = s[a + i - 1]
  BY <1>2, <1>3, SubSeqProperties
<1>5. e - a + 1 = k /\ Len(SubSeq(s, a, e)) = k
  BY <1>4 DEF a, e
<1>6. \A i \in 1..k : a + i - 1 = c + i
  BY DEF a
<1>7. IsSeq(SubSeq(s, a, e))
  BY <1>4, SeqIsSeq
<1>8. \A i \in 1..k : SubSeq(s, a, e)[i] = s[c + i]
  BY <1>4, <1>5, <1>6
<1>9. QED
  BY <1>5, <1>7, <1>8 DEF a, e

(* The path of the first d elements.                                       *)
PathOf(stack, d) == Rendered(SubSeq(stack, 1, d))

(* Stacks whose first segments are the same have the same path there.      *)
LEMMA PathSame ==
  ASSUME NEW s, IsSeq(s), NEW t, IsSeq(t), NEW d \in Nat, d <= Len(s), d <= Len(t),
         \A i \in 1..d : Segment(t[i]) = Segment(s[i])
  PROVE  PathOf(t, d) = PathOf(s, d)
<1> DEFINE u == SubSeq(s, 1, d)
           v == SubSeq(t, 1, d)
<1>1. Len(s) \in Nat /\ Len(t) \in Nat
  BY SeqFacts
<1>2. d \in 0..Len(s) /\ d \in 0..Len(t)
  BY <1>1
<1>3. /\ IsSeq(u) /\ Len(u) = d /\ \A i \in 1..d : u[i] = s[i]
      /\ IsSeq(v) /\ Len(v) = d /\ \A i \in 1..d : v[i] = t[i]
  BY <1>2, PrefixFacts
<1> HIDE DEF u, v
<1>4. DOMAIN u = 1..d /\ DOMAIN v = 1..d
  BY <1>3, SeqFacts
<1>5. Rendered(v) = Rendered(u)
  BY <1>3, <1>4, RenderedSame
<1>6. QED
  BY <1>5 DEF PathOf, u, v

(* The path of nothing is empty.                                           *)
LEMMA PathEmpty ==
  ASSUME NEW s, IsSeq(s)
  PROVE  PathOf(s, 0) = <<>>
<1> DEFINE u == SubSeq(s, 1, 0)
<1>1. IsSeq(u) /\ Len(u) = 0
  BY SeqFacts, PrefixFacts
<1> HIDE DEF u
<1>2. DOMAIN u = 1..0
  BY <1>1, SeqFacts
<1>3. QED
  BY <1>2, RenderedEmpty DEF PathOf, u

(* The path of one more element is the path before it and its segment.     *)
LEMMA PathStep ==
  ASSUME NEW s, IsSeq(s), NEW d \in Nat, d < Len(s)
  PROVE  PathOf(s, d + 1) = PathOf(s, d) \o Segment(s[d + 1])
<1> DEFINE u == SubSeq(s, 1, d)
           v == SubSeq(s, 1, d + 1)
<1>1. Len(s) \in Nat /\ d \in 0..Len(s) /\ d + 1 \in 0..Len(s)
  BY SeqFacts
<1>2. /\ IsSeq(u) /\ Len(u) = d /\ \A i \in 1..d : u[i] = s[i]
      /\ IsSeq(v) /\ Len(v) = d + 1 /\ \A i \in 1..d + 1 : v[i] = s[i]
  BY <1>1, PrefixFacts
<1> HIDE DEF u, v
<1>3. DOMAIN u = 1..d /\ DOMAIN v = 1..d + 1
  BY <1>2, SeqFacts
<1>4. (\A i \in 1..d : v[i] = u[i]) /\ v[d + 1] = s[d + 1]
  BY <1>2
<1>5. Rendered(v) = Rendered(u) \o Segment(s[d + 1])
  BY <1>3, <1>4, RenderedAppend
<1>6. QED
  BY <1>5 DEF PathOf, u, v

(* A path is a sequence.                                                   *)
LEMMA PathIsSeq ==
  ASSUME NEW s, IsSeq(s)
  PROVE  \A d \in Nat : d <= Len(s) => IsSeq(PathOf(s, d))
<1> DEFINE T == {d \in Nat : d <= Len(s) => IsSeq(PathOf(s, d))}
<1>1. Len(s) \in Nat
  BY SeqFacts
<1>2. 0 \in T
  BY PathEmpty, EmptyIsSeq
<1>3. ASSUME NEW d \in Nat, d \in T
      PROVE  d + 1 \in T
  <2>1. SUFFICES ASSUME d + 1 <= Len(s)
                 PROVE  IsSeq(PathOf(s, d + 1))
    OBVIOUS
  <2>2. d < Len(s) /\ IsSeq(PathOf(s, d))
    BY <1>1, <1>3, <2>1
  <2>3. PathOf(s, d + 1) = PathOf(s, d) \o Segment(s[d + 1])
    BY <2>2, PathStep
  <2>4. QED
    BY <2>2, <2>3, SegmentFacts, ConcatFacts
<1> HIDE DEF T
<1>4. \A d \in Nat : d \in T
  BY <1>2, <1>3, Paths!NatInduct
<1>5. QED
  BY <1>4 DEF T

(* The path of some elements and that of those above them.                 *)
LEMMA PathSplit ==
  ASSUME NEW s, IsSeq(s), NEW c \in Nat, c <= Len(s)
  PROVE  \A k \in Nat : c + k <= Len(s) =>
           PathOf(s, c + k) = PathOf(s, c) \o Rendered(SubSeq(s, c + 1, c + k))
<1> DEFINE rest == [k \in Nat |-> SubSeq(s, c + 1, c + k)]
           T == {k \in Nat : c + k <= Len(s) =>
                   IsSeq(Rendered(rest[k])) /\ PathOf(s, c + k) = PathOf(s, c) \o Rendered(rest[k])}
<1>1. Len(s) \in Nat /\ IsSeq(PathOf(s, c))
  BY SeqFacts, PathIsSeq
<1>2. \A k \in Nat : c + k <= Len(s) =>
        /\ DOMAIN rest[k] = 1..k
        /\ \A i \in 1..k : rest[k][i] = s[c + i]
  BY SliceFacts, SeqFacts
<1> HIDE DEF rest
<1>3. 0 \in T
  <2>1. DOMAIN rest[0] = 1..0
    BY <1>2
  <2>2. Rendered(rest[0]) = <<>>
    BY <2>1, RenderedEmpty
  <2>3. PathOf(s, c) \o <<>> = PathOf(s, c)
    <3>1. PathOf(s, c) \in Seq(Range(PathOf(s, c)))
      BY <1>1 DEF IsSeq
    <3>2. QED
      BY <3>1, ConcatEmptySeq
  <2>4. c + 0 = c
    OBVIOUS
  <2>5. QED
    BY <2>2, <2>3, <2>4, EmptyIsSeq
<1>4. ASSUME NEW k \in Nat, k \in T
      PROVE  k + 1 \in T
  <2>1. SUFFICES ASSUME c + (k + 1) <= Len(s)
                 PROVE  /\ IsSeq(Rendered(rest[k + 1]))
                        /\ PathOf(s, c + (k + 1)) = PathOf(s, c) \o Rendered(rest[k + 1])
    OBVIOUS
  <2>2. c + k <= Len(s) /\ c + k < Len(s) /\ c + k \in Nat /\ c + (k + 1) = (c + k) + 1
    BY <1>1, <2>1
  <2> DEFINE old == Rendered(rest[k])
             seg == Segment(s[(c + k) + 1])
  <2>3. IsSeq(old) /\ PathOf(s, c + k) = PathOf(s, c) \o old
    BY <1>4, <2>2
  <2>4. PathOf(s, (c + k) + 1) = PathOf(s, c + k) \o seg
    BY <2>2, PathStep
  <2>5. Rendered(rest[k + 1]) = old \o seg
    <3>1. DOMAIN rest[k] = 1..k /\ DOMAIN rest[k + 1] = 1..k + 1
      BY <1>2, <2>1, <2>2
    <3>2. \A i \in 1..k : rest[k + 1][i] = rest[k][i]
      BY <1>2, <2>1, <2>2
    <3>3. rest[k + 1][k + 1] = s[(c + k) + 1]
      <4>1. k + 1 \in 1..k + 1
        OBVIOUS
      <4>2. rest[k + 1][k + 1] = s[c + (k + 1)]
        BY <1>2, <2>1, <4>1
      <4>3. QED
        BY <2>2, <4>2
    <3>4. \A i \in 1..k : Segment(rest[k + 1][i]) = Segment(rest[k][i])
      BY <3>2
    <3>5. Rendered(rest[k + 1]) = Rendered(rest[k]) \o Segment(rest[k + 1][k + 1])
      BY <3>1, <3>4, RenderedAppend
    <3>6. QED
      BY <3>3, <3>5
  <2>6. IsSeq(seg)
    BY SegmentFacts
  <2> HIDE DEF old, seg
  <2>7. IsSeq(old \o seg)
    BY <2>3, <2>6, ConcatFacts
  <2>8. (PathOf(s, c) \o old) \o seg = PathOf(s, c) \o (old \o seg)
    <3> DEFINE p == PathOf(s, c)
    <3>1. IsSeq(p) /\ IsSeq(old) /\ IsSeq(seg)
      BY <1>1, <2>3, <2>6
    <3> HIDE DEF p
    <3>2. (p \o old) \o seg = p \o (old \o seg)
      BY <3>1, ConcatTwice
    <3>3. QED
      BY <3>2 DEF p
  <2>9. QED
    BY <2>2, <2>3, <2>4, <2>5, <2>7, <2>8
<1> HIDE DEF T
<1>5. \A k \in Nat : k \in T
  BY <1>3, <1>4, Paths!NatInduct
<1>6. QED
  BY <1>5 DEF T, rest

(* The cache holds the path of as many elements as it says, and each       *)
(* element the length of its own.                                          *)
CacheOf(cache, stack) ==
  cache.depth \in 0..Len(stack) /\ cache.text = PathOf(stack, cache.depth)

Measured(stack) ==
  \A d \in 1..Len(stack) : stack[d].pathLength = Len(PathOf(stack, d))

PathInv == CacheOf(path, elements) /\ Measured(elements)

(* To ask for the path renders the elements that the cache lacks.          *)
LEMMA AskedFacts ==
  ASSUME NEW stack, IsSeq(stack), NEW cache, CacheOf(cache, stack)
  PROVE  CacheOf(Asked(cache, stack), stack)
<1> DEFINE n == Len(stack)
           c == cache.depth
<1>1. n \in Nat /\ c \in 0..n /\ cache.text = PathOf(stack, c)
  BY SeqFacts DEF CacheOf
<1>2. CASE stack = <<>> \/ c = n
  BY <1>2 DEF Asked
<1>3. CASE ~(stack = <<>> \/ c = n)
  <2> DEFINE more == Rendered(SubSeq(stack, c + 1, n))
  <2>1. Asked(cache, stack) = [text |-> cache.text \o more, depth |-> n]
    BY <1>3 DEF Asked
  <2> DEFINE k == n - c
  <2>2. k \in Nat /\ c \in Nat /\ c <= n /\ c + k = n
    BY <1>1
  <2> HIDE DEF k, c
  <2>3. PathOf(stack, c + k) = PathOf(stack, c) \o Rendered(SubSeq(stack, c + 1, c + k))
    <3>1. \A x \in Nat : c + x <= Len(stack) =>
            PathOf(stack, c + x) = PathOf(stack, c) \o Rendered(SubSeq(stack, c + 1, c + x))
      BY <2>2, PathSplit
    <3>2. c + k <= Len(stack)
      BY <1>1, <2>2
    <3>3. QED
      BY <2>2, <3>1, <3>2
  <2> USE DEF c
  <2>4. PathOf(stack, n) = cache.text \o more
    BY <1>1, <2>2, <2>3
  <2> HIDE DEF more
  <2>5. Asked(cache, stack).depth = n /\ Asked(cache, stack).text = PathOf(stack, n)
    BY <2>1, <2>4
  <2>6. QED
    BY <1>1, <2>5 DEF CacheOf
<1>4. QED
  BY <1>2, <1>3

(* The elements below the last one.                                        *)
LEMMA FrontPath ==
  ASSUME NEW stack, IsSeq(stack), stack # <<>>
  PROVE  \A d \in 0..Len(stack) - 1 : PathOf(Front(stack), d) = PathOf(stack, d)
<1>1. /\ IsSeq(Front(stack)) /\ Len(stack) \in Nat \ {0} /\ Len(Front(stack)) = Len(stack) - 1
      /\ \A d \in 1..Len(stack) - 1 : Front(stack)[d] = stack[d]
  BY FrontFacts
<1> DEFINE s == Front(stack)
<1> HIDE DEF s
<1>2. ASSUME NEW d \in 0..Len(stack) - 1
      PROVE  PathOf(s, d) = PathOf(stack, d)
  <2>1. /\ IsSeq(s) /\ d \in Nat /\ d <= Len(stack) /\ d <= Len(s)
        /\ \A i \in 1..d : Segment(s[i]) = Segment(stack[i])
    BY <1>1 DEF s
  <2>2. QED
    BY <2>1, PathSame
<1>3. QED
  BY <1>2 DEF s

(* Without the last element the recorded lengths are still right.          *)
LEMMA FrontMeasured ==
  ASSUME NEW stack, IsSeq(stack), stack # <<>>, Measured(stack)
  PROVE  Measured(Front(stack))
<1>1. /\ Len(stack) \in Nat \ {0} /\ Len(Front(stack)) = Len(stack) - 1
      /\ \A d \in 1..Len(stack) - 1 : Front(stack)[d] = stack[d]
  BY FrontFacts
<1>2. \A d \in 1..Len(stack) - 1 : d \in 0..Len(stack) - 1 /\ d \in 1..Len(stack)
  BY <1>1
<1>3. QED
  BY <1>1, <1>2, FrontPath DEF Measured

(* The end of an element cuts the cache back by its segment.               *)
LEMMA PoppedFacts ==
  ASSUME NEW stack, IsSeq(stack), stack # <<>>, Measured(stack), NEW cache, CacheOf(cache, stack)
  PROVE  CacheOf(Popped(cache, Front(stack)), Front(stack))
<1> DEFINE rest == Front(stack)
           n == Len(stack)
           c == cache.depth
<1>1. /\ IsSeq(rest) /\ n \in Nat \ {0} /\ Len(rest) = n - 1
      /\ \A d \in 1..n - 1 : rest[d] = stack[d]
      /\ (rest = <<>> <=> n - 1 = 0)
  BY FrontFacts, SeqFacts
<1>2. \A d \in 0..n - 1 : PathOf(rest, d) = PathOf(stack, d)
  BY FrontPath
<1>3. c \in 0..n /\ cache.text = PathOf(stack, c)
  BY DEF CacheOf
<1> HIDE DEF rest
<1>4. CASE c <= n - 1
  <2>1. Popped(cache, rest) = cache
    BY <1>1, <1>4 DEF Popped
  <2>2. c \in 0..n - 1
    BY <1>1, <1>3, <1>4
  <2>3. QED
    BY <1>1, <1>2, <1>3, <2>1, <2>2 DEF CacheOf, rest
<1>5. CASE ~(c <= n - 1) /\ rest = <<>>
  <2>1. Popped(cache, rest) = [text |-> <<>>, depth |-> 0]
    BY <1>1, <1>5 DEF Popped
  <2>2. PathOf(rest, 0) = <<>>
    BY <1>1, PathEmpty
  <2>3. QED
    BY <1>1, <1>5, <2>1, <2>2 DEF CacheOf, rest
<1>6. CASE ~(c <= n - 1) /\ rest # <<>>
  <2> DEFINE m == n - 1
             p == PathOf(stack, m)
             seg == Segment(stack[n])
  <2>1. m \in Nat \ {0} /\ m < n /\ m + 1 = n /\ c = n /\ m \in 1..n /\ m \in 0..m
    BY <1>1, <1>3, <1>6
  <2>2. IsSeq(p) /\ IsSeq(seg)
    BY <2>1, PathIsSeq, SegmentFacts
  <2>3. cache.text = p \o seg
    <3>1. PathOf(stack, m + 1) = PathOf(stack, m) \o Segment(stack[m + 1])
      BY <2>1, PathStep
    <3>2. QED
      BY <1>3, <2>1, <3>1
  <2>4. Last(rest).pathLength = Len(p)
    <3>1. Last(rest) = stack[m]
      BY <1>1, <2>1 DEF Last
    <3>2. QED
      BY <2>1, <3>1 DEF Measured
  <2> HIDE DEF p, seg, m
  <2>5. SubSeq(cache.text, 1, Len(p)) = p
    <3>1. /\ IsSeq(p \o seg) /\ Len(p \o seg) = Len(p) + Len(seg)
          /\ Len(p) \in Nat /\ Len(seg) \in Nat
          /\ \A i \in 1..Len(p) : (p \o seg)[i] = p[i]
      BY <2>2, ConcatFacts, SeqFacts
    <3> DEFINE whole == p \o seg
               cut == SubSeq(whole, 1, Len(p))
    <3> HIDE DEF whole
    <3>2. IsSeq(whole) /\ Len(p) \in 0..Len(whole) /\ \A i \in 1..Len(p) : whole[i] = p[i]
      BY <3>1 DEF whole
    <3>3. IsSeq(cut) /\ Len(cut) = Len(p) /\ \A i \in 1..Len(p) : cut[i] = whole[i]
      BY <3>2, PrefixFacts
    <3> HIDE DEF cut
    <3>4. cut = p
      BY <2>2, <3>2, <3>3, SameSeq
    <3>5. QED
      BY <2>3, <3>4 DEF cut, whole
  <2>6. Popped(cache, rest) = [text |-> p, depth |-> m]
    BY <1>1, <1>6, <2>4, <2>5 DEF Popped, m
  <2>7. Popped(cache, rest).text = p /\ Popped(cache, rest).depth = m
    BY <2>6
  <2>8. PathOf(rest, m) = p
    BY <1>2, <2>1 DEF m, p
  <2>9. QED
    BY <1>1, <2>1, <2>7, <2>8 DEF CacheOf, rest, m
<1>7. QED
  BY <1>4, <1>5, <1>6

(* A new element is measured by the one below it.                          *)
LEMMA PushFacts ==
  ASSUME NEW stack, IsSeq(stack), Measured(stack),
         NEW e, e.pathLength = PathLength(stack, e.expanded)
  PROVE  /\ Measured(Append(stack, e))
         /\ \A cache : CacheOf(cache, stack) => CacheOf(cache, Append(stack, e))
<1> DEFINE n == Len(stack)
           s == Append(stack, e)
<1>1. /\ IsSeq(s) /\ Len(s) = n + 1 /\ n \in Nat
      /\ \A d \in 1..n : s[d] = stack[d]
      /\ s[n + 1] = e
      /\ (stack = <<>> <=> n = 0)
  BY AppendFacts, SeqFacts
<1> HIDE DEF s
<1>2. ASSUME NEW d \in 0..n
      PROVE  PathOf(s, d) = PathOf(stack, d)
  <2>1. d \in Nat /\ d <= n /\ d <= Len(s) /\ \A i \in 1..d : i \in 1..n
    BY <1>1
  <2>2. \A i \in 1..d : Segment(s[i]) = Segment(stack[i])
    <3>1. \A i \in 1..d : s[i] = stack[i]
      BY <1>1, <2>1
    <3>2. QED
      BY <3>1
  <2>3. QED
    BY <1>1, <2>1, <2>2, PathSame
<1>3. PathOf(s, n + 1) = PathOf(stack, n) \o Segment(e)
  <2>1. n < Len(s)
    BY <1>1
  <2>2. PathOf(s, n + 1) = PathOf(s, n) \o Segment(s[n + 1])
    BY <1>1, <2>1, PathStep
  <2>3. n \in 0..n
    BY <1>1
  <2>4. PathOf(s, n) = PathOf(stack, n)
    BY <1>2, <2>3
  <2>5. QED
    BY <1>1, <2>2, <2>4
<1>4. Len(PathOf(s, n + 1)) = Len(PathOf(stack, n)) + Len(Segment(e)) /\ Len(PathOf(stack, n)) \in Nat
  <2> DEFINE p == PathOf(stack, n)
             seg == Segment(e)
  <2>1. IsSeq(p) /\ IsSeq(seg)
    BY <1>1, PathIsSeq, SegmentFacts
  <2> HIDE DEF p, seg
  <2>2. Len(p \o seg) = Len(p) + Len(seg) /\ Len(p) \in Nat
    BY <2>1, ConcatFacts, SeqFacts
  <2>3. QED
    BY <1>3, <2>2 DEF p, seg
<1>5. (IF stack = <<>> THEN 0 ELSE Last(stack).pathLength) = Len(PathOf(stack, n))
  <2>1. CASE n = 0
    <3>1. PathOf(stack, n) = <<>>
      BY <2>1, PathEmpty
    <3>2. QED
      BY <1>1, <2>1, <3>1, EmptyIsSeq
  <2>2. CASE n # 0
    <3>1. n \in 1..n /\ Last(stack) = stack[n]
      BY <1>1, <2>2 DEF Last
    <3>2. QED
      BY <1>1, <2>2, <3>1 DEF Measured
  <2>3. QED
    BY <2>1, <2>2
<1>6. e.pathLength = Len(PathOf(s, n + 1))
  <2>1. e.pathLength = 2 + (IF e.expanded THEN 3 ELSE 0) + Len(PathOf(stack, n))
    BY <1>5 DEF PathLength
  <2>2. Len(Segment(e)) = 2 + (IF e.expanded THEN 3 ELSE 0)
    BY SegmentFacts
  <2>3. CASE e.expanded
    BY <1>4, <2>1, <2>2, <2>3
  <2>4. CASE ~e.expanded
    BY <1>4, <2>1, <2>2, <2>4
  <2>5. QED
    BY <2>3, <2>4
<1>7. Measured(s)
  <2>1. ASSUME NEW d \in 1..n + 1
        PROVE  s[d].pathLength = Len(PathOf(s, d))
    <3>1. CASE d = n + 1
      BY <1>1, <1>6, <3>1
    <3>2. CASE d # n + 1
      <4>1. d \in 1..n /\ d \in 0..n
        BY <1>1, <3>2
      <4>2. QED
        BY <1>1, <1>2, <4>1 DEF Measured
    <3>3. QED
      BY <3>1, <3>2
  <2>2. QED
    BY <1>1, <2>1 DEF Measured
<1>8. ASSUME NEW cache, CacheOf(cache, stack)
      PROVE  CacheOf(cache, s)
  <2>1. cache.depth \in 0..n /\ cache.depth \in 0..n + 1
    BY <1>1, <1>8 DEF CacheOf
  <2>2. QED
    BY <1>1, <1>2, <1>8, <2>1 DEF CacheOf
<1>9. QED
  BY <1>7, <1>8 DEF s

(* A step that leaves the names, their spelling and the lengths alone      *)
(* leaves the path alone.                                                  *)
LEMMA SamePaths ==
  ASSUME NEW s, IsSeq(s), NEW t, IsSeq(t), Len(t) = Len(s),
         \A d \in 1..Len(s) : /\ t[d].name = s[d].name /\ t[d].expanded = s[d].expanded
                              /\ t[d].pathLength = s[d].pathLength
  PROVE  /\ Measured(s) => Measured(t)
         /\ \A cache : CacheOf(cache, s) => CacheOf(cache, t)
<1>1. Len(s) \in Nat
  BY SeqFacts
<1>2. ASSUME NEW d \in 0..Len(s)
      PROVE  PathOf(t, d) = PathOf(s, d)
  <2>1. /\ d \in Nat /\ d <= Len(s) /\ d <= Len(t)
        /\ \A i \in 1..d : Segment(t[i]) = Segment(s[i])
    BY <1>1, SegmentSame
  <2>2. QED
    BY <2>1, PathSame
<1>3. \A d \in 1..Len(s) : d \in 0..Len(s)
  BY <1>1
<1>4. QED
  BY <1>2, <1>3 DEF Measured, CacheOf

-----------------------------------------------------------------------------
(* The handlers keep names and paths.                                      *)

NameInv == IInv /\ ScopeInv /\ NamesInv /\ PathInv

(* A step that leaves the open elements alone keeps all of it.             *)
LEMMA NamesUnchanged ==
  ASSUME NameInv, IInv', UNCHANGED <<elements, ns.frames, ns.bindings, open, path>>
  PROVE  NameInv'
BY DEF NameInv, ScopeInv, NamesInv, PathInv, IsElement, IsNamed, IsLegal, CacheOf, Measured, PathOf, Depth

(* Without its frame an element is the same.                               *)
LEMMA DroppedFacts ==
  ASSUME NEW stack, IsSeq(stack), \A d \in 1..Len(stack) : IsElement(stack[d]), Discard(stack)
  PROVE  /\ IsSeq(elements') /\ Depth' = Len(stack)
         /\ \A d \in 1..Len(stack) :
              /\ IsElement(elements'[d])
              /\ elements'[d].name = stack[d].name /\ elements'[d].prefix = stack[d].prefix
              /\ elements'[d].expanded = stack[d].expanded
              /\ elements'[d].pathLength = stack[d].pathLength
<1>1. Len(stack) \in Nat /\ DOMAIN stack = 1..Len(stack)
  BY SeqFacts
<1>2. elements' = [d \in 1..Len(stack) |-> [stack[d] EXCEPT !.frame = EmptyFrame]]
  BY <1>1 DEF Discard
<1>3. elements' = [d \in 1..Len(stack) |-> elements'[d]]
  BY <1>2
<1>4. IsSeq(elements') /\ Depth' = Len(stack)
  BY <1>1, <1>3, MapFacts DEF Depth
<1>5. ASSUME NEW d \in 1..Len(stack)
      PROVE  /\ IsElement(elements'[d])
             /\ elements'[d].name = stack[d].name /\ elements'[d].prefix = stack[d].prefix
             /\ elements'[d].expanded = stack[d].expanded
             /\ elements'[d].pathLength = stack[d].pathLength
  <2> DEFINE e == stack[d]
             f == [name |-> e.name, prefix |-> e.prefix, expanded |-> e.expanded,
                   pathLength |-> e.pathLength, frame |-> EmptyFrame]
  <2>1. e = [name |-> e.name, prefix |-> e.prefix, expanded |-> e.expanded,
             pathLength |-> e.pathLength, frame |-> e.frame]
    BY DEF IsElement
  <2>2. elements'[d] = [e EXCEPT !.frame = EmptyFrame]
    BY <1>2
  <2> HIDE DEF e
  <2>3. [e EXCEPT !.frame = EmptyFrame] = f
    BY <2>1
  <2>4. /\ f.name = e.name /\ f.prefix = e.prefix /\ f.expanded = e.expanded
        /\ f.pathLength = e.pathLength /\ f.frame = EmptyFrame
    OBVIOUS
  <2>5. IsElement(f)
    BY <2>4 DEF IsElement
  <2> HIDE DEF f
  <2>6. QED
    BY <2>2, <2>3, <2>4, <2>5 DEF e
<1>6. QED
  BY <1>4, <1>5

(* What PushElement adds, and how it is measured.                          *)
LEMMA PushedElement ==
  ASSUME NEW name, NEW prefix, NEW expanded, NEW frame, NEW e,
         e = [name |-> name, prefix |-> prefix, expanded |-> expanded,
              pathLength |-> PathLength(elements, expanded), frame |-> frame]
  PROVE  /\ IsElement(e) /\ e.name = name /\ e.prefix = prefix
         /\ e.expanded = expanded /\ e.pathLength = PathLength(elements, e.expanded)
<1>1. /\ e.name = name /\ e.prefix = prefix /\ e.expanded = expanded
      /\ e.pathLength = PathLength(elements, expanded) /\ e.frame = frame
  OBVIOUS
<1>2. QED
  BY <1>1 DEF IsElement

(* The start of an element.                                                *)
LEMMA StartNames ==
  ASSUME NameInv, IInv', NEW name \in Names, NEW attrs \in Tags, Preparable(name, attrs),
         NEW stack, NEW expanded, NEW frame,
         stack = PushElement(ElementName(Pushed(attrs), name), name.space, expanded, frame),
         elements' = stack \/ Discard(stack),
         NEW before, IsSeq(before), Len(before) = Depth,
         \A d \in 1..Depth : before[d].name = open[d].name /\ before[d].declared = open[d].declared,
         open' = Append(before, Told(name, attrs)),
         path' = path \/ path' = Asked(path, elements) \/ path' = Asked(path, stack)
           \/ path' = Asked(Asked(path, elements), stack)
  PROVE  NameInv'
<1> DEFINE n == Depth
           e == [name |-> ElementName(Pushed(attrs), name), prefix |-> name.space,
                 expanded |-> expanded, pathLength |-> PathLength(elements, expanded),
                 frame |-> frame]
<1>1. stack = Append(elements, e)
  BY DEF PushElement
<1>2. /\ IsElement(e) /\ e.name = ElementName(Pushed(attrs), name) /\ e.prefix = name.space
      /\ e.expanded = expanded /\ e.pathLength = PathLength(elements, e.expanded)
  BY PushedElement
<1> HIDE DEF e
<1>3. /\ IsSeq(elements) /\ IsSeq(stack) /\ Len(stack) = n + 1 /\ n \in Nat /\ Len(elements) = n
      /\ \A d \in 1..n : stack[d] = elements[d]
      /\ stack[n + 1] = e
  BY <1>1, AppendFacts, SeqFacts DEF NameInv, IInv, Shape, Depth
<1>4. \A d \in 1..n + 1 : IsElement(stack[d])
  <2>1. \A d \in 1..n + 1 : d \in 1..n \/ d = n + 1
    BY <1>3
  <2>2. QED
    BY <1>2, <1>3, <2>1 DEF NameInv, NamesInv
<1>5. /\ IsSeq(elements') /\ Depth' = n + 1
      /\ \A d \in 1..n + 1 :
           /\ IsElement(elements'[d])
           /\ elements'[d].name = stack[d].name /\ elements'[d].prefix = stack[d].prefix
           /\ elements'[d].expanded = stack[d].expanded
           /\ elements'[d].pathLength = stack[d].pathLength
  <2>1. CASE elements' = stack
    BY <1>3, <1>4, <2>1 DEF Depth
  <2>2. CASE Discard(stack)
    BY <1>3, <1>4, <2>2, DroppedFacts
  <2>3. QED
    BY <2>1, <2>2
<1>6. PathInv'
  <2>1. /\ CacheOf(path, elements) /\ Measured(elements)
    BY DEF NameInv, PathInv
  <2>2. Measured(stack) /\ \A cache : CacheOf(cache, elements) => CacheOf(cache, stack)
    BY <1>1, <1>2, <1>3, <2>1, PushFacts
  <2>3. CacheOf(Asked(path, elements), elements)
    BY <1>3, <2>1, AskedFacts
  <2>4. CacheOf(path, stack) /\ CacheOf(Asked(path, elements), stack)
    BY <2>1, <2>2, <2>3
  <2>5. CacheOf(Asked(path, stack), stack) /\ CacheOf(Asked(Asked(path, elements), stack), stack)
    BY <1>3, <2>4, AskedFacts
  <2>6. CacheOf(path', stack)
    BY <2>4, <2>5
  <2>7. Len(elements') = Len(stack)
    BY <1>3, <1>5 DEF Depth
  <2>8. Measured(elements') /\ CacheOf(path', elements')
    BY <1>3, <1>5, <2>2, <2>6, <2>7, SamePaths
  <2>9. QED
    BY <2>8 DEF PathInv
<1>7. /\ open'[n + 1] = Told(name, attrs)
      /\ \A d \in 1..n : open'[d] = before[d]
  BY AppendFacts
<1>8. Kept(n)
  <2>1. \A d \in 1..n : d \in 1..n + 1
    BY <1>3
  <2>2. QED
    BY <1>3, <1>5, <1>7, <2>1 DEF Kept
<1>9. /\ elements'[n + 1].name = ElementName(Pushed(attrs), name)
      /\ elements'[n + 1].prefix = name.space /\ IsElement(elements'[n + 1])
  <2>1. n + 1 \in 1..n + 1
    BY <1>3
  <2>2. QED
    BY <1>2, <1>3, <1>5, <2>1
<1>10. name \in LexicalNames /\ attrs \in Seq(LexicalAttributes)
  BY NamesAssumption, TagsAssumption
<1>11. ScopeInv' /\ NamesInv'
  BY <1>5, <1>7, <1>8, <1>9, <1>10, NamesOpened DEF NameInv
<1>12. QED
  BY <1>6, <1>11 DEF NameInv

(* The end of an element.                                                  *)
LEMMA EndNames ==
  ASSUME NameInv, IInv', elements # <<>>,
         NEW stack, stack = Front(elements), elements' = stack \/ Discard(stack),
         open' = Front(open),
         path' = Popped(path, stack) \/ path' = Popped(Asked(path, elements), stack)
  PROVE  NameInv'
<1> DEFINE n == Depth - 1
<1>1. /\ IsSeq(elements) /\ IsSeq(stack) /\ Depth \in Nat \ {0} /\ Len(elements) = Depth
      /\ Len(stack) = n /\ n \in Nat /\ n <= Depth
      /\ \A d \in 1..n : stack[d] = elements[d] /\ d \in 1..Depth
  BY FrontFacts, SeqFacts DEF NameInv, IInv, Shape, Depth
<1>2. \A d \in 1..n : IsElement(stack[d])
  BY <1>1 DEF NameInv, NamesInv
<1>3. /\ IsSeq(elements') /\ Depth' = n
      /\ \A d \in 1..n :
           /\ IsElement(elements'[d])
           /\ elements'[d].name = stack[d].name /\ elements'[d].prefix = stack[d].prefix
           /\ elements'[d].expanded = stack[d].expanded
           /\ elements'[d].pathLength = stack[d].pathLength
  <2>1. CASE elements' = stack
    BY <1>1, <1>2, <2>1 DEF Depth
  <2>2. CASE Discard(stack)
    BY <1>1, <1>2, <2>2, DroppedFacts
  <2>3. QED
    BY <2>1, <2>2
<1>4. \A d \in 1..n : open'[d] = open[d]
  <2>1. IsSeq(open) /\ Len(open) = Depth /\ open # <<>>
    BY <1>1, SeqFacts DEF NameInv, IInv, Shape, TagShape
  <2>2. QED
    BY <2>1, FrontFacts
<1>5. Kept(n)
  BY <1>1, <1>3, <1>4 DEF Kept
<1>6. PathInv'
  <2>1. CacheOf(path, elements) /\ Measured(elements)
    BY DEF NameInv, PathInv
  <2>2. CacheOf(Asked(path, elements), elements)
    BY <1>1, <2>1, AskedFacts
  <2>3. Measured(stack)
    BY <1>1, <2>1, FrontMeasured
  <2>4. CacheOf(path', stack)
    BY <1>1, <2>1, <2>2, PoppedFacts
  <2>5. Len(elements') = Len(stack)
    BY <1>1, <1>3 DEF Depth
  <2>6. Measured(elements') /\ CacheOf(path', elements')
    BY <1>1, <1>3, <2>3, <2>4, <2>5, SamePaths
  <2>7. QED
    BY <2>6 DEF PathInv
<1>7. Depth' \in 0..Depth
  BY <1>1, <1>3
<1>8. ScopeInv' /\ NamesInv'
  BY <1>3, <1>5, <1>7, NamesClosed DEF NameInv
<1>9. QED
  BY <1>6, <1>8 DEF NameInv

(* A step that opens and closes none may drop the frames and ask for the   *)
(* path.                                                                   *)
LEMMA InsideNames ==
  ASSUME NameInv, IInv', elements' = elements \/ Discard(elements),
         path' = path \/ path' = Asked(path, elements),
         \A d \in 1..Depth : open'[d].name = open[d].name /\ open'[d].declared = open[d].declared
  PROVE  NameInv'
<1> DEFINE n == Depth
<1>1. IsSeq(elements) /\ n \in Nat /\ Len(elements) = n
  BY SeqFacts DEF NameInv, IInv, Shape, Depth
<1>2. \A d \in 1..n : IsElement(elements[d])
  BY DEF NameInv, NamesInv
<1>3. /\ IsSeq(elements') /\ Depth' = n
      /\ \A d \in 1..n :
           /\ IsElement(elements'[d])
           /\ elements'[d].name = elements[d].name /\ elements'[d].prefix = elements[d].prefix
           /\ elements'[d].expanded = elements[d].expanded
           /\ elements'[d].pathLength = elements[d].pathLength
  <2>1. CASE elements' = elements
    BY <1>1, <1>2, <2>1 DEF Depth
  <2>2. CASE Discard(elements)
    BY <1>1, <1>2, <2>2, DroppedFacts
  <2>3. QED
    BY <2>1, <2>2
<1>4. Kept(n)
  BY <1>3 DEF Kept
<1>5. PathInv'
  <2>1. CacheOf(path, elements) /\ Measured(elements)
    BY DEF NameInv, PathInv
  <2>2. CacheOf(path', elements)
    BY <1>1, <2>1, AskedFacts
  <2>3. Len(elements') = Len(elements)
    BY <1>1, <1>3 DEF Depth
  <2>4. Measured(elements') /\ CacheOf(path', elements')
    BY <1>1, <1>3, <2>1, <2>2, <2>3, SamePaths
  <2>5. QED
    BY <2>4 DEF PathInv
<1>6. Depth' \in 0..Depth /\ Kept(Depth')
  BY <1>1, <1>3, <1>4
<1>7. ScopeInv' /\ NamesInv'
  BY <1>6, NamesClosed DEF NameInv
<1>8. QED
  BY <1>5, <1>7 DEF NameInv

(* Initially nothing is open and nothing is cached.                        *)
LEMMA InitNames == Init => NameInv
<1> SUFFICES ASSUME Init PROVE NameInv
  OBVIOUS
<1>1. IInv /\ Depth = 0 /\ IsSeq(<<>>) /\ Len(<<>>) = 0
  BY InitIInv, EmptyIsSeq DEF Init, Depth
<1>2. PathOf(<<>>, 0) = <<>>
  BY <1>1, PathEmpty
<1>3. CacheOf(path, elements) /\ Measured(elements)
  BY <1>1, <1>2 DEF Init, CacheOf, Measured
<1>4. QED
  BY <1>1, <1>3 DEF NameInv, ScopeInv, NamesInv, PathInv

(* Reset begins with no element and no path (session.reset).               *)
LEMMA ResetNames ==
  ASSUME NameInv, IInv', Reset
  PROVE  NameInv'
<1>1. Depth' = 0 /\ IsSeq(<<>>) /\ Len(<<>>) = 0
  BY EmptyIsSeq DEF Reset, Depth
<1>2. PathOf(<<>>, 0) = <<>>
  BY <1>1, PathEmpty
<1>3. CacheOf(path', elements') /\ Measured(elements')
  BY <1>1, <1>2 DEF Reset, CacheOf, Measured
<1>4. QED
  BY <1>1, <1>3 DEF NameInv, ScopeInv, NamesInv, PathInv

(* A start tag whose element is only checked for its syntax keeps the      *)
(* invariant (commitSyntaxStart).                                          *)
LEMMA StartSyntaxNames ==
  ASSUME NameInv, IInv', NEW name \in Names, NEW attrs \in Tags, StartSyntax(name, attrs)
  PROVE  NameInv'
<1> DEFINE stack == PushElement(ElementName(Pushed(attrs), name), name.space, FALSE, EmptyFrame)
<1>1. Preparable(name, attrs) /\ elements' = stack /\ path' = path
  BY DEF StartSyntax, StartWith, Commit
<1>2. open' = Append(open, Told(name, attrs))
  BY DEF StartSyntax, Commit, NoStart, ToldSeen
<1>3. IsSeq(open) /\ Len(open) = Depth
  BY DEF NameInv, IInv, Shape, TagShape
<1> HIDE DEF stack
<1>4. QED
  BY <1>1, <1>2, <1>3, StartNames DEF stack

(* What is recorded of the parent leaves its start tag as it was.          *)
LEMMA ToldNames ==
  ASSUME IInv, NEW start, start.word # 0 => elements # <<>>
  PROVE  \A d \in 1..Depth : /\ ToldSeen(start)[d].name = open[d].name
                             /\ ToldSeen(start)[d].declared = open[d].declared
<1>1. \A d \in 1..Depth : ToldSeen(start)[d].declared = open[d].declared
  BY ToldFacts
<1>2. IsSeq(open) /\ Len(open) = Depth /\ \A d \in 1..Depth : IsTag(open[d])
  BY DEF IInv, Shape, TagShape
<1>3. CASE start.word = 0
  BY <1>1, <1>3 DEF ToldSeen
<1>4. CASE start.word # 0
  <2> DEFINE n == Depth
             t == open[n]
             seen == t.seen \union {Particle(start)}
             t2 == [t EXCEPT !.seen = seen]
             after == [open EXCEPT ![n] = t2]
  <2>1. ToldSeen(start) = after
    BY <1>4 DEF ToldSeen
  <2>2. n \in 1..Len(open) /\ IsTag(t)
    BY <1>2, <1>4, SeqFacts DEF IInv, Shape, Depth
  <2> HIDE DEF seen, n
  <2>3. t2.name = t.name
    <3> HIDE DEF t
    <3>1. t = [name |-> t.name, declared |-> t.declared, data |-> t.data, seen |-> t.seen]
      BY <2>2 DEF IsTag
    <3>2. QED
      BY <3>1
  <2> HIDE DEF t2
  <2>4. \A d \in 1..Len(open) : after[d] = IF d = n THEN t2 ELSE open[d]
    BY <1>2, <2>2, ExceptFacts
  <2> HIDE DEF after
  <2>5. \A d \in 1..Depth : after[d].name = open[d].name
    BY <1>2, <2>3, <2>4
  <2>6. QED
    BY <1>1, <2>1, <2>5
<1>5. QED
  BY <1>3, <1>4

(* So does one whose element gets a frame (startElement).                  *)
LEMMA StartedNames ==
  ASSUME NameInv, IInv', NEW name \in Names, NEW attrs \in Tags, NEW start, Admitted(start),
         Start(name, attrs, start)
  PROVE  NameInv'
<1> DEFINE full == InFull(ElementName(Pushed(attrs), name), start)
           stack == PushElement(ElementName(Pushed(attrs), name), name.space, full, FrameOf(start))
           before == ToldSeen(start)
<1>1. /\ Preparable(name, attrs) /\ elements' = stack
      /\ open' = Append(before, Told(name, attrs))
  BY DEF Start, StartWith, Commit
<1>2. path' = path \/ path' = Asked(path, elements) \/ path' = Asked(path, stack)
        \/ path' = Asked(Asked(path, elements), stack)
  BY DEF Start
<1>3. start.word # 0 => elements # <<>>
  BY DEF Admitted
<1>4. /\ IsSeq(before) /\ Len(before) = Depth
      /\ \A d \in 1..Depth : before[d].name = open[d].name /\ before[d].declared = open[d].declared
  BY <1>3, ToldFacts, ToldNames DEF NameInv
<1> HIDE DEF stack, full, before
<1>5. QED
  BY <1>1, <1>2, <1>4, StartNames DEF stack

(* So does one that stops the semantics before or after its element was    *)
(* pushed: the stack is cut back or kept, and a path may have been asked.  *)
LEMMA StartAndStopNames ==
  ASSUME NameInv, IInv', NEW name \in Names, NEW attrs \in Tags, NEW start,
         StartAndStop(name, attrs, start)
  PROVE  NameInv'
<1> DEFINE full == start.after = 1 /\ InFull(ElementName(Pushed(attrs), name), start)
           stack == PushElement(ElementName(Pushed(attrs), name), name.space, full, EmptyFrame)
<1>1. /\ Preparable(name, attrs) /\ Discard(stack)
      /\ open' = Append(open, Told(name, attrs))
  BY DEF StartAndStop, StartWith
<1>2. path' = path \/ path' = Asked(path, elements) \/ path' = Asked(path, stack)
        \/ path' = Asked(Asked(path, elements), stack)
  BY DEF StartAndStop
<1>3. IsSeq(open) /\ Len(open) = Depth
  BY DEF NameInv, IInv, Shape, TagShape
<1> HIDE DEF stack, full
<1>4. QED
  BY <1>1, <1>2, <1>3, StartNames DEF stack

(* Text that is collected is recorded of the element, whose start tag      *)
(* stays as it was.                                                        *)
LEMMA CharsCollectedNames ==
  ASSUME NameInv, IInv', NEW chunk, CharsCollected(chunk)
  PROVE  NameInv'
<1>1. CASE Len(text) = MaxInstanceTextBytes
  BY <1>1, NamesUnchanged DEF CharsCollected, Fail, FailWith
<1>2. CASE Len(text) # MaxInstanceTextBytes
  <2> DEFINE n == Depth
             t == open[n]
             data == Append(t.data, chunk)
             t2 == [t EXCEPT !.data = data]
             after == [open EXCEPT ![n] = t2]
  <2>1. /\ elements' = elements /\ path' = path /\ elements # <<>> /\ open' = after
    BY <1>2 DEF CharsCollected, xml
  <2>2. /\ IsSeq(open) /\ Len(open) = n /\ n \in 1..Len(open)
        /\ \A d \in 1..n : IsTag(open[d])
    BY <2>1, SeqFacts DEF NameInv, IInv, Shape, TagShape, Depth
  <2>3. IsTag(t)
    BY <2>2
  <2> HIDE DEF data
  <2>4. t2.name = t.name /\ t2.declared = t.declared
    <3> HIDE DEF t
    <3>1. t = [name |-> t.name, declared |-> t.declared, data |-> t.data, seen |-> t.seen]
      BY <2>3 DEF IsTag
    <3>2. QED
      BY <3>1
  <2> HIDE DEF t2, n
  <2>5. \A d \in 1..Len(open) : after[d] = IF d = n THEN t2 ELSE open[d]
    BY <2>2, ExceptFacts
  <2> HIDE DEF after
  <2>6. \A d \in 1..Depth : open'[d].name = open[d].name /\ open'[d].declared = open[d].declared
    BY <2>1, <2>2, <2>4, <2>5 DEF n
  <2>7. QED
    BY <2>1, <2>6, InsideNames
<1>3. QED
  BY <1>1, <1>2

(* Text outside of every element and text that is refused leave the stack  *)
(* alone; a refusal asks for the path.                                     *)
LEMMA InsideStepNames ==
  ASSUME NameInv, IInv', (\E cdata : TextOutside(cdata)) \/ CharsRefused
  PROVE  NameInv'
<1>1. ASSUME NEW cdata, TextOutside(cdata)
      PROVE  NameInv'
  BY <1>1, NamesUnchanged DEF TextOutside, xml
<1>2. CASE CharsRefused
  <2>1. /\ elements' = elements \/ Discard(elements)
        /\ path' = Asked(path, elements) /\ open' = open
    BY <1>2 DEF CharsRefused, Report
  <2>2. QED
    BY <2>1, InsideNames
<1>3. QED
  BY <1>1, <1>2

(* An end tag, however far it gets, takes the last element off the stack   *)
(* and cuts the cached path back to what is left.                          *)
LEMMA EndStepNames ==
  ASSUME NameInv, IInv', NEW name,
         EndSyntax(name) \/ (\E reports : End(name, reports)) \/ EndAndStop(name)
  PROVE  NameInv'
<1> DEFINE stack == Front(elements)
<1>1. elements # <<>>
  BY DEF EndSyntax, End, EndAndStop, Matches
<1>2. CASE EndSyntax(name)
  <2>1. elements' = stack /\ open' = Front(open) /\ path' = Popped(path, stack)
    BY <1>2 DEF EndSyntax, CommitEnd
  <2>2. QED
    BY <1>1, <2>1, EndNames
<1>3. ASSUME NEW reports, End(name, reports)
      PROVE  NameInv'
  <2>1. /\ elements' = stack /\ open' = Front(open)
        /\ path' = Popped(path, stack) \/ path' = Popped(Asked(path, elements), stack)
    BY <1>3 DEF End, CommitEnd
  <2>2. QED
    BY <1>1, <2>1, EndNames
<1>4. CASE EndAndStop(name)
  <2>1. Discard(stack) /\ open' = Front(open) /\ path' = Popped(Asked(path, elements), stack)
    BY <1>4 DEF EndAndStop
  <2>2. QED
    BY <1>1, <2>1, EndNames
<1>5. QED
  BY <1>2, <1>3, <1>4

(* Every step keeps names and paths.                                       *)
LEMMA NextNames == NameInv /\ [Next]_vars => NameInv'
<1> SUFFICES ASSUME NameInv, [Next]_vars PROVE NameInv'
  OBVIOUS
<1>1. IInv'
  BY NextIInv DEF NameInv
<1>2. ASSUME NEW kind, NEW stack, stack.frames = ns.frames, stack.bindings = ns.bindings,
             FailWith(kind, stack)
      PROVE  NameInv'
  BY <1>1, <1>2, NamesUnchanged DEF FailWith
<1>3. CASE StartTag
  <2>1. CASE StartTooDeep
    BY <1>2, <2>1 DEF StartTooDeep, Fail
  <2>2. ASSUME NEW name \in Names, NEW attrs \in Tags,
               StartMalformed(name, attrs) \/ StartAborted(name, attrs)
        PROVE  NameInv'
    BY <1>2, <2>2, RollbackFacts DEF NameInv, StartMalformed, StartAborted, StartWith, Preparable
  <2>3. ASSUME NEW name \in Names, NEW attrs \in Tags, StartSyntax(name, attrs)
        PROVE  NameInv'
    BY <1>1, <2>3, StartSyntaxNames
  <2>4. ASSUME NEW start \in Starts, Admitted(start), NEW name \in Names, NEW attrs \in Tags,
               Start(name, attrs, start) \/ StartAndStop(name, attrs, start)
        PROVE  NameInv'
    BY <1>1, <2>4, StartedNames, StartAndStopNames
  <2>5. QED
    BY <1>3, <2>1, <2>2, <2>3, <2>4 DEF StartTag
<1>4. CASE CharData
  BY <1>1, <1>4, InsideStepNames, CharsCollectedNames DEF CharData
<1>5. CASE EndTag
  <2>1. ASSUME NEW name \in Names, EndMalformed(name)
        PROVE  NameInv'
    BY <1>2, <2>1 DEF EndMalformed, Fail
  <2>2. QED
    BY <1>1, <1>5, <2>1, EndStepNames DEF EndTag
<1>6. CASE EndOfInput
  BY <1>1, <1>6, NamesUnchanged DEF EndOfInput, xml
<1>7. CASE Reset
  BY <1>1, <1>7, ResetNames
<1>8. CASE UNCHANGED vars
  BY <1>1, <1>8, NamesUnchanged DEF vars, xml
<1>9. QED
  BY <1>3, <1>4, <1>5, <1>6, <1>7, <1>8 DEF Next

(* So it holds in every state.                                             *)
LEMMA SpecNames == Spec => []NameInv
BY InitNames, NextNames, PTL DEF Spec

(* The invariant says that names and lookups are those of the scope ...    *)
LEMMA NamesInScopeHere == NameInv => NamesAreInScope
<1> SUFFICES ASSUME NameInv PROVE NamesAreInScope
  OBVIOUS
<1>1. \A p : Lookup(ns.bindings, p) = InScope(open, p)
  BY OpenScope, LookupFindsScope DEF NameInv
<1>2. DOMAIN elements = 1..Depth
  BY SeqFacts DEF NameInv, IInv, Shape, Depth
<1>3. QED
  BY <1>1, <1>2 DEF NameInv, NamesInv, IsNamed, NamesAreInScope

(* ... that the cached path is that of the elements it counts, so that     *)
(* completing it gives the path of the whole stack ...                     *)
LEMMA PathFreshHere == NameInv => PathIsFresh
<1> SUFFICES ASSUME NameInv PROVE PathIsFresh
  OBVIOUS
<1>1. Depth \in Nat /\ DOMAIN elements = 1..Depth /\ Len(elements) = Depth
  BY SeqFacts DEF NameInv, IInv, Shape, Depth
<1>2. path.depth \in 0..Depth /\ path.text = Rendered(SubSeq(elements, 1, path.depth))
  BY <1>1 DEF NameInv, PathInv, CacheOf, PathOf
<1>3. \A d \in 1..Depth : elements[d].pathLength = Len(Rendered(SubSeq(elements, 1, d)))
  BY <1>1 DEF NameInv, PathInv, Measured, PathOf
<1>4. QED
  BY <1>1, <1>2, <1>3 DEF PathIsFresh

(* ... and, as what is open is legal, that the next start tag is judged by *)
(* the rules of the names it brings.                                       *)
LEMMA TagsJudgedHere == NameInv => TagsAreJudged
<1> SUFFICES ASSUME NameInv PROVE TagsAreJudged
  OBVIOUS
<1>1. ASSUME NEW name \in Names, NEW attrs \in Candidates
      PROVE  Preparable(name, attrs) <=> LegalStart(name, attrs) /\ ~TakenForDeclaration(name, attrs)
  <2>1. attrs \in Seq(LexicalAttributes)
    BY CandidatesAssumption
  <2>2. QED
    BY <2>1, StartTagJudged DEF NameInv
<1>2. ASSUME NEW name \in Names
      PROVE  Matches(name) <=> open # <<>> /\ Last(open).name = name
  <2>1. name \in LexicalNames
    BY NamesAssumption
  <2>2. QED
    BY <2>1, EndTagJudged DEF NameInv
<1>3. QED
  BY <1>1, <1>2 DEF TagsAreJudged, StartTagsAreJudged, EndTagsAreJudged

(* In every state the binding that a search from the end of the arena finds*)
(* for a prefix is that of the innermost open element that declares it, and*)
(* every element on the stack has the expanded name its tag has in that    *)
(* scope, also when later tags, end tags, stops and resets have reused the *)
(* arena (Stream.Lookup, PushStream, Pop and resolveElementName).          *)
THEOREM NamesStayInScope == Spec => []NamesAreInScope
BY SpecNames, NamesInScopeHere, PTL

(* In every state the cached path is that of the elements it counts, and   *)
(* the length that each element recorded is where its path ends, however   *)
(* calls that ask for the path and calls that open and close elements follow*)
(* one another (xmlDocument.Path, CommitStart and popElement).             *)
THEOREM PathStaysFresh == Spec => []PathIsFresh
BY SpecNames, PathFreshHere, PTL

(* In every state a start tag is refused exactly if it is not legal by the *)
(* rules of namespaces, its prefixes bound by the open elements and its own*)
(* attributes, or has an attribute that is taken for a declaration; so is an*)
(* end tag that is not that of the innermost element (PrepareStart and     *)
(* PrepareEnd).                                                            *)
THEOREM TagsStayJudged == Spec => []TagsAreJudged
BY SpecNames, TagsJudgedHere, PTL
=============================================================================
