------------------------------ MODULE Folding ------------------------------
(***************************************************************************)
(* Induction over the natural numbers, and over the sequences that         *)
(* FoldLeft runs through.                                                  *)
(*                                                                         *)
(* The operation is a constant of the module: a proof about a fold takes   *)
(* an instance for its operation, and has the theorems for it.             *)
(***************************************************************************)
EXTENDS Integers, WellFoundedInduction, TLAPS

CONSTANT Op(_, _)  \* what was folded so far and the next element

-----------------------------------------------------------------------------
(* Induction.                                                              *)

(* A set of natural numbers has a least one.                               *)
LEMMA NatMin ==
  ASSUME NEW T, T \subseteq Nat, T # {}
  PROVE  \E x \in T : \A y \in T : x <= y
<1> DEFINE R == {ss \in Nat \X Nat : ss[1] < ss[2]}
<1>1. IsWellFoundedOn(R, Nat)
  BY NatLessThanWellFounded DEF OpToRel
<1>2. \E x \in T : \A y \in T : <<y, x>> \notin R
  <2> HIDE DEF R
  <2> QED
    BY <1>1, WFMin
<1>3. PICK x \in T : \A y \in T : <<y, x>> \notin R
  BY <1>2
<1>4. ASSUME NEW y \in T
      PROVE  x <= y
  <2>1. x \in Nat /\ y \in Nat /\ <<y, x>> \notin R
    BY <1>3
  <2>2. QED
    BY <2>1
<1>5. QED
  BY <1>4

(* So what holds of zero and is handed on by every number to the next one  *)
(* holds of all.                                                           *)
LEMMA NatInduct ==
  ASSUME NEW S, 0 \in S, \A n \in Nat : n \in S => n + 1 \in S
  PROVE  \A n \in Nat : n \in S
<1> SUFFICES ASSUME NEW n \in Nat, n \notin S
             PROVE  FALSE
  OBVIOUS
<1> DEFINE T == Nat \ S
<1>1. PICK x \in T : \A y \in T : x <= y
  BY NatMin
<1>2. x # 0 /\ x - 1 \in Nat
  OBVIOUS
<1>3. x - 1 \in S
  BY <1>1, <1>2
<1>4. QED
  BY <1>2, <1>3

(* A set of numbers up to some bound has a largest one.                    *)
LEMMA NatMax ==
  ASSUME NEW n \in Nat, NEW T, T \subseteq 1..n, T # {}
  PROVE  \E x \in T : \A y \in T : y <= x
<1> DEFINE U == {m \in Nat : \A y \in T : y <= m}
<1>1. n \in U
  OBVIOUS
<1>2. PICK m \in U : \A k \in U : m <= k
  <2>1. U \subseteq Nat /\ U # {}
    BY <1>1
  <2>2. QED
    BY <2>1, NatMin
<1>3. m \in T
  <2>1. SUFFICES ASSUME m \notin T
                 PROVE  FALSE
    OBVIOUS
  <2>2. PICK y \in T : TRUE
    OBVIOUS
  <2>3. m - 1 \in Nat
    BY <2>2
  <2>4. ASSUME NEW z \in T
        PROVE  z <= m - 1
    BY <1>2, <2>1
  <2>5. QED
    BY <1>2, <2>3, <2>4
<1>4. QED
  BY <1>3

-----------------------------------------------------------------------------
(* FoldLeft goes down from the last place: that is a function on the sets  *)
(* of places, of which only the intervals matter.                          *)

Largest(d) == CHOOSE x \in d : \A y \in d : x >= y

Step(base, s, d, iter) == IF d = {} THEN base ELSE Op(iter[d \ {Largest(d)}], s[Largest(d)])

Iterates(base, s, D, iter) == iter = [d \in SUBSET D |-> Step(base, s, d, iter)]

Iterated(base, s, D) == CHOOSE iter : Iterates(base, s, D, iter)

Fold(base, s) == Iterated(base, s, DOMAIN s)[DOMAIN s]

(* The largest of the places up to n + 1 is that one.                      *)
LEMMA LargestIs ==
  ASSUME NEW n \in Nat, NEW d \in SUBSET (1..n + 1), n + 1 \in d
  PROVE  Largest(d) = n + 1
<1>1. n + 1 \in d /\ \A y \in d : n + 1 >= y
  OBVIOUS
<1>2. Largest(d) \in d /\ \A y \in d : Largest(d) >= y
  BY <1>1, Zenon DEF Largest
<1>3. Largest(d) \in 1..n + 1 /\ Largest(d) >= n + 1
  BY <1>1, <1>2
<1>4. QED
  BY <1>3

(* The function exists.                                                    *)
LEMMA IteratedExists ==
  ASSUME NEW base, NEW s
  PROVE  \A n \in Nat : \E iter : Iterates(base, s, 1..n, iter)
<1> DEFINE T == {n \in Nat : \E iter : Iterates(base, s, 1..n, iter)}
<1>1. 0 \in T
  <2> DEFINE g == [d \in SUBSET (1..0) |-> base]
  <2>1. Iterates(base, s, 1..0, g)
    BY DEF Step, Iterates
  <2>2. QED
    BY <2>1
<1>2. ASSUME NEW n \in Nat, n \in T
      PROVE  n + 1 \in T
  <2>1. PICK g : g = [d \in SUBSET (1..n) |-> Step(base, s, d, g)]
    BY <1>2 DEF Iterates
  <2> DEFINE h == [d \in SUBSET (1..n + 1) |->
                     IF n + 1 \in d THEN Op(g[d \ {n + 1}], s[n + 1]) ELSE g[d]]
  <2>2. ASSUME NEW d \in SUBSET (1..n + 1)
        PROVE  h[d] = Step(base, s, d, h)
    <3>1. CASE n + 1 \in d
      <4>1. Largest(d) = n + 1
        BY <3>1, LargestIs
      <4>2. d \ {n + 1} \in SUBSET (1..n) /\ d \ {n + 1} \in SUBSET (1..n + 1) /\ n + 1 \notin d \ {n + 1}
        OBVIOUS
      <4>3. h[d \ {n + 1}] = g[d \ {n + 1}]
        BY <4>2
      <4>4. QED
        BY <3>1, <4>1, <4>3 DEF Step
    <3>2. CASE n + 1 \notin d
      <4>1. d \in SUBSET (1..n)
        BY <3>2
      <4>2. h[d] = g[d] /\ g[d] = Step(base, s, d, g)
        BY <2>1, <3>2, <4>1
      <4>3. ASSUME NEW x
            PROVE  h[d \ {x}] = g[d \ {x}]
        <5>1. d \ {x} \in SUBSET (1..n) /\ d \ {x} \in SUBSET (1..n + 1)
          BY <4>1
        <5>2. n + 1 \notin d \ {x}
          BY <3>2
        <5>3. QED
          BY <5>1, <5>2
      <4> HIDE DEF h
      <4>4. QED
        BY <4>2, <4>3 DEF Step
    <3>3. QED
      BY <3>1, <3>2
  <2>3. h = [d \in SUBSET (1..n + 1) |-> h[d]]
    OBVIOUS
  <2> HIDE DEF h
  <2>4. h = [d \in SUBSET (1..n + 1) |-> Step(base, s, d, h)]
    BY <2>2, <2>3
  <2>5. QED
    BY <2>4 DEF Iterates
<1> HIDE DEF T
<1>3. \A n \in Nat : n \in T
  BY <1>1, <1>2, NatInduct
<1>4. QED
  BY <1>3 DEF T

(* Along the intervals it takes one element after the other.               *)
LEMMA IteratedSteps ==
  ASSUME NEW base, NEW s, NEW n \in Nat
  PROVE  /\ Iterated(base, s, 1..n)[1..0] = base
         /\ \A k \in 0..n - 1 :
              Iterated(base, s, 1..n)[1..k + 1] = Op(Iterated(base, s, 1..n)[1..k], s[k + 1])
<1> DEFINE iter == Iterated(base, s, 1..n)
<1>1. iter = [d \in SUBSET (1..n) |-> Step(base, s, d, iter)]
  <2>1. Iterates(base, s, 1..n, iter)
    BY IteratedExists, Zenon DEF Iterated
  <2>2. QED
    BY <2>1 DEF Iterates
<1> HIDE DEF iter
<1>2. iter[1..0] = base
  <2>1. 1..0 \in SUBSET (1..n) /\ 1..0 = {}
    OBVIOUS
  <2>2. QED
    BY <1>1, <2>1 DEF Step
<1>3. ASSUME NEW k \in 0..n - 1
      PROVE  iter[1..k + 1] = Op(iter[1..k], s[k + 1])
  <2>1. 1..k + 1 \in SUBSET (1..n) /\ k + 1 \in 1..k + 1 /\ (1..k + 1) \ {k + 1} = 1..k
    <3>1. 1..k + 1 \in SUBSET (1..n) /\ k + 1 \in 1..k + 1
      OBVIOUS
    <3>2. (1..k + 1) \ {k + 1} = 1..k
      OBVIOUS
    <3>3. QED
      BY <3>1, <3>2
  <2>2. Largest(1..k + 1) = k + 1
    BY LargestIs
  <2>3. iter[1..k + 1] = Step(base, s, 1..k + 1, iter)
    BY <1>1, <2>1
  <2>4. QED
    BY <2>1, <2>2, <2>3 DEF Step
<1>4. QED
  BY <1>2, <1>3 DEF iter

(* The operation treats the first elements of two sequences alike.         *)
Alike(s, t, n) == \A i \in 1..n : \A acc : Op(acc, t[i]) = Op(acc, s[i])

(* So two sequences whose first elements the operation treats alike agree  *)
(* as far as these go.                                                     *)
LEMMA IteratedAgree ==
  ASSUME NEW base, NEW s, NEW t, NEW n \in Nat, NEW m \in Nat, n <= m, Alike(s, t, n)
  PROVE  Iterated(base, t, 1..m)[1..n] = Iterated(base, s, 1..n)[1..n]
<1> DEFINE T == {k \in Nat : k <= n => Iterated(base, t, 1..m)[1..k] = Iterated(base, s, 1..n)[1..k]}
<1>1. 0 \in T
  BY IteratedSteps
<1>2. ASSUME NEW k \in Nat, k \in T
      PROVE  k + 1 \in T
  <2>1. SUFFICES ASSUME k + 1 <= n
                 PROVE  Iterated(base, t, 1..m)[1..k + 1] = Iterated(base, s, 1..n)[1..k + 1]
    OBVIOUS
  <2>2. Iterated(base, t, 1..m)[1..k] = Iterated(base, s, 1..n)[1..k]
    BY <1>2, <2>1
  <2>3. k \in 0..n - 1 /\ k \in 0..m - 1 /\ k + 1 \in 1..n
    BY <2>1
  <2>4. QED
    BY <2>2, <2>3, IteratedSteps DEF Alike
<1> HIDE DEF T
<1>3. \A k \in Nat : k \in T
  BY <1>1, <1>2, NatInduct
<1>4. QED
  BY <1>3 DEF T

(* What was folded so far, one element after the other.                    *)
Folds(base, s, n, f) ==
  /\ f[0] = base /\ f[n] = Fold(base, s)
  /\ \A k \in 0..n - 1 : f[k + 1] = Op(f[k], s[k + 1])

LEMMA FoldSteps ==
  ASSUME NEW base, NEW s, NEW n \in Nat, DOMAIN s = 1..n
  PROVE  \E f : Folds(base, s, n, f)
<1> DEFINE f == [k \in 0..n |-> Iterated(base, s, 1..n)[1..k]]
<1>1. f[0] = base /\ f[n] = Fold(base, s)
  BY IteratedSteps DEF Fold
<1>2. ASSUME NEW k \in 0..n - 1
      PROVE  f[k + 1] = Op(f[k], s[k + 1])
  <2>1. k \in 0..n /\ k + 1 \in 0..n
    OBVIOUS
  <2>2. QED
    BY <2>1, IteratedSteps
<1>3. QED
  BY <1>1, <1>2 DEF Folds

(* Nothing is folded to the base.                                          *)
LEMMA FoldEmpty ==
  ASSUME NEW base, NEW s, DOMAIN s = 1..0
  PROVE  Fold(base, s) = base
BY IteratedSteps DEF Fold

(* Another element is one more operation.                                  *)
LEMMA FoldAppend ==
  ASSUME NEW base, NEW s, NEW t, NEW n \in Nat, DOMAIN s = 1..n, DOMAIN t = 1..n + 1,
         Alike(s, t, n)
  PROVE  Fold(base, t) = Op(Fold(base, s), t[n + 1])
<1>1. Iterated(base, t, 1..n + 1)[1..n] = Iterated(base, s, 1..n)[1..n]
  BY IteratedAgree
<1>2. Iterated(base, t, 1..n + 1)[1..n + 1] = Op(Iterated(base, t, 1..n + 1)[1..n], t[n + 1])
  BY IteratedSteps
<1>3. QED
  BY <1>1, <1>2 DEF Fold

(* Only what the operation sees of the elements matters.                   *)
LEMMA FoldSame ==
  ASSUME NEW base, NEW s, NEW t, NEW n \in Nat, DOMAIN s = 1..n, DOMAIN t = 1..n,
         Alike(s, t, n)
  PROVE  Fold(base, t) = Fold(base, s)
BY IteratedAgree DEF Fold
=============================================================================
