----------------------------- MODULE ByteSource -----------------------------
(***************************************************************************)
(* What internal/stream promises of its input buffer: a text that is read  *)
(* from left to right, where a reader who has just taken one byte may put  *)
(* it back, and where the line and column are those of what was taken.     *)
(* There is no buffer here.                                                *)
(***************************************************************************)
EXTENDS Integers, Sequences, FiniteSets

CONSTANT LineFeed

VARIABLES text, taken, line, col

source == <<text, taken, line, col>>

Breaks(n) == {i \in 1..n : text[i] = LineFeed}

(* The line and the column, in bytes, at which the first n bytes end.      *)
Line(n) == 1 + Cardinality(Breaks(n))
Column(n) ==
  IF Breaks(n) = {} THEN n
  ELSE n - (CHOOSE i \in Breaks(n) : \A j \in Breaks(n) : j <= i)

At(n) == /\ taken' = n
         /\ line' = Line(n)
         /\ col' = Column(n)
         /\ UNCHANGED text

Init == taken = 0 /\ line = 1 /\ col = 0

Take == \E n \in (taken + 1)..Len(text) : At(n)

PutBack == taken > 0 /\ At(taken - 1)

Next == Take \/ PutBack

Spec == Init /\ [][Next]_source
=============================================================================
