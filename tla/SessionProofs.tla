--------------------------- MODULE SessionProofs ---------------------------
(***************************************************************************)
(* Session is safe for every set of callers, every error limit and every   *)
(* document: the invariants that MCSession checks on a small instance are  *)
(* proved here from one inductive invariant.                               *)
(***************************************************************************)
EXTENDS Session, SequenceTheorems, TLAPS

(***************************************************************************)
(* The inductive invariant.  MutualExclusion alone is not inductive beside *)
(* Isolation: that the entering caller finds clean state follows from      *)
(* IdleIsClean, which in turn needs the phases of a call to be tied to the *)
(* document state (CallPhases).                                            *)
(***************************************************************************)
IInv ==
  /\ TypeOK
  /\ MutualExclusion
  /\ Isolation
  /\ IdleIsClean
  /\ ErrorBudget
  /\ CallPhases

(* Collecting n diagnostics of c keeps at most MaxErrors of them, all      *)
(* about c when the earlier ones are (session.recover).                    *)
LEMMA CollectedFacts ==
  ASSUME NEW c \in Callers, NEW n \in Nat, errors \in Seq(Callers),
         Len(errors) <= MaxErrors
  PROVE  /\ Collected(c, n) \in Seq(Callers)
         /\ Len(Collected(c, n)) <= MaxErrors
         /\ Collected(c, n) = <<>> => errors = <<>> /\ n = 0
         /\ (\A k \in 1..Len(errors) : errors[k] = c)
              => \A k \in 1..Len(Collected(c, n)) : Collected(c, n)[k] = c
<1> DEFINE room == MaxErrors - Len(errors)
           kept == IF n <= room THEN n ELSE room
           more == [i \in 1..kept |-> c]
<1>1. /\ Len(errors) \in Nat /\ MaxErrors \in Nat /\ kept \in Nat
      /\ kept <= MaxErrors - Len(errors)
  BY LimitAssumption, LenProperties
<1>2. more \in Seq(Callers) /\ Len(more) = kept
  BY <1>1, IsASeq
<1>3. Collected(c, n) = errors \o more
  BY DEF Collected
<1> HIDE DEF more
<1>4. /\ errors \o more \in Seq(Callers)
      /\ Len(errors \o more) = Len(errors) + kept
      /\ \A i \in 1..(Len(errors) + kept) :
           (errors \o more)[i] = IF i <= Len(errors) THEN errors[i] ELSE more[i - Len(errors)]
  BY <1>2, ConcatProperties
<1>5. Collected(c, n) \in Seq(Callers) /\ Len(Collected(c, n)) <= MaxErrors
  BY <1>1, <1>3, <1>4
<1>6. ASSUME Collected(c, n) = <<>>
      PROVE  errors = <<>> /\ n = 0
  <2>1. Len(errors) + kept = 0
    BY <1>3, <1>4, <1>6
  <2>2. Len(errors) = 0 /\ kept = 0
    BY <1>1, <2>1
  <2> QED
    BY <2>2, EmptySeq, LimitAssumption
<1>7. ASSUME \A k \in 1..Len(errors) : errors[k] = c,
             NEW k \in 1..Len(Collected(c, n))
      PROVE  Collected(c, n)[k] = c
  <2>1. k \in 1..(Len(errors) + kept)
    BY <1>3, <1>4
  <2>2. CASE k <= Len(errors)
    BY <1>1, <1>3, <1>4, <1>7, <2>1, <2>2
  <2>3. CASE k > Len(errors)
    <3>1. k - Len(errors) \in 1..kept
      BY <1>1, <2>1, <2>3
    <3>2. more[k - Len(errors)] = c
      BY <3>1 DEF more
    <3> QED
      BY <1>1, <1>3, <1>4, <2>1, <2>3, <3>2
  <2> QED
    BY <1>1, <2>1, <2>2, <2>3
<1> QED
  BY <1>5, <1>6, <1>7

(* The document state of a call is about caller c only.                    *)
OwnedBy(c) ==
  /\ \A k \in 1..Len(errors) : errors[k] = c
  /\ \A p \in ids : p[1] = c
  /\ \A k \in 1..Len(idrefs) : idrefs[k][1] = c

(* Reporting within a handler keeps the error budget: the semantic state   *)
(* is dropped by the same step that reaches the limit.                     *)
LEMMA ReportFacts ==
  ASSUME NEW c \in Callers, NEW n \in Nat, errors \in Seq(Callers),
         ErrorBudget, Report(c, n),
         NEW newIds \in SUBSET (Callers \X Ids),
         NEW newRefs \in Seq(Callers \X Ids),
         ids' = Discardable(newIds, {}), idrefs' = Discardable(newRefs, <<>>)
  PROVE  /\ syntaxOnly' \in BOOLEAN
         /\ errors' \in Seq(Callers)
         /\ ids' \in SUBSET (Callers \X Ids)
         /\ idrefs' \in Seq(Callers \X Ids)
         /\ ErrorBudget'
         /\ errors' = <<>> => errors = <<>> /\ n = 0
         /\ (\A k \in 1..Len(errors) : errors[k] = c)
              => \A k \in 1..Len(errors') : errors'[k] = c
<1>1. errors' = Collected(c, n) /\ syntaxOnly' = (Len(errors') >= MaxErrors)
  BY DEF Report, LimitReached
<1>2. /\ errors' \in Seq(Callers)
      /\ Len(errors') <= MaxErrors
      /\ errors' = <<>> => errors = <<>> /\ n = 0
      /\ (\A k \in 1..Len(errors) : errors[k] = c)
           => \A k \in 1..Len(errors') : errors'[k] = c
  BY <1>1, CollectedFacts DEF ErrorBudget
<1>3. Len(errors') \in Nat /\ MaxErrors \in Nat
  BY <1>2, LenProperties, LimitAssumption
<1>4. syntaxOnly' <=> Len(errors') = MaxErrors
  <2>1. (Len(errors') >= MaxErrors) <=> (Len(errors') = MaxErrors)
    BY <1>2, <1>3
  <2> QED
    BY <1>1, <2>1, Zenon
<1>5. /\ ids' \in SUBSET (Callers \X Ids) /\ idrefs' \in Seq(Callers \X Ids)
      /\ syntaxOnly' => ids' = {} /\ idrefs' = <<>>
  BY EmptySeq DEF Discardable
<1> QED
  BY <1>1, <1>2, <1>4, <1>5 DEF ErrorBudget

(* The semantic half of a handler stores nothing that is not about its own *)
(* document.                                                               *)
LEMMA AssessFacts ==
  ASSUME NEW c \in Callers, NEW n \in Nat, NEW v \in Values,
         TypeOK, ErrorBudget, OwnedBy(c), Assess(c, n, v)
  PROVE  /\ syntaxOnly' \in BOOLEAN
         /\ errors' \in Seq(Callers)
         /\ ids' \in SUBSET (Callers \X Ids)
         /\ idrefs' \in Seq(Callers \X Ids)
         /\ ErrorBudget'
         /\ OwnedBy(c)'
<1>1. CASE syntaxOnly
  BY <1>1 DEF Assess, TypeOK, ErrorBudget, OwnedBy
<1>2. CASE ~syntaxOnly
  <2> DEFINE extra == IF Duplicate(v) THEN 1 ELSE 0
             newIds == IF v.kind = "id" /\ ~Duplicate(v)
                       THEN ids \union {<<c, v.id>>} ELSE ids
             newRefs == IF v.kind = "idref" THEN Append(idrefs, <<c, v.id>>) ELSE idrefs
  <2>1. /\ Report(c, n + extra)
        /\ ids' = Discardable(newIds, {}) /\ idrefs' = Discardable(newRefs, <<>>)
    BY <1>2 DEF Assess
  <2>2. v.kind \in {"id", "idref"} => v.id \in Ids
    BY DEF Values
  <2>3. n + extra \in Nat
    OBVIOUS
  <2>4. /\ newIds \in SUBSET (Callers \X Ids)
        /\ \A p \in newIds : p[1] = c
    BY <2>2 DEF TypeOK, OwnedBy
  <2>5. /\ newRefs \in Seq(Callers \X Ids)
        /\ \A k \in 1..Len(newRefs) : newRefs[k][1] = c
    <3>1. CASE v.kind = "idref"
      <4>1. <<c, v.id>> \in Callers \X Ids /\ idrefs \in Seq(Callers \X Ids)
        BY <2>2, <3>1 DEF TypeOK
      <4>2. /\ newRefs \in Seq(Callers \X Ids)
            /\ Len(newRefs) = Len(idrefs) + 1
            /\ \A k \in 1..Len(idrefs) : newRefs[k] = idrefs[k]
            /\ newRefs[Len(idrefs) + 1] = <<c, v.id>>
        BY <3>1, <4>1, AppendProperties
      <4>3. Len(idrefs) \in Nat
        BY <4>1, LenProperties
      <4> HIDE DEF newRefs
      <4> QED
        BY <4>2, <4>3 DEF OwnedBy
    <3>2. CASE v.kind # "idref"
      BY <3>2 DEF TypeOK, OwnedBy
    <3> QED
      BY <3>1, <3>2
  <2> HIDE DEF newIds, newRefs, extra
  <2>6. errors \in Seq(Callers)
    BY DEF TypeOK
  <2>7. /\ syntaxOnly' \in BOOLEAN
        /\ errors' \in Seq(Callers)
        /\ ids' \in SUBSET (Callers \X Ids)
        /\ idrefs' \in Seq(Callers \X Ids)
        /\ ErrorBudget'
        /\ \A k \in 1..Len(errors') : errors'[k] = c
    BY <2>1, <2>3, <2>4, <2>5, <2>6, ReportFacts DEF OwnedBy
  <2>8. \A p \in ids' : p[1] = c
    BY <2>1, <2>4 DEF Discardable
  <2>9. \A k \in 1..Len(idrefs') : idrefs'[k][1] = c
    <3>1. CASE syntaxOnly'
      BY <2>1, <3>1 DEF Discardable
    <3>2. CASE ~syntaxOnly'
      BY <2>1, <2>5, <3>2 DEF Discardable
    <3> QED
      BY <3>1, <3>2
  <2> QED
    BY <2>7, <2>8, <2>9 DEF OwnedBy
<1> QED
  BY <1>1, <1>2

-----------------------------------------------------------------------------
LEMMA InitIInv == Init => IInv
<1> SUFFICES ASSUME Init PROVE IInv
  OBVIOUS
<1>1. Len(<<>>) = 0 /\ MaxErrors \in Nat \ {0}
  BY EmptySeq, LimitAssumption
<1>2. TypeOK
  BY EmptySeq DEF Init, TypeOK, Inside, NoOutcome, Outcome, Kinds
<1>3. MutualExclusion /\ Isolation /\ IdleIsClean /\ CallPhases
  BY DEF Init, MutualExclusion, Isolation, IdleIsClean, CallPhases, Inside, NoOutcome, Outcome
<1>4. ErrorBudget
  BY <1>1 DEF Init, ErrorBudget
<1> QED
  BY <1>2, <1>3, <1>4 DEF IInv

(* What session.result hands to the caller is a well-formed clone.         *)
LEMMA ResultOfFacts ==
  ASSUME NEW list \in Seq(Callers)
  PROVE  /\ ResultOf(list) \in [kind : Kinds, backing : {"clone", "session"},
                                list : Seq(Callers)]
         /\ ResultOf(list).backing = "clone"
         /\ ResultOf(list).kind = "valid" => list = <<>>
         /\ ResultOf(list).kind \in {"valid", "invalid"}
         /\ ResultOf(list).list = list
  BY EmptySeq DEF ResultOf, Outcome, Kinds

(* A return statement of validate keeps the inductive invariant: the call  *)
(* leaves through reset with its reader detached, whatever the outcome.    *)
LEMMA ReturnIInv ==
  ASSUME IInv, NEW c \in Callers, pc[c] \in Inside,
         NEW o \in [kind : Kinds, backing : {"clone", "session"}, list : Seq(Callers)],
         o.backing = "clone", Return(c, o), tokens' \in Nat,
         UNCHANGED <<inUse, canceled, depth, seenRoot, syntaxOnly, errors, ids,
                     idrefs, cursor>>
  PROVE  IInv'
<1> USE DEF IInv, Return, Goto
<1>1. TypeOK'
  BY DEF TypeOK, Inside
<1>2. MutualExclusion'
  BY DEF TypeOK, MutualExclusion, Inside
<1>3. Isolation'
  BY DEF TypeOK, MutualExclusion, Isolation, Inside
<1>4. IdleIsClean'
  BY DEF TypeOK, MutualExclusion, IdleIsClean
<1>5. ErrorBudget'
  BY DEF ErrorBudget
<1>6. CallPhases'
  BY DEF TypeOK, MutualExclusion, CallPhases, Inside
<1> QED
  BY <1>1, <1>2, <1>3, <1>4, <1>5, <1>6

(* A token whose handler reported something recoverable, or nothing, keeps *)
(* the inductive invariant; the element stack may have moved.              *)
LEMMA HandlerIInv ==
  ASSUME IInv, NEW c \in Callers, Reading(c),
         NEW n \in Nat, NEW v \in Values, Assess(c, n, v),
         depth' \in Nat, seenRoot' \in BOOLEAN,
         UNCHANGED <<inUse, pc, canceled, reader, cursor, result>>
  PROVE  IInv'
<1> USE DEF IInv, Reading
<1>1. OwnedBy(c)
  BY DEF OwnedBy, Isolation, Inside
<1>2. /\ syntaxOnly' \in BOOLEAN
      /\ errors' \in Seq(Callers)
      /\ ids' \in SUBSET (Callers \X Ids)
      /\ idrefs' \in Seq(Callers \X Ids)
      /\ ErrorBudget'
      /\ OwnedBy(c)'
  BY <1>1, AssessFacts
<1>3. TypeOK'
  BY <1>2 DEF TypeOK
<1>4. \A d \in Callers : pc[d] \in Inside => d = c
  BY DEF MutualExclusion, Inside
<1>5. MutualExclusion'
  BY DEF MutualExclusion
<1>6. Isolation'
  BY <1>2, <1>4 DEF Isolation, OwnedBy
<1>7. IdleIsClean'
  BY DEF MutualExclusion, IdleIsClean, Inside
<1>8. CallPhases'
  BY <1>4 DEF CallPhases, Inside, MutualExclusion
<1> QED
  BY <1>2, <1>3, <1>5, <1>6, <1>7, <1>8

-----------------------------------------------------------------------------
(* One turn of CheckIDRefs keeps the inductive invariant: the reference    *)
(* behind the cursor is resolved, or something was reported.               *)
LEMMA CheckIDRefIInv ==
  ASSUME IInv, NEW c \in Callers, CheckIDRef(c)
  PROVE  IInv'
<1> USE DEF IInv, CheckIDRef
<1> DEFINE n == IF Resolves(idrefs[cursor + 1]) THEN 0 ELSE 1
<1>1. /\ \A d \in Callers : pc[d] \in Inside => d = c
      /\ \A k \in 1..Len(errors) : errors[k] = c
  BY DEF MutualExclusion, Isolation, Inside
<1>2. /\ cursor \in Nat /\ Len(idrefs) \in Nat
      /\ errors \in Seq(Callers) /\ idrefs \in Seq(Callers \X Ids)
      /\ ids \in SUBSET (Callers \X Ids)
  BY LenProperties DEF TypeOK
<1>3. /\ syntaxOnly' \in BOOLEAN
      /\ errors' \in Seq(Callers)
      /\ ids' \in SUBSET (Callers \X Ids)
      /\ idrefs' \in Seq(Callers \X Ids)
      /\ ErrorBudget'
      /\ errors' = <<>> => errors = <<>> /\ n = 0
      /\ \A k \in 1..Len(errors') : errors'[k] = c
  <2>1. n \in Nat /\ Report(c, n)
    OBVIOUS
  <2> HIDE DEF n
  <2> QED
    BY <1>1, <1>2, <2>1, ReportFacts
<1>4. TypeOK'
  BY <1>2, <1>3 DEF TypeOK, Discardable
<1>5. MutualExclusion'
  BY DEF MutualExclusion
<1>6. Isolation'
  BY <1>1, <1>3 DEF Isolation, Discardable
<1>7. IdleIsClean'
  BY DEF MutualExclusion, IdleIsClean, Inside
<1>8. CallPhases'
  <2>1. ASSUME errors' = <<>>, NEW k \in 1..Len(idrefs'), k <= cursor'
        PROVE  <<c, idrefs'[k][2]>> \in ids'
    <3>1. errors = <<>> /\ Resolves(idrefs[cursor + 1])
      BY <1>3, <2>1
    <3>2. CASE syntaxOnly'
      BY <2>1, <3>2 DEF Discardable
    <3>3. CASE ~syntaxOnly'
      <4>1. ids' = ids /\ idrefs' = idrefs /\ cursor' = cursor + 1
        BY <3>3 DEF Discardable
      <4>2. CASE k <= cursor
        BY <2>1, <3>1, <4>1, <4>2 DEF CallPhases
      <4>3. CASE k = cursor + 1
        BY <2>1, <3>1, <4>1, <4>3, <1>1 DEF Resolves, Isolation, Inside
      <4> QED
        BY <1>2, <2>1, <4>1, <4>2, <4>3
    <3> QED
      BY <3>2, <3>3
  <2> QED
    BY <1>1, <2>1 DEF CallPhases, Inside, MutualExclusion
<1> QED
  BY <1>3, <1>4, <1>5, <1>6, <1>7, <1>8

(* Every step of the session keeps the inductive invariant.                *)
LEMMA NextIInv == IInv /\ [Next]_vars => IInv'
<1> SUFFICES ASSUME IInv, [Next]_vars PROVE IInv'
  OBVIOUS
<1> USE DEF IInv
<1>1. CASE UNCHANGED vars
  BY <1>1 DEF vars, docVars, TypeOK, MutualExclusion, Isolation, IdleIsClean,
              ErrorBudget, CallPhases
<1>2. ASSUME NEW c \in Callers, Enter(c) PROVE IInv'
  <2>1. \A d \in Callers : pc[d] \notin Inside
    BY <1>2 DEF Enter, MutualExclusion
  <2>2. TypeOK'
    BY <1>2, EmptySeq DEF Enter, Goto, docVars, TypeOK, Inside, NoOutcome, Outcome, Kinds
  <2>3. MutualExclusion'
    BY <1>2, <2>1 DEF Enter, Goto, TypeOK, MutualExclusion, Inside
  <2>4. Isolation' /\ IdleIsClean' /\ ErrorBudget'
    BY <1>2, <2>1 DEF Enter, Goto, docVars, TypeOK, IdleIsClean, Isolation, ErrorBudget
  <2>5. CallPhases'
    BY <1>2, <2>1 DEF Enter, Goto, docVars, TypeOK, IdleIsClean, CallPhases, Inside,
                      NoOutcome, Outcome
  <2> QED
    BY <2>2, <2>3, <2>4, <2>5
<1>3. ASSUME NEW c \in Callers, Reject(c) PROVE IInv'
  <2>1. TypeOK'
    BY <1>3, EmptySeq DEF Reject, docVars, TypeOK, Outcome, Kinds
  <2>2. MutualExclusion' /\ Isolation' /\ IdleIsClean' /\ ErrorBudget'
    BY <1>3 DEF Reject, docVars, MutualExclusion, Isolation, IdleIsClean, ErrorBudget
  <2>3. CallPhases'
    BY <1>3 DEF Reject, docVars, TypeOK, CallPhases, Outcome
  <2> QED
    BY <2>1, <2>2, <2>3
<1>4. ASSUME NEW c \in Callers, Cancel(c) PROVE IInv'
  BY <1>4 DEF Cancel, docVars, TypeOK, MutualExclusion, Isolation, IdleIsClean,
              ErrorBudget, CallPhases
<1>5. ASSUME NEW c \in Callers, Begin(c) PROVE IInv'
  <2>1. ASSUME NEW o, o \in {Outcome("canceled", "clone", <<>>), Outcome("failed", "clone", <<>>)},
               Return(c, o)
        PROVE  IInv'
    BY <1>5, <2>1, ReturnIInv, EmptySeq DEF Begin, docVars, Inside, Outcome, Kinds, TypeOK
  <2>2. CASE Goto(c, "loop") /\ reader' = c /\ UNCHANGED result
    <3>1. TypeOK'
      BY <1>5, <2>2 DEF Begin, Goto, docVars, TypeOK, Inside
    <3>2. MutualExclusion' /\ Isolation' /\ IdleIsClean' /\ ErrorBudget'
      BY <1>5, <2>2 DEF Begin, Goto, docVars, TypeOK, Inside, MutualExclusion, Isolation,
                        IdleIsClean, ErrorBudget
    <3>3. CallPhases'
      BY <1>5, <2>2 DEF Begin, Goto, docVars, TypeOK, Inside, MutualExclusion, CallPhases
    <3> QED
      BY <3>1, <3>2, <3>3
  <2> QED
    BY <1>5, <2>1, <2>2 DEF Begin
<1>6. ASSUME NEW c \in Callers, StopCanceled(c) PROVE IInv'
  BY <1>6, ReturnIInv, EmptySeq DEF StopCanceled, docVars, Inside, Outcome, Kinds, TypeOK
<1>7. ASSUME NEW c \in Callers, Fail(c) PROVE IInv'
  <2>1. tokens' \in Nat
    BY <1>7 DEF Fail, Reading, TypeOK
  <2>2. Outcome("failed", "clone", <<>>)
          \in [kind : Kinds, backing : {"clone", "session"}, list : Seq(Callers)]
    BY EmptySeq DEF Outcome, Kinds
  <2>3. pc[c] \in Inside /\ Outcome("failed", "clone", <<>>).backing = "clone"
    BY <1>7 DEF Fail, Reading, Inside, Outcome
  <2> QED
    BY <1>7, <2>1, <2>2, <2>3, ReturnIInv DEF Fail
<1>8. ASSUME NEW c \in Callers, NEW n \in Nat, NEW v \in Values,
             StartElement(c, n, v) \/ EndElement(c, n, v)
      PROVE  IInv'
  <2>1. depth \in Nat /\ seenRoot \in BOOLEAN
    BY DEF TypeOK
  <2>2. depth' \in Nat /\ seenRoot' \in BOOLEAN
    <3>1. CASE StartElement(c, n, v)
      BY <2>1, <3>1 DEF StartElement
    <3>2. CASE EndElement(c, n, v)
      BY <2>1, <3>2 DEF EndElement
    <3> QED
      BY <1>8, <3>1, <3>2
  <2> QED
    BY <1>8, <2>2, HandlerIInv DEF StartElement, EndElement
<1>9. ASSUME NEW c \in Callers, NEW n \in Nat, CharData(c, n) PROVE IInv'
  <2>1. [kind |-> "none"] \in Values
    BY DEF Values
  <2> QED
    BY <1>9, <2>1, HandlerIInv DEF CharData, TypeOK
<1>10. ASSUME NEW c \in Callers, EndOfInput(c) PROVE IInv'
  <2>1. TypeOK'
    BY <1>10 DEF EndOfInput, Goto, docVars, TypeOK, Inside
  <2>2. MutualExclusion' /\ Isolation' /\ IdleIsClean' /\ ErrorBudget'
    BY <1>10 DEF EndOfInput, Goto, docVars, TypeOK, Inside, MutualExclusion, Isolation,
                 IdleIsClean, ErrorBudget
  <2>3. CallPhases'
    BY <1>10 DEF EndOfInput, Goto, docVars, TypeOK, Inside, MutualExclusion, CallPhases
  <2> QED
    BY <2>1, <2>2, <2>3
<1>11. ASSUME NEW c \in Callers, Complete(c) PROVE IInv'
  <2>1. ASSUME Return(c, Outcome("failed", "clone", <<>>)) PROVE IInv'
    BY <1>11, <2>1, ReturnIInv, EmptySeq DEF Complete, docVars, Inside, Outcome, Kinds, TypeOK
  <2>2. ASSUME Return(c, ResultOf(errors)) PROVE IInv'
    BY <1>11, <2>2, ReturnIInv, ResultOfFacts DEF Complete, docVars, Inside, TypeOK
  <2>3. CASE seenRoot /\ depth = 0 /\ Goto(c, "idrefs") /\ UNCHANGED <<reader, result>>
    <3>1. TypeOK'
      BY <1>11, <2>3 DEF Complete, Goto, docVars, TypeOK, Inside
    <3>2. MutualExclusion' /\ Isolation' /\ IdleIsClean' /\ ErrorBudget'
      BY <1>11, <2>3 DEF Complete, Goto, docVars, TypeOK, Inside, MutualExclusion, Isolation,
                         IdleIsClean, ErrorBudget
    <3>3. CallPhases'
      BY <1>11, <2>3 DEF Complete, Goto, docVars, TypeOK, Inside, MutualExclusion, CallPhases
    <3> QED
      BY <3>1, <3>2, <3>3
  <2> QED
    BY <1>11, <2>1, <2>2, <2>3 DEF Complete
<1>12. ASSUME NEW c \in Callers, ReturnResult(c) PROVE IInv'
  BY <1>12, ReturnIInv, ResultOfFacts DEF ReturnResult, docVars, Inside, TypeOK
<1>13. ASSUME NEW c \in Callers, Reset(c) PROVE IInv'
  <2>1. TypeOK'
    BY <1>13, EmptySeq DEF Reset, Goto, TypeOK, Inside
  <2>2. MutualExclusion' /\ Isolation' /\ IdleIsClean'
    BY <1>13 DEF Reset, Goto, TypeOK, Inside, MutualExclusion, Isolation, IdleIsClean
  <2>3. ErrorBudget'
    BY <1>13, EmptySeq, LimitAssumption DEF Reset, ErrorBudget
  <2>4. CallPhases'
    BY <1>13 DEF Reset, Goto, TypeOK, Inside, MutualExclusion, CallPhases
  <2> QED
    BY <2>1, <2>2, <2>3, <2>4
<1>14. ASSUME NEW c \in Callers, Release(c) PROVE IInv'
  <2>1. TypeOK'
    BY <1>14 DEF Release, Goto, docVars, TypeOK, Inside
  <2>2. MutualExclusion'
    BY <1>14 DEF Release, Goto, TypeOK, MutualExclusion, Inside
  <2>3. Isolation' /\ IdleIsClean' /\ ErrorBudget'
    BY <1>14 DEF Release, Goto, docVars, TypeOK, Inside, MutualExclusion, Isolation,
                 IdleIsClean, ErrorBudget, CallPhases
  <2>4. CallPhases'
    BY <1>14 DEF Release, Goto, docVars, TypeOK, Inside, MutualExclusion, CallPhases
  <2> QED
    BY <2>1, <2>2, <2>3, <2>4
<1>15. 0..MaxDiags \subseteq Nat
  BY LimitAssumption
<1> QED
  BY <1>1, <1>2, <1>3, <1>4, <1>5, <1>6, <1>7, <1>8, <1>9, <1>10, <1>11, <1>12,
     <1>13, <1>14, <1>15, CheckIDRefIInv DEF Next, Step, Token

-----------------------------------------------------------------------------
(* The inductive invariant holds of every behaviour of the session.        *)
THEOREM SpecIInv == Spec => []IInv
<1>1. Init => IInv
  BY InitIInv
<1>2. IInv /\ [Next]_vars => IInv'
  BY NextIInv
<1> QED
  BY <1>1, <1>2, PTL DEF Spec

(* Every variable keeps its type, for any number of callers, tokens and    *)
(* diagnostics.                                                            *)
THEOREM TypeCorrect == Spec => []TypeOK
  BY SpecIInv, PTL DEF IInv

(* Session.Validate admits one caller at a time through inUse, however     *)
(* many goroutines hold a copy of the handle.                              *)
THEOREM GuardIsExclusive == Spec => []MutualExclusion
  BY SpecIInv, PTL DEF IInv

(* A running call sees diagnostics, IDs, IDREFs and a reader of its own    *)
(* document only.                                                          *)
THEOREM DocumentsAreIsolated == Spec => []Isolation
  BY SpecIInv, PTL DEF IInv

(* A session outside of a call holds no document state and no reader.      *)
THEOREM IdleSessionIsClean == Spec => []IdleIsClean
  BY SpecIInv, PTL DEF IInv

(* No more than MaxErrors diagnostics are collected, and syntax-only       *)
(* checking starts exactly then, with the semantic state dropped.          *)
THEOREM ErrorsStayInBudget == Spec => []ErrorBudget
  BY SpecIInv, PTL DEF IInv

(* Each phase of a call finds the document state it relies on.             *)
THEOREM PhasesHold == Spec => []CallPhases
  BY SpecIInv, PTL DEF IInv

(* The diagnostics a call returned never change under the caller: neither  *)
(* the reset of that call nor a later call writes to them.                 *)
THEOREM ResultsAreOwned == Spec => ResultIsOwned
<1>1. CallPhases /\ CallPhases' =>
        (\A c \in Callers : result'[c] = result[c] => Observed(c)' = Observed(c))
  BY DEF CallPhases, Observed
<1>2. Spec => []CallPhases
  BY PhasesHold
<1> QED
  BY <1>1, <1>2, PTL DEF ResultIsOwned

-----------------------------------------------------------------------------
(* What a step that changes the result of c has to establish.              *)
VerdictStep(c) ==
  /\ result'[c].kind = "valid" =>
       /\ seenRoot /\ depth = 0 /\ errors = <<>>
       /\ \A k \in 1..Len(idrefs) : <<c, idrefs[k][2]>> \in ids
  /\ result'[c].kind = "invalid" =>
       \A k \in 1..Len(result'[c].list) : result'[c].list[k] = c

(* Only Complete and ReturnResult hand out a verdict; every other return   *)
(* statement, and a rejected overlap, hands out an error.                  *)
LEMMA OtherOutcome ==
  ASSUME TypeOK, NEW c \in Callers, NEW d \in Callers,
         NEW kind \in {"none", "failed", "canceled", "busy"},
         result' = [result EXCEPT ![d] = Outcome(kind, "clone", <<>>)],
         result'[c] # result[c]
  PROVE  VerdictStep(c)
<1>1. c = d /\ result'[c] = Outcome(kind, "clone", <<>>)
  BY DEF TypeOK
<1> QED
  BY <1>1 DEF VerdictStep, Outcome

(* session.result hands the running caller the session's own list, so the  *)
(* verdict is right when every reference resolved or something was         *)
(* reported.                                                               *)
LEMMA OwnOutcome ==
  ASSUME TypeOK, Isolation, NEW c \in Callers, NEW d \in Callers, pc[d] \in Inside,
         result' = [result EXCEPT ![d] = ResultOf(errors)],
         result'[c] # result[c],
         seenRoot, depth = 0,
         errors = <<>> => \A k \in 1..Len(idrefs) : <<d, idrefs[k][2]>> \in ids
  PROVE  VerdictStep(c)
<1>1. c = d /\ result'[c] = ResultOf(errors)
  BY DEF TypeOK
<1>2. \A k \in 1..Len(errors) : errors[k] = c
  BY <1>1 DEF Isolation
<1>3. /\ ResultOf(errors).kind = "valid" => errors = <<>>
      /\ ResultOf(errors).list = errors
  BY ResultOfFacts DEF TypeOK
<1> QED
  BY <1>1, <1>2, <1>3 DEF VerdictStep

LEMMA VerdictOfStep ==
  ASSUME IInv, Next, NEW c \in Callers, result'[c] # result[c]
  PROVE  VerdictStep(c)
<1> USE DEF IInv
<1>1. ASSUME NEW d \in Callers, Enter(d) \/ Reject(d) PROVE VerdictStep(c)
  BY <1>1, OtherOutcome DEF Enter, Reject, NoOutcome
<1>2. ASSUME NEW d \in Callers, Begin(d) \/ StopCanceled(d) \/ Fail(d) PROVE VerdictStep(c)
  BY <1>2, OtherOutcome DEF Begin, StopCanceled, Fail, Return
<1>3. ASSUME NEW d \in Callers, Complete(d) PROVE VerdictStep(c)
  <2>1. CASE Return(d, Outcome("failed", "clone", <<>>))
    BY <2>1, OtherOutcome DEF Return
  <2>2. CASE seenRoot /\ depth = 0 /\ syntaxOnly /\ Return(d, ResultOf(errors))
    <3>1. errors # <<>>
      BY <2>2, LimitAssumption, EmptySeq DEF ErrorBudget
    <3>2. pc[d] \in Inside
      BY <1>3 DEF Complete, Inside
    <3> QED
      BY <2>2, <3>1, <3>2, OwnOutcome DEF Return
  <2> QED
    BY <1>3, <2>1, <2>2 DEF Complete
<1>4. ASSUME NEW d \in Callers, ReturnResult(d) PROVE VerdictStep(c)
  <2>1. pc[d] = "idrefs" /\ pc[d] \in Inside /\ cursor >= Len(idrefs)
    BY <1>4 DEF ReturnResult, Inside
  <2>2. cursor \in Nat /\ Len(idrefs) \in Nat
    BY LenProperties DEF TypeOK
  <2>3. errors = <<>> => \A k \in 1..Len(idrefs) : <<d, idrefs[k][2]>> \in ids
    BY <2>1, <2>2 DEF CallPhases
  <2>4. seenRoot /\ depth = 0
    BY <2>1 DEF CallPhases
  <2> QED
    BY <1>4, <2>1, <2>3, <2>4, OwnOutcome DEF ReturnResult, Return
<1>5. ASSUME NEW d \in Callers, UNCHANGED result PROVE FALSE
  BY <1>5
<1> QED
  BY <1>1, <1>2, <1>3, <1>4, <1>5
     DEF Next, Step, Token, Cancel, StartElement, EndElement, CharData, EndOfInput,
         CheckIDRef, Reset, Release

(* A verdict is about the caller's own, complete document, whatever the    *)
(* other callers did before and meanwhile.                                 *)
THEOREM VerdictsAreOwn == Spec => VerdictIsOwn
<1>1. IInv /\ [Next]_vars =>
        [\A c \in Callers : result'[c] # result[c] => VerdictStep(c)]_vars
  BY VerdictOfStep
<1>2. (\A c \in Callers : result'[c] # result[c] => VerdictStep(c)) <=>
      (\A c \in Callers : result'[c] # result[c] =>
       /\ result'[c].kind = "valid" =>
            /\ seenRoot /\ depth = 0 /\ errors = <<>>
            /\ \A k \in 1..Len(idrefs) : <<c, idrefs[k][2]>> \in ids
       /\ result'[c].kind = "invalid" =>
            \A k \in 1..Len(result'[c].list) : result'[c].list[k] = c)
  BY DEF VerdictStep
<1> QED
  BY <1>1, <1>2, SpecIInv, PTL DEF VerdictIsOwn, Spec
=============================================================================
