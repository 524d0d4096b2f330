------------------------------ MODULE Session ------------------------------
(***************************************************************************)
(* A reusable validation session shared by several goroutines.             *)
(*                                                                         *)
(* A session is a handle: copies alias one owner, so every caller below    *)
(* runs Validate on the same documentState and the same stream parser.     *)
(* The owner is guarded by the atomic inUse flag, taken by a               *)
(* compare-and-swap and released by a deferred store that runs after the   *)
(* deferred reset.  Between the two, validate pulls tokens from the        *)
(* caller's reader, collects recoverable diagnostics up to MaxErrors,      *)
(* falls back to syntax-only checking when the limit is reached, and ends  *)
(* by resolving the retained IDREFs.                                       *)
(*                                                                         *)
(* What a handler decides about one element is the subject of other        *)
(* modules.  Here a handler contributes a number of recoverable            *)
(* diagnostics, or one error that ends the call.  Everything a document    *)
(* leaves in the session is tagged with the caller whose document it is,   *)
(* so that a leak from one document into another is visible.               *)
(***************************************************************************)
EXTENDS Naturals, Sequences

CONSTANTS
  Callers,    \* goroutines holding a copy of the handle
  Ids,        \* ID / IDREF values that documents use
  None,       \* no reader is attached to the parser
  MaxErrors,  \* normalized Options.MaxErrors, never 0
  MaxDepth,   \* normalized Options.MaxInstanceDepth, never 0
  MaxTokens,  \* bound of the model: tokens in one document
  MaxDiags    \* bound of the model: diagnostics of one handler

ASSUME NoneAssumption == None \notin Callers
ASSUME LimitAssumption ==
  /\ MaxErrors \in Nat \ {0}
  /\ MaxDepth \in Nat \ {0}
  /\ MaxTokens \in Nat
  /\ MaxDiags \in Nat

VARIABLES
  inUse,       \* Session.inUse
  pc,          \* where each caller is inside Session.Validate
  canceled,    \* whether the context of each caller's call is done
  reader,      \* whose reader the parser is attached to
  tokens,      \* tokens read from that reader
  depth,       \* doc.Depth()
  seenRoot,    \* doc.seenRoot
  syntaxOnly,  \* doc.syntaxOnly
  errors,      \* doc.errors: for each diagnostic, the document it is about
  ids,         \* doc.identity.ids: <<document, ID>>
  idrefs,      \* doc.identity.idrefs: sequence of <<document, ID>>
  cursor,      \* the IDREF that CheckIDRefs looks at next
  result       \* what each caller's last call returned

docVars == <<tokens, depth, seenRoot, syntaxOnly, errors, ids, idrefs, cursor>>
vars == <<inUse, pc, canceled, reader, docVars, result>>

Inside == {"begin", "loop", "complete", "idrefs", "reset", "release"}
Kinds == {"none", "valid", "invalid", "failed", "canceled", "busy"}

(***************************************************************************)
(* A slice handed to the caller is a clone or shares the session's array.  *)
(***************************************************************************)
Outcome(kind, backing, list) == [kind |-> kind, backing |-> backing, list |-> list]

NoOutcome == Outcome("none", "clone", <<>>)

TypeOK ==
  /\ inUse \in BOOLEAN
  /\ pc \in [Callers -> Inside \union {"idle"}]
  /\ canceled \in [Callers -> BOOLEAN]
  /\ reader \in Callers \union {None}
  /\ tokens \in Nat
  /\ depth \in Nat
  /\ seenRoot \in BOOLEAN
  /\ syntaxOnly \in BOOLEAN
  /\ errors \in Seq(Callers)
  /\ ids \in SUBSET (Callers \X Ids)
  /\ idrefs \in Seq(Callers \X Ids)
  /\ cursor \in Nat
  /\ result \in [Callers -> [kind : Kinds, backing : {"clone", "session"},
                             list : Seq(Callers)]]

Init ==
  /\ inUse = FALSE
  /\ pc = [c \in Callers |-> "idle"]
  /\ canceled = [c \in Callers |-> FALSE]
  /\ reader = None
  /\ tokens = 0
  /\ depth = 0
  /\ seenRoot = FALSE
  /\ syntaxOnly = FALSE
  /\ errors = <<>>
  /\ ids = {}
  /\ idrefs = <<>>
  /\ cursor = 0
  /\ result = [c \in Callers |-> NoOutcome]

-----------------------------------------------------------------------------
(* Entering and leaving the guard.                                         *)

Goto(c, label) == pc' = [pc EXCEPT ![c] = label]

(* Slip: the deferred store runs before the deferred reset.                *)
ReturnReleasingFirst(c, outcome) ==
  /\ Goto(c, "release")
  /\ reader' = None
  /\ result' = [result EXCEPT ![c] = outcome]

(* Every return statement of validate leads to the deferred reset; the     *)
(* parser is detached by a defer of validate itself.                       *)
Return(c, outcome) ==
  /\ Goto(c, "reset")
  /\ reader' = None
  /\ result' = [result EXCEPT ![c] = outcome]

(* Slip: the guard is stored without being compared first.                 *)
EnterUnguarded(c) ==
  /\ pc[c] = "idle"
  /\ inUse' = TRUE
  /\ Goto(c, "begin")
  /\ canceled' \in {[canceled EXCEPT ![c] = b] : b \in BOOLEAN}
  /\ result' = [result EXCEPT ![c] = NoOutcome]
  /\ UNCHANGED <<reader, docVars>>

(* CompareAndSwap(false, true) succeeded.                                  *)
Enter(c) ==
  /\ pc[c] = "idle"
  /\ ~inUse
  /\ inUse' = TRUE
  /\ Goto(c, "begin")
  /\ canceled' \in {[canceled EXCEPT ![c] = b] : b \in BOOLEAN}
  /\ result' = [result EXCEPT ![c] = NoOutcome]
  /\ UNCHANGED <<reader, docVars>>

(* CompareAndSwap failed: the call returns without touching its reader.    *)
Reject(c) ==
  /\ pc[c] = "idle"
  /\ inUse
  /\ result' = [result EXCEPT ![c] = Outcome("busy", "clone", <<>>)]
  /\ UNCHANGED <<inUse, pc, canceled, reader, docVars>>

(* The caller's context is canceled while its call is running.             *)
Cancel(c) ==
  /\ pc[c] \in Inside
  /\ ~canceled[c]
  /\ canceled' = [canceled EXCEPT ![c] = TRUE]
  /\ UNCHANGED <<inUse, pc, reader, docVars, result>>

(* Slip: a document field that reset does not rebuild.                     *)
ResetKeepingIDs(c) ==
  /\ pc[c] = "reset"
  /\ Goto(c, "release")
  /\ reader' = None
  /\ tokens' = 0
  /\ depth' = 0
  /\ seenRoot' = FALSE
  /\ syntaxOnly' = FALSE
  /\ errors' = <<>>
  /\ idrefs' = <<>>
  /\ cursor' = 0
  /\ UNCHANGED <<inUse, canceled, ids, result>>

(* defer s.session.reset(): the document state is rebuilt from scratch.    *)
Reset(c) ==
  /\ pc[c] = "reset"
  /\ Goto(c, "release")
  /\ reader' = None
  /\ tokens' = 0
  /\ depth' = 0
  /\ seenRoot' = FALSE
  /\ syntaxOnly' = FALSE
  /\ errors' = <<>>
  /\ ids' = {}
  /\ idrefs' = <<>>
  /\ cursor' = 0
  /\ UNCHANGED <<inUse, canceled, result>>

(* Slip: the guard stays set when the caller's context is canceled.        *)
ReleaseUnlessCanceled(c) ==
  /\ pc[c] = "release"
  /\ ~canceled[c]
  /\ inUse' = FALSE
  /\ Goto(c, "idle")
  /\ UNCHANGED <<canceled, reader, docVars, result>>

(* defer s.inUse.Store(false), the last deferred call to run.              *)
Release(c) ==
  /\ pc[c] = "release"
  /\ inUse' = FALSE
  /\ Goto(c, "idle")
  /\ UNCHANGED <<canceled, reader, docVars, result>>

-----------------------------------------------------------------------------
(* Recoverable diagnostics.                                                *)

(* What recover leaves after n diagnostics of document c: it stops         *)
(* collecting when the limit is reached.                                   *)
Collected(c, n) ==
  LET room == MaxErrors - Len(errors)
      kept == IF n <= room THEN n ELSE room
  IN  errors \o [i \in 1..kept |-> c]

(* Slip: the limit is noticed one diagnostic late.                         *)
LimitExceeded(list) == Len(list) > MaxErrors

LimitReached(list) == Len(list) >= MaxErrors

(* The loop's tail: when a handler reached the limit, the semantic state   *)
(* is discarded and only the XML syntax of the rest is checked.            *)
Report(c, n) ==
  /\ errors' = Collected(c, n)
  /\ syntaxOnly' = LimitReached(Collected(c, n))

Discardable(set, empty) == IF syntaxOnly' THEN empty ELSE set

-----------------------------------------------------------------------------
(* validate: opening the input and the token loop.                         *)

(* The context is checked, then the parser is attached and reads the       *)
(* prolog; a nil reader or an unusable prolog ends the call.               *)
Begin(c) ==
  /\ pc[c] = "begin"
  /\ UNCHANGED <<inUse, canceled, docVars>>
  /\ \/ /\ canceled[c]
        /\ Return(c, Outcome("canceled", "clone", <<>>))
     \/ /\ ~canceled[c]
        /\ Return(c, Outcome("failed", "clone", <<>>))
     \/ /\ ~canceled[c]
        /\ Goto(c, "loop")
        /\ reader' = c
        /\ UNCHANGED result

(* The context is checked after every call of parser.Next.                 *)
StopCanceled(c) ==
  /\ pc[c] \in {"loop", "complete", "idrefs"}
  /\ pc[c] = "idrefs" => cursor < Len(idrefs)
  /\ canceled[c]
  /\ Return(c, Outcome("canceled", "clone", <<>>))
  /\ UNCHANGED <<inUse, canceled, docVars>>

Reading(c) ==
  /\ pc[c] = "loop"
  /\ ~canceled[c]
  /\ tokens < MaxTokens
  /\ tokens' = tokens + 1

(* A parser error, a directive, or an unrecoverable error of a handler:    *)
(* the diagnostics collected so far are dropped.                           *)
Fail(c) ==
  /\ Reading(c)
  /\ Return(c, Outcome("failed", "clone", <<>>))
  /\ UNCHANGED <<inUse, canceled, depth, seenRoot, syntaxOnly, errors, ids,
                 idrefs, cursor>>

(* The values an element can contribute: an ID, an IDREF, or neither.      *)
Values == {[kind |-> "none"]} \union [kind : {"id", "idref"}, id : Ids]

Duplicate(v) == v.kind = "id" /\ \E d \in Callers : <<d, v.id>> \in ids

(* The semantic half of a handler: n recoverable diagnostics, and at most  *)
(* one ID or IDREF value.  recordIdentityFields keeps the value, or        *)
(* reports a duplicate ID without storing it.                              *)
Assess(c, n, v) ==
  IF syntaxOnly
  THEN UNCHANGED <<syntaxOnly, errors, ids, idrefs>>
  ELSE /\ Report(c, n + (IF Duplicate(v) THEN 1 ELSE 0))
       /\ ids' = Discardable(IF v.kind = "id" /\ ~Duplicate(v)
                             THEN ids \union {<<c, v.id>>} ELSE ids, {})
       /\ idrefs' = Discardable(IF v.kind = "idref"
                                THEN Append(idrefs, <<c, v.id>>) ELSE idrefs, <<>>)

(* session.start and session.syntaxStart: PrepareStart refuses a document  *)
(* that is too deep or has a second root, otherwise the element is pushed. *)
StartElement(c, n, v) ==
  /\ Reading(c)
  /\ depth < MaxDepth
  /\ depth = 0 => ~seenRoot
  /\ depth' = depth + 1
  /\ seenRoot' = TRUE
  /\ Assess(c, n, v)
  /\ UNCHANGED <<inUse, pc, canceled, reader, cursor, result>>

(* session.end: the frame is popped whatever the frame's checks reported.  *)
EndElement(c, n, v) ==
  /\ Reading(c)
  /\ depth > 0
  /\ depth' = depth - 1
  /\ Assess(c, n, v)
  /\ UNCHANGED <<inUse, pc, canceled, reader, seenRoot, cursor, result>>

(* session.chars: at most one diagnostic.  Outside the root a diagnostic   *)
(* is still reported in syntax-only mode, and then it ends the call: that  *)
(* outcome is Fail.                                                        *)
CharData(c, n) ==
  /\ Reading(c)
  /\ n <= 1
  /\ Assess(c, n, [kind |-> "none"])
  /\ UNCHANGED <<inUse, pc, canceled, reader, depth, seenRoot, cursor, result>>

(* parser.Next returned io.EOF, and nothing but io.EOF.                    *)
EndOfInput(c) ==
  /\ pc[c] = "loop"
  /\ ~canceled[c]
  /\ Goto(c, "complete")
  /\ UNCHANGED <<inUse, canceled, reader, docVars, result>>

-----------------------------------------------------------------------------
(* finishValidation.                                                       *)

(* Slip: the session's own slice is returned.                              *)
ResultAliased(list) ==
  IF list = <<>> THEN Outcome("valid", "clone", <<>>)
                 ELSE Outcome("invalid", "session", list)

(* session.result: the error list is cloned, because reset clears the      *)
(* session's own array.                                                    *)
ResultOf(list) ==
  IF list = <<>> THEN Outcome("valid", "clone", <<>>)
                 ELSE Outcome("invalid", "clone", list)

(* doc.Complete: a document without a root, or with an open element, fails *)
(* whatever was collected.                                                 *)
Complete(c) ==
  /\ pc[c] = "complete"
  /\ ~canceled[c]
  /\ UNCHANGED <<inUse, canceled, docVars>>
  /\ \/ /\ ~seenRoot \/ depth # 0
        /\ Return(c, Outcome("failed", "clone", <<>>))
     \/ /\ seenRoot /\ depth = 0
        /\ syntaxOnly
        /\ Return(c, ResultOf(errors))
     \/ /\ seenRoot /\ depth = 0
        /\ ~syntaxOnly
        /\ Goto(c, "idrefs")
        /\ UNCHANGED <<reader, result>>

(* Slip: an IDREF is compared with the retained references themselves.     *)
ResolvesAmongRefs(ref) == \E k \in 1..Len(idrefs) : idrefs[k][2] = ref[2]

Resolves(ref) == \E d \in Callers : <<d, ref[2]>> \in ids

(* One turn of CheckIDRefs: the context is checked before each reference,  *)
(* an unresolved one is reported, and the error limit ends the loop with   *)
(* the semantic state discarded.                                           *)
CheckIDRef(c) ==
  /\ pc[c] = "idrefs"
  /\ cursor < Len(idrefs)
  /\ ~canceled[c]
  /\ Report(c, IF Resolves(idrefs[cursor + 1]) THEN 0 ELSE 1)
  /\ ids' = Discardable(ids, {})
  /\ idrefs' = Discardable(idrefs, <<>>)
  /\ cursor' = Discardable(cursor + 1, 0)
  /\ UNCHANGED <<inUse, pc, canceled, reader, tokens, depth, seenRoot, result>>

ReturnResult(c) ==
  /\ pc[c] = "idrefs"
  /\ cursor >= Len(idrefs)
  /\ Return(c, ResultOf(errors))
  /\ UNCHANGED <<inUse, canceled, docVars>>

-----------------------------------------------------------------------------
Token(c) ==
  \/ \E n \in 0..MaxDiags, v \in Values : StartElement(c, n, v) \/ EndElement(c, n, v)
  \/ \E n \in 0..MaxDiags : CharData(c, n)
  \/ Fail(c)
  \/ EndOfInput(c)

Step(c) ==
  \/ Begin(c)
  \/ StopCanceled(c)
  \/ Token(c)
  \/ Complete(c)
  \/ CheckIDRef(c)
  \/ ReturnResult(c)
  \/ Reset(c)
  \/ Release(c)

Next == \E c \in Callers : Enter(c) \/ Reject(c) \/ Cancel(c) \/ Step(c)

Spec == Init /\ [][Next]_vars

(* A goroutine inside a call keeps running, as long as its reader answers; *)
(* MaxTokens makes every input finite, as MaxInstanceBytes does.           *)
FairSpec == Spec /\ \A c \in Callers : WF_vars(Step(c))

-----------------------------------------------------------------------------
(* Properties.                                                             *)

(* The atomic guard admits one call at a time, and it is set exactly while *)
(* some call is inside.                                                    *)
MutualExclusion ==
  /\ \A c, d \in Callers : pc[c] \in Inside /\ pc[d] \in Inside => c = d
  /\ inUse <=> \E c \in Callers : pc[c] \in Inside

(* Whatever document state the session holds is the running call's own:    *)
(* no diagnostic, ID, IDREF or reader of an earlier document is left when  *)
(* a later one is validated.                                               *)
Isolation ==
  \A c \in Callers : pc[c] \in Inside =>
    /\ \A k \in 1..Len(errors) : errors[k] = c
    /\ \A p \in ids : p[1] = c
    /\ \A k \in 1..Len(idrefs) : idrefs[k][1] = c
    /\ reader \in {c, None}

(* A session nobody is using references no caller's reader, and holds no   *)
(* state of the document it validated last: reset runs before release.     *)
IdleIsClean ==
  ~inUse => /\ reader = None
            /\ depth = 0 /\ ~seenRoot /\ ~syntaxOnly
            /\ errors = <<>> /\ ids = {} /\ idrefs = <<>>

(* At most MaxErrors diagnostics are collected, and the document falls     *)
(* back to syntax-only checking exactly when the limit is reached, so no   *)
(* semantic state outlives the limit.                                      *)
ErrorBudget ==
  /\ Len(errors) <= MaxErrors
  /\ syntaxOnly <=> Len(errors) = MaxErrors
  /\ syntaxOnly => ids = {} /\ idrefs = <<>>

(* Where a call stands in its document: a call begins and ends with clean  *)
(* document state, CheckIDRefs starts at the first reference and runs only *)
(* after a complete document, and while nothing was reported every         *)
(* reference behind the cursor resolved within the caller's own document.  *)
CallPhases ==
  /\ \A c \in Callers : pc[c] \in {"begin", "release"} =>
       /\ reader = None
       /\ depth = 0 /\ ~seenRoot /\ ~syntaxOnly
       /\ errors = <<>> /\ ids = {} /\ idrefs = <<>> /\ cursor = 0
  /\ \A c \in Callers : pc[c] \in {"loop", "complete"} => cursor = 0
  /\ \A c \in Callers : pc[c] = "idrefs" =>
       /\ seenRoot /\ depth = 0
       /\ errors = <<>> => \A k \in 1..Len(idrefs) :
                            k <= cursor => <<c, idrefs[k][2]>> \in ids
  /\ ~inUse => cursor = 0
  /\ \A c \in Callers : result[c].backing = "clone"

(* What the caller of a returned error list sees.                          *)
Observed(c) ==
  IF result[c].backing = "session" THEN errors ELSE result[c].list

(* Returned diagnostics are caller-owned: neither the deferred reset nor a *)
(* later validation through another copy of the handle changes them.       *)
ResultIsOwned ==
  [][\A c \in Callers :
       result'[c] = result[c] => Observed(c)' = Observed(c)]_vars

(* A verdict is about the caller's own document: "valid" is returned only  *)
(* with a complete document, no diagnostic and every IDREF resolved, and a *)
(* list of diagnostics never names another document.                       *)
VerdictIsOwn ==
  [][\A c \in Callers : result'[c] # result[c] =>
       /\ result'[c].kind = "valid" =>
            /\ seenRoot /\ depth = 0 /\ errors = <<>>
            /\ \A k \in 1..Len(idrefs) : <<c, idrefs[k][2]>> \in ids
       /\ result'[c].kind = "invalid" =>
            \A k \in 1..Len(result'[c].list) : result'[c].list[k] = c]_vars

(* Every admitted call returns and releases the guard, whatever the input, *)
(* the cancellations and the overlapping calls are.                        *)
CallReturns == \A c \in Callers : pc[c] \in Inside ~> pc[c] = "idle"
=============================================================================
