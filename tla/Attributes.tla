----------------------------- MODULE Attributes -----------------------------
(***************************************************************************)
(* The attributes of complex types.  A base type and a type derived from   *)
(* it are compiled, one child of their declarations at a time: attribute   *)
(* uses are merged into those inherited, wildcards are intersected and     *)
(* joined, and publication audits the two sets.  Then a session assesses   *)
(* the attributes of an element of each type.                              *)
(***************************************************************************)
EXTENDS WildcardSets, Sequences, FiniteSets, SequencesExt

CONSTANTS
  Types,               \* simple types
  TypeDerives,         \* the pairs of a type and one it is derived from, or is
  IdTypes,             \* the types of ID attributes
  UnavailableTypes,    \* the types left incomplete by a missing document
  Canonical,           \* the canonical text of the valid values of each type
  Identity,            \* what equal values of a primitive type have in common
  GlobalAttributes,    \* the global attribute declarations, by name
  AttributeGroups,     \* the children of each named attribute group
  Children,            \* the children that each type may declare
  MaxChildren,         \* bound: children of one type
  InstanceAttributes,  \* the attribute lists of elements
  HintedNamespaces,    \* namespaces the document gives a schema location for
  MaskBits,            \* 64: uses whose marks fit in a word
  MaxRetainedSliceCap  \* marks that a session retains

ASSUME AttributesAssumption ==
  /\ IdTypes \subseteq Types /\ UnavailableTypes \subseteq Types
  /\ TypeDerives \subseteq Types \X Types
  /\ MaskBits \in Nat /\ MaxRetainedSliceCap \in Nat /\ MaxChildren \in Nat

None == "none"

VARIABLES
  phase,      \* what is compiled, audited or assessed
  derivation, \* how the second type derives from the first
  given,      \* the children given, by type
  merged,     \* the uses merged so far and the wildcard declared
  sets,       \* the finished sets, by type
  verdict,    \* why the schema is refused
  attrs,      \* the attributes of the element
  next,       \* the attribute to assess next
  marks,      \* the uses seen on this element
  scratch,    \* the marks the session retains
  seenID,     \* an ID attribute was seen on this element
  errors      \* the errors reported, by type

vars == <<phase, derivation, given, merged, sets, verdict,
          attrs, next, marks, scratch, seenID, errors>>

-----------------------------------------------------------------------------
(* One attribute use.                                                      *)

ValidValue(type, value) == value \in DOMAIN Canonical[type]

(* FixedValueConstraintEqual: compared as values, not as text.             *)
SameFixed(base, derived) ==
  /\ (base.fixed = None) = (derived.fixed = None)
  /\ base.fixed # None =>
       Identity[base.type][base.fixed] = Identity[derived.type][derived.fixed]

(* A declaration of an attribute: constraints of an unavailable type are   *)
(* dropped, those of an ID or that the type does not admit are refused.    *)
DeclarationAdmits(type, default, fixed) ==
  LET values == {default, fixed} \ {None}
  IN  type \in UnavailableTypes \/ values = {}
      \/ (type \notin IdTypes /\ \A v \in values : ValidValue(type, v))
Kept(type, value) == IF type \in UnavailableTypes THEN None ELSE value

UseOf(name, decl) ==
  [name |-> name, type |-> decl.type, default |-> decl.default, fixed |-> decl.fixed,
   required |-> FALSE, prohibited |-> FALSE, fixedFromDeclaration |-> FALSE]

(* compileAttributeRefUse, compileLocalAttributeUse                        *)
UseBase(child) ==
  IF child.ref THEN LET decl == GlobalAttributes[child.name]
                    IN  [UseOf(child.name, decl) EXCEPT !.fixedFromDeclaration = decl.fixed # None]
  ELSE UseOf(child.name, [type |-> child.type, default |-> Kept(child.type, child.default),
                          fixed |-> Kept(child.type, child.fixed)])

(* compileAttributeUse                                                     *)
CompiledUse(child) ==
  LET base == UseBase(child)
      own(value, inherited) == IF value = None THEN inherited ELSE Kept(base.type, value)
  IN  [base EXCEPT !.default = own(child.default, @), !.fixed = own(child.fixed, @),
                   !.fixedFromDeclaration = @ /\ child.fixed = None,
                   !.required = child.use = "required",
                   !.prohibited = child.use = "prohibited" /\ child.fixed = None]

UseAdmitted(child) ==
  LET base == UseBase(child)
      refFixed == child.ref /\ base.fixed # None
  IN  /\ child.use \in {"required", "prohibited"} => child.default = None
      /\ child.default # None => ~refFixed /\ child.fixed = None
      /\ DeclarationAdmits(base.type, child.default, child.fixed)
      /\ refFixed /\ CompiledUse(child).fixed # None => SameFixed(base, CompiledUse(child))

(* Slip: a use that the base requires may become optional.                 *)
UseRestrictsType(base, derived) ==
  IF derived.prohibited THEN ~base.required
  ELSE <<derived.type, base.type>> \in TypeDerives /\ (base.fixed # None => SameFixed(base, derived))

(* ValidateAttributeUseRestriction                                         *)
UseRestricts(base, derived) ==
  IF derived.prohibited THEN ~base.required
  ELSE /\ base.required => derived.required
       /\ <<derived.type, base.type>> \in TypeDerives
       /\ base.fixed # None => SameFixed(base, derived)

-----------------------------------------------------------------------------
(* Merging the children of a declaration: a merge is the uses so far, the  *)
(* wildcard declared so far, and the first error.                          *)

Merge(uses) == [uses |-> uses, wildcard |-> NoWildcard, error |-> None]
Slots(uses, name) == {i \in DOMAIN uses : uses[i].name = name}
WildcardAllows(wildcard, name) == wildcard # NoWildcard /\ Allows(wildcard, name.ns)

(* AttributeUseMerger.Add                                                  *)
AddUse(merge, use, inheritedWildcard, mode) ==
  LET slots == Slots(merge.uses, use.name)
      refuse(e) == [merge EXCEPT !.error = e]
  IN  IF merge.error # None THEN merge
      ELSE IF slots = {} THEN
        IF mode = "restriction" /\ ~use.prohibited /\ ~WildcardAllows(inheritedWildcard, use.name)
        THEN refuse("outside base wildcard")
        ELSE [merge EXCEPT !.uses = Append(@, use)]
      ELSE LET i == CHOOSE s \in slots : TRUE
           IN  IF mode # "restriction" /\ ~merge.uses[i].prohibited /\ ~use.prohibited
               THEN refuse("duplicate")
               ELSE IF mode = "restriction" /\ ~UseRestricts(merge.uses[i], use)
               THEN refuse("not a restriction")
               ELSE [merge EXCEPT !.uses[i] = use]

(* AttributeWildcardBuilder.AddGroup and AddAnyAttribute                   *)
AddWildcard(merge, wildcard, process) ==
  CASE merge.error # None \/ wildcard = NoWildcard -> merge
    [] merge.error = None /\ wildcard # NoWildcard /\ merge.wildcard = NoWildcard ->
         [merge EXCEPT !.wildcard = wildcard]
    [] OTHER ->
         IF IntersectionExpressible(merge.wildcard, wildcard)
         THEN [merge EXCEPT !.wildcard = IntersectWildcard(@, wildcard, process)]
         ELSE [merge EXCEPT !.error = "intersection"]

(* Finish: a restriction declares a part of the wildcard of its base, an   *)
(* extension adds to it.                                                   *)
FinishWildcard(declared, inherited, mode) ==
  CASE mode = "extension" /\ inherited # NoWildcard /\ declared # NoWildcard ->
         IF UnionExpressible(declared, inherited)
         THEN [wildcard |-> UnionWildcard(declared, inherited, declared.process), error |-> None]
         ELSE [wildcard |-> NoWildcard, error |-> "union"]
    [] mode = "extension" /\ declared = NoWildcard -> [wildcard |-> inherited, error |-> None]
    [] mode = "restriction" /\ declared # NoWildcard
         /\ (inherited = NoWildcard \/ ~WildcardSubset(declared, inherited)) ->
         [wildcard |-> NoWildcard, error |-> "not a subset"]
    [] OTHER -> [wildcard |-> declared, error |-> None]

(* ValidateAttributeUseSetRecord                                           *)
SetAdmitted(uses) ==
  LET ids == {i \in DOMAIN uses : uses[i].type \in IdTypes}
      constrained(i) == uses[i].default # None \/ uses[i].fixed # None
  IN  /\ \A i \in DOMAIN uses : uses[i].default = None \/ uses[i].fixed = None
      /\ \A i \in ids : ~constrained(i)
      /\ Cardinality(ids) <= 1

(* RemoveProhibitedAttributeUses, newAttributeUseSet                       *)
FinishSet(merge, inheritedWildcard, mode) ==
  LET finish == FinishWildcard(merge.wildcard, inheritedWildcard, mode)
      uses == SelectSeq(merge.uses, LAMBDA u : ~u.prohibited)
  IN  [uses |-> uses, wildcard |-> finish.wildcard, base |-> inheritedWildcard,
       declared |-> merge.wildcard, mode |-> mode,
       error |-> IF merge.error # None THEN merge.error
                 ELSE IF finish.error # None THEN finish.error
                 ELSE IF ~SetAdmitted(uses) THEN "invalid set" ELSE None]

(* A group is compiled like a type of its own, before the first use of it; *)
(* groups that are being compiled may not be used.                         *)
RECURSIVE GroupSet(_, _)
MergeChild(merge, child, inheritedWildcard, mode, compiling) ==
  CASE merge.error # None -> merge
    [] merge.error = None /\ child.kind = "attribute" ->
         IF ~UseAdmitted(child) THEN [merge EXCEPT !.error = "invalid use"]
         ELSE AddUse(merge, CompiledUse(child), inheritedWildcard, mode)
    [] merge.error = None /\ child.kind = "group" ->
         LET group == GroupSet(child.group, compiling)
             addUse(m, u) == AddUse(m, u, inheritedWildcard, mode)
             process == IF merge.wildcard # NoWildcard THEN merge.wildcard.process ELSE Strict
         IN  IF group.error # None THEN [merge EXCEPT !.error = group.error]
             ELSE AddWildcard(FoldLeft(addUse, merge, group.uses), group.wildcard, process)
    [] merge.error = None /\ child.kind = "any" ->
         AddWildcard(merge, ParseWildcard(child.spec), child.spec.process)

GroupSet(name, compiling) ==
  LET merge(m, c) == MergeChild(m, c, NoWildcard, "normal", compiling \union {name})
  IN  IF name \in compiling THEN [FinishSet(Merge(<<>>), NoWildcard, "normal") EXCEPT !.error = "recursive group"]
      ELSE FinishSet(FoldLeft(merge, Merge(<<>>), AttributeGroups[name]), NoWildcard, "normal")

-----------------------------------------------------------------------------
(* The audit of publication, which trusts nothing that was compiled.       *)

(* ValidateAttributeUseSetExtension                                        *)
ExtensionAudited(base, derived) ==
  \A u \in ToSet(base.uses) : u \in ToSet(derived.uses)

(* ValidateAttributeUseSetRestriction                                      *)
RestrictionAudited(base, derived) ==
  /\ \A u \in ToSet(base.uses) :
       LET same == {d \in ToSet(derived.uses) : d.name = u.name}
       IN  (u.required => same # {}) /\ \A d \in same : UseRestricts(u, d)
  /\ \A d \in ToSet(derived.uses) :
       Slots(base.uses, d.name) = {} => WildcardAllows(base.wildcard, d.name)

(* ValidateAttributeWildcardProvenance                                     *)
ProvenanceAudited(set) ==
  LET finish == FinishWildcard(set.declared, set.base, set.mode)
  IN  finish.error = None /\ set.wildcard = finish.wildcard

Audited(base, derived) ==
  /\ SetAdmitted(base.uses) /\ SetAdmitted(derived.uses)
  /\ ProvenanceAudited(base) /\ ProvenanceAudited(derived)
  /\ derived.base = base.wildcard
  /\ IF derived.mode = "extension" THEN ExtensionAudited(base, derived)
     ELSE RestrictionAudited(base, derived)

-----------------------------------------------------------------------------
(* Assessment                                                              *)

(* newAttributeSeenWithScratch: few marks fit in a word, which is new for  *)
(* each element; more of them are kept in what the session retains.        *)
NewMarks(n) == [i \in 1..n |-> FALSE]
UsesScratch(n) == n > MaskBits /\ n <= MaxRetainedSliceCap
(* Slip: retained marks are used as they are.                              *)
DirtyScratchFor(n) == IF Len(scratch) < n THEN NewMarks(n) ELSE scratch

ScratchFor(n) ==
  IF Len(scratch) < n THEN NewMarks(n)
  ELSE [i \in DOMAIN scratch |-> IF i <= n THEN FALSE ELSE scratch[i]]

Error(kind, name) == [type |-> phase, kind |-> kind, name |-> name]

(* The value of an attribute: its type, its being the only ID, and its     *)
(* fixed value, compared as a value or as text.                            *)
ValueErrors(name, type, value, fixed, asValue) ==
  LET of(v) == IF asValue THEN Identity[type][v] ELSE Canonical[type][v]
  IN  IF type \in UnavailableTypes THEN {Error("unavailable", name)}
      ELSE IF ~ValidValue(type, value) THEN {Error("value", name)}
      ELSE IF type \in IdTypes /\ seenID THEN {Error("second ID", name)}
      ELSE IF fixed # None /\ of(value) # of(fixed) THEN {Error("fixed", name)}
      ELSE {}
RecordsID(type, value) ==
  type \in IdTypes /\ type \notin UnavailableTypes /\ ValidValue(type, value)

(* validateDeclaredAttributeUse, once the use is marked.                   *)
AssessDeclared(set, slot, attr) ==
  LET use == set.uses[slot]
  IN  IF marks[slot]
      THEN /\ errors' = errors \union {Error("duplicate", attr.name)}
           /\ UNCHANGED <<marks, scratch, seenID>>
      ELSE /\ marks' = [marks EXCEPT ![slot] = TRUE]
           /\ scratch' = IF UsesScratch(Len(set.uses)) THEN [scratch EXCEPT ![slot] = TRUE] ELSE scratch
           /\ errors' = errors \union
                ValueErrors(attr.name, use.type, attr.value, use.fixed, use.fixedFromDeclaration)
           /\ seenID' = (seenID \/ RecordsID(use.type, attr.value))

(* validateWildcardAttribute, MatchAttributeWildcard                       *)
AssessByWildcard(set, attr) ==
  LET matched == WildcardAllows(set.wildcard, attr.name)
      skipped == matched /\ set.wildcard.process = Skip
      known == matched /\ ~skipped /\ attr.name \in DOMAIN GlobalAttributes
  IN  /\ UNCHANGED <<marks, scratch>>
      /\ IF known
         THEN LET decl == GlobalAttributes[attr.name]
              IN  /\ errors' = errors \union ValueErrors(attr.name, decl.type, attr.value, decl.fixed, TRUE)
                  /\ seenID' = (seenID \/ RecordsID(decl.type, attr.value))
         ELSE /\ UNCHANGED seenID
              /\ errors' = errors \union
                   (IF skipped \/ (matched /\ set.wildcard.process = Lax) THEN {}
                    ELSE IF matched /\ attr.name.ns \in HintedNamespaces THEN {Error("unsupported", attr.name)}
                    ELSE {Error("undeclared", attr.name)})

-----------------------------------------------------------------------------

NoSet == [FinishSet(Merge(<<>>), NoWildcard, "normal") EXCEPT !.error = "absent"]

Init ==
  /\ phase = "compile base"
  /\ derivation \in {"restriction", "extension"}
  /\ given = [base |-> <<>>, derived |-> <<>>]
  /\ merged = Merge(<<>>)
  /\ sets = [base |-> NoSet, derived |-> NoSet]
  /\ verdict = None
  /\ attrs = <<>> /\ next = 1 /\ marks = <<>> /\ scratch = <<>> /\ seenID = FALSE
  /\ errors = {}

Compiling == IF phase = "compile base" THEN "base" ELSE "derived"
Mode == IF phase = "compile base" THEN "normal" ELSE derivation
Inherited == IF phase = "compile base" THEN NoWildcard ELSE sets.base.wildcard
HasAny(children) == \E i \in DOMAIN children : children[i].kind = "any"

(* One child of the type being compiled; anyAttribute comes last.          *)
AddChild ==
  /\ phase \in {"compile base", "compile derived"} /\ merged.error = None
  /\ Len(given[Compiling]) < MaxChildren /\ ~HasAny(given[Compiling])
  /\ \E child \in Children[Compiling] :
       /\ given' = [given EXCEPT ![Compiling] = Append(@, child)]
       /\ merged' = MergeChild(merged, child, Inherited, Mode, {})
  /\ UNCHANGED <<phase, derivation, sets, verdict, attrs, next, marks, scratch, seenID, errors>>

FinishType ==
  /\ phase \in {"compile base", "compile derived"}
  /\ LET set == FinishSet(merged, Inherited, Mode)
     IN  /\ sets' = [sets EXCEPT ![Compiling] = set]
         /\ IF set.error # None THEN phase' = "refused" /\ verdict' = set.error /\ UNCHANGED merged
            ELSE /\ phase' = IF phase = "compile base" THEN "compile derived" ELSE "audit"
                 /\ merged' = Merge(set.uses)
                 /\ UNCHANGED verdict
  /\ UNCHANGED <<derivation, given, attrs, next, marks, scratch, seenID, errors>>

Publish ==
  /\ phase = "audit"
  /\ IF Audited(sets.base, sets.derived) THEN phase' = "published" /\ UNCHANGED verdict
     ELSE phase' = "refused" /\ verdict' = "audit"
  /\ UNCHANGED <<derivation, given, merged, sets, attrs, next, marks, scratch, seenID, errors>>

(* An element of the derived type, and then one of the base type with the  *)
(* same attributes, by the same session.                                   *)
StartElement(type) ==
  LET n == Len(sets[type].uses)
  IN  /\ phase' = type
      /\ next' = 1 /\ seenID' = FALSE
      /\ scratch' = IF UsesScratch(n) THEN ScratchFor(n) ELSE scratch
      /\ marks' = IF UsesScratch(n) THEN SubSeq(ScratchFor(n), 1, n) ELSE NewMarks(n)

FirstElement ==
  /\ phase = "published"
  /\ attrs' \in InstanceAttributes
  /\ StartElement("derived")
  /\ UNCHANGED <<derivation, given, merged, sets, verdict, errors>>

Assessing == phase \in {"derived", "base"} /\ ~\E e \in errors : e.kind = "unsupported"

(* The loop of validateAttributeSet                                        *)
AssessAttribute ==
  /\ Assessing /\ next <= Len(attrs)
  /\ next' = next + 1
  /\ LET attr == attrs[next]
         slots == Slots(sets[phase].uses, attr.name)
     IN  IF attr.kind = "namespace" \/ attr.kind = "xsi" THEN UNCHANGED <<marks, scratch, seenID, errors>>
         ELSE IF slots # {} THEN AssessDeclared(sets[phase], CHOOSE s \in slots : TRUE, attr)
         ELSE AssessByWildcard(sets[phase], attr)
  /\ UNCHANGED <<phase, derivation, given, merged, sets, verdict, attrs>>

(* validateRequiredAndDefaultAttributes.  A default is never an ID.        *)
MissingErrors(set) ==
  {Error("missing", set.uses[i].name) : i \in {j \in DOMAIN set.uses : set.uses[j].required /\ ~marks[j]}}

FinishElement ==
  /\ Assessing /\ next > Len(attrs)
  /\ errors' = errors \union MissingErrors(sets[phase])
  /\ IF phase = "derived" THEN StartElement("base")
     ELSE phase' = "done" /\ UNCHANGED <<next, marks, scratch, seenID>>
  /\ UNCHANGED <<derivation, given, merged, sets, verdict, attrs>>

Stopped == (phase \in {"done", "refused"} \/ (phase \in {"derived", "base"} /\ ~Assessing)) /\ UNCHANGED vars

Next == AddChild \/ FinishType \/ Publish \/ FirstElement \/ AssessAttribute \/ FinishElement \/ Stopped

Spec == Init /\ [][Next]_vars
=============================================================================
