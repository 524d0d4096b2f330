--------------------------- MODULE IdentityProofs ---------------------------
(***************************************************************************)
(* Proofs about the identity-constraint machine, for every schema, every   *)
(* document, every limit and every way an element can end: its stacks are  *)
(* those of the elements that are open, what it holds was counted, and     *)
(* what it marks invalid was reported.                                     *)
(*                                                                         *)
(* The invariant describes an identity state beside the frames and the     *)
(* phase of the handler, so that a lemma can speak of the states between   *)
(* the calls of one handler too.                                           *)
(***************************************************************************)
EXTENDS IdentityProperties, FiniteSetTheorems, SequenceTheorems, TLAPS

AcrossSelectors == INSTANCE Folding WITH Op <- MatchSelector
AcrossScopes == INSTANCE Folding WITH Op <- MatchScope
AcrossRefs == INSTANCE Folding WITH Op <- AddUnresolved

-----------------------------------------------------------------------------
(* The types.                                                              *)

Data == Values \union {NilKey, NoValue}
AssessmentModes == {"declared", "lax", "skipped", "recovery"}
FieldStates == {"absent", "present", "invalid"}

FieldValues == [state : FieldStates, value : Data, nillable : BOOLEAN]
Selections ==
  [scope : Nat, constraint : Constraints, depth : Nat, element : Nat, node : Nat,
   fieldStart : Nat, fieldLen : Nat]
Entries == [element : Nat, node : Nat, conflict : BOOLEAN]
Tables == UNION {[keys -> Entries] : keys \in SUBSET Seq(Data)}
References == [key : Seq(Data), refer : {Refer[c] : c \in Constraints}, element : Nat]
Scopes ==
  [depth : Nat, constraints : Seq(Constraints), refs : Seq(References), invalid : BOOLEAN,
   tables : [Constraints -> Tables]]
Identities ==
  [ids : SUBSET Values, scopes : Seq(Scopes), selections : Seq(Selections),
   fieldValues : Seq(FieldValues), entries : Nat, nextNode : Nat]

Frames == [node : Nat, name : Names, mode : AssessmentModes, nilled : BOOLEAN, invalid : BOOLEAN]
ReportCodes ==
  {"assessment", "multiple", "nosimple", "missing", "nillable", "duplicate", "unresolved"}
Reports == [code : ReportCodes, element : Nat]
Kinds == {[kind |-> "open"], [kind |-> "complex"], [kind |-> "invalid"]}
           \union [kind : {"value"}, value : Data]
           \union UNION {Contents[n] : n \in Names}
Elements ==
  [parent : Nat, name : Names, mode : AssessmentModes, nilled : BOOLEAN,
   attr : UNION {Attributes[n] : n \in Names}, content : Kinds, invalid : BOOLEAN]

Phases == {"run", "owned", "elsewhere", "done", "syntax", "failed"}

TypeOK ==
  /\ phase \in Phases
  /\ frames \in Seq(Frames)
  /\ identity \in Identities
  /\ errors \in Seq(Reports)
  /\ tree \in Seq(Elements)

-----------------------------------------------------------------------------
(* What is about fields touches neither stack: which selections there are, *)
(* what they are and where their slices lie, and what the scopes hold.     *)
Touches(s, t) ==
  /\ t \in Identities
  /\ t.ids = s.ids /\ t.selections = s.selections
  /\ t.entries = s.entries /\ t.nextNode = s.nextNode
  /\ Len(t.scopes) = Len(s.scopes) /\ Len(t.fieldValues) = Len(s.fieldValues)
  /\ \A i \in 1..Len(s.scopes) :
       /\ t.scopes[i].depth = s.scopes[i].depth
       /\ t.scopes[i].constraints = s.scopes[i].constraints
       /\ t.scopes[i].refs = s.scopes[i].refs
       /\ t.scopes[i].tables = s.scopes[i].tables

(* Nothing is touched by doing nothing.                                    *)
LEMMA TouchesItself ==
  ASSUME NEW s \in Identities
  PROVE  Touches(s, s)
BY DEF Touches

(* What touches no stack can be done twice.                                *)
LEMMA TouchesTwice ==
  ASSUME NEW s \in Identities, NEW t, NEW u, Touches(s, t), Touches(t, u)
  PROVE  Touches(s, u)
BY DEF Touches

(* The parts of an identity state.                                         *)
LEMMA Parts ==
  ASSUME NEW s \in Identities
  PROVE  /\ s.ids \in SUBSET Values /\ s.entries \in Nat /\ s.nextNode \in Nat
         /\ s.scopes \in Seq(Scopes) /\ Len(s.scopes) \in Nat
         /\ s.selections \in Seq(Selections) /\ Len(s.selections) \in Nat
         /\ s.fieldValues \in Seq(FieldValues) /\ Len(s.fieldValues) \in Nat
         /\ DOMAIN s.scopes = 1..Len(s.scopes)
         /\ DOMAIN s.selections = 1..Len(s.selections)
         /\ DOMAIN s.fieldValues = 1..Len(s.fieldValues)
         /\ \A i \in 1..Len(s.scopes) : s.scopes[i] \in Scopes
         /\ \A i \in 1..Len(s.selections) : s.selections[i] \in Selections
         /\ \A i \in 1..Len(s.fieldValues) : s.fieldValues[i] \in FieldValues
BY DEF Identities

(* A function on the places of a sequence is one of the same length.       *)
LEMMA MappedSeq ==
  ASSUME NEW T, NEW n \in Nat, NEW t, t = [i \in 1..n |-> t[i]], \A i \in 1..n : t[i] \in T
  PROVE  t \in Seq(T) /\ Len(t) = n /\ DOMAIN t = 1..n
<1>1. t \in [1..n -> T]
  OBVIOUS
<1>2. QED
  BY <1>1

(* Nothing of scopes but the mark.                                         *)
LEMMA InvalidTouches ==
  ASSUME NEW s \in Identities, NEW indexes, NEW fields \in Seq(FieldValues),
         Len(fields) = Len(s.fieldValues)
  PROVE  Touches(s, [s EXCEPT !.scopes = InvalidScopes(s, indexes), !.fieldValues = fields])
<1> DEFINE n == Len(s.scopes)
           marked == InvalidScopes(s, indexes)
           t == [s EXCEPT !.scopes = marked, !.fieldValues = fields]
<1>1. n \in Nat /\ DOMAIN s.scopes = 1..n /\ \A i \in 1..n : s.scopes[i] \in Scopes
  BY Parts
<1>2. \A i \in 1..n : marked[i] = IF i \in indexes THEN [s.scopes[i] EXCEPT !.invalid = TRUE]
                                                  ELSE s.scopes[i]
  BY <1>1 DEF InvalidScopes
<1>3. marked = [i \in 1..n |-> marked[i]]
  BY <1>1 DEF InvalidScopes
<1>4. \A i \in 1..n : /\ marked[i] \in Scopes
                      /\ marked[i].depth = s.scopes[i].depth
                      /\ marked[i].constraints = s.scopes[i].constraints
                      /\ marked[i].refs = s.scopes[i].refs
                      /\ marked[i].tables = s.scopes[i].tables
  <2>1. ASSUME NEW scope \in Scopes, NEW x, x \in {scope, [scope EXCEPT !.invalid = TRUE]}
        PROVE  /\ x \in Scopes /\ x.depth = scope.depth /\ x.constraints = scope.constraints
               /\ x.refs = scope.refs /\ x.tables = scope.tables
    BY ONLY <2>1 DEF Scopes
  <2>2. \A i \in 1..n : /\ s.scopes[i] \in Scopes
                        /\ marked[i] \in {s.scopes[i], [s.scopes[i] EXCEPT !.invalid = TRUE]}
    BY <1>1, <1>2
  <2>3. QED
    BY ONLY <2>1, <2>2
<1> HIDE DEF marked
<1>5. marked \in Seq(Scopes) /\ Len(marked) = n
  BY <1>1, <1>3, <1>4, MappedSeq
<1>6. t \in Identities
  BY <1>5 DEF Identities
<1>7. /\ t.ids = s.ids /\ t.selections = s.selections /\ t.entries = s.entries
      /\ t.nextNode = s.nextNode /\ t.scopes = marked /\ t.fieldValues = fields
  BY DEF Identities
<1> HIDE DEF t
<1>8. Touches(s, t)
  BY <1>4, <1>5, <1>6, <1>7 DEF Touches
<1>9. QED
  BY <1>8 DEF t, marked

(* Capturing fields touches no stack: CaptureFields.                       *)
LEMMA CaptureTouches ==
  ASSUME NEW s \in Identities, NEW matches, NEW v \in Data
  PROVE  Touches(s, Capture(s, matches, v))
<1> DEFINE n == Len(s.fieldValues)
           cells == CellsOf(s, matches)
           fields == [k \in DOMAIN s.fieldValues |->
                        IF k \notin cells \/ s.fieldValues[k].state = "invalid"
                        THEN s.fieldValues[k]
                        ELSE IF s.fieldValues[k].state = "absent"
                        THEN [s.fieldValues[k] EXCEPT !.state = "present", !.value = v]
                        ELSE [s.fieldValues[k] EXCEPT !.state = "invalid", !.value = NoValue]]
<1>1. n \in Nat /\ DOMAIN s.fieldValues = 1..n /\ \A k \in 1..n : s.fieldValues[k] \in FieldValues
  BY Parts
<1>2. fields = [k \in 1..n |-> fields[k]] /\ \A k \in 1..n : fields[k] \in FieldValues
  <2> HIDE DEF cells
  <2>1. QED
    BY <1>1 DEF FieldValues, FieldStates, Data
<1>3. Capture(s, matches, v) =
        [s EXCEPT !.scopes = InvalidScopes(s, ScopesOf(s, Repeated(s, matches))), !.fieldValues = fields]
  BY DEF Capture, Identities
<1> HIDE DEF fields
<1>4. fields \in Seq(FieldValues) /\ Len(fields) = n
  BY <1>1, <1>2, MappedSeq
<1>5. Touches(s, [s EXCEPT !.scopes = InvalidScopes(s, ScopesOf(s, Repeated(s, matches))),
                        !.fieldValues = fields])
  BY <1>4, InvalidTouches
<1>6. QED
  BY <1>3, <1>5, Zenon

(* Nor does invalidating them: InvalidateFields.                           *)
LEMMA InvalidateTouches ==
  ASSUME NEW s \in Identities, NEW matches
  PROVE  Touches(s, Invalidate(s, matches))
<1> DEFINE n == Len(s.fieldValues)
           cells == CellsOf(s, matches)
           fields == [k \in DOMAIN s.fieldValues |->
                        IF k \in cells
                        THEN [s.fieldValues[k] EXCEPT !.state = "invalid", !.value = NoValue]
                        ELSE s.fieldValues[k]]
<1>1. n \in Nat /\ DOMAIN s.fieldValues = 1..n /\ \A k \in 1..n : s.fieldValues[k] \in FieldValues
  BY Parts
<1>2. fields = [k \in 1..n |-> fields[k]] /\ \A k \in 1..n : fields[k] \in FieldValues
  <2> HIDE DEF cells
  <2>1. QED
    BY <1>1 DEF FieldValues, FieldStates, Data
<1>3. Invalidate(s, matches) =
        [s EXCEPT !.scopes = InvalidScopes(s, ScopesOf(s, matches)), !.fieldValues = fields]
  BY DEF Invalidate, Identities
<1> HIDE DEF fields
<1>4. fields \in Seq(FieldValues) /\ Len(fields) = n
  BY <1>1, <1>2, MappedSeq
<1>5. Touches(s, [s EXCEPT !.scopes = InvalidScopes(s, ScopesOf(s, matches)),
                        !.fieldValues = fields])
  BY <1>4, InvalidTouches
<1>6. QED
  BY <1>3, <1>5, Zenon

(* Nor does marking key fields nillable: MarkNillableKeyFields.            *)
LEMMA MarkNillableTouches ==
  ASSUME NEW s \in Identities, NEW matches
  PROVE  Touches(s, MarkNillable(s, matches))
<1> DEFINE n == Len(s.fieldValues)
           cells == CellsOf(s, {m \in matches : Kind[s.selections[m[1]].constraint] = "key"})
           fields == [k \in DOMAIN s.fieldValues |->
                        IF k \in cells /\ s.fieldValues[k].state = "present"
                        THEN [s.fieldValues[k] EXCEPT !.nillable = TRUE] ELSE s.fieldValues[k]]
<1>1. n \in Nat /\ DOMAIN s.fieldValues = 1..n /\ \A k \in 1..n : s.fieldValues[k] \in FieldValues
  BY Parts
<1>2. fields = [k \in 1..n |-> fields[k]] /\ \A k \in 1..n : fields[k] \in FieldValues
  <2> HIDE DEF cells
  <2>1. QED
    BY <1>1 DEF FieldValues
<1>3. MarkNillable(s, matches) = [s EXCEPT !.fieldValues = fields]
  BY DEF MarkNillable, Identities
<1> HIDE DEF fields
<1>4. fields \in Seq(FieldValues) /\ Len(fields) = n
  BY <1>1, <1>2, MappedSeq
<1> DEFINE t == [s EXCEPT !.fieldValues = fields]
<1>5. t \in Identities
  BY <1>4 DEF Identities
<1>6. /\ t.ids = s.ids /\ t.selections = s.selections /\ t.entries = s.entries
      /\ t.nextNode = s.nextNode /\ t.scopes = s.scopes /\ t.fieldValues = fields
  BY DEF Identities
<1> HIDE DEF t
<1>7. Touches(s, t)
  BY <1>4, <1>5, <1>6 DEF Touches
<1>8. QED
  BY <1>3, <1>7 DEF t

(* Nor does what an end tag marks: finishNillableKeyFields.                *)
LEMMA NillableTouches ==
  ASSUME NEW s \in Identities, NEW open, NEW frame
  PROVE  Touches(s, NillableFields(s, open, frame))
BY TouchesItself, InvalidateTouches, MarkNillableTouches DEF NillableFields

(* Nor does what is done about an attribute, whatever became of it.        *)
LEMMA AttributeTouches ==
  ASSUME NEW s \in Identities, NEW open, NEW name \in Names, NEW attr \in Attributes[name]
  PROVE  Touches(s, AttributeFields(s, open, attr))
<1>1. attr.kind = "value" => attr.value \in Data
  BY ContentAssumption DEF Data
<1>2. QED
  BY <1>1, TouchesItself, InvalidateTouches, CaptureTouches DEF AttributeFields

-----------------------------------------------------------------------------
(* Nothing is marked invalid.                                              *)
Clean(s) ==
  /\ \A k \in 1..Len(s.fieldValues) : s.fieldValues[k].state # "invalid"
  /\ \A i \in 1..Len(s.scopes) : ~s.scopes[i].invalid

(* A capture invalidates a field only that is captured a second time.      *)
LEMMA CaptureClean ==
  ASSUME NEW s \in Identities, NEW matches, NEW v \in Data, Clean(s), Repeated(s, matches) = {}
  PROVE  Clean(Capture(s, matches, v))
<1> DEFINE n == Len(s.fieldValues)
           cells == CellsOf(s, matches)
           t == Capture(s, matches, v)
<1>1. n \in Nat /\ DOMAIN s.fieldValues = 1..n /\ \A k \in 1..n : s.fieldValues[k] \in FieldValues
  BY Parts
<1>2. \A k \in 1..n : k \in cells => s.fieldValues[k].state # "present"
  BY DEF Repeated, CellsOf
<1>3. t.fieldValues = [k \in DOMAIN s.fieldValues |->
                        IF k \notin cells \/ s.fieldValues[k].state = "invalid"
                        THEN s.fieldValues[k]
                        ELSE IF s.fieldValues[k].state = "absent"
                        THEN [s.fieldValues[k] EXCEPT !.state = "present", !.value = v]
                        ELSE [s.fieldValues[k] EXCEPT !.state = "invalid", !.value = NoValue]]
  BY DEF Capture, Identities
<1>4. t.scopes = InvalidScopes(s, {})
  <2>1. ScopesOf(s, Repeated(s, matches)) = {}
    BY DEF ScopesOf
  <2>2. t.scopes = InvalidScopes(s, ScopesOf(s, Repeated(s, matches)))
    BY DEF Capture, Identities
  <2>3. QED
    BY <2>1, <2>2
<1>5. Len(t.scopes) = Len(s.scopes) /\ Len(t.fieldValues) = n
  BY CaptureTouches DEF Touches
<1> HIDE DEF cells, t
<1>6. ASSUME NEW k \in 1..n
      PROVE  t.fieldValues[k].state # "invalid"
  <2>1. s.fieldValues[k] \in FieldValues /\ s.fieldValues[k].state # "invalid"
    BY <1>1 DEF Clean
  <2>2. t.fieldValues[k] = IF k \notin cells \/ s.fieldValues[k].state = "invalid"
                        THEN s.fieldValues[k]
                        ELSE IF s.fieldValues[k].state = "absent"
                        THEN [s.fieldValues[k] EXCEPT !.state = "present", !.value = v]
                        ELSE [s.fieldValues[k] EXCEPT !.state = "invalid", !.value = NoValue]
    BY <1>1, <1>3
  <2>3. s.fieldValues[k].state \in {"absent", "present"}
    BY <2>1 DEF FieldValues, FieldStates
  <2>4. QED
    BY <1>2, <2>1, <2>2, <2>3 DEF FieldValues
<1>7. \A i \in 1..Len(s.scopes) : t.scopes[i] = s.scopes[i]
  BY <1>4, Parts DEF InvalidScopes
<1>8. Clean(t)
  BY <1>5, <1>6, <1>7 DEF Clean
<1>9. QED
  BY <1>8 DEF t

(* Without matches there is nothing to invalidate.                         *)
LEMMA InvalidateClean ==
  ASSUME NEW s \in Identities, Clean(s)
  PROVE  Clean(Invalidate(s, {}))
<1> DEFINE n == Len(s.fieldValues)
           t == Invalidate(s, {})
<1>1. n \in Nat /\ DOMAIN s.fieldValues = 1..n /\ DOMAIN s.scopes = 1..Len(s.scopes)
  BY Parts
<1>2. CellsOf(s, {}) = {} /\ ScopesOf(s, {}) = {}
  BY DEF CellsOf, ScopesOf
<1>3. /\ t.fieldValues = [k \in DOMAIN s.fieldValues |->
                        IF k \in CellsOf(s, {})
                        THEN [s.fieldValues[k] EXCEPT !.state = "invalid", !.value = NoValue]
                        ELSE s.fieldValues[k]]
      /\ t.scopes = InvalidScopes(s, ScopesOf(s, {}))
  BY DEF Invalidate, Identities
<1>4. Len(t.scopes) = Len(s.scopes) /\ Len(t.fieldValues) = n
  BY InvalidateTouches DEF Touches
<1> HIDE DEF t
<1>5. \A k \in 1..n : t.fieldValues[k] = s.fieldValues[k]
  BY <1>1, <1>2, <1>3
<1>6. \A i \in 1..Len(s.scopes) : t.scopes[i] = s.scopes[i]
  BY <1>1, <1>2, <1>3 DEF InvalidScopes
<1>7. Clean(t)
  BY <1>4, <1>5, <1>6 DEF Clean
<1>8. QED
  BY <1>7 DEF t

(* A nillable field is not invalid.                                        *)
LEMMA MarkNillableClean ==
  ASSUME NEW s \in Identities, NEW matches, Clean(s)
  PROVE  Clean(MarkNillable(s, matches))
<1> DEFINE n == Len(s.fieldValues)
           cells == CellsOf(s, {m \in matches : Kind[s.selections[m[1]].constraint] = "key"})
           t == MarkNillable(s, matches)
<1>1. n \in Nat /\ DOMAIN s.fieldValues = 1..n /\ \A k \in 1..n : s.fieldValues[k] \in FieldValues
  BY Parts
<1>2. /\ t.fieldValues = [k \in DOMAIN s.fieldValues |->
                        IF k \in cells /\ s.fieldValues[k].state = "present"
                        THEN [s.fieldValues[k] EXCEPT !.nillable = TRUE] ELSE s.fieldValues[k]]
      /\ t.scopes = s.scopes
  BY DEF MarkNillable, Identities
<1>3. Len(t.fieldValues) = n
  BY MarkNillableTouches DEF Touches
<1> HIDE DEF t, cells
<1>4. \A k \in 1..n : t.fieldValues[k].state = s.fieldValues[k].state
  BY <1>1, <1>2 DEF FieldValues
<1>5. Clean(t)
  BY <1>2, <1>3, <1>4 DEF Clean
<1>6. QED
  BY <1>5 DEF t

(* What an end tag marks is clean, for an element that is.                 *)
LEMMA NillableClean ==
  ASSUME NEW s \in Identities, NEW open, NEW frame, Clean(s), ~frame.invalid
  PROVE  Clean(NillableFields(s, open, frame))
BY MarkNillableClean DEF NillableFields

-----------------------------------------------------------------------------
(* Reports.                                                                *)

(* A list of one report.                                                   *)
LEMMA ReportIs ==
  ASSUME NEW code \in ReportCodes, NEW element \in Nat
  PROVE  /\ <<[code |-> code, element |-> element]>> \in Seq(Reports)
         /\ <<[code |-> code, element |-> element]>> # <<>>
<1>1. [code |-> code, element |-> element] \in Reports
  BY DEF Reports
<1>2. QED
  BY <1>1

(* The first of the matches is one of them.                                *)
LEMMA FirstElementIs ==
  ASSUME NEW s \in Identities, NEW matches, matches # {},
         \A m \in matches : m[1] \in DOMAIN s.selections
  PROVE  FirstElement(s, matches) \in Nat
<1> DEFINE T == {m[1] : m \in matches}
           first == CHOOSE i \in {m[1] : m \in matches} : \A m \in matches : i <= m[1]
<1>1. T \subseteq Nat /\ T # {} /\ T \subseteq 1..Len(s.selections)
  BY Parts
<1>2. \E i \in T : \A j \in T : i <= j
  <2> HIDE DEF T
  <2>1. QED
    BY <1>1, AcrossRefs!NatMin
<1>3. \E i \in T : \A m \in matches : i <= m[1]
  BY <1>2
<1>4. first \in T
  BY <1>3
<1>5. FirstElement(s, matches) = s.selections[first].element
  BY DEF FirstElement
<1> HIDE DEF first, T
<1>6. QED
  BY <1>1, <1>4, <1>5, Parts DEF Selections

(* A match is of a selection that is pending.                              *)
LEMMA MatchesAreOf ==
  ASSUME NEW s, NEW open, NEW attribute, NEW m \in FieldMatches(open, s, attribute)
  PROVE  m[1] \in DOMAIN s.selections
BY DEF FieldMatches

(* What is reported of matches, or not, by something else that is known.   *)
IsReport(reports, condition) == reports \in Seq(Reports) /\ (reports = <<>> => ~condition)

(* Without a reason there is no report.                                    *)
LEMMA NoReports ==
  ASSUME NEW condition, ~condition, NEW code, NEW element
  PROVE  IsReport(When(condition, code, element), condition)
<1>1. <<>> \in Seq(Reports)
  OBVIOUS
<1>2. QED
  BY <1>1, Zenon DEF When, IsReport

(* With a reason there is one.                                             *)
LEMMA OneReport ==
  ASSUME NEW condition, condition, NEW code \in ReportCodes, NEW element \in Nat
  PROVE  IsReport(When(condition, code, element), condition)
BY ReportIs, Zenon DEF When, IsReport

(* A report about matches names the element of one of them.                *)
LEMMA MatchReports ==
  ASSUME NEW s \in Identities, NEW open, NEW attribute, NEW code \in ReportCodes,
         NEW matches, matches \subseteq FieldMatches(open, s, attribute),
         NEW condition \in BOOLEAN, condition => matches # {}
  PROVE  IsReport(When(condition, code, FirstElement(s, matches)), condition)
<1>1. CASE ~condition
  BY <1>1, NoReports, Zenon
<1>2. CASE condition
  <2>1. FirstElement(s, matches) \in Nat
    BY <1>2, MatchesAreOf, FirstElementIs
  <2>2. QED
    BY <1>2, <2>1, OneReport, Zenon
<1>3. QED
  BY <1>1, <1>2

(* Whatever is invalidated about an attribute is reported.                 *)
LEMMA AttributeReportsAre ==
  ASSUME NEW s \in Identities, NEW open \in Seq(Frames), open # <<>>,
         NEW name \in Names, NEW attr \in Attributes[name]
  PROVE  /\ AttributeReports(s, open, attr) \in Seq(Reports)
         /\ Clean(s) /\ Last(open).mode # "recovery" /\ AttributeReports(s, open, attr) = <<>>
              => Clean(AttributeFields(s, open, attr))
<1> DEFINE matches == FieldMatches(open, s, TRUE)
           again == Repeated(s, matches)
           mode == Last(open).mode
<1>1. Last(open).node \in Nat /\ mode \in AssessmentModes
  <2>1. Last(open) \in Frames
    BY DEF Last
  <2>2. QED
    BY <2>1 DEF Frames
<1>2. again \subseteq matches
  BY DEF Repeated
<1>3. "multiple" \in ReportCodes /\ "assessment" \in ReportCodes /\ "nosimple" \in ReportCodes
  BY DEF ReportCodes
<1>4. IsReport(When(again # {}, "multiple", FirstElement(s, again)), again # {})
  <2> HIDE DEF again
  <2>1. (again # {}) \in BOOLEAN
    OBVIOUS
  <2>2. QED
    BY <1>3, <1>2, <2>1, MatchReports, Zenon
<1>5. IsReport(When(TRUE, "assessment", Last(open).node), TRUE)
  BY <1>3, <1>1, OneReport, Zenon
<1>6. IsReport(When(mode # "recovery" /\ matches # {}, "nosimple", FirstElement(s, matches)),
               mode # "recovery" /\ matches # {})
  <2> HIDE DEF mode
  <2>1. (mode # "recovery" /\ matches # {}) \in BOOLEAN /\ matches \subseteq matches
    OBVIOUS
  <2>2. QED
    BY <1>3, <2>1, MatchReports, Zenon
<1>7. attr.kind \in {"none", "value", "invalid", "unassessed"}
      /\ (attr.kind = "value" => attr.value \in Data)
  BY ContentAssumption DEF Data
<1> DEFINE reports == AttributeReports(s, open, attr)
           result == AttributeFields(s, open, attr)
<1>8. CASE attr.kind = "none"
  BY <1>8 DEF AttributeReports, AttributeFields
<1>9. CASE attr.kind = "value" /\ Assessed(mode)
  <2>1. IsReport(reports, again # {})
    BY <1>4, <1>9, Zenon DEF AttributeReports
  <2>2. result = Capture(s, matches, attr.value)
    BY <1>9 DEF AttributeFields
  <2> HIDE DEF reports, result, matches
  <2>3. again = {} /\ Clean(s) => Clean(result)
    BY <1>7, <1>9, <2>2, CaptureClean
  <2>4. QED
    BY <2>1, <2>3, Zenon DEF reports, result, IsReport
<1>10. CASE attr.kind = "invalid" /\ Assessed(mode)
  <2>1. IsReport(reports, TRUE)
    BY <1>5, <1>10, Zenon DEF AttributeReports
  <2>2. QED
    BY <2>1, Zenon DEF IsReport
<1>11. CASE attr.kind # "none" /\ ~(attr.kind \in {"value", "invalid"} /\ Assessed(mode))
  <2>1. IsReport(reports, mode # "recovery" /\ matches # {})
    BY <1>6, <1>11, Zenon DEF AttributeReports
  <2>2. result = Invalidate(s, matches)
    BY <1>7, <1>11 DEF AttributeFields
  <2> HIDE DEF reports, result, matches
  <2>3. matches = {} /\ Clean(s) => Clean(result)
    BY <2>2, InvalidateClean
  <2>4. QED
    BY <2>1, <2>3, Zenon DEF reports, result, IsReport
<1>12. QED
  BY <1>8, <1>9, <1>10, <1>11

-----------------------------------------------------------------------------
(* The inductive invariant, of any phase, frames and identity state.       *)

End(x) == x.fieldStart + x.fieldLen

(* The element at a depth declares constraints and is not closing.         *)
Scoped(ph, open, d) ==
  /\ d \in 1..Len(open)
  /\ open[d].mode = "declared" /\ Owned[open[d].name] # <<>>
  /\ ph = "elsewhere" => d < Len(open)

(* The scopes are those of the elements, in nesting order.                 *)
Nested(ph, open, s) ==
  /\ \A i, j \in 1..Len(s.scopes) : i < j => s.scopes[i].depth < s.scopes[j].depth
  /\ \A i \in 1..Len(s.scopes) : Scoped(ph, open, s.scopes[i].depth)
  /\ \A d \in 1..Len(open) :
       Scoped(ph, open, d) => \E i \in 1..Len(s.scopes) : s.scopes[i].depth = d

IsSelection(open, s, x) ==
  /\ x.scope \in 1..Len(s.scopes)
  /\ x.constraint \in ToSet(s.scopes[x.scope].constraints)
  /\ s.scopes[x.scope].depth <= x.depth
  /\ x.depth \in 1..Len(open)
  /\ open[x.depth].node = x.element
  /\ x.fieldLen = Len(Field[x.constraint])
  /\ x.node <= s.nextNode
  /\ End(x) <= Len(s.fieldValues)

Precedes(x, y) == x.depth <= y.depth /\ x.node < y.node /\ End(x) <= y.fieldStart

Ordered(open, s) ==
  /\ \A i \in 1..Len(s.selections) : IsSelection(open, s, s.selections[i])
  /\ \A i, j \in 1..Len(s.selections) : i < j => Precedes(s.selections[i], s.selections[j])

(* Where the slices of the first selections end.                           *)
EndOf(s, n) == IF n = 0 THEN 0 ELSE End(s.selections[n])

(* There is no hole before a slice of an element that is not ending, and   *)
(* between tokens there is none at the end.                                *)
Dense(ph, open, s) ==
  /\ \A i \in 1..Len(s.selections) :
       ph = "run" \/ s.selections[i].depth < Len(open) =>
         s.selections[i].fieldStart = EndOf(s, i - 1)
  /\ ph = "run" => Len(s.fieldValues) = EndOf(s, Len(s.selections))

(* What is held was counted.                                               *)
Counted(s) ==
  /\ IsFiniteSet(Tabled(s.scopes)) /\ IsFiniteSet(Referring(s.scopes)) /\ IsFiniteSet(s.ids)
  /\ Cardinality(Tabled(s.scopes)) + Cardinality(Referring(s.scopes)) + Cardinality(s.ids)
       <= s.entries

(* What is counted is within the limits.                                   *)
Limited(open, s) ==
  open # <<>> =>
    /\ s.entries <= MaxEntries[open[1].name]
    /\ Len(s.selections) <= MaxEntries[open[1].name]
    /\ Len(s.scopes) <= MaxScopes[open[1].name]

Rests(ph, open, s) ==
  /\ ph \in {"owned", "elsewhere"} => open # <<>>
  /\ ph \in {"done", "syntax", "failed"} =>
       open = <<>> /\ s.selections = <<>> /\ s.fieldValues = <<>>
  /\ ph = "run" /\ open = <<>> => s.entries = 0

Stacks(ph, open, s) == Nested(ph, open, s) /\ Ordered(open, s) /\ Dense(ph, open, s)

Good(ph, open, s) == Stacks(ph, open, s) /\ Counted(s) /\ Limited(open, s) /\ Rests(ph, open, s)

Silent(open, s) ==
  Clean(s) /\ \A d \in 1..Len(open) : ~open[d].invalid /\ open[d].mode # "recovery"

IInv ==
  /\ TypeOK
  /\ Good(phase, frames, identity)
  /\ errors = <<>> => Silent(frames, identity)

-----------------------------------------------------------------------------
(* What the invariant does not see.                                        *)

(* It sees nothing of the fields.                                          *)
LEMMA TouchedStacks ==
  ASSUME NEW ph, NEW open, NEW s \in Identities, NEW t, Touches(s, t), Stacks(ph, open, s)
  PROVE  Stacks(ph, open, t)
<1>1. /\ Len(t.scopes) = Len(s.scopes) /\ Len(t.fieldValues) = Len(s.fieldValues)
      /\ t.selections = s.selections /\ t.nextNode = s.nextNode
      /\ \A i \in 1..Len(s.scopes) : /\ t.scopes[i].depth = s.scopes[i].depth
                                     /\ t.scopes[i].constraints = s.scopes[i].constraints
  BY DEF Touches
<1>2. Nested(ph, open, t)
  BY <1>1 DEF Stacks, Nested
<1>3. Ordered(open, t)
  <2>1. \A x : IsSelection(open, s, x) => IsSelection(open, t, x)
    BY <1>1 DEF IsSelection
  <2>2. QED
    BY <1>1, <2>1 DEF Stacks, Ordered
<1>4. Dense(ph, open, t)
  BY <1>1 DEF Stacks, Dense, EndOf
<1>5. QED
  BY <1>2, <1>3, <1>4 DEF Stacks

(* Scopes that hold the same are counted alike.                            *)
LEMMA SameTuples ==
  ASSUME NEW a, NEW b, DOMAIN a = DOMAIN b, \A i \in DOMAIN a : a[i].tables = b[i].tables
  PROVE  Tabled(a) = Tabled(b)
BY DEF Tabled

(* With the same tables and references the same is held.                   *)
LEMMA SameHoldings ==
  ASSUME NEW a, NEW b, DOMAIN a = DOMAIN b,
         \A i \in DOMAIN a : a[i].tables = b[i].tables /\ a[i].refs = b[i].refs
  PROVE  Tabled(a) = Tabled(b) /\ Referring(a) = Referring(b)
BY DEF Tabled, Referring

(* What touches no stack leaves a good state good.                         *)
LEMMA TouchedGood ==
  ASSUME NEW ph, NEW open, NEW s \in Identities, NEW t, Touches(s, t), Good(ph, open, s)
  PROVE  Good(ph, open, t)
<1>1. /\ t \in Identities
      /\ t.ids = s.ids /\ t.selections = s.selections /\ t.entries = s.entries
      /\ Len(t.scopes) = Len(s.scopes) /\ Len(t.fieldValues) = Len(s.fieldValues)
      /\ \A i \in 1..Len(s.scopes) : /\ t.scopes[i].refs = s.scopes[i].refs
                                     /\ t.scopes[i].tables = s.scopes[i].tables
  BY DEF Touches
<1>2. DOMAIN t.scopes = 1..Len(s.scopes) /\ DOMAIN s.scopes = 1..Len(s.scopes)
  BY <1>1, Parts
<1>3. Tabled(t.scopes) = Tabled(s.scopes) /\ Referring(t.scopes) = Referring(s.scopes)
  BY <1>1, <1>2, SameHoldings
<1>4. s.fieldValues = <<>> => t.fieldValues = <<>>
  <2>1. t.fieldValues \in Seq(FieldValues) /\ s.fieldValues \in Seq(FieldValues)
    BY <1>1, Parts
  <2>2. QED
    BY <1>1, <2>1
<1>5. QED
  BY <1>1, <1>3, <1>4, TouchedStacks DEF Good, Counted, Limited, Rests

(* Of a frame it sees the element, its name and its mode.                  *)
SameFrames(open, before) ==
  /\ open \in Seq(Frames) /\ Len(open) = Len(before)
  /\ \A d \in 1..Len(before) : /\ open[d].node = before[d].node /\ open[d].name = before[d].name
                               /\ open[d].mode = before[d].mode

(* A good state stays good when frames change that are the same to it.     *)
LEMMA SameFramesGood ==
  ASSUME NEW ph, NEW before \in Seq(Frames), NEW open, SameFrames(open, before), NEW s,
         s.scopes \in Seq(Scopes), Good(ph, before, s)
  PROVE  Good(ph, open, s)
<1>1. /\ open \in Seq(Frames) /\ Len(open) = Len(before) /\ (open = <<>>) = (before = <<>>)
      /\ \A d \in 1..Len(before) : /\ open[d].node = before[d].node
                                   /\ open[d].name = before[d].name
                                   /\ open[d].mode = before[d].mode
  BY DEF SameFrames
<1>2. \A d : Scoped(ph, open, d) <=> Scoped(ph, before, d)
  BY <1>1 DEF Scoped
<1>3. Nested(ph, open, s)
  BY <1>1, <1>2 DEF Good, Stacks, Nested
<1>4. Ordered(open, s)
  <2>1. \A x : IsSelection(before, s, x) => IsSelection(open, s, x)
    BY <1>1 DEF IsSelection
  <2>2. QED
    BY <2>1 DEF Good, Stacks, Ordered
<1>5. Dense(ph, open, s)
  BY <1>1 DEF Good, Stacks, Dense
<1>6. Limited(open, s)
  <2>1. before # <<>> => 1 \in 1..Len(before)
    OBVIOUS
  <2>2. QED
    BY <1>1, <2>1 DEF Good, Limited
<1>7. Rests(ph, open, s)
  BY <1>1 DEF Good, Rests
<1>8. QED
  BY <1>3, <1>4, <1>5, <1>6, <1>7 DEF Good, Stacks

(* An element that begins to end is still there.                           *)
LEMMA OwnedGood ==
  ASSUME NEW open \in Seq(Frames), open # <<>>, NEW s, Good("run", open, s)
  PROVE  Good("owned", open, s)
<1>1. \A d : Scoped("run", open, d) <=> Scoped("owned", open, d)
  BY DEF Scoped
<1>2. Nested("owned", open, s)
  BY <1>1 DEF Good, Stacks, Nested
<1>3. Dense("owned", open, s)
  BY DEF Good, Stacks, Dense
<1>4. QED
  BY <1>2, <1>3 DEF Good, Stacks, Rests

(* Nothing is left of the identity state.                                  *)
LEMMA NothingIsGood ==
  ASSUME NEW ph, ph \in {"run", "done", "syntax", "failed"}
  PROVE  NewIdentity \in Identities /\ Good(ph, <<>>, NewIdentity) /\ Silent(<<>>, NewIdentity)
<1>1. PICK s : s = NewIdentity
  OBVIOUS
<1>2. /\ s.ids = {} /\ s.scopes = <<>> /\ s.selections = <<>> /\ s.fieldValues = <<>>
      /\ s.entries = 0 /\ s.nextNode = 0
  BY <1>1 DEF NewIdentity
<1>3. s \in Identities
  <2>1. \A T : <<>> \in Seq(T)
    OBVIOUS
  <2>2. QED
    BY <1>1, <2>1 DEF NewIdentity, Identities
<1>4. Nested(ph, <<>>, s) /\ Ordered(<<>>, s) /\ Dense(ph, <<>>, s)
  BY <1>2 DEF Nested, Ordered, Dense, EndOf
<1>5. Counted(s)
  <2>1. Tabled(s.scopes) = {} /\ Referring(s.scopes) = {}
    BY <1>2 DEF Tabled, Referring
  <2>2. QED
    <3>1. IsFiniteSet({}) /\ Cardinality({}) = 0
      BY FS_EmptySet
    <3>2. /\ IsFiniteSet(Tabled(s.scopes)) /\ Cardinality(Tabled(s.scopes)) = 0
          /\ IsFiniteSet(Referring(s.scopes)) /\ Cardinality(Referring(s.scopes)) = 0
          /\ IsFiniteSet(s.ids) /\ Cardinality(s.ids) = 0
      BY <1>2, <2>1, <3>1, Zenon
    <3>3. QED
      BY <1>2, <3>2 DEF Counted
<1>6. Limited(<<>>, s) /\ Rests(ph, <<>>, s)
  BY <1>2 DEF Limited, Rests
<1>7. Silent(<<>>, s)
  BY <1>2 DEF Silent, Clean
<1>8. QED
  BY <1>1, <1>3, <1>4, <1>5, <1>6, <1>7 DEF Good, Stacks

-----------------------------------------------------------------------------
(* How a handler ends.                                                     *)

(* Nothing is collected only when there is nothing to collect.             *)
LEMMA CollectedIs ==
  ASSUME errors \in Seq(Reports), NEW reports \in Seq(Reports)
  PROVE  /\ Collected(reports) \in Seq(Reports)
         /\ Collected(reports) = <<>> => errors = <<>> /\ reports = <<>>
<1>1. PICK all \in Seq(Reports) : all = errors \o reports /\ Len(all) = Len(errors) + Len(reports)
  BY ConcatProperties
<1>2. PICK n \in Nat : n = IF Len(all) <= MaxErrors THEN Len(all) ELSE MaxErrors
  BY LimitAssumption
<1>3. n <= Len(all) /\ (n = 0 => Len(all) = 0)
  BY <1>2, LimitAssumption
<1>4. Collected(reports) = SubSeq(all, 1, n)
  BY <1>1, <1>2 DEF Collected
<1>5. SubSeq(all, 1, n) \in Seq(Reports) /\ Len(SubSeq(all, 1, n)) = n
  BY <1>3
<1>6. Len(all) = 0 => errors = <<>> /\ reports = <<>>
  <2>1. Len(errors) \in Nat /\ Len(reports) \in Nat
    OBVIOUS
  <2>2. Len(all) = 0 => Len(errors) = 0 /\ Len(reports) = 0
    BY <1>1, <2>1
  <2>3. QED
    BY <2>2
<1>7. SubSeq(all, 1, n) = <<>> => n = 0
  BY ONLY <1>5, n \in Nat
<1>8. QED
  BY ONLY <1>3, <1>4, <1>5, <1>6, <1>7

(* A handler that goes on to what is good, and to what is silent unless    *)
(* something was reported.                                                 *)
LEMMA Continued ==
  ASSUME errors \in Seq(Reports), tree' \in Seq(Elements),
         NEW reports \in Seq(Reports), NEW next \in Phases,
         NEW open \in Seq(Frames), NEW s \in Identities,
         Good(next, open, s), errors = <<>> /\ reports = <<>> => Silent(open, s),
         Continue(reports, next, open, s)
  PROVE  IInv'
<1>1. errors' \in Seq(Reports) /\ (errors' = <<>> => errors = <<>> /\ reports = <<>>)
  BY CollectedIs DEF Continue
<1>2. CASE Len(errors') = MaxErrors
  <2>1. phase' = "syntax" /\ frames' = <<>> /\ identity' = NewIdentity
    BY <1>2 DEF Continue
  <2>2. NewIdentity \in Identities /\ Good("syntax", <<>>, NewIdentity) /\ Silent(<<>>, NewIdentity)
    BY NothingIsGood
  <2>3. TypeOK'
    BY <1>1, <2>1, <2>2 DEF TypeOK, Phases
  <2>4. Good(phase', frames', identity') /\ Silent(frames', identity')
    BY <2>1, <2>2
  <2>5. QED
    BY <2>3, <2>4 DEF IInv
<1>3. CASE Len(errors') # MaxErrors
  <2>1. phase' = next /\ frames' = open /\ identity' = s
    BY <1>3 DEF Continue
  <2>2. TypeOK'
    BY <1>1, <2>1 DEF TypeOK
  <2>3. Good(phase', frames', identity') /\ (errors' = <<>> => Silent(frames', identity'))
    BY <1>1, <2>1
  <2>4. QED
    BY <2>2, <2>3 DEF IInv
<1>4. QED
  BY <1>2, <1>3

(* A call that ends with an error leaves nothing behind.                   *)
LEMMA FatalStep ==
  ASSUME tree' \in Seq(Elements), Fatal
  PROVE  IInv'
<1>1. phase' = "failed" /\ frames' = <<>> /\ identity' = NewIdentity /\ errors' = <<>>
  BY DEF Fatal
<1>2. NewIdentity \in Identities /\ Good("failed", <<>>, NewIdentity) /\ Silent(<<>>, NewIdentity)
  BY NothingIsGood
<1>3. TypeOK'
  BY <1>1, <1>2 DEF TypeOK, Phases
<1>4. Good(phase', frames', identity') /\ Silent(frames', identity')
  BY <1>1, <1>2
<1>5. QED
  BY <1>3, <1>4 DEF IInv

-----------------------------------------------------------------------------
(* Sequences.                                                              *)

(* A sequence with another element.                                        *)
LEMMA Longer ==
  ASSUME NEW T, NEW q \in Seq(T), NEW x \in T
  PROVE  /\ Append(q, x) \in Seq(T) /\ Len(Append(q, x)) = Len(q) + 1
         /\ Append(q, x)[Len(q) + 1] = x
         /\ \A i \in 1..Len(q) : Append(q, x)[i] = q[i]
OBVIOUS

(* Two sequences behind each other.                                        *)
LEMMA Joined ==
  ASSUME NEW T, NEW p \in Seq(T), NEW q \in Seq(T)
  PROVE  /\ p \o q \in Seq(T) /\ Len(p \o q) = Len(p) + Len(q)
         /\ \A i \in 1..Len(p) : (p \o q)[i] = p[i]
         /\ \A i \in 1..Len(q) : (p \o q)[Len(p) + i] = q[i]
OBVIOUS

-----------------------------------------------------------------------------
(* Start tags.                                                             *)

(* Another element is open.                                                *)
LEMMA Deeper ==
  ASSUME NEW before \in Seq(Frames), NEW frame \in Frames
  PROVE  /\ Append(before, frame) \in Seq(Frames)
         /\ Len(Append(before, frame)) = Len(before) + 1
         /\ Append(before, frame) # <<>> /\ Last(Append(before, frame)) = frame
         /\ Append(before, frame)[Len(before) + 1] = frame
         /\ \A d \in 1..Len(before) : Append(before, frame)[d] = before[d]
BY DEF Last

(* An element without constraints opens no scope.                          *)
LEMMA ElementPushed ==
  ASSUME NEW before \in Seq(Frames), NEW frame \in Frames, NEW s \in Identities,
         Good("run", before, s), ~(frame.mode = "declared" /\ Owned[frame.name] # <<>>)
  PROVE  Stacks("run", Append(before, frame), s)
<1>1. PICK n \in Nat : n = Len(before)
  OBVIOUS
<1>2. PICK open : open = Append(before, frame)
  OBVIOUS
<1>3. Len(open) = n + 1 /\ open[n + 1] = frame /\ \A d \in 1..n : open[d] = before[d]
  BY <1>1, <1>2, Deeper
<1>4. \A d : Scoped("run", open, d) <=> Scoped("run", before, d)
  BY <1>1, <1>3 DEF Scoped
<1>5. Nested("run", open, s)
  <2>1. \A d : Scoped("run", before, d) => d \in 1..Len(before)
    BY DEF Scoped
  <2>2. QED
    BY <1>4, <2>1 DEF Good, Stacks, Nested
<1>6. Ordered(open, s)
  <2>1. \A x : IsSelection(before, s, x) => IsSelection(open, s, x)
    BY <1>1, <1>3 DEF IsSelection
  <2>2. QED
    BY <2>1 DEF Good, Stacks, Ordered
<1>7. Dense("run", open, s)
  BY DEF Good, Stacks, Dense
<1>8. QED
  BY <1>2, <1>5, <1>6, <1>7 DEF Stacks

(* Of the new scope nothing is held.                                       *)
LEMMA NewScopeIs ==
  ASSUME NEW depth \in Nat, NEW name \in Names
  PROVE  /\ NewScope(depth, Owned[name]) \in Scopes
         /\ NewScope(depth, Owned[name]).depth = depth
         /\ NewScope(depth, Owned[name]).invalid = FALSE
         /\ NewScope(depth, Owned[name]).refs = <<>>
         /\ \A c \in Constraints : DOMAIN NewScope(depth, Owned[name]).tables[c] = {}
<1>1. EmptyTable \in Tables /\ DOMAIN EmptyTable = {}
  <2>1. EmptyTable \in [{} -> Entries] /\ {} \in SUBSET Seq(Data)
    BY DEF EmptyTable
  <2>2. QED
    BY <2>1 DEF Tables
<1>2. <<>> \in Seq(References)
  OBVIOUS
<1>3. Owned[name] \in Seq(Constraints)
  BY SchemaAssumption
<1>4. QED
  BY <1>1, <1>2, <1>3 DEF NewScope, Scopes

(* startScope.                                                             *)
LEMMA ScopePushed ==
  ASSUME NEW before \in Seq(Frames), NEW frame \in Frames, NEW s \in Identities,
         Good("run", before, s), frame.mode = "declared", Owned[frame.name] # <<>>,
         NEW t, t = [s EXCEPT !.scopes = Append(@, NewScope(Len(before) + 1, Owned[frame.name]))]
  PROVE  /\ t \in Identities /\ Stacks("run", Append(before, frame), t) /\ Counted(t)
         /\ t.entries = s.entries
         /\ Clean(s) => Clean(t)
<1>1. PICK n \in Nat : n = Len(before)
  OBVIOUS
<1>2. PICK m \in Nat : m = Len(s.scopes)
  BY Parts
<1>3. PICK open : open = Append(before, frame)
  OBVIOUS
<1>4. /\ Len(open) = n + 1 /\ open[n + 1] = frame
      /\ \A d \in 1..n : open[d] = before[d]
  BY <1>1, <1>3, Deeper
<1>5. PICK new \in Scopes : /\ new = NewScope(n + 1, Owned[frame.name])
                            /\ new.depth = n + 1 /\ new.invalid = FALSE /\ new.refs = <<>>
                            /\ \A c \in Constraints : DOMAIN new.tables[c] = {}
  <2>1. frame.name \in Names /\ n + 1 \in Nat
    BY DEF Frames
  <2>2. QED
    BY <2>1, NewScopeIs
<1>6. PICK scopes : scopes = Append(s.scopes, new)
  OBVIOUS
<1>7. /\ scopes \in Seq(Scopes) /\ Len(scopes) = m + 1 /\ scopes[m + 1] = new
      /\ \A i \in 1..m : scopes[i] = s.scopes[i]
  <2>1. s.scopes \in Seq(Scopes)
    BY Parts
  <2>2. QED
    BY ONLY <1>2, <1>6, <2>1, m \in Nat, new \in Scopes, Longer
<1>8. /\ t.ids = s.ids /\ t.selections = s.selections /\ t.entries = s.entries
      /\ t.nextNode = s.nextNode /\ t.fieldValues = s.fieldValues /\ t.scopes = scopes
      /\ t \in Identities
  <2>1. t = [s EXCEPT !.scopes = scopes]
    BY <1>1, <1>5, <1>6
  <2>2. QED
    BY <1>7, <2>1 DEF Identities
<1>9. Nested("run", open, t)
  <2>1. /\ \A i, j \in 1..m : i < j => s.scopes[i].depth < s.scopes[j].depth
        /\ \A i \in 1..m : Scoped("run", before, s.scopes[i].depth)
        /\ \A d \in 1..n : Scoped("run", before, d) => \E i \in 1..m : s.scopes[i].depth = d
    BY <1>1, <1>2 DEF Good, Stacks, Nested
  <2>2. /\ \A d \in 1..n : Scoped("run", open, d) <=> Scoped("run", before, d)
        /\ Scoped("run", open, n + 1)
    BY <1>1, <1>4 DEF Scoped
  <2>3. \A i \in 1..m : s.scopes[i].depth \in 1..n
    BY <1>1, <2>1 DEF Scoped
  <2>4. ASSUME NEW i \in 1..m + 1, NEW j \in 1..m + 1, i < j
        PROVE  scopes[i].depth < scopes[j].depth
    <3>1. i \in 1..m
      BY <2>4
    <3>2. CASE j = m + 1
      <4>1. scopes[j].depth = n + 1 /\ scopes[i].depth \in 1..n
        BY <1>5, <1>7, <2>3, <3>1, <3>2
      <4>2. QED
        BY <4>1
    <3>3. CASE j # m + 1
      <4>1. j \in 1..m
        BY <3>3
      <4>2. QED
        BY <1>7, <2>1, <2>4, <3>1, <4>1
    <3>4. QED
      BY <3>2, <3>3
  <2>5. ASSUME NEW i \in 1..m + 1
        PROVE  Scoped("run", open, scopes[i].depth)
    <3>1. CASE i = m + 1
      BY <1>5, <1>7, <2>2, <3>1
    <3>2. CASE i # m + 1
      <4>1. i \in 1..m
        BY <3>2
      <4>2. QED
        BY <1>7, <2>1, <2>2, <2>3, <4>1
    <3>3. QED
      BY <3>1, <3>2
  <2>6. ASSUME NEW d \in 1..n + 1, Scoped("run", open, d)
        PROVE  \E i \in 1..m + 1 : scopes[i].depth = d
    <3>1. CASE d = n + 1
      <4>1. m + 1 \in 1..m + 1
        OBVIOUS
      <4>2. QED
        BY <1>5, <1>7, <3>1, <4>1
    <3>2. CASE d # n + 1
      <4>1. d \in 1..n
        BY <3>2
      <4>2. PICK i \in 1..m : s.scopes[i].depth = d
        BY <2>1, <2>2, <2>6, <4>1
      <4>3. i \in 1..m + 1
        OBVIOUS
      <4>4. QED
        BY <1>7, <4>2, <4>3
    <3>3. QED
      BY <3>1, <3>2
  <2>7. Len(open) = n + 1 /\ t.scopes = scopes /\ Len(scopes) = m + 1
    BY <1>4, <1>7, <1>8
  <2>8. QED
    BY <2>4, <2>5, <2>6, <2>7 DEF Nested
<1>10. Ordered(open, t)
  <2>1. ASSUME NEW x, IsSelection(before, s, x)
        PROVE  IsSelection(open, t, x)
    <3>1. x.scope \in 1..m /\ x.scope \in 1..m + 1 /\ x.depth \in 1..n /\ x.depth \in 1..n + 1
      BY <1>1, <1>2, <2>1 DEF IsSelection
    <3>2. scopes[x.scope] = s.scopes[x.scope] /\ open[x.depth] = before[x.depth]
      BY <1>4, <1>7, <3>1
    <3>3. QED
      BY <1>4, <1>7, <1>8, <2>1, <3>1, <3>2 DEF IsSelection
  <2>2. QED
    BY <1>8, <2>1 DEF Good, Stacks, Ordered
<1>11. Dense("run", open, t)
  BY <1>8 DEF Good, Stacks, Dense, EndOf
<1>12. Counted(t)
  <2>1. DOMAIN scopes = 1..m + 1 /\ DOMAIN s.scopes = 1..m
    BY <1>2, <1>7, Parts
  <2>2. \A i \in 1..m + 1 : i \in 1..m \/ scopes[i] = new
    BY <1>7
  <2>3. \A i \in 1..m : i \in 1..m + 1 /\ scopes[i] = s.scopes[i]
    BY <1>7
  <2>4. Tabled(scopes) = Tabled(s.scopes)
    <3> DEFINE Held(list, i, c) == {<<i, c, k>> : k \in DOMAIN list[i].tables[c]}
    <3>1. /\ Tabled(scopes) = UNION {Held(scopes, i, c) : i \in 1..m + 1, c \in Constraints}
          /\ Tabled(s.scopes) = UNION {Held(s.scopes, i, c) : i \in 1..m, c \in Constraints}
      BY <2>1 DEF Tabled
    <3>2. \A i \in 1..m, c \in Constraints : Held(scopes, i, c) = Held(s.scopes, i, c)
      BY <2>3
    <3>3. \A i \in 1..m + 1, c \in Constraints : i \in 1..m \/ Held(scopes, i, c) = {}
      BY <1>5, <2>2
    <3> HIDE DEF Held
    <3>4. QED
      BY <2>3, <3>1, <3>2, <3>3
  <2>5. Referring(scopes) = Referring(s.scopes)
    BY <1>5, <2>1, <2>2, <2>3 DEF Referring
  <2>6. QED
    BY <1>8, <2>4, <2>5 DEF Good, Counted
<1>13. Clean(s) => Clean(t)
  <2>1. \A i \in 1..m + 1 : i \in 1..m \/ scopes[i] = new
    BY <1>7
  <2>2. QED
    BY <1>2, <1>5, <1>7, <1>8, <2>1 DEF Clean
<1>14. QED
  BY <1>3, <1>8, <1>9, <1>10, <1>11, <1>12, <1>13 DEF Stacks

(* startScope, of any frame.                                               *)
LEMMA ScopeOpened ==
  ASSUME NEW before \in Seq(Frames), NEW frame \in Frames, NEW s \in Identities,
         Good("run", before, s), NEW t, t = OpenScope(s, frame, Len(before) + 1)
  PROVE  /\ t \in Identities /\ Stacks("run", Append(before, frame), t) /\ Counted(t)
         /\ t.entries = s.entries
         /\ Clean(s) => Clean(t)
<1>1. CASE frame.mode = "declared" /\ Owned[frame.name] # <<>>
  <2>1. t = [s EXCEPT !.scopes = Append(@, NewScope(Len(before) + 1, Owned[frame.name]))]
    BY <1>1 DEF OpenScope
  <2>2. QED
    BY <1>1, <2>1, ScopePushed
<1>2. CASE ~(frame.mode = "declared" /\ Owned[frame.name] # <<>>)
  <2>1. t = s
    BY <1>2 DEF OpenScope
  <2>2. QED
    BY <1>2, <2>1, ElementPushed DEF Good
<1>3. QED
  BY <1>1, <1>2

(* What matching selectors makes of an identity state.                     *)
Grows(open, s, t) ==
  /\ t \in Identities
  /\ t.scopes = s.scopes /\ t.ids = s.ids /\ t.entries = s.entries
  /\ Stacks("run", open, t)
  /\ Clean(s) => Clean(t)

(* A selector of an open scope, and the element just opened.               *)
Selects(open, s, x) ==
  /\ x.scope \in 1..Len(s.scopes)
  /\ x.constraint \in ToSet(s.scopes[x.scope].constraints)
  /\ x.depth = Len(open) /\ x.element = open[Len(open)].node

(* startSelection.                                                         *)
LEMMA SelectionStarted ==
  ASSUME NEW open \in Seq(Frames), open # <<>>, NEW s \in Identities, NEW t, Grows(open, s, t),
         NEW x, Selects(open, s, x)
  PROVE  Grows(open, s, StartSelection(t, x))
<1>1. t \in Identities /\ t.scopes = s.scopes
  BY DEF Grows
<1>2. PICK n \in Nat, m \in Nat : n = Len(t.selections) /\ m = Len(t.fieldValues)
  BY <1>1, Parts
<1>3. x.constraint \in Constraints /\ Field[x.constraint] \in Seq(SUBSET Paths)
  <2>1. s.scopes[x.scope].constraints \in Seq(Constraints)
    BY <1>1, Parts DEF Selects, Scopes
  <2>2. x.constraint \in Constraints
    BY <2>1 DEF Selects, ToSet
  <2>3. QED
    BY <2>2, SchemaAssumption
<1>4. PICK count \in Nat : count = Len(Field[x.constraint])
  BY <1>3
<1>5. /\ n = Len(t.selections) /\ m = Len(t.fieldValues)
      /\ t.selections \in Seq(Selections) /\ t.fieldValues \in Seq(FieldValues)
      /\ t.nextNode \in Nat /\ t.scopes \in Seq(Scopes)
  BY <1>1, <1>2, Parts
<1>6. PICK blank \in Seq(FieldValues) :
        /\ blank = [k \in 1..count |-> AbsentField] /\ Len(blank) = count
        /\ \A k \in 1..count : blank[k].state = "absent"
  <2>1. AbsentField \in FieldValues /\ AbsentField.state = "absent"
    BY DEF AbsentField, FieldValues, FieldStates, Data
  <2>2. PICK blank : blank = [k \in 1..count |-> AbsentField]
    OBVIOUS
  <2>3. blank \in [1..count -> FieldValues]
    BY <2>1, <2>2
  <2>4. blank \in Seq(FieldValues) /\ Len(blank) = count
    BY <2>3
  <2>5. QED
    BY <2>1, <2>2, <2>4
<1>7. PICK new \in Selections :
        /\ new = [scope |-> x.scope, constraint |-> x.constraint, depth |-> x.depth,
                   element |-> x.element, node |-> t.nextNode + 1, fieldStart |-> m,
                   fieldLen |-> count]
        /\ new.scope = x.scope /\ new.constraint = x.constraint /\ new.depth = Len(open)
        /\ new.element = open[Len(open)].node /\ new.node = t.nextNode + 1
        /\ new.fieldStart = m /\ new.fieldLen = count /\ End(new) = m + count
  <2>1. PICK new :
          new = [scope |-> x.scope, constraint |-> x.constraint, depth |-> x.depth,
                 element |-> x.element, node |-> t.nextNode + 1, fieldStart |-> m,
                 fieldLen |-> count]
    OBVIOUS
  <2>2. x.scope \in Nat /\ x.depth \in Nat /\ x.element \in Nat
    <3>1. open[Len(open)] \in Frames
      OBVIOUS
    <3>2. QED
      BY <3>1 DEF Selects, Frames
  <2>3. new \in Selections
    <3>1. t.nextNode + 1 \in Nat /\ m \in Nat /\ count \in Nat /\ x.constraint \in Constraints
      BY <1>3, <1>5
    <3>2. QED
      BY ONLY <2>1, <2>2, <3>1 DEF Selections
  <2>4. QED
    BY <2>1, <2>3 DEF Selects, End
<1>8. PICK values : values = t.fieldValues \o blank
  OBVIOUS
<1>9. /\ values \in Seq(FieldValues) /\ Len(values) = m + count
      /\ \A k \in 1..m : values[k] = t.fieldValues[k]
      /\ \A k \in 1..count : values[m + k] = blank[k]
  BY ONLY <1>5, <1>6, <1>8, m \in Nat, count \in Nat, blank \in Seq(FieldValues), Joined
<1>10. PICK list : list = Append(t.selections, new)
  OBVIOUS
<1>11. /\ list \in Seq(Selections) /\ Len(list) = n + 1 /\ list[n + 1] = new
       /\ \A i \in 1..n : list[i] = t.selections[i]
  BY ONLY <1>5, <1>10, n \in Nat, new \in Selections, Longer
<1>12. PICK u \in Identities :
         /\ u = StartSelection(t, x)
         /\ u.scopes = t.scopes /\ u.ids = t.ids /\ u.entries = t.entries
         /\ u.nextNode = t.nextNode + 1 /\ u.fieldValues = values /\ u.selections = list
  <2>1. PICK u : u = [t EXCEPT !.nextNode = t.nextNode + 1, !.fieldValues = values,
                               !.selections = list]
    OBVIOUS
  <2>2. u \in Identities
    <3>1. t.nextNode + 1 \in Nat
      BY <1>5
    <3>2. QED
      BY ONLY <1>1, <1>9, <1>11, <2>1, <3>1 DEF Identities
  <2>3. /\ u.scopes = t.scopes /\ u.ids = t.ids /\ u.entries = t.entries
        /\ u.nextNode = t.nextNode + 1 /\ u.fieldValues = values /\ u.selections = list
    BY <1>1, <2>1 DEF Identities
  <2>4. u = StartSelection(t, x)
    BY <1>2, <1>4, <1>6, <1>7, <1>8, <1>10, <2>1 DEF StartSelection
  <2>5. QED
    BY <2>2, <2>3, <2>4
<1>13. Stacks("run", open, t)
  BY DEF Grows
<1>14. Nested("run", open, u)
  BY <1>12, <1>13 DEF Stacks, Nested
<1>15. ASSUME NEW i \in 1..n
       PROVE  /\ IsSelection(open, t, t.selections[i]) /\ t.selections[i] \in Selections
              /\ End(t.selections[i]) \in Nat
  <2>1. t.selections[i] \in Selections
    BY <1>5
  <2>2. QED
    <3>1. IsSelection(open, t, t.selections[i])
      BY <1>5, <1>13 DEF Stacks, Ordered
    <3>2. t.selections[i].fieldStart \in Nat /\ t.selections[i].fieldLen \in Nat
      BY <2>1 DEF Selections
    <3>3. QED
      <4>1. PICK y : y = t.selections[i]
        OBVIOUS
      <4>2. y.fieldStart \in Nat /\ y.fieldLen \in Nat
        BY <3>2, <4>1
      <4>3. End(y) \in Nat
        BY <4>2 DEF End
      <4>4. QED
        BY ONLY <2>1, <3>1, <4>1, <4>3
<1>16. IsSelection(open, u, new)
  <2>1. Scoped("run", open, s.scopes[x.scope].depth)
    BY <1>1, <1>13 DEF Stacks, Nested, Selects
  <2>2. s.scopes[x.scope].depth <= Len(open)
    BY <2>1 DEF Scoped
  <2>3. Len(open) \in 1..Len(open)
    OBVIOUS
  <2>4. QED
    <3>1. /\ x.scope \in 1..Len(s.scopes)
          /\ x.constraint \in ToSet(s.scopes[x.scope].constraints)
      BY DEF Selects
    <3>2. u.scopes = s.scopes /\ u.nextNode = new.node /\ End(new) = Len(u.fieldValues)
      BY <1>1, <1>7, <1>9, <1>12
    <3>3. new.node <= u.nextNode /\ End(new) <= Len(u.fieldValues)
      <4>1. new.node \in Nat
        BY ONLY new \in Selections DEF Selections
      <4>2. m + count \in Nat /\ End(new) = m + count
        BY <1>7
      <4>3. QED
        BY ONLY <3>2, <4>1, <4>2
    <3>4. QED
      BY <1>4, <1>7, <2>2, <2>3, <3>1, <3>2, <3>3 DEF IsSelection
<1>17. ASSUME NEW i \in 1..n
       PROVE  IsSelection(open, u, t.selections[i]) /\ Precedes(t.selections[i], new)
  <2>1. /\ IsSelection(open, t, t.selections[i]) /\ t.selections[i] \in Selections
        /\ End(t.selections[i]) \in Nat
    BY <1>15
  <2>2. t.selections[i].depth \in 1..Len(open) /\ t.selections[i].node <= t.nextNode
        /\ End(t.selections[i]) <= m
    BY <1>5, <2>1 DEF IsSelection
  <2>3. t.selections[i].node \in Nat
    BY <2>1 DEF Selections
  <2>4. IsSelection(open, u, t.selections[i])
    <3>1. u.nextNode = t.nextNode + 1 /\ Len(u.fieldValues) = m + count /\ u.scopes = t.scopes
      BY <1>9, <1>12
    <3>2. t.selections[i].node <= u.nextNode
      <4>1. t.selections[i].node \in Nat /\ t.nextNode \in Nat
        BY <1>5, <2>3
      <4>2. QED
        BY ONLY <2>2, <3>1, <4>1
    <3>3. End(t.selections[i]) <= Len(u.fieldValues)
      BY ONLY <2>1, <2>2, <3>1, m \in Nat, count \in Nat
    <3>4. QED
      BY <2>1, <3>1, <3>2, <3>3 DEF IsSelection
  <2>5. QED
    <3>1. new.depth = Len(open) /\ new.node = t.nextNode + 1 /\ new.fieldStart = m
      BY <1>7
    <3>2. t.selections[i].depth <= new.depth /\ t.selections[i].node < new.node
      BY <1>5, <2>2, <2>3, <3>1
    <3>3. End(t.selections[i]) <= new.fieldStart
      BY <2>2, <3>1
    <3>4. QED
      BY <2>4, <3>2, <3>3 DEF Precedes
<1>18. Ordered(open, u)
  <2>1. ASSUME NEW i \in 1..n + 1
        PROVE  IsSelection(open, u, list[i])
    <3>1. i \in 1..n \/ i = n + 1
      OBVIOUS
    <3>2. QED
      BY <1>11, <1>16, <1>17, <3>1
  <2>2. ASSUME NEW i \in 1..n + 1, NEW j \in 1..n + 1, i < j
        PROVE  Precedes(list[i], list[j])
    <3>1. CASE j = n + 1
      <4>1. i \in 1..n
        BY ONLY <2>2, <3>1, n \in Nat, i \in 1..n + 1
      <4>2. list[i] = t.selections[i] /\ list[j] = new
        BY ONLY <1>11, <3>1, <4>1
      <4>3. QED
        BY <1>17, <4>1, <4>2
    <3>2. CASE j # n + 1
      <4>1. i \in 1..n /\ j \in 1..n
        BY <1>5, <2>2, <3>2
      <4>2. Precedes(t.selections[i], t.selections[j])
        BY <1>5, <1>13, <2>2, <4>1 DEF Stacks, Ordered
      <4>3. QED
        BY <1>11, <4>1, <4>2
    <3>3. QED
      BY <3>1, <3>2
  <2>3. QED
    BY <1>11, <1>12, <2>1, <2>2 DEF Ordered
<1>19. Dense("run", open, u)
  <2>1. \A i \in 1..n : t.selections[i].fieldStart = EndOf(t, i - 1)
    BY <1>5, <1>13 DEF Stacks, Dense
  <2>2. m = EndOf(t, n)
    BY <1>5, <1>13 DEF Stacks, Dense
  <2>3. \A i \in 0..n : EndOf(u, i) = EndOf(t, i)
    BY <1>11, <1>12 DEF EndOf
  <2>4. EndOf(u, n + 1) = m + count
    BY <1>5, <1>11, <1>12, <1>7 DEF EndOf
  <2>5. ASSUME NEW i \in 1..n + 1
        PROVE  list[i].fieldStart = EndOf(u, i - 1)
    <3>1. CASE i = n + 1
      <4>1. i - 1 = n /\ n \in 0..n
        BY <1>5, <3>1
      <4>2. QED
        BY <1>11, <1>7, <2>2, <2>3, <3>1, <4>1
    <3>2. CASE i # n + 1
      <4>1. i \in 1..n /\ i - 1 \in 0..n
        BY <1>5, <3>2
      <4>2. QED
        BY <1>11, <2>1, <2>3, <4>1
    <3>3. QED
      BY <3>1, <3>2
  <2>6. QED
    BY <1>9, <1>11, <1>12, <2>4, <2>5 DEF Dense
<1>20. Clean(t) => Clean(u)
  <2>1. \A k \in 1..m + count : values[k].state = "invalid" => k \in 1..m /\ t.fieldValues[k].state = "invalid"
    <3> SUFFICES ASSUME NEW k \in 1..m + count, values[k].state = "invalid"
                 PROVE  k \in 1..m /\ t.fieldValues[k].state = "invalid"
      OBVIOUS
    <3>1. CASE k \in 1..m
      BY <1>9, <3>1
    <3>2. CASE k \notin 1..m
      <4>1. PICK l \in 1..count : k = m + l
        <5>1. k - m \in 1..count /\ k = m + (k - m)
          BY <3>2
        <5>2. QED
          BY <5>1
      <4>2. QED
        BY <1>6, <1>9, <4>1
    <3>3. QED
      BY <3>1, <3>2
  <2>2. QED
    BY <1>5, <1>9, <1>12, <2>1 DEF Clean
<1>21. Stacks("run", open, u)
  BY <1>14, <1>18, <1>19 DEF Stacks
<1>22. Grows(open, s, u)
  BY <1>12, <1>20, <1>21 DEF Grows
<1>23. QED
  BY <1>12, <1>22

(* A selector belongs to the scope it is found in.                         *)
LEMMA SelectorIs ==
  ASSUME NEW i, NEW scope, NEW open, NEW k \in DOMAIN scope.constraints
  PROVE  /\ Selectors(i, scope, open)[k].scope = i
         /\ Selectors(i, scope, open)[k].constraint = scope.constraints[k]
         /\ Selectors(i, scope, open)[k].depth = Len(open)
         /\ Selectors(i, scope, open)[k].element = Last(open).node
BY DEF Selectors

(* The folds of the code are those of Folding.                             *)
LEMMA SelectorsFold ==
  ASSUME NEW s, NEW selectors
  PROVE  MatchScope(s, selectors) = AcrossSelectors!Fold(s, selectors)
BY DEF MatchScope, FoldLeft, MapThenFoldSet, Max, AcrossSelectors!Fold, AcrossSelectors!Iterated,
       AcrossSelectors!Iterates, AcrossSelectors!Step, AcrossSelectors!Largest

(* The same for the scopes.                                                *)
LEMMA ScopesFold ==
  ASSUME NEW s, NEW list
  PROVE  FoldLeft(MatchScope, s, list) = AcrossScopes!Fold(s, list)
BY DEF FoldLeft, MapThenFoldSet, Max, AcrossScopes!Fold, AcrossScopes!Iterated,
       AcrossScopes!Iterates, AcrossScopes!Step, AcrossScopes!Largest

(* The selectors of one scope.                                             *)
LEMMA ScopeMatched ==
  ASSUME NEW open \in Seq(Frames), open # <<>>, NEW s \in Identities, NEW t, Grows(open, s, t),
         NEW m \in Nat, NEW selectors, DOMAIN selectors = 1..m,
         \A k \in 1..m : Selects(open, s, selectors[k])
  PROVE  Grows(open, s, MatchScope(t, selectors))
<1>1. PICK f : AcrossSelectors!Folds(t, selectors, m, f)
  BY AcrossSelectors!FoldSteps
<1>2. /\ f[0] = t /\ f[m] = MatchScope(t, selectors)
      /\ \A k \in 0..m - 1 : f[k + 1] = MatchSelector(f[k], selectors[k + 1])
  BY <1>1, SelectorsFold DEF AcrossSelectors!Folds
<1> DEFINE T == {k \in Nat : k <= m => Grows(open, s, f[k])}
<1>3. 0 \in T
  BY <1>2
<1>4. ASSUME NEW k \in Nat, k \in T
      PROVE  k + 1 \in T
  <2>1. SUFFICES ASSUME k + 1 <= m
                 PROVE  Grows(open, s, f[k + 1])
    OBVIOUS
  <2>2. k \in 0..m - 1 /\ k + 1 \in 1..m /\ Grows(open, s, f[k])
    BY <1>4, <2>1
  <2>3. Grows(open, s, StartSelection(f[k], selectors[k + 1]))
    BY <2>2, SelectionStarted
  <2>4. QED
    BY <1>2, <2>2, <2>3 DEF MatchSelector
<1> HIDE DEF T
<1>5. \A k \in Nat : k \in T
  BY <1>3, <1>4, AcrossSelectors!NatInduct
<1>6. QED
  BY <1>2, <1>5 DEF T

(* matchSelectors: the selectors of every open scope.                      *)
LEMMA SelectionsOpened ==
  ASSUME NEW open \in Seq(Frames), open # <<>>, NEW s \in Identities, Grows(open, s, s)
  PROVE  Grows(open, s, OpenSelections(s, open))
<1>1. PICK m \in Nat : m = Len(s.scopes) /\ DOMAIN s.scopes = 1..m
  BY Parts
<1>2. PICK list : list = [i \in DOMAIN s.scopes |-> Selectors(i, s.scopes[i], open)]
  OBVIOUS
<1>3. DOMAIN list = 1..m /\ \A i \in 1..m : list[i] = Selectors(i, s.scopes[i], open)
  BY <1>1, <1>2
<1>4. PICK f : AcrossScopes!Folds(s, list, m, f)
  BY <1>3, AcrossScopes!FoldSteps
<1>5. OpenSelections(s, open) = AcrossScopes!Fold(s, list)
  BY <1>2, ScopesFold DEF OpenSelections
<1>6. /\ f[0] = s /\ f[m] = OpenSelections(s, open)
      /\ \A k \in 0..m - 1 : f[k + 1] = MatchScope(f[k], list[k + 1])
  BY <1>4, <1>5 DEF AcrossScopes!Folds
<1>7. ASSUME NEW i \in 1..m
      PROVE  \E n \in Nat : /\ DOMAIN list[i] = 1..n
                            /\ \A k \in 1..n : Selects(open, s, list[i][k])
  <2>1. s.scopes[i].constraints \in Seq(Constraints)
    BY <1>1, Parts DEF Scopes
  <2>2. PICK n \in Nat : n = Len(s.scopes[i].constraints)
    BY <2>1
  <2>3. list[i] = Selectors(i, s.scopes[i], open)
    BY <1>3
  <2>4. DOMAIN list[i] = 1..n
    BY <2>1, <2>2, <2>3 DEF Selectors
  <2>5. ASSUME NEW k \in 1..n
        PROVE  Selects(open, s, list[i][k])
    <3>1. /\ list[i][k].scope = i /\ list[i][k].constraint = s.scopes[i].constraints[k]
          /\ list[i][k].depth = Len(open) /\ list[i][k].element = Last(open).node
      <4>1. k \in DOMAIN s.scopes[i].constraints
        BY <2>1, <2>2
      <4>2. QED
        BY ONLY <2>3, <4>1, SelectorIs
    <3>2. s.scopes[i].constraints[k] \in ToSet(s.scopes[i].constraints)
      BY <2>1, <2>2 DEF ToSet
    <3>3. QED
      BY <1>1, <3>1, <3>2 DEF Selects, Last
  <2>6. QED
    BY <2>4, <2>5
<1> DEFINE T == {k \in Nat : k <= m => Grows(open, s, f[k])}
<1>8. 0 \in T
  BY <1>6
<1>9. ASSUME NEW k \in Nat, k \in T
      PROVE  k + 1 \in T
  <2>1. SUFFICES ASSUME k + 1 <= m
                 PROVE  Grows(open, s, f[k + 1])
    OBVIOUS
  <2>2. k \in 0..m - 1 /\ k + 1 \in 1..m /\ Grows(open, s, f[k])
    BY <1>9, <2>1
  <2>3. PICK n \in Nat : /\ DOMAIN list[k + 1] = 1..n
                         /\ \A l \in 1..n : Selects(open, s, list[k + 1][l])
    BY <1>7, <2>2
  <2>4. Grows(open, s, MatchScope(f[k], list[k + 1]))
    BY <2>2, <2>3, ScopeMatched
  <2>5. QED
    BY <1>6, <2>2, <2>4
<1> HIDE DEF T
<1>10. \A k \in Nat : k \in T
  BY <1>8, <1>9, AcrossSelectors!NatInduct
<1>11. QED
  BY <1>6, <1>10 DEF T

(* What the frame of a start tag makes of the identity state.              *)
Matched(s, frame, open) ==
  IF frame.mode = "recovery" THEN s ELSE OpenSelections(OpenScope(s, frame, Len(open)), open)

(* A start tag opens a scope and selections: unless they exceed a limit,   *)
(* the state is good for the frames with the new element.                  *)
LEMMA StartedGood ==
  ASSUME NEW before \in Seq(Frames), NEW frame \in Frames, NEW s \in Identities,
         Good("run", before, s), NEW open, open = Append(before, frame),
         NEW t, t = Matched(s, frame, open)
  PROVE  /\ t \in Identities
         /\ \/ Len(t.scopes) > MaxScopes[open[1].name]
            \/ Len(t.selections) > MaxEntries[open[1].name]
            \/ Good("run", open, t)
         /\ Clean(s) => Clean(t)
<1>1. open \in Seq(Frames) /\ Len(open) = Len(before) + 1 /\ open # <<>>
  BY Deeper
<1>2. /\ t \in Identities /\ Stacks("run", open, t) /\ Counted(t) /\ t.entries = s.entries
      /\ Clean(s) => Clean(t)
  <2>1. CASE frame.mode = "recovery"
    BY <2>1, ElementPushed DEF Good, Matched
  <2>2. CASE frame.mode # "recovery"
    <3>1. PICK u : u = OpenScope(s, frame, Len(before) + 1)
      OBVIOUS
    <3>2. /\ u \in Identities /\ Stacks("run", open, u) /\ Counted(u) /\ u.entries = s.entries
          /\ Clean(s) => Clean(u)
      BY <3>1, ScopeOpened
    <3>3. Grows(open, u, u)
      BY <3>2 DEF Grows
    <3>4. Grows(open, u, t)
      <4>1. t = OpenSelections(u, open)
        BY <1>1, <2>2, <3>1 DEF Matched
      <4>2. QED
        BY <1>1, <3>2, <3>3, <4>1, SelectionsOpened
    <3>5. Counted(t)
      BY <3>2, <3>4 DEF Grows, Counted
    <3>6. QED
      BY <3>2, <3>4, <3>5 DEF Grows
  <2>3. QED
    BY <2>1, <2>2
<1>3. open[1].name \in Names
  <2>1. 1 \in 1..Len(open)
    BY <1>1
  <2>2. open[1] \in Frames
    BY <1>1, <2>1
  <2>3. QED
    BY <2>2 DEF Frames
<1>4. s.entries <= MaxEntries[open[1].name]
  <2>1. CASE before = <<>>
    <3>1. s.entries = 0
      BY <2>1 DEF Good, Rests
    <3>2. QED
      BY <1>3, <3>1, LimitAssumption
  <2>2. CASE before # <<>>
    <3>1. open[1] = before[1]
      BY <2>2
    <3>2. QED
      BY <2>2, <3>1 DEF Good, Limited
  <2>3. QED
    BY <2>1, <2>2
<1>5. ASSUME ~(Len(t.scopes) > MaxScopes[open[1].name]),
             ~(Len(t.selections) > MaxEntries[open[1].name])
      PROVE  Good("run", open, t)
  <2>1. Len(t.scopes) \in Nat /\ Len(t.selections) \in Nat
    BY <1>2, Parts
  <2>2. MaxScopes[open[1].name] \in Nat /\ MaxEntries[open[1].name] \in Nat
    BY <1>3, LimitAssumption
  <2>3. Limited(open, t)
    BY <1>2, <1>4, <1>5, <2>1, <2>2 DEF Limited
  <2>4. Rests("run", open, t)
    BY <1>1 DEF Rests
  <2>5. QED
    BY <1>2, <2>3, <2>4 DEF Good
<1>6. QED
  BY <1>2, <1>5

-----------------------------------------------------------------------------
(* One lemma for each action.                                              *)

(* The frame of the innermost element is replaced by one of the same.      *)
LEMMA FrameReplaced ==
  ASSUME NEW before \in Seq(Frames), before # <<>>, NEW frame \in Frames,
         frame.node = Last(before).node, frame.name = Last(before).name,
         frame.mode = Last(before).mode,
         NEW open, open = [before EXCEPT ![Len(before)] = frame]
  PROVE  /\ SameFrames(open, before) /\ open # <<>>
         /\ \A d \in 1..Len(open) : open[d] = frame \/ open[d] = before[d]
<1>1. open \in Seq(Frames) /\ Len(open) = Len(before)
  OBVIOUS
<1>2. \A d \in 1..Len(before) : open[d] = IF d = Len(before) THEN frame ELSE before[d]
  OBVIOUS
<1>3. Last(before) = before[Len(before)]
  BY DEF Last
<1>4. SameFrames(open, before)
  BY <1>1, <1>2, <1>3 DEF SameFrames
<1>5. open # <<>>
  BY <1>1
<1>6. QED
  BY <1>1, <1>2, <1>4, <1>5

(* A frame marked invalid, or not.                                         *)
LEMMA Marked ==
  ASSUME NEW frame \in Frames, NEW invalid \in BOOLEAN
  PROVE  /\ [frame EXCEPT !.invalid = invalid] \in Frames
         /\ [frame EXCEPT !.invalid = invalid].node = frame.node
         /\ [frame EXCEPT !.invalid = invalid].name = frame.name
         /\ [frame EXCEPT !.invalid = invalid].mode = frame.mode
         /\ [frame EXCEPT !.invalid = invalid].invalid = invalid
BY DEF Frames

(* The innermost element is one that is open.                              *)
LEMMA Innermost ==
  ASSUME TypeOK, frames # <<>>
  PROVE  /\ Last(frames) \in Frames /\ Last(frames) = frames[Depth] /\ Depth \in 1..Len(frames)
         /\ Last(frames).node \in Nat /\ Last(frames).name \in Names
<1>1. frames \in Seq(Frames) /\ Len(frames) \in 1..Len(frames)
  BY DEF TypeOK
<1>2. frames[Len(frames)] \in Frames
  BY <1>1
<1>3. QED
  BY <1>1, <1>2 DEF Last, Depth, Frames

(* The innermost frame is marked invalid.                                  *)
LEMMA InnermostMarked ==
  ASSUME TypeOK, frames # <<>>, NEW open, open = [frames EXCEPT ![Depth].invalid = TRUE]
  PROVE  open \in Seq(Frames) /\ SameFrames(open, frames)
<1>1. Last(frames) \in Frames /\ Last(frames) = frames[Depth] /\ Depth = Len(frames)
      /\ frames \in Seq(Frames)
  BY Innermost DEF Depth, TypeOK
<1>2. PICK marked \in Frames :
        /\ marked = [frames[Depth] EXCEPT !.invalid = TRUE]
        /\ marked.node = Last(frames).node /\ marked.name = Last(frames).name
        /\ marked.mode = Last(frames).mode
  BY <1>1, Marked
<1>3. open = [frames EXCEPT ![Len(frames)] = marked]
  BY <1>1, <1>2
<1>4. SameFrames(open, frames)
  BY <1>1, <1>2, <1>3, FrameReplaced
<1>5. QED
  BY <1>4 DEF SameFrames

(* An element of the tree is marked, or not.                               *)
LEMMA TreeMarked ==
  ASSUME TypeOK, NEW n, NEW invalid \in BOOLEAN
  PROVE  [tree EXCEPT ![n].invalid = invalid] \in Seq(Elements)
<1>1. tree \in Seq(Elements)
  BY DEF TypeOK
<1>2. CASE n \in 1..Len(tree)
  <2>1. PICK element \in Elements : element = tree[n]
    BY <1>1, <1>2
  <2>2. PICK marked : marked = [element EXCEPT !.invalid = invalid]
    OBVIOUS
  <2>3. marked \in Elements
    BY <2>2 DEF Elements
  <2>4. [tree EXCEPT ![n].invalid = invalid] = [tree EXCEPT ![n] = marked]
    BY <2>1, <2>2
  <2>5. [tree EXCEPT ![n] = marked] \in Seq(Elements)
    BY <1>1, <1>2, <2>3
  <2>6. QED
    BY <2>4, <2>5
<1>3. CASE n \notin 1..Len(tree)
  <2>1. [tree EXCEPT ![n].invalid = invalid] = tree
    BY <1>1, <1>3
  <2>2. QED
    BY <1>1, <2>1
<1>4. QED
  BY <1>2, <1>3

(* A new element, and its frame.                                           *)
LEMMA Started ==
  ASSUME TypeOK, NEW name \in Names, NEW mode \in Modes[name], NEW nilled \in BOOLEAN,
         NEW attr \in Attributes[name]
  PROVE  /\ NewElement(name, mode, nilled, attr) \in Elements
         /\ NewFrame(name, mode, nilled) \in Frames
         /\ NewFrame(name, mode, nilled).mode = mode
         /\ NewFrame(name, mode, nilled).invalid = FALSE
<1>1. mode \in AssessmentModes
  BY SchemaAssumption DEF AssessmentModes
<1>2. [kind |-> "open"] \in Kinds
  BY DEF Kinds
<1>3. (IF frames = <<>> THEN 0 ELSE Last(frames).node) \in Nat
  BY Innermost
<1>4. Len(tree) + 1 \in Nat
  BY DEF TypeOK
<1>5. QED
  BY <1>1, <1>2, <1>3, <1>4 DEF NewElement, NewFrame, Elements, Frames

(* startFrameIdentity and validateStartAttributes.                         *)
LEMMA OpenStep ==
  ASSUME IInv, phase = "run", NEW frame \in Frames, frame.invalid = FALSE,
         frame.mode = "recovery" => errors # <<>>,
         NEW name \in Names, NEW attr \in Attributes[name], tree' \in Seq(Elements),
         Open(frame, attr, frames)
  PROVE  IInv'
<1>1. PICK open : open = Append(frames, frame)
  OBVIOUS
<1>2. PICK s : s = Matched(identity, frame, open)
  OBVIOUS
<1>3. CASE \/ Len(s.scopes) > MaxScopes[open[1].name]
           \/ Len(s.selections) > MaxEntries[open[1].name]
  <2>1. Fatal
    BY <1>1, <1>2, <1>3 DEF Open, Matched
  <2>2. QED
    BY <2>1, FatalStep
<1>4. CASE ~(\/ Len(s.scopes) > MaxScopes[open[1].name]
             \/ Len(s.selections) > MaxEntries[open[1].name])
  <2>1. PICK failed \in BOOLEAN : failed = (Assessed(frame.mode) /\ attr.kind = "invalid")
    BY DEF Assessed
  <2>2. PICK reports : reports = AttributeReports(s, open, attr)
    OBVIOUS
  <2>3. PICK t : t = AttributeFields(s, open, attr)
    OBVIOUS
  <2>4. Continue(reports, "run", Append(frames, [frame EXCEPT !.invalid = failed]), t)
    BY <1>1, <1>2, <1>4, <2>1, <2>2, <2>3 DEF Open, Matched
  <2>5. frames \in Seq(Frames) /\ identity \in Identities /\ errors \in Seq(Reports)
        /\ Good("run", frames, identity)
    BY DEF IInv, TypeOK
  <2>6. s \in Identities /\ Good("run", open, s) /\ (Clean(identity) => Clean(s))
    <3>1. /\ s \in Identities
          /\ \/ Len(s.scopes) > MaxScopes[open[1].name]
             \/ Len(s.selections) > MaxEntries[open[1].name]
             \/ Good("run", open, s)
          /\ Clean(identity) => Clean(s)
      BY ONLY <1>1, <1>2, <2>5, frame \in Frames, StartedGood
    <3>2. QED
      BY <1>4, <3>1
  <2>7. PICK marked : marked = Append(frames, [frame EXCEPT !.invalid = failed])
    OBVIOUS
  <2>8. marked \in Seq(Frames) /\ SameFrames(marked, open)
    <3>1. /\ [frame EXCEPT !.invalid = failed] \in Frames
          /\ [frame EXCEPT !.invalid = failed].node = frame.node
          /\ [frame EXCEPT !.invalid = failed].name = frame.name
          /\ [frame EXCEPT !.invalid = failed].mode = frame.mode
      BY Marked
    <3>2. QED
      <4>1. PICK other \in Frames :
              /\ marked = Append(frames, other)
              /\ other.node = frame.node /\ other.name = frame.name /\ other.mode = frame.mode
        BY ONLY <2>7, <3>1
      <4>2. /\ marked \in Seq(Frames) /\ Len(marked) = Len(frames) + 1
            /\ marked[Len(frames) + 1] = other
            /\ \A d \in 1..Len(frames) : marked[d] = frames[d]
        BY <2>5, <4>1, Deeper
      <4>3. /\ Len(open) = Len(frames) + 1 /\ open[Len(frames) + 1] = frame
            /\ \A d \in 1..Len(frames) : open[d] = frames[d]
        BY <1>1, <2>5, Deeper
      <4>4. QED
        <5>1. PICK n \in Nat : n = Len(frames)
          BY <1>1
        <5>2. \A d \in 1..n + 1 : d \in 1..n \/ d = n + 1
          OBVIOUS
        <5>3. QED
          BY ONLY <4>1, <4>2, <4>3, <5>1, <5>2 DEF SameFrames
  <2>9. t \in Identities /\ Good("run", marked, t)
    <3>1. Touches(s, t)
      BY <2>3, <2>6, AttributeTouches
    <3>2. t \in Identities
      BY <3>1 DEF Touches
    <3>3. Good("run", open, t)
      BY <2>6, <3>1, TouchedGood
    <3>4. QED
      BY <1>1, <2>5, <2>8, <3>2, <3>3, Deeper, Parts, SameFramesGood
  <2>10. open \in Seq(Frames) /\ open # <<>> /\ Last(open) = frame
    BY <1>1, <2>5, Deeper
  <2>11. reports \in Seq(Reports)
    BY <2>2, <2>6, <2>10, AttributeReportsAre
  <2>12. ASSUME errors = <<>>, reports = <<>>
         PROVE  Silent(marked, t)
    <3>1. frame.mode # "recovery" /\ Silent(frames, identity)
      BY <2>12 DEF IInv
    <3>2. Clean(t)
      BY <2>2, <2>3, <2>6, <2>10, <2>12, <3>1, AttributeReportsAre DEF Silent
    <3>3. failed = FALSE
      <4>1. failed => reports # <<>>
        BY <2>1, <2>2, <2>10 DEF AttributeReports, When
      <4>2. QED
        BY <2>12, <4>1
    <3>4. /\ [frame EXCEPT !.invalid = failed].mode = frame.mode
          /\ [frame EXCEPT !.invalid = failed].invalid = FALSE
      BY <3>3, Marked
    <3>5. /\ Len(marked) = Len(frames) + 1
          /\ marked[Len(frames) + 1] = [frame EXCEPT !.invalid = failed]
          /\ \A d \in 1..Len(frames) : marked[d] = frames[d]
      <4>1. [frame EXCEPT !.invalid = failed] \in Frames
        BY Marked
      <4>2. QED
        BY <2>5, <2>7, <4>1, Deeper
    <3>6. ASSUME NEW d \in 1..Len(frames) + 1
          PROVE  ~marked[d].invalid /\ marked[d].mode # "recovery"
      <4>1. d \in 1..Len(frames) \/ d = Len(frames) + 1
        BY <2>5
      <4>2. QED
        BY <3>1, <3>4, <3>5, <4>1 DEF Silent
    <3>7. QED
      BY <3>2, <3>5, <3>6 DEF Silent
  <2>13. "run" \in Phases
    BY DEF Phases
  <2>14. Continue(reports, "run", marked, t)
    BY <2>4, <2>7
  <2>15. QED
    BY <2>5, <2>8, <2>9, <2>11, <2>12, <2>13, <2>14, Continued
<1>5. QED
  BY <1>3, <1>4

(* An element its parent admits.                                           *)
LEMMA StartElementStep ==
  ASSUME IInv, NEW name \in Names, NEW mode \in Modes[name], NEW nilled \in BOOLEAN,
         NEW attr \in Attributes[name], StartElement(name, mode, nilled, attr)
  PROVE  IInv'
<1>1. /\ NewElement(name, mode, nilled, attr) \in Elements
      /\ NewFrame(name, mode, nilled) \in Frames
      /\ NewFrame(name, mode, nilled).mode = mode
      /\ NewFrame(name, mode, nilled).invalid = FALSE
  BY Started DEF IInv
<1>2. tree' \in Seq(Elements)
  <2>1. tree' = Append(tree, NewElement(name, mode, nilled, attr)) /\ tree \in Seq(Elements)
    BY DEF StartElement, IInv, TypeOK
  <2>2. QED
    BY <1>1, <2>1
<1>3. ASSUME mode = "recovery"
      PROVE  errors # <<>>
  <2>1. frames # <<>> /\ Last(frames).mode = "recovery"
    BY <1>3 DEF StartElement
  <2>2. Last(frames) = frames[Depth] /\ Depth \in 1..Len(frames)
    BY <2>1, Innermost DEF IInv
  <2>3. QED
    BY <2>1, <2>2 DEF IInv, Silent
<1>4. phase = "run" /\ Open(NewFrame(name, mode, nilled), attr, frames)
  BY DEF StartElement, Fits
<1>5. QED
  BY <1>1, <1>2, <1>3, <1>4, OpenStep

(* An element its parent does not admit.                                   *)
LEMMA StartUnexpectedStep ==
  ASSUME IInv, NEW name \in Names, NEW attr \in Attributes[name], StartUnexpected(name, attr)
  PROVE  IInv'
<1>1. PICK frame \in Frames :
        /\ frame = NewFrame(name, "recovery", FALSE) /\ frame.mode = "recovery"
        /\ NewElement(name, "recovery", FALSE, attr) \in Elements
  <2>1. "recovery" \in Modes[name]
    BY DEF StartUnexpected
  <2>2. QED
    BY <2>1, Started DEF IInv
<1>2. /\ frames \in Seq(Frames) /\ identity \in Identities /\ errors \in Seq(Reports)
      /\ tree \in Seq(Elements) /\ Good("run", frames, identity)
  BY DEF IInv, TypeOK, StartUnexpected, Fits
<1>3. tree' \in Seq(Elements)
  <2>1. tree' = Append(IF frames = <<>> THEN tree
                       ELSE [tree EXCEPT ![Last(frames).node].invalid = TRUE],
                       NewElement(name, "recovery", FALSE, attr))
    BY DEF StartUnexpected
  <2>2. [tree EXCEPT ![Last(frames).node].invalid = TRUE] \in Seq(Elements)
    BY TreeMarked DEF IInv
  <2>3. PICK read \in Seq(Elements) :
          read = IF frames = <<>> THEN tree
                 ELSE [tree EXCEPT ![Last(frames).node].invalid = TRUE]
    BY <1>2, <2>2
  <2>4. PICK element \in Elements : element = NewElement(name, "recovery", FALSE, attr)
    BY <1>1
  <2>5. tree' = Append(read, element)
    BY <2>1, <2>3, <2>4
  <2>6. QED
    BY <2>5
<1>4. PICK parents : parents = IF frames = <<>> THEN frames ELSE [frames EXCEPT ![Depth].invalid = TRUE]
  OBVIOUS
<1>5. parents \in Seq(Frames) /\ SameFrames(parents, frames)
  <2>1. CASE frames = <<>>
    BY <1>2, <1>4, <2>1 DEF SameFrames
  <2>2. CASE frames # <<>>
    BY <1>4, <2>2, InnermostMarked DEF IInv
  <2>3. QED
    BY <2>1, <2>2
<1>6. Good("run", parents, identity)
  BY <1>2, <1>5, Parts, SameFramesGood
<1>7. PICK open : open = Append(parents, frame)
  OBVIOUS
<1>8. /\ open \in Seq(Frames) /\ Len(open) = Len(parents) + 1 /\ open # <<>>
      /\ \A d \in 1..Len(parents) : open[d] = parents[d]
  BY <1>5, <1>7, Deeper
<1>9. Stacks("run", open, identity)
  BY <1>1, <1>2, <1>5, <1>6, <1>7, ElementPushed
<1>10. Limited(open, identity)
  <2>1. CASE frames = <<>>
    <3>1. parents = <<>>
      BY <1>4, <2>1
    <3>2. identity.entries = 0 /\ Len(identity.scopes) = 0 /\ Len(identity.selections) = 0
      <4>1. ~(1 \in 1..Len(identity.scopes)) /\ ~(1 \in 1..Len(identity.selections))
        BY <1>2, <2>1 DEF Good, Stacks, Nested, Scoped, Ordered, IsSelection
      <4>2. Len(identity.scopes) \in Nat /\ Len(identity.selections) \in Nat
        BY <1>2, Parts
      <4>3. identity.entries = 0
        BY <1>2, <2>1 DEF Good, Rests
      <4>4. QED
        BY <4>1, <4>2, <4>3
    <3>3. open[1].name \in Names
      <4>1. 1 \in 1..Len(open)
        BY <1>5, <1>8
      <4>2. open[1] \in Frames
        BY <1>8, <4>1
      <4>3. QED
        BY <4>2 DEF Frames
    <3>4. MaxEntries[open[1].name] \in Nat /\ MaxScopes[open[1].name] \in Nat
      BY <3>3, LimitAssumption
    <3>5. QED
      BY <3>2, <3>4 DEF Limited
  <2>2. CASE frames # <<>>
    <3>1. 1 \in 1..Len(parents) /\ Len(parents) = Len(frames)
      BY <1>2, <1>5, <2>2 DEF SameFrames
    <3>2. open[1] = parents[1] /\ parents # <<>>
      BY <1>8, <3>1
    <3>3. QED
      BY <1>6, <3>2 DEF Good, Limited
  <2>3. QED
    BY <2>1, <2>2
<1>11. Good("run", open, identity)
  BY <1>6, <1>8, <1>9, <1>10 DEF Good, Rests
<1>12. PICK t : t = AttributeFields(identity, open, attr)
  OBVIOUS
<1>13. t \in Identities /\ Good("run", open, t)
  <2>1. Touches(identity, t)
    BY <1>2, <1>12, AttributeTouches
  <2>2. t \in Identities
    BY <2>1 DEF Touches
  <2>3. QED
    BY <1>2, <1>11, <2>1, <2>2, TouchedGood
<1>14. PICK reports \in Seq(Reports) :
         /\ reports = <<[code |-> "assessment", element |-> Len(tree) + 1]>> /\ reports # <<>>
  <2>1. "assessment" \in ReportCodes /\ Len(tree) + 1 \in Nat
    BY <1>2 DEF ReportCodes
  <2>2. QED
    BY <2>1, ReportIs
<1>15. Continue(reports, "run", open, t)
  BY <1>1, <1>4, <1>7, <1>12, <1>14 DEF StartUnexpected
<1>16. "run" \in Phases
  BY DEF Phases
<1>17. QED
  BY <1>2, <1>3, <1>8, <1>13, <1>14, <1>15, <1>16, Continued

(* Character data that the open element does not allow.                    *)
LEMMA MisassessStep ==
  ASSUME IInv, Misassess
  PROVE  IInv'
<1>1. /\ frames \in Seq(Frames) /\ identity \in Identities /\ errors \in Seq(Reports)
      /\ tree \in Seq(Elements) /\ Good("run", frames, identity) /\ frames # <<>>
  BY DEF IInv, TypeOK, Misassess
<1>2. tree' \in Seq(Elements)
  <2>1. tree' = [tree EXCEPT ![Last(frames).node].invalid = TRUE]
    BY DEF Misassess
  <2>2. QED
    BY <2>1, TreeMarked DEF IInv
<1>3. PICK open : open = [frames EXCEPT ![Depth].invalid = TRUE]
  OBVIOUS
<1>4. open \in Seq(Frames) /\ SameFrames(open, frames)
  BY <1>1, <1>3, InnermostMarked DEF IInv
<1>5. Good("run", open, identity)
  BY <1>1, <1>4, Parts, SameFramesGood
<1>6. PICK reports \in Seq(Reports) :
         /\ reports = <<[code |-> "assessment", element |-> Last(frames).node]>> /\ reports # <<>>
  <2>1. "assessment" \in ReportCodes /\ Last(frames).node \in Nat
    BY <1>1, Innermost DEF IInv, ReportCodes
  <2>2. QED
    BY <2>1, ReportIs
<1>7. Continue(reports, "run", open, identity)
  BY <1>3, <1>6 DEF Misassess
<1>8. "run" \in Phases
  BY DEF Phases
<1>9. QED
  BY <1>1, <1>2, <1>4, <1>5, <1>6, <1>7, <1>8, Continued

-----------------------------------------------------------------------------
(* End tags.                                                               *)

(* An element of the tree has ended.                                       *)
LEMMA TreeEnded ==
  ASSUME TypeOK, NEW n, NEW content \in Kinds, NEW invalid \in BOOLEAN
  PROVE  [tree EXCEPT ![n].content = content, ![n].invalid = invalid] \in Seq(Elements)
<1>1. tree \in Seq(Elements)
  BY DEF TypeOK
<1>2. CASE n \in 1..Len(tree)
  <2>1. PICK element \in Elements : element = tree[n]
    BY <1>1, <1>2
  <2>2. PICK ended : ended = [element EXCEPT !.content = content, !.invalid = invalid]
    OBVIOUS
  <2>3. ended \in Elements
    BY <2>2 DEF Elements
  <2>4. [tree EXCEPT ![n].content = content, ![n].invalid = invalid] = [tree EXCEPT ![n] = ended]
    BY <1>1, <1>2, <2>1, <2>2
  <2>5. [tree EXCEPT ![n] = ended] \in Seq(Elements)
    BY <1>1, <1>2, <2>3
  <2>6. QED
    BY <2>4, <2>5
<1>3. CASE n \notin 1..Len(tree)
  <2>1. [tree EXCEPT ![n].content = content, ![n].invalid = invalid] = tree
    BY <1>1, <1>3
  <2>2. QED
    BY <1>1, <2>1
<1>4. QED
  BY <1>2, <1>3

(* The end of an element, whose node was captured as a field or not.       *)
LEMMA EndingStep ==
  ASSUME IInv, Closing, NEW content \in Kinds, NEW captured \in Identities,
         Good("run", frames, captured), NEW reports \in Seq(Reports), NEW failed \in BOOLEAN,
         failed => reports # <<>>, errors = <<>> /\ reports = <<>> => Clean(captured),
         Ending(content, captured, reports, failed)
  PROVE  IInv'
<1>1. /\ frames \in Seq(Frames) /\ frames # <<>> /\ errors \in Seq(Reports)
      /\ Last(frames) \in Frames /\ Last(frames) = frames[Depth] /\ Depth = Len(frames)
      /\ Depth \in 1..Len(frames) /\ Last(frames).invalid \in BOOLEAN
  BY Innermost DEF IInv, TypeOK, Closing, Depth, Frames
<1>2. PICK invalid \in BOOLEAN : invalid = (Last(frames).invalid \/ failed)
  BY <1>1
<1>3. PICK frame \in Frames :
        /\ frame = [Last(frames) EXCEPT !.invalid = invalid]
        /\ frame.node = Last(frames).node /\ frame.name = Last(frames).name
        /\ frame.mode = Last(frames).mode /\ frame.invalid = invalid
  BY <1>1, Marked
<1>4. PICK open : open = [frames EXCEPT ![Depth] = frame]
  OBVIOUS
<1>5. PICK t : t = NillableFields(captured, frames, frame)
  OBVIOUS
<1>6. /\ tree' = [tree EXCEPT ![frame.node].content = content, ![frame.node].invalid = frame.invalid]
      /\ Continue(reports, "owned", open, t)
  <2>1. frame = [Last(frames) EXCEPT !.invalid = @ \/ failed]
    BY <1>2, <1>3
  <2>2. QED
    BY <1>4, <1>5, <2>1 DEF Ending
<1>7. tree' \in Seq(Elements)
  BY <1>3, <1>6, TreeEnded DEF IInv
<1>8. /\ open \in Seq(Frames) /\ SameFrames(open, frames) /\ open # <<>>
      /\ \A d \in 1..Len(open) : open[d] = frame \/ open[d] = frames[d]
  <2>1. /\ SameFrames(open, frames) /\ open # <<>>
        /\ \A d \in 1..Len(open) : open[d] = frame \/ open[d] = frames[d]
    <3>1. open = [frames EXCEPT ![Len(frames)] = frame]
      BY <1>1, <1>4
    <3>2. SameFrames(open, frames)
      BY <1>1, <1>3, <3>1, FrameReplaced
    <3>3. Len(open) = Len(frames) /\ \A d \in 1..Len(open) : open[d] = frame \/ open[d] = frames[d]
      BY <1>1, <3>1
    <3>4. QED
      BY <1>1, <3>2, <3>3
  <2>2. QED
    BY <2>1 DEF SameFrames
<1>9. t \in Identities /\ Touches(captured, t)
  BY <1>5, NillableTouches DEF Touches
<1>10. Good("owned", open, t)
  <2>1. Good("run", frames, t)
    BY <1>9, TouchedGood
  <2>2. Good("run", open, t)
    BY <1>1, <1>8, <1>9, <2>1, Parts, SameFramesGood
  <2>3. QED
    BY <1>8, <2>2, OwnedGood
<1>11. ASSUME errors = <<>>, reports = <<>>
       PROVE  Silent(open, t)
  <2>1. Silent(frames, identity) /\ Clean(captured) /\ ~failed
    BY <1>11 DEF IInv
  <2>2. ~frames[Depth].invalid
    BY <1>1, <2>1 DEF Silent
  <2>3. ~frame.invalid
    BY <1>1, <1>2, <1>3, <2>1, <2>2
  <2>4. Clean(t)
    BY <1>5, <2>1, <2>3, NillableClean
  <2>5. Len(open) = Len(frames) /\ frame.mode # "recovery"
    BY <1>1, <1>3, <1>8, <2>1 DEF SameFrames, Silent
  <2>6. QED
    BY <1>8, <2>1, <2>3, <2>4, <2>5 DEF Silent
<1>12. "owned" \in Phases
  BY DEF Phases
<1>13. QED
  BY <1>1, <1>6, <1>7, <1>8, <1>9, <1>10, <1>11, <1>12, Continued

(* The node of the element has no value.                                   *)
LEMMA RejectStep ==
  ASSUME IInv, Closing, NEW content \in Kinds, NEW report \in BOOLEAN,
         errors = <<>> => report, RejectFields(content, report)
  PROVE  IInv'
<1>1. identity \in Identities /\ Good("run", frames, identity)
  BY DEF IInv, TypeOK, Closing
<1>2. PICK condition \in BOOLEAN : condition = (report /\ Here # {})
  OBVIOUS
<1>3. PICK reports : reports = When(condition, "nosimple", FirstElement(identity, Here))
  OBVIOUS
<1>4. IsReport(reports, condition)
  <2>1. "nosimple" \in ReportCodes /\ Here \subseteq FieldMatches(frames, identity, FALSE)
    BY DEF ReportCodes, Here
  <2>2. condition => Here # {}
    BY <1>2
  <2>3. IsReport(When(condition, "nosimple", FirstElement(identity, Here)), condition)
    BY <1>1, <2>1, <2>2, MatchReports
  <2>4. QED
    BY <1>3, <2>3, Zenon
<1>5. reports \in Seq(Reports) /\ (reports = <<>> => ~condition)
  BY <1>4, Zenon DEF IsReport
<1>6. PICK t : t = Invalidate(identity, Here)
  OBVIOUS
<1>7. t \in Identities /\ Good("run", frames, t)
  <2>1. Touches(identity, t)
    BY <1>1, <1>6, InvalidateTouches
  <2>2. QED
    BY <1>1, <2>1, TouchedGood DEF Touches
<1>8. errors = <<>> /\ reports = <<>> => Clean(t)
  <2>1. errors = <<>> /\ reports = <<>> => Here = {} /\ Clean(identity)
    BY <1>2, <1>5 DEF IInv, Silent
  <2>2. QED
    BY <1>1, <1>6, <2>1, InvalidateClean
<1>9. Ending(content, t, reports, FALSE)
  BY <1>2, <1>3, <1>6 DEF RejectFields
<1>10. QED
  BY <1>5, <1>7, <1>8, <1>9, EndingStep

(* The node of the element is captured.                                    *)
LEMMA CaptureStep ==
  ASSUME IInv, Closing, NEW content \in Kinds, NEW s \in Identities, Good("run", frames, s),
         s.selections = identity.selections, Clean(identity) => Clean(s), NEW v \in Data,
         CaptureFields(content, s, v)
  PROVE  IInv'
<1>1. PICK again : again = Repeated(s, Here)
  OBVIOUS
<1>2. PICK condition \in BOOLEAN : condition = (again # {})
  OBVIOUS
<1>3. PICK reports : reports = When(condition, "multiple", FirstElement(s, again))
  OBVIOUS
<1>4. IsReport(reports, condition)
  <2>1. "multiple" \in ReportCodes /\ again \subseteq FieldMatches(frames, s, FALSE)
    BY <1>1 DEF ReportCodes, Here, Repeated, FieldMatches
  <2>2. condition => again # {}
    BY <1>2
  <2>3. IsReport(When(condition, "multiple", FirstElement(s, again)), condition)
    BY <2>1, <2>2, MatchReports
  <2>4. QED
    BY <1>3, <2>3, Zenon
<1>5. reports \in Seq(Reports) /\ (reports = <<>> => ~condition)
  BY <1>4, Zenon DEF IsReport
<1>6. PICK t : t = Capture(s, Here, v)
  OBVIOUS
<1>7. t \in Identities /\ Good("run", frames, t)
  <2>1. Touches(s, t)
    BY <1>6, CaptureTouches
  <2>2. QED
    BY <2>1, TouchedGood DEF Touches
<1>8. errors = <<>> /\ reports = <<>> => Clean(t)
  <2>1. errors = <<>> /\ reports = <<>> => again = {} /\ Clean(s)
    BY <1>2, <1>5 DEF IInv, Silent
  <2>2. QED
    BY <1>1, <1>6, <2>1, CaptureClean
<1>9. Ending(content, t, reports, FALSE)
  BY <1>1, <1>2, <1>3, <1>6 DEF CaptureFields
<1>10. QED
  BY <1>5, <1>7, <1>8, <1>9, EndingStep

(* The content is no value of the element's type.                          *)
LEMMA BadStep ==
  ASSUME IInv, Closing, NEW content \in Kinds,
         Ending(content, Invalidate(identity, Here),
                <<[code |-> "assessment", element |-> Last(frames).node]>>, TRUE)
  PROVE  IInv'
<1>1. identity \in Identities /\ Good("run", frames, identity) /\ frames # <<>>
  BY DEF IInv, TypeOK, Closing
<1>2. PICK t : t = Invalidate(identity, Here)
  OBVIOUS
<1>3. t \in Identities /\ Good("run", frames, t)
  <2>1. Touches(identity, t)
    BY <1>1, <1>2, InvalidateTouches
  <2>2. QED
    BY <1>1, <2>1, TouchedGood DEF Touches
<1>4. PICK reports \in Seq(Reports) :
         /\ reports = <<[code |-> "assessment", element |-> Last(frames).node]>> /\ reports # <<>>
  <2>1. "assessment" \in ReportCodes /\ Last(frames).node \in Nat
    BY <1>1, Innermost DEF IInv, ReportCodes
  <2>2. QED
    BY <2>1, ReportIs
<1>5. Ending(content, t, reports, TRUE)
  BY <1>2, <1>4
<1>6. QED
  BY <1>3, <1>4, <1>5, EndingStep

(* What an element contains is one of the kinds of content.                *)
LEMMA ContentKinds ==
  ASSUME NEW name \in Names, NEW content \in Contents[name]
  PROVE  /\ content \in Kinds
         /\ content.kind \in {"value", "id"} => content.value \in Values
BY ContentAssumption DEF Kinds

(* An element that was not assessed ends.                                  *)
LEMMA EndUnassessedStep ==
  ASSUME IInv, EndUnassessed
  PROVE  IInv'
<1>1. Closing /\ frames # <<>> /\ ~Assessed(Last(frames).mode)
  BY DEF EndUnassessed, Closing
<1>2. [kind |-> "complex"] \in Kinds
  BY DEF Kinds
<1>3. PICK report \in BOOLEAN : report = (Last(frames).mode = "skipped")
  OBVIOUS
<1>4. errors = <<>> => report
  <2>1. Last(frames) \in Frames /\ Last(frames) = frames[Depth] /\ Depth \in 1..Len(frames)
    BY <1>1, Innermost DEF IInv
  <2>2. Last(frames).mode \in AssessmentModes /\ (errors = <<>> => Last(frames).mode # "recovery")
    BY <2>1 DEF IInv, Silent, Frames
  <2>3. QED
    BY <1>1, <1>3, <2>2 DEF Assessed, AssessmentModes
<1>5. RejectFields([kind |-> "complex"], report)
  BY <1>3 DEF EndUnassessed
<1>6. QED
  BY <1>1, <1>2, <1>4, <1>5, RejectStep

(* An element without a simple value ends.                                 *)
LEMMA EndWithoutValueStep ==
  ASSUME IInv, EndWithoutValue
  PROVE  IInv'
<1>1. PICK content \in Contents[Last(frames).name] : RejectFields(content, TRUE)
  BY DEF EndWithoutValue
<1>2. Closing /\ frames # <<>>
  BY DEF EndWithoutValue, Closing
<1>3. content \in Kinds
  BY <1>2, Innermost, ContentKinds DEF IInv
<1>4. QED
  BY <1>1, <1>2, <1>3, RejectStep

(* A nilled element ends.                                                  *)
LEMMA EndNilledStep ==
  ASSUME IInv, EndNilled
  PROVE  IInv'
<1>1. Closing /\ CaptureFields([kind |-> "value", value |-> NilKey], identity, NilKey)
  BY DEF EndNilled
<1>2. NilKey \in Data /\ [kind |-> "value", value |-> NilKey] \in Kinds
  BY DEF Data, Kinds
<1>3. identity \in Identities /\ Good("run", frames, identity)
  BY <1>1 DEF IInv, TypeOK, Closing
<1>4. QED
  BY <1>1, <1>2, <1>3, CaptureStep

(* An element ends whose simple content is valid.                          *)
LEMMA EndWithValueStep ==
  ASSUME IInv, EndWithValue
  PROVE  IInv'
<1>1. PICK content \in Contents[Last(frames).name] :
        content.kind = "value" /\ CaptureFields(content, identity, content.value)
  BY DEF EndWithValue
<1>2. Closing /\ frames # <<>>
  BY DEF EndWithValue, Closing
<1>3. content \in Kinds /\ content.value \in Data
  BY <1>1, <1>2, Innermost, ContentKinds DEF IInv, Data
<1>4. identity \in Identities /\ Good("run", frames, identity)
  BY <1>2 DEF IInv, TypeOK, Closing
<1>5. QED
  BY <1>1, <1>2, <1>3, <1>4, CaptureStep

(* An element ends whose simple content is not.                            *)
LEMMA EndWithBadValueStep ==
  ASSUME IInv, EndWithBadValue
  PROVE  IInv'
<1>1. PICK content \in Contents[Last(frames).name] :
        Ending(content, Invalidate(identity, Here),
               <<[code |-> "assessment", element |-> Last(frames).node]>>, TRUE)
  BY DEF EndWithBadValue
<1>2. Closing /\ frames # <<>>
  BY DEF EndWithBadValue, Closing
<1>3. content \in Kinds
  BY <1>2, Innermost, ContentKinds DEF IInv
<1>4. QED
  BY <1>1, <1>2, <1>3, BadStep

WithID(s, v) == [s EXCEPT !.ids = @ \union {v}, !.entries = @ + 1]

(* A new ID takes an entry.                                                *)
LEMMA IdStored ==
  ASSUME NEW s \in Identities, Good("run", frames, s), frames \in Seq(Frames), frames # <<>>,
         NEW v \in Values,
         v \notin s.ids, s.entries < MaxEntries[frames[1].name],
         NEW t, t = WithID(s, v)
  PROVE  /\ t \in Identities /\ Good("run", frames, t) /\ t.selections = s.selections
         /\ Clean(s) => Clean(t)
<1>1. PICK ids : ids = s.ids \union {v}
  OBVIOUS
<1>2. s.ids \in SUBSET Values /\ s.entries \in Nat
  BY Parts
<1>3. PICK entries \in Nat : entries = s.entries + 1
  BY <1>2
<1>4. ids \in SUBSET Values
  BY <1>1, <1>2
<1>5. /\ t \in Identities /\ t.ids = ids /\ t.entries = entries
      /\ t.selections = s.selections /\ t.scopes = s.scopes
      /\ t.fieldValues = s.fieldValues /\ t.nextNode = s.nextNode
  BY <1>1, <1>3, <1>4 DEF Identities, WithID
<1>6. Stacks("run", frames, t)
  <2>1. Nested("run", frames, t)
    BY <1>5 DEF Good, Stacks, Nested
  <2>2. Ordered(frames, t)
    BY <1>5 DEF Good, Stacks, Ordered, IsSelection
  <2>3. Dense("run", frames, t)
    BY <1>5 DEF Good, Stacks, Dense, EndOf
  <2>4. QED
    BY <2>1, <2>2, <2>3 DEF Stacks
<1>7. Counted(t)
  <2>1. /\ IsFiniteSet(Tabled(s.scopes)) /\ IsFiniteSet(Referring(s.scopes)) /\ IsFiniteSet(s.ids)
        /\ Cardinality(Tabled(s.scopes)) + Cardinality(Referring(s.scopes)) + Cardinality(s.ids)
             <= s.entries
    BY DEF Good, Counted
  <2>2. IsFiniteSet(ids) /\ Cardinality(ids) = Cardinality(s.ids) + 1
    BY <1>1, <2>1, FS_AddElement
  <2>3. /\ Cardinality(Tabled(s.scopes)) \in Nat /\ Cardinality(Referring(s.scopes)) \in Nat
        /\ Cardinality(s.ids) \in Nat
    BY <2>1, FS_CardinalityType
  <2>4. Cardinality(Tabled(s.scopes)) + Cardinality(Referring(s.scopes)) + Cardinality(ids)
          <= entries
    BY <1>2, <1>3, <2>1, <2>2, <2>3
  <2>5. QED
    BY <1>5, <2>1, <2>2, <2>4 DEF Counted
<1>8. Limited(frames, t)
  <2>1. MaxEntries[frames[1].name] \in Nat
    <3>1. 1 \in 1..Len(frames)
      OBVIOUS
    <3>2. frames[1] \in Frames
      BY <3>1
    <3>3. QED
      BY <3>2, LimitAssumption DEF Frames
  <2>2. QED
    BY <1>2, <1>3, <1>5, <2>1 DEF Good, Limited
<1>9. Rests("run", frames, t)
  BY DEF Rests
<1>10. Clean(s) => Clean(t)
  BY <1>5 DEF Clean
<1>11. QED
  BY <1>5, <1>6, <1>7, <1>8, <1>9, <1>10 DEF Good

(* Content of type xs:ID.                                                  *)
LEMMA EndWithIDStep ==
  ASSUME IInv, EndWithID
  PROVE  IInv'
<1>1. PICK content \in Contents[Last(frames).name] :
        /\ content.kind = "id"
        /\ IF content.value \in identity.ids
           THEN Ending([kind |-> "invalid"], Invalidate(identity, Here),
                       <<[code |-> "assessment", element |-> Last(frames).node]>>, TRUE)
           ELSE IF identity.entries >= MaxEntries[frames[1].name]
           THEN Fatal /\ UNCHANGED tree
           ELSE CaptureFields([kind |-> "value", value |-> content.value],
                              [identity EXCEPT !.ids = @ \union {content.value},
                                               !.entries = @ + 1],
                              content.value)
  BY DEF EndWithID
<1>2. /\ Closing /\ frames # <<>> /\ frames \in Seq(Frames) /\ tree \in Seq(Elements)
      /\ identity \in Identities /\ Good("run", frames, identity)
  BY DEF EndWithID, Closing, IInv, TypeOK
<1>3. content.value \in Values /\ content.value \in Data
  BY <1>1, <1>2, Innermost, ContentKinds DEF IInv, Data
<1>4. [kind |-> "invalid"] \in Kinds /\ [kind |-> "value", value |-> content.value] \in Kinds
  BY <1>3 DEF Kinds
<1>5. CASE content.value \in identity.ids
  BY <1>1, <1>2, <1>4, <1>5, BadStep
<1>6. CASE content.value \notin identity.ids /\ identity.entries >= MaxEntries[frames[1].name]
  BY <1>1, <1>2, <1>6, FatalStep
<1>7. CASE content.value \notin identity.ids /\ ~(identity.entries >= MaxEntries[frames[1].name])
  <2>1. PICK t : t = WithID(identity, content.value)
    OBVIOUS
  <2>2. identity.entries < MaxEntries[frames[1].name]
    <3>1. 1 \in 1..Len(frames)
      BY <1>2
    <3>2. frames[1] \in Frames
      BY <1>2, <3>1
    <3>3. identity.entries \in Nat /\ MaxEntries[frames[1].name] \in Nat
      BY <1>2, <3>2, Parts, LimitAssumption DEF Frames
    <3>4. QED
      BY <1>7, <3>3
  <2>3. /\ t \in Identities /\ Good("run", frames, t) /\ t.selections = identity.selections
        /\ Clean(identity) => Clean(t)
    BY <1>2, <1>3, <1>7, <2>1, <2>2, IdStored
  <2>4. CaptureFields([kind |-> "value", value |-> content.value], t, content.value)
    BY <1>1, <1>7, <2>1 DEF WithID
  <2>5. QED
    BY <1>2, <1>3, <1>4, <2>3, <2>4, CaptureStep
<1>8. QED
  BY <1>5, <1>6, <1>7

-----------------------------------------------------------------------------
(* The selections of an element that is ending.                            *)

(* A sequence without one of its elements.                                 *)
LEMMA Removed ==
  ASSUME NEW T, NEW q \in Seq(T), NEW i \in 1..Len(q)
  PROVE  /\ RemoveAt(q, i) \in Seq(T) /\ Len(RemoveAt(q, i)) = Len(q) - 1
         /\ \A k \in 1..i - 1 : RemoveAt(q, i)[k] = q[k]
         /\ \A k \in i..Len(q) - 1 : RemoveAt(q, i)[k] = q[k + 1]
<1>1. PICK n \in Nat : n = Len(q)
  OBVIOUS
<1>2. PICK a : a = SubSeq(q, 1, i - 1)
  OBVIOUS
<1>3. PICK b : b = SubSeq(q, i + 1, n)
  OBVIOUS
<1>4. a \in Seq(T) /\ Len(a) = i - 1 /\ \A k \in 1..i - 1 : a[k] = q[k]
  BY <1>1, <1>2
<1>5. b \in Seq(T) /\ Len(b) = n - i /\ \A k \in 1..n - i : b[k] = q[i + k]
  BY <1>1, <1>3
<1>6. PICK r : r = a \o b
  OBVIOUS
<1>7. RemoveAt(q, i) = r
  BY <1>1, <1>2, <1>3, <1>6 DEF RemoveAt
<1>8. /\ r \in Seq(T) /\ Len(r) = Len(a) + Len(b)
      /\ \A k \in 1..Len(a) : r[k] = a[k]
      /\ \A k \in 1..Len(b) : r[Len(a) + k] = b[k]
  <2>1. a \in Seq(T) /\ b \in Seq(T)
    BY <1>4, <1>5
  <2>2. QED
    BY ONLY <1>6, <2>1, Joined
<1>9. ASSUME NEW k \in i..n - 1
      PROVE  r[k] = q[k + 1]
  <2>1. PICK l \in 1..n - i : k = i - 1 + l
    <3>1. k - i + 1 \in 1..n - i /\ k = i - 1 + (k - i + 1)
      BY <1>1
    <3>2. QED
      BY <3>1
  <2>2. r[k] = b[l] /\ b[l] = q[i + l]
    BY <1>4, <1>5, <1>8, <2>1
  <2>3. i + l = k + 1
    BY <2>1
  <2>4. QED
    BY <2>2, <2>3
<1>10. QED
  BY <1>1, <1>4, <1>5, <1>7, <1>8, <1>9

(* The selection of an ending element leaves the list.                     *)
LEMMA DroppedGood ==
  ASSUME identity \in Identities, phase \in {"owned", "elsewhere"},
         Good(phase, frames, identity), frames \in Seq(Frames),
         NEW i \in 1..Len(identity.selections), identity.selections[i].depth = Depth,
         NEW t, t = Dropped(i)
  PROVE  /\ t \in Identities /\ Good(phase, frames, t)
         /\ t.scopes = identity.scopes /\ t.entries = identity.entries
         /\ Clean(identity) => Clean(t)
<1>1. PICK s \in Identities : s = identity
  OBVIOUS
<1>2. PICK n \in Nat : n = Len(s.selections)
  BY Parts
<1>3. PICK m \in Nat : m = Len(s.fieldValues) /\ DOMAIN s.fieldValues = 1..m
  BY Parts
<1>4. /\ s.selections \in Seq(Selections) /\ \A k \in 1..m : s.fieldValues[k] \in FieldValues
  BY <1>3, Parts
<1>5. PICK list : list = RemoveAt(s.selections, i)
  OBVIOUS
<1>6. /\ list \in Seq(Selections) /\ Len(list) = n - 1
      /\ \A k \in 1..i - 1 : list[k] = s.selections[k]
      /\ \A k \in i..n - 1 : list[k] = s.selections[k + 1]
  BY <1>1, <1>2, <1>4, <1>5, Removed
<1>7. PICK x : x = s.selections[i]
  OBVIOUS
<1>8. PICK values : values = [k \in DOMAIN s.fieldValues |->
           IF k \in x.fieldStart + 1 .. x.fieldStart + x.fieldLen THEN AbsentField
           ELSE s.fieldValues[k]]
  OBVIOUS
<1>9. /\ values \in Seq(FieldValues) /\ Len(values) = m
      /\ \A k \in 1..m : values[k].state = "absent" \/ values[k] = s.fieldValues[k]
  <2>1. AbsentField \in FieldValues /\ AbsentField.state = "absent"
    BY DEF AbsentField, FieldValues, FieldStates, Data
  <2>2. values = [k \in 1..m |-> values[k]] /\ \A k \in 1..m : values[k] \in {AbsentField, s.fieldValues[k]}
    BY <1>3, <1>8
  <2>3. \A k \in 1..m : values[k] \in FieldValues
    BY <1>4, <2>1, <2>2
  <2>4. values \in Seq(FieldValues) /\ Len(values) = m
    BY <2>2, <2>3, MappedSeq
  <2>5. QED
    BY <2>1, <2>2, <2>4
<1>10. /\ t \in Identities /\ t.selections = list /\ t.fieldValues = values
       /\ t.ids = s.ids /\ t.scopes = s.scopes /\ t.entries = s.entries /\ t.nextNode = s.nextNode
  <2>1. t = [s EXCEPT !.selections = list, !.fieldValues = values]
    BY <1>1, <1>5, <1>7, <1>8 DEF Dropped
  <2>2. QED
    BY <1>6, <1>9, <2>1 DEF Identities
<1>11. Nested(phase, frames, t)
  BY <1>1, <1>10 DEF Good, Stacks, Nested
<1>12. /\ \A k \in 1..n : IsSelection(frames, s, s.selections[k])
       /\ \A j, k \in 1..n : j < k => Precedes(s.selections[j], s.selections[k])
  BY <1>1, <1>2 DEF Good, Stacks, Ordered
<1>13. \A y : IsSelection(frames, s, y) => IsSelection(frames, t, y)
  BY <1>3, <1>9, <1>10 DEF IsSelection
<1>14. i \in 1..n
  BY <1>1, <1>2
<1>15. Ordered(frames, t)
  <2>1. ASSUME NEW k \in 1..n - 1
        PROVE  \/ k \in 1..i - 1 /\ k \in 1..n /\ list[k] = s.selections[k]
               \/ k \in i..n - 1 /\ k + 1 \in 1..n /\ list[k] = s.selections[k + 1]
    <3>1. \/ k \in 1..i - 1 /\ k \in 1..n
          \/ k \in i..n - 1 /\ k + 1 \in 1..n
      BY ONLY <1>14, n \in Nat, k \in 1..n - 1
    <3>2. QED
      BY ONLY <1>6, <3>1
  <2>2. \A k \in 1..n - 1 : IsSelection(frames, t, list[k])
    BY <1>12, <1>13, <2>1
  <2>3. ASSUME NEW j \in 1..n - 1, NEW k \in 1..n - 1, j < k
        PROVE  Precedes(list[j], list[k])
    <3>1. PICK p \in 1..n, q \in 1..n : p < q /\ list[j] = s.selections[p] /\ list[k] = s.selections[q]
      <4>1. CASE k \in 1..i - 1
        <5>1. j \in 1..i - 1 /\ j \in 1..n /\ k \in 1..n
          BY <1>14, <2>3, <4>1
        <5>2. QED
          BY <1>6, <2>3, <4>1, <5>1
      <4>2. CASE k \in i..n - 1 /\ j \in 1..i - 1
        <5>1. j \in 1..n /\ k + 1 \in 1..n /\ j < k + 1
          BY <1>14, <2>3, <4>2
        <5>2. QED
          BY <1>6, <4>2, <5>1
      <4>3. CASE k \in i..n - 1 /\ j \in i..n - 1
        <5>1. j + 1 \in 1..n /\ k + 1 \in 1..n /\ j + 1 < k + 1
          BY <1>14, <2>3, <4>3
        <5>2. QED
          BY <1>6, <4>3, <5>1
      <4>4. QED
        BY <1>14, <4>1, <4>2, <4>3
    <3>2. QED
      BY <1>12, <3>1
  <2>4. QED
    BY <1>6, <1>10, <2>2, <2>3 DEF Ordered
<1>16. Dense(phase, frames, t)
  <2>1. ASSUME NEW k \in 1..n - 1, list[k].depth < Len(frames)
        PROVE  list[k].fieldStart = EndOf(t, k - 1)
    <3>1. CASE k \in 1..i - 1
      <4>1. k \in 1..n /\ list[k] = s.selections[k]
        BY <1>6, <1>14, <3>1
      <4>2. s.selections[k].fieldStart = EndOf(s, k - 1)
        BY <1>1, <1>2, <2>1, <4>1 DEF Good, Stacks, Dense
      <4>3. k - 1 # 0 => k - 1 \in 1..i - 1
        BY <3>1
      <4>4. EndOf(t, k - 1) = EndOf(s, k - 1)
        BY <1>6, <1>10, <4>3 DEF EndOf
      <4>5. QED
        BY <4>1, <4>2, <4>4
    <3>2. CASE k \in i..n - 1
      <4>1. k + 1 \in 1..n /\ i < k + 1 /\ list[k] = s.selections[k + 1]
        BY <1>6, <1>14, <3>2
      <4>2. s.selections[i].depth <= s.selections[k + 1].depth
        BY <1>12, <1>14, <4>1 DEF Precedes
      <4>3. s.selections[k + 1].depth \in 1..Len(frames)
        BY <1>12, <4>1 DEF IsSelection
      <4>4. s.selections[i].depth = Len(frames)
        BY <1>1 DEF Depth
      <4>5. QED
        BY <2>1, <4>1, <4>2, <4>3, <4>4
    <3>3. QED
      BY <1>14, <3>1, <3>2
  <2>2. phase # "run"
    OBVIOUS
  <2>3. QED
    BY <1>6, <1>10, <2>1, <2>2 DEF Dense
<1>17. Counted(t)
  BY <1>1, <1>10 DEF Good, Counted
<1>18. Limited(frames, t)
  <2>1. CASE frames # <<>>
    <3>1. 1 \in 1..Len(frames)
      BY <2>1
    <3>2. frames[1] \in Frames
      BY <3>1
    <3>3. MaxEntries[frames[1].name] \in Nat
      BY <3>2, LimitAssumption DEF Frames
    <3>4. Len(s.selections) <= MaxEntries[frames[1].name]
      BY <1>1, <2>1 DEF Good, Limited
    <3>5. Len(t.selections) <= MaxEntries[frames[1].name]
      BY <1>2, <1>6, <1>10, <3>3, <3>4
    <3>6. QED
      BY <1>1, <1>10, <3>5 DEF Good, Limited
  <2>2. QED
    BY <2>1 DEF Limited
<1>19. Rests(phase, frames, t)
  BY <1>1 DEF Good, Rests
<1>20. Clean(s) => Clean(t)
  BY <1>3, <1>9, <1>10 DEF Clean
<1>21. QED
  BY <1>1, <1>10, <1>11, <1>15, <1>16, <1>17, <1>18, <1>19, <1>20 DEF Good, Stacks

(* What is pending is a selection of the element that is ending.           *)
LEMMA FinishFacts ==
  ASSUME IInv, NEW i \in DOMAIN identity.selections, Finish(i)
  PROVE  /\ i \in 1..Len(identity.selections) /\ identity.selections[i].depth = Depth
         /\ identity.selections[i] \in Selections
         /\ IsSelection(frames, identity, identity.selections[i])
         /\ phase \in {"owned", "elsewhere"} /\ phase \in Phases /\ frames # <<>>
         /\ identity \in Identities /\ Good(phase, frames, identity)
         /\ frames \in Seq(Frames) /\ errors \in Seq(Reports) /\ tree' \in Seq(Elements)
<1>1. identity \in Identities /\ Good(phase, frames, identity)
      /\ frames \in Seq(Frames) /\ errors \in Seq(Reports) /\ tree \in Seq(Elements)
      /\ phase \in Phases
  BY DEF IInv, TypeOK
<1>2. i \in 1..Len(identity.selections) /\ identity.selections[i] \in Selections
  BY <1>1, Parts
<1>3. identity.selections[i].depth = Depth /\ phase \in {"owned", "elsewhere"} /\ tree' = tree
  BY DEF Finish, Pending, Finishing
<1>4. IsSelection(frames, identity, identity.selections[i])
  BY <1>1, <1>2 DEF Good, Stacks, Ordered
<1>5. frames # <<>>
  BY <1>1, <1>3 DEF Good, Rests
<1>6. QED
  BY <1>1, <1>2, <1>3, <1>4, <1>5

MarkScope(s, j) == [s EXCEPT !.scopes[j].invalid = TRUE]

(* A scope is marked invalid.                                              *)
LEMMA ScopeMarked ==
  ASSUME NEW s \in Identities, NEW j \in 1..Len(s.scopes)
  PROVE  Touches(s, MarkScope(s, j))
<1>1. PICK n \in Nat : n = Len(s.scopes) /\ DOMAIN s.scopes = 1..n
  BY Parts
<1>2. s.scopes \in Seq(Scopes) /\ s.scopes[j] \in Scopes
  BY Parts
<1>3. PICK marked : marked = [s.scopes[j] EXCEPT !.invalid = TRUE]
  OBVIOUS
<1>4. /\ marked \in Scopes
      /\ marked.depth = s.scopes[j].depth /\ marked.constraints = s.scopes[j].constraints
      /\ marked.refs = s.scopes[j].refs /\ marked.tables = s.scopes[j].tables
  BY <1>2, <1>3 DEF Scopes
<1>5. PICK scopes : scopes = [s.scopes EXCEPT ![j] = marked]
  OBVIOUS
<1>6. /\ scopes \in Seq(Scopes) /\ Len(scopes) = n
      /\ \A k \in 1..n : scopes[k] = IF k = j THEN marked ELSE s.scopes[k]
  BY <1>1, <1>2, <1>4, <1>5
<1>7. PICK t : t = MarkScope(s, j)
  OBVIOUS
<1>8. /\ t \in Identities /\ t.scopes = scopes /\ t.ids = s.ids /\ t.selections = s.selections
      /\ t.entries = s.entries /\ t.nextNode = s.nextNode /\ t.fieldValues = s.fieldValues
  <2>1. t = [s EXCEPT !.scopes = scopes]
    BY <1>3, <1>5, <1>7 DEF MarkScope, Identities
  <2>2. QED
    BY <1>6, <2>1 DEF Identities
<1>9. Touches(s, t)
  BY <1>1, <1>4, <1>6, <1>8 DEF Touches
<1>10. QED
  BY <1>7, <1>9

(* The selection is in error.                                              *)
LEMMA ErrorStep ==
  ASSUME IInv, NEW i \in DOMAIN identity.selections, Finish(i), NEW code \in ReportCodes,
         FinishWithError(i, code)
  PROVE  IInv'
<1>1. /\ i \in 1..Len(identity.selections) /\ identity.selections[i].depth = Depth
      /\ identity.selections[i] \in Selections
      /\ IsSelection(frames, identity, identity.selections[i])
      /\ phase \in {"owned", "elsewhere"} /\ phase \in Phases /\ frames # <<>>
      /\ identity \in Identities /\ Good(phase, frames, identity)
      /\ frames \in Seq(Frames) /\ errors \in Seq(Reports) /\ tree' \in Seq(Elements)
  BY FinishFacts
<1>2. PICK s : s = Dropped(i)
  OBVIOUS
<1>3. s \in Identities /\ Good(phase, frames, s) /\ s.scopes = identity.scopes
  BY <1>1, <1>2, DroppedGood
<1>4. PICK j : j = identity.selections[i].scope
  OBVIOUS
<1>5. j \in 1..Len(s.scopes)
  BY <1>1, <1>3, <1>4 DEF IsSelection
<1>6. PICK t : t = MarkScope(s, j)
  OBVIOUS
<1>7. t \in Identities /\ Good(phase, frames, t)
  <2>1. Touches(s, t)
    BY <1>3, <1>5, <1>6, ScopeMarked
  <2>2. QED
    BY <1>3, <2>1, TouchedGood DEF Touches
<1>8. PICK reports \in Seq(Reports) :
         /\ reports = <<[code |-> code, element |-> identity.selections[i].element]>>
         /\ reports # <<>>
  <2>1. identity.selections[i].element \in Nat
    BY <1>1 DEF Selections
  <2>2. QED
    BY <2>1, ReportIs
<1>9. Continue(reports, phase, frames, t)
  BY <1>2, <1>4, <1>6, <1>8 DEF FinishWithError, MarkScope
<1>10. QED
  BY <1>1, <1>7, <1>8, <1>9, Continued

(* A selection finishes that lacks a field or has an invalid one.          *)
LEMMA FinishUnqualifiedStep ==
  ASSUME IInv, NEW i \in DOMAIN identity.selections, FinishUnqualified(i)
  PROVE  IInv'
<1>1. Finish(i) /\ (FinishWithError(i, "missing") \/ Continue(<<>>, phase, frames, Dropped(i)))
  BY DEF FinishUnqualified
<1>2. CASE FinishWithError(i, "missing")
  <2>1. "missing" \in ReportCodes
    BY DEF ReportCodes
  <2>2. QED
    BY <1>1, <1>2, <2>1, ErrorStep
<1>3. CASE Continue(<<>>, phase, frames, Dropped(i))
  <2>1. /\ i \in 1..Len(identity.selections) /\ identity.selections[i].depth = Depth
        /\ phase \in {"owned", "elsewhere"} /\ phase \in Phases
        /\ identity \in Identities /\ Good(phase, frames, identity)
        /\ frames \in Seq(Frames) /\ errors \in Seq(Reports) /\ tree' \in Seq(Elements)
    BY <1>1, FinishFacts
  <2>2. PICK s : s = Dropped(i)
    OBVIOUS
  <2>3. s \in Identities /\ Good(phase, frames, s) /\ (Clean(identity) => Clean(s))
    BY <2>1, <2>2, DroppedGood
  <2>4. errors = <<>> => Silent(frames, s)
    BY <2>3 DEF IInv, Silent
  <2>5. PICK none \in Seq(Reports) : none = <<>>
    <3>1. <<>> \in Seq(Reports)
      OBVIOUS
    <3>2. QED
      BY ONLY <3>1
  <2>6. Continue(none, phase, frames, s)
    BY <1>3, <2>2, <2>5
  <2>7. QED
    BY <2>1, <2>3, <2>4, <2>6, Continued
<1>4. QED
  BY <1>1, <1>2, <1>3

(* A selection of a key finishes that has a field of a nillable element.   *)
LEMMA FinishNillableStep ==
  ASSUME IInv, NEW i \in DOMAIN identity.selections, FinishNillable(i)
  PROVE  IInv'
<1>1. Finish(i) /\ FinishWithError(i, "nillable") /\ "nillable" \in ReportCodes
  BY DEF FinishNillable, ReportCodes
<1>2. QED
  BY <1>1, ErrorStep

-----------------------------------------------------------------------------
(* What is published.                                                      *)

Replaced(s, j, scope) == [s.scopes EXCEPT ![j] = scope]
Published(s, j, scope) == [s EXCEPT !.scopes[j] = scope, !.entries = @ + 1]

(* A scope holds one thing more, which was counted.                        *)
LEMMA PublishedGood ==
  ASSUME frames \in Seq(Frames), frames # <<>>,
         NEW ph, NEW s \in Identities, Good(ph, frames, s),
         s.entries < MaxEntries[frames[1].name],
         NEW j \in 1..Len(s.scopes), NEW scope \in Scopes,
         scope.depth = s.scopes[j].depth, scope.constraints = s.scopes[j].constraints,
         scope.invalid = s.scopes[j].invalid,
         NEW scopes, scopes = Replaced(s, j, scope),
         IsFiniteSet(Tabled(scopes)), IsFiniteSet(Referring(scopes)),
         Cardinality(Tabled(scopes)) + Cardinality(Referring(scopes)) <=
           Cardinality(Tabled(s.scopes)) + Cardinality(Referring(s.scopes)) + 1,
         NEW t, t = Published(s, j, scope)
  PROVE  t \in Identities /\ Good(ph, frames, t) /\ (Clean(s) => Clean(t))
<1>1. PICK n \in Nat : n = Len(s.scopes) /\ DOMAIN s.scopes = 1..n
  BY Parts
<1>2. s.scopes \in Seq(Scopes) /\ s.entries \in Nat /\ s.ids \in SUBSET Values
  BY Parts
<1>3. /\ scopes \in Seq(Scopes) /\ Len(scopes) = n
      /\ \A k \in 1..n : scopes[k] = IF k = j THEN scope ELSE s.scopes[k]
  BY <1>1, <1>2 DEF Replaced
<1>4. PICK entries \in Nat : entries = s.entries + 1
  BY <1>2
<1>5. /\ t \in Identities /\ t.scopes = scopes /\ t.ids = s.ids /\ t.selections = s.selections
      /\ t.entries = entries /\ t.nextNode = s.nextNode /\ t.fieldValues = s.fieldValues
  <2>1. t = [s EXCEPT !.scopes = scopes, !.entries = entries]
    BY <1>4 DEF Published, Replaced, Identities
  <2>2. QED
    BY <1>3, <1>4, <2>1 DEF Identities
<1>6. \A k \in 1..n : /\ scopes[k].depth = s.scopes[k].depth
                      /\ scopes[k].constraints = s.scopes[k].constraints
                      /\ scopes[k].invalid = s.scopes[k].invalid
  BY <1>3
<1>7. Stacks(ph, frames, t)
  <2>1. Nested(ph, frames, t)
    <3>1. Nested(ph, frames, s)
      BY DEF Good, Stacks
    <3>2. /\ Len(t.scopes) = n /\ Len(s.scopes) = n
          /\ \A k \in 1..n : t.scopes[k].depth = s.scopes[k].depth
      BY <1>1, <1>3, <1>5, <1>6
    <3>3. QED
      BY ONLY <3>1, <3>2 DEF Nested
  <2>2. \A x : IsSelection(frames, s, x) => IsSelection(frames, t, x)
    BY <1>1, <1>3, <1>5, <1>6 DEF IsSelection
  <2>3. Ordered(frames, t)
    BY <1>5, <2>2 DEF Good, Stacks, Ordered
  <2>4. Dense(ph, frames, t)
    BY <1>5 DEF Good, Stacks, Dense, EndOf
  <2>5. QED
    BY <2>1, <2>3, <2>4 DEF Stacks
<1>8. Counted(t)
  <2>1. /\ IsFiniteSet(Tabled(s.scopes)) /\ IsFiniteSet(Referring(s.scopes)) /\ IsFiniteSet(s.ids)
        /\ Cardinality(Tabled(s.scopes)) + Cardinality(Referring(s.scopes)) + Cardinality(s.ids)
             <= s.entries
    BY DEF Good, Counted
  <2>2. /\ Cardinality(Tabled(s.scopes)) \in Nat /\ Cardinality(Referring(s.scopes)) \in Nat
        /\ Cardinality(s.ids) \in Nat
        /\ Cardinality(Tabled(scopes)) \in Nat /\ Cardinality(Referring(scopes)) \in Nat
    BY <2>1, FS_CardinalityType
  <2>3. Cardinality(Tabled(scopes)) + Cardinality(Referring(scopes)) + Cardinality(s.ids) <= entries
    <3>1. Cardinality(Tabled(scopes)) + Cardinality(Referring(scopes)) <=
            Cardinality(Tabled(s.scopes)) + Cardinality(Referring(s.scopes)) + 1
      OBVIOUS
    <3>2. s.entries \in Nat /\ entries = s.entries + 1
      BY <1>2, <1>4
    <3>3. PICK a \in Nat, b \in Nat, c \in Nat, d \in Nat, e \in Nat :
            /\ a = Cardinality(Tabled(scopes)) /\ b = Cardinality(Referring(scopes))
            /\ c = Cardinality(Tabled(s.scopes)) /\ d = Cardinality(Referring(s.scopes))
            /\ e = Cardinality(s.ids)
      BY <2>2, Zenon
    <3>4. a + b <= c + d + 1 /\ c + d + e <= s.entries
      BY ONLY <2>1, <3>1, <3>3
    <3>5. a + b + e <= entries
      BY ONLY <3>2, <3>4, a \in Nat, b \in Nat, c \in Nat, d \in Nat, e \in Nat
    <3>6. QED
      BY ONLY <3>3, <3>5
  <2>4. QED
    BY <1>5, <2>1, <2>3 DEF Counted
<1>9. Limited(frames, t)
  <2>1. MaxEntries[frames[1].name] \in Nat
    <3>1. 1 \in 1..Len(frames)
      OBVIOUS
    <3>2. frames[1] \in Frames
      BY <3>1
    <3>3. QED
      BY <3>2, LimitAssumption DEF Frames
  <2>2. entries <= MaxEntries[frames[1].name]
    BY <1>2, <1>4, <2>1
  <2>3. QED
    BY <1>1, <1>3, <1>5, <2>2 DEF Good, Limited
<1>10. Rests(ph, frames, t)
  BY <1>5 DEF Good, Rests
<1>11. Clean(s) => Clean(t)
  BY <1>1, <1>3, <1>5, <1>6 DEF Clean
<1>12. QED
  BY <1>5, <1>7, <1>8, <1>9, <1>10, <1>11 DEF Good

(* A part of a sequence.                                                   *)
LEMMA Slice ==
  ASSUME NEW T, NEW q \in Seq(T), NEW a \in Nat, NEW b \in Nat, a + b <= Len(q)
  PROVE  /\ SubSeq(q, a + 1, a + b) \in Seq(T) /\ Len(SubSeq(q, a + 1, a + b)) = b
         /\ \A k \in 1..b : SubSeq(q, a + 1, a + b)[k] = q[a + k]
<1>1. \A k \in a + 1 .. a + b : q[k] \in T
  OBVIOUS
<1>2. PICK m \in Int, n \in Int : m = a + 1 /\ n = a + b
  OBVIOUS
<1>3. PICK slice : slice = SubSeq(q, m, n)
  OBVIOUS
<1>4. /\ slice \in Seq(T) /\ Len(slice) = (IF m <= n THEN n - m + 1 ELSE 0)
      /\ \A k \in 1..n - m + 1 : slice[k] = q[m + k - 1]
  BY <1>1, <1>2, <1>3, SubSeqProperties
<1>5. n - m + 1 = b /\ Len(slice) = b
  BY <1>2, <1>4
<1>6. \A k \in 1..b : m + k - 1 = a + k
  BY <1>2
<1>7. QED
  BY <1>2, <1>3, <1>4, <1>5, <1>6

(* The tuple of a selection is a sequence of data.                         *)
LEMMA TupleIs ==
  ASSUME identity \in Identities, NEW x \in Selections, End(x) <= Len(identity.fieldValues)
  PROVE  Tuple(x) \in Seq(Data)
<1>1. PICK q \in Seq(FieldValues) : q = identity.fieldValues
  BY Parts
<1>2. PICK a \in Nat, b \in Nat : a = x.fieldStart /\ b = x.fieldLen /\ a + b <= Len(q)
  BY <1>1 DEF Selections, End
<1>3. PICK fields : fields = SubSeq(q, a + 1, a + b)
  OBVIOUS
<1>4. fields \in Seq(FieldValues)
  BY <1>2, <1>3, Slice
<1>5. PICK n \in Nat : n = Len(fields) /\ DOMAIN fields = 1..n
  BY <1>4
<1>6. \A k \in 1..n : fields[k] \in FieldValues
  BY <1>4, <1>5
<1>7. \A k \in 1..n : fields[k].value \in Data
  BY <1>6 DEF FieldValues
<1>8. PICK tuple : tuple = [k \in 1..n |-> fields[k].value]
  OBVIOUS
<1>9. tuple \in Seq(Data)
  BY <1>7, <1>8, MappedSeq
<1>10. Tuple(x) = tuple
  <2>1. FieldsOf(x) = fields
    BY <1>1, <1>2, <1>3 DEF FieldsOf
  <2>2. QED
    BY <1>5, <1>8, <2>1 DEF Tuple
<1>11. QED
  BY <1>9, <1>10

(* A table with one tuple more.                                            *)
WithTuple(table, tuple, entry) ==
  [k \in DOMAIN table \union {tuple} |-> IF k \in DOMAIN table THEN table[k] ELSE entry]

(* A tuple is added to a table, unless it is there.                        *)
LEMMA TableExtended ==
  ASSUME NEW table \in Tables, NEW tuple \in Seq(Data), NEW entry \in Entries,
         NEW new, new = WithTuple(table, tuple, entry)
  PROVE  new \in Tables /\ DOMAIN new = DOMAIN table \union {tuple}
<1>1. PICK keys \in SUBSET Seq(Data) : table \in [keys -> Entries]
  BY DEF Tables
<1>2. keys \union {tuple} \in SUBSET Seq(Data)
  OBVIOUS
<1>3. new \in [keys \union {tuple} -> Entries]
  BY <1>1 DEF WithTuple
<1>4. QED
  BY <1>1, <1>2, <1>3 DEF Tables

(* The tuples of scopes, one of which has one more.                        *)
OneMoreTuple(n, a, b, j, c, key) ==
  \A i \in 1..n, d \in Constraints :
    DOMAIN b[i].tables[d] =
      IF i = j /\ d = c THEN DOMAIN a[i].tables[d] \union {key} ELSE DOMAIN a[i].tables[d]

(* One more tuple is held then, or the same.                               *)
LEMMA TabledExtended ==
  ASSUME NEW n \in Nat, NEW a, DOMAIN a = 1..n, NEW b, DOMAIN b = 1..n, NEW j \in 1..n,
         NEW c \in Constraints, NEW key, OneMoreTuple(n, a, b, j, c, key)
  PROVE  Tabled(b) = Tabled(a) \union {<<j, c, key>>}
<1> DEFINE Held(list, i, d) == {<<i, d, k>> : k \in DOMAIN list[i].tables[d]}
<1>1. /\ Tabled(a) = UNION {Held(a, i, d) : i \in 1..n, d \in Constraints}
      /\ Tabled(b) = UNION {Held(b, i, d) : i \in 1..n, d \in Constraints}
  BY DEF Tabled
<1>2. \A i \in 1..n, d \in Constraints :
        Held(b, i, d) = IF i = j /\ d = c THEN Held(a, i, d) \union {<<j, c, key>>} ELSE Held(a, i, d)
  <2>1. \A i \in 1..n, d \in Constraints : (i # j \/ d # c) => Held(b, i, d) = Held(a, i, d)
    BY DEF OneMoreTuple
  <2>2. DOMAIN b[j].tables[c] = DOMAIN a[j].tables[c] \union {key}
    BY DEF OneMoreTuple
  <2>3. Held(b, j, c) = Held(a, j, c) \union {<<j, c, key>>}
    BY <2>2
  <2> HIDE DEF Held
  <2>4. QED
    BY <2>1, <2>3
<1> HIDE DEF Held
<1>3. QED
  BY <1>1, <1>2

OneMoreReference(n, a, b, j, key) ==
  \A i \in 1..n :
    DOMAIN b[i].refs = IF i = j THEN DOMAIN a[i].refs \union {key} ELSE DOMAIN a[i].refs

(* One more reference is held, or the same.                                *)
LEMMA ReferringExtended ==
  ASSUME NEW n \in Nat, NEW a, DOMAIN a = 1..n, NEW b, DOMAIN b = 1..n, NEW j \in 1..n, NEW key,
         OneMoreReference(n, a, b, j, key)
  PROVE  Referring(b) = Referring(a) \union {<<j, key>>}
<1>1. ASSUME NEW e
      PROVE  e \in Referring(b) <=> e \in Referring(a) \/ e = <<j, key>>
  <2>1. ASSUME NEW list, DOMAIN list = 1..n
        PROVE  e \in Referring(list) <=> \E i \in 1..n : \E k \in DOMAIN list[i].refs : e = <<i, k>>
    BY <2>1 DEF Referring
  <2>2. e \in Referring(a) <=> \E i \in 1..n : \E k \in DOMAIN a[i].refs : e = <<i, k>>
    BY <2>1
  <2>3. e \in Referring(b) <=> \E i \in 1..n : \E k \in DOMAIN b[i].refs : e = <<i, k>>
    BY <2>1
  <2>4. QED
    BY <2>2, <2>3 DEF OneMoreReference
<1>2. QED
  BY <1>1

(* Scopes hold one thing more.                                             *)
OneMore(a, b) ==
  \/ (\E e : Tabled(b) = Tabled(a) \union {e}) /\ Referring(b) = Referring(a)
  \/ Tabled(b) = Tabled(a) /\ (\E e : Referring(b) = Referring(a) \union {e})

(* What a selection publishes is good.                                     *)
LEMMA PublishStep ==
  ASSUME IInv, NEW i \in DOMAIN identity.selections, Finish(i),
         NEW s, s = Dropped(i), NEW j, j = identity.selections[i].scope, NEW scope \in Scopes,
         scope.depth = s.scopes[j].depth, scope.constraints = s.scopes[j].constraints,
         scope.invalid = s.scopes[j].invalid,
         NEW scopes, scopes = Replaced(s, j, scope),
         OneMore(s.scopes, scopes), NEW t, t = Published(s, j, scope),
         HasRoom => Continue(<<>>, phase, frames, t), ~HasRoom => Fatal
  PROVE  IInv'
<1>1. /\ i \in 1..Len(identity.selections) /\ identity.selections[i].depth = Depth
      /\ IsSelection(frames, identity, identity.selections[i])
      /\ phase \in {"owned", "elsewhere"} /\ phase \in Phases /\ frames # <<>>
      /\ identity \in Identities /\ Good(phase, frames, identity)
      /\ frames \in Seq(Frames) /\ errors \in Seq(Reports) /\ tree' \in Seq(Elements)
  BY FinishFacts
<1>2. CASE ~HasRoom
  BY <1>1, <1>2, FatalStep
<1>3. CASE HasRoom
  <2>1. /\ s \in Identities /\ Good(phase, frames, s) /\ s.scopes = identity.scopes
        /\ s.entries = identity.entries /\ (Clean(identity) => Clean(s))
    BY <1>1, DroppedGood
  <2>2. j \in 1..Len(s.scopes)
    BY <1>1, <2>1 DEF IsSelection
  <2>3. s.entries < MaxEntries[frames[1].name]
    BY <1>3, <2>1 DEF HasRoom
  <2>4. PICK a, b, c, d : /\ a = Tabled(s.scopes) /\ b = Referring(s.scopes)
                          /\ c = Tabled(scopes) /\ d = Referring(scopes)
    OBVIOUS
  <2>5. IsFiniteSet(a) /\ IsFiniteSet(b)
    BY <2>1, <2>4 DEF Good, Counted
  <2>6. Cardinality(a) \in Nat /\ Cardinality(b) \in Nat
    BY <2>5, FS_CardinalityType
  <2>7. \/ (\E e : c = a \union {e}) /\ d = b
        \/ c = a /\ (\E e : d = b \union {e})
    BY <2>4 DEF OneMore
  <2>8. /\ IsFiniteSet(c) /\ IsFiniteSet(d)
        /\ Cardinality(c) + Cardinality(d) <= Cardinality(a) + Cardinality(b) + 1
    <3>1. CASE (\E e : c = a \union {e}) /\ d = b
      <4>1. PICK e : c = a \union {e}
        BY <3>1
      <4>2. IsFiniteSet(c) /\ Cardinality(c) = IF e \in a THEN Cardinality(a) ELSE Cardinality(a) + 1
        BY <2>5, <4>1, FS_AddElement
      <4>3. QED
        BY <2>5, <2>6, <3>1, <4>2
    <3>2. CASE c = a /\ (\E e : d = b \union {e})
      <4>1. PICK e : d = b \union {e}
        BY <3>2
      <4>2. IsFiniteSet(d) /\ Cardinality(d) = IF e \in b THEN Cardinality(b) ELSE Cardinality(b) + 1
        BY <2>5, <4>1, FS_AddElement
      <4>3. QED
        BY <2>5, <2>6, <3>2, <4>2
    <3>3. QED
      BY <2>7, <3>1, <3>2
  <2>9. t \in Identities /\ Good(phase, frames, t) /\ (Clean(s) => Clean(t))
    <3>1. /\ IsFiniteSet(Tabled(scopes)) /\ IsFiniteSet(Referring(scopes))
          /\ Cardinality(Tabled(scopes)) + Cardinality(Referring(scopes)) <=
               Cardinality(Tabled(s.scopes)) + Cardinality(Referring(s.scopes)) + 1
      BY <2>4, <2>8, Zenon
    <3>2. QED
      BY <1>1, <2>1, <2>2, <2>3, <3>1, PublishedGood
  <2>10. errors = <<>> => Silent(frames, t)
    BY <2>1, <2>9 DEF IInv, Silent
  <2>11. PICK none \in Seq(Reports) : none = <<>>
    <3>1. <<>> \in Seq(Reports)
      OBVIOUS
    <3>2. QED
      BY ONLY <3>1
  <2>12. Continue(none, phase, frames, t)
    BY <1>3, <2>11
  <2>13. QED
    BY <1>1, <2>9, <2>10, <2>12, Continued
<1>4. QED
  BY <1>2, <1>3

(* What a selection publishes, and where.                                  *)
LEMMA PublishFacts ==
  ASSUME IInv, NEW i \in DOMAIN identity.selections, Finish(i),
         NEW s, s = Dropped(i), NEW x, x = identity.selections[i]
  PROVE  /\ s \in Identities /\ s.scopes = identity.scopes
         /\ x.scope \in 1..Len(s.scopes) /\ DOMAIN s.scopes = 1..Len(s.scopes)
         /\ Len(s.scopes) \in Nat
         /\ \A k \in 1..Len(s.scopes) : s.scopes[k] \in Scopes
         /\ x.constraint \in Constraints /\ Tuple(x) \in Seq(Data)
         /\ x.element \in Nat /\ x.node \in Nat
<1>1. /\ i \in 1..Len(identity.selections) /\ identity.selections[i].depth = Depth
      /\ x \in Selections /\ IsSelection(frames, identity, x)
      /\ phase \in {"owned", "elsewhere"}
      /\ identity \in Identities /\ Good(phase, frames, identity) /\ frames \in Seq(Frames)
  BY FinishFacts
<1>2. s \in Identities /\ s.scopes = identity.scopes
  BY <1>1, DroppedGood
<1>3. x.scope \in 1..Len(s.scopes) /\ End(x) <= Len(identity.fieldValues)
  BY <1>1, <1>2 DEF IsSelection
<1>4. Tuple(x) \in Seq(Data)
  BY <1>1, <1>3, TupleIs
<1>5. QED
  BY <1>1, <1>2, <1>3, <1>4, Parts DEF Selections

(* A qualified selection of a key or unique constraint finishes: counted,  *)
(* published, or reported as a duplicate.                                  *)
LEMMA FinishKeyStep ==
  ASSUME IInv, NEW i \in DOMAIN identity.selections, FinishKey(i)
  PROVE  IInv'
<1>1. Finish(i)
  BY DEF FinishKey
<1>2. PICK s : s = Dropped(i)
  OBVIOUS
<1>3. PICK x : x = identity.selections[i]
  OBVIOUS
<1>4. PICK j, c, tuple : j = x.scope /\ c = x.constraint /\ tuple = Tuple(x)
  OBVIOUS
<1>5. /\ s \in Identities /\ s.scopes = identity.scopes
      /\ j \in 1..Len(s.scopes) /\ DOMAIN s.scopes = 1..Len(s.scopes) /\ Len(s.scopes) \in Nat
      /\ \A k \in 1..Len(s.scopes) : s.scopes[k] \in Scopes
      /\ c \in Constraints /\ tuple \in Seq(Data) /\ x.element \in Nat /\ x.node \in Nat
  BY <1>1, <1>2, <1>3, <1>4, PublishFacts
<1>6. PICK entry \in Entries : entry = [element |-> x.element, node |-> x.node, conflict |-> FALSE]
  BY <1>5 DEF Entries
<1>7. PICK table : table = s.scopes[j].tables[c]
  OBVIOUS
<1>8. table \in Tables
  BY <1>5, <1>7 DEF Scopes
<1>9. CASE tuple \in DOMAIN table
  <2>1. FinishWithError(i, "duplicate")
    BY <1>3, <1>4, <1>5, <1>7, <1>9 DEF FinishKey, TableOf, Owner
  <2>2. "duplicate" \in ReportCodes
    BY DEF ReportCodes
  <2>3. QED
    BY <1>1, <2>1, <2>2, ErrorStep
<1>10. CASE tuple \notin DOMAIN table
  <2>1. PICK new : new = WithTuple(table, tuple, entry)
    OBVIOUS
  <2>2. new \in Tables /\ DOMAIN new = DOMAIN table \union {tuple}
    BY <1>5, <1>8, <2>1, TableExtended
  <2>3. PICK scope : scope = [s.scopes[j] EXCEPT !.tables[c] = new]
    OBVIOUS
  <2>4. /\ scope \in Scopes
        /\ scope.depth = s.scopes[j].depth /\ scope.constraints = s.scopes[j].constraints
        /\ scope.invalid = s.scopes[j].invalid /\ scope.refs = s.scopes[j].refs
        /\ scope.tables = [s.scopes[j].tables EXCEPT ![c] = new]
    BY <1>5, <2>2, <2>3 DEF Scopes
  <2>5. PICK scopes : scopes = Replaced(s, j, scope)
    OBVIOUS
  <2>6. /\ DOMAIN scopes = 1..Len(s.scopes)
        /\ \A k \in 1..Len(s.scopes) : scopes[k] = IF k = j THEN scope ELSE s.scopes[k]
    BY <1>5, <2>5 DEF Replaced
  <2>7. \E e : Tabled(scopes) = Tabled(s.scopes) \union {e}
    <3>1. OneMoreTuple(Len(s.scopes), s.scopes, scopes, j, c, tuple)
      <4>1. s.scopes[j].tables \in [Constraints -> Tables]
        BY <1>5 DEF Scopes
      <4>2. QED
        BY <1>7, <2>2, <2>4, <2>6, <4>1 DEF OneMoreTuple
    <3>2. Tabled(scopes) = Tabled(s.scopes) \union {<<j, c, tuple>>}
      BY <1>5, <2>6, <3>1, TabledExtended
    <3>3. QED
      BY <3>2
  <2>8. Referring(scopes) = Referring(s.scopes)
    BY <1>5, <2>4, <2>6 DEF Referring
  <2>9. PICK t : t = Published(s, j, scope)
    OBVIOUS
  <2>10. Publish([Dropped(i) EXCEPT !.scopes[j].tables[c] =
                    [k \in DOMAIN @ \union {tuple} |-> IF k \in DOMAIN @ THEN @[k] ELSE entry]])
    BY <1>3, <1>4, <1>5, <1>6, <1>7, <1>10 DEF FinishKey, TableOf, Owner
  <2>11. PICK p : p = [s EXCEPT !.scopes[j].tables[c] =
                    [k \in DOMAIN @ \union {tuple} |-> IF k \in DOMAIN @ THEN @[k] ELSE entry]]
    OBVIOUS
  <2>12. p = [s EXCEPT !.scopes = scopes]
    BY <1>5, <1>7, <2>1, <2>3, <2>5, <2>11 DEF WithTuple, Replaced, Scopes, Identities
  <2>13. [p EXCEPT !.entries = @ + 1] = t
    BY <1>5, <2>5, <2>9, <2>12 DEF Published, Replaced, Identities
  <2>14. (HasRoom => Continue(<<>>, phase, frames, t)) /\ (~HasRoom => Fatal)
    BY <1>2, <2>10, <2>11, <2>13 DEF Publish
  <2>15. OneMore(s.scopes, scopes)
    BY <2>7, <2>8 DEF OneMore
  <2>16. QED
    BY <1>1, <1>2, <1>3, <1>4, <2>4, <2>5, <2>9, <2>14, <2>15, PublishStep
<1>11. QED
  BY <1>9, <1>10

(* A qualified selection of a keyref finishes: counted and kept.           *)
LEMMA FinishRefStep ==
  ASSUME IInv, NEW i \in DOMAIN identity.selections, FinishRef(i)
  PROVE  IInv'
<1>1. Finish(i)
  BY DEF FinishRef
<1>2. PICK s : s = Dropped(i)
  OBVIOUS
<1>3. PICK x : x = identity.selections[i]
  OBVIOUS
<1>4. PICK j, c, tuple : j = x.scope /\ c = x.constraint /\ tuple = Tuple(x)
  OBVIOUS
<1>5. /\ s \in Identities /\ s.scopes = identity.scopes
      /\ j \in 1..Len(s.scopes) /\ DOMAIN s.scopes = 1..Len(s.scopes) /\ Len(s.scopes) \in Nat
      /\ \A k \in 1..Len(s.scopes) : s.scopes[k] \in Scopes
      /\ c \in Constraints /\ tuple \in Seq(Data) /\ x.element \in Nat
  BY <1>1, <1>2, <1>3, <1>4, PublishFacts
<1>6. PICK ref \in References : ref = [key |-> tuple, refer |-> Refer[c], element |-> x.element]
  BY <1>5 DEF References
<1>7. PICK refs \in Seq(References), n \in Nat : refs = s.scopes[j].refs /\ n = Len(refs)
  BY <1>5 DEF Scopes
<1>8. PICK new : new = Append(refs, ref)
  OBVIOUS
<1>9. new \in Seq(References) /\ DOMAIN new = DOMAIN refs \union {n + 1}
  <2>1. new \in Seq(References) /\ Len(new) = n + 1
    BY ONLY <1>7, <1>8, refs \in Seq(References), ref \in References, n \in Nat, Longer
  <2>2. DOMAIN new = 1..n + 1 /\ DOMAIN refs = 1..n
    BY <1>7, <2>1
  <2>3. QED
    BY <2>1, <2>2
<1>10. PICK scope : scope = [s.scopes[j] EXCEPT !.refs = new]
  OBVIOUS
<1>11. /\ scope \in Scopes
       /\ scope.depth = s.scopes[j].depth /\ scope.constraints = s.scopes[j].constraints
       /\ scope.invalid = s.scopes[j].invalid /\ scope.refs = new
       /\ scope.tables = s.scopes[j].tables
  BY <1>5, <1>9, <1>10 DEF Scopes
<1>12. PICK scopes : scopes = Replaced(s, j, scope)
  OBVIOUS
<1>13. /\ DOMAIN scopes = 1..Len(s.scopes)
       /\ \A k \in 1..Len(s.scopes) : scopes[k] = IF k = j THEN scope ELSE s.scopes[k]
  BY <1>5, <1>12 DEF Replaced
<1>14. Tabled(scopes) = Tabled(s.scopes)
  <2>1. \A k \in 1..Len(s.scopes) : scopes[k].tables = s.scopes[k].tables
    BY <1>11, <1>13
  <2>2. QED
    BY <1>5, <1>13, <2>1, SameTuples
<1>15. \E e : Referring(scopes) = Referring(s.scopes) \union {e}
  <2>1. OneMoreReference(Len(s.scopes), s.scopes, scopes, j, n + 1)
    BY <1>7, <1>9, <1>11, <1>13 DEF OneMoreReference
  <2>2. Referring(scopes) = Referring(s.scopes) \union {<<j, n + 1>>}
    BY <1>5, <1>13, <2>1, ReferringExtended
  <2>3. QED
    BY <2>2
<1>16. PICK t : t = Published(s, j, scope)
  OBVIOUS
<1>17. Publish([Dropped(i) EXCEPT !.scopes[j].refs = Append(@, ref)])
  BY <1>3, <1>4, <1>6 DEF FinishRef
<1>18. PICK p : p = [s EXCEPT !.scopes[j].refs = Append(@, ref)]
  OBVIOUS
<1>19. p = [s EXCEPT !.scopes = scopes]
  BY <1>5, <1>7, <1>8, <1>10, <1>12, <1>18 DEF Replaced, Scopes, Identities
<1>20. [p EXCEPT !.entries = @ + 1] = t
  BY <1>5, <1>12, <1>16, <1>19 DEF Published, Replaced, Identities
<1>21. (HasRoom => Continue(<<>>, phase, frames, t)) /\ (~HasRoom => Fatal)
  BY <1>2, <1>17, <1>18, <1>20 DEF Publish
<1>22. OneMore(s.scopes, scopes)
  BY <1>14, <1>15 DEF OneMore
<1>23. QED
  BY <1>1, <1>2, <1>3, <1>4, <1>11, <1>12, <1>16, <1>21, <1>22, PublishStep

-----------------------------------------------------------------------------
(* Truncation, scopes and frames.                                          *)

(* Slices end one after the other, within the field values.                *)
LEMMA EndsGrow ==
  ASSUME NEW open, NEW s \in Identities, Ordered(open, s),
         NEW n \in Nat, n = Len(s.selections)
  PROVE  /\ EndOf(s, n) \in Nat /\ EndOf(s, n) <= Len(s.fieldValues)
         /\ \A i \in 1..n : End(s.selections[i]) \in Nat /\ End(s.selections[i]) <= EndOf(s, n)
<1>1. \A i \in 1..n : /\ s.selections[i] \in Selections
                      /\ s.selections[i].fieldStart \in Nat /\ s.selections[i].fieldLen \in Nat
  BY Parts DEF Selections
<1>2. \A i \in 1..n : End(s.selections[i]) \in Nat /\ s.selections[i].fieldStart <= End(s.selections[i])
  BY <1>1 DEF End
<1>3. \A i \in 1..n : End(s.selections[i]) <= Len(s.fieldValues)
  BY DEF Ordered, IsSelection
<1>4. Len(s.fieldValues) \in Nat
  BY Parts
<1>5. CASE n = 0
  BY <1>4, <1>5 DEF EndOf
<1>6. CASE n # 0
  <2>1. n \in 1..n /\ EndOf(s, n) = End(s.selections[n])
    BY <1>6 DEF EndOf
  <2>2. ASSUME NEW i \in 1..n, i # n
        PROVE  End(s.selections[i]) <= End(s.selections[n])
    <3>1. i < n
      BY <2>2
    <3>2. End(s.selections[i]) <= s.selections[n].fieldStart
      BY <2>1, <3>1 DEF Ordered, Precedes
    <3>3. QED
      BY <1>1, <1>2, <2>1, <3>2
  <2>3. QED
    BY <1>2, <1>3, <2>1, <2>2
<1>7. QED
  BY <1>5, <1>6

(* What no selection refers to is cut off.                                 *)
LEMMA TruncatedIs ==
  ASSUME NEW open, NEW s \in Identities, Ordered(open, s), NEW t, t = Truncated(s)
  PROVE  /\ t \in Identities
         /\ t.scopes = s.scopes /\ t.selections = s.selections /\ t.ids = s.ids
         /\ t.entries = s.entries /\ t.nextNode = s.nextNode
         /\ Len(t.fieldValues) = EndOf(s, Len(s.selections))
         /\ EndOf(s, Len(s.selections)) <= Len(s.fieldValues)
         /\ \A k \in 1..Len(t.fieldValues) : t.fieldValues[k] = s.fieldValues[k]
<1>1. PICK n \in Nat : n = Len(s.selections) /\ DOMAIN s.selections = 1..n
  BY Parts
<1>2. PICK last \in Nat : last = EndOf(s, n)
  BY <1>1, EndsGrow
<1>3. /\ last <= Len(s.fieldValues)
      /\ \A i \in 1..n : End(s.selections[i]) \in Nat /\ End(s.selections[i]) <= last
  BY <1>1, <1>2, EndsGrow
<1>4. PICK ends : ends = {s.selections[i].fieldStart + s.selections[i].fieldLen : i \in DOMAIN s.selections}
  OBVIOUS
<1>5. ends = {End(s.selections[i]) : i \in 1..n}
  BY <1>1, <1>4 DEF End
<1>6. last \in ends \union {0} /\ (ends # {} => last \in ends)
  BY <1>2, <1>5 DEF EndOf
<1>7. \A m \in ends : m \in Nat /\ m <= last
  BY <1>3, <1>5
<1>8. PICK most : most = CHOOSE k \in ends \union {0} : \A m \in ends : m <= k
  OBVIOUS
<1>9. most \in ends \union {0} /\ \A m \in ends : m <= most
  BY <1>6, <1>7, <1>8
<1>10. most = last
  <2>1. CASE ends = {}
    BY <1>6, <1>9, <2>1
  <2>2. CASE ends # {}
    <3>1. last <= most
      BY <1>6, <1>9, <2>2
    <3>2. most \in Nat /\ most <= last
      BY <1>7, <1>9
    <3>3. QED
      BY <3>1, <3>2
  <2>3. QED
    BY <2>1, <2>2
<1>11. PICK fields : fields = SubSeq(s.fieldValues, 1, last)
  OBVIOUS
<1>12. /\ fields \in Seq(FieldValues) /\ Len(fields) = last
       /\ \A k \in 1..last : fields[k] = s.fieldValues[k]
  <2>1. s.fieldValues \in Seq(FieldValues) /\ 0 \in Nat /\ 0 + last = last /\ 0 + 1 = 1
    BY Parts
  <2>2. \A k \in 1..last : 0 + k = k
    OBVIOUS
  <2>3. /\ SubSeq(s.fieldValues, 0 + 1, 0 + last) \in Seq(FieldValues)
        /\ Len(SubSeq(s.fieldValues, 0 + 1, 0 + last)) = last
        /\ \A k \in 1..last : SubSeq(s.fieldValues, 0 + 1, 0 + last)[k] = s.fieldValues[0 + k]
    BY <1>3, <2>1, Slice
  <2>4. QED
    BY <1>11, <2>1, <2>2, <2>3
<1>13. t = [s EXCEPT !.fieldValues = fields]
  BY <1>4, <1>8, <1>10, <1>11 DEF Truncated
<1>14. QED
  BY <1>1, <1>2, <1>3, <1>12, <1>13 DEF Identities

(* The invariant does not see what is cut off of an ending element.        *)
LEMMA TruncatedGood ==
  ASSUME NEW ph \in {"owned", "elsewhere"}, NEW open, NEW s \in Identities, Good(ph, open, s),
         NEW t, t = Truncated(s)
  PROVE  t \in Identities /\ Good(ph, open, t) /\ (Clean(s) => Clean(t))
<1>1. Ordered(open, s)
  BY DEF Good, Stacks
<1>2. /\ t \in Identities
      /\ t.scopes = s.scopes /\ t.selections = s.selections /\ t.ids = s.ids
      /\ t.entries = s.entries /\ t.nextNode = s.nextNode
      /\ Len(t.fieldValues) = EndOf(s, Len(s.selections))
      /\ EndOf(s, Len(s.selections)) <= Len(s.fieldValues)
      /\ \A k \in 1..Len(t.fieldValues) : t.fieldValues[k] = s.fieldValues[k]
  BY <1>1, TruncatedIs
<1>3. Nested(ph, open, t)
  BY <1>2 DEF Good, Stacks, Nested
<1>4. Ordered(open, t)
  <2>1. PICK n \in Nat : n = Len(s.selections)
    BY Parts
  <2>2. \A i \in 1..n : End(s.selections[i]) <= Len(t.fieldValues)
    BY <1>1, <1>2, <2>1, EndsGrow
  <2>3. \A i \in 1..n : IsSelection(open, s, s.selections[i])
    BY <1>1, <2>1 DEF Ordered
  <2>4. \A i \in 1..n : IsSelection(open, t, s.selections[i])
    BY <1>2, <2>2, <2>3 DEF IsSelection
  <2>5. QED
    BY <1>1, <1>2, <2>1, <2>4 DEF Ordered
<1>5. Dense(ph, open, t)
  BY <1>2 DEF Good, Stacks, Dense, EndOf
<1>6. Counted(t) /\ Limited(open, t)
  BY <1>2 DEF Good, Counted, Limited
<1>7. Rests(ph, open, t)
  BY DEF Good, Rests
<1>8. Clean(s) => Clean(t)
  <2>1. Len(t.fieldValues) \in Nat /\ Len(s.fieldValues) \in Nat
    BY <1>2, Parts
  <2>2. \A k \in 1..Len(t.fieldValues) : k \in 1..Len(s.fieldValues)
    BY <1>2, <2>1
  <2>3. QED
    BY <1>2, <2>2 DEF Clean
<1>9. QED
  BY <1>2, <1>3, <1>4, <1>5, <1>6, <1>7, <1>8 DEF Good, Stacks

(* What ends is known, and what is kept of it.                             *)
LEMMA EndFacts ==
  ASSUME IInv, phase \in {"owned", "elsewhere"}
  PROVE  /\ identity \in Identities /\ Good(phase, frames, identity)
         /\ frames \in Seq(Frames) /\ frames # <<>> /\ errors \in Seq(Reports)
         /\ tree \in Seq(Elements)
         /\ Depth = Len(frames) /\ Depth \in Nat /\ Depth # 0
<1>1. /\ identity \in Identities /\ Good(phase, frames, identity) /\ errors \in Seq(Reports)
      /\ frames \in Seq(Frames) /\ tree \in Seq(Elements)
  BY DEF IInv, TypeOK
<1>2. frames # <<>>
  BY <1>1 DEF Good, Rests
<1>3. QED
  BY <1>1, <1>2 DEF Depth

(* No scope is left of the element that is ending.                         *)
LEMMA NotOwned ==
  ASSUME IInv, phase = "owned", ~OwnScope
  PROVE  \A i \in 1..Len(identity.scopes) : identity.scopes[i].depth \in 1..Depth - 1
<1>1. /\ identity \in Identities /\ Good(phase, frames, identity)
      /\ frames \in Seq(Frames) /\ Depth = Len(frames) /\ Depth \in Nat
  BY EndFacts
<1>2. PICK n \in Nat : n = Len(identity.scopes)
  BY <1>1, Parts
<1>3. /\ \A i, j \in 1..n : i < j => identity.scopes[i].depth < identity.scopes[j].depth
      /\ \A i \in 1..n : identity.scopes[i].depth \in 1..Depth
  BY <1>1, <1>2 DEF Good, Stacks, Nested, Scoped
<1>4. ASSUME NEW i \in 1..n
      PROVE  identity.scopes[i].depth # Depth
  <2>1. n \in 1..n /\ identity.scopes # <<>> /\ Last(identity.scopes) = identity.scopes[n]
    <3>1. identity.scopes \in Seq(Scopes)
      BY <1>1, Parts
    <3>2. QED
      BY <1>2, <3>1 DEF Last
  <2>2. identity.scopes[n].depth # Depth
    BY <2>1 DEF OwnScope
  <2>3. CASE i = n
    BY <2>2, <2>3
  <2>4. CASE i # n
    <3>1. identity.scopes[i].depth < identity.scopes[n].depth
      BY <1>3, <2>1, <2>4
    <3>2. identity.scopes[i].depth \in 1..Depth /\ identity.scopes[n].depth \in 1..Depth
      BY <1>3, <2>1
    <3>3. QED
      BY <1>1, <3>1, <3>2
  <2>5. QED
    BY <2>3, <2>4
<1>5. QED
  BY <1>1, <1>2, <1>3, <1>4

(* Without a scope of its own, the element goes on ending.                 *)
LEMMA ElsewhereGood ==
  ASSUME NEW open \in Seq(Frames), NEW s, Good("owned", open, s),
         \A i \in 1..Len(s.scopes) : s.scopes[i].depth \in 1..Len(open) - 1
  PROVE  Good("elsewhere", open, s)
<1>1. Nested("elsewhere", open, s)
  <2>1. Nested("owned", open, s)
    BY DEF Good, Stacks
  <2>2. \A d : Scoped("elsewhere", open, d) <=> Scoped("owned", open, d) /\ d < Len(open)
    BY DEF Scoped
  <2>3. \A i \in 1..Len(s.scopes) : s.scopes[i].depth < Len(open)
    OBVIOUS
  <2>4. QED
    BY <2>1, <2>2, <2>3 DEF Nested
<1>2. Dense("elsewhere", open, s)
  BY DEF Good, Stacks, Dense
<1>3. Rests("elsewhere", open, s)
  BY DEF Good, Rests
<1>4. QED
  BY <1>1, <1>2, <1>3 DEF Good, Stacks

(* An element without a scope of its own closes none.                      *)
LEMMA CloseNoScopeStep ==
  ASSUME IInv, CloseNoScope
  PROVE  IInv'
<1>1. /\ phase = "owned" /\ ~OwnScope /\ tree' = tree
      /\ Continue(<<>>, "elsewhere", frames, Truncated(identity))
  BY DEF CloseNoScope
<1>2. /\ identity \in Identities /\ Good("owned", frames, identity) /\ frames \in Seq(Frames)
      /\ errors \in Seq(Reports) /\ tree \in Seq(Elements) /\ Depth = Len(frames)
  BY <1>1, EndFacts
<1>3. PICK t : t = Truncated(identity)
  OBVIOUS
<1>4. t \in Identities /\ Good("owned", frames, t) /\ (Clean(identity) => Clean(t))
  BY <1>2, <1>3, TruncatedGood
<1>5. t.scopes = identity.scopes
  BY <1>2, <1>3, TruncatedIs DEF Good, Stacks
<1>6. Good("elsewhere", frames, t)
  <2>1. \A i \in 1..Len(t.scopes) : t.scopes[i].depth \in 1..Len(frames) - 1
    BY <1>1, <1>2, <1>5, NotOwned
  <2>2. QED
    BY <1>2, <1>4, <2>1, ElsewhereGood
<1>7. errors = <<>> => Silent(frames, t)
  BY <1>4 DEF IInv, Silent
<1>8. PICK none \in Seq(Reports) : none = <<>>
  <2>1. <<>> \in Seq(Reports)
    OBVIOUS
  <2>2. QED
    BY ONLY <2>1
<1>9. Continue(none, "elsewhere", frames, t) /\ "elsewhere" \in Phases
  BY <1>1, <1>3, <1>8 DEF Phases
<1>10. QED
  BY <1>1, <1>2, <1>4, <1>6, <1>7, <1>8, <1>9, Continued

(* Another element is no longer open.                                      *)
LEMMA FrontIs ==
  ASSUME NEW T, NEW q \in Seq(T), NEW n \in Nat, Len(q) = n + 1
  PROVE  Front(q) \in Seq(T) /\ Len(Front(q)) = n /\ \A i \in 1..n : Front(q)[i] = q[i]
<1>1. Front(q) = SubSeq(q, 0 + 1, 0 + n)
  BY DEF Front
<1>2. 0 \in Nat /\ 0 + n <= Len(q) /\ \A i \in 1..n : 0 + i = i
  OBVIOUS
<1>3. /\ SubSeq(q, 0 + 1, 0 + n) \in Seq(T) /\ Len(SubSeq(q, 0 + 1, 0 + n)) = n
      /\ \A i \in 1..n : SubSeq(q, 0 + 1, 0 + n)[i] = q[0 + i]
  BY <1>2, Slice
<1>4. QED
  BY <1>1, <1>2, <1>3

(* Of the innermost element nothing is left, so it can go.                 *)
LEMMA PoppedGood ==
  ASSUME NEW before \in Seq(Frames), NEW n \in Nat, Len(before) = n + 1,
         NEW s \in Identities, Good("elsewhere", before, s),
         \A i \in 1..Len(s.selections) : s.selections[i].depth # n + 1,
         Len(s.fieldValues) = EndOf(s, Len(s.selections)),
         NEW next, next = IF n = 0 THEN "done" ELSE "run",
         NEW open, open = Front(before)
  PROVE  open \in Seq(Frames) /\ Good(next, open, s)
<1>1. open \in Seq(Frames) /\ Len(open) = n /\ \A d \in 1..n : open[d] = before[d]
  BY ONLY before \in Seq(Frames), n \in Nat, Len(before) = n + 1, open = Front(before), FrontIs
<1>2. next \in {"run", "done"} /\ (next = "done" <=> n = 0)
  OBVIOUS
<1>3. \A d : Scoped(next, open, d) <=> Scoped("elsewhere", before, d)
  <2>1. ASSUME NEW d
        PROVE  d \in 1..Len(open) <=> d \in 1..Len(before) /\ d < Len(before)
    BY <1>1
  <2>2. QED
    BY <1>1, <1>2, <2>1 DEF Scoped
<1>4. Nested(next, open, s)
  <2>1. Nested("elsewhere", before, s)
    BY DEF Good, Stacks
  <2>2. \A d \in 1..Len(open) : d \in 1..Len(before)
    BY <1>1
  <2>3. QED
    BY <1>3, <2>1, <2>2 DEF Nested
<1>5. PICK m \in Nat : m = Len(s.selections)
  BY Parts
<1>6. /\ \A i \in 1..m : IsSelection(before, s, s.selections[i])
      /\ \A i, j \in 1..m : i < j => Precedes(s.selections[i], s.selections[j])
  BY <1>5 DEF Good, Stacks, Ordered
<1>7. \A i \in 1..m : s.selections[i].depth \in 1..n
  <2>1. \A i \in 1..m : s.selections[i].depth \in 1..n + 1
    BY <1>6 DEF IsSelection
  <2>2. QED
    BY <1>5, <2>1
<1>8. Ordered(open, s)
  <2>1. \A i \in 1..m : IsSelection(open, s, s.selections[i])
    BY <1>1, <1>6, <1>7 DEF IsSelection
  <2>2. QED
    BY <1>5, <1>6, <2>1 DEF Ordered
<1>9. Dense(next, open, s)
  <2>1. Dense("elsewhere", before, s)
    BY DEF Good, Stacks
  <2>2. \A i \in 1..m : s.selections[i].depth < Len(before)
    BY <1>7
  <2>3. \A i \in 1..m : s.selections[i].fieldStart = EndOf(s, i - 1)
    BY <1>5, <2>1, <2>2 DEF Dense
  <2>4. QED
    BY <1>5, <2>3 DEF Dense
<1>10. Limited(open, s)
  <2>1. ASSUME open # <<>>
        PROVE  open[1] = before[1] /\ before # <<>>
    <3>1. n # 0
      BY <1>1, <2>1
    <3>2. 1 \in 1..n
      BY <3>1
    <3>3. QED
      BY <1>1, <3>2
  <2>2. QED
    BY <2>1 DEF Good, Limited
<1>11. Rests(next, open, s)
  <2>1. n = 0 => open = <<>> /\ s.selections = <<>> /\ s.fieldValues = <<>>
    <3>1. ASSUME n = 0
          PROVE  open = <<>> /\ s.selections = <<>> /\ s.fieldValues = <<>>
      <4>1. m = 0
        <5>1. m # 0 => 1 \in 1..m
          BY <1>5
        <5>2. 1 \notin 1..m
          BY <1>7, <3>1
        <5>3. QED
          BY <5>1, <5>2
      <4>2. Len(s.fieldValues) = 0
        BY <1>5, <4>1 DEF EndOf
      <4>3. s.selections \in Seq(Selections) /\ s.fieldValues \in Seq(FieldValues)
        BY Parts
      <4>4. \A T : \A q \in Seq(T) : Len(q) = 0 => q = <<>>
        OBVIOUS
      <4>5. s.selections = <<>> /\ s.fieldValues = <<>>
        BY <1>5, <4>1, <4>2, <4>3, <4>4
      <4>6. open = <<>>
        BY <1>1, <3>1, <4>4
      <4>7. QED
        BY <4>5, <4>6
    <3>2. QED
      BY <3>1
  <2>2. n # 0 => open # <<>>
    BY <1>1
  <2>3. QED
    BY <1>2, <2>1, <2>2 DEF Rests
<1>12. Counted(s)
  BY DEF Good
<1>13. QED
  BY <1>1, <1>4, <1>8, <1>9, <1>10, <1>11, <1>12 DEF Good, Stacks

(* Every selection of an element is finished before its frame is popped.   *)
LEMMA PopFrameStep ==
  ASSUME IInv, PopFrame
  PROVE  IInv'
<1>1. /\ phase = "elsewhere" /\ Pending = {} /\ tree' = tree
      /\ Continue(<<>>, IF Depth = 1 THEN "done" ELSE "run", Front(frames), Truncated(identity))
  BY DEF PopFrame
<1>2. /\ identity \in Identities /\ Good("elsewhere", frames, identity) /\ frames \in Seq(Frames)
      /\ errors \in Seq(Reports) /\ tree \in Seq(Elements)
      /\ Depth = Len(frames) /\ Depth \in Nat /\ Depth # 0
  BY <1>1, EndFacts
<1>3. PICK t : t = Truncated(identity)
  OBVIOUS
<1>4. t \in Identities /\ Good("elsewhere", frames, t) /\ (Clean(identity) => Clean(t))
  BY <1>2, <1>3, TruncatedGood
<1>5. /\ t.scopes = identity.scopes /\ t.selections = identity.selections
      /\ Len(t.fieldValues) = EndOf(identity, Len(identity.selections))
  BY <1>2, <1>3, TruncatedIs DEF Good, Stacks
<1>6. PICK n \in Nat : Len(frames) = n + 1
  <2>1. Depth - 1 \in Nat /\ Depth = (Depth - 1) + 1
    BY <1>2
  <2>2. QED
    BY <1>2, <2>1
<1>7. ASSUME NEW i \in 1..Len(identity.selections)
      PROVE  identity.selections[i].depth # n + 1
  <2>1. SUFFICES ASSUME identity.selections[i].depth = n + 1
                 PROVE  FALSE
    OBVIOUS
  <2>2. i \in DOMAIN identity.selections
    BY <1>2, Parts
  <2>3. IsSelection(frames, identity, identity.selections[i])
    BY <1>2 DEF Good, Stacks, Ordered
  <2>4. Scoped("elsewhere", frames, Owner(identity.selections[i]).depth)
    BY <1>2, <2>3 DEF Good, Stacks, Nested, IsSelection, Owner
  <2>5. Owner(identity.selections[i]).depth # Depth
    BY <1>2, <2>4 DEF Scoped
  <2>6. Finishing(i)
    BY <1>1, <1>2, <1>6, <2>1, <2>5 DEF Finishing
  <2>7. QED
    BY <1>1, <2>2, <2>6 DEF Pending
<1>8. PICK next : next = IF n = 0 THEN "done" ELSE "run"
  OBVIOUS
<1>9. PICK open : open = Front(frames)
  OBVIOUS
<1>10. open \in Seq(Frames) /\ Good(next, open, t)
  <2>1. \A i \in 1..Len(t.selections) : t.selections[i].depth # n + 1
    BY <1>5, <1>7
  <2>2. Len(t.fieldValues) = EndOf(t, Len(t.selections))
    BY <1>5 DEF EndOf
  <2>3. QED
    BY <1>2, <1>4, <1>6, <1>8, <1>9, <2>1, <2>2, PoppedGood
<1>11. errors = <<>> => Silent(open, t)
  <2>1. Len(open) = n /\ \A d \in 1..n : open[d] = frames[d]
    BY <1>2, <1>6, <1>9, FrontIs
  <2>2. \A d \in 1..n : d \in 1..Len(frames)
    BY <1>6
  <2>3. QED
    BY <1>4, <2>1, <2>2 DEF IInv, Silent
<1>12. PICK none \in Seq(Reports) : none = <<>>
  <2>1. <<>> \in Seq(Reports)
    OBVIOUS
  <2>2. QED
    BY ONLY <2>1
<1>13. Continue(none, next, open, t) /\ next \in Phases
  <2>1. (Depth = 1) = (n = 0)
    BY <1>2, <1>6
  <2>2. next = IF Depth = 1 THEN "done" ELSE "run"
    BY <1>8, <2>1
  <2>3. QED
    BY <1>1, <1>3, <1>8, <1>9, <1>12, <2>2 DEF Phases
<1>14. QED
  BY <1>1, <1>2, <1>4, <1>10, <1>11, <1>12, <1>13, Continued

(* The session is reset for another document.                              *)
LEMMA ResetStep ==
  ASSUME IInv, Reset
  PROVE  IInv'
<1>1. phase' = "run" /\ frames' = <<>> /\ identity' = NewIdentity /\ errors' = <<>> /\ tree' = <<>>
  BY DEF Reset
<1>2. NewIdentity \in Identities /\ Good("run", <<>>, NewIdentity) /\ Silent(<<>>, NewIdentity)
  BY NothingIsGood
<1>3. TypeOK'
  <2>1. \A T : <<>> \in Seq(T)
    OBVIOUS
  <2>2. QED
    BY <1>1, <1>2, <2>1 DEF TypeOK, Phases
<1>4. QED
  BY <1>1, <1>2, <1>3 DEF IInv

(* A session begins with nothing.                                          *)
LEMMA InitInv ==
  ASSUME Init
  PROVE  IInv
<1>1. phase = "run" /\ frames = <<>> /\ identity = NewIdentity /\ errors = <<>> /\ tree = <<>>
  BY DEF Init
<1>2. NewIdentity \in Identities /\ Good("run", <<>>, NewIdentity) /\ Silent(<<>>, NewIdentity)
  BY NothingIsGood
<1>3. TypeOK
  <2>1. \A T : <<>> \in Seq(T)
    OBVIOUS
  <2>2. QED
    BY <1>1, <1>2, <2>1 DEF TypeOK, Phases
<1>4. QED
  BY <1>1, <1>2, <1>3 DEF IInv

(* The last scope is closed: what it holds goes to the one below.          *)
LEMMA MergedTable ==
  ASSUME NEW dst \in Tables, NEW src \in Tables
  PROVE  MergeTable(dst, src) \in Tables /\ DOMAIN MergeTable(dst, src) = DOMAIN dst \union DOMAIN src
<1>1. PICK a \in SUBSET Seq(Data) : dst \in [a -> Entries]
  BY DEF Tables
<1>2. PICK b \in SUBSET Seq(Data) : src \in [b -> Entries]
  BY DEF Tables
<1>3. PICK t : t = MergeTable(dst, src)
  OBVIOUS
<1>4. t = [k \in a \union b |->
             IF k \notin a THEN src[k] ELSE IF k \notin b THEN dst[k]
             ELSE [dst[k] EXCEPT !.conflict = @ \/ src[k].conflict \/ src[k].node # dst[k].node]]
  BY <1>1, <1>2, <1>3 DEF MergeTable
<1>5. ASSUME NEW k \in a \union b
      PROVE  t[k] \in Entries
  <2>1. CASE k \notin a
    BY <1>2, <1>4, <2>1
  <2>2. CASE k \notin b
    BY <1>1, <1>4, <2>2
  <2>3. CASE k \in a /\ k \in b
    <3>1. dst[k] \in Entries /\ src[k] \in Entries
      BY <1>1, <1>2, <2>3
    <3>2. t[k] = [dst[k] EXCEPT !.conflict = @ \/ src[k].conflict \/ src[k].node # dst[k].node]
      BY <1>4, <2>3
    <3>3. PICK conflict \in BOOLEAN :
            conflict = (dst[k].conflict \/ src[k].conflict \/ src[k].node # dst[k].node)
      BY <3>1 DEF Entries
    <3>4. t[k] = [dst[k] EXCEPT !.conflict = conflict]
      BY <3>2, <3>3
    <3>5. QED
      BY <3>1, <3>4 DEF Entries
  <2>4. QED
    BY <2>1, <2>2, <2>3
<1>6. t \in [a \union b -> Entries] /\ a \union b \in SUBSET Seq(Data)
  BY <1>4, <1>5
<1>7. QED
  BY <1>1, <1>2, <1>3, <1>6 DEF Tables

(* The scopes that are left are those that were, and hold no more.         *)
Merged(n, a, b) ==
  /\ \A i \in 1..n : /\ b[i].depth = a[i].depth /\ b[i].constraints = a[i].constraints
                     /\ b[i].refs = a[i].refs /\ b[i].invalid = a[i].invalid
  /\ \A i \in 1..n, c \in Constraints :
       DOMAIN b[i].tables[c] =
         IF i = n THEN DOMAIN a[i].tables[c] \union DOMAIN a[n + 1].tables[c]
                  ELSE DOMAIN a[i].tables[c]

(* The innermost scope is merged into the one below, and nothing else      *)
(* changes.                                                                *)
LEMMA PopScopeIs ==
  ASSUME NEW s \in Identities, NEW n \in Nat, Len(s.scopes) = n + 1, NEW t, t = PopScope(s)
  PROVE  /\ t \in Identities
         /\ t.selections = s.selections /\ t.ids = s.ids /\ t.entries = s.entries
         /\ t.nextNode = s.nextNode /\ t.fieldValues = s.fieldValues
         /\ Len(t.scopes) = n /\ DOMAIN t.scopes = 1..n
         /\ Merged(n, s.scopes, t.scopes)
<1>1. s.scopes \in Seq(Scopes) /\ \A i \in 1..n + 1 : s.scopes[i] \in Scopes
  BY Parts
<1>2. PICK front : front = Front(s.scopes)
  OBVIOUS
<1>3. front \in Seq(Scopes) /\ Len(front) = n /\ \A i \in 1..n : front[i] = s.scopes[i]
  BY <1>1, <1>2, FrontIs
<1>4. PICK top : top = s.scopes[n + 1]
  OBVIOUS
<1>5. top \in Scopes /\ top = Last(s.scopes)
  BY <1>1, <1>4 DEF Last
<1>6. CASE n = 0
  <2>1. front = <<>>
    BY <1>3, <1>6
  <2>2. t = [s EXCEPT !.scopes = front]
    BY <1>2, <2>1 DEF PopScope
  <2>3. t \in Identities /\ t.scopes = front
    BY <1>3, <2>2 DEF Identities
  <2>4. Merged(n, s.scopes, t.scopes)
    BY <1>6 DEF Merged
  <2>5. /\ t.selections = s.selections /\ t.ids = s.ids /\ t.entries = s.entries
        /\ t.nextNode = s.nextNode /\ t.fieldValues = s.fieldValues
    BY <2>2 DEF Identities
  <2>6. Len(t.scopes) = n /\ DOMAIN t.scopes = 1..n
    BY <1>3, <2>3
  <2>7. QED
    BY <2>3, <2>4, <2>5, <2>6
<1>7. CASE n # 0
  <2>1. n \in 1..n /\ front # <<>> /\ front[n] = s.scopes[n] /\ front[n] \in Scopes
    BY <1>1, <1>3, <1>7
  <2>2. PICK tables : tables = [c \in Constraints |-> MergeTable(front[n].tables[c], top.tables[c])]
    OBVIOUS
  <2>3. \A c \in Constraints : front[n].tables[c] \in Tables /\ top.tables[c] \in Tables
    BY <1>5, <2>1 DEF Scopes
  <2>4. /\ tables \in [Constraints -> Tables]
        /\ \A c \in Constraints :
             DOMAIN tables[c] = DOMAIN front[n].tables[c] \union DOMAIN top.tables[c]
    BY <2>2, <2>3, MergedTable
  <2>5. PICK scope : scope = [front[n] EXCEPT !.tables = tables]
    OBVIOUS
  <2>6. /\ scope \in Scopes /\ scope.tables = tables
        /\ scope.depth = front[n].depth /\ scope.constraints = front[n].constraints
        /\ scope.refs = front[n].refs /\ scope.invalid = front[n].invalid
    BY <2>1, <2>4, <2>5 DEF Scopes
  <2>7. PICK scopes : scopes = [front EXCEPT ![n] = scope]
    OBVIOUS
  <2>8. /\ scopes \in Seq(Scopes) /\ Len(scopes) = n /\ DOMAIN scopes = 1..n
        /\ \A i \in 1..n : scopes[i] = IF i = n THEN scope ELSE front[i]
    BY <1>3, <2>1, <2>6, <2>7
  <2>9. t = [s EXCEPT !.scopes = scopes]
    BY <1>2, <1>3, <1>5, <2>1, <2>2, <2>5, <2>7 DEF PopScope, Scopes
  <2>10. t \in Identities /\ t.scopes = scopes
    BY <2>8, <2>9 DEF Identities
  <2>11. Merged(n, s.scopes, scopes)
    BY <1>3, <1>4, <2>1, <2>4, <2>6, <2>8 DEF Merged
  <2>12. QED
    BY <2>8, <2>9, <2>10, <2>11 DEF Identities
<1>8. QED
  BY <1>6, <1>7

(* What is held in tables.                                                 *)
LEMMA TabledHas ==
  ASSUME NEW list, NEW i \in DOMAIN list, NEW c \in Constraints, NEW k \in DOMAIN list[i].tables[c]
  PROVE  <<i, c, k>> \in Tabled(list)
<1> DEFINE held(j, d) == {<<j, d, l>> : l \in DOMAIN list[j].tables[d]}
<1>1. <<i, c, k>> \in held(i, c)
  OBVIOUS
<1>2. Tabled(list) = UNION {held(j, d) : j \in DOMAIN list, d \in Constraints}
  BY DEF Tabled
<1> HIDE DEF held
<1>3. QED
  BY <1>1, <1>2

(* Merged tables hold no more than they did.                               *)
LEMMA MergedTabled ==
  ASSUME NEW n \in Nat, NEW a, DOMAIN a = 1..n + 1, NEW b, DOMAIN b = 1..n, Merged(n, a, b),
         IsFiniteSet(Tabled(a))
  PROVE  IsFiniteSet(Tabled(b)) /\ Cardinality(Tabled(b)) <= Cardinality(Tabled(a))
<1>1. \A e \in Tabled(a) : \E i \in 1..n + 1, c \in Constraints :
        \E k \in DOMAIN a[i].tables[c] : e = <<i, c, k>>
  BY DEF Tabled
<1>2. \A i \in 1..n + 1, c \in Constraints : \A k \in DOMAIN a[i].tables[c] :
        <<i, c, k>> \in Tabled(a)
  BY TabledHas
<1>3. \A e \in Tabled(b) : \E i \in 1..n, c \in Constraints :
        \E k \in DOMAIN b[i].tables[c] : e = <<i, c, k>>
  BY DEF Tabled
<1>4. \A i \in 1..n, c \in Constraints : \A k \in DOMAIN b[i].tables[c] :
        <<i, c, k>> \in Tabled(b)
  BY TabledHas
<1>5. CASE n = 0
  <2>1. Tabled(b) = {}
    BY <1>3, <1>5
  <2>2. IsFiniteSet({}) /\ Cardinality({}) = 0
    BY FS_EmptySet
  <2>3. Cardinality(Tabled(a)) \in Nat
    BY FS_CardinalityType
  <2>4. PICK x : x = Tabled(b)
    OBVIOUS
  <2>5. IsFiniteSet(x) /\ Cardinality(x) = 0
    BY <2>1, <2>2, <2>4, Zenon
  <2>6. QED
    BY <2>3, <2>4, <2>5
<1>6. CASE n # 0
  <2>1. n \in 1..n
    BY <1>6
  <2>2. /\ \A c \in Constraints :
              DOMAIN b[n].tables[c] = DOMAIN a[n].tables[c] \union DOMAIN a[n + 1].tables[c]
        /\ \A i \in 1..n, c \in Constraints :
              i # n => DOMAIN b[i].tables[c] = DOMAIN a[i].tables[c]
    BY <2>1 DEF Merged
  <2>3. PICK f : f = [e \in Tabled(a) |-> IF e[1] = n + 1 THEN <<n, e[2], e[3]>> ELSE e]
    OBVIOUS
  <2>4. \A e \in Tabled(a) : f[e] \in Tabled(b)
    <3>1. SUFFICES ASSUME NEW i \in 1..n + 1, NEW c \in Constraints, NEW k \in DOMAIN a[i].tables[c]
                   PROVE  (IF i = n + 1 THEN <<n, c, k>> ELSE <<i, c, k>>) \in Tabled(b)
      BY <1>1, <2>3
    <3>2. CASE i = n + 1
      <4>1. n \in 1..n /\ k \in DOMAIN b[n].tables[c]
        BY <2>1, <2>2, <3>2
      <4>2. QED
        BY <1>4, <3>2, <4>1
    <3>3. CASE i # n + 1
      <4>1. i \in 1..n /\ k \in DOMAIN b[i].tables[c]
        BY <2>2, <3>3
      <4>2. QED
        BY <1>4, <3>3, <4>1
    <3>4. QED
      BY <3>2, <3>3
  <2>5. \A e \in Tabled(b) : \E d \in Tabled(a) : f[d] = e
    <3> SUFFICES ASSUME NEW e \in Tabled(b)
                 PROVE  \E d \in Tabled(a) : f[d] = e
      OBVIOUS
    <3>1. PICK i \in 1..n, c \in Constraints : \E k \in DOMAIN b[i].tables[c] : e = <<i, c, k>>
      BY <1>3
    <3>2. PICK k \in DOMAIN b[i].tables[c] : e = <<i, c, k>>
      BY <3>1
    <3>3. CASE k \in DOMAIN a[i].tables[c]
      <4>1. i \in 1..n + 1 /\ i # n + 1 /\ <<i, c, k>> \in Tabled(a)
        BY <1>2, <3>3
      <4>2. f[<<i, c, k>>] = <<i, c, k>>
        BY <2>3, <4>1
      <4>3. QED
        BY <3>2, <4>1, <4>2
    <3>4. CASE k \notin DOMAIN a[i].tables[c]
      <4>1. i = n /\ k \in DOMAIN a[n + 1].tables[c]
        BY <2>2, <3>2, <3>4
      <4>2. n + 1 \in 1..n + 1 /\ <<n + 1, c, k>> \in Tabled(a)
        BY <1>2, <4>1
      <4>3. f[<<n + 1, c, k>>] = <<i, c, k>>
        BY <2>3, <4>1, <4>2
      <4>4. QED
        BY <3>2, <4>2, <4>3
    <3>5. QED
      BY <3>3, <3>4
  <2>6. f \in Surjection(Tabled(a), Tabled(b))
    BY <2>3, <2>4, <2>5 DEF Surjection
  <2>7. QED
    BY <2>6, FS_Surjection
<1>7. QED
  BY <1>5, <1>6

(* References are not merged: those of the closed scope are gone.          *)
LEMMA MergedReferring ==
  ASSUME NEW n \in Nat, NEW a, DOMAIN a = 1..n + 1, NEW b, DOMAIN b = 1..n, Merged(n, a, b),
         IsFiniteSet(Referring(a))
  PROVE  IsFiniteSet(Referring(b)) /\ Cardinality(Referring(b)) <= Cardinality(Referring(a))
<1>1. \A i \in 1..n : i \in 1..n + 1 /\ b[i].refs = a[i].refs
  BY DEF Merged
<1>2. Referring(b) \in SUBSET Referring(a)
  BY <1>1 DEF Referring
<1>3. QED
  BY <1>2, FS_Subset

(* The element's own scope is closed.                                      *)
LEMMA PopScopeGood ==
  ASSUME NEW open \in Seq(Frames), NEW s \in Identities, Good("owned", open, s),
         NEW n \in Nat, Len(s.scopes) = n + 1, s.scopes[n + 1].depth = Len(open),
         \A i \in 1..Len(s.selections) : s.selections[i].scope # n + 1,
         NEW t, t = PopScope(s)
  PROVE  t \in Identities /\ Good("elsewhere", open, t) /\ (Clean(s) => Clean(t))
<1>1. /\ t \in Identities
      /\ t.selections = s.selections /\ t.ids = s.ids /\ t.entries = s.entries
      /\ t.nextNode = s.nextNode /\ t.fieldValues = s.fieldValues
      /\ Len(t.scopes) = n /\ DOMAIN t.scopes = 1..n
      /\ Merged(n, s.scopes, t.scopes)
  BY PopScopeIs
<1>2. \A i \in 1..n : /\ t.scopes[i].depth = s.scopes[i].depth
                      /\ t.scopes[i].constraints = s.scopes[i].constraints
                      /\ t.scopes[i].invalid = s.scopes[i].invalid
  BY <1>1 DEF Merged
<1>3. /\ \A i, j \in 1..n + 1 : i < j => s.scopes[i].depth < s.scopes[j].depth
      /\ \A i \in 1..n + 1 : Scoped("owned", open, s.scopes[i].depth)
      /\ \A d \in 1..Len(open) :
           Scoped("owned", open, d) => \E i \in 1..n + 1 : s.scopes[i].depth = d
  BY DEF Good, Stacks, Nested
<1>4. \A i \in 1..n : i \in 1..n + 1 /\ i < n + 1
  OBVIOUS
<1>5. n + 1 \in 1..n + 1
  OBVIOUS
<1>6. \A i \in 1..n : s.scopes[i].depth < Len(open)
  BY <1>3, <1>4, <1>5
<1>7. Nested("elsewhere", open, t)
  <2>1. \A d : Scoped("elsewhere", open, d) <=> Scoped("owned", open, d) /\ d < Len(open)
    BY DEF Scoped
  <2>2. \A i, j \in 1..n : i < j => t.scopes[i].depth < t.scopes[j].depth
    BY <1>2, <1>3, <1>4
  <2>3. \A i \in 1..n : Scoped("elsewhere", open, t.scopes[i].depth)
    BY <1>2, <1>3, <1>4, <1>6, <2>1
  <2>4. ASSUME NEW d \in 1..Len(open), Scoped("elsewhere", open, d)
        PROVE  \E i \in 1..n : t.scopes[i].depth = d
    <3>1. Scoped("owned", open, d) /\ d < Len(open)
      BY <2>1, <2>4
    <3>2. PICK i \in 1..n + 1 : s.scopes[i].depth = d
      BY <1>3, <3>1
    <3>3. i # n + 1
      BY <3>1, <3>2
    <3>4. i \in 1..n
      BY <3>3
    <3>5. QED
      BY <1>2, <3>2, <3>4
  <2>5. QED
    BY <1>1, <2>2, <2>3, <2>4 DEF Nested
<1>8. Ordered(open, t)
  <2>1. ASSUME NEW i \in 1..Len(s.selections)
        PROVE  IsSelection(open, t, s.selections[i])
    <3>1. IsSelection(open, s, s.selections[i]) /\ s.selections[i].scope # n + 1
      BY DEF Good, Stacks, Ordered
    <3>2. s.selections[i].scope \in 1..n
      BY <3>1 DEF IsSelection
    <3>3. QED
      BY <1>1, <1>2, <3>1, <3>2 DEF IsSelection
  <2>2. QED
    BY <1>1, <2>1 DEF Good, Stacks, Ordered
<1>9. Dense("elsewhere", open, t)
  BY <1>1 DEF Good, Stacks, Dense, EndOf
<1>10. Counted(t)
  <2>1. /\ IsFiniteSet(Tabled(s.scopes)) /\ IsFiniteSet(Referring(s.scopes)) /\ IsFiniteSet(s.ids)
        /\ Cardinality(Tabled(s.scopes)) + Cardinality(Referring(s.scopes)) + Cardinality(s.ids)
             <= s.entries
    BY DEF Good, Counted
  <2>2. DOMAIN s.scopes = 1..n + 1
    BY Parts
  <2>3. /\ IsFiniteSet(Tabled(t.scopes)) /\ Cardinality(Tabled(t.scopes)) <= Cardinality(Tabled(s.scopes))
        /\ IsFiniteSet(Referring(t.scopes))
        /\ Cardinality(Referring(t.scopes)) <= Cardinality(Referring(s.scopes))
    BY <1>1, <2>1, <2>2, MergedTabled, MergedReferring
  <2>4. /\ Cardinality(Tabled(s.scopes)) \in Nat /\ Cardinality(Referring(s.scopes)) \in Nat
        /\ Cardinality(s.ids) \in Nat
        /\ Cardinality(Tabled(t.scopes)) \in Nat /\ Cardinality(Referring(t.scopes)) \in Nat
    BY <2>1, <2>3, FS_CardinalityType
  <2>5. s.entries \in Nat
    BY Parts
  <2>6. Cardinality(Tabled(t.scopes)) + Cardinality(Referring(t.scopes)) + Cardinality(s.ids)
          <= s.entries
    BY <2>1, <2>3, <2>4, <2>5
  <2>7. QED
    BY <1>1, <2>1, <2>3, <2>6 DEF Counted
<1>11. open # <<>>
  BY <1>3, <1>5 DEF Scoped
<1>12. Limited(open, t)
  <2>1. MaxScopes[open[1].name] \in Nat
    <3>1. 1 \in 1..Len(open)
      BY <1>11
    <3>2. open[1] \in Frames
      BY <3>1
    <3>3. QED
      BY <3>2, LimitAssumption DEF Frames
  <2>2. n + 1 <= MaxScopes[open[1].name]
    BY <1>11 DEF Good, Limited
  <2>3. n <= MaxScopes[open[1].name]
    BY <2>1, <2>2
  <2>4. QED
    BY <1>1, <1>11, <2>3 DEF Good, Limited
<1>13. Rests("elsewhere", open, t)
  BY <1>11 DEF Rests
<1>14. Clean(s) => Clean(t)
  BY <1>1, <1>2, <1>4 DEF Clean
<1>15. QED
  BY <1>1, <1>7, <1>8, <1>9, <1>10, <1>12, <1>13, <1>14 DEF Good, Stacks

(* The references of the scope that is closing.                            *)
LEMMA RefsFold ==
  ASSUME NEW refs
  PROVE  FoldLeft(AddUnresolved, <<>>, refs) = AcrossRefs!Fold(<<>>, refs)
BY DEF FoldLeft, MapThenFoldSet, Max, AcrossRefs!Fold, AcrossRefs!Iterated,
       AcrossRefs!Iterates, AcrossRefs!Step, AcrossRefs!Largest

(* What is reported of the references is a list of reports.                *)
LEMMA UnresolvedIs ==
  ASSUME NEW refs \in Seq(References)
  PROVE  FoldLeft(AddUnresolved, <<>>, refs) \in Seq(Reports)
<1>1. PICK n \in Nat : n = Len(refs) /\ DOMAIN refs = 1..n
  OBVIOUS
<1>2. PICK f : AcrossRefs!Folds(<<>>, refs, n, f)
  BY <1>1, AcrossRefs!FoldSteps
<1>3. /\ f[0] = <<>> /\ f[n] = FoldLeft(AddUnresolved, <<>>, refs)
      /\ \A k \in 0..n - 1 : f[k + 1] = AddUnresolved(f[k], refs[k + 1])
  BY <1>2, RefsFold DEF AcrossRefs!Folds
<1>4. ASSUME NEW ref \in References, NEW reports \in Seq(Reports)
      PROVE  AddUnresolved(reports, ref) \in Seq(Reports)
  <2>1. PICK condition : condition = ~ResolvesIn(Last(identity.scopes), ref)
    OBVIOUS
  <2>2. "unresolved" \in ReportCodes /\ ref.element \in Nat
    BY DEF ReportCodes, References
  <2>3. <<[code |-> "unresolved", element |-> ref.element]>> \in Seq(Reports) /\ <<>> \in Seq(Reports)
    BY <2>2, ReportIs
  <2>4. PICK new : new = When(condition, "unresolved", ref.element)
    OBVIOUS
  <2>5. new \in Seq(Reports)
    BY <2>3, <2>4, Zenon DEF When
  <2>6. AddUnresolved(reports, ref) = reports \o new
    BY <2>1, <2>4 DEF AddUnresolved
  <2>7. QED
    BY <2>5, <2>6
<1> DEFINE T == {k \in Nat : k <= n => f[k] \in Seq(Reports)}
<1>5. 0 \in T
  <2>1. <<>> \in Seq(Reports)
    OBVIOUS
  <2>2. QED
    BY <1>3, <2>1
<1>6. ASSUME NEW k \in Nat, k \in T
      PROVE  k + 1 \in T
  <2>1. SUFFICES ASSUME k + 1 <= n
                 PROVE  f[k + 1] \in Seq(Reports)
    OBVIOUS
  <2>2. k \in 0..n - 1 /\ k + 1 \in 1..n /\ f[k] \in Seq(Reports)
    BY <1>6, <2>1
  <2>3. refs[k + 1] \in References
    BY <1>1, <2>2
  <2>4. QED
    BY <1>3, <1>4, <2>2, <2>3
<1> HIDE DEF T
<1>7. \A k \in Nat : k \in T
  BY <1>5, <1>6, AcrossRefs!NatInduct
<1>8. QED
  BY <1>3, <1>7 DEF T

(* No selection of the scope that is closing is left.                      *)
LEMMA OwnFinished ==
  ASSUME IInv, phase = "owned", Pending = {}, NEW n \in Nat,
         Len(identity.scopes) = n + 1, identity.scopes[n + 1].depth = Depth
  PROVE  \A i \in 1..Len(identity.selections) : identity.selections[i].scope # n + 1
<1>1. SUFFICES ASSUME NEW i \in 1..Len(identity.selections), identity.selections[i].scope = n + 1
               PROVE  FALSE
  OBVIOUS
<1>2. identity \in Identities /\ Good("owned", frames, identity) /\ Depth = Len(frames) /\ Depth \in Nat
  BY EndFacts
<1>3. i \in DOMAIN identity.selections
  BY <1>2, Parts
<1>4. IsSelection(frames, identity, identity.selections[i])
  BY <1>2 DEF Good, Stacks, Ordered
<1>5. Depth <= identity.selections[i].depth /\ identity.selections[i].depth \in 1..Depth
  BY <1>1, <1>2, <1>4 DEF IsSelection
<1>6. identity.selections[i].depth = Depth
  BY <1>2, <1>5
<1>7. Finishing(i)
  BY <1>1, <1>6 DEF Finishing, Owner
<1>8. QED
  BY <1>3, <1>7 DEF Pending

(* The scope of the ending element resolves its references and closes.     *)
LEMMA CloseScopeStep ==
  ASSUME IInv, CloseScope
  PROVE  IInv'
<1>1. phase = "owned" /\ Pending = {} /\ OwnScope
  BY DEF CloseScope
<1>2. /\ identity \in Identities /\ Good("owned", frames, identity)
      /\ frames \in Seq(Frames) /\ frames # <<>> /\ errors \in Seq(Reports) /\ tree \in Seq(Elements)
      /\ Depth = Len(frames) /\ Depth \in Nat /\ Depth # 0
  BY <1>1, EndFacts
<1>3. PICK n \in Nat : Len(identity.scopes) = n + 1
  <2>1. identity.scopes \in Seq(Scopes) /\ identity.scopes # <<>>
    BY <1>1, <1>2, Parts DEF OwnScope
  <2>2. Len(identity.scopes) - 1 \in Nat /\ Len(identity.scopes) = (Len(identity.scopes) - 1) + 1
    BY <2>1
  <2>3. QED
    BY <2>2
<1>4. PICK scope \in Scopes : /\ scope = Last(identity.scopes) /\ scope = identity.scopes[n + 1]
                              /\ scope.depth = Depth
  <2>1. n + 1 \in 1..Len(identity.scopes)
    BY <1>3
  <2>2. identity.scopes[n + 1] \in Scopes
    BY <1>2, <2>1, Parts
  <2>3. QED
    BY <1>1, <1>3, <2>2 DEF OwnScope, Last
<1>5. PICK unresolved : unresolved = FoldLeft(AddUnresolved, <<>>, scope.refs)
  OBVIOUS
<1>6. unresolved \in Seq(Reports)
  BY <1>5, UnresolvedIs DEF Scopes
<1>7. PICK failed \in BOOLEAN : failed = (scope.invalid \/ unresolved # <<>>)
  BY DEF Scopes
<1>8. Last(frames) \in Frames /\ Last(frames) = frames[Depth] /\ Depth \in 1..Len(frames)
  BY <1>2, Innermost DEF IInv
<1>9. PICK invalid \in BOOLEAN : invalid = (Last(frames).invalid \/ failed)
  BY <1>8 DEF Frames
<1>10. PICK frame \in Frames :
         /\ frame = [Last(frames) EXCEPT !.invalid = invalid]
         /\ frame.node = Last(frames).node /\ frame.name = Last(frames).name
         /\ frame.mode = Last(frames).mode /\ frame.invalid = invalid
  BY <1>8, Marked
<1>11. PICK open : open = [frames EXCEPT ![Depth] = frame]
  OBVIOUS
<1>12. /\ open \in Seq(Frames) /\ SameFrames(open, frames) /\ Len(open) = Len(frames)
       /\ \A d \in 1..Len(open) : open[d] = frame \/ open[d] = frames[d]
  <2>1. open = [frames EXCEPT ![Len(frames)] = frame]
    BY <1>2, <1>11
  <2>2. SameFrames(open, frames)
    BY <1>2, <1>10, <2>1, FrameReplaced
  <2>3. QED
    BY <1>2, <2>1, <2>2 DEF SameFrames
<1>13. PICK cut : cut = Truncated(identity)
  OBVIOUS
<1>14. /\ cut \in Identities /\ Good("owned", frames, cut) /\ (Clean(identity) => Clean(cut))
       /\ cut.scopes = identity.scopes /\ cut.selections = identity.selections
  BY <1>2, <1>13, TruncatedGood, TruncatedIs DEF Good, Stacks
<1>15. PICK closed : closed = PopScope(cut)
  OBVIOUS
<1>16. closed \in Identities /\ Good("elsewhere", frames, closed) /\ (Clean(cut) => Clean(closed))
  <2>1. \A i \in 1..Len(cut.selections) : cut.selections[i].scope # n + 1
    BY <1>1, <1>3, <1>4, <1>14, OwnFinished
  <2>2. Len(cut.scopes) = n + 1 /\ cut.scopes[n + 1].depth = Len(frames)
    BY <1>2, <1>3, <1>4, <1>14
  <2>3. QED
    BY <1>2, <1>14, <1>15, <2>1, <2>2, PopScopeGood
<1>17. PICK t : t = IF failed THEN NillableFields(closed, frames, frame) ELSE closed
  OBVIOUS
<1>18. t \in Identities /\ Good("elsewhere", frames, t)
  <2>1. Touches(closed, t)
    <3>1. CASE failed
      BY <1>16, <1>17, <3>1, NillableTouches
    <3>2. CASE ~failed
      BY <1>16, <1>17, <3>2, TouchesItself
    <3>3. QED
      BY <3>1, <3>2
  <2>2. QED
    BY <1>16, <2>1, TouchedGood DEF Touches
<1>19. Good("elsewhere", open, t)
  BY <1>2, <1>12, <1>18, Parts, SameFramesGood
<1>20. ASSUME errors = <<>>, unresolved = <<>>
       PROVE  Silent(open, t)
  <2>1. Silent(frames, identity) /\ Clean(identity)
    BY <1>20 DEF IInv, Silent
  <2>2. ~scope.invalid
    <3>1. n + 1 \in 1..Len(identity.scopes)
      BY <1>3
    <3>2. QED
      BY <1>4, <2>1, <3>1 DEF Clean
  <2>3. ~failed
    BY <1>7, <1>20, <2>2
  <2>4. Clean(t)
    BY <1>14, <1>16, <1>17, <2>1, <2>3
  <2>5. ~frames[Depth].invalid /\ frames[Depth].mode # "recovery"
    BY <1>2, <1>8, <2>1 DEF Silent
  <2>6. ~frame.invalid /\ frame.mode # "recovery"
    BY <1>8, <1>9, <1>10, <2>3, <2>5
  <2>7. QED
    BY <1>12, <2>1, <2>4, <2>6 DEF Silent
<1>21. /\ tree' = [tree EXCEPT ![frame.node].invalid = frame.invalid]
       /\ Continue(unresolved, "elsewhere", open, t)
  <2>1. frame = [Last(frames) EXCEPT !.invalid = @ \/ failed]
    BY <1>9, <1>10
  <2>2. failed = (Last(identity.scopes).invalid
                    \/ FoldLeft(AddUnresolved, <<>>, Last(identity.scopes).refs) # <<>>)
    BY <1>4, <1>5, <1>7
  <2>3. QED
    BY <1>4, <1>5, <1>7, <1>11, <1>13, <1>15, <1>17, <2>1 DEF CloseScope
<1>22. tree' \in Seq(Elements) /\ "elsewhere" \in Phases
  BY <1>10, <1>21, TreeMarked DEF IInv, Phases
<1>23. QED
  BY <1>2, <1>6, <1>12, <1>18, <1>19, <1>20, <1>21, <1>22, Continued

-----------------------------------------------------------------------------
(* The theorems.                                                           *)

(* Every step of every handler keeps the invariant.                        *)
LEMMA NextInv ==
  ASSUME IInv, [Next]_vars
  PROVE  IInv'
<1>1. CASE UNCHANGED vars
  <2>1. /\ phase' = phase /\ frames' = frames /\ identity' = identity
        /\ errors' = errors /\ tree' = tree
    BY <1>1 DEF vars
  <2>2. TypeOK' /\ Good(phase', frames', identity')
        /\ (errors' = <<>> => Silent(frames', identity'))
    BY <2>1 DEF IInv, TypeOK
  <2>3. QED
    BY <2>2 DEF IInv
<1>2. CASE StartTag
  <2>1. PICK name \in Names : \E attr \in Attributes[name] :
          \/ \E mode \in Modes[name], nilled \in BOOLEAN : StartElement(name, mode, nilled, attr)
          \/ StartUnexpected(name, attr)
    BY <1>2 DEF StartTag
  <2>2. PICK attr \in Attributes[name] :
          \/ \E mode \in Modes[name], nilled \in BOOLEAN : StartElement(name, mode, nilled, attr)
          \/ StartUnexpected(name, attr)
    BY <2>1
  <2>3. CASE \E mode \in Modes[name], nilled \in BOOLEAN : StartElement(name, mode, nilled, attr)
    BY <2>3, StartElementStep
  <2>4. CASE StartUnexpected(name, attr)
    BY <2>4, StartUnexpectedStep
  <2>5. QED
    BY <2>2, <2>3, <2>4
<1>3. CASE Misassess
  BY <1>3, MisassessStep
<1>4. CASE EndTag
  BY <1>4, EndUnassessedStep, EndWithoutValueStep, EndNilledStep, EndWithValueStep,
     EndWithBadValueStep, EndWithIDStep DEF EndTag
<1>5. CASE FinishSelection
  BY <1>5, FinishUnqualifiedStep, FinishNillableStep, FinishKeyStep, FinishRefStep
     DEF FinishSelection
<1>6. CASE CloseScope
  BY <1>6, CloseScopeStep
<1>7. CASE CloseNoScope
  BY <1>7, CloseNoScopeStep
<1>8. CASE PopFrame
  BY <1>8, PopFrameStep
<1>9. CASE Reset
  BY <1>9, ResetStep
<1>10. QED
  BY <1>1, <1>2, <1>3, <1>4, <1>5, <1>6, <1>7, <1>8, <1>9 DEF Next

(* The identity state is good for the open elements in every state of      *)
(* every behaviour, and silent as long as there are no errors.             *)
THEOREM IdentityInvariant == Spec => []IInv
<1>1. Init => IInv
  BY InitInv
<1>2. IInv /\ [Next]_vars => IInv'
  BY NextInv
<1>3. QED
  BY <1>1, <1>2, PTL DEF Spec

(* The invariant, in the words of the properties.                          *)
LEMMA InvariantScopes ==
  ASSUME IInv
  PROVE  ScopeDiscipline
<1>1. /\ identity \in Identities /\ frames \in Seq(Frames)
      /\ Nested(phase, frames, identity) /\ Rests(phase, frames, identity)
  BY DEF IInv, TypeOK, Good, Stacks
<1>2. PICK n \in Nat : n = Len(identity.scopes) /\ DOMAIN identity.scopes = 1..n
  BY <1>1, Parts
<1>3. DOMAIN frames = 1..Len(frames) /\ Depth = Len(frames)
  BY <1>1 DEF Depth
<1>4. \A i, j \in DOMAIN identity.scopes :
        i < j => identity.scopes[i].depth < identity.scopes[j].depth
  BY <1>1, <1>2 DEF Nested
<1>5. ASSUME NEW d
      PROVE  d \in {identity.scopes[i].depth : i \in DOMAIN identity.scopes} <=>
             d \in {e \in DOMAIN frames : /\ frames[e].mode = "declared"
                                          /\ Owned[frames[e].name] # <<>>
                                          /\ phase = "elsewhere" => e < Depth}
  <2>1. d \in {e \in DOMAIN frames : /\ frames[e].mode = "declared"
                                     /\ Owned[frames[e].name] # <<>>
                                     /\ phase = "elsewhere" => e < Depth}
          <=> Scoped(phase, frames, d)
    BY <1>3 DEF Scoped
  <2>2. \A e : Scoped(phase, frames, e) => e \in 1..Len(frames)
    BY DEF Scoped
  <2>3. Scoped(phase, frames, d) <=> \E i \in 1..n : identity.scopes[i].depth = d
    BY <1>1, <1>2, <2>2 DEF Nested
  <2>4. QED
    BY <1>2, <2>1, <2>3
<1>6. phase \in {"done", "syntax", "failed"} =>
        identity.selections = <<>> /\ identity.fieldValues = <<>>
  BY <1>1 DEF Rests
<1>7. QED
  BY <1>4, <1>5, <1>6 DEF ScopeDiscipline

(* Selections refer to open scopes and elements.                           *)
LEMMA InvariantSelections ==
  ASSUME IInv
  PROVE  SelectionDiscipline
<1>1. identity \in Identities /\ frames \in Seq(Frames) /\ Ordered(frames, identity)
  BY DEF IInv, TypeOK, Good, Stacks
<1>2. /\ DOMAIN identity.scopes = 1..Len(identity.scopes)
      /\ DOMAIN identity.selections = 1..Len(identity.selections)
      /\ DOMAIN frames = 1..Len(frames)
  BY <1>1, Parts
<1>3. \A i \in DOMAIN identity.selections : IsSelection(frames, identity, identity.selections[i])
  BY <1>1, <1>2 DEF Ordered
<1>4. \A i, j \in DOMAIN identity.selections :
        i < j => /\ identity.selections[i].depth <= identity.selections[j].depth
                 /\ identity.selections[i].node < identity.selections[j].node
  BY <1>1, <1>2 DEF Ordered, Precedes
<1>5. QED
  BY <1>2, <1>3, <1>4 DEF SelectionDiscipline, IsSelection, Owner

(* The slices of the fields never overlap and cover the array between      *)
(* tokens.                                                                 *)
LEMMA InvariantSlices ==
  ASSUME IInv
  PROVE  FieldSlices
<1>1. identity \in Identities /\ Ordered(frames, identity) /\ Dense(phase, frames, identity)
  BY DEF IInv, TypeOK, Good, Stacks
<1>2. PICK sel \in Seq(Selections), n \in Nat :
        sel = identity.selections /\ n = Len(sel) /\ DOMAIN sel = 1..n
  BY <1>1, Parts
<1>3. /\ \A i, j \in 1..n : i < j => End(sel[i]) <= sel[j].fieldStart
      /\ \A i \in 1..n : End(sel[i]) <= Len(identity.fieldValues)
  BY <1>1, <1>2 DEF Ordered, Precedes, IsSelection
<1>4. phase = "run" => /\ \A i \in 1..n : sel[i].fieldStart = EndOf(identity, i - 1)
                       /\ Len(identity.fieldValues) = EndOf(identity, n)
  BY <1>1, <1>2 DEF Dense
<1>5. \A i \in 1..n : EndOf(identity, i - 1) = IF i = 1 THEN 0 ELSE End(sel[i - 1])
  BY <1>2 DEF EndOf
<1>6. EndOf(identity, n) = IF sel = <<>> THEN 0 ELSE End(sel[n])
  <2>1. (n = 0) <=> (sel = <<>>)
    BY <1>2
  <2>2. QED
    BY <1>2, <2>1 DEF EndOf
<1>7. QED
  BY <1>2, <1>3, <1>4, <1>5, <1>6 DEF FieldSlices, End

(* The scope and selection stacks follow the elements that are open, and   *)
(* the slices of the fields never overlap, in every step of every document *)
(* and for every schema.                                                   *)
THEOREM StacksStayOwn == Spec => []StacksAreOwn
<1>1. IInv => StacksAreOwn
  BY InvariantScopes, InvariantSelections, InvariantSlices DEF StacksAreOwn
<1>2. QED
  BY <1>1, IdentityInvariant, PTL

(* No tuple, reference or ID is held that was not counted, and no limit of *)
(* the session is exceeded.                                                *)
THEOREM EntriesStayCounted == Spec => []EntryBudget
<1>1. IInv => EntryBudget
  BY DEF IInv, Good, Counted, Limited, EntryBudget
<1>2. QED
  BY <1>1, IdentityInvariant, PTL

(* Whatever is marked invalid was reported.                                *)
THEOREM SilenceStaysClean == Spec => []SilenceIsClean
<1>1. ASSUME IInv
      PROVE  SilenceIsClean
  <2>1. identity \in Identities /\ frames \in Seq(Frames)
    BY <1>1 DEF IInv, TypeOK
  <2>2. /\ DOMAIN identity.scopes = 1..Len(identity.scopes)
        /\ DOMAIN identity.fieldValues = 1..Len(identity.fieldValues)
        /\ DOMAIN frames = 1..Len(frames)
    BY <2>1, Parts
  <2>3. QED
    BY <1>1, <2>2 DEF IInv, Silent, Clean, SilenceIsClean
<1>2. QED
  BY <1>1, IdentityInvariant, PTL
=============================================================================
