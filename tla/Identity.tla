------------------------------ MODULE Identity ------------------------------
(***************************************************************************)
(* Identity constraints (unique, key, keyref) during one validation.       *)
(*                                                                         *)
(* IdentityState is one stack machine driven by the element stack.  An     *)
(* element whose declaration owns constraints opens a scope; a scope's     *)
(* selectors are matched against every element below it, and a match opens *)
(* a selection, whose fields are filled in while the selected element is   *)
(* open.  When an element ends, the selections opened at its depth finish  *)
(* and publish a tuple into the table of their scope: first the selections *)
(* of the element's own scope, then, after that scope has resolved its     *)
(* keyrefs and merged its tables into the enclosing scope, the others.     *)
(*                                                                         *)
(* The end of an element is modelled one step per selection, because each  *)
(* may report a diagnostic, and a diagnostic may end semantic checking in  *)
(* the middle of the handler.                                              *)
(***************************************************************************)
EXTENDS Naturals, Sequences, FiniteSets, SequencesExt

CONSTANTS
  Names,        \* expanded element names
  Admits,       \* the content models: pairs <<parent, child>>
  Roots,        \* global elements a document may start with
  Constraints,  \* identity-constraint definitions
  Owned,        \* Owned[n]: constraints of the declaration of n, in order
  Kind,         \* Kind[c] \in {"unique", "key", "keyref"}
  Refer,        \* Refer[c]: the key a keyref refers to
  Selector,     \* Selector[c]: the paths of the selector
  Field,        \* Field[c]: for each field, its paths
  Nillable,     \* names whose declaration is nillable
  Values,       \* comparable identity keys of simple values
  NilKey,       \* the key of a nilled element
  NoValue,      \* an empty field
  MaxErrors,            \* normalized limits, never 0: of diagnostics, and
  MaxScopes, MaxEntries,  \* of the sessions for the documents of each root
  Contents,     \* bound of the model: what an element of a name may contain
  Attributes,   \* bound of the model: what its attribute may contain
  Modes,        \* bound of the model: assessment modes in use for a name
  MaxDepth, MaxElements   \* bounds of the model, for the documents of each root

(***************************************************************************)
(* A path is "." or a number of steps, each the set of names its name test *)
(* admits, optionally behind ".//"; a field path may end in an attribute.  *)
(***************************************************************************)
Path(descendant, steps, attribute) ==
  [descendant |-> descendant, steps |-> steps, attribute |-> attribute]

Paths == [descendant : BOOLEAN, steps : Seq(SUBSET Names), attribute : BOOLEAN]

ASSUME KindAssumption ==
  /\ Kind \in [Constraints -> {"unique", "key", "keyref"}]
  /\ \A c \in Constraints : Kind[c] = "keyref" => Kind[Refer[c]] \in {"unique", "key"}
ASSUME SchemaAssumption ==
  /\ Owned \in [Names -> Seq(Constraints)]
  /\ Field \in [Constraints -> Seq(SUBSET Paths)]
  /\ Modes \in [Names -> SUBSET {"declared", "lax", "skipped", "recovery"}]
ASSUME ContentAssumption ==
  \A n \in Names :
    /\ \A a \in Attributes[n] : /\ a.kind \in {"none", "value", "invalid", "unassessed"}
                                /\ a.kind = "value" => a.value \in Values
    /\ \A a \in Contents[n] : a.kind \in {"value", "id"} => a.value \in Values
ASSUME LimitAssumption ==
  /\ MaxErrors \in Nat \ {0}
  /\ MaxScopes \in [Names -> Nat \ {0}]
  /\ MaxEntries \in [Names -> Nat \ {0}]

VARIABLES
  phase,     \* where the current handler is
  frames,    \* doc.xmlDocument's frames, with doc.namePath
  identity,  \* doc.identity
  errors,    \* doc.errors: what each diagnostic is about
  tree       \* history: the elements read so far, in document order

vars == <<phase, frames, identity, errors, tree>>

EmptyTable == [k \in {} |-> NoValue]

NewIdentity == [ids |-> {}, scopes |-> <<>>, selections |-> <<>>,
                fieldValues |-> <<>>, entries |-> 0, nextNode |-> 0]

NewScope(depth, owned) ==
  [depth |-> depth, constraints |-> owned, refs |-> <<>>, invalid |-> FALSE,
   tables |-> [c \in Constraints |-> EmptyTable]]

AbsentField == [state |-> "absent", value |-> NoValue, nillable |-> FALSE]

Init ==
  /\ phase = "run"
  /\ frames = <<>>
  /\ identity = NewIdentity
  /\ errors = <<>>
  /\ tree = <<>>

Depth == Len(frames)
Assessed(mode) == mode \in {"declared", "lax"}
HasNillableDecl(frame) == frame.mode = "declared" /\ frame.name \in Nillable

-----------------------------------------------------------------------------
(* Reporting.                                                              *)

(* What recover leaves of doc.errors.                                      *)
Collected(reports) == SubSeq(errors \o reports, 1,
                             IF Len(errors \o reports) <= MaxErrors
                             THEN Len(errors \o reports) ELSE MaxErrors)

(* A handler went on to new state, after the given reports.  Reaching the  *)
(* limit discards the semantic state: only XML syntax is checked from      *)
(* there on, so nothing is left for this module to do.                     *)
Continue(reports, next, newFrames, newIdentity) ==
  /\ errors' = Collected(reports)
  /\ IF Len(errors') = MaxErrors
     THEN phase' = "syntax" /\ frames' = <<>> /\ identity' = NewIdentity
     ELSE phase' = next /\ frames' = newFrames /\ identity' = newIdentity

(* An identity limit was exceeded: that error is never recovered from.     *)
Fatal == /\ phase' = "failed"
         /\ frames' = <<>>
         /\ identity' = NewIdentity
         /\ errors' = <<>>

When(condition, code, element) ==
  IF condition THEN <<[code |-> code, element |-> element]>> ELSE <<>>

-----------------------------------------------------------------------------
(* Selector and field paths, matched against the names of the open         *)
(* elements from a base depth on.                                          *)

IsSelf(p) == p.steps = <<>> /\ ~p.descendant

PathMatches(open, base, p) ==
  LET rel == SubSeq(open, base + 1, Len(open))
      n   == Len(p.steps)
  IN  IF IsSelf(p) THEN Len(open) = base
      ELSE /\ IF p.descendant THEN Len(rel) >= n ELSE Len(rel) = n
           /\ \A i \in 1..n : rel[Len(rel) - n + i].name \in p.steps[i]

(* A match is a selection and one of its fields.                           *)
FieldMatches(open, s, attribute) ==
  UNION {{<<i, f>> : f \in {f \in DOMAIN Field[s.selections[i].constraint] :
            \E p \in Field[s.selections[i].constraint][f] :
               p.attribute = attribute /\ PathMatches(open, s.selections[i].depth, p)}}
         : i \in DOMAIN s.selections}

CellOf(s, match) == s.selections[match[1]].fieldStart + match[2]
CellsOf(s, matches) == {CellOf(s, m) : m \in matches}
ScopesOf(s, matches) == {s.selections[m[1]].scope : m \in matches}

(* The path of the selection that a match-level diagnostic names.          *)
FirstElement(s, matches) ==
  s.selections[CHOOSE i \in {m[1] : m \in matches} : \A m \in matches : i <= m[1]].element

InvalidScopes(s, indexes) ==
  [i \in DOMAIN s.scopes |->
     IF i \in indexes THEN [s.scopes[i] EXCEPT !.invalid = TRUE] ELSE s.scopes[i]]

(* The matches whose field already selected another node.                  *)
Repeated(s, matches) ==
  {m \in matches : s.fieldValues[CellOf(s, m)].state = "present"}

(* CaptureFields: a field that selects a second node becomes invalid.      *)
Capture(s, matches, v) ==
  [s EXCEPT
     !.scopes = InvalidScopes(s, ScopesOf(s, Repeated(s, matches))),
     !.fieldValues =
       [k \in DOMAIN @ |->
          IF k \notin CellsOf(s, matches) \/ @[k].state = "invalid" THEN @[k]
          ELSE IF @[k].state = "absent"
               THEN [@[k] EXCEPT !.state = "present", !.value = v]
               ELSE [@[k] EXCEPT !.state = "invalid", !.value = NoValue]]]

(* InvalidateFields: the selected node is there, but it has no value.      *)
Invalidate(s, matches) ==
  [s EXCEPT
     !.scopes = InvalidScopes(s, ScopesOf(s, matches)),
     !.fieldValues =
       [k \in DOMAIN @ |->
          IF k \in CellsOf(s, matches)
          THEN [@[k] EXCEPT !.state = "invalid", !.value = NoValue] ELSE @[k]]]

(* MarkNillableKeyFields.                                                  *)
MarkNillable(s, matches) ==
  LET keys == {m \in matches : Kind[s.selections[m[1]].constraint] = "key"}
  IN  [s EXCEPT !.fieldValues =
         [k \in DOMAIN @ |->
            IF k \in CellsOf(s, keys) /\ @[k].state = "present"
            THEN [@[k] EXCEPT !.nillable = TRUE] ELSE @[k]]]

(* finishNillableKeyFields for the element that is ending.                 *)
NillableFields(s, open, frame) ==
  IF ~HasNillableDecl(frame) THEN s
  ELSE IF frame.invalid THEN Invalidate(s, FieldMatches(open, s, FALSE))
                        ELSE MarkNillable(s, FieldMatches(open, s, FALSE))

-----------------------------------------------------------------------------
(* Start tags.                                                             *)

(* startScope: a declaration without constraints opens none.               *)
OpenScope(s, frame, depth) ==
  IF frame.mode = "declared" /\ Owned[frame.name] # <<>>
  THEN [s EXCEPT !.scopes = Append(@, NewScope(depth, Owned[frame.name]))] ELSE s

(* startSelection: the fields of a selection are a slice at the end of     *)
(* fieldValues, and every selection is a node of its own.                  *)
StartSelection(s, x) ==
  LET count == Len(Field[x.constraint])
  IN  [s EXCEPT
         !.nextNode = @ + 1,
         !.fieldValues = @ \o [k \in 1..count |-> AbsentField],
         !.selections = Append(@,
           [scope |-> x.scope, constraint |-> x.constraint,
            depth |-> x.depth, element |-> x.element, node |-> s.nextNode + 1,
            fieldStart |-> Len(s.fieldValues), fieldLen |-> count])]

(* matchSelectors: the constraints of the open scopes, and whether their   *)
(* selectors match the element just opened; scope by scope.                *)
Selectors(i, scope, open) ==
  [k \in DOMAIN scope.constraints |->
     [scope |-> i, constraint |-> scope.constraints[k],
      depth |-> Len(open), element |-> Last(open).node,
      matches |-> \E p \in Selector[scope.constraints[k]] : PathMatches(open, scope.depth, p)]]

MatchSelector(s, x) == IF x.matches THEN StartSelection(s, x) ELSE s
MatchScope(s, selectors) == FoldLeft(MatchSelector, s, selectors)

OpenSelections(s, open) ==
  FoldLeft(MatchScope, s, [i \in DOMAIN s.scopes |-> Selectors(i, s.scopes[i], open)])

(* The attribute of the element: captured, or rejected as a field when it  *)
(* is invalid (assessed element), not assessed (skipped element or         *)
(* attribute wildcard), or below a recovered element.                      *)
AttributeFields(s, open, attr) ==
  LET matches == FieldMatches(open, s, TRUE)
      mode == Last(open).mode
  IN  IF attr.kind = "none" THEN s
      ELSE IF Assessed(mode) /\ attr.kind = "value" THEN Capture(s, matches, attr.value)
      ELSE Invalidate(s, matches)

(* Slip: an attribute that a skip wildcard admits is rejected in silence.  *)
AttributeReportsOfAssessed(s, open, attr) ==
  LET matches == FieldMatches(open, s, TRUE)
      mode == Last(open).mode
  IN  CASE attr.kind = "none" \/ ~Assessed(mode) -> <<>>
        [] attr.kind = "value" ->
             When(Repeated(s, matches) # {}, "multiple", FirstElement(s, Repeated(s, matches)))
        [] attr.kind = "invalid" -> When(TRUE, "assessment", Last(open).node)
        [] OTHER -> <<>>

AttributeReports(s, open, attr) ==
  LET matches == FieldMatches(open, s, TRUE)
      mode == Last(open).mode
  IN  IF attr.kind = "none" THEN <<>>
      ELSE IF Assessed(mode) /\ attr.kind = "value"
      THEN When(Repeated(s, matches) # {}, "multiple", FirstElement(s, Repeated(s, matches)))
      ELSE IF Assessed(mode) /\ attr.kind = "invalid"
      THEN When(TRUE, "assessment", Last(open).node)
      ELSE When(mode # "recovery" /\ matches # {}, "nosimple", FirstElement(s, matches))

NewFrame(name, mode, nilled) ==
  [node |-> Len(tree) + 1, name |-> name, mode |-> mode, nilled |-> nilled, invalid |-> FALSE]

NewElement(name, mode, nilled, attr) ==
  [parent |-> IF frames = <<>> THEN 0 ELSE Last(frames).node, name |-> name, mode |-> mode,
   nilled |-> nilled, attr |-> attr, content |-> [kind |-> "open"], invalid |-> FALSE]

Fits ==
  /\ phase = "run"
  /\ tree # <<>> =>
       Depth < MaxDepth[tree[1].name] /\ Len(tree) < MaxElements[tree[1].name]

(* startFrameIdentity and validateStartAttributes, once the element has    *)
(* been admitted in the given mode.                                        *)
Open(frame, attr, before) ==
  LET open   == Append(before, frame)
      scoped == OpenScope(identity, frame, Len(open))
      s      == IF frame.mode = "recovery" THEN identity ELSE OpenSelections(scoped, open)
      failed == Assessed(frame.mode) /\ attr.kind = "invalid"
  IN  IF \/ Len(s.scopes) > MaxScopes[open[1].name]
        \/ Len(s.selections) > MaxEntries[open[1].name]
      THEN Fatal
      ELSE Continue(AttributeReports(s, open, attr), "run",
                    Append(before, [frame EXCEPT !.invalid = failed]),
                    AttributeFields(s, open, attr))

(* An element its parent's content model admits.  Below a skipped or       *)
(* recovered element nothing is assessed.                                  *)
StartElement(name, mode, nilled, attr) ==
  /\ Fits
  /\ nilled => mode = "declared" /\ name \in Nillable
  /\ IF frames = <<>>
     THEN tree = <<>> /\ name \in Roots /\ mode = "declared"
     ELSE IF Assessed(Last(frames).mode)
          THEN mode # "recovery" /\ <<Last(frames).name, name>> \in Admits
          ELSE mode = Last(frames).mode
  /\ tree' = Append(tree, NewElement(name, mode, nilled, attr))
  /\ Open(NewFrame(name, mode, nilled), attr, frames)

(* An element its parent does not admit, or an unknown root: reported      *)
(* before the frame is pushed, then read without assessment.               *)
StartUnexpected(name, attr) ==
  /\ Fits
  /\ "recovery" \in Modes[name]
  /\ frames # <<>> => "recovery" \in Modes[frames[1].name]
  /\ IF frames = <<>>
     THEN tree = <<>> /\ name \notin Roots
     ELSE Assessed(Last(frames).mode) /\ <<Last(frames).name, name>> \notin Admits
  /\ tree' = Append(IF frames = <<>> THEN tree
                    ELSE [tree EXCEPT ![Last(frames).node].invalid = TRUE],
                    NewElement(name, "recovery", FALSE, attr))
  /\ LET parents == IF frames = <<>> THEN frames ELSE [frames EXCEPT ![Depth].invalid = TRUE]
         open == Append(parents, NewFrame(name, "recovery", FALSE))
     IN  Continue(<<[code |-> "assessment", element |-> Len(tree) + 1]>>, "run", open,
                  AttributeFields(identity, open, attr))

(* Character data, or an incomplete child sequence, that the type of the   *)
(* open element does not allow.                                            *)
Misassess ==
  /\ phase = "run"
  /\ frames # <<>> /\ "recovery" \in Modes[frames[1].name]
  /\ Assessed(Last(frames).mode) /\ ~Last(frames).invalid
  /\ tree' = [tree EXCEPT ![Last(frames).node].invalid = TRUE]
  /\ Continue(<<[code |-> "assessment", element |-> Last(frames).node]>>, "run",
              [frames EXCEPT ![Depth].invalid = TRUE], identity)

-----------------------------------------------------------------------------
(* End tags: validateFrameEnd and the first finishNillableKeyFields.       *)

(* The node of an ending element as a field: its value is captured, or it  *)
(* is there without one.                                                   *)
Ending(content, captured, reports, failed) ==
  LET frame == [Last(frames) EXCEPT !.invalid = @ \/ failed]
  IN  /\ tree' = [tree EXCEPT ![frame.node].content = content,
                              ![frame.node].invalid = frame.invalid]
      /\ Continue(reports, "owned", [frames EXCEPT ![Depth] = frame],
                  NillableFields(captured, frames, frame))

Closing == phase = "run" /\ frames # <<>>
Here == FieldMatches(frames, identity, FALSE)

RejectFields(content, report) ==
  Ending(content, Invalidate(identity, Here),
         When(report /\ Here # {}, "nosimple", FirstElement(identity, Here)), FALSE)

CaptureFields(content, s, v) ==
  Ending(content, Capture(s, Here, v),
         When(Repeated(s, Here) # {}, "multiple", FirstElement(s, Repeated(s, Here))), FALSE)

EndUnassessed ==
  /\ Closing
  /\ ~Assessed(Last(frames).mode)
  /\ RejectFields([kind |-> "complex"], Last(frames).mode = "skipped")

EndWithoutValue ==
  /\ Closing
  /\ Assessed(Last(frames).mode)
  /\ \E content \in Contents[Last(frames).name] : content.kind = "complex" /\ RejectFields(content, TRUE)

EndNilled ==
  /\ Closing
  /\ Last(frames).nilled
  /\ CaptureFields([kind |-> "value", value |-> NilKey], identity, NilKey)

EndWithValue ==
  /\ Closing
  /\ Assessed(Last(frames).mode) /\ ~Last(frames).nilled
  /\ \E content \in Contents[Last(frames).name] :
       content.kind = "value" /\ CaptureFields(content, identity, content.value)

EndWithBadValue ==
  /\ Closing
  /\ Assessed(Last(frames).mode) /\ ~Last(frames).nilled
  /\ \E content \in Contents[Last(frames).name] :
       /\ content.kind = "invalid"
       /\ Ending(content, Invalidate(identity, Here),
                 <<[code |-> "assessment", element |-> Last(frames).node]>>, TRUE)

(* Content of type xs:ID: recordIdentityFields stores a new ID, which      *)
(* takes one of the entries that tuples take too.                          *)
EndWithID ==
  /\ Closing
  /\ Assessed(Last(frames).mode) /\ ~Last(frames).nilled
  /\ \E content \in Contents[Last(frames).name] :
       /\ content.kind = "id"
       /\ IF content.value \in identity.ids
          THEN Ending([kind |-> "invalid"], Invalidate(identity, Here),
                      <<[code |-> "assessment", element |-> Last(frames).node]>>, TRUE)
          ELSE IF identity.entries >= MaxEntries[frames[1].name]
          THEN Fatal /\ UNCHANGED tree
          ELSE CaptureFields([kind |-> "value", value |-> content.value],
                             [identity EXCEPT !.ids = @ \union {content.value},
                                              !.entries = @ + 1],
                             content.value)

-----------------------------------------------------------------------------
(* finishFrameIdentity: the selections opened at the depth of the element  *)
(* that is ending, its own scope's first.                                  *)

Owner(sel) == identity.scopes[sel.scope]

Finishing(i) ==
  /\ identity.selections[i].depth = Depth
  /\ (phase = "owned") = (Owner(identity.selections[i]).depth = Depth)

Pending == {i \in DOMAIN identity.selections : Finishing(i)}

FieldsOf(sel) == SubSeq(identity.fieldValues, sel.fieldStart + 1, sel.fieldStart + sel.fieldLen)
States(sel) == {FieldsOf(sel)[k].state : k \in DOMAIN FieldsOf(sel)}
Tuple(sel) == [k \in DOMAIN FieldsOf(sel) |-> FieldsOf(sel)[k].value]

(* The selection leaves the list, and its slice is cleared.                *)
Dropped(i) ==
  LET sel == identity.selections[i]
  IN  [identity EXCEPT
         !.selections = RemoveAt(@, i),
         !.fieldValues = [k \in DOMAIN @ |->
           IF k \in sel.fieldStart + 1 .. sel.fieldStart + sel.fieldLen THEN AbsentField ELSE @[k]]]

(* The next selection of this phase finishes.                              *)
Finish(i) ==
  /\ phase \in {"owned", "elsewhere"}
  /\ i \in Pending
  /\ \A j \in Pending : i <= j
  /\ UNCHANGED tree

(* A failed constraint marks the scope it belongs to.                      *)
FinishWithError(i, code) ==
  LET sel == identity.selections[i]
  IN  Continue(<<[code |-> code, element |-> sel.element]>>, phase, frames,
               [Dropped(i) EXCEPT !.scopes[sel.scope].invalid = TRUE])

KindOf(i) == Kind[identity.selections[i].constraint]
Qualified(i) == States(identity.selections[i]) = {"present"}

(* An invalid field was reported already, and an absent one only counts    *)
(* for a key.                                                              *)
FinishUnqualified(i) ==
  /\ Finish(i)
  /\ LET states == States(identity.selections[i])
     IN  IF KindOf(i) = "key" /\ "absent" \in states /\ "invalid" \notin states
         THEN FinishWithError(i, "missing")
         ELSE states # {"present"} /\ Continue(<<>>, phase, frames, Dropped(i))

NillableKey(i) ==
  /\ KindOf(i) = "key"
  /\ \E k \in DOMAIN FieldsOf(identity.selections[i]) :
       FieldsOf(identity.selections[i])[k].nillable

FinishNillable(i) ==
  /\ Finish(i)
  /\ Qualified(i) /\ NillableKey(i)
  /\ FinishWithError(i, "nillable")

TableOf(i) ==
  LET sel == identity.selections[i] IN Owner(sel).tables[sel.constraint]

HasRoom == identity.entries < MaxEntries[frames[1].name]

(* Slip: the tuple is published without being counted.                     *)
PublishUncounted(published) ==
  IF HasRoom THEN Continue(<<>>, phase, frames, published) ELSE Fatal

(* ReserveEntry, then the tuple is published.                              *)
Publish(published) ==
  IF HasRoom
  THEN Continue(<<>>, phase, frames, [published EXCEPT !.entries = @ + 1])
  ELSE Fatal

FinishKey(i) ==
  /\ Finish(i)
  /\ KindOf(i) # "keyref" /\ Qualified(i) /\ ~NillableKey(i)
  /\ LET sel == identity.selections[i]
         entry == [element |-> sel.element, node |-> sel.node, conflict |-> FALSE]
     IN  IF Tuple(sel) \in DOMAIN TableOf(i) THEN FinishWithError(i, "duplicate")
         ELSE Publish([Dropped(i) EXCEPT
                !.scopes[sel.scope].tables[sel.constraint] =
                   [k \in DOMAIN @ \union {Tuple(sel)} |->
                      IF k \in DOMAIN @ THEN @[k] ELSE entry]])

FinishRef(i) ==
  /\ Finish(i)
  /\ KindOf(i) = "keyref" /\ Qualified(i)
  /\ LET sel == identity.selections[i]
         ref == [key |-> Tuple(sel), refer |-> Refer[sel.constraint], element |-> sel.element]
     IN  Publish([Dropped(i) EXCEPT !.scopes[sel.scope].refs = Append(@, ref)])

(* truncateFieldValues: what no remaining selection refers to is cut off.  *)
Truncated(s) ==
  LET ends == {s.selections[i].fieldStart + s.selections[i].fieldLen : i \in DOMAIN s.selections}
      n == CHOOSE n \in ends \union {0} : \A m \in ends : m <= n
  IN  [s EXCEPT !.fieldValues = SubSeq(@, 1, n)]

-----------------------------------------------------------------------------
(* CloseScopes.                                                            *)

(* mergeIdentityTables, one table: two entries for a tuple conflict when   *)
(* they are about different nodes.                                         *)
MergeTable(dst, src) ==
  [k \in DOMAIN dst \union DOMAIN src |->
     IF k \notin DOMAIN dst THEN src[k]
     ELSE IF k \notin DOMAIN src THEN dst[k]
     ELSE [dst[k] EXCEPT !.conflict = @ \/ src[k].conflict \/ src[k].node # dst[k].node]]

(* Slip: an ambiguous key resolves references.                             *)
ResolvesAmbiguously(scope, ref) == ref.key \in DOMAIN scope.tables[ref.refer]

ResolvesIn(scope, ref) ==
  LET table == scope.tables[ref.refer]
  IN  ref.key \in DOMAIN table /\ ~table[ref.key].conflict

(* A reference of the closing scope without a key of its own is reported.  *)
AddUnresolved(reports, ref) ==
  reports \o When(~ResolvesIn(Last(identity.scopes), ref), "unresolved", ref.element)

(* The closed scope's tables go to the scope below it on the stack.        *)
PopScope(s) ==
  LET scopes == Front(s.scopes)
      top == Last(s.scopes)
  IN  [s EXCEPT !.scopes =
         IF scopes = <<>> THEN scopes
         ELSE [scopes EXCEPT ![Len(scopes)].tables =
                 [c \in Constraints |-> MergeTable(@[c], top.tables[c])]]]

OwnScope == identity.scopes # <<>> /\ Last(identity.scopes).depth = Depth

(* The element's own scope, if it has one, resolves its keyrefs and is     *)
(* closed; a failed constraint is a failed assessment of the element,      *)
(* which invalidates it as a nillable field.                               *)
CloseScope ==
  /\ phase = "owned"
  /\ Pending = {}
  /\ OwnScope
  /\ LET scope == Last(identity.scopes)
         unresolved == FoldLeft(AddUnresolved, <<>>, scope.refs)
         failed == scope.invalid \/ unresolved # <<>>
         frame == [Last(frames) EXCEPT !.invalid = @ \/ failed]
         closed == PopScope(Truncated(identity))
     IN  /\ tree' = [tree EXCEPT ![frame.node].invalid = frame.invalid]
         /\ Continue(unresolved, "elsewhere", [frames EXCEPT ![Depth] = frame],
                     IF failed THEN NillableFields(closed, frames, frame) ELSE closed)

CloseNoScope ==
  /\ phase = "owned"
  /\ Pending = {}
  /\ ~OwnScope
  /\ UNCHANGED tree
  /\ Continue(<<>>, "elsewhere", frames, Truncated(identity))

(* Slip: the frame is popped before the outer selections have finished.    *)
PopFrameEarly ==
  /\ phase = "elsewhere"
  /\ UNCHANGED tree
  /\ Continue(<<>>, IF Depth = 1 THEN "done" ELSE "run", Front(frames), Truncated(identity))

(* The name path and the frame are popped.                                 *)
PopFrame ==
  /\ phase = "elsewhere"
  /\ Pending = {}
  /\ UNCHANGED tree
  /\ Continue(<<>>, IF Depth = 1 THEN "done" ELSE "run", Front(frames), Truncated(identity))

(* The next document: IdentityState.Reset.                                 *)
Reset ==
  /\ phase \in {"done", "syntax", "failed"}
  /\ phase' = "run"
  /\ frames' = <<>>
  /\ identity' = NewIdentity
  /\ errors' = <<>>
  /\ tree' = <<>>

-----------------------------------------------------------------------------
StartTag ==
  \E name \in Names : \E attr \in Attributes[name] :
    \/ \E mode \in Modes[name], nilled \in BOOLEAN : StartElement(name, mode, nilled, attr)
    \/ StartUnexpected(name, attr)

EndTag ==
  \/ EndUnassessed
  \/ EndWithoutValue
  \/ EndNilled
  \/ EndWithValue
  \/ EndWithBadValue
  \/ EndWithID

FinishSelection ==
  \E i \in DOMAIN identity.selections :
    FinishUnqualified(i) \/ FinishNillable(i) \/ FinishKey(i) \/ FinishRef(i)

Next ==
  \/ StartTag
  \/ Misassess
  \/ EndTag
  \/ FinishSelection
  \/ CloseScope
  \/ CloseNoScope
  \/ PopFrame
  \/ Reset

Spec == Init /\ [][Next]_vars
=============================================================================
