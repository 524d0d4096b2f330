------------------------------ MODULE Document ------------------------------
(***************************************************************************)
(* The element stack of a validation and everything that is kept beside    *)
(* it: namespace bindings, the cached path of diagnostics, the name path   *)
(* of identity constraints, and two arenas that the open elements share,   *)
(* one of occurrence bits of all-groups and one of character data.         *)
(*                                                                         *)
(* Each arena is a stack whose marks lie in the frames of the element      *)
(* stack.  A handler changes several of them, and may stop between the     *)
(* changes: on a syntax error, a fatal error, or when the limit of         *)
(* collected diagnostics is reached.  From then on only XML syntax is      *)
(* checked, and the semantic state is dropped.                             *)
(***************************************************************************)
EXTENDS Naturals, Sequences, FiniteSets, SequencesExt

CONSTANTS
  Names,        \* bound of the model: lexical element names, [space, local]
  Tags,         \* bound of the model: attribute lists a start tag may carry
  Known,        \* expanded names the schema knows
  Particles,    \* bound of the model: particles of an all-group, one word
  Starts,       \* bound of the model: how an element may start
  Chunks,       \* bound of the model: character data of one token
  HasIdentityConstraints,
  MaxInstanceDepth, MaxInstanceTextBytes, MaxErrors  \* normalized limits

ASSUME LimitAssumption ==
  /\ HasIdentityConstraints \in BOOLEAN
  /\ MaxInstanceDepth \in Nat \ {0}
  /\ MaxInstanceTextBytes \in Nat \ {0}
  /\ MaxErrors \in Nat \ {0}

(***************************************************************************)
(* How an element starts: the assessment mode of its frame, what its type  *)
(* asks of the frame (words of occurrence bits, character data), xsi:nil,  *)
(* the particle of the parent's all-group it occurs as (word 0: none), the *)
(* diagnostics reported before and after the frame is pushed, and whether  *)
(* a selection asks for the path.                                          *)
(***************************************************************************)
Modes == {"assessed", "skipped", "recovery"}

ASSUME StartsAssumption ==
  Starts \subseteq [mode : Modes, length : Nat, collects : BOOLEAN, nilled : BOOLEAN,
                    word : Nat, particle : Particles, before : 0..1, after : 0..1,
                    asked : BOOLEAN]

VARIABLES
  phase,       \* "reading", or how the call ended
  elements,    \* doc.elements with their payloads, the frames
  ns,          \* doc.ns: frames and bindings
  seenRoot,    \* doc.seenRoot
  path,        \* doc.pathText and doc.pathTextDepth
  namePath,    \* doc.namePath
  bits,        \* doc.allBits: the words of its array, and how many are used
  text,        \* doc.text
  errors,      \* Len(doc.errors)
  syntaxOnly,  \* doc.syntaxOnly
  open         \* history: what the document says of its open elements

xml == <<elements, ns, seenRoot>>
arenas == <<namePath, bits, text>>
vars == <<phase, xml, path, arenas, errors, syntaxOnly, open>>

XmlPrefix == "xml"
XmlnsPrefix == "xmlns"
XmlUri == "http://www.w3.org/XML/1998/namespace"
XmlnsUri == "http://www.w3.org/2000/xmlns/"
Unbound == "(unbound)"

Depth == Len(elements)
Top == Last(elements)

Init ==
  /\ phase = "reading"
  /\ elements = <<>>
  /\ ns = [frames |-> <<>>, bindings |-> <<>>]
  /\ seenRoot = FALSE
  /\ path = [text |-> <<>>, depth |-> 0]
  /\ namePath = <<>>
  /\ bits = [words |-> <<>>, used |-> 0]
  /\ text = <<>>
  /\ errors = 0
  /\ syntaxOnly = FALSE
  /\ open = <<>>

-----------------------------------------------------------------------------
(* Namespace declarations and names.                                       *)

IsNamespaceName(name) ==
  name.space = XmlnsPrefix \/ (name.space = "" /\ name.local = XmlnsPrefix)

(* appendBinding: the prefix that a declaration binds, and what it may be. *)
Binding(attr) == [prefix |-> IF attr.name.space = XmlnsPrefix THEN attr.name.local ELSE "",
                  uri |-> attr.value]

LegalBinding(b) ==
  /\ b.prefix # XmlnsPrefix /\ b.uri # XmlnsUri
  /\ b.prefix = XmlPrefix <=> b.uri = XmlUri
  /\ b.uri = "" => b.prefix = ""

(* The loop of PushStream.                                                 *)
AddBinding(bindings, attr) ==
  IF IsNamespaceName(attr.name) THEN Append(bindings, Binding(attr)) ELSE bindings

Declarations(attrs) == FoldLeft(AddBinding, <<>>, attrs)

(* Names and attributes as the parser splits them: no local part is empty. *)
LexicalNames == [space : STRING, local : STRING \ {""}]
LexicalAttributes == [name : LexicalNames, value : STRING]

ASSUME NamesAssumption == Names \subseteq LexicalNames
ASSUME TagsAssumption == Tags \subseteq Seq(LexicalAttributes)

(* Slip: a prefix is resolved by its outermost declaration.                *)
LookupFirst(bindings, prefix) ==
  LET found == {i \in DOMAIN bindings : bindings[i].prefix = prefix}
  IN  IF prefix = XmlPrefix THEN XmlUri
      ELSE IF found # {} THEN bindings[CHOOSE i \in found : \A j \in found : i <= j].uri
      ELSE IF prefix = "" THEN "" ELSE Unbound

(* Stack.Lookup.                                                           *)
Lookup(bindings, prefix) ==
  LET found == {i \in DOMAIN bindings : bindings[i].prefix = prefix}
  IN  IF prefix = XmlPrefix THEN XmlUri
      ELSE IF found # {} THEN bindings[CHOOSE i \in found : \A j \in found : j <= i].uri
      ELSE IF prefix = "" THEN "" ELSE Unbound

ElementName(bindings, name) ==
  [space |-> Lookup(bindings, name.space), local |-> name.local]

AttributeName(bindings, name) ==
  IF IsNamespaceName(name) \/ name.space = "" THEN name
  ELSE [space |-> Lookup(bindings, name.space), local |-> name.local]

Declarable(attrs) ==
  \A i \in DOMAIN Declarations(attrs) : LegalBinding(Declarations(attrs)[i])

Pushed(attrs) == ns.bindings \o Declarations(attrs)

(* PushStream: appendBinding cuts back what was appended before an illegal *)
(* declaration, and no frame is pushed.                                    *)
PushStream(attrs) ==
  IF Declarable(attrs)
  THEN [frames |-> Append(ns.frames, Len(ns.bindings)), bindings |-> Pushed(attrs)]
  ELSE [frames |-> ns.frames, bindings |-> SubSeq(Pushed(attrs), 1, Len(ns.bindings))]

Pop(stack) ==
  IF stack.frames = <<>> THEN stack
  ELSE [frames |-> Front(stack.frames),
        bindings |-> SubSeq(stack.bindings, 1, Last(stack.frames))]

(* PrepareStart.                                                           *)
IsUnique(names) == \A i, j \in DOMAIN names : names[i] = names[j] => i = j

HasUniqueNames(attrs) ==
  IsUnique([i \in DOMAIN attrs |-> AttributeName(Pushed(attrs), attrs[i].name)])

Preparable(name, attrs) ==
  /\ Declarable(attrs)
  /\ ElementName(Pushed(attrs), name).space # Unbound
  /\ \A i \in DOMAIN attrs : AttributeName(Pushed(attrs), attrs[i].name).space # Unbound
  /\ HasUniqueNames(attrs)
  /\ ~(seenRoot /\ Depth = 0)

(* Slip: nothing is popped where two attributes have one name.             *)
KeptByDuplicates(attrs) ==
  IF Declarable(attrs) /\ HasUniqueNames(attrs) THEN Pop(PushStream(attrs)) ELSE PushStream(attrs)

(* What it leaves when it fails: each check after the push pops.           *)
RolledBack(attrs) == IF Declarable(attrs) THEN Pop(PushStream(attrs)) ELSE PushStream(attrs)

-----------------------------------------------------------------------------
(* PathString, cached for the first path.depth elements.                   *)

Segment(element) ==
  <<"/">> \o (IF element.expanded THEN <<"{", element.name.space, "}">> ELSE <<>>)
          \o <<element.name.local>>

(* Slip: the length of an expanded segment is that of a local name.        *)
LocalLength(below, expanded) ==
  2 + (IF below = <<>> THEN 0 ELSE Last(below).pathLength)

(* CommitStart's pathLength of an element above the given ones.            *)
PathLength(below, expanded) ==
  2 + (IF expanded THEN 3 ELSE 0) + (IF below = <<>> THEN 0 ELSE Last(below).pathLength)

Rendered(stack) == FoldLeft(LAMBDA acc, e : acc \o Segment(e), <<>>, stack)

(* The cache after a diagnostic or a selection asked for the path.         *)
Asked(cache, stack) ==
  IF stack = <<>> \/ cache.depth = Len(stack) THEN cache
  ELSE [text |-> cache.text \o Rendered(SubSeq(stack, cache.depth + 1, Len(stack))),
        depth |-> Len(stack)]

(* CommitEnd, for the elements that stay.                                  *)
Popped(cache, stack) ==
  IF cache.depth <= Len(stack) THEN cache
  ELSE IF stack = <<>> THEN [text |-> <<>>, depth |-> 0]
  ELSE [text |-> SubSeq(cache.text, 1, Last(stack).pathLength), depth |-> Len(stack)]

-----------------------------------------------------------------------------
(* Frames and arenas.                                                      *)

EmptyFrame == [mode |-> "recovery", nilled |-> FALSE, collects |-> FALSE,
               bitBase |-> 0, bitLen |-> 0, textStart |-> 0]

(* Slip: the words a frame takes over are left as they are.                *)
GrownDirty(length) ==
  [words |-> bits.words \o [i \in 1..(IF bits.used + length <= Len(bits.words) THEN 0
                                      ELSE bits.used + length - Len(bits.words)) |-> {}],
   used |-> bits.used + length]

(* newSchemaFrame: words above the used ones may hold what an earlier      *)
(* frame, or an earlier document, left in them.                            *)
Grown(length) ==
  LET last == bits.used + length
      size == IF last <= Len(bits.words) THEN Len(bits.words) ELSE last
  IN  [words |-> [i \in 1..size |-> IF i \in bits.used + 1..last THEN {} ELSE bits.words[i]],
       used |-> last]

PushElement(name, prefix, expanded, frame) ==
  Append(elements, [name |-> name, prefix |-> prefix, expanded |-> expanded,
                    pathLength |-> PathLength(elements, expanded), frame |-> frame])

(* discardSemanticState, over elements that stay open.                     *)
Discard(stack) ==
  /\ elements' = [i \in DOMAIN stack |-> [stack[i] EXCEPT !.frame = EmptyFrame]]
  /\ namePath' = <<>>
  /\ bits' = [words |-> <<>>, used |-> 0]
  /\ text' = <<>>

(* The call ends, and leaves the given stack of namespaces.                *)
FailWith(kind, stack) ==
  /\ phase' = kind
  /\ ns' = stack
  /\ UNCHANGED <<elements, seenRoot, path, arenas, errors, syntaxOnly, open>>

Fail(kind) == FailWith(kind, ns)

(* What the document says of an element that has just been opened.         *)
Told(name, attrs) ==
  [name |-> name, declared |-> Declarations(attrs), data |-> <<>>, seen |-> {}]

-----------------------------------------------------------------------------
(* Start tags.                                                             *)

Reading == phase = "reading"

TooDeep == Depth + 1 > MaxInstanceDepth

StartTooDeep == Reading /\ TooDeep /\ Fail("limit")

StartMalformed(name, attrs) ==
  /\ Reading /\ ~TooDeep
  /\ ~Preparable(name, attrs)
  /\ FailWith("xml", RolledBack(attrs))

StartWith(name, attrs) == Reading /\ ~TooDeep /\ Preparable(name, attrs)

(* A limit of hints, or an unsupported construct: AbortStart pops the      *)
(* bindings, and the call ends.                                            *)
StartAborted(name, attrs) ==
  /\ StartWith(name, attrs)
  /\ ~syntaxOnly
  /\ FailWith("fatal", Pop(PushStream(attrs)))

Inherited == elements # <<>> /\ Top.frame.mode # "assessed"

Particle(start) == <<start.word, start.particle>>

(* startType and assessElementStart: below an element that is not assessed *)
(* none is; what the parent does not admit is reported and not assessed;   *)
(* an all-group takes each of its particles once.                          *)
Admitted(start) ==
  /\ Inherited => start.mode = Top.frame.mode /\ start.word = 0 /\ start.before = 0
  /\ ~Inherited /\ start.mode = "recovery" => start.before = 1
  /\ elements = <<>> => start.mode # "skipped" /\ start.word = 0
  /\ start.mode # "assessed" => start.length = 0 /\ ~start.collects /\ ~start.nilled
  /\ start.mode = "recovery" => ~start.asked
  /\ start.after = 1 => start.asked
  /\ start.word # 0 =>
       /\ start.mode # "skipped"
       /\ start.word <= Top.frame.bitLen
       /\ start.particle \notin bits.words[Top.frame.bitBase + start.word]
  /\ elements # <<>> /\ Top.frame.nilled => start.mode = "recovery" /\ start.word = 0

FrameOf(start) ==
  [mode |-> start.mode, nilled |-> start.nilled, collects |-> start.collects,
   bitBase |-> bits.used, bitLen |-> start.length, textStart |-> Len(text)]

(* The path names elements the schema does not know in full.               *)
InFull(name, start) == start.mode = "assessed" /\ name \notin Known /\ name.space # ""

MarkSeen(arena, start) ==
  IF start.word = 0 THEN arena
  ELSE [arena EXCEPT !.words[Top.frame.bitBase + start.word] = @ \union {start.particle}]

ToldSeen(start) ==
  IF start.word = 0 THEN open ELSE [open EXCEPT ![Depth].seen = @ \union {Particle(start)}]

Commit(name, attrs, stack, start) ==
  /\ elements' = stack
  /\ ns' = PushStream(attrs)
  /\ seenRoot' = TRUE
  /\ open' = Append(ToldSeen(start), Told(name, attrs))

NoStart == [word |-> 0]

(* syntaxStart.                                                            *)
StartSyntax(name, attrs) ==
  /\ StartWith(name, attrs)
  /\ syntaxOnly
  /\ Commit(name, attrs,
            PushElement(ElementName(Pushed(attrs), name), name.space, FALSE, EmptyFrame), NoStart)
  /\ UNCHANGED <<phase, path, arenas, errors, syntaxOnly>>

(* The frame is pushed and the handler goes on, or the call ends because   *)
(* an attribute or a selection exceeds a limit.                            *)
Start(name, attrs, start) ==
  LET expanded == ElementName(Pushed(attrs), name)
      stack == PushElement(expanded, name.space, InFull(expanded, start), FrameOf(start))
      reported == IF start.before = 1 THEN Asked(path, elements) ELSE path
  IN  /\ StartWith(name, attrs)
      /\ errors' = errors + start.before + start.after
      /\ errors' < MaxErrors
      /\ Commit(name, attrs, stack, start)
      /\ path' = IF start.asked THEN Asked(reported, stack) ELSE reported
      /\ namePath' = IF HasIdentityConstraints THEN Append(namePath, expanded) ELSE namePath
      /\ bits' = MarkSeen(Grown(start.length), start)
      /\ phase' \in {"reading", "fatal"}
      /\ UNCHANGED <<text, syntaxOnly>>

(* The last diagnostic the call collects: reported before the frame is     *)
(* pushed, it leaves an empty frame to push.                               *)
StartAndStop(name, attrs, start) ==
  LET expanded == ElementName(Pushed(attrs), name)
      stack == PushElement(expanded, name.space,
                           start.after = 1 /\ InFull(expanded, start), EmptyFrame)
      reported == IF start.before = 1 THEN Asked(path, elements) ELSE path
  IN  /\ StartWith(name, attrs)
      /\ errors + start.before + start.after = MaxErrors
      /\ errors + start.before = MaxErrors => start.after = 0 /\ ~start.asked
      /\ errors' = MaxErrors
      /\ syntaxOnly' = TRUE
      /\ Discard(stack)
      /\ ns' = PushStream(attrs)
      /\ seenRoot' = TRUE
      /\ open' = Append(open, Told(name, attrs))
      /\ path' = IF start.asked THEN Asked(reported, stack) ELSE reported
      /\ UNCHANGED phase

-----------------------------------------------------------------------------
(* Character data.                                                         *)

(* Text outside the root is a diagnostic like others, but once only syntax *)
(* is checked it ends the call; a CDATA section there always does.         *)
TextOutside(cdata) ==
  /\ Reading /\ elements = <<>>
  /\ IF cdata \/ syntaxOnly
     THEN phase' = "xml" /\ UNCHANGED <<errors, syntaxOnly, arenas>>
     ELSE /\ errors' = errors + 1
          /\ syntaxOnly' = (errors' = MaxErrors)
          /\ bits' = IF syntaxOnly' THEN [words |-> <<>>, used |-> 0] ELSE bits
          /\ UNCHANGED <<phase, namePath, text>>
  /\ UNCHANGED <<xml, path, open>>

(* appendText.                                                             *)
CharsCollected(chunk) ==
  /\ Reading /\ elements # <<>> /\ ~syntaxOnly
  /\ Top.frame.mode = "assessed" /\ ~Top.frame.nilled /\ Top.frame.collects
  /\ IF Len(text) = MaxInstanceTextBytes THEN Fail("limit")
     ELSE /\ text' = Append(text, chunk)
          /\ open' = [open EXCEPT ![Depth].data = Append(@, chunk)]
          /\ UNCHANGED <<phase, xml, path, namePath, bits, errors, syntaxOnly>>

(* A recoverable diagnostic of a handler that changes no stack.            *)
Report ==
  /\ errors' = errors + 1
  /\ path' = Asked(path, elements)
  /\ syntaxOnly' = (errors' = MaxErrors)
  /\ IF syntaxOnly' THEN Discard(elements) ELSE UNCHANGED <<elements, arenas>>
  /\ UNCHANGED <<phase, ns, seenRoot, open>>

(* Character data where the type, or xsi:nil, allows none.                 *)
CharsRefused ==
  /\ Reading /\ elements # <<>> /\ ~syntaxOnly
  /\ Top.frame.mode = "assessed"
  /\ Top.frame.nilled \/ ~Top.frame.collects
  /\ Report

-----------------------------------------------------------------------------
(* End tags.                                                               *)

(* Slip: an end tag is compared by its expanded name only.                 *)
MatchesExpanded(name) == elements # <<>> /\ ElementName(ns.bindings, name) = Top.name

(* ValidateEnd.                                                            *)
Matches(name) ==
  /\ elements # <<>>
  /\ name.space = Top.prefix /\ name.local = Top.name.local
  /\ ElementName(ns.bindings, name) = Top.name

EndMalformed(name) == Reading /\ ~Matches(name) /\ Fail("xml")

CommitEnd ==
  /\ elements' = Front(elements)
  /\ ns' = Pop(ns)
  /\ open' = Front(open)
  /\ UNCHANGED seenRoot

EndSyntax(name) ==
  /\ Reading /\ Matches(name)
  /\ syntaxOnly
  /\ CommitEnd
  /\ path' = Popped(path, Front(elements))
  /\ UNCHANGED <<phase, arenas, errors, syntaxOnly>>

(* end cuts the arenas back to the marks of the frame.                     *)
Released ==
  /\ bits' = [bits EXCEPT !.used = Top.frame.bitBase]
  /\ text' = SubSeq(text, 1, Top.frame.textStart)
  /\ namePath' = IF HasIdentityConstraints THEN Front(namePath) ELSE namePath

(* The element is judged with or without a diagnostic, or the call ends on *)
(* a limit; the stacks are cut back in every case.                         *)
End(name, reports) ==
  /\ Reading /\ Matches(name)
  /\ ~syntaxOnly
  /\ errors + reports < MaxErrors
  /\ errors' = errors + reports
  /\ CommitEnd
  /\ Released
  /\ path' = Popped(IF reports = 0 THEN path ELSE Asked(path, elements), Front(elements))
  /\ phase' \in {"reading", "fatal"}
  /\ UNCHANGED syntaxOnly

EndAndStop(name) ==
  /\ Reading /\ Matches(name)
  /\ ~syntaxOnly /\ errors + 1 = MaxErrors
  /\ errors' = MaxErrors
  /\ syntaxOnly' = TRUE
  /\ Discard(Front(elements))
  /\ ns' = Pop(ns)
  /\ open' = Front(open)
  /\ path' = Popped(Asked(path, elements), Front(elements))
  /\ UNCHANGED <<phase, seenRoot>>

-----------------------------------------------------------------------------
(* Complete, and the next call.                                            *)

EndOfInput ==
  /\ Reading
  /\ phase' = IF ~seenRoot THEN "root" ELSE IF elements # <<>> THEN "xml" ELSE "complete"
  /\ UNCHANGED <<xml, path, arenas, errors, syntaxOnly, open>>

(* reset: the array of occurrence bits is kept as it is.                   *)
Reset ==
  /\ ~Reading
  /\ phase' = "reading"
  /\ elements' = <<>>
  /\ ns' = [frames |-> <<>>, bindings |-> <<>>]
  /\ seenRoot' = FALSE
  /\ path' = [text |-> <<>>, depth |-> 0]
  /\ namePath' = <<>>
  /\ bits' = [bits EXCEPT !.used = 0]
  /\ text' = <<>>
  /\ errors' = 0
  /\ syntaxOnly' = FALSE
  /\ open' = <<>>

StartTag ==
  \/ StartTooDeep
  \/ \E name \in Names, attrs \in Tags :
       \/ StartMalformed(name, attrs)
       \/ StartAborted(name, attrs)
       \/ StartSyntax(name, attrs)
  \/ \E start \in {s \in Starts : Reading /\ ~syntaxOnly /\ Admitted(s)} :
       \E name \in Names, attrs \in Tags :
         Start(name, attrs, start) \/ StartAndStop(name, attrs, start)

CharData ==
  \/ \E cdata \in BOOLEAN : TextOutside(cdata)
  \/ \E chunk \in Chunks : CharsCollected(chunk)
  \/ CharsRefused

EndTag ==
  \E name \in Names :
    \/ EndMalformed(name)
    \/ EndSyntax(name)
    \/ \E reports \in 0..1 : End(name, reports)
    \/ EndAndStop(name)

Next ==
  \/ StartTag
  \/ CharData
  \/ EndTag
  \/ EndOfInput
  \/ Reset

Spec == Init /\ [][Next]_vars
=============================================================================
