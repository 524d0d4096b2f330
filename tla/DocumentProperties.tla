------------------------- MODULE DocumentProperties -------------------------
(***************************************************************************)
(* What the stacks of Document promise, stated by the history of the open  *)
(* elements: the start tags as they were written.                          *)
(***************************************************************************)
EXTENDS Document

CONSTANT Candidates    \* attributes of start tags that are judged, but not all read

ASSUME CandidatesAssumption == Candidates \subseteq Seq(LexicalAttributes)

(* One namespace frame for every open element, its mark where the bindings *)
(* of that element begin; one name of the name path while semantics is     *)
(* checked; none of this is disturbed by a start tag that fails half-way.  *)
StacksAligned ==
  /\ Len(ns.frames) = Depth
  /\ \A d \in DOMAIN ns.frames :
       LET next == IF d = Depth THEN Len(ns.bindings) ELSE ns.frames[d + 1]
       IN  SubSeq(ns.bindings, ns.frames[d] + 1, next) = open[d].declared
  /\ Depth = 0 => ns.bindings = <<>>
  /\ namePath = IF syntaxOnly \/ ~HasIdentityConstraints THEN <<>>
                ELSE [d \in DOMAIN elements |-> elements[d].name]

(* The namespace name in scope: the innermost element that declares it.    *)
InScope(tags, prefix) ==
  LET declares(d) == \E i \in DOMAIN tags[d].declared : tags[d].declared[i].prefix = prefix
      found == {d \in DOMAIN tags : declares(d)}
      nearest == tags[CHOOSE d \in found : \A e \in found : e <= d].declared
  IN  IF prefix = XmlPrefix THEN XmlUri
      ELSE IF found = {} THEN IF prefix = "" THEN "" ELSE Unbound
      ELSE nearest[CHOOSE i \in DOMAIN nearest : nearest[i].prefix = prefix].uri

IsDeclaration(attr) == IsNamespaceName(attr.name)

(* Well-formedness of a start tag, with Namespaces in XML.                 *)
LegalStart(name, attrs) ==
  LET tags == Append(open, Told(name, attrs))
      plain == {i \in DOMAIN attrs : ~IsDeclaration(attrs[i])}
      prefixed == {i \in plain : attrs[i].name.space # ""}
  IN  /\ \A i \in DOMAIN Declarations(attrs) : LegalBinding(Declarations(attrs)[i])
      /\ \A i, j \in DOMAIN attrs : i # j => attrs[i].name # attrs[j].name
      /\ InScope(tags, name.space) # Unbound
      /\ \A i \in prefixed : InScope(tags, attrs[i].name.space) # Unbound
      /\ \A i, j \in prefixed :
           /\ attrs[i].name.local = attrs[j].name.local
           /\ InScope(tags, attrs[i].name.space) = InScope(tags, attrs[j].name.space)
           => i = j
      /\ open = <<>> => ~seenRoot

(* The code tells declarations by their names, resolved or not: it takes a *)
(* name of the namespace "xmlns" for the declaration that is written so.   *)
TakenForDeclaration(name, attrs) ==
  LET tags == Append(open, Told(name, attrs))
  IN  \E i, j \in DOMAIN attrs :
        /\ ~IsDeclaration(attrs[i]) /\ attrs[i].name.space # ""
        /\ InScope(tags, attrs[i].name.space) = XmlnsPrefix
        /\ attrs[j].name = [space |-> XmlnsPrefix, local |-> attrs[i].name.local]

(* In every state, whatever was read, reported or dropped before, exactly  *)
(* the start tags that may stand here are accepted.                        *)
StartTagsAreJudged ==
  phase = "reading" =>
    \A name \in Names, attrs \in Candidates :
      Preparable(name, attrs) <=> LegalStart(name, attrs) /\ ~TakenForDeclaration(name, attrs)

(* And exactly the end tag that closes the innermost open element, by its  *)
(* lexical name.                                                           *)
EndTagsAreJudged ==
  phase = "reading" =>
    \A name \in Names : Matches(name) <=> open # <<>> /\ Last(open).name = name

(* After a semantic error, or without one, the stacks judge tags alike.    *)
TagsAreJudged == StartTagsAreJudged /\ EndTagsAreJudged

(* A name means what the innermost declaration says, whatever was declared *)
(* by elements that are closed.                                            *)
NamesAreInScope ==
  phase = "reading" =>
    /\ \A name \in Names : Lookup(ns.bindings, name.space) = InScope(open, name.space)
    /\ \A d \in DOMAIN elements :
         elements[d].name = [space |-> InScope(SubSeq(open, 1, d), open[d].name.space),
                             local |-> open[d].name.local]

(* The text of an open element is its own character data, in order, with   *)
(* nothing of its children or of an earlier element between.               *)
TextIsOwn ==
  /\ \A d \in DOMAIN elements :
       LET end == IF d = Depth THEN Len(text) ELSE elements[d + 1].frame.textStart
       IN  SubSeq(text, elements[d].frame.textStart + 1, end) = open[d].data
  /\ elements = <<>> => text = <<>>

(* The particles that the words of a frame say have occurred.              *)
SeenIn(frame, words) ==
  UNION {{<<w, k>> : k \in words[frame.bitBase + w]} : w \in 1..frame.bitLen}

(* The occurrence bits of an open element say which particles of its       *)
(* all-group its children have been, whatever the words held before.       *)
BitsAreOwn ==
  \A d \in DOMAIN elements :
    LET frame == elements[d].frame IN
    /\ frame.bitBase + frame.bitLen =
         IF d = Depth THEN bits.used ELSE elements[d + 1].frame.bitBase
    /\ open[d].seen = SeenIn(frame, bits.words)

ArenasAreOwn == phase = "reading" /\ ~syntaxOnly => TextIsOwn /\ BitsAreOwn

(* The cached path is the path of the elements it was cached for, so every *)
(* diagnostic names the element it is about.                               *)
PathIsFresh ==
  /\ path.depth <= Depth
  /\ path.text = Rendered(SubSeq(elements, 1, path.depth))
  /\ \A d \in DOMAIN elements :
       elements[d].pathLength = Len(Rendered(SubSeq(elements, 1, d)))
=============================================================================
