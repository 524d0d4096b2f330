----------------------------- MODULE MCDocument -----------------------------
(***************************************************************************)
(* Names with and without a prefix, and start tags that bind and rebind    *)
(* the default namespace and the prefix, bind it illegally, or use it in   *)
(* attributes.                                                             *)
(***************************************************************************)
EXTENDS DocumentProperties

CONSTANT byte

Name(space, local) == [space |-> space, local |-> local]
Attr(space, local, value) == [name |-> Name(space, local), value |-> value]
Bind(prefix, uri) == IF prefix = "" THEN Attr("", "xmlns", uri) ELSE Attr("xmlns", prefix, uri)

MCNames == {Name("", "e"), Name("p", "e")}
MCKnown == {Name("w", "e")}
MCParticles == {1}
MCChunks == {byte}

Plain == [mode |-> "assessed", length |-> 0, collects |-> FALSE, nilled |-> FALSE,
          word |-> 0, particle |-> 1, before |-> 0, after |-> 0, asked |-> FALSE]
Mixed == [Plain EXCEPT !.length = 1, !.collects = TRUE]
Recovered == [Plain EXCEPT !.mode = "recovery"]
MCStarts == {Mixed, [Plain EXCEPT !.word = 1, !.after = 1, !.asked = TRUE],
             [Plain EXCEPT !.nilled = TRUE], [Recovered EXCEPT !.before = 1],
             [Plain EXCEPT !.mode = "skipped", !.asked = TRUE]}

NestedTags == {<<>>, <<Bind("p", "u")>>, <<Bind("", "u"), Bind("p", "w")>>}

(* Tags that declare, and fail at each check after that.                    *)
FailingTags == {<<Bind("p", "u"), Bind("q", "")>>, <<Bind("p", "u"), Attr("q", "a", "1")>>,
                <<Bind("p", "u"), Attr("p", "a", "1"), Attr("p", "a", "1")>>}
MCTags == NestedTags \union FailingTags

SyntaxTags == NestedTags \union
  {<<Bind("", "")>>, <<Bind("", XmlUri)>>, <<Bind("p", "")>>, <<Bind("xml", XmlUri)>>,
   <<Bind("xml", "u")>>, <<Bind("xmlns", "u")>>, <<Bind("p", "u"), Bind("p", "u")>>,
   <<Attr("p", "a", "1")>>, <<Attr("", "a", "1"), Attr("p", "a", "1")>>,
   <<Bind("p", "u"), Attr("q", "a", "1")>>,
   <<Bind("p", "u"), Bind("q", "u"), Attr("p", "a", "1"), Attr("q", "a", "1")>>,
   <<Bind("p", "u"), Bind("q", "w"), Attr("p", "a", "1"), Attr("q", "a", "1")>>,
   <<Bind("p", XmlnsPrefix), Bind("a", "u"), Attr("p", "a", "1")>>}
=============================================================================
