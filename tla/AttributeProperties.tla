------------------------- MODULE AttributeProperties -------------------------
(***************************************************************************)
(* What the attributes of complex types promise, read off the declarations *)
(* that were given.                                                        *)
(***************************************************************************)
EXTENDS Attributes

(* The attributes and wildcards that children declare, groups included.    *)
RECURSIVE Flat(_)
Flat(children) ==
  FlattenSeq([i \in DOMAIN children |->
    IF children[i].kind = "group" THEN Flat(AttributeGroups[children[i].group]) ELSE <<children[i]>>])

Wildcards(type) == SelectSeq(Flat(given[type]), LAMBDA c : c.kind = "any")
Declarations(type, name) ==
  SelectSeq(Flat(given[type]), LAMBDA c : c.kind = "attribute" /\ c.name = name)

Admits(spec, ns) ==
  \/ spec.form = "##any"
  \/ spec.form = "##other" /\ ns \notin {Absent, spec.target}
  \/ ns = Absent /\ (spec.form = "##local" \/ "##local" \in spec.parts)
  \/ ns = spec.target /\ (spec.form = "##targetNamespace" \/ "##targetNamespace" \in spec.parts)
  \/ ns \in spec.parts
DeclaredMeaning(type) ==
  {ns \in Namespaces : \A i \in DOMAIN Wildcards(type) : Admits(Wildcards(type)[i].spec, ns)}

MeansIt(type) ==
  LET wildcard == sets[type].wildcard
      own == Wildcards(type) # <<>>
      inherits == type = "derived" /\ derivation = "extension" /\ sets.base.wildcard # NoWildcard
      last == given[type][Len(given[type])]
  IN  /\ (wildcard = NoWildcard) = (~own /\ ~inherits)
      /\ wildcard # NoWildcard =>
           Meaning(wildcard) = (IF own THEN DeclaredMeaning(type) ELSE {})
                               \union (IF inherits THEN Meaning(sets.base.wildcard) ELSE {})
      /\ own => wildcard.process \in {w.spec.process : w \in ToSet(Wildcards(type))}
      /\ own /\ last.kind = "any" => wildcard.process = last.spec.process

\* The wildcard of a finished type admits what its own wildcards and those of
\* its groups all admit, and in an extension what its base admits as well; in a
\* restriction it admits no more than its base, and processes it as strictly.
WildcardsMeanIt == phase = "audit" =>
  /\ \A type \in {"base", "derived"} : MeansIt(type)
  /\ derivation = "restriction" /\ sets.derived.wildcard # NoWildcard =>
       /\ sets.base.wildcard # NoWildcard
       /\ Meaning(sets.derived.wildcard) \subseteq Meaning(sets.base.wildcard)
       /\ sets.derived.wildcard.process <= sets.base.wildcard.process

-----------------------------------------------------------------------------

Plain == {i \in DOMAIN attrs : attrs[i].kind = "plain"}
Names == {attrs[i].name : i \in Plain}

(* The declaration of a name in a type: its own, or the one it inherits.   *)
Effective(type, name) ==
  LET own == Declarations(type, name)
  IN  IF own # <<>> THEN own
      ELSE IF type = "derived" THEN Declarations("base", name) ELSE <<>>

Facts(child) ==
  LET global == GlobalAttributes[child.name]
  IN  IF ~child.ref THEN [type |-> child.type, fixed |-> child.fixed, asValue |-> FALSE]
      ELSE IF child.fixed # None THEN [type |-> global.type, fixed |-> child.fixed, asValue |-> FALSE]
      ELSE [type |-> global.type, fixed |-> global.fixed, asValue |-> TRUE]

Governing(type, name) ==
  LET decls == Effective(type, name)
      prohibited == decls # <<>> /\ decls[Len(decls)].use = "prohibited" /\ decls[Len(decls)].fixed = None
      wildcard == sets[type].wildcard
  IN  IF decls # <<>> /\ ~prohibited THEN {Facts(decls[Len(decls)])}
      ELSE IF WildcardAllows(wildcard, name) /\ wildcard.process # Skip /\ name \in DOMAIN GlobalAttributes
      THEN {[type |-> GlobalAttributes[name].type, fixed |-> GlobalAttributes[name].fixed, asValue |-> TRUE]}
      ELSE {}

ValidID(type, i) ==
  \E f \in Governing(type, attrs[i].name) :
    f.type \in IdTypes \ UnavailableTypes /\ ValidValue(f.type, attrs[i].value)

Expected(type, i) ==
  LET name == attrs[i].name
      value == attrs[i].value
      wildcard == sets[type].wildcard
      error(kind) == {[type |-> type, kind |-> kind, name |-> name]}
      judged(f) ==
        IF f.type \in UnavailableTypes THEN error("unavailable")
        ELSE IF value \notin DOMAIN Canonical[f.type] THEN error("value")
        ELSE IF f.type \in IdTypes /\ \E j \in Plain : j < i /\ ValidID(type, j) THEN error("second ID")
        ELSE IF f.fixed # None /\ (IF f.asValue THEN Identity[f.type][value] # Identity[f.type][f.fixed]
                                   ELSE Canonical[f.type][value] # Canonical[f.type][f.fixed])
             THEN error("fixed")
        ELSE {}
  IN  IF Governing(type, name) # {} THEN UNION {judged(f) : f \in Governing(type, name)}
      ELSE IF wildcard # NoWildcard /\ name.ns \in Meaning(wildcard)
           THEN IF wildcard.process # Strict THEN {}
                ELSE IF name.ns \in HintedNamespaces THEN error("unsupported") ELSE error("undeclared")
      ELSE error("undeclared")

AllNames == {c.name : c \in {d \in ToSet(Flat(given.base) \o Flat(given.derived)) : d.kind = "attribute"}}
Missing(type) ==
  {[type |-> type, kind |-> "missing", name |-> n] :
     n \in {m \in AllNames \ Names : LET d == Effective(type, m) IN d # <<>> /\ d[Len(d)].use = "required"}}

ExpectedErrors(type) == UNION {Expected(type, i) : i \in Plain} \union Missing(type)

(* A prohibited use that is not in a restriction corresponds to nothing.   *)
ProhibitsIdly(type) ==
  \E i \in DOMAIN Flat(given[type]) :
    LET c == Flat(given[type])[i] IN c.kind = "attribute" /\ c.use = "prohibited" /\ c.fixed = None

Straight == ~ProhibitsIdly("base") /\ (derivation = "extension" => ~ProhibitsIdly("derived"))

\* The attributes of an element are judged by what the declarations of its type
\* and of the types it derives from say of them, whatever order they are given
\* in, whatever the session assessed before, and however uses were merged.
AttributesAreJudged ==
  phase = "done" /\ Straight => errors = ExpectedErrors("derived") \union ExpectedErrors("base")

\* What a restriction accepts, its base accepts, but for attributes that a
\* wildcard of either type admits; and a restriction or an extension that
\* compiles passes the audit of publication when it prohibits nothing idly.
RestrictionsAreSound ==
  /\ phase = "done" /\ derivation = "restriction" /\ (\A e \in errors : e.type = "base") =>
       \A f \in errors : \E type \in {"base", "derived"} :
         f.name \in Names /\ Slots(sets[type].uses, f.name) = {} /\ WildcardAllows(sets[type].wildcard, f.name)
  /\ verdict = "audit" => ProhibitsIdly("derived")
=============================================================================
