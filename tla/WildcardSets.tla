---------------------------- MODULE WildcardSets ----------------------------
(***************************************************************************)
(* The namespaces a wildcard admits, and what the compiler does with       *)
(* wildcards: it decides whether one is a part of another, whether two     *)
(* overlap, and builds the wildcard of an intersection and of a union.     *)
(* A wildcard is one of five forms; the namespaces of a list are a set,    *)
(* where the code keeps them sorted and without duplicates.                *)
(***************************************************************************)
EXTENDS Naturals

CONSTANTS
  Namespaces,   \* the namespaces of a schema set
  Absent        \* the empty namespace, of unqualified names

ASSUME NamespacesAssumption == Absent \in Namespaces

Processes == 0..2
Strict == 0
Lax == 1
Skip == 2

Wildcard ==
  [mode : {"any", "other", "local", "target", "list"},
   otherThan : Namespaces, namespaces : SUBSET Namespaces, process : Processes]

(* ParseWildcard: a declaration is one of five forms, over the target      *)
(* namespace of its document; the parts of a list may stand for it.        *)
AnyWildcard(process) ==
  [mode |-> "any", otherThan |-> Absent, namespaces |-> {}, process |-> process]
OtherWildcard(ns, process) == [AnyWildcard(process) EXCEPT !.mode = "other", !.otherThan = ns]
LocalWildcard(process) == [AnyWildcard(process) EXCEPT !.mode = "local"]
TargetWildcard(ns, process) == [AnyWildcard(process) EXCEPT !.mode = "target", !.namespaces = {ns}]
ListWildcard(nss, process) == [AnyWildcard(process) EXCEPT !.mode = "list", !.namespaces = nss]

NoWildcard == [AnyWildcard(Strict) EXCEPT !.mode = "none"]

ParseWildcard(spec) ==
  CASE spec.form = "##any" -> AnyWildcard(spec.process)
    [] spec.form = "##other" -> OtherWildcard(spec.target, spec.process)
    [] spec.form = "##local" -> LocalWildcard(spec.process)
    [] spec.form = "##targetNamespace" -> TargetWildcard(spec.target, spec.process)
    [] spec.form = "list" ->
         ListWildcard({IF part = "##local" THEN Absent
                       ELSE IF part = "##targetNamespace" THEN spec.target ELSE part : part \in spec.parts},
                      spec.process)

(* ValidateWildcard: the fields a form does not use are empty.             *)
WellFormed(w) ==
  /\ w \in Wildcard
  /\ w.mode # "other" => w.otherThan = Absent
  /\ w.mode \in {"any", "local", "other"} => w.namespaces = {}
  /\ w.mode = "target" => \E ns \in Namespaces : w.namespaces = {ns}

-----------------------------------------------------------------------------

Allows(w, ns) ==
  \/ w.mode = "any"
  \/ w.mode = "other" /\ ns # Absent /\ ns # w.otherThan
  \/ w.mode = "local" /\ ns = Absent
  \/ w.mode \in {"target", "list"} /\ ns \in w.namespaces

NamespaceEqual(a, b) ==
  a.mode = b.mode /\ a.otherThan = b.otherThan /\ a.namespaces = b.namespaces

WildcardSubset(derived, base) ==
  /\ derived.process <= base.process
  /\ derived.mode = "any" => base.mode = "any"
  /\ derived.mode = "other" =>
       base.mode = "any" \/ (base.mode = "other" /\ base.otherThan = derived.otherThan)
  /\ derived.mode = "local" => Allows(base, Absent)
  /\ derived.mode \in {"target", "list"} => \A ns \in derived.namespaces : Allows(base, ns)

FiniteNamespaces(w) == IF w.mode = "local" THEN {Absent} ELSE w.namespaces

(* wildcardHasNamespaceOtherThan                                           *)
HasNamespaceOtherThan(w, excluded) ==
  w.mode \in {"target", "list"} /\ \E ns \in w.namespaces : ns # excluded

WildcardsOverlap(a, b) ==
  \/ "any" \in {a.mode, b.mode}
  \/ a.mode = "other" /\ b.mode = "other"
  \/ a.mode = "other" /\ HasNamespaceOtherThan(b, a.otherThan)
  \/ b.mode = "other" /\ HasNamespaceOtherThan(a, b.otherThan)
  \/ "other" \notin {a.mode, b.mode} /\ \E ns \in FiniteNamespaces(a) : Allows(b, ns)

(* The union and the intersection of two wildcards are not always ones.    *)
UnionExpressible(a, b) ==
  LET refused(other, finite) ==
        /\ other.mode = "other" /\ finite.mode \notin {"any", "other"}
        /\ other.otherThan # Absent
        /\ Absent \in FiniteNamespaces(finite) /\ other.otherThan \notin FiniteNamespaces(finite)
  IN  ~refused(a, b) /\ ~refused(b, a)

(* Slip: the empty namespace is taken for one that the wildcard admits.    *)
OtherWithAny(other, finite, process) ==
  IF other.otherThan \in FiniteNamespaces(finite) THEN AnyWildcard(process)
  ELSE OtherWildcard(other.otherThan, process)

(* unionOtherWithFinite                                                    *)
OtherWithFinite(other, finite, process) ==
  LET ns == FiniteNamespaces(finite)
  IN  IF Absent \in ns /\ other.otherThan \in ns THEN AnyWildcard(process)
      ELSE IF other.otherThan \in ns THEN OtherWildcard(Absent, process)
      ELSE OtherWildcard(other.otherThan, process)

UnionWildcard(a, b, process) ==
  IF NamespaceEqual(a, b) THEN [a EXCEPT !.process = process]
  ELSE IF "any" \in {a.mode, b.mode} THEN AnyWildcard(process)
  ELSE IF a.mode = "other" /\ b.mode = "other" THEN OtherWildcard(Absent, process)
  ELSE IF a.mode = "other" THEN OtherWithFinite(a, b, process)
  ELSE IF b.mode = "other" THEN OtherWithFinite(b, a, process)
  ELSE ListWildcard(FiniteNamespaces(a) \union FiniteNamespaces(b), process)

IntersectionExpressible(a, b) ==
  \/ ~(a.mode = "other" /\ b.mode = "other")
  \/ a.otherThan = b.otherThan \/ Absent \in {a.otherThan, b.otherThan}

IntersectWildcard(a, b, process) ==
  IF NamespaceEqual(a, b) THEN [a EXCEPT !.process = process]
  ELSE IF a.mode = "any" THEN [b EXCEPT !.process = process]
  ELSE IF b.mode = "any" THEN [a EXCEPT !.process = process]
  ELSE IF a.mode = "other" /\ b.mode = "other" THEN
         [(IF a.otherThan = Absent THEN b ELSE a) EXCEPT !.process = process]
  ELSE ListWildcard({ns \in FiniteNamespaces(a) \union FiniteNamespaces(b) :
                       Allows(a, ns) /\ Allows(b, ns)}, process)

(* The namespaces that a wildcard admits.                                  *)
Meaning(w) == {ns \in Namespaces : Allows(w, ns)}
=============================================================================
