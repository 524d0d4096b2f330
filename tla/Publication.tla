----------------------------- MODULE Publication -----------------------------
(***************************************************************************)
(* The end of a compilation: PublishSchema audits the schema build that    *)
(* the compiler owns, constructs the read projections, audits them, and    *)
(* then consumes the build and hands out the schema in one commit.  The    *)
(* caller's context may be canceled between any two steps; it is looked at *)
(* before each of them.  What the build holds is left open here: module    *)
(* Components fills it in.                                                 *)
(***************************************************************************)
EXTENDS Integers, Sequences

CONSTANTS
  Consumed,    \* the zero SchemaBuild that a published build is replaced by
  NoSchema     \* no schema has been constructed or published

ASSUME PublicationAssumption == Consumed # NoSchema

VARIABLES
  build,       \* compiler.rt.build
  stage,       \* what the compilation does next: "compile", a step of Stages, or "ended"
  candidate,   \* the schema under audit in newAuditedSchema
  published,   \* what PublishSchema returned
  canceled,    \* the caller's context has been canceled
  outcome      \* "running", "published", "canceled" or the reason of a refusal

publication == <<build, stage, candidate, published, canceled, outcome>>

(* The steps of PublishSchema in their order; each starts with a look at   *)
(* the context.                                                            *)
Stages == {"domain", "sources", "project", "audit", "verify", "commit"}

After == [domain |-> "sources", sources |-> "project", project |-> "audit",
          audit |-> "verify", verify |-> "commit"]

End(why) == /\ stage' = "ended"
            /\ outcome' = why
            /\ UNCHANGED <<build, candidate, published, canceled>>

(* The caller cancels the context; it may do so at any moment.             *)
Cancel == /\ ~canceled
          /\ canceled' = TRUE
          /\ UNCHANGED <<build, stage, candidate, published, outcome>>

(* publishContextError, before each step and at the linearization point.   *)
Canceled == /\ stage \in Stages
            /\ canceled
            /\ End("canceled")

(* validateSchemaBuildIDDomain; the pattern sources and the ownership      *)
(* audit; validateSchema; validateRuntimeReadProjections: audits that      *)
(* change nothing.                                                         *)
Audit == /\ stage \in {"domain", "sources", "audit", "verify"}
         /\ ~canceled
         /\ stage' = After[stage]
         /\ UNCHANGED <<build, candidate, published, canceled, outcome>>

(* An audit, or the construction of the projections, finds a defect.       *)
Defect == /\ stage \in DOMAIN After
          /\ ~canceled
          /\ End("defect")

(* newSchemaRuntime: the read projections are copies of what is built.     *)
Project == /\ stage = "project"
           /\ ~canceled
           /\ candidate' = build
           /\ stage' = After[stage]
           /\ UNCHANGED <<build, published, canceled, outcome>>

(* The linearization point: consuming the build and returning the          *)
(* candidate is one commit.                                                *)
Commit == /\ stage = "commit"
          /\ ~canceled
          /\ published' = candidate
          /\ build' = Consumed
          /\ stage' = "ended"
          /\ outcome' = "published"
          /\ UNCHANGED <<candidate, canceled>>

Publish == Canceled \/ Audit \/ Defect \/ Project \/ Commit

(* Before the publication the compiler works on its build, whatever it     *)
(* does to it, and then hands it over or ends.                             *)
Compiling == /\ stage = "compile"
             /\ build' \notin {Consumed, NoSchema}
             /\ \/ stage' \in {"compile", "domain"} /\ outcome' = outcome
                \/ stage' = "ended" /\ outcome' \notin {"running", "published"}
             /\ UNCHANGED <<candidate, published, canceled>>

PublicationInit == /\ build \notin {Consumed, NoSchema}
                   /\ stage = "compile"
                   /\ candidate = NoSchema
                   /\ published = NoSchema
                   /\ canceled = FALSE
                   /\ outcome = "running"

PublicationSpec == PublicationInit /\ [][Compiling \/ Cancel \/ Publish]_publication

-----------------------------------------------------------------------------
(* The build is consumed exactly when a schema is handed out: a canceled   *)
(* or refused compilation leaves it whole, and nothing but what was        *)
(* audited is ever published (PublishSchema's linearization point).        *)
PublicationIsAtomic ==
  /\ (build = Consumed) <=> (outcome = "published")
  /\ (published # NoSchema) <=> (outcome = "published")
  /\ published # NoSchema => published = candidate
  /\ stage \in {"audit", "verify", "commit"} => candidate = build
=============================================================================
