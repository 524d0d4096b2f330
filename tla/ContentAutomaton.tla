-------------------------- MODULE ContentAutomaton --------------------------
(***************************************************************************)
(* The tables that content models are compiled to.  A row has edges to     *)
(* other rows, may accept, and may count the repetitions of one term.      *)
(*                                                                         *)
(* A state of the source automaton is the set of entries that may come     *)
(* next, and a state of the deterministic one a set of configurations of   *)
(* the source automaton; both stand for themselves where the code numbers  *)
(* them.                                                                   *)
(***************************************************************************)
EXTENDS ContentModel

NeedsCounter(occurs) == occurs.min > 1 \/ (~occurs.unbounded /\ occurs.max > 1)

Uncounted == [counted |-> FALSE, term |-> 0, min |-> 0, max |-> 0, unbounded |-> FALSE]

RowOf(p, accept) ==
  [edges |-> {}, accept |-> accept,
   count |-> IF NeedsCounter(p.occurs)
             THEN [counted |-> TRUE, term |-> p.term, min |-> p.occurs.min,
                   max |-> p.occurs.max, unbounded |-> p.occurs.unbounded]
             ELSE Uncounted]

EmptyRow == [edges |-> {}, accept |-> FALSE, count |-> Uncounted]
WithEdge(row, term, to) == [row EXCEPT !.edges = @ \union {[term |-> term, to |-> to]}]

-----------------------------------------------------------------------------
(* compileDirectModel: exactly one sequence or choice of leaves.           *)

IsDirect(model) ==
  model.occurs = One /\ model.kind \in {"sequence", "choice"} /\ \A p \in Range(model.particles) : IsLeaf(p)

(* A new row for the particle, which repeats itself if it may come again.  *)
Grown(rows, p, accept) ==
  LET to == Len(rows) + 1
      row == RowOf(p, accept)
  IN  Append(rows, IF Repeats(p.occurs) THEN WithEdge(row, p.term, to) ELSE row)

NextActive(active, p, to) == IF p.occurs.min = 0 THEN active \union {to} ELSE {to}

(* compileDirectSequenceModel: active are the rows that the sequence may   *)
(* stand in before the next particle.                                      *)
DirectSequence(model) ==
  LET step(acc, p) ==
        LET to == Len(acc.rows) + 1
            rows == Grown(acc.rows, p, FALSE)
        IN  IF Absent(p.occurs) THEN acc
            ELSE [rows |-> [i \in DOMAIN rows |->
                              IF i \in acc.active THEN WithEdge(rows[i], p.term, to) ELSE rows[i]],
                  active |-> NextActive(acc.active, p, to)]
      last == FoldLeft(step, [rows |-> <<EmptyRow>>, active |-> {1}], model.particles)
  IN  [i \in DOMAIN last.rows |-> [last.rows[i] EXCEPT !.accept = i \in last.active]]

DirectChoice(model) ==
  LET step(rows, p) ==
        LET to == Len(rows) + 1
            first == [rows[1] EXCEPT !.accept = @ \/ p.occurs.min = 0]
        IN  IF Absent(p.occurs) THEN [rows EXCEPT ![1].accept = TRUE]
            ELSE Grown([rows EXCEPT ![1] = WithEdge(first, p.term, to)], p, TRUE)
  IN  FoldLeft(step, <<EmptyRow>>, model.particles)

(* The loop and the exit of a row that counts up to a fixed number.        *)
RowException(state, row, a, b) ==
  LET loops(e) == e.to = state /\ e.term = row.count.term
  IN  /\ row.count.counted /\ ~row.count.unbounded /\ row.count.min = row.count.max
      /\ (loops(a) /\ b.to # state) \/ (loops(b) /\ a.to # state)

(* checkCompiledRowsUPA.                                                   *)
RowsAmbiguous(rows) ==
  \E s \in DOMAIN rows : \E a, b \in rows[s].edges :
    a # b /\ TermsOverlap(a.term, b.term) /\ ~RowException(s, rows[s], a, b)

-----------------------------------------------------------------------------
(* dfaBuilder: the positions of a model, what may come first, last and     *)
(* after each, under guards on counters, and what then happens to them.    *)

End == 0

Entry(pos) == [pos |-> pos, guards |-> {}, actions |-> <<>>]

Compose(tail, guards, actions, entry) ==
  [pos |-> entry.pos,
   guards |-> tail.guards \union guards \union entry.guards,
   actions |-> tail.actions \o actions \o entry.actions]

Empty(nullable) == [first |-> {}, last |-> {}, counters |-> {}, nullable |-> nullable]

AddFollow(b, tails, guards, actions, entries) ==
  LET after(pos) == {Compose(t, guards, actions, e) : t \in {u \in tails : u.pos = pos}, e \in entries}
  IN  [b EXCEPT !.follow = [pos \in DOMAIN @ |-> @[pos] \union after(pos)]]

Concat(a, c) ==
  [first |-> a.first \union (IF a.nullable THEN c.first ELSE {}),
   last |-> c.last \union (IF c.nullable THEN a.last ELSE {}),
   counters |-> a.counters \union c.counters,
   nullable |-> a.nullable /\ c.nullable]

Alternative(a, c) ==
  [first |-> a.first \union c.first, last |-> a.last \union c.last,
   counters |-> a.counters \union c.counters,
   nullable |-> a.nullable \/ c.nullable]

ExitMin(slot, n) == [slot |-> slot, n |-> n, kind |-> "exitMin"]
LoopMax(slot, n) == [slot |-> slot, n |-> n, kind |-> "loopMax"]
Inc(slot) == [slot |-> slot, kind |-> "inc"]

(* Slip: a repetition does not start the counters below it anew.           *)
NoResets(counters, slot) == <<>>

Resets(counters, slot) ==
  SetToSeq({[slot |-> s, kind |-> "reset"] : s \in counters \ {slot}})

(* repeat, with repeatLastEntries and addRepeatLoopFollows: a counter      *)
(* counts the repetitions that are complete, less one.                     *)
Repeat(node, occurs, b) ==
  LET counted == NeedsCounter(occurs)
      slot == IF counted THEN b.slots + 1 ELSE 0
      inc == IF counted THEN <<Inc(slot)>> ELSE <<>>
      exit == IF counted /\ occurs.min > 0 /\ ~node.nullable THEN {ExitMin(slot, occurs.min)} ELSE {}
      loop == IF counted /\ ~occurs.unbounded THEN {LoopMax(slot, occurs.max)} ELSE {}
  IN  CASE Absent(occurs) -> [node |-> Empty(TRUE), b |-> b]
        [] occurs = One   -> [node |-> node, b |-> b]
        [] OTHER ->
             [node |-> [first |-> node.first,
                        last |-> {[t EXCEPT !.guards = @ \union exit, !.actions = @ \o inc] : t \in node.last},
                        counters |-> node.counters \union (IF counted THEN {slot} ELSE {}),
                        nullable |-> occurs.min = 0 \/ node.nullable],
              b |-> LET grown == [b EXCEPT !.slots = IF counted THEN slot ELSE @]
                    IN  IF ~Repeats(occurs) THEN grown
                        ELSE AddFollow(grown, node.last, loop,
                                       inc \o Resets(node.counters, slot), node.first)]

RECURSIVE ModelNode(_, _)
ParticleNode(p, b) ==
  LET pos == Len(b.positions) + 1
      leaf == [Empty(FALSE) EXCEPT !.first = {Entry(pos)}, !.last = {Entry(pos)}]
      inner == IF IsLeaf(p)
               THEN [node |-> leaf, b |-> [b EXCEPT !.positions = Append(@, p.term),
                                                    !.follow = Append(@, {})]]
               ELSE ModelNode(p.model, b)
  IN  Repeat(inner.node, p.occurs, inner.b)

ModelNode(model, b) ==
  LET sequence(acc, p) ==
        LET child == ParticleNode(p, acc.b)
        IN  [node |-> Concat(acc.node, child.node),
             b |-> AddFollow(child.b, acc.node.last, {}, <<>>, child.node.first)]
      choice(acc, p) ==
        LET child == ParticleNode(p, acc.b)
        IN  [node |-> Alternative(acc.node, child.node), b |-> child.b]
      inner == IF model.kind = "sequence"
               THEN FoldLeft(sequence, [node |-> Empty(TRUE), b |-> b], model.particles)
               ELSE FoldLeft(choice, [node |-> Empty(FALSE), b |-> b], model.particles)
  IN  Repeat(inner.node, model.occurs, inner.b)

(* compile: the automaton with its end, and the states it can reach.       *)
Automaton(model) ==
  LET root == ModelNode(model, [positions |-> <<>>, follow |-> <<>>, slots |-> 0])
      b == AddFollow(root.b, root.node.last, {}, <<>>, {Entry(End)})
  IN  [positions |-> b.positions, follow |-> b.follow, slots |-> b.slots,
       start |-> root.node.first \union (IF root.node.nullable THEN {Entry(End)} ELSE {})]

EdgesOf(entries) == {e \in entries : e.pos # End}

RECURSIVE SourceStates(_, _)
SourceStates(auto, states) ==
  LET more == states \union {auto.follow[e.pos] : e \in EdgesOf(UNION states)}
  IN  IF more = states THEN states ELSE SourceStates(auto, more)

(* Slip: any two counting guards exclude each other.                       *)
AnyCounting(a, b) ==
  \E g \in a.guards, h \in b.guards : g.kind = "loopMax" /\ h.kind = "exitMin"

(* countingException: the last repetition, or one more.                    *)
Complementary(a, b) ==
  \E g \in a.guards, h \in b.guards :
    g.kind = "loopMax" /\ h.kind = "exitMin" /\ g.slot = h.slot /\ g.n = h.n

(* checkUPA.                                                               *)
SourceAmbiguous(auto, states) ==
  \E entries \in states : \E a, b \in EdgesOf(entries) :
    /\ a.pos # b.pos
    /\ TermsOverlap(auto.positions[a.pos], auto.positions[b.pos])
    /\ ~Complementary(a, b) /\ ~Complementary(b, a)

-----------------------------------------------------------------------------
(* compileDeterministicModel.                                              *)

(* counterCaps: no guard tells larger counts apart.                        *)
Caps(auto, states) ==
  LET guards == UNION {e.guards : e \in UNION states}
      bounds(slot) == {0} \union {g.n - 1 : g \in {h \in guards : h.slot = slot /\ h.n # 0}}
  IN  [slot \in 1..auto.slots |-> Max(bounds(slot))]

GuardsOK(counters, guards) ==
  \A g \in guards :
    IF g.kind = "exitMin" THEN counters[g.slot] + 1 >= g.n
    ELSE g.n # 0 /\ counters[g.slot] + 1 < g.n

Applied(counters, caps, actions) ==
  FoldLeft(LAMBDA cs, a : [cs EXCEPT ![a.slot] = CASE a.kind = "reset" -> 0
                                                   [] a.kind = "inc" /\ @ < caps[a.slot] -> @ + 1
                                                   [] OTHER -> @],
           counters, actions)

(* The entries whose guards hold, each with its configuration.             *)
Live(configs) ==
  {x \in configs \X UNION {c.entries : c \in configs} :
     x[2] \in x[1].entries /\ GuardsOK(x[1].counters, x[2].guards)}

(* deterministicRow: edges with one term go to one row.                    *)
DeterministicRow(auto, caps, configs) ==
  LET live == Live(configs)
      term(x) == IF x[2].pos = End THEN {} ELSE {auto.positions[x[2].pos]}
      target(x) == [entries |-> auto.follow[x[2].pos],
                    counters |-> Applied(x[1].counters, caps, x[2].actions)]
  IN  [edges |-> {[term |-> t, to |-> {target(x) : x \in {y \in live : t \in term(y)}}] :
                    t \in UNION {term(x) : x \in live}},
       accept |-> \E x \in live : x[2].pos = End,
       count |-> Uncounted]

(* The rows that can be reached, up to one more than the limit of states.  *)
RECURSIVE Rows(_, _, _, _)
Rows(auto, caps, rows, queue) ==
  LET fresh == [s \in queue |-> DeterministicRow(auto, caps, s)]
      all == [s \in DOMAIN rows \union queue |-> IF s \in queue THEN fresh[s] ELSE rows[s]]
      next == {e.to : e \in UNION {fresh[s].edges : s \in queue}} \ DOMAIN all
  IN  IF next = {} \/ Cardinality(DOMAIN all) > MaxContentModelStates THEN all
      ELSE Rows(auto, caps, all, next)

Deterministic(auto, states) ==
  LET start == {[entries |-> auto.start, counters |-> [slot \in 1..auto.slots |-> 0]]}
  IN  [start |-> start, rows |-> Rows(auto, Caps(auto, states), <<>>, {start})]

-----------------------------------------------------------------------------
(* compileContentModel.                                                    *)

Refusal(kind) == [kind |-> kind]

TooMany(states) ==
  \/ Cardinality(states) > MaxContentModelStates
  \/ \E s \in states : Cardinality(s) > MaxContentModelStates

CompileAll(model) ==
  IF PairAmbiguous(model) THEN Refusal("upa")
  ELSE [kind |-> "all",
        terms |-> [i \in DOMAIN model.particles |->
                     [term |-> model.particles[i].term, required |-> model.particles[i].occurs.min > 0]],
        empty |-> model.occurs.min = 0 \/ \A p \in Range(model.particles) : p.occurs.min = 0]

Checked(rows, start) ==
  IF RowsAmbiguous(rows) THEN Refusal("upa") ELSE [kind |-> "dfa", start |-> start, rows |-> rows]

DirectTable(rows) == IF Len(rows) > MaxContentModelStates THEN Refusal("limit") ELSE Checked(rows, 1)

CompileDirect(model) ==
  DirectTable(IF model.kind = "sequence" THEN DirectSequence(model) ELSE DirectChoice(model))

DeterministicTable(dfa) ==
  IF TooMany(DOMAIN dfa.rows) THEN Refusal("limit") ELSE Checked(dfa.rows, dfa.start)

AutomatonTable(auto, states) ==
  CASE Cardinality(states) > MaxContentModelStates -> Refusal("limit")
    [] Cardinality(states) <= MaxContentModelStates /\ SourceAmbiguous(auto, states) -> Refusal("upa")
    [] OTHER -> DeterministicTable(Deterministic(auto, states))

CompileAutomaton(auto) == AutomatonTable(auto, SourceStates(auto, {auto.start}))

CompileBuilt(model) == CompileAutomaton(Automaton(model))

Compile(model) ==
  CASE model.kind = "all" -> CompileAll(model)
    [] model.kind # "all" /\ IsDirect(model) -> CompileDirect(model)
    [] OTHER -> CompileBuilt(model)
=============================================================================
