------------------------------ MODULE IRParser ------------------------------
(***************************************************************************)
(* parseIR and buildEdges of ir-core.js: from the lines of a C2 dump to    *)
(* the graph.  One action per line of text and one per input of a node.    *)
(*                                                                         *)
(* A line is abstracted to what the code's patterns tell apart: whether it *)
(* has the shape of a node at all, its id and type, the tokens between     *)
(* "===" and "[[" and the ids between "[[" and "]]".  A token is an id, an *)
(* id with a parenthesis glued to it ("(23"), the placeholder "_", the     *)
(* word "returns" or anything else; only the first, the third and the      *)
(* fourth are matched.                                                     *)
(***************************************************************************)
EXTENDS IRGraph

CONSTANT Dumps       \* the dumps considered: sequences of lines

VARIABLES lines,     \* the lines still to parse
          nodes,     \* parseIR's result so far
          todo,      \* the <<node, position>> pairs buildEdges has yet to see
          edges,     \* its result so far, a sequence
          seen,      \* the keys of those edges
          parsed,    \* the lines already parsed (history)
          pc         \* "parse", "edges" or "done"

vars == <<lines, nodes, todo, edges, seen, parsed, pc>>

Id(n)    == [tok |-> "id", of |-> n]
Glued(n) == [tok |-> "glued", of |-> n]
Blank    == [tok |-> "_", of |-> Gap]
Returns  == [tok |-> "returns", of |-> Gap]
Garbage  == [shape |-> FALSE]

IsDump(D) ==
  /\ D \in Seq(ToSet(D))
  /\ \A l \in ToSet(D) : l.shape => l.id \in Nat /\ l.toks \in Seq(ToSet(l.toks))

\* C2 prints each link at both ends: a node among the users a line lists has the
\* line's node among its inputs.
LinksAgree(D) ==
  \A l, k \in ToSet(D) :
    l.shape /\ k.shape /\ k.id \in l.outs =>
      {Id(l.id), Glued(l.id)} \cap ToSet(k.toks) # {}

ASSUME DumpsAssumption == \A D \in Dumps : IsDump(D) /\ LinksAgree(D)

Init ==
  /\ lines \in Dumps
  /\ nodes = <<>>
  /\ todo = {} /\ edges = <<>> /\ seen = {} /\ parsed = {}
  /\ pc = "parse"

\* The tokens that count as inputs.
InputPlaces(toks) == {i \in DOMAIN toks : toks[i].tok \in {"id", "_"}}

\* Mutant: the ids after "returns" are not inputs.
InputsUntilReturns(toks) ==
  LET marks == {i \in DOMAIN toks : toks[i].tok = "returns"}
      kept == Selected(toks, {i \in InputPlaces(toks) : \A m \in marks : i < m})
  IN  [i \in DOMAIN kept |-> kept[i].of]

\* node.inputs: ids and placeholders keep their order, the rest leaves no trace.
Inputs(toks) ==
  LET kept == Selected(toks, InputPlaces(toks))
  IN  [i \in DOMAIN kept |-> kept[i].of]

\* The ids after "returns".
AfterReturns(toks) ==
  {i \in DOMAIN toks : toks[i].tok = "id" /\ \E m \in 1..(i - 1) : toks[m].tok = "returns"}

First(places) == CHOOSE i \in places : \A j \in places : i <= j

\* Mutant: the index is the one of the token, not the one of the input.
ReturnIndexOfToken(toks) ==
  IF AfterReturns(toks) = {} THEN 0 ELSE First(AfterReturns(toks))

\* node.returnValIdx, from 1 on: the first id after "returns".
ReturnIndex(toks) ==
  IF AfterReturns(toks) = {} THEN 0
  ELSE Rank(InputPlaces(toks), First(AfterReturns(toks)))

\* A line with a node's shape defines the node, whatever defined it before.
ParseLine ==
  /\ pc = "parse" /\ lines # <<>>
  /\ LET l == Head(lines)
         node == [type |-> l.type, in |-> Inputs(l.toks),
                  ret |-> ReturnIndex(l.toks), arg |-> <<>>, outs |-> l.outs]
     IN  /\ nodes' = IF l.shape
                      THEN [n \in DOMAIN nodes \cup {l.id} |->
                              IF n = l.id THEN node ELSE nodes[n]]
                      ELSE nodes
         /\ parsed' = IF l.shape THEN parsed \cup {l} ELSE parsed
  /\ lines' = Tail(lines)
  /\ UNCHANGED <<todo, edges, seen, pc>>

StartEdges ==
  /\ pc = "parse" /\ lines = <<>>
  /\ todo' = UNION {{n} \X DOMAIN nodes[n].in : n \in DOMAIN nodes}
  /\ pc' = "edges"
  /\ UNCHANGED <<lines, nodes, edges, seen, parsed>>

\* Mutant: a node feeds only one other.
AddEdgeOncePerSource(n, i) ==
  /\ pc = "edges" /\ <<n, i>> \in todo
  /\ todo' = todo \ {<<n, i>>}
  /\ LET a == nodes[n].in[i] IN
       IF a # Gap /\ a # n /\ a \in DOMAIN nodes /\ \A e \in seen : e[1] # a
       THEN edges' = Append(edges, <<a, n>>) /\ seen' = seen \cup {<<a, n>>}
       ELSE UNCHANGED <<edges, seen>>
  /\ UNCHANGED <<lines, nodes, parsed, pc>>

\* One turn of buildEdges' inner loop.  The order in which the nodes are gone
\* through only orders the array.
AddEdge(n, i) ==
  /\ pc = "edges" /\ <<n, i>> \in todo
  /\ todo' = todo \ {<<n, i>>}
  /\ LET a == nodes[n].in[i] IN
       IF a # Gap /\ a # n /\ a \in DOMAIN nodes /\ <<a, n>> \notin seen
       THEN edges' = Append(edges, <<a, n>>) /\ seen' = seen \cup {<<a, n>>}
       ELSE UNCHANGED <<edges, seen>>
  /\ UNCHANGED <<lines, nodes, parsed, pc>>

Finish ==
  /\ pc = "edges" /\ todo = {}
  /\ pc' = "done"
  /\ UNCHANGED <<lines, nodes, todo, edges, seen, parsed>>

Next == ParseLine \/ StartEdges \/ (\E p \in todo : AddEdge(p[1], p[2])) \/ Finish

Spec == Init /\ [][Next]_vars
-----------------------------------------------------------------------------
\* The edges made one by one are the graph's: each once, none from a node to
\* itself or to one that is not there, which topoLevels takes for granted
\* (test.html:279 and :303), and none lost with the doubles.
EdgesAreComplete ==
  pc = "done" => Len(edges) = Cardinality(Edges(nodes)) /\ ToSet(edges) = Edges(nodes)

FirstReturns(toks, m) ==
  toks[m].tok = "returns" /\ \A k \in 1..(m - 1) : toks[k].tok # "returns"

\* The input a Return is said to return is the id that follows the first "returns"
\* (test.html:183), however many placeholders the line has.
ReturnIndexPointsAtValue ==
  \A n \in DOMAIN nodes : \E l \in parsed : l.id = n /\
    \A m \in 1..(Len(l.toks) - 1) :
      FirstReturns(l.toks, m) /\ l.toks[m + 1].tok = "id" =>
        /\ nodes[n].ret \in DOMAIN nodes[n].in
        /\ nodes[n].in[nodes[n].ret] = l.toks[m + 1].of

Linked(a, b) == <<a, b>> \in ToSet(edges) \/ a = b

\* Every def-use link the dump lists is an edge: what a node's "[[ ... ]]" says
\* uses it takes it as an input (plan.md:53, "how the IR nodes are linked
\* together").  The first argument of a call, glued to the parenthesis before
\* it, is the exception, and has no edge.
PlainLinksAreEdges ==
  pc = "done" /\ (\A l \in parsed : \A i \in DOMAIN l.toks : l.toks[i].tok # "glued")
    => \A a \in DOMAIN nodes : \A b \in nodes[a].outs \cap DOMAIN nodes : Linked(a, b)
=============================================================================
