----------------------------- MODULE TopoLevels -----------------------------
(***************************************************************************)
(* topoLevels of ir-core.js: Kahn's algorithm by levels.  One action per   *)
(* loop head and one per edge relaxed by the inner loop.  Arrays are       *)
(* sequences, so an id pushed twice would show.  The order in which the    *)
(* ids of a level and their successors are visited is left open: the code  *)
(* takes the one of its arrays, and the properties hold of any.            *)
(***************************************************************************)
EXTENDS Integers, FiniteSets, Sequences

CONSTANTS Node,     \* the node ids
          Graphs    \* the sets of data edges, buildEdges' output without
                    \* the structural ones: no self-loop, no duplicate

ASSUME NodeAssumption == IsFiniteSet(Node)

ASSUME GraphsAssumption ==
  \A G \in Graphs : G \subseteq {e \in Node \X Node : e[1] # e[2]}

VARIABLES edges,    \* the data edges
          inDeg,    \* inDeg[n]: the data edges into n not yet relaxed
          q, nq,    \* the current level and the one being collected
          levels,   \* the levels emitted
          visited,  \* the ids emitted
          todo,     \* the edges out of the current level still to relax
          pc        \* "while", "inner" or "done"

vars == <<edges, inDeg, q, nq, levels, visited, todo, pc>>

Elems(s) == {s[i] : i \in 1..Len(s)}

\* The arrays that list the elements of a set, each once, in some order.
Listings(S) ==
  {s \in [1..Cardinality(S) -> S] :
     /\ \A x \in S : \E i \in 1..Cardinality(S) : s[i] = x
     /\ \A i, j \in 1..Cardinality(S) : s[i] = s[j] => i = j}

Into(n) == {e \in edges : e[2] = n}

Init ==
  /\ edges \in Graphs
  /\ inDeg = [n \in Node |-> Cardinality(Into(n))]
  /\ q \in Listings({n \in Node : inDeg[n] = 0})
  /\ nq = <<>>
  /\ levels = <<>>
  /\ visited = {}
  /\ todo = {}
  /\ pc = "while"

\* Mutant: nq is made once, not once for each level.
StartLevelKeepsNq ==
  /\ pc = "while"
  /\ q # <<>>
  /\ levels' = Append(levels, q)
  /\ visited' = visited \cup Elems(q)
  /\ todo' = {e \in edges : e[1] \in Elems(q)}
  /\ pc' = "inner"
  /\ UNCHANGED <<edges, inDeg, q, nq>>

\* levels.push([...q]), and the pass over q begins.
StartLevel ==
  /\ pc = "while"
  /\ q # <<>>
  /\ levels' = Append(levels, q)
  /\ visited' = visited \cup Elems(q)
  /\ nq' = <<>>
  /\ todo' = {e \in edges : e[1] \in Elems(q)}
  /\ pc' = "inner"
  /\ UNCHANGED <<edges, inDeg, q>>

\* Mutants: nb joins the next level at every edge; one edge too late.
RelaxAlwaysPushes(e) ==
  /\ pc = "inner"
  /\ e \in todo
  /\ inDeg' = [inDeg EXCEPT ![e[2]] = @ - 1]
  /\ nq' = Append(nq, e[2])
  /\ todo' = todo \ {e}
  /\ UNCHANGED <<edges, q, levels, visited, pc>>

RelaxTestsBefore(e) ==
  /\ pc = "inner"
  /\ e \in todo
  /\ inDeg' = [inDeg EXCEPT ![e[2]] = @ - 1]
  /\ nq' = IF inDeg[e[2]] = 0 THEN Append(nq, e[2]) ELSE nq
  /\ todo' = todo \ {e}
  /\ UNCHANGED <<edges, q, levels, visited, pc>>

\* inDeg[nb]--, and nb joins the next level when nothing is left to wait for.
Relax(e) ==
  /\ pc = "inner"
  /\ e \in todo
  /\ inDeg' = [inDeg EXCEPT ![e[2]] = @ - 1]
  /\ nq' = IF inDeg[e[2]] = 1 THEN Append(nq, e[2]) ELSE nq
  /\ todo' = todo \ {e}
  /\ UNCHANGED <<edges, q, levels, visited, pc>>

EndLevel ==
  /\ pc = "inner"
  /\ todo = {}
  /\ q' = nq
  /\ pc' = "while"
  /\ UNCHANGED <<edges, inDeg, nq, levels, visited, todo>>

\* Mutants: the ids in cycles are dropped; they are waited for.
FinishDropsRest ==
  /\ pc = "while"
  /\ q = <<>>
  /\ pc' = "done"
  /\ UNCHANGED <<edges, inDeg, q, nq, levels, visited, todo>>

FinishWaitsForAll ==
  /\ pc = "while"
  /\ q = <<>>
  /\ visited = Node
  /\ pc' = "done"
  /\ UNCHANGED <<edges, inDeg, q, nq, levels, visited, todo>>

\* The queue ran dry: the ids never reached make one last level.
Finish ==
  /\ pc = "while"
  /\ q = <<>>
  /\ \E rest \in Listings(Node \ visited) :
       levels' = IF rest # <<>> THEN Append(levels, rest) ELSE levels
  /\ pc' = "done"
  /\ UNCHANGED <<edges, inDeg, q, nq, visited, todo>>

Next == StartLevel \/ (\E e \in edges : Relax(e)) \/ EndLevel \/ Finish

\* The function runs to its return: nothing else runs on its thread.
Spec == Init /\ [][Next]_vars /\ WF_vars(Next)
-----------------------------------------------------------------------------
(* Type invariant. *)
TypeOK ==
  /\ edges \subseteq {e \in Node \X Node : e[1] # e[2]}
  /\ inDeg \in [Node -> Nat]
  /\ q \in Seq(Node)
  /\ nq \in Seq(Node)
  /\ levels \in Seq(Seq(Node))
  /\ visited \subseteq Node
  /\ todo \subseteq edges
  /\ pc \in {"while", "inner", "done"}

\* The edges into n that the counter inDeg[n] still stands for.
Waiting(n) == {e \in Into(n) : e[1] \notin visited \/ e \in todo}

\* The array being collected between two loop heads, else the queue itself.
Pending == IF pc = "inner" THEN nq ELSE q

\* The counters never drift from the edges they count, so the queue holds
\* exactly the ids that wait for nothing and have not been emitted.
QueueIsReady ==
  /\ \A n \in Node : inDeg[n] = Cardinality(Waiting(n))
  /\ Elems(Pending) = {n \in Node \ visited : Waiting(n) = {}}

\* No id enters a level twice, or a level after the one that emitted it.
NoDuplicate ==
  /\ \A i, j \in 1..Len(Pending) : Pending[i] = Pending[j] => i = j
  /\ Elems(Pending) \cap visited = {}

\* An emitted node's data inputs were all emitted before it (test.html:487,
\* "data dependencies are respected"), as long as the queue feeds the levels.
DependenciesRespected ==
  pc # "done" =>
    \A i \in 1..Len(levels) : \A e \in edges :
      e[2] \in Elems(levels[i]) => \E j \in 1..(i-1) : e[1] \in Elems(levels[j])

\* Every id is in exactly one place of the levels returned (test.html:478,
\* "all nodes appear exactly once").
ExactlyOnce ==
  pc = "done" =>
    \A n \in Node :
      \E i \in 1..Len(levels) : \E j \in 1..Len(levels[i]) :
        /\ levels[i][j] = n
        /\ \A k \in 1..Len(levels) : \A l \in 1..Len(levels[k]) :
             levels[k][l] = n => k = i /\ l = j

\* The ids left at the end are those some cycle of data edges leads to: the
\* largest set each of whose members has an input in the set.
Stuck(S) == \A n \in S : \E e \in edges : e[2] = n /\ e[1] \in S

\* The last level is an out-of-order one exactly for the nodes a cycle feeds:
\* no node is ready and left out, and none is thrown in that could be ordered.
OnlyCyclesAreUnordered ==
  pc = "done" =>
    /\ Stuck(Node \ visited)
    /\ \A S \in SUBSET Node : Stuck(S) => S \cap visited = {}

\* A node is emitted as early as its inputs allow: in the level after the last
\* of them, so the number of steps is the longest chain of data edges.
AsEarlyAsPossible ==
  pc # "done" =>
    \A i \in 2..Len(levels) : \A n \in Elems(levels[i]) :
      \E e \in edges : e[2] = n /\ e[1] \in Elems(levels[i-1])

\* What the loop keeps true besides, for the proofs.
IInv ==
  /\ TypeOK
  /\ QueueIsReady
  /\ NoDuplicate
  /\ \A n \in visited : Waiting(n) = {}
  /\ \A e \in todo : e[1] \in visited
  /\ pc # "inner" => todo = {}
  /\ pc = "done" => q = <<>>
  /\ pc # "done" =>
       visited = UNION {Elems(levels[i]) : i \in 1..Len(levels)}
  /\ DependenciesRespected
  /\ \A S \in SUBSET Node : Stuck(S) => S \cap visited = {}

\* The emitted levels are an execution of the abstract order.
Order == INSTANCE DataflowOrder
           WITH fired <- IF pc = "done" THEN Node ELSE visited
Implements == Order!Spec

\* topoLevels returns.
Terminates == <>(pc = "done")
=============================================================================
