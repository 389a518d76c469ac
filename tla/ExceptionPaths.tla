--------------------------- MODULE ExceptionPaths ---------------------------
(***************************************************************************)
(* classifyExceptionNodes of ir-core.js: two backward walks over the same  *)
(* stack code, one from the Return nodes and one from the Rethrow nodes;   *)
(* the nodes only the second reaches are the exception path.  One action   *)
(* per turn of the walk's loop.                                            *)
(***************************************************************************)
EXTENDS IRGraph

CONSTANT Graphs      \* the parsed graphs considered

ASSUME GraphsAssumption ==
  \A G \in Graphs : DOMAIN G \subseteq Nat /\ IsFiniteSet(DOMAIN G)

VARIABLES nodes,     \* the graph
          walk,      \* "happy", "exception" or "done"
          stack, reached,
          happyPath, \* what the first walk returned
          exceptionOnly

vars == <<nodes, walk, stack, reached, happyPath, exceptionOnly>>

Push(S) == SetToSeq(S)

\* No Rethrow: the function returns the empty set before any walk.
Init ==
  /\ nodes \in Graphs
  /\ walk = IF OfType(nodes, "Rethrow") = {} THEN "done" ELSE "happy"
  /\ stack = Push(OfType(nodes, "Return"))
  /\ reached = {}
  /\ happyPath = {}
  /\ exceptionOnly = {}

\* The inputs a popped node pushes.  The code tests what is reached, not what
\* is on the stack, so an id may be on it twice.
Unreached(id) ==
  {a \in (InputIds(nodes, id) \cap DOMAIN nodes) \ {id} :
     a \notin reached \cup {id}}

\* A turn that reaches some ids and pushes others.
Turn(reach, push) ==
  /\ walk # "done" /\ stack # <<>>
  /\ Last(stack) \notin reached
  /\ reached' = reached \cup reach
  /\ stack' = Front(stack) \o Push(push)
  /\ UNCHANGED <<nodes, walk, happyPath, exceptionOnly>>

Top == Last(stack)

\* Mutants: the walk goes on through Root and Start; an id is marked when it is
\* pushed.
VisitThroughRoot == Turn({Top}, Unreached(Top))

VisitMarksInputs ==
  Turn({Top} \cup Unreached(Top), IF Inner(nodes, Top) THEN Unreached(Top) ELSE {})

\* An id popped for the first time is reached, and its inputs are pushed
\* unless it is one of the framework nodes both paths hang from.
Visit == Turn({Top}, IF Inner(nodes, Top) THEN Unreached(Top) ELSE {})

\* Mutant: the id already reached is looked at and not popped.
PopAgainPeeks ==
  /\ walk # "done" /\ stack # <<>>
  /\ Last(stack) \in reached
  /\ UNCHANGED vars

PopAgain ==
  /\ walk # "done" /\ stack # <<>>
  /\ Last(stack) \in reached
  /\ stack' = Front(stack)
  /\ UNCHANGED <<nodes, walk, reached, happyPath, exceptionOnly>>

\* The first walk returns; the second starts from a clean set.
EndHappyWalk ==
  /\ walk = "happy" /\ stack = <<>>
  /\ happyPath' = reached
  /\ walk' = "exception"
  /\ stack' = Push(OfType(nodes, "Rethrow"))
  /\ reached' = {}
  /\ UNCHANGED <<nodes, exceptionOnly>>

\* Mutant: the happy path is not subtracted.
EndExceptionWalkAll ==
  /\ walk = "exception" /\ stack = <<>>
  /\ exceptionOnly' = reached
  /\ walk' = "done"
  /\ UNCHANGED <<nodes, stack, reached, happyPath>>

EndExceptionWalk ==
  /\ walk = "exception" /\ stack = <<>>
  /\ exceptionOnly' = reached \ happyPath
  /\ walk' = "done"
  /\ UNCHANGED <<nodes, stack, reached, happyPath>>

Next == Visit \/ PopAgain \/ EndHappyWalk \/ EndExceptionWalk

\* One call on one thread.
Spec == Init /\ [][Next]_vars /\ WF_vars(Next)
-----------------------------------------------------------------------------
\* The seeds of the walk in progress.
Seeds == OfType(nodes, IF walk = "happy" THEN "Return" ELSE "Rethrow")

\* While a walk runs, what it still has to reach is reachable from its stack:
\* a visited node's inputs are visited or on the stack.
FrontierComplete ==
  walk # "done" =>
    /\ Seeds \subseteq reached \cup ToSet(stack)
    /\ \A n \in reached : Inner(nodes, n) =>
         InputIds(nodes, n) \cap DOMAIN nodes \subseteq reached \cup ToSet(stack)

\* The classification is the declared one: on an input path to a Rethrow and
\* on none to a Return (test.html:632 checks one graph).
ClassifiesReachability ==
  walk = "done" =>
    exceptionOnly = IF OfType(nodes, "Rethrow") = {} THEN {}
                    ELSE ExceptionOnly(nodes)

\* Hiding the exception path never hides what the happy path computes with:
\* a node on it keeps all its inputs (test.html:657, for every graph).
HappyPathIsClosed ==
  walk = "done" =>
    \A n \in BackwardFrom(nodes, OfType(nodes, "Return")) :
      /\ n \notin exceptionOnly
      /\ Inner(nodes, n) => InputIds(nodes, n) \cap exceptionOnly = {}

\* The walk ends, on cyclic graphs too.
Terminates == <>(walk = "done")
=============================================================================
