-------------------------- MODULE MCExceptionPaths --------------------------
(* A method with a return and a rethrow: every wiring of two inner nodes, a  *)
(* region with its self-loop and the two exits, cycles included.             *)
EXTENDS ExceptionPaths

Node(type, in) == [type |-> type, in |-> SetToSeq(in), ret |-> 0, arg |-> <<>>]

Wiring(op1, op2, region, ret, exc) ==
  << Node("Start", {1, 9}), Node("Op", op1), Node("Op", op2 \cup {9}),
     Node("Region", region \cup {4}), Node("Return", ret),
     Node("Rethrow", exc), Node("Root", {5, 6, 9}) >>

Inputs(S) == (SUBSET S) \ {{}}

MCGraphs ==
  {Wiring(op1, op2, region, ret, exc) :
     op1 \in Inputs({1, 3, 4}), op2 \in Inputs({1, 2, 7}),
     region \in SUBSET {2, 3}, ret \in Inputs({2, 4}), exc \in Inputs({1, 3, 4})}
  \cup {<< Node("Start", {1}), Node("Op", {1}), Node("Return", {2}) >>}
=============================================================================
