------------------------------- MODULE MCDFA -------------------------------
(***************************************************************************)
(* The labelling pass over the tables of 06-dfa_x86.cpp, on small forests  *)
(* of match trees and the VM flags their predicates ask for.  C2 puts the  *)
(* constant operand of a commutative node on the right, and makes no node  *)
(* that Matcher::match_rule_supported refuses: neither do the forests.     *)
(***************************************************************************)
EXTENDS InstructionSelection, MCScalars, MCVectors

\* The kids the matcher gives a state: a Bool is a leaf, its comparison is the
\* kid next to it.
Matched(n) == IF n.op = "Bool" THEN <<>> ELSE n.in

\* The nodes bottom up, no tree is deeper than six; equal trees are labelled
\* once, their states are equal.
Under(below(_, _), before, n) ==
    IF Contains(before, n) THEN before
    ELSE Append(FoldLeft(below, before, Matched(n)), n)
Depth1(before, n) == IF Contains(before, n) THEN before ELSE Append(before, n)
Depth2(before, n) == Under(Depth1, before, n)
Depth3(before, n) == Under(Depth2, before, n)
Depth4(before, n) == Under(Depth3, before, n)
Depth5(before, n) == Under(Depth4, before, n)
Depth6(before, n) == Under(Depth5, before, n)

\* TLC computes a concatenation at once, and a function anew at each use.
AtOnce(f) == <<>> \o f

AllTrees ==
    LET forests == AtOnce(ScalarForests \o VectorForests) IN
    AtOnce([t \in DOMAIN forests |->
        LET f == forests[t]
            ns == FoldLeft(Depth6, <<>>, f.roots)
        IN  [vm |-> f.vm, leaf |-> ns, code |-> AtOnce([i \in DOMAIN ns |-> DFA(f.vm, ns[i])]),
             kids |-> AtOnce([i \in DOMAIN ns |->
                        LET m == Matched(ns[i]) IN
                        AtOnce([k \in DOMAIN m |-> CHOOSE j \in DOMAIN ns : ns[j] = m[k]])])]])
MCTrees == LET trees == AllTrees IN trees     \* the value of AllTrees, which TLC keeps
=============================================================================
