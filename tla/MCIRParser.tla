----------------------------- MODULE MCIRParser -----------------------------
(* Dumps of a method that computes from two parameters or calls with them:   *)
(* the lines in any order, a heading and a node of another dump among them.  *)
EXTENDS IRParser

Line(id, type, toks, outs) ==
  [shape |-> TRUE, id |-> id, type |-> type, toks |-> toks, outs |-> outs]

Start  == Line(3, "Start", <<Id(3), Id(0)>>, {3, 10, 11})
Parm0  == Line(10, "Parm", <<Id(3)>>, {24})
Parm1  == Line(11, "Parm", <<Id(3)>>, {24})
Square == Line(24, "Op", <<Blank, Id(10), Id(11), Id(10)>>, {25})
Exit   == Line(25, "Return", <<Id(3), Blank, Returns, Id(24)>>, {0})
Stray  == Line(10, "Parm", <<Id(3)>>, {24})   \* the same id from a second dump

\* CallStaticJava === 3 (10 11 ): the first argument follows the parenthesis.
Call == Line(24, "Call", <<Id(3), Glued(10), Id(11)>>, {25})

Shuffled(ls) ==
  {<<ls[p[1]], ls[p[2]], ls[p[3]], ls[p[4]], ls[p[5]]>> :
     p \in {f \in [1..5 -> 1..5] : \A i, j \in 1..5 : f[i] = f[j] => i = j}}

MCDumps ==
  Shuffled(<<Start, Parm0, Parm1, Square, Exit>>)
    \cup Shuffled(<<Garbage, Parm0, Stray, Square, Exit>>)
    \cup {<<Start, Parm0, Parm1, Call, Exit>>}
=============================================================================
