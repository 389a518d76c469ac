--------------------------- MODULE MCStepBuilder ---------------------------
(* Methods of a few nodes: straight-line arithmetic, the void return and the *)
(* conversion of real dumps, a call with an exception path, and a loop.      *)
EXTENDS StepBuilder

N(type, in) == [type |-> type, in |-> in, ret |-> 0, arg |-> <<>>]
Const(c, in)     == [N("Con", in) EXCEPT !.arg = <<c>>]
Arg(in)          == [N("Parm", in) EXCEPT !.arg = <<0>>]
Returns(in, ret) == [N("Return", in) EXCEPT !.ret = ret]

Root == N("Root", <<1, 8, 9>>)
Start == N("Start", <<2, 1>>)

Unary == {"Neg", "Conv", "Cast", "Op"}
Op(type, x, y) == N(type, IF type \in Unary THEN <<Gap, x>> ELSE <<Gap, x, y>>)

\* return (p op1 c) op2 p, with the wiring and the operators left open.
Arithmetic ==
  {<< Root, Start, N("Parm", <<2>>), Arg(<<2>>), Const(2, <<1>>),
      Op(op1, 4, 5), Op(op2, a, b), Returns(<<3, 7>>, 2) >> :
     op1 \in {"Add", "Cmp", "Neg", "Conv"}, op2 \in {"Sub", "Div", "Cast", "Op"},
     a \in {4, 5, 6}, b \in {4, 6}}

Void == << Root, Start, N("Parm", <<2>>), Arg(<<2>>), Const(2, <<1>>),
           N("Call", <<3, 4, 5>>), N("Proj", <<6>>), N("Return", <<7, 3>>) >>

\* A call whose exception path meets the happy one in a Region and a Phi.
WithRethrow ==
  {<< Root, Start, Arg(<<2>>), Const(3, <<1>>), N("Call", <<2, 3, 4>>),
      N("Proj", <<5>>), N("Phi", <<6, 3>>), Returns(<<happy, 3>>, 2),
      N("Rethrow", <<exc, a>>) >> :
     happy \in {5, 6}, exc \in {6, 7}, a \in {3, 7}}

\* A loop: the Phi takes the parameter and the incremented Phi.
Loop ==
  {<< Root, Start, N("Loop", <<3, 2>>), Arg(<<2>>), Const(1, <<1>>),
      N("Phi", <<3, x, y>>), N("Add", <<Gap, 6, 5>>), Returns(<<3, 6>>, 2) >> :
     x \in {4, 7}, y \in {7}}

MCParams == {0, 1, -3}

MCGraphs == Arithmetic \cup {Void} \cup WithRethrow \cup Loop
=============================================================================
