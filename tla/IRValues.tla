------------------------------ MODULE IRValues ------------------------------
(***************************************************************************)
(* computeValue of ir-core.js: what a node shows once it has executed.     *)
(* Numbers are the small integers of an instance, on which JavaScript's    *)
(* doubles are exact; words ("ctrl", "done", "?") are told apart from      *)
(* numbers and from a Return's "ret ...".                                  *)
(***************************************************************************)
EXTENDS IRGraph

Num(v)  == <<"num", v>>
Word(w) == <<"word", w>>
Ret(x)  == <<"ret", x>>
Nothing == <<"nothing">>   \* null and undefined

IsNum(x) == x[1] = "num"

Mag(a) == IF a < 0 THEN -a ELSE a

\* Math.trunc(a / b).
Trunc(a, b) == IF (a < 0) = (b < 0) THEN Mag(a) \div Mag(b)
                                    ELSE -(Mag(a) \div Mag(b))

Binary == [Add |-> [a, b \in Int |-> Num(a + b)],
           Sub |-> [a, b \in Int |-> Num(a - b)],
           Div |-> [a, b \in Int |-> IF b = 0 THEN Word("/0") ELSE Num(Trunc(a, b))],
           Cmp |-> [a, b \in Int |-> Word(IF a < b THEN "<" ELSE IF a > b THEN ">" ELSE "=")]]

\* The input a Return shows: the one after "returns", else the last one, whose
\* place the code takes in the array without placeholders and uses in the
\* array with them.
ReturnInput(node) ==
  IF node.ret > 0 THEN node.ret
  ELSE Cardinality({i \in DOMAIN node.in : node.in[i] # Gap})

\* ins are the values of node.in, position by position.
ComputeValue(node, ins, param) ==
  LET t    == node.type
      nums == SelectSeq(ins, IsNum)
      Of(i) == nums[i][2]
  IN  CASE t = "Start" -> Word("{...}")
        [] t = "Root"  -> Word("done")
        [] t = "Parm"  -> IF node.arg = <<>> THEN Word("role") ELSE Num(param)
        [] IsCon(t)    -> IF node.arg = <<>> THEN Word("#?") ELSE Num(node.arg[1])
        [] t = "Return" ->
             LET ri == ReturnInput(node)
             IN  IF ri \in DOMAIN ins /\ ins[ri] # Nothing THEN Ret(ins[ri])
                 ELSE Ret(Word("?"))
        [] t \in DOMAIN Binary /\ Len(nums) >= 2 -> Binary[t][Of(1), Of(2)]
        [] t = "Neg"  /\ Len(nums) >= 1 -> Num(-Of(1))
        [] t = "Cast" /\ Len(nums) >= 1 -> nums[1]
        [] t \in {"Proj", "Phi"} /\ Len(nums) = 1 -> nums[1]
        [] OTHER -> Nothing
=============================================================================
