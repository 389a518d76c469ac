---------------------------- MODULE DFAOperands ----------------------------
(***************************************************************************)
(* What the tables of 06-dfa_x86.cpp are written with: ideal nodes and the *)
(* predicates on them, the kinds of blocks, and the lists of labels a      *)
(* block records when it matches.                                          *)
(*                                                                         *)
(* An ideal node is [op, in, hi, lo, is]: in are the nodes of its kid      *)
(* states (inputs that take no part in the match, as control and memory,   *)
(* are left out: the address of a Load is Kid(n, 1), and in(2)->in(3) of   *)
(* an AddP is Kid2(n, 1, 2)); hi and lo are the 32-bit halves of a         *)
(* constant, lo the number of a register, or of the lanes of a vector; is  *)
(* holds what predicates ask of its type.  A vm is a record of VM flags    *)
(* and CPU features.                                                       *)
(***************************************************************************)
EXTENDS Integers, Sequences

Own == "own"     \* stands for the rule of the block in a list of labels
-----------------------------------------------------------------------------
NoNode == [op |-> "none", in |-> <<>>, hi |-> 0, lo |-> 0, is |-> {}]

Kid(n, i) == IF i \in DOMAIN n.in THEN n.in[i] ELSE NoNode
Kid2(n, i, j) == Kid(Kid(n, i), j)
Kid3(n, i, j, k) == Kid(Kid2(n, i, j), k)

Has(n, fact) == fact \in n.is
Test(n, tests) == n.is \cap tests # {}      \* as_Bool()->_test._test

\* Vectors and vector masks: vector_length, vector_length_in_bytes, the classes
\* of element types, isa_vectmask.  A reduction's vector is its second input.
Lanes(n) == n.lo
ElementBytes(n) == CASE Has(n, "byte") -> 1
                     [] Has(n, "short") -> 2
                     [] Test(n, {"int", "float"}) -> 4
                     [] Test(n, {"long", "double"}) -> 8
                     [] OTHER -> 0
InBytes(n) == Lanes(n) * ElementBytes(n)
Subword(n) == Test(n, {"byte", "short"})
DoubleWord(n) == Test(n, {"long", "double"})
Integral(n) == Test(n, {"byte", "short", "int", "long"})
Floating(n) == Test(n, {"float", "double"})
IsMask(n) == Has(n, "mask")
Elem(n, type) == Has(Kid(n, 2), type)

\* Helpers of x86.ad: the CPU counts the bits of, or the zeros before, each
\* element.
HasVectorPopCount(vm, n) ==
    IF Subword(n) THEN vm.avx512_bitalg ELSE Test(n, {"int", "long"}) /\ vm.avx512_vpopcntdq
HasVectorClz(vm, n) ==
    Test(n, {"int", "long"}) /\ vm.avx512cd /\ (vm.avx512vl \/ InBytes(n) = 64)

\* Mutant: the sign is not asked for.
AnySign(n) == n.op # "none"

NonNeg(n) == Has(n, "nonneg")               \* is_long()->_lo >= 0

\* Integers are signed here: a long is the pair of its halves, and
\* MinInt + MinInt is not evaluated.
MinInt == -2147483647 - 1
PowersOf2 == {2 ^ k : k \in 0 .. 30} \cup {MinInt}
LowMasks == {2 ^ k - 1 + 2 ^ k : k \in 0 .. 30}     \* 2^j - 1, j in 1 .. 31
Long(n, hi, lo) == n.hi = hi /\ n.lo = lo
Not(n) == [n EXCEPT !.hi = -1 - @, !.lo = -1 - @]   \* ~get_long()
PowerOf2(n) == \/ n.hi = 0 /\ n.lo \in PowersOf2
               \/ n.lo = 0 /\ n.hi \in PowersOf2
SignExtended(n) == n.hi = IF n.lo < 0 THEN -1 ELSE 0

\* Mutant
AnyAddress(n, k) == TRUE

\* A store to where operand k of what it stores was loaded from
SameAddress(n, k) == Kid(n, 1) = Kid3(n, 2, k, 1)

\* The start value of a min/max reduction that changes nothing
NeutralStart(n) == \/ n.op = "MinReductionV" /\ Has(Kid(n, 1), "POS_INF")
                   \/ n.op = "MaxReductionV" /\ Has(Kid(n, 1), "NEG_INF")
-----------------------------------------------------------------------------
(***************************************************************************)
(* The kinds of blocks.  Rule: every production is guarded by the cost of  *)
(* the label.  First: none is, no block before labels the same operands.   *)
(* Operand: an operand class of constants or addresses, which only this    *)
(* block labels, then what it can be loaded or computed into.  Inner: an   *)
(* inner node of a larger match tree; its rule is named after its label.   *)
(* Known: the instructions without an operand at the end of a constant's   *)
(* code, guarded by the cost alone.                                        *)
(***************************************************************************)
Match(kids, when, c, r, to, always) ==
    [kids |-> kids, when |-> when, cost |-> c, rule |-> r, to |-> to,
     always |-> always, known |-> FALSE]

Rule(kids, when, c, r, to) == Match(kids, when, c, r, to, 0)
First(kids, when, c, r, to) == Match(kids, when, c, r, to, Len(to))
Operand(kids, when, c, r, to) == Match(kids, when, c, r, to, 1)
Known(r, to) == [Match(<<>>, TRUE, 0, r, to, 0) EXCEPT !.known = TRUE]

One(nt) == << <<nt, Own, 0>> >>
Inner(kids, nt) == First(kids, TRUE, 0, nt, One(nt))
Nothing == First(<<>>, TRUE, 0, "none", <<>>)   \* a block that computes c only

\* The labels of to, for k more, by the instruction r
Via(r, k, to) ==
    [i \in DOMAIN to |-> <<to[i][1], IF to[i][2] = Own THEN r ELSE to[i][2],
                           to[i][3] + k>>]
-----------------------------------------------------------------------------
\* The lists of labels: registers of each type with their subclasses, stack
\* slots and addresses.
RREGI == <<
    <<"RREGI", Own, 0>>, <<"STACKSLOTI", "storeSSI", 100>>, <<"RAX_REGI", Own, 0>>,
    <<"NO_RBP_R13_REGI", Own, 0>>, <<"RBX_REGI", Own, 0>>, <<"NO_RAX_RDX_REGI", Own, 0>>,
    <<"RCX_REGI", Own, 0>>, <<"RDX_REGI", Own, 0>>, <<"RDI_REGI", Own, 0>> >>
RREGL == <<
    <<"RREGL", Own, 0>>, <<"STACKSLOTL", "storeSSL", 100>>, <<"NO_RAX_RDX_REGL", Own, 0>>,
    <<"RAX_REGL", Own, 0>>, <<"NO_RBP_R13_REGL", Own, 0>>, <<"RCX_REGL", Own, 0>>,
    <<"RDX_REGL", Own, 0>>, <<"R11_REGL", Own, 0>> >>
RREGP == <<
    <<"RREGP", Own, 0>>, <<"STACKSLOTP", "storeSSP", 100>>, <<"ANY_REGP", Own, 0>>,
    <<"INDIRECT", Own, 0>>, <<"MEMORY", "indirect", 0>>, <<"RAX_REGP", Own, 0>>,
    <<"RBX_REGP", Own, 0>>, <<"NO_RBP_REGP", Own, 0>>, <<"NO_RAX_REGP", Own, 0>>,
    <<"RSI_REGP", Own, 0>>, <<"RBP_REGP", Own, 0>>, <<"RDI_REGP", Own, 0>>,
    <<"R15_REGP", Own, 0>> >>
RREGN == <<
    <<"RREGN", Own, 0>>, <<"RAX_REGN", Own, 0>> >>
REGF == <<
    <<"REGF", Own, 0>>, <<"VLREGF", "MoveF2VL", 100>>, <<"LEGREGF", "MoveF2LEG", 100>>,
    <<"STACKSLOTF", "storeSSF", 95>> >>
REGD == <<
    <<"REGD", Own, 0>>, <<"VLREGD", "MoveD2VL", 100>>, <<"LEGREGD", "MoveD2LEG", 100>>,
    <<"STACKSLOTD", "storeSSD", 95>> >>
LEGREGF == <<
    <<"LEGREGF", Own, 0>>, <<"REGF", "MoveLEG2F", 100>>, <<"VLREGF", "MoveF2VL", 200>>,
    <<"STACKSLOTF", "storeSSF", 195>> >>
LEGREGD == <<
    <<"LEGREGD", Own, 0>>, <<"REGD", "MoveLEG2D", 100>>, <<"VLREGD", "MoveD2VL", 200>>,
    <<"STACKSLOTD", "storeSSD", 195>> >>
VLREGF == <<
    <<"VLREGF", Own, 0>>, <<"REGF", "MoveVL2F", 100>>, <<"LEGREGF", "MoveF2LEG", 200>>,
    <<"STACKSLOTF", "storeSSF", 195>> >>
VLREGD == <<
    <<"VLREGD", Own, 0>>, <<"REGD", "MoveVL2D", 100>>, <<"LEGREGD", "MoveD2LEG", 200>>,
    <<"STACKSLOTD", "storeSSD", 195>> >>
RAX_REGI == <<
    <<"RAX_REGI", Own, 0>>, <<"RREGI", Own, 0>>, <<"STACKSLOTI", "storeSSI", 100>>,
    <<"RBX_REGI", Own, 0>>, <<"NO_RAX_RDX_REGI", Own, 0>>, <<"NO_RBP_R13_REGI", Own, 0>>,
    <<"RCX_REGI", Own, 0>>, <<"RDX_REGI", Own, 0>>, <<"RDI_REGI", Own, 0>> >>
RDX_REGI == <<
    <<"RDX_REGI", Own, 0>>, <<"RREGI", Own, 0>>, <<"STACKSLOTI", "storeSSI", 100>>,
    <<"RAX_REGI", Own, 0>>, <<"NO_RBP_R13_REGI", Own, 0>>, <<"RBX_REGI", Own, 0>>,
    <<"NO_RAX_RDX_REGI", Own, 0>>, <<"RCX_REGI", Own, 0>>, <<"RDI_REGI", Own, 0>> >>
RAX_REGL == <<
    <<"RAX_REGL", Own, 0>>, <<"RREGL", Own, 0>>, <<"STACKSLOTL", "storeSSL", 100>>,
    <<"NO_RAX_RDX_REGL", Own, 0>>, <<"RCX_REGL", Own, 0>>, <<"NO_RBP_R13_REGL", Own, 0>>,
    <<"RDX_REGL", Own, 0>>, <<"R11_REGL", Own, 0>> >>
RDX_REGL == <<
    <<"RDX_REGL", Own, 0>>, <<"RREGL", Own, 0>>, <<"STACKSLOTL", "storeSSL", 100>>,
    <<"NO_RAX_RDX_REGL", Own, 0>>, <<"RAX_REGL", Own, 0>>, <<"NO_RBP_R13_REGL", Own, 0>>,
    <<"RCX_REGL", Own, 0>>, <<"R11_REGL", Own, 0>> >>
RBX_REGI == <<
    <<"RBX_REGI", Own, 0>>, <<"RREGI", Own, 0>>, <<"STACKSLOTI", "storeSSI", 100>>,
    <<"RAX_REGI", Own, 0>>, <<"NO_RBP_R13_REGI", Own, 0>>, <<"RCX_REGI", Own, 0>>,
    <<"NO_RAX_RDX_REGI", Own, 0>>, <<"RDX_REGI", Own, 0>>, <<"RDI_REGI", Own, 0>> >>
RAX_REGP == <<
    <<"RAX_REGP", Own, 0>>, <<"ANY_REGP", Own, 0>>, <<"INDIRECT", Own, 0>>,
    <<"MEMORY", "indirect", 0>>, <<"RREGP", Own, 0>>, <<"STACKSLOTP", "storeSSP", 100>>,
    <<"RBX_REGP", Own, 0>>, <<"NO_RBP_REGP", Own, 0>>, <<"NO_RAX_REGP", Own, 0>>,
    <<"RSI_REGP", Own, 0>>, <<"RBP_REGP", Own, 0>>, <<"RDI_REGP", Own, 0>>,
    <<"R15_REGP", Own, 0>> >>
RDI_REGP == <<
    <<"RDI_REGP", Own, 0>>, <<"ANY_REGP", Own, 0>>, <<"INDIRECT", Own, 0>>,
    <<"MEMORY", "indirect", 0>>, <<"RREGP", Own, 0>>, <<"STACKSLOTP", "storeSSP", 100>>,
    <<"RAX_REGP", Own, 0>>, <<"RBX_REGP", Own, 0>>, <<"NO_RBP_REGP", Own, 0>>,
    <<"NO_RAX_REGP", Own, 0>>, <<"RSI_REGP", Own, 0>>, <<"RBP_REGP", Own, 0>>,
    <<"R15_REGP", Own, 0>> >>
VEC == <<
    <<"VEC", Own, 0>>, <<"LEGVEC", "MoveVec2Leg", 100>> >>
LEGVEC == <<
    <<"LEGVEC", Own, 0>>, <<"VEC", "MoveLeg2Vec", 100>> >>

IsStackSlot(nt) == nt \in {"STACKSLOTI", "STACKSLOTL", "STACKSLOTP", "STACKSLOTF", "STACKSLOTD"}
Registers(to) == SelectSeq(to, LAMBDA l : ~IsStackSlot(l[1]))

\* A constant nt with the registers that r loads it into, and an address
\* with the registers that r computes it into
Loaded(nt, r, k, to) == One(nt) \o Via(r, k, to)
Address(nt, r) == <<<<nt, Own, 0>>, <<"MEMORY", Own, 0>>>> \o Via(r, 110, RREGP)
=============================================================================
