------------------------ MODULE InstructionSelection ------------------------
(***************************************************************************)
(* What the tables of 06-dfa_x86.cpp promise the matcher when the          *)
(* labelling pass runs them: Trees[t].leaf[i] is the node of state i       *)
(* (State::_leaf), Trees[t].vm the VM flags, and the code of a state is    *)
(* that of its node's opcode.                                              *)
(***************************************************************************)
EXTENDS DFA_x86, Labeller, FiniteSets

node == Trees[tree].leaf[state]
Flags == Trees[tree].vm
Valid == DOMAIN cost[state]

\* A match that gave label nt its rule
ChosenFor(nt) ==
    LET B == Table(tree, state) IN
    B[CHOOSE j \in DOMAIN B :
        /\ Applies(B[j], tree, state, cost)
        /\ \E k \in DOMAIN B[j].to :
              Label(B[j], k) = nt /\ RuleOf(B[j], k) = rule[state][nt]]
-----------------------------------------------------------------------------
(***************************************************************************)
(* Chain rules of x86.ad: from an operand class into another for a cost.   *)
(* The generator writes out what follows from them in every block.         *)
(***************************************************************************)
Subclasses == [
    RREGI |-> {"RAX_REGI", "NO_RBP_R13_REGI", "RBX_REGI", "NO_RAX_RDX_REGI", "RCX_REGI",
               "RDX_REGI", "RDI_REGI"},
    RREGL |-> {"NO_RAX_RDX_REGL", "RAX_REGL", "NO_RBP_R13_REGL", "RCX_REGL", "RDX_REGL",
               "R11_REGL"},
    RREGP |-> {"ANY_REGP", "RAX_REGP", "RBX_REGP", "NO_RBP_REGP", "NO_RAX_REGP", "RSI_REGP",
               "RBP_REGP", "RDI_REGP", "R15_REGP"}]
Spills == {<<"RREGI", "STACKSLOTI">>, <<"RREGL", "STACKSLOTL">>, <<"RREGP", "STACKSLOTP">>}
FloatCopies == {<<"REGF", "VLREGF">>, <<"REGF", "LEGREGF">>, <<"REGD", "VLREGD">>,
                <<"REGD", "LEGREGD">>}
Offsets32 == {"INDPOSINDEXSCALEOFFSETNARROW", "INDPOSINDEXOFFSETNARROW",
              "INDINDEXSCALEOFFSETNARROW", "INDINDEXSCALENARROW", "INDINDEXOFFSETNARROW",
              "INDOFFSET32NARROW", "INDOFFSET8NARROW", "INDCOMPRESSEDOOPOFFSET",
              "INDPOSINDEXSCALEOFFSET", "INDPOSINDEXOFFSET", "INDINDEXSCALEOFFSET",
              "INDPOSINDEXSCALE", "INDINDEXSCALE", "INDINDEXOFFSET", "INDOFFSET32",
              "INDOFFSET8"}
Constants == {
    <<"IMMI_0", "RREGI", 50>>, <<"IMMI", "RREGI", 100>>, <<"IMML0", "RREGL", 50>>,
    <<"IMML32", "RREGL", 70>>, <<"IMMUL32", "RREGL", 60>>, <<"IMML", "RREGL", 150>>,
    <<"IMMP31", "RREGP", 60>>, <<"IMMP0", "RREGP", 50>>, <<"IMMP", "RREGP", 100>>,
    <<"IMMN0", "RREGN", 100>>, <<"IMMN", "RREGN", 125>>, <<"IMMNKLASS", "RREGN", 125>>,
    <<"IMMF0", "REGF", 100>>, <<"IMMF", "REGF", 125>>, <<"IMMH", "REGF", 125>>,
    <<"IMMD0", "REGD", 100>>, <<"IMMD", "REGD", 125>>}
ChainRules ==
    (UNION {UNION {{<<r, s, 0>>, <<s, r, 0>>} : s \in Subclasses[r]} : r \in DOMAIN Subclasses})
    \cup (UNION {{<<s[1], s[2], 100>>, <<s[2], s[1], 125>>} : s \in Spills})
    \cup {<<"REGF", "STACKSLOTF", 95>>, <<"STACKSLOTF", "REGF", 125>>,
          <<"REGD", "STACKSLOTD", 95>>, <<"STACKSLOTD", "REGD", 125>>}
    \cup (UNION {{<<c[1], c[2], 100>>, <<c[2], c[1], 100>>} : c \in FloatCopies})
    \cup {<<"VEC", "LEGVEC", 100>>, <<"LEGVEC", "VEC", 100>>}
    \cup {<<"RREGN", "RAX_REGN", 0>>, <<"RREGP", "INDIRECT", 0>>, <<"INDIRECT", "MEMORY", 0>>}
    \cup (UNION {{<<a, "MEMORY", 0>>, <<a, "RREGP", 110>>} : a \in Offsets32})
    \cup {<<a, "MEMORY", 0>> : a \in {"INDINDEX", "INDINDEXNARROW", "INDIRECTNARROW"}}
    \cup Constants

\* What the generator writes out for a chain rule: whenever block j is a match for
\* r[1], some block is one for r[2] on the same labels of the kids, or on none,
\* and costs no more than the chain.
Covers(i, l, j, k, r) ==
    /\ Label(i, l) = r[2]
    /\ j.when => i.when
    /\ i.kids = <<>> \/ i.kids = j.kids
    /\ i.cost + i.to[l][3] <= j.cost + j.to[k][3] + r[3]

ASSUME ChainsAssumption ==
    \A B \in UNION {{Table(t, i) : i \in States(t)} : t \in DOMAIN Trees} :
        \A r \in ChainRules : \A j \in DOMAIN B : \A k \in DOMAIN B[j].to :
            B[j].when /\ Label(B[j], k) = r[1] =>
            \E i \in DOMAIN B : \E l \in DOMAIN B[i].to : Covers(B[i], l, B[j], k, r)

\* The matcher reads the labels of a state and follows no chain itself, so each
\* block must record everything its result can be copied, loaded or spilled
\* into, whichever block won the labels on the way: a class that is reached from
\* a valid one is valid, and costs no more than by that route.
ClosedUnderChains ==
    AtReturn =>
    \A r \in ChainRules :
        r[1] \in Valid => r[2] \in Valid /\ cost[state][r[2]] <= cost[state][r[1]] + r[3]
-----------------------------------------------------------------------------
FlagResults == {"RFLAGSREG", "RFLAGSREGU", "RFLAGSREGUCF"}
\* The kinds of registers; a compressed pointer may be bound to RAX.
Kinds == {{"RREGI"}, {"RREGL"}, {"RREGP"}, {"RREGN", "RAX_REGN"}, {"REGF"}, {"REGD"}, {"VEC"},
          {"KREG"}, FlagResults, {"UNIVERSE"}}
Results == UNION Kinds

\* No tree leaves the matcher without an instruction (a "bad AD file"), for any
\* of the VM flags: the predicates of the rules for a node cover all cases, and
\* all agree on the kind of register its value is in.
EveryNodeSelects ==
    AtReturn =>
    CASE node.op = "Bool" -> "CMPOP" \in Valid
      [] node.op = "Binary" -> Valid # {}
      [] OTHER -> Cardinality({K \in Kinds : K \cap Valid # {}}) = 1

CommutativeVector == {"AddVB", "AddVS", "AddVI", "AddVL", "AddVF", "AddVD", "MulVS", "MulVI",
                      "MulVF", "MulVD", "AndV", "OrV", "XorV"}
Commutative == CommutativeVector \cup
    {"AddI", "MulI", "AndI", "OrI", "XorI", "MaxI", "MinI", "AddL", "MulL", "AndL", "OrL",
     "AddF", "MulF", "AddD", "MulD", "MaxF", "MinF", "MaxD", "MinD", "MulVL", "AddVHF", "MulVHF"}

\* The generator writes a second block, with the operands swapped, for every
\* match rule of a commutative operation ("_0" rules): x op y costs what y op x
\* costs.  XorL is left out: its rules with a load have no second block
\* (06-dfa_x86.cpp:22071, 22087).
Swapped(n) == [n EXCEPT !.in = <<Kid(n, 2), Kid(n, 1)>>]
Commutes ==
    AtReturn /\ node.op \in Commutative =>
    \A i \in 1 .. state - 1 :
        Trees[tree].leaf[i] = Swapped(node) =>
        \A nt \in Results \cap Valid :
            nt \in DOMAIN cost[i] /\ cost[i][nt] = cost[state][nt]
-----------------------------------------------------------------------------
PosIndexRules == {"indPosIndexOffset", "indPosIndexScaleOffset", "indPosIndexOffsetNarrow",
                  "indPosIndexScaleOffsetNarrow"}

\* [base + index << scale + offset]
HasIndexAndOffset(a) ==
    /\ a.op = "AddP" /\ Kid(a, 1).op = "AddP"
    /\ Kid(a, 2).op = "ConL" /\ SignExtended(Kid(a, 2))
IndexOf(a) ==
    LET x == Kid2(a, 1, 2) IN
    IF x.op = "LShiftL" /\ Kid(x, 2).op = "ConI" /\ Kid(x, 2).lo \in 0 .. 3
    THEN Kid(x, 1)
    ELSE x
Extends(x) == x.op = "ConvI2L" /\ Has(x, "nonneg")

\* The widening of an int index is folded into the address, so that a load need
\* not wait for it, whenever the index is known not to be negative, and never
\* otherwise: the address would take the upper half of the register for zero.
\* Base pointers decoded from a compressed one, with any shift, included.
FoldsIndex ==
    AtReturn /\ HasIndexAndOffset(node) =>
    (rule[state]["MEMORY"] \in PosIndexRules <=> Extends(IndexOf(node)))

\* The notes on instruction selection say: "If the address tree goes through
\* DecodeN [...] the non-narrow variants can't match either.  Result: fallback
\* to indIndexOffset [...] ConvI2L NOT folded into addressing"
\* (hotspot-c2-debug-instruction-selection.md:57-61).  In the code a DecodeN is
\* also a register, and the non-narrow variants match it.
DecodedIsNotFolded ==
    AtReturn /\ HasIndexAndOffset(node) /\ Kid2(node, 1, 1).op = "DecodeN" /\ Flags.shift # 0
    => rule[state]["MEMORY"] \notin PosIndexRules
-----------------------------------------------------------------------------
\* What a store can do to its memory without a register in between
ReadModifyWrite == {"AddI", "SubI", "AndI", "OrI", "XorI", "LShiftI", "RShiftI", "URShiftI",
                    "AddL", "SubL", "AndL", "OrL", "XorL", "LShiftL", "RShiftL", "URShiftL"}
Unordered == [StoreB |-> {"AndI", "OrI", "XorI"}, StoreI |-> {"AddI", "AndI", "OrI", "XorI"},
              StoreL |-> {"AddL", "AndL", "OrL"}]

\* Operand k of the stored value is what the memory held.
Loads == [StoreB |-> "LoadB", StoreI |-> "LoadI", StoreL |-> "LoadL"]
Rereads(k) == /\ Kid2(node, 2, k).op = Loads[node.op]
              /\ Kid3(node, 2, k, 1) = Kid(node, 1)

\* The store's rule takes its value as an inner node of a larger match; the rule
\* of such a label is named after it.
Fuses == LET nt == ChosenFor("UNIVERSE").kids[2] IN
         rule[Trees[tree].kids[state][2]][nt] = nt

\* 0 - x
Negates == /\ Kid(node, 2).op \in {"SubI", "SubL"}
           /\ Kid2(node, 2, 1).op \in {"ConI", "ConL"} /\ Long(Kid2(node, 2, 1), 0, 0)

\* A store that does its arithmetic in memory writes where the operand was
\* loaded from, not where some other operand was, and as many bytes; and it is
\* chosen whenever it can be.
FusesSameAddress ==
    AtReturn /\ node.op \in DOMAIN Loads /\ Kid(node, 2).op \in ReadModifyWrite =>
    LET unordered == Kid(node, 2).op \in Unordered[node.op] \/ Negates IN
    /\ Fuses => Rereads(1) \/ (unordered /\ Rereads(2))
    /\ unordered /\ (Rereads(1) \/ Rereads(2)) => Fuses
-----------------------------------------------------------------------------
\* Vector operations that can take an operand from memory
RightOperand == {"SubVB", "SubVS", "SubVI", "SubVL", "SubVF", "SubVD", "DivVF", "DivVD"}
VectorInMemory ==
    LET IsLoad(n) == n.op = "LoadVector" IN
    \/ node.op \in CommutativeVector /\ (IsLoad(Kid(node, 1)) \/ IsLoad(Kid(node, 2)))
    \/ node.op \in RightOperand /\ IsLoad(Kid(node, 2))
    \/ node.op \in {"SqrtVF", "SqrtVD"} /\ IsLoad(Kid(node, 1))
    \/ node.op \in {"FmaVF", "FmaVD"} /\ IsLoad(Kid2(node, 2, 2))
FoldedVectors == {"_LOADVECTOR_MEMORY_", "_BINARY_VEC__LOADVECTOR_MEMORY_"}

\* An instruction reads a whole register's worth of memory, 16 bytes or more, at
\* any alignment only in its AVX form: a vector operand is folded into the
\* operation if it fills a register and there is AVX, on whichever side it is,
\* and loaded by itself otherwise, so that nothing beyond a shorter one is read.
FoldsWholeVectors ==
    AtReturn /\ VectorInMemory =>
    LET kids == ChosenFor("VEC").kids IN
    (\E k \in DOMAIN kids : kids[k] \in FoldedVectors)
    <=> Flags.UseAVX > 0 /\ InBytes(Kid(node, 1)) > 8
-----------------------------------------------------------------------------
BarrierRules == {
    "g1LoadP", "g1LoadN", "g1StoreP", "g1StoreN", "g1EncodePAndStoreN", "g1CompareAndSwapP",
    "g1CompareAndSwapN", "g1CompareAndSwapP_0", "g1CompareAndSwapN_0", "g1CompareAndExchangeP",
    "g1CompareAndExchangeN", "g1GetAndSetP", "g1GetAndSetN", "zLoadP", "zLoadPNullCheck",
    "zStoreP", "zStorePNull", "zCompareAndSwapP", "zCompareAndSwapP_0", "zCompareAndExchangeP",
    "zXChgP"}
FoldedReferences == {"_LOADP_MEMORY_", "_LOADN_MEMORY_"}

\* The collector's barrier of an access is emitted by the instruction that does
\* the access: its node gets a rule of the collector's, at any cost, and no other
\* instruction swallows a load with a barrier; nor is a barrier emitted where
\* none is asked for.
BarriersKept ==
    AtReturn =>
    \A nt \in Results \cap Valid :
        LET match == ChosenFor(nt) IN
        /\ Has(node, "barrier") <=> match.rule \in BarrierRules \ {"zLoadPNullCheck"}
        /\ \A k \in DOMAIN match.kids :
              match.kids[k] \in FoldedReferences /\ Has(Kid(node, k), "barrier")
              => match.rule \in BarrierRules
-----------------------------------------------------------------------------
Decided == {"If", "CountedLoopEnd", "CMoveI", "CMoveL", "CMoveP", "CMoveN", "CMoveF", "CMoveD"}
Test1 == IF node.op \in {"If", "CountedLoopEnd"} THEN Kid(node, 1) ELSE Kid2(node, 1, 1)

\* The condition a rule tests, with its flags
SignedTest == {"CMPOP", "_BINARY_CMPOP_RFLAGSREG"}
UnsignedTest == {"CMPOPU", "_BINARY_CMPOPU_RFLAGSREGU"}
CarryTest == {"CMPOPUCF", "_BINARY_CMPOPUCF_RFLAGSREGUCF"}
ParityTest == {"CMPOPUCF2", "_BINARY_CMPOPUCF2_RFLAGSREGUCF"}

\* It is one that the flags can answer after the comparison the Bool is of.
NoOrder == {"eq", "ne", "overflow", "no_overflow"}
Follows(test, bool) ==
    LET compared == Kid(bool, 1)
        float == compared.op \in {"CmpF", "CmpD"}
        equality == Test(bool, {"eq", "ne"}) /\ Kid(compared, 1) # Kid(compared, 2)
    IN  /\ test \in SignedTest =>
               compared.op \in {"CmpI", "CmpL"} \/ Test(bool, NoOrder)
        /\ test \in UnsignedTest => compared.op \notin {"CmpI", "CmpL"}
        /\ test \in CarryTest => float /\ ~equality
        /\ test \in ParityTest => float /\ equality

\* A branch or conditional move tests the flags the way its comparison set them:
\* signed or unsigned, and after a floating comparison for (in)equality of two
\* numbers either the parity flag too, which is set when one is not a number, or
\* flags that were fixed up; the carry flag alone would take NaN for equal.
BranchFollowsCompare ==
    AtReturn /\ node.op \in Decided =>
    \A nt \in Results \cap Valid : Follows(ChosenFor(nt).kids[1], Test1)
-----------------------------------------------------------------------------
(***************************************************************************)
(* What the proofs take from C2 and from the tables as a whole.            *)
(***************************************************************************)
\* A state's code is that of its node, and its kids are the node's, as many of them
\* wherever the node is matched.
ASSUME CodeAssumption ==
    \A t \in DOMAIN Trees : \A i \in States(t) :
        LET n == Trees[t].leaf[i]
            kids == Trees[t].kids[i]
        IN  /\ "in" \in DOMAIN n
            /\ Table(t, i) = DFA(Trees[t].vm, n)
            /\ \A k \in DOMAIN kids : Trees[t].leaf[kids[k]] = Kid(n, k)
            /\ \A m \in States(t) :
                  Trees[t].leaf[m] = n => DOMAIN Trees[t].kids[m] = DOMAIN kids

\* Only a null constant is an operand of the class of nulls.
IsNull(n) == (n.op = "ConP" /\ Long(n, 0, 0)) \/ (n.op = "ConN" /\ n.lo = 0)

ASSUME NullsAssumption ==
    \A t \in DOMAIN Trees : \A i \in States(t) :
        \A j \in DOMAIN Table(t, i) : \A k \in DOMAIN Table(t, i)[j].to :
            Table(t, i)[j].when /\ Label(Table(t, i)[j], k) \in {"IMMP0", "IMMN0"}
            => IsNull(Trees[t].leaf[i])

\* A condition is a Bool with one test, next to the comparison it tests.  What has
\* no order is compared for equality, pointers with null among it, and an overflow
\* is asked for nothing else.
SignedOps == {"CmpI", "CmpL"}
UnsignedOps == {"CmpU", "CmpUL", "VectorTest"}
PointerOps == {"CmpP", "CmpN"}
FloatOps == {"CmpF", "CmpD"}
StatusOps == {"FastLock", "FastUnlock", "OverflowAddI", "OverflowAddL", "OverflowSubI",
              "OverflowSubL", "OverflowMulI", "OverflowMulL"}

Condition(bool, flags) ==
    /\ bool.op = "Bool" /\ Kid(bool, 1) = flags
    /\ \A a, b \in bool.is : a = b
    /\ flags.op \in SignedOps \cup UnsignedOps \cup PointerOps \cup FloatOps
                   \cup StatusOps
    /\ \/ flags.op \in PointerOps /\ IsNull(Kid(flags, 2))
       \/ flags.op \in StatusOps
       => Test(bool, NoOrder)

ASSUME ConditionsAssumption ==
    \A t \in DOMAIN Trees : \A i \in States(t) :
        LET n == Trees[t].leaf[i] IN
        n.op \in Decided =>
        IF n.op \in {"If", "CountedLoopEnd"}
        THEN Condition(Kid(n, 1), Kid(n, 2))
        ELSE Kid(n, 1).op = "Binary" /\ Condition(Kid2(n, 1, 1), Kid2(n, 1, 2))

\* Some block of state i can record nt.
MayLabel(t, i, nt) ==
    \E j \in DOMAIN Table(t, i) :
        /\ Table(t, i)[j].when
        /\ \E k \in DOMAIN Table(t, i)[j].to : Label(Table(t, i)[j], k) = nt

\* What production k of block j gives for x op y, production l of block i gives
\* for y op x.
Mirrors(i, l, j, k) ==
    /\ i.when /\ i.kids = <<j.kids[2], j.kids[1]>>
    /\ Label(i, l) = Label(j, k)
    /\ i.cost + i.to[l][3] <= j.cost + j.to[k][3]

\* Every block that can match state i has its mirror image for state m.  A constant
\* is an operand on one side only: its block cannot match where no kid on that side
\* can have the label.
Mirrored(t, i, m) ==
    \A j \in DOMAIN Table(t, i) : \A k \in DOMAIN Table(t, i)[j].to :
        LET match == Table(t, i)[j] IN
        /\ match.when /\ Label(match, k) \in Results
        /\ \A x \in DOMAIN match.kids : MayLabel(t, Trees[t].kids[i][x], match.kids[x])
        => /\ Len(match.kids) = 2
           /\ \E n \in DOMAIN Table(t, m) : \E l \in DOMAIN Table(t, m)[n].to :
                 Mirrors(Table(t, m)[n], l, match, k)

\* The two orders of a commutative operation, both ways round
ASSUME SwapsAssumption ==
    \A t \in DOMAIN Trees : \A i, m \in States(t) :
        LET n == Trees[t].leaf[i] IN
        n.op \in Commutative /\ Trees[t].leaf[m] = Swapped(n) =>
        /\ Len(Trees[t].kids[i]) = 2 /\ Len(Trees[t].kids[m]) = 2
        /\ Mirrored(t, i, m) /\ Mirrored(t, m, i)

\* States of the same node have the same labels at the same costs.
SameLabels(i, m) == /\ DOMAIN cost[i] = DOMAIN cost[m]
                    /\ \A nt \in DOMAIN cost[i] : cost[i][nt] = cost[m][nt]
Determined ==
    \A i, m \in 1 .. state - 1 :
        Trees[tree].leaf[i] = Trees[tree].leaf[m] => SameLabels(i, m)
=============================================================================
