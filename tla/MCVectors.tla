----------------------------- MODULE MCVectors -----------------------------
(***************************************************************************)
(* Forests of vector operations.  A shape is a number of bytes and a type  *)
(* of elements.                                                            *)
(***************************************************************************)
EXTENDS MCNodes

Sizes == <<8, 16, 32, 64>>
Bytes == [byte |-> 1, short |-> 2, int |-> 4, long |-> 8, float |-> 4, double |-> 8]
Register == [k \in {2, 4, 8, 16, 32, 64} |->
                CASE k \in {2, 4} -> "VecS" [] k = 8 -> "VecD" [] k = 16 -> "VecX"
                  [] k = 32 -> "VecY" [] k = 64 -> "VecZ"]
Shape(bytes, e) == [bytes |-> bytes, e |-> e, lanes |-> bytes \div Bytes[e]]
WithLanes(lanes, e) == Shape(lanes * Bytes[e], e)

\* The longest vectors of a VM (Matcher::vector_width_in_bytes)
Longest(vm, e) ==
    CASE vm.UseAVX = 0 -> 16
      [] vm.UseAVX = 1 -> IF e \in {"float", "double"} THEN 32 ELSE 16
      [] vm.UseAVX = 2 -> 32
      [] OTHER -> IF e \in {"byte", "short"} /\ ~vm.avx512bw THEN 32 ELSE 64
Fits(vm, s) == s.lanes >= 2 /\ s.bytes >= 4 /\ s.bytes <= Longest(vm, s.e)

\* Vectors have masks of their own registers in 64 bytes, or with AVX512VL.
Predicated(vm, s) ==
    /\ vm.UseAVX > 2 /\ (s.bytes = 64 \/ vm.avx512vl)
    /\ s.e \in {"byte", "short"} => vm.avx512bw
-----------------------------------------------------------------------------
VNode(op, in, s) == [Node(op, in) EXCEPT !.lo = s.lanes, !.is = {s.e}]
With2(facts, n) == [n EXCEPT !.is = @ \cup facts]
V(k, s) == [VNode(Register[s.bytes], <<>>, s) EXCEPT !.hi = k]
VLoad(s) == VNode("LoadVector", <<P(1)>>, s)
KMask(s) == With2({"mask"}, VNode("RegVectMask", <<>>, s))
\* A mask in a vector, where there are no mask registers
AnyMask(vm, s) == IF Predicated(vm, s) THEN KMask(s) ELSE V(3, s)

Letter == [byte |-> "B", short |-> "S", int |-> "I", long |-> "L", float |-> "F", double |-> "D"]
Integers4 == <<"byte", "short", "int", "long">>
Floats2 == <<"float", "double">>
Types == Integers4 \o Floats2
Of(ops, types) == Each2(LAMBDA op, e : <<op, e>>, ops, types)
Per(ops, types) == Each2(LAMBDA op, e : <<op \o Letter[e], e>>, ops, types)

\* f(vm, op, shape): the roots of a forest, for each shape that fits
Spread(vms, ops, f(_, _, _)) ==
    SelectSeq(Each3(LAMBDA vm, o, k :
                      LET s == Shape(k, o[2]) IN
                      Forest(vm, IF Fits(vm, s) THEN f(vm, o[1], s) ELSE <<>>), vms, ops, Sizes),
              LAMBDA forest : forest.roots # <<>>)
-----------------------------------------------------------------------------
Operate(vm, op, s) == <<VNode(op, <<V(1, s), V(2, s)>>, s), VNode(op, <<V(1, s), VLoad(s)>>, s),
                        VNode(op, <<VLoad(s), V(1, s)>>, s)>>
Saturate(vm, op, s) == Operate(vm, op, s)
                       \o Each(LAMBDA n : With2({"unsigned"}, n), Operate(vm, op, s))
Apply(vm, op, s) == <<VNode(op, <<V(1, s)>>, s), VNode(op, <<VLoad(s)>>, s)>>
Fused(vm, op, s) == <<VNode(op, <<V(1, s), Pair(V(2, s), V(3, s))>>, s),
                      VNode(op, <<V(1, s), Pair(V(2, s), VLoad(s))>>, s)>>
Signum(vm, op, s) == SubSeq(Fused(vm, op, s), 1, 1)
ForIntInputs(vm, op, s) == <<With2({"int inputs"}, VNode(op, <<V(1, s), V(2, s)>>, s)),
                             With2({"uint inputs"}, VNode(op, <<V(1, s), V(2, s)>>, s))>>
Sse4 == [Old EXCEPT !.UseSSE = 4]
Basic == Per(<<"AddV", "SubV">>, Types) \o Per(<<"MulV">>, <<"short", "float", "double">>)
         \o Per(<<"DivV">>, Floats2) \o Of(<<"AndV", "OrV", "XorV">>, <<"byte", "int", "long">>)
ArithmeticForests ==
    Spread(<<VM, Sse4, Avx1, Avx512>>, Basic \o Per(<<"MulV">>, <<"byte", "int", "long">>), Operate)
    \o Spread(<<VM, Avx512>>, <<<<"MulVL", "long">>>>, ForIntInputs)
    \o Spread(<<VM, Knl, Avx512, Avx10>>, Of(<<"MinV", "MaxV">>, Types), Operate)
    \o Spread(<<Sse4>>, Of(<<"MinV", "MaxV">>, Integers4), Operate)
    \o Spread(<<VM, Knl, Avx512>>, Of(<<"UMinV", "UMaxV">>, Integers4), Operate)
    \o Spread(<<VM, Avx512>>, Of(<<"SaturatingAddV", "SaturatingSubV">>, Integers4), Saturate)
    \o Spread(<<VM, Avx512>>, Per(<<"FmaV">>, Floats2), Fused)
    \o Spread(<<VM, Avx512>>, Per(<<"SignumV">>, Floats2), Signum)
    \o Spread(<<VM, Avx512>>, Per(<<"SqrtV", "AbsV", "NegV">>, Floats2), Apply)
    \o Spread(<<VM, Avx512>>, Per(<<"AbsV">>, <<"byte", "short", "int">>), Apply)
    \o Spread(<<Avx512>>, <<<<"AbsVL", "long">>>>, Apply)

\* Rounding to integers, and to a double in the mode of a constant
Rounds(vm, op, s) ==
    LET t == WithLanes(s.lanes, IF s.e = "float" THEN "int" ELSE "long") IN
    <<VNode(op, <<V(1, s)>>, t)>>
RoundsMode(vm, op, s) == <<VNode(op, <<V(1, s), ConInt(1)>>, s), VNode(op, <<VLoad(s), ConInt(1)>>, s)>>
MulAdds(vm, op, s) ==
    LET z == VNode(op, <<V(1, Shape(s.bytes, "short")), V(2, Shape(s.bytes, "short"))>>, s) IN
    <<VNode("AddVI", <<V(3, s), z>>, s), VNode("AddVI", <<z, V(3, s)>>, s)>>
CountForests ==
    Spread(<<VM, Avx512, Avx10>>, Of(<<"PopCountVI">>, <<"byte", "short", "int">>)
                                  \o <<<<"PopCountVL", "long">>>>, Apply)
    \o Spread(<<VM, Avx512>>, Of(<<"CountLeadingZerosV", "CountTrailingZerosV">>, Integers4), Apply)
    \o Spread(<<Knl>>, Of(<<"CountLeadingZerosV", "CountTrailingZerosV">>, <<"int", "long">>), Apply)
    \o Spread(<<VM, ECore>>, Of(<<"ReverseV">>, <<"byte", "int">>), Apply)
    \o Spread(<<VM, Knl, Avx512>>, Of(<<"ReverseBytesV">>, <<"short", "int", "long">>), Apply)
    \o Spread(<<VM, Avx512>>, <<<<"RoundVF", "float">>>>, Rounds)
    \o Spread(<<Avx512>>, <<<<"RoundVD", "double">>>>, Rounds)
    \o Spread(<<VM, Avx512>>, <<<<"RoundDoubleModeV", "double">>>>, RoundsMode)
    \o Spread(<<VM, Sse4, Avx10>>, <<<<"MulAddVS2VI", "int">>>>, MulAdds)

\* Half floats are shorts; a load of them is reinterpreted.
Halves(s) == VNode("VectorReinterpret", <<VLoad(s)>>, s)
HalfOperate(vm, op, s) == <<VNode(op, <<V(1, s), V(2, s)>>, s), VNode(op, <<V(1, s), Halves(s)>>, s),
                            VNode(op, <<Halves(s), V(1, s)>>, s)>>
HalfApply(vm, op, s) == <<VNode(op, <<V(1, s)>>, s), VNode(op, <<Halves(s)>>, s)>>
HalfFused(vm, op, s) == <<VNode(op, <<V(1, s), Pair(V(2, s), V(3, s))>>, s),
                          VNode(op, <<V(1, s), Pair(V(2, s), Halves(s))>>, s)>>
HalfVectorForests ==
    Spread(<<Avx10>>, Of(<<"AddVHF", "SubVHF", "MulVHF", "DivVHF">>, <<"short">>), HalfOperate)
    \o Spread(<<[Avx512 EXCEPT !.avx512_fp16 = TRUE], Avx10>>, Of(<<"MinVHF", "MaxVHF">>, <<"short">>),
              HalfOperate)
    \o Spread(<<Avx10>>, <<<<"SqrtVHF", "short">>>>, HalfApply)
    \o Spread(<<Avx10>>, <<<<"FmaVHF", "short">>>>, HalfFused)
-----------------------------------------------------------------------------
ShiftedBy(by, op, s) == Each(LAMBDA k : VNode(op, <<V(1, s), VNode(by, <<k>>, s)>>, s), <<I(1), ConInt(5)>>)
LShift(vm, op, s) == ShiftedBy("LShiftCntV", op, s)
RShift(vm, op, s) == ShiftedBy("RShiftCntV", op, s)
VarShift(vm, op, s) == <<With2({"var"}, VNode(op, <<V(1, s), V(2, s)>>, s))>>
Rotate(vm, op, s) == IF Predicated(vm, s)
                     THEN <<VNode(op, <<V(1, s), ConInt(5)>>, s), VNode(op, <<V(1, s), V(2, s)>>, s)>>
                     ELSE <<>>
Ternary(vm, op, s) ==
    IF Predicated(vm, s)
    THEN Each(LAMBDA z : VNode(op, <<Pair(V(1, s), V(2, s)), Pair(z, ConInt(5))>>, s), <<V(3, s), VLoad(s)>>)
    ELSE <<>>
Wider == <<"short", "int", "long">>
ShiftForests ==
    Spread(<<VM, Sse4, Avx512>>, Per(<<"LShiftV">>, Integers4), LShift)
    \o Spread(<<VM, Sse4, Avx512>>, Per(<<"RShiftV", "URShiftV">>, Integers4), RShift)
    \o Spread(<<VM, Knl, Avx512>>, Per(<<"LShiftV", "RShiftV", "URShiftV">>, Integers4), VarShift)
    \o Spread(<<Knl, Avx512>>, Of(<<"RotateLeftV", "RotateRightV">>, <<"int", "long">>), Rotate)
    \o Spread(<<Knl, Avx512>>, <<<<"MacroLogicV", "int">>>>, Ternary)

\* Operations under a mask
Masked(op, s, x, y) == VNode(op, <<Pair(x, y), KMask(s)>>, s)
MaskedOperate(vm, op, s) ==
    IF Predicated(vm, s) THEN <<Masked(op, s, V(1, s), V(2, s)), Masked(op, s, V(1, s), VLoad(s))>> ELSE <<>>
MaskedSaturate(vm, op, s) ==
    MaskedOperate(vm, op, s) \o Each(LAMBDA n : With2({"unsigned"}, n), MaskedOperate(vm, op, s))
MaskedApply(vm, op, s) ==
    IF Predicated(vm, s) THEN <<VNode(op, <<V(1, s), KMask(s)>>, s)>> ELSE <<>>
MaskedFused(vm, op, s) ==
    IF Predicated(vm, s)
    THEN Each(LAMBDA z : VNode(op, <<Pair(V(1, s), V(2, s)), Pair(z, KMask(s))>>, s), <<V(3, s), VLoad(s)>>)
    ELSE <<>>
MaskedShift(by, op, s) ==
    Each(LAMBDA k : Masked(op, s, V(1, s), VNode(by, <<k>>, s)), <<I(1), ConInt(5)>>)
    \o <<With2({"var"}, Masked(op, s, V(1, s), V(2, s)))>>
MaskedLShift(vm, op, s) == IF Predicated(vm, s) THEN MaskedShift("LShiftCntV", op, s) ELSE <<>>
MaskedRShift(vm, op, s) == IF Predicated(vm, s) THEN MaskedShift("RShiftCntV", op, s) ELSE <<>>
MaskedRotate(vm, op, s) ==
    IF Predicated(vm, s)
    THEN <<Masked(op, s, V(1, s), ConInt(5)), Masked(op, s, V(1, s), V(2, s))>> ELSE <<>>
MaskedTernary(vm, op, s) ==
    IF Predicated(vm, s)
    THEN <<VNode(op, <<V(1, s), Pair(V(2, s), Pair(V(3, s), Pair(ConInt(5), KMask(s))))>>, s)>>
    ELSE <<>>
MaskedForests ==
    Spread(<<Avx512>>, Basic, MaskedOperate)
    \o Spread(<<Avx512>>, Per(<<"MulV">>, <<"int", "long">>), MaskedOperate)
    \o Spread(<<Avx512>>, Of(<<"MinV", "MaxV", "UMinV", "UMaxV">>, <<"short", "int">>), MaskedOperate)
    \o Spread(<<Avx512>>, Of(<<"SaturatingAddV", "SaturatingSubV">>, <<"byte", "short">>), MaskedSaturate)
    \o Spread(<<Avx512>>, Per(<<"AbsV">>, Integers4) \o Per(<<"SqrtV">>, Floats2)
                          \o Of(<<"CountLeadingZerosV">>, <<"int">>), MaskedApply)
    \o Spread(<<Avx10>>, <<<<"PopCountVI", "int">>, <<"PopCountVL", "long">>>>, MaskedApply)
    \o Spread(<<Avx512>>, Per(<<"FmaV">>, Floats2), MaskedFused)
    \o Spread(<<Avx512>>, Per(<<"LShiftV">>, Wider), MaskedLShift)
    \o Spread(<<Avx512>>, Per(<<"RShiftV", "URShiftV">>, Wider), MaskedRShift)
    \o Spread(<<Avx512>>, Of(<<"RotateLeftV", "RotateRightV">>, <<"int">>), MaskedRotate)
    \o Spread(<<Avx512>>, <<<<"MacroLogicV", "int">>>>, MaskedTernary)
    \o Spread(<<Avx512>>, <<<<"VectorRearrange", "int">>>>, MaskedOperate)
-----------------------------------------------------------------------------
Scalar == [byte |-> I(1), short |-> I(1), int |-> I(1), long |-> L(1), float |-> F(1), double |-> D(1)]
LoadOf == [byte |-> "LoadB", short |-> "LoadS", int |-> "LoadI", long |-> "LoadL", float |-> "LoadF",
           double |-> "LoadD"]
Constants2(e) ==
    CASE e = "long" -> <<ConLong(0), ConLong(-1), ConLong(5)>>
      [] e = "float" -> <<Const("ConF", 0, 0), Const("ConF", 0, 7)>>
      [] e = "double" -> <<Const("ConD", 0, 0), Const("ConD", 1, 0)>>
      [] OTHER -> <<ConInt(0), ConInt(-1), ConInt(5)>>
Replicates(vm, op, s) ==
    Each(LAMBDA x : VNode(op, <<x>>, s), <<Scalar[s.e], Mem(LoadOf[s.e])>> \o Constants2(s.e))
Extracts(vm, op, s) == <<Node(op, <<V(1, s), ConInt(1)>>)>>
Inserts(vm, op, s) == <<VNode(op, <<Pair(V(1, s), Scalar[s.e]), ConInt(1)>>, s)>>
LoadStore(vm, op, s) == <<VLoad(s), Store("StoreVector", P(2), VLoad(s)), Store("StoreVector", P(2), V(1, s)),
                          VNode("CastVV", <<V(1, s)>>, s)>>
\* The indices of a gather: in memory for short elements, else in a vector
Gathers(vm, op, s) ==
    <<VNode(op, <<P(1), IF s.e \in {"byte", "short"} THEN P(2) ELSE V(1, s)>>, s)>>
GathersMasked(vm, op, s) ==
    IF s.e \in {"byte", "short"}
    THEN <<VNode(op, <<P(1), Pair(P(2), IF vm.avx512bw THEN KMask(s) ELSE V(1, s))>>, s)>>
    ELSE IF Predicated(vm, s) THEN <<VNode(op, <<P(1), Pair(V(1, s), KMask(s))>>, s)>> ELSE <<>>
Scatters(vm, op, s) ==
    IF Predicated(vm, s)
    THEN <<Node(op, <<P(1), Pair(V(1, s), V(2, s))>>),
           Node(op \o "Masked", <<P(1), Pair(V(1, s), Pair(V(2, s), KMask(s)))>>)>>
    ELSE <<>>
UnderMask(vm, op, s) ==
    IF Predicated(vm, s) \/ s.e \notin {"byte", "short"}
    THEN <<VNode("LoadVectorMasked", <<P(1), AnyMask(vm, s)>>, s),
           Node("StoreVectorMasked", <<P(1), Pair(V(1, s), AnyMask(vm, s))>>)>>
    ELSE <<>>
\* The first processors with AVX-512 blend by a vector of 64 bytes.
Blends(vm, op, s) ==
    <<VNode(op, <<Pair(V(1, s), V(2, s)), AnyMask(vm, s)>>, s)>>
    \o IF s.bytes = 64 THEN <<VNode(op, <<Pair(V(1, s), V(2, s)), V(3, s)>>, s)>> ELSE <<>>
Shuffles(vm, op, s) == <<VNode(op, <<V(1, s), V(2, s)>>, s)>>
\* Only for shuffles whose indices need work
LoadsShuffle(vm, op, s) == <<VNode(op, <<V(1, s)>>, s)>>
FromTwo(vm, op, s) == <<VNode(op, <<Pair(V(1, s), V(2, s)), V(3, s)>>, s)>>
Squeezes(vm, op, s) == <<VNode(op, <<V(1, s), IF vm.avx512vl \/ s.bytes = 64 THEN KMask(s) ELSE V(2, s)>>, s)>>
Indices(vm, op, s) == <<VNode("PopulateIndex", <<Scalar[s.e], ConInt(1)>>, s),
                        VNode("VectorLoadConst", <<ConInt(0)>>, s)>>
MoveForests ==
    Spread(<<VM, Old, Avx1>>, Of(<<"Replicate">>, Types), Replicates)
    \o Spread(<<Avx10>>, Of(<<"Replicate">>, Types), Replicates)
    \o Spread(<<VM, Avx512>>, Per(<<"Extract">>, Types), Extracts)
    \o Spread(<<VM, Avx512>>, Of(<<"VectorInsert">>, Types), Inserts)
    \o Spread(<<VM, Avx512>>, Of(<<"LoadVector">>, <<"int">>), LoadStore)
    \o Spread(<<VM, Avx512>>, Of(<<"LoadVectorGather">>, <<"byte", "short", "int", "long">>), Gathers)
    \o Spread(<<VM, Avx512>>, Of(<<"LoadVectorGatherMasked">>, <<"byte", "short", "int">>), GathersMasked)
    \o Spread(<<Knl, Avx512>>, Of(<<"StoreVectorScatter">>, <<"int", "long">>), Scatters)
    \o Spread(<<VM, Avx512>>, Of(<<"LoadVectorMasked">>, <<"byte", "int">>), UnderMask)
    \o Spread(<<VM, ECore, Sse4, Knl, Avx512>>, Of(<<"VectorBlend">>, <<"byte", "int", "float">>), Blends)
    \o Spread(<<VM, Sse4, Avx512, Avx10>>, Of(<<"VectorRearrange">>, Types), Shuffles)
    \o Spread(<<VM, Sse4>>, Of(<<"VectorLoadShuffle">>, <<"short">>), LoadsShuffle)
    \o Spread(<<VM>>, Of(<<"VectorLoadShuffle">>, <<"long", "double">>), LoadsShuffle)
    \o Spread(<<Avx10>>, Of(<<"SelectFromTwoVector">>, Types), FromTwo)
    \o Spread(<<VM, Avx512>>, Of(<<"CompressV", "ExpandV">>, <<"int", "long">>), Squeezes)
    \o Spread(<<VM>>, Of(<<"PopulateIndex">>, <<"int", "long">>), Indices)
    \o On(<<VM>>, << <<Node("VerifyVectorAlignment", <<P(1), ConLong(15)>>)>> >>)
-----------------------------------------------------------------------------
\* Conversions of each element, and of the register
Casts(vms, op, from, tos) ==
    SelectSeq(Each3(LAMBDA vm, to, lanes :
                      LET s == WithLanes(lanes, from)
                          t == WithLanes(lanes, to)
                      IN  Forest(vm, IF Fits(vm, s) /\ Fits(vm, t) THEN <<VNode(op, <<V(1, s)>>, t)>>
                                     ELSE <<>>), vms, tos, <<2, 4, 8, 16, 32>>),
              LAMBDA forest : forest.roots # <<>>)
Reinterprets ==
    SelectSeq(Each3(LAMBDA vm, from, to :
                      LET s == Shape(from, "byte") IN
                      Forest(vm, IF Fits(vm, s) /\ to <= Longest(vm, "int")
                                 THEN <<VNode("VectorReinterpret", <<V(1, s)>>, Shape(to, "int"))>>
                                 ELSE <<>>),
                    <<VM, Sse4, Avx512>>, <<4, 8, 16, 32, 64>>, <<4, 8, 16, 32, 64>>),
              LAMBDA forest : forest.roots # <<>>)
ReinterpretsMask ==
    Each(LAMBDA e : Forest(Avx512, <<With2({"mask"}, VNode("VectorReinterpret", <<KMask(Shape(64, e))>>,
                                                         Shape(64, "byte")))>>), Types)
HalfCasts(vm, op, s) ==
    LET h == WithLanes(s.lanes, "short")
        z == VNode("VectorCastF2HF", <<V(1, s)>>, h)
    IN  <<z, Store("StoreVector", P(2), z), VNode("VectorCastHF2F", <<V(1, h)>>, s),
          VNode("VectorCastHF2F", <<VLoad(h)>>, s)>>
CastForests ==
    Casts(<<VM, Avx512>>, "VectorCastB2X", "byte", <<"short", "int", "float", "double">>)
    \o Casts(<<VM, Knl, Avx512>>, "VectorCastS2X", "short", <<"byte", "int", "float">>)
    \o Casts(<<VM, Avx512>>, "VectorCastI2X", "int", <<"byte", "short", "long", "float", "double">>)
    \o Casts(<<VM, Avx512>>, "VectorCastL2X", "long", <<"byte", "short", "int">>)
    \o Casts(<<Avx512>>, "VectorCastL2X", "long", <<"float", "double">>)
    \o Casts(<<VM, Avx512, Avx10>>, "VectorCastF2X", "float", <<"byte", "short", "int", "double">>)
    \o Casts(<<Avx512, Avx10>>, "VectorCastF2X", "float", <<"long">>)
    \o Casts(<<VM, Avx512, Avx10>>, "VectorCastD2X", "double", <<"short", "int", "float">>)
    \o Casts(<<Avx512, Avx10>>, "VectorCastD2X", "double", <<"long">>)
    \o Casts(<<VM>>, "VectorUCastB2X", "byte", <<"short", "int", "long">>)
    \o Casts(<<VM>>, "VectorUCastS2X", "short", <<"int", "long">>)
    \o Casts(<<VM>>, "VectorUCastI2X", "int", <<"long">>)
    \o Reinterprets \o ReinterpretsMask
    \o Spread(<<VM>>, <<<<"VectorCastF2HF", "float">>>>, HalfCasts)
-----------------------------------------------------------------------------
\* Comparisons and masks
Conditions == << {"eq"}, {"ne"}, {"lt", "unsigned"} >>
Compares(vm, op, s) ==
    Each(LAMBDA c : LET n == VNode(op, <<Pair(V(1, s), V(2, s)), Typed(c, ConInt(0))>>, s)
                    IN  IF Predicated(vm, s) THEN With2({"mask"}, n) ELSE n,
         IF s.e \in {"float", "double"} THEN SubSeq(Conditions, 1, 2) ELSE Conditions)
    \o IF Predicated(vm, s)
       THEN <<With2({"mask"}, VNode(op, <<Pair(V(1, s), V(2, s)), Pair(ConInt(0), KMask(s))>>, s))>>
       ELSE <<>>
\* A mask of a vector is true, for some lane or for all
Tests(vm, op, s) ==
    Each(LAMBDA t : Node("If", Cond("ne", Typed({t}, Node(op, <<AnyMask(vm, s), AnyMask(vm, s)>>)))),
         <<"ne", "overflow">>)
\* From and to a vector of booleans, a byte each
LoadMask(vm, op, s) ==
    LET n == VNode(op, <<VNode("VecX", <<>>, WithLanes(s.lanes, "byte"))>>, s) IN
    <<IF Predicated(vm, s) THEN With2({"mask"}, n) ELSE n>>
StoreMask(vm, op, s) ==
    <<VNode(op, <<AnyMask(vm, s), ConInt(Bytes[s.e])>>, WithLanes(s.lanes, "byte"))>>
LanesOf == <<"VectorMaskTrueCount", "VectorMaskFirstTrue", "VectorMaskLastTrue", "VectorMaskToLong">>
QueriesMask(vm, op, s) ==
    IF Predicated(vm, s) THEN <<Node(op, <<KMask(s)>>)>>
    ELSE <<Node(op, <<V(1, WithLanes(s.lanes, "byte"))>>), Node(op, StoreMask(vm, "VectorStoreMask", s))>>
CastsMask(vm, op, s) ==
    <<VNode(op, <<AnyMask(vm, s)>>, s), VNode(op, <<AnyMask(vm, s)>>, WithLanes(s.lanes, "long"))>>
MakesMask(vm, op, s) ==
    IF Predicated(vm, s)
    THEN <<With2({"mask"}, VNode(op, <<L(1)>>, s)), VNode("VectorMaskGen", <<L(1)>>, s),
           VNode("VectorMaskGen", <<ConLong(5)>>, s), VNode("MaskAll", <<I(1)>>, s),
           VNode("MaskAll", <<L(1)>>, s), VNode("CompressM", <<KMask(s)>>, s)>>
    ELSE <<VNode(op, <<L(1)>>, s)>>
CombinesMasks(vm, op, s) ==
    <<VNode(op, <<KMask(s), KMask(s)>>, s), VNode(op, <<KMask(s), VNode("MaskAll", <<ConInt(-1)>>, s)>>, s)>>
MaskForests ==
    Spread(<<VM, Knl, Avx512>>, Of(<<"VectorMaskCmp">>, <<"byte", "int", "float">>), Compares)
    \o Spread(<<VM, Avx512>>, Of(<<"VectorTest">>, <<"byte", "int", "long">>), Tests)
    \o Spread(<<Knl>>, Of(<<"VectorTest">>, <<"int", "long">>), Tests)
    \o Spread(<<VM, Knl, Avx512>>, Of(<<"VectorLoadMask">>, <<"int", "long">>), LoadMask)
    \o Spread(<<VM, Knl, Avx512>>, Of(<<"VectorStoreMask">>, <<"byte", "short", "int", "long">>), StoreMask)
    \o Spread(<<VM, Avx512>>, Of(LanesOf, <<"short", "int">>), QueriesMask)
    \o Spread(<<VM, Avx512>>, Of(<<"VectorMaskCast">>, <<"long">>), CastsMask)
    \o Spread(<<VM, Avx512>>, Of(<<"VectorLongToMask">>, <<"byte", "short", "int">>), MakesMask)
    \o Spread(<<Avx512>>, Of(<<"AndVMask", "OrVMask", "XorVMask">>, <<"byte", "long">>), CombinesMasks)
    \o << Forest(Avx512, <<Node("VectorCmpMasked", <<V(1, Shape(16, "byte")),
                   Pair(V(2, Shape(16, "byte")), KMask(Shape(16, "byte")))>>)>>) >>
-----------------------------------------------------------------------------
Infinity == [float |-> Const("ConF", 0, 7), double |-> Const("ConD", 1, 0)]
Reduces(vm, op, s) == <<Node(op, <<Scalar[s.e], V(1, s)>>)>>
\* In any order of the lanes, or in that of the lanes only
FloatReduces(vm, op, s) ==
    Each(LAMBDA o : Typed(o, Node(op, <<Scalar[s.e], V(1, s)>>)), <<{}, {"strict"}>>)
\* From the starts that change nothing
NeutralReduces(vm, op, s) ==
    Each(LAMBDA t : Node(op, <<Typed(t, Infinity[s.e]), V(1, s)>>), <<{"POS_INF"}, {"NEG_INF"}>>)
Vms512 == <<VM, Avx512, Avx10>>
ReductionForests ==
    Spread(Vms512, Of(<<"AddReductionVI", "MulReductionVI">>, <<"byte", "short", "int">>), Reduces)
    \o Spread(Vms512, Of(<<"AddReductionVL", "MulReductionVL">>, <<"long">>), Reduces)
    \o Spread(Vms512, Of(<<"AndReductionV", "OrReductionV", "XorReductionV">>, Integers4), Reduces)
    \o Spread(Vms512, Of(<<"MinReductionV", "MaxReductionV">>, Types), Reduces)
    \o Spread(Vms512, <<<<"AddReductionVF", "float">>, <<"MulReductionVF", "float">>,
                       <<"AddReductionVD", "double">>, <<"MulReductionVD", "double">>>>, FloatReduces)
    \o Spread(Vms512, Of(<<"MinReductionV", "MaxReductionV">>, Floats2), NeutralReduces)
-----------------------------------------------------------------------------
VectorForests ==
    ArithmeticForests \o CountForests \o HalfVectorForests \o ShiftForests \o MaskedForests
    \o MoveForests \o CastForests \o MaskForests \o ReductionForests
=============================================================================
