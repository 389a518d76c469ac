----------------------------- MODULE MCScalars -----------------------------
(***************************************************************************)
(* Forests of scalar operations, addresses, memory accesses, comparisons,  *)
(* atomic operations, calls and intrinsics.                                *)
(***************************************************************************)
EXTENDS MCNodes

-----------------------------------------------------------------------------
IntForests ==
    Commuted(<<"AddI", "AndI", "OrI", "XorI", "MulI">>, "StoreI", <<I(1), Mem("LoadI")>>,
             <<I(2), Away("LoadI"), Node("LShiftI", <<I(2), ConInt(2)>>)>>)
    \o Commuted(<<"AddI", "AndI", "OrI", "XorI">>, "StoreB", <<I(1), Mem("LoadB"), Mem("LoadI")>>,
                <<I(2), Away("LoadB")>>)
    \o Commuted(<<"MaxI", "MinI">>, "", <<I(1)>>, <<I(2), Mem("LoadI")>>)
    \o Commuted(<<"AndI">>, "", <<Mem("LoadI"), I(1)>>,
                <<Node("XorI", <<I(2), ConInt(-1)>>),
                  Node("AddI", <<Mem("LoadI"), ConInt(-1)>>),
                  Node("AddI", <<I(1), ConInt(-1)>>),
                  Node("SubI", <<ConInt(0), Mem("LoadI")>>),
                  Node("SubI", <<ConInt(0), I(1)>>)>>)
    \o Commuted(<<"XorI">>, "", <<Mem("LoadI"), I(1)>>,
                <<Node("AddI", <<Mem("LoadI"), ConInt(-1)>>), Node("AddI", <<I(1), ConInt(-1)>>)>>)
    \o Binary2(<<"AddI", "SubI", "AndI", "OrI", "XorI", "MulI">>, "StoreI",
               <<I(1), Mem("LoadI")>>, <<ConInt(1), ConInt(-1), ConInt(255)>>)
    \o Binary2(<<"LShiftI", "RShiftI", "URShiftI">>, "StoreI",
               <<I(1), Mem("LoadI")>>, <<I(2), ConInt(1), ConInt(24)>>)
    \o Binary2(<<"SubI", "DivI", "ModI", "CmpLTMask">>, "", <<I(1)>>, <<I(2)>>)
    \o << <<Node("AddI", <<Node("AndI", <<Node("CmpLTMask", <<I(1), I(2)>>), I(2)>>),
                           Node("SubI", <<I(1), I(2)>>)>>)>>,
          <<Node("ConvL2I", <<Node("AndL", <<L(1), ConLong(3)>>)>>)>>,
          <<Node("AddI", <<Node("AddI", <<I(1), Node("LShiftI", <<I(2), ConInt(2)>>)>>),
                           ConInt(8)>>)>> >>

LongForests ==
    Commuted(<<"AddL", "AndL", "OrL", "XorL", "MulL">>, "StoreL", <<L(1), Mem("LoadL")>>,
             <<L(2), Away("LoadL"), Node("LShiftL", <<L(2), ConInt(2)>>)>>)
    \o Commuted(<<"AndL">>, "", <<Mem("LoadL"), L(1)>>,
                <<Node("XorL", <<L(2), ConLong(-1)>>),
                  Node("AddL", <<Mem("LoadL"), ConLong(-1)>>),
                  Node("SubL", <<ConLong(0), L(1)>>)>>)
    \o Binary2(<<"AddL", "SubL", "AndL", "OrL", "XorL", "MulL">>, "StoreL",
               <<L(1), Mem("LoadL")>>, <<ConLong(1), ConLong(-1), ConLong(255), Far>>)
    \o Binary2(<<"LShiftL", "RShiftL", "URShiftL">>, "StoreL",
               <<L(1), Mem("LoadL")>>, <<I(2), ConInt(1), ConInt(3)>>)
    \o Binary2(<<"SubL", "DivL", "ModL", "MulHiL", "UMulHiL">>, "", <<L(1)>>, <<L(2)>>)
    \o << <<Node("AndL", <<Wide, Const("ConL", 0, -1)>>)>>,
          <<Node("AndL", <<Node("ConvI2L", <<Mem("LoadI")>>), Const("ConL", 0, -1)>>)>>,
          <<Node("CastP2X", <<P(1)>>), Node("CastX2P", <<L(1)>>)>> >>

UnaryForests ==
    Unary(<<"NegI", "AbsI", "CountLeadingZerosI", "CountTrailingZerosI", "PopCountI", "CastII",
            "ConvI2L", "ConvI2F", "ConvI2D", "MoveI2F">>, <<I(1), Mem("LoadI")>>)
    \o Unary(<<"NegL", "AbsL", "CountLeadingZerosL", "CountTrailingZerosL", "PopCountL",
               "ConvL2I", "ConvL2F", "ConvL2D", "MoveL2D">>, <<L(1), Mem("LoadL")>>)
    \o Each(LAMBDA imm : <<Typed(imm, Node("CastLL", <<L(1)>>))>>, <<{}, {"imm32"}>>)
    \o Each3(LAMBDA op, x, y : <<Typed({"int"}, Node(op, <<x, y>>))>>,
             <<"RotateLeft", "RotateRight">>, <<I(1), Mem("LoadI")>>, <<ConInt(5), I(2)>>)
    \o Each3(LAMBDA op, x, y : <<Typed({"long"}, Node(op, <<x, y>>))>>,
             <<"RotateLeft", "RotateRight">>, <<L(1), Mem("LoadL")>>, <<ConInt(5), I(2)>>)
-----------------------------------------------------------------------------
Offsets == <<ConLong(16), ConLong(1000), Far, L(1), Index, Wide, Scaled(Index, 2),
             Scaled(Wide, 2), Scaled(Index, 4)>>
Addresses ==
    Bases \o Each2(At, Bases, Offsets)
    \o Each2(LAMBDA base, off : At(At(base, off), ConLong(16)), Bases, SubSeq(Offsets, 4, 9))
AddressForests == Each(LAMBDA a : <<Mem("LoadI"), Load("LoadI", a), Store("StoreI", a, I(2))>>,
                       Addresses)

Barriers == <<{}, {"barrier"}>>
PointerForests ==
    Each(LAMBDA op : <<Mem(op)>>, <<"LoadB", "LoadUB", "LoadS", "LoadUS", "LoadL", "LoadRange",
                                    "LoadKlass", "LoadF", "LoadD">>)
    \o Each(LAMBDA x : <<Typed(x, Mem("LoadP")), Typed(x, Store("StoreP", P(1), P(2)))>>, Barriers)
    \o Each2(LAMBDA op, v : <<Store(op, P(1), v)>>, <<"StoreB", "StoreC", "StoreI">>,
             <<I(1), ConInt(0), ConInt(100), ConInt(1000), ConInt(70000)>>)
    \o Each(LAMBDA v : <<Store("StoreP", P(1), v)>>,
            <<Const("ConP", 0, 0), Const("ConP", 0, 100), Const("ConP", 1, 0)>>)
    \o Each(LAMBDA v : <<Store("StoreF", P(1), v)>>,
            <<F(1), Const("ConF", 0, 0), Const("ConF", 0, 7)>>)
    \o Each(LAMBDA v : <<Store("StoreD", P(1), v)>>,
            <<D(1), Const("ConD", 0, 0), Const("ConD", 1, 0)>>)
    \o << <<Node("ThreadLocal", <<>>)>>, <<Node("CheckCastPP", <<P(1)>>)>>,
          <<Node("CastPP", <<P(1)>>)>> >>

\* With compressed pointers
NarrowForests ==
    Each(LAMBDA x : <<Typed(x, Mem("LoadN")), Typed(x, Store("StoreN", P(1), Narrow))>>, Barriers)
    \o Each2(LAMBDA op, t : <<Typed({t}, Node(op, <<P(1)>>))>>,
             <<"EncodeP", "EncodePKlass">>, <<"NotNull", "BotPTR">>)
    \o Each(LAMBDA t : <<Typed({t}, Node("DecodeN", <<Narrow>>))>>,
            <<"NotNull", "Constant", "BotPTR">>)
    \o << <<Node("DecodeNKlass", <<Mem("LoadNKlass")>>)>>,
          <<Store("StoreN", P(1), Leaf("ConN", 0))>>, <<Store("StoreN", P(1), Leaf("ConN", 5))>>,
          <<Store("StoreNKlass", P(1), Leaf("ConNKlass", 5))>> >>
-----------------------------------------------------------------------------
Compare(op, xs, ys) == Each2(LAMBDA x, y : Node(op, <<x, y>>), xs, ys)
Signed == Compare("CmpI", <<I(1), Mem("LoadI")>>, <<I(2), ConInt(0), ConInt(5)>>)
          \o Compare("CmpL", <<L(1), Mem("LoadL")>>, <<L(2), ConLong(0)>>)
          \o Compare("CmpI", <<Node("AndI", <<I(1), ConInt(8)>>),
                               Node("AndI", <<I(1), Mem("LoadI")>>)>>, <<ConInt(0)>>)
Unsigned == Compare("CmpU", <<I(1)>>, <<I(2), ConInt(0), Mem("LoadI")>>)
            \o Compare("CmpUL", <<L(1)>>, <<L(2), ConLong(0)>>)
\* Pointers are compared for equality, and those into an allocation buffer for order.
Pointers == Compare("CmpP", <<P(1)>>, <<P(2), Const("ConP", 0, 0), Mem("LoadP")>>)
            \o Compare("CmpN", <<Narrow>>, <<Leaf("ConN", 0), Mem("LoadN")>>)
\* A comparison of a number with itself needs no test for unordered.
Reals == Compare("CmpF", <<F(1)>>, <<F(1), F(2), Mem("LoadF")>>)
         \o Compare("CmpD", <<D(1)>>, <<D(1), D(2), Mem("LoadD")>>)
BranchForests ==
    Each2(LAMBDA t, c : <<Node("If", Cond(t, c))>>, <<"eq", "lt">>, Signed \o Unsigned)
    \o Each2(LAMBDA t, c : <<Node("If", Cond(t, c))>>, <<"eq", "ne">>, Pointers)
    \o << <<Node("If", Cond("ge", Node("CmpP", <<P(1), P(2)>>)))>> >>
    \o Each2(LAMBDA t, c : <<Node("If", Cond(t, c))>>, <<"ne", "lt">>, Reals)
    \o Each(LAMBDA c : <<Node("CountedLoopEnd", Cond("lt", c))>>, Signed)
    \o << <<Node("CmpL3", <<L(1), L(2)>>)>>, <<Node("CmpUL3", <<L(1), L(2)>>)>>,
          <<Node("CmpU3", <<I(1), I(2)>>)>>, <<Node("CmpF3", <<F(1), F(2)>>)>>,
          <<Node("CmpD3", <<D(1), D(2)>>)>> >>
SelectForests ==
    Each3(LAMBDA v, t, c : <<Select(v[1], t, c, v[2], v[3])>>,
          << <<"CMoveI", I(1), I(2)>>, <<"CMoveI", I(1), Mem("LoadI")>>,
             <<"CMoveI", ConInt(1), ConInt(0)>>, <<"CMoveL", L(1), L(2)>>,
             <<"CMoveL", L(1), Mem("LoadL")>>, <<"CMoveP", P(1), P(2)>>,
             <<"CMoveN", Narrow, Leaf("RegN", 2)>>, <<"CMoveF", F(1), F(2)>>,
             <<"CMoveD", D(1), D(2)>> >>,
          <<"eq", "lt">>,
          <<Node("CmpI", <<I(1), I(2)>>), Node("CmpU", <<I(1), I(2)>>),
            Node("CmpF", <<F(1), F(2)>>)>>)

FloatForests ==
    Commuted(<<"AddF", "MulF">>, "", <<F(1)>>, <<F(2), Mem("LoadF")>>)
    \o Commuted(<<"AddD", "MulD">>, "", <<D(1)>>, <<D(2), Mem("LoadD")>>)
    \o Binary2(<<"AddF", "MulF", "SubF", "DivF">>, "", <<F(1)>>,
               <<F(2), Mem("LoadF"), Const("ConF", 0, 7)>>)
    \o Binary2(<<"AddD", "MulD", "SubD", "DivD">>, "", <<D(1)>>,
               <<D(2), Mem("LoadD"), Const("ConD", 1, 0)>>)
    \o Unary(<<"NegF", "AbsF", "SqrtF", "ConvF2D", "ConvF2I", "ConvF2L", "MoveF2I">>,
             <<F(1), Mem("LoadF")>>)
    \o Unary(<<"NegD", "AbsD", "SqrtD", "ConvD2F", "ConvD2I", "ConvD2L", "MoveD2L">>,
             <<D(1), Mem("LoadD")>>)
    \o << <<Node("FmaF", <<F(1), Pair(F(1), F(2))>>)>>,
          <<Node("FmaD", <<D(1), Pair(D(1), D(2))>>)>> >>
MinMaxForests ==        \* UseAVX > 0
    Each2(LAMBDA op, r : <<Typed(r, Node(op, <<F(1), F(2)>>)), Typed(r, Node(op, <<F(2), F(1)>>))>>,
          <<"MaxF", "MinF">>, <<{}, {"reduction"}>>)
    \o Each2(LAMBDA op, r : <<Typed(r, Node(op, <<D(1), D(2)>>)), Typed(r, Node(op, <<D(2), D(1)>>))>>,
          <<"MaxD", "MinD">>, <<{}, {"reduction"}>>)
-----------------------------------------------------------------------------
\* Accesses to fields, with and without a barrier of the collector
Fields == <<P(1), At(P(1), ConLong(16)), At(At(P(1), Index), ConLong(16))>>
Swap(op, a, x, y) == Node(op, <<a, Pair(x, y)>>)
CompareAnd(what) == <<what \o "B", what \o "S", what \o "I">>
AtomicForests ==
    Each2(LAMBDA op, a : <<Swap(op, a, I(1), I(2))>>,
          CompareAnd("CompareAndSwap") \o CompareAnd("WeakCompareAndSwap")
          \o CompareAnd("CompareAndExchange"), SubSeq(Fields, 1, 2))
    \o Each(LAMBDA op : <<Swap(op, P(1), L(1), L(2))>>,
            <<"CompareAndSwapL", "WeakCompareAndSwapL", "CompareAndExchangeL">>)
    \o Each3(LAMBDA op, v, used : <<Typed(used, Node(op, <<P(1), v>>))>>,
             <<"GetAndAddB", "GetAndAddS", "GetAndAddI">>, <<I(1), ConInt(5)>>, <<{}, {"unused"}>>)
    \o Each2(LAMBDA v, used : <<Typed(used, Node("GetAndAddL", <<P(1), v>>))>>,
             <<L(1), ConLong(5), Far>>, <<{}, {"unused"}>>)
    \o Each(LAMBDA op : <<Node(op, <<P(1), I(1)>>)>>, <<"GetAndSetB", "GetAndSetS", "GetAndSetI">>)
    \o << <<Node("GetAndSetL", <<P(1), L(1)>>)>>, <<Node("CacheWB", <<P(1)>>)>> >>
    \o Each2(LAMBDA op, p : Cond("eq", Node(op, <<P(1), p>>)), <<"FastLock", "FastUnlock">>, <<P(2)>>)
    \o Each(LAMBDA op : <<Node(op, <<>>)>>,
            <<"MemBarAcquire", "LoadFence", "MemBarAcquireLock", "MemBarRelease", "StoreFence",
              "StoreStoreFence", "MemBarReleaseLock", "MemBarVolatile", "MemBarStoreStore",
              "OnSpinWait", "CacheWBPreSync", "CacheWBPostSync">>)
    \o << <<Typed({"store load barrier follows"}, Node("MemBarVolatile", <<>>))>> >>
Null == Const("ConP", 0, 0)
ReferenceForests ==
    Each3(LAMBDA op, a, x : <<Typed(x, Swap(op, a, P(2), P(3)))>>,
          <<"CompareAndSwapP", "WeakCompareAndSwapP", "CompareAndExchangeP">>, Fields, Barriers)
    \o Each2(LAMBDA a, x : <<Typed(x, Node("GetAndSetP", <<a, P(2)>>))>>, Fields, Barriers)
    \o Each2(LAMBDA a, x : <<Typed(x, Load("LoadP", a))>>, Fields, Barriers)
    \o Each3(LAMBDA a, v, x : <<Typed(x, Store("StoreP", a, v))>>, Fields, <<P(2), Null>>, Barriers)
    \o Each3(LAMBDA t, c, x : <<Node("If", Cond(t, c[1])), Node("If", Cond(t, c[2]))>>,
             <<"eq">>, Each(LAMBDA x : LET y == Typed(x, Mem("LoadP")) IN
                               <<Node("CmpP", <<P(2), y>>), Node("CmpP", <<y, Null>>)>>, Barriers),
             <<{}>>)
NarrowReferenceForests ==       \* ZGC has none.
    Each3(LAMBDA op, a, x : <<Typed(x, Swap(op, a, Narrow, Leaf("RegN", 2)))>>,
          <<"CompareAndSwapN", "WeakCompareAndSwapN", "CompareAndExchangeN">>, Fields, Barriers)
    \o Each2(LAMBDA a, x : <<Typed(x, Node("GetAndSetN", <<a, Narrow>>))>>, Fields, Barriers)
    \o Each2(LAMBDA v, x : <<Typed(x, Store("StoreN", P(1), v))>>,
             <<Narrow, Leaf("ConN", 0), Typed({"NotNull"}, Node("EncodeP", <<P(2)>>))>>, Barriers)
    \o Each(LAMBDA x : LET y == Typed(x, Mem("LoadN")) IN
               <<Node("CmpN", <<Narrow, y>>), Node("CmpN", <<y, Leaf("ConN", 0)>>)>>, Barriers)
ShenandoahForests ==
    Each(LAMBDA op : <<Swap(op, P(1), P(2), P(3))>>,
         <<"ShenandoahCompareAndSwapP", "ShenandoahWeakCompareAndSwapP",
           "ShenandoahCompareAndExchangeP">>)
    \o Each(LAMBDA op : <<Swap(op, P(1), Narrow, Leaf("RegN", 2))>>,
            <<"ShenandoahCompareAndSwapN", "ShenandoahWeakCompareAndSwapN",
              "ShenandoahCompareAndExchangeN">>)
-----------------------------------------------------------------------------
Encodings == <<{"LL"}, {"UU"}, {"UL"}, {"LU"}>>
ControlForests ==
    Each(LAMBDA op : <<Node(op, <<>>)>>,
         <<"CallDynamicJava", "CallLeaf", "CallLeafNoFP", "CallLeafVector", "CallRuntime",
           "CallStaticJava", "CreateEx", "ForwardException", "Goto", "Halt", "Rethrow", "Return">>)
    \o Each(LAMBDA x : <<Node("Jump", <<x>>)>>,
            <<L(1), Node("AddL", <<Scaled(L(1), 3), ConLong(16)>>)>>)
    \o << <<Node("SafePoint", <<P(1)>>)>>, <<Node("TailCall", <<P(1), P(2)>>)>>,
          <<Node("TailJump", <<P(1), P(2)>>)>>,
          <<Node("PartialSubtypeCheck", <<P(1), P(2)>>)>> >>
    \o Each2(LAMBDA size, x : <<Typed(x, Node("ClearArray", <<size, P(1)>>))>>,
             <<L(1), ConLong(8)>>, <<{}, {"large"}>>)
IntrinsicForests ==
    LET text == Pair(P(1), I(1))
        other == Pair(P(2), I(2))
    IN  Each(LAMBDA x : <<Typed(x, Node("AryEq", <<P(1), P(2)>>))>>, SubSeq(Encodings, 1, 2))
        \o Each(LAMBDA x : <<Typed(x, Node("StrComp", <<text, other>>))>>, Encodings)
        \o Each2(LAMBDA x, y : <<Typed(x, Node("StrIndexOf", <<text, y>>))>>,
                 SubSeq(Encodings, 1, 3), <<other, Pair(P(2), ConInt(5))>>)
        \o Each(LAMBDA x : <<Typed(x, Node("StrIndexOfChar", <<text, I(2)>>))>>, <<{"L"}, {"U"}>>)
        \o Each(LAMBDA x : <<Typed(x, Node("EncodeISOArray", <<P(1), other>>))>>, <<{"ascii"}, {}>>)
        \o << <<Node("StrEquals", <<Pair(P(1), P(2)), I(1)>>)>>,
              <<Node("StrCompressedCopy", <<P(1), other>>)>>,
              <<Node("StrInflatedCopy", <<P(1), other>>)>>,
              <<Node("CountPositives", <<P(1), I(1)>>)>> >>
\* With a table of secondary supers, a constant super class comes with its slot.
ConstantSuper ==
    << <<Node("PartialSubtypeCheck", <<P(1), Pair(P(2), Const("ConP", 1, 0))>>)>> >>
HashCode == << <<Node("VectorizedHashCode",
                      <<Pair(P(1), I(1)), Pair(I(2), ConInt(5))>>)>> >>
-----------------------------------------------------------------------------
MoreArithmetic ==
    Binary2(<<"UDivI", "UModI", "DivModI", "UDivModI">>, "", <<I(1)>>, <<I(2)>>)
    \o Binary2(<<"UDivL", "UModL", "DivModL", "UDivModL">>, "", <<L(1)>>, <<L(2)>>)
    \o Unary(<<"ReverseI", "ReverseBytesI", "ReverseBytesUS", "ReverseBytesS">>, <<I(1)>>)
    \o Unary(<<"ReverseL", "ReverseBytesL">>, <<L(1)>>)
    \o Each2(LAMBDA op, c : <<Node("If", Cond("overflow", Node(op, c)))>>,
             <<"OverflowAddI", "OverflowSubI", "OverflowMulI">>,
             << <<I(1), I(2)>>, <<I(1), ConInt(5)>>, <<ConInt(0), I(1)>> >>)
    \o Each2(LAMBDA op, c : <<Node("If", Cond("overflow", Node(op, c)))>>,
             <<"OverflowAddL", "OverflowSubL", "OverflowMulL">>,
             << <<L(1), L(2)>>, <<L(1), ConLong(5)>>, <<ConLong(0), L(1)>> >>)
    \o << <<Node("CastFF", <<F(1)>>), Node("CastHH", <<F(1)>>), Node("CastDD", <<D(1)>>)>> >>
BitForests ==       \* BMI2
    Each2(LAMBDA op, x : <<Typed({"int"}, Node(op, <<I(1), x>>))>>,
          <<"CompressBits", "ExpandBits">>, <<I(2), Mem("LoadI")>>)
    \o Each2(LAMBDA op, x : <<Typed({"long"}, Node(op, <<L(1), x>>))>>,
             <<"CompressBits", "ExpandBits">>, <<L(2), Mem("LoadL")>>)
RoundForests ==     \* AVX
    << <<Node("RoundF", <<F(1)>>), Node("RoundD", <<D(1)>>)>>,
       <<Node("RoundDoubleMode", <<D(1), ConInt(1)>>)>>,
       <<Node("RoundDoubleMode", <<Const("ConD", 1, 0), ConInt(1)>>)>>,
       <<Node("SignumF", <<F(1), Pair(F(2), F(3))>>)>>,
       <<Node("SignumD", <<D(1), Pair(D(2), D(3))>>)>>,
       <<Node("ConvF2HF", <<F(1)>>), Node("ConvHF2F", <<I(1)>>)>> >>
Avx512Forests ==
    << <<Node("IsInfiniteF", <<F(1)>>), Node("IsInfiniteD", <<D(1)>>)>>,
       <<Node("CopySignF", <<F(1), F(2)>>)>>,
       <<Node("CopySignD", <<D(1), Pair(D(2), Const("ConD", 0, 0))>>)>> >>
HalfFloatForests ==
    Binary2(<<"AddHF", "SubHF", "MulHF", "DivHF", "MaxHF", "MinHF">>, "", <<F(1)>>, <<F(2)>>)
    \o << <<Node("FmaHF", <<F(1), Pair(F(2), F(3))>>)>>, <<Node("SqrtHF", <<F(1)>>)>>,
          <<Node("ReinterpretS2HF", <<Node("ConvF2HF", <<F(1)>>)>>)>>,
          <<Node("ConvHF2F", <<Node("ReinterpretHF2S", <<F(1)>>)>>)>>,
          <<Node("AddHF", <<F(1), Typed({}, Leaf("ConH", 5))>>)>> >>
-----------------------------------------------------------------------------
\* The larger match trees: what an instruction does besides the operation
Mask(x) == Node("AndI", <<x, ConInt(255)>>)
Less == Node("CmpLTMask", <<I(1), I(2)>>)
LargerForests ==
    Commuted(<<"AddI">>, "", <<Node("SubI", <<I(1), I(2)>>)>>,
             <<Node("AndI", <<Less, I(3)>>), Node("AndI", <<I(3), Less>>)>>)
    \o Commuted(<<"AndI">>, "", <<I(3)>>, <<Less>>)
    \o Commuted(<<"XorL", "AndL">>, "", <<Mem("LoadL"), L(1)>>,
                <<Node("AddL", <<Mem("LoadL"), ConLong(-1)>>), Node("AddL", <<L(1), ConLong(-1)>>),
                  Node("SubL", <<ConLong(0), Mem("LoadL")>>), Node("SubL", <<ConLong(0), L(1)>>)>>)
    \o Commuted(<<"OrL">>, "", <<L(1)>>, <<Node("CastP2X", <<P(1)>>)>>)
    \o Each3(LAMBDA x, k, y : LET n == Node("AndI", <<x, k>>) IN <<n, Node("ConvI2L", <<n>>)>>,
             <<I(1), Mem("LoadB"), Mem("LoadUB"), Mem("LoadUS"), Mem("LoadI")>>,
             <<ConInt(255), ConInt(65535), ConInt(127)>>, <<{}>>)
    \o Unary(<<"ConvI2L">>, <<Mem("LoadB"), Mem("LoadUB"), Mem("LoadS"), Mem("LoadUS")>>)
    \o Each2(LAMBDA x, k : <<Node("RShiftI", <<Node("LShiftI", <<x, ConInt(k)>>), ConInt(k)>>)>>,
             <<I(1), Mem("LoadS"), Mem("LoadUS"), Mem("LoadI")>>, <<16, 24>>)
    \o Each(LAMBDA op : <<Store("StoreI", P(1), Node(op, <<ConInt(0), Mem("LoadI")>>)),
                          Store("StoreL", P(1), Node("SubL", <<ConLong(0), Mem("LoadL")>>))>>,
            <<"SubI">>)
    \o << <<Store("StoreL", P(1), Node("AndL", <<Mem("LoadL"), Const("ConL", -257, -1)>>))>>,
          <<Store("StoreL", P(1), Node("OrL", <<Mem("LoadL"), Const("ConL", 256, 0)>>))>>,
          <<Store("StoreL", P(1), ConLong(0)), Store("StoreL", P(1), ConLong(7))>>,
          <<At(P(1), Node("ConvI2L", <<Node("SubI", <<ConInt(0), I(1)>>)>>))>>,
          <<Node("CmpLTMask", <<I(1), ConInt(0)>>)>>,
          <<Node("SubL", <<L(1), Mem("LoadL")>>), Node("AndL", <<L(1), ConLong(65535)>>)>>,
          <<Node("AddL", <<Node("AddL", <<L(1), Node("LShiftL", <<L(2), ConInt(2)>>)>>),
                           ConLong(8)>>)>>,
          <<Node("AddL", <<Node("AddL", <<L(1), L(2)>>), ConLong(8)>>)>>,
          <<Node("AddI", <<Node("LShiftI", <<I(1), ConInt(2)>>), ConInt(8)>>)>>,
          <<Node("CmpF3", <<F(1), Mem("LoadF")>>), Node("CmpF3", <<F(1), Const("ConF", 0, 7)>>)>>,
          <<Node("CmpD3", <<D(1), Mem("LoadD")>>), Node("CmpD3", <<D(1), Const("ConD", 1, 0)>>)>>,
          <<Store("StoreC", P(1), Node("ConvF2HF", <<F(1)>>))>> >>
\* Comparisons with memory, of bytes, and of bits
Bits == Compare("CmpI", <<Node("AndI", <<Mem("LoadB"), ConInt(8)>>),
                          Node("AndI", <<Mem("LoadUB"), ConInt(8)>>),
                          Node("AndI", <<Mem("LoadI"), I(1)>>)>>, <<ConInt(0)>>)
        \o Compare("CmpI", <<Mem("LoadB"), I(1)>>, <<ConInt(5), Mem("LoadI")>>)
        \o Compare("CmpL", <<Node("AndL", <<L(1), L(2)>>), Node("AndL", <<L(1), ConLong(8)>>),
                             Node("AndL", <<L(1), Mem("LoadL")>>),
                             Node("AndL", <<Mem("LoadL"), L(1)>>),
                             Node("AndL", <<Node("CastP2X", <<P(2)>>), Mem("LoadL")>>),
                             Node("AndL", <<Mem("LoadL"), Node("CastP2X", <<P(2)>>)>>)>>,
                   <<ConLong(0)>>)
        \o Compare("CmpL", <<L(1)>>, <<Mem("LoadL"), ConLong(5)>>)
        \o Compare("CmpUL", <<L(1)>>, <<Mem("LoadL"), ConLong(5)>>)
        \o Compare("CmpF", <<F(1)>>, <<Const("ConF", 0, 7)>>)
        \o Compare("CmpD", <<D(1)>>, <<Const("ConD", 1, 0)>>)
Klasses == Compare("CmpN", <<Leaf("RegN", 2), Mem("LoadNKlass")>>, <<Leaf("ConNKlass", 5)>>)
           \o Compare("CmpN", <<Leaf("ConN", 5)>>, <<Mem("LoadN")>>)
BitTests == Each2(LAMBDA t, c : <<Node("If", Cond(t, c))>>, <<"eq", "lt">>, Bits)
            \o Each(LAMBDA c : <<Node("If", Cond("eq", c))>>, Klasses)
MoreSelects ==
    Each3(LAMBDA v, t, c : <<Select(v[1], t, c, v[2], v[3])>>,
          << <<"CMoveI", I(1), I(2)>>, <<"CMoveL", L(1), L(2)>>, <<"CMoveP", P(1), P(2)>>,
             <<"CMoveN", Narrow, Leaf("RegN", 2)>>, <<"CMoveL", ConLong(1), ConLong(0)>> >>,
          <<"ne">>, <<Node("CmpI", <<I(1), I(2)>>), Node("CmpU", <<I(1), I(2)>>),
                      Node("CmpF", <<F(1), F(2)>>)>>)
\* Where zero is at hand in a register; a null check of a decoded pointer
ZeroBase == [VM EXCEPT !.base = 0]
ZeroForests ==
    Each2(LAMBDA op, v : <<Store(op, P(1), v)>>, <<"StoreB", "StoreC", "StoreI">>, <<ConInt(0)>>)
    \o << <<Store("StoreL", P(1), ConLong(0)), Store("StoreP", P(1), Null)>>,
          <<Store("StoreF", P(1), Const("ConF", 0, 0)), Store("StoreD", P(1), Const("ConD", 0, 0))>>,
          <<Node("If", Cond("eq", Node("CmpP", <<Mem("LoadP"), Null>>))),
            Node("If", Cond("eq", Node("CmpN", <<Mem("LoadN"), Leaf("ConN", 0)>>)))>>,
          <<Node("CastP2X", <<Decoded>>), Node("ConvL2I", <<Node("CastP2X", <<Decoded>>)>>)>>,
          <<Node("ConvL2I", <<Node("CastP2X", <<P(1)>>)>>)>> >>
Checked == <<[VM EXCEPT !.VerifyConstraintCasts = 1], [VM EXCEPT !.VerifyConstraintCasts = 2]>>
CastForests1 == << <<Node("CastII", <<I(1)>>), Typed({}, Node("CastLL", <<L(1)>>))>>,
                   <<Typed({"imm32"}, Node("CastLL", <<L(1)>>))>> >>
Imm16 == [VM EXCEPT !.UseStoreImmI16 = TRUE]
ShortForests == << <<Store("StoreC", P(1), ConInt(1000))>>,
                   <<Typed({"unused"}, Node("GetAndAddS", <<P(1), ConInt(5)>>))>> >>
Avx10Forests ==
    Unary(<<"ConvF2I", "ConvF2L">>, <<F(1), Mem("LoadF")>>)
    \o Unary(<<"ConvD2I", "ConvD2L">>, <<D(1), Mem("LoadD")>>)
-----------------------------------------------------------------------------
ScalarForests ==
    On(<<VM, Apx, Old>>, IntForests \o LongForests \o UnaryForests)
    \o On(<<VM, Unshifted, Zgc>>, AddressForests)
    \o On(<<VM, Zgc>>, PointerForests \o ReferenceForests)
    \o On(CompressedHeaps, NarrowForests) \o On(<<VM>>, NarrowReferenceForests)
    \o On(<<VM>>, BranchForests) \o On(<<VM, Apx>>, SelectForests)
    \o On(<<VM, Old, Avx512>>, FloatForests) \o On(<<VM, Avx512, Avx10>>, MinMaxForests)
    \o On(<<VM>>, AtomicForests)
    \o On(<<VM, Old, ECore, Knl>>, << <<Node("PrefetchAllocation", <<P(1)>>)>> >>)
    \o On(<<[VM EXCEPT !.UseG1GC = FALSE]>>, ShenandoahForests)
    \o On(<<VM, Old, Avx512>>, ControlForests \o IntrinsicForests \o MoreArithmetic)
    \o On(<<VM>>, ConstantSuper \o HashCode \o BitForests)
    \o On(<<VM, Avx512, Avx10>>, RoundForests)
    \o On(<<VM, Apx, Old>>, LargerForests) \o On(<<VM>>, BitTests) \o On(<<VM, Apx>>, MoreSelects)
    \o On(<<ZeroBase, Unshifted>>, ZeroForests) \o On(Checked, CastForests1)
    \o On(<<Imm16>>, ShortForests) \o On(<<Avx10>>, Avx10Forests \o LargerForests)
    \o On(<<Avx512>>, Avx512Forests) \o On(<<Avx512, Avx10>>, HalfFloatForests)
    \o On(<<ECore>>, Unary(<<"ReverseI">>, <<I(1)>>) \o Unary(<<"ReverseL">>, <<L(1)>>))
=============================================================================
