----------------------------- MODULE DFA_x86 -----------------------------
(***************************************************************************)
(* State::DFA: the switch over the ideal opcodes, all 424 of them.         *)
(***************************************************************************)
EXTENDS DFALeaves, DFAInt, DFALong, DFAMemory, DFACompare, DFAFloat, DFAReduction,
        DFAControl, DFAVector, DFAVectorBits, DFAVectorMove

DFA(vm, n) ==
    CASE n.op = "RegN" -> RegN(vm, n)
      [] n.op = "RegI" -> RegI(vm, n)
      [] n.op = "RegP" -> RegP(vm, n)
      [] n.op = "RegF" -> RegF(vm, n)
      [] n.op = "RegD" -> RegD(vm, n)
      [] n.op = "RegL" -> RegL(vm, n)
      [] n.op = "RegFlags" -> RegFlags(vm, n)
      [] n.op = "VecS" -> VecS(vm, n)
      [] n.op = "VecD" -> VecD(vm, n)
      [] n.op = "VecX" -> VecX(vm, n)
      [] n.op = "VecY" -> VecY(vm, n)
      [] n.op = "VecZ" -> VecZ(vm, n)
      [] n.op = "ConN" -> ConN(vm, n)
      [] n.op = "ConNKlass" -> ConNKlass(vm, n)
      [] n.op = "ConD" -> ConD(vm, n)
      [] n.op = "ConH" -> ConH(vm, n)
      [] n.op = "ConF" -> ConF(vm, n)
      [] n.op = "ConI" -> ConI(vm, n)
      [] n.op = "ConL" -> ConL(vm, n)
      [] n.op = "ConP" -> ConP(vm, n)
      [] n.op = "AddI" -> AddI(vm, n)
      [] n.op = "SubI" -> SubI(vm, n)
      [] n.op = "MulI" -> MulI(vm, n)
      [] n.op = "AndI" -> AndI(vm, n)
      [] n.op = "OrI" -> OrI(vm, n)
      [] n.op = "XorI" -> XorI(vm, n)
      [] n.op = "LShiftI" -> LShiftI(vm, n)
      [] n.op = "RShiftI" -> RShiftI(vm, n)
      [] n.op = "URShiftI" -> URShiftI(vm, n)
      [] n.op = "CmpLTMask" -> CmpLTMask(vm, n)
      [] n.op = "ConvL2I" -> ConvL2I(vm, n)
      [] n.op = "MaxI" -> MaxI(vm, n)
      [] n.op = "MinI" -> MinI(vm, n)
      [] n.op = "NegI" -> NegI(vm, n)
      [] n.op = "AbsI" -> AbsI(vm, n)
      [] n.op = "DivI" -> DivI(vm, n)
      [] n.op = "ModI" -> ModI(vm, n)
      [] n.op = "MulAddS2I" -> MulAddS2I(vm, n)
      [] n.op = "RotateLeft" -> RotateLeft(vm, n)
      [] n.op = "RotateRight" -> RotateRight(vm, n)
      [] n.op = "CountLeadingZerosI" -> CountLeadingZerosI(vm, n)
      [] n.op = "CountTrailingZerosI" -> CountTrailingZerosI(vm, n)
      [] n.op = "PopCountI" -> PopCountI(vm, n)
      [] n.op = "CastII" -> CastII(vm, n)
      [] n.op = "AddL" -> AddL(vm, n)
      [] n.op = "SubL" -> SubL(vm, n)
      [] n.op = "MulL" -> MulL(vm, n)
      [] n.op = "AndL" -> AndL(vm, n)
      [] n.op = "OrL" -> OrL(vm, n)
      [] n.op = "XorL" -> XorL(vm, n)
      [] n.op = "LShiftL" -> LShiftL(vm, n)
      [] n.op = "RShiftL" -> RShiftL(vm, n)
      [] n.op = "URShiftL" -> URShiftL(vm, n)
      [] n.op = "ConvI2L" -> ConvI2L(vm, n)
      [] n.op = "NegL" -> NegL(vm, n)
      [] n.op = "AbsL" -> AbsL(vm, n)
      [] n.op = "DivL" -> DivL(vm, n)
      [] n.op = "ModL" -> ModL(vm, n)
      [] n.op = "MulHiL" -> MulHiL(vm, n)
      [] n.op = "UMulHiL" -> UMulHiL(vm, n)
      [] n.op = "CountLeadingZerosL" -> CountLeadingZerosL(vm, n)
      [] n.op = "CountTrailingZerosL" -> CountTrailingZerosL(vm, n)
      [] n.op = "PopCountL" -> PopCountL(vm, n)
      [] n.op = "CastLL" -> CastLL(vm, n)
      [] n.op = "AddP" -> AddP(vm, n)
      [] n.op = "DecodeN" -> DecodeN(vm, n)
      [] n.op = "DecodeNKlass" -> DecodeNKlass(vm, n)
      [] n.op = "EncodeP" -> EncodeP(vm, n)
      [] n.op = "EncodePKlass" -> EncodePKlass(vm, n)
      [] n.op = "CastX2P" -> CastX2P(vm, n)
      [] n.op = "CastP2X" -> CastP2X(vm, n)
      [] n.op = "CastPP" -> CastPP(vm, n)
      [] n.op = "CheckCastPP" -> CheckCastPP(vm, n)
      [] n.op = "LoadB" -> LoadB(vm, n)
      [] n.op = "LoadUB" -> LoadUB(vm, n)
      [] n.op = "LoadS" -> LoadS(vm, n)
      [] n.op = "LoadUS" -> LoadUS(vm, n)
      [] n.op = "LoadI" -> LoadI(vm, n)
      [] n.op = "LoadL" -> LoadL(vm, n)
      [] n.op = "LoadRange" -> LoadRange(vm, n)
      [] n.op = "LoadP" -> LoadP(vm, n)
      [] n.op = "LoadN" -> LoadN(vm, n)
      [] n.op = "LoadKlass" -> LoadKlass(vm, n)
      [] n.op = "LoadNKlass" -> LoadNKlass(vm, n)
      [] n.op = "LoadF" -> LoadF(vm, n)
      [] n.op = "LoadD" -> LoadD(vm, n)
      [] n.op = "StoreB" -> StoreB(vm, n)
      [] n.op = "StoreC" -> StoreC(vm, n)
      [] n.op = "StoreI" -> StoreI(vm, n)
      [] n.op = "StoreL" -> StoreL(vm, n)
      [] n.op = "StoreP" -> StoreP(vm, n)
      [] n.op = "StoreN" -> StoreN(vm, n)
      [] n.op = "StoreNKlass" -> StoreNKlass(vm, n)
      [] n.op = "StoreF" -> StoreF(vm, n)
      [] n.op = "StoreD" -> StoreD(vm, n)
      [] n.op = "ThreadLocal" -> ThreadLocal(vm, n)
      [] n.op = "CmpI" -> CmpI(vm, n)
      [] n.op = "CmpU" -> CmpU(vm, n)
      [] n.op = "CmpL" -> CmpL(vm, n)
      [] n.op = "CmpUL" -> CmpUL(vm, n)
      [] n.op = "CmpL3" -> CmpL3(vm, n)
      [] n.op = "CmpU3" -> CmpU3(vm, n)
      [] n.op = "CmpUL3" -> CmpUL3(vm, n)
      [] n.op = "CmpP" -> CmpP(vm, n)
      [] n.op = "CmpN" -> CmpN(vm, n)
      [] n.op = "CmpF" -> CmpF(vm, n)
      [] n.op = "CmpD" -> CmpD(vm, n)
      [] n.op = "CmpF3" -> CmpF3(vm, n)
      [] n.op = "CmpD3" -> CmpD3(vm, n)
      [] n.op = "Bool" -> Bool(vm, n)
      [] n.op = "Binary" -> Binary(vm, n)
      [] n.op = "If" -> If(vm, n)
      [] n.op = "CountedLoopEnd" -> CountedLoopEnd(vm, n)
      [] n.op = "CMoveI" -> CMoveI(vm, n)
      [] n.op = "CMoveL" -> CMoveL(vm, n)
      [] n.op = "CMoveP" -> CMoveP(vm, n)
      [] n.op = "CMoveN" -> CMoveN(vm, n)
      [] n.op = "CMoveF" -> CMoveF(vm, n)
      [] n.op = "CMoveD" -> CMoveD(vm, n)
      [] n.op = "AddF" -> AddF(vm, n)
      [] n.op = "AddD" -> AddD(vm, n)
      [] n.op = "SubF" -> SubF(vm, n)
      [] n.op = "SubD" -> SubD(vm, n)
      [] n.op = "MulF" -> MulF(vm, n)
      [] n.op = "MulD" -> MulD(vm, n)
      [] n.op = "DivF" -> DivF(vm, n)
      [] n.op = "DivD" -> DivD(vm, n)
      [] n.op = "NegF" -> NegF(vm, n)
      [] n.op = "NegD" -> NegD(vm, n)
      [] n.op = "AbsF" -> AbsF(vm, n)
      [] n.op = "AbsD" -> AbsD(vm, n)
      [] n.op = "SqrtF" -> SqrtF(vm, n)
      [] n.op = "SqrtD" -> SqrtD(vm, n)
      [] n.op = "FmaF" -> FmaF(vm, n)
      [] n.op = "FmaD" -> FmaD(vm, n)
      [] n.op = "ConvI2F" -> ConvI2F(vm, n)
      [] n.op = "ConvI2D" -> ConvI2D(vm, n)
      [] n.op = "ConvL2F" -> ConvL2F(vm, n)
      [] n.op = "ConvL2D" -> ConvL2D(vm, n)
      [] n.op = "ConvF2D" -> ConvF2D(vm, n)
      [] n.op = "ConvD2F" -> ConvD2F(vm, n)
      [] n.op = "ConvF2I" -> ConvF2I(vm, n)
      [] n.op = "ConvF2L" -> ConvF2L(vm, n)
      [] n.op = "ConvD2I" -> ConvD2I(vm, n)
      [] n.op = "ConvD2L" -> ConvD2L(vm, n)
      [] n.op = "MoveI2F" -> MoveI2F(vm, n)
      [] n.op = "MoveF2I" -> MoveF2I(vm, n)
      [] n.op = "MoveL2D" -> MoveL2D(vm, n)
      [] n.op = "MoveD2L" -> MoveD2L(vm, n)
      [] n.op = "MaxF" -> MaxF(vm, n)
      [] n.op = "MaxD" -> MaxD(vm, n)
      [] n.op = "MinF" -> MinF(vm, n)
      [] n.op = "MinD" -> MinD(vm, n)
      [] n.op = "UDivI" -> UDivI(vm, n)
      [] n.op = "UDivL" -> UDivL(vm, n)
      [] n.op = "UModI" -> UModI(vm, n)
      [] n.op = "UModL" -> UModL(vm, n)
      [] n.op = "DivModI" -> DivModI(vm, n)
      [] n.op = "DivModL" -> DivModL(vm, n)
      [] n.op = "UDivModI" -> UDivModI(vm, n)
      [] n.op = "UDivModL" -> UDivModL(vm, n)
      [] n.op = "OverflowAddI" -> OverflowAddI(vm, n)
      [] n.op = "OverflowSubI" -> OverflowSubI(vm, n)
      [] n.op = "OverflowMulI" -> OverflowMulI(vm, n)
      [] n.op = "OverflowAddL" -> OverflowAddL(vm, n)
      [] n.op = "OverflowSubL" -> OverflowSubL(vm, n)
      [] n.op = "OverflowMulL" -> OverflowMulL(vm, n)
      [] n.op = "ReverseI" -> ReverseI(vm, n)
      [] n.op = "ReverseL" -> ReverseL(vm, n)
      [] n.op = "ReverseBytesI" -> ReverseBytesI(vm, n)
      [] n.op = "ReverseBytesL" -> ReverseBytesL(vm, n)
      [] n.op = "ReverseBytesUS" -> ReverseBytesUS(vm, n)
      [] n.op = "ReverseBytesS" -> ReverseBytesS(vm, n)
      [] n.op = "CompressBits" -> CompressBits(vm, n)
      [] n.op = "ExpandBits" -> ExpandBits(vm, n)
      [] n.op = "CastFF" -> CastFF(vm, n)
      [] n.op = "CastDD" -> CastDD(vm, n)
      [] n.op = "CastHH" -> CastHH(vm, n)
      [] n.op = "RoundF" -> RoundF(vm, n)
      [] n.op = "RoundD" -> RoundD(vm, n)
      [] n.op = "RoundDoubleMode" -> RoundDoubleMode(vm, n)
      [] n.op = "IsInfiniteF" -> IsInfiniteF(vm, n)
      [] n.op = "IsInfiniteD" -> IsInfiniteD(vm, n)
      [] n.op = "CopySignF" -> CopySignF(vm, n)
      [] n.op = "CopySignD" -> CopySignD(vm, n)
      [] n.op = "SignumF" -> SignumF(vm, n)
      [] n.op = "SignumD" -> SignumD(vm, n)
      [] n.op = "ConvF2HF" -> ConvF2HF(vm, n)
      [] n.op = "ConvHF2F" -> ConvHF2F(vm, n)
      [] n.op = "ReinterpretS2HF" -> ReinterpretS2HF(vm, n)
      [] n.op = "ReinterpretHF2S" -> ReinterpretHF2S(vm, n)
      [] n.op = "AddHF" -> AddHF(vm, n)
      [] n.op = "SubHF" -> SubHF(vm, n)
      [] n.op = "MulHF" -> MulHF(vm, n)
      [] n.op = "DivHF" -> DivHF(vm, n)
      [] n.op = "FmaHF" -> FmaHF(vm, n)
      [] n.op = "SqrtHF" -> SqrtHF(vm, n)
      [] n.op = "MaxHF" -> MaxHF(vm, n)
      [] n.op = "MinHF" -> MinHF(vm, n)
      [] n.op = "AddReductionVI" -> AddReductionVI(vm, n)
      [] n.op = "AddReductionVL" -> AddReductionVL(vm, n)
      [] n.op = "AddReductionVF" -> AddReductionVF(vm, n)
      [] n.op = "AddReductionVD" -> AddReductionVD(vm, n)
      [] n.op = "MulReductionVI" -> MulReductionVI(vm, n)
      [] n.op = "MulReductionVL" -> MulReductionVL(vm, n)
      [] n.op = "MulReductionVF" -> MulReductionVF(vm, n)
      [] n.op = "MulReductionVD" -> MulReductionVD(vm, n)
      [] n.op = "AndReductionV" -> AndReductionV(vm, n)
      [] n.op = "OrReductionV" -> OrReductionV(vm, n)
      [] n.op = "XorReductionV" -> XorReductionV(vm, n)
      [] n.op = "MinReductionV" -> MinReductionV(vm, n)
      [] n.op = "MaxReductionV" -> MaxReductionV(vm, n)
      [] n.op = "CallDynamicJava" -> CallDynamicJava(vm, n)
      [] n.op = "CallLeaf" -> CallLeaf(vm, n)
      [] n.op = "CallLeafNoFP" -> CallLeafNoFP(vm, n)
      [] n.op = "CallLeafVector" -> CallLeafVector(vm, n)
      [] n.op = "CallRuntime" -> CallRuntime(vm, n)
      [] n.op = "CallStaticJava" -> CallStaticJava(vm, n)
      [] n.op = "CreateEx" -> CreateEx(vm, n)
      [] n.op = "ForwardException" -> ForwardException(vm, n)
      [] n.op = "Goto" -> Goto(vm, n)
      [] n.op = "Halt" -> Halt(vm, n)
      [] n.op = "Jump" -> Jump(vm, n)
      [] n.op = "Rethrow" -> Rethrow(vm, n)
      [] n.op = "Return" -> Return(vm, n)
      [] n.op = "SafePoint" -> SafePoint(vm, n)
      [] n.op = "TailCall" -> TailCall(vm, n)
      [] n.op = "TailJump" -> TailJump(vm, n)
      [] n.op = "PartialSubtypeCheck" -> PartialSubtypeCheck(vm, n)
      [] n.op = "ClearArray" -> ClearArray(vm, n)
      [] n.op = "AryEq" -> AryEq(vm, n)
      [] n.op = "EncodeISOArray" -> EncodeISOArray(vm, n)
      [] n.op = "CountPositives" -> CountPositives(vm, n)
      [] n.op = "StrComp" -> StrComp(vm, n)
      [] n.op = "StrCompressedCopy" -> StrCompressedCopy(vm, n)
      [] n.op = "StrEquals" -> StrEquals(vm, n)
      [] n.op = "StrIndexOf" -> StrIndexOf(vm, n)
      [] n.op = "StrIndexOfChar" -> StrIndexOfChar(vm, n)
      [] n.op = "StrInflatedCopy" -> StrInflatedCopy(vm, n)
      [] n.op = "VectorizedHashCode" -> VectorizedHashCode(vm, n)
      [] n.op = "CompareAndSwapB" -> CompareAndSwapB(vm, n)
      [] n.op = "CompareAndSwapS" -> CompareAndSwapS(vm, n)
      [] n.op = "CompareAndSwapI" -> CompareAndSwapI(vm, n)
      [] n.op = "CompareAndSwapL" -> CompareAndSwapL(vm, n)
      [] n.op = "CompareAndSwapP" -> CompareAndSwapP(vm, n)
      [] n.op = "CompareAndSwapN" -> CompareAndSwapN(vm, n)
      [] n.op = "WeakCompareAndSwapB" -> WeakCompareAndSwapB(vm, n)
      [] n.op = "WeakCompareAndSwapS" -> WeakCompareAndSwapS(vm, n)
      [] n.op = "WeakCompareAndSwapI" -> WeakCompareAndSwapI(vm, n)
      [] n.op = "WeakCompareAndSwapL" -> WeakCompareAndSwapL(vm, n)
      [] n.op = "WeakCompareAndSwapP" -> WeakCompareAndSwapP(vm, n)
      [] n.op = "WeakCompareAndSwapN" -> WeakCompareAndSwapN(vm, n)
      [] n.op = "CompareAndExchangeB" -> CompareAndExchangeB(vm, n)
      [] n.op = "CompareAndExchangeS" -> CompareAndExchangeS(vm, n)
      [] n.op = "CompareAndExchangeI" -> CompareAndExchangeI(vm, n)
      [] n.op = "CompareAndExchangeL" -> CompareAndExchangeL(vm, n)
      [] n.op = "CompareAndExchangeP" -> CompareAndExchangeP(vm, n)
      [] n.op = "CompareAndExchangeN" -> CompareAndExchangeN(vm, n)
      [] n.op = "ShenandoahCompareAndSwapN" -> ShenandoahCompareAndSwapN(vm, n)
      [] n.op = "ShenandoahCompareAndSwapP" -> ShenandoahCompareAndSwapP(vm, n)
      [] n.op = "ShenandoahWeakCompareAndSwapN" -> ShenandoahWeakCompareAndSwapN(vm, n)
      [] n.op = "ShenandoahWeakCompareAndSwapP" -> ShenandoahWeakCompareAndSwapP(vm, n)
      [] n.op = "ShenandoahCompareAndExchangeP" -> ShenandoahCompareAndExchangeP(vm, n)
      [] n.op = "ShenandoahCompareAndExchangeN" -> ShenandoahCompareAndExchangeN(vm, n)
      [] n.op = "GetAndAddB" -> GetAndAddB(vm, n)
      [] n.op = "GetAndAddS" -> GetAndAddS(vm, n)
      [] n.op = "GetAndAddI" -> GetAndAddI(vm, n)
      [] n.op = "GetAndAddL" -> GetAndAddL(vm, n)
      [] n.op = "GetAndSetB" -> GetAndSetB(vm, n)
      [] n.op = "GetAndSetS" -> GetAndSetS(vm, n)
      [] n.op = "GetAndSetI" -> GetAndSetI(vm, n)
      [] n.op = "GetAndSetL" -> GetAndSetL(vm, n)
      [] n.op = "GetAndSetP" -> GetAndSetP(vm, n)
      [] n.op = "GetAndSetN" -> GetAndSetN(vm, n)
      [] n.op = "MemBarAcquire" -> MemBarAcquire(vm, n)
      [] n.op = "LoadFence" -> LoadFence(vm, n)
      [] n.op = "MemBarAcquireLock" -> MemBarAcquireLock(vm, n)
      [] n.op = "MemBarRelease" -> MemBarRelease(vm, n)
      [] n.op = "StoreFence" -> StoreFence(vm, n)
      [] n.op = "StoreStoreFence" -> StoreStoreFence(vm, n)
      [] n.op = "MemBarReleaseLock" -> MemBarReleaseLock(vm, n)
      [] n.op = "MemBarVolatile" -> MemBarVolatile(vm, n)
      [] n.op = "MemBarStoreStore" -> MemBarStoreStore(vm, n)
      [] n.op = "OnSpinWait" -> OnSpinWait(vm, n)
      [] n.op = "FastLock" -> FastLock(vm, n)
      [] n.op = "FastUnlock" -> FastUnlock(vm, n)
      [] n.op = "CacheWB" -> CacheWB(vm, n)
      [] n.op = "CacheWBPreSync" -> CacheWBPreSync(vm, n)
      [] n.op = "CacheWBPostSync" -> CacheWBPostSync(vm, n)
      [] n.op = "PrefetchAllocation" -> PrefetchAllocation(vm, n)
      [] n.op = "AddVB" -> AddVB(vm, n)
      [] n.op = "AddVS" -> AddVS(vm, n)
      [] n.op = "AddVI" -> AddVI(vm, n)
      [] n.op = "AddVL" -> AddVL(vm, n)
      [] n.op = "AddVF" -> AddVF(vm, n)
      [] n.op = "AddVD" -> AddVD(vm, n)
      [] n.op = "AddVHF" -> AddVHF(vm, n)
      [] n.op = "SubVB" -> SubVB(vm, n)
      [] n.op = "SubVS" -> SubVS(vm, n)
      [] n.op = "SubVI" -> SubVI(vm, n)
      [] n.op = "SubVL" -> SubVL(vm, n)
      [] n.op = "SubVF" -> SubVF(vm, n)
      [] n.op = "SubVD" -> SubVD(vm, n)
      [] n.op = "SubVHF" -> SubVHF(vm, n)
      [] n.op = "MulVB" -> MulVB(vm, n)
      [] n.op = "MulVS" -> MulVS(vm, n)
      [] n.op = "MulVI" -> MulVI(vm, n)
      [] n.op = "MulVL" -> MulVL(vm, n)
      [] n.op = "MulVF" -> MulVF(vm, n)
      [] n.op = "MulVD" -> MulVD(vm, n)
      [] n.op = "MulVHF" -> MulVHF(vm, n)
      [] n.op = "MulAddVS2VI" -> MulAddVS2VI(vm, n)
      [] n.op = "DivVF" -> DivVF(vm, n)
      [] n.op = "DivVD" -> DivVD(vm, n)
      [] n.op = "DivVHF" -> DivVHF(vm, n)
      [] n.op = "FmaVF" -> FmaVF(vm, n)
      [] n.op = "FmaVD" -> FmaVD(vm, n)
      [] n.op = "FmaVHF" -> FmaVHF(vm, n)
      [] n.op = "SqrtVF" -> SqrtVF(vm, n)
      [] n.op = "SqrtVD" -> SqrtVD(vm, n)
      [] n.op = "SqrtVHF" -> SqrtVHF(vm, n)
      [] n.op = "AbsVB" -> AbsVB(vm, n)
      [] n.op = "AbsVS" -> AbsVS(vm, n)
      [] n.op = "AbsVI" -> AbsVI(vm, n)
      [] n.op = "AbsVL" -> AbsVL(vm, n)
      [] n.op = "AbsVF" -> AbsVF(vm, n)
      [] n.op = "AbsVD" -> AbsVD(vm, n)
      [] n.op = "NegVF" -> NegVF(vm, n)
      [] n.op = "NegVD" -> NegVD(vm, n)
      [] n.op = "SignumVF" -> SignumVF(vm, n)
      [] n.op = "SignumVD" -> SignumVD(vm, n)
      [] n.op = "MinV" -> MinV(vm, n)
      [] n.op = "MaxV" -> MaxV(vm, n)
      [] n.op = "UMinV" -> UMinV(vm, n)
      [] n.op = "UMaxV" -> UMaxV(vm, n)
      [] n.op = "MinVHF" -> MinVHF(vm, n)
      [] n.op = "MaxVHF" -> MaxVHF(vm, n)
      [] n.op = "SaturatingAddV" -> SaturatingAddV(vm, n)
      [] n.op = "SaturatingSubV" -> SaturatingSubV(vm, n)
      [] n.op = "RoundVF" -> RoundVF(vm, n)
      [] n.op = "RoundVD" -> RoundVD(vm, n)
      [] n.op = "RoundDoubleModeV" -> RoundDoubleModeV(vm, n)
      [] n.op = "AndV" -> AndV(vm, n)
      [] n.op = "OrV" -> OrV(vm, n)
      [] n.op = "XorV" -> XorV(vm, n)
      [] n.op = "MacroLogicV" -> MacroLogicV(vm, n)
      [] n.op = "LShiftCntV" -> LShiftCntV(vm, n)
      [] n.op = "RShiftCntV" -> RShiftCntV(vm, n)
      [] n.op = "LShiftVB" -> LShiftVB(vm, n)
      [] n.op = "LShiftVS" -> LShiftVS(vm, n)
      [] n.op = "LShiftVI" -> LShiftVI(vm, n)
      [] n.op = "LShiftVL" -> LShiftVL(vm, n)
      [] n.op = "RShiftVB" -> RShiftVB(vm, n)
      [] n.op = "RShiftVS" -> RShiftVS(vm, n)
      [] n.op = "RShiftVI" -> RShiftVI(vm, n)
      [] n.op = "RShiftVL" -> RShiftVL(vm, n)
      [] n.op = "URShiftVB" -> URShiftVB(vm, n)
      [] n.op = "URShiftVS" -> URShiftVS(vm, n)
      [] n.op = "URShiftVI" -> URShiftVI(vm, n)
      [] n.op = "URShiftVL" -> URShiftVL(vm, n)
      [] n.op = "RotateLeftV" -> RotateLeftV(vm, n)
      [] n.op = "RotateRightV" -> RotateRightV(vm, n)
      [] n.op = "PopCountVI" -> PopCountVI(vm, n)
      [] n.op = "PopCountVL" -> PopCountVL(vm, n)
      [] n.op = "CountLeadingZerosV" -> CountLeadingZerosV(vm, n)
      [] n.op = "CountTrailingZerosV" -> CountTrailingZerosV(vm, n)
      [] n.op = "ReverseV" -> ReverseV(vm, n)
      [] n.op = "ReverseBytesV" -> ReverseBytesV(vm, n)
      [] n.op = "CastVV" -> CastVV(vm, n)
      [] n.op = "LoadVector" -> LoadVector(vm, n)
      [] n.op = "LoadVectorGather" -> LoadVectorGather(vm, n)
      [] n.op = "LoadVectorGatherMasked" -> LoadVectorGatherMasked(vm, n)
      [] n.op = "LoadVectorMasked" -> LoadVectorMasked(vm, n)
      [] n.op = "StoreVector" -> StoreVector(vm, n)
      [] n.op = "StoreVectorScatter" -> StoreVectorScatter(vm, n)
      [] n.op = "StoreVectorScatterMasked" -> StoreVectorScatterMasked(vm, n)
      [] n.op = "StoreVectorMasked" -> StoreVectorMasked(vm, n)
      [] n.op = "VerifyVectorAlignment" -> VerifyVectorAlignment(vm, n)
      [] n.op = "Replicate" -> Replicate(vm, n)
      [] n.op = "PopulateIndex" -> PopulateIndex(vm, n)
      [] n.op = "VectorLoadConst" -> VectorLoadConst(vm, n)
      [] n.op = "ExtractB" -> ExtractB(vm, n)
      [] n.op = "ExtractS" -> ExtractS(vm, n)
      [] n.op = "ExtractI" -> ExtractI(vm, n)
      [] n.op = "ExtractL" -> ExtractL(vm, n)
      [] n.op = "ExtractF" -> ExtractF(vm, n)
      [] n.op = "ExtractD" -> ExtractD(vm, n)
      [] n.op = "VectorInsert" -> VectorInsert(vm, n)
      [] n.op = "VectorBlend" -> VectorBlend(vm, n)
      [] n.op = "VectorRearrange" -> VectorRearrange(vm, n)
      [] n.op = "VectorLoadShuffle" -> VectorLoadShuffle(vm, n)
      [] n.op = "SelectFromTwoVector" -> SelectFromTwoVector(vm, n)
      [] n.op = "CompressV" -> CompressV(vm, n)
      [] n.op = "ExpandV" -> ExpandV(vm, n)
      [] n.op = "VectorReinterpret" -> VectorReinterpret(vm, n)
      [] n.op = "VectorCastB2X" -> VectorCastB2X(vm, n)
      [] n.op = "VectorCastS2X" -> VectorCastS2X(vm, n)
      [] n.op = "VectorCastI2X" -> VectorCastI2X(vm, n)
      [] n.op = "VectorCastL2X" -> VectorCastL2X(vm, n)
      [] n.op = "VectorCastF2X" -> VectorCastF2X(vm, n)
      [] n.op = "VectorCastD2X" -> VectorCastD2X(vm, n)
      [] n.op = "VectorCastF2HF" -> VectorCastF2HF(vm, n)
      [] n.op = "VectorCastHF2F" -> VectorCastHF2F(vm, n)
      [] n.op = "VectorUCastB2X" -> VectorUCastB2X(vm, n)
      [] n.op = "VectorUCastS2X" -> VectorUCastS2X(vm, n)
      [] n.op = "VectorUCastI2X" -> VectorUCastI2X(vm, n)
      [] n.op = "RegVectMask" -> RegVectMask(vm, n)
      [] n.op = "VectorMaskCmp" -> VectorMaskCmp(vm, n)
      [] n.op = "VectorCmpMasked" -> VectorCmpMasked(vm, n)
      [] n.op = "VectorTest" -> VectorTest(vm, n)
      [] n.op = "VectorLoadMask" -> VectorLoadMask(vm, n)
      [] n.op = "VectorStoreMask" -> VectorStoreMask(vm, n)
      [] n.op = "VectorMaskCast" -> VectorMaskCast(vm, n)
      [] n.op = "VectorMaskGen" -> VectorMaskGen(vm, n)
      [] n.op = "VectorMaskTrueCount" -> VectorMaskTrueCount(vm, n)
      [] n.op = "VectorMaskFirstTrue" -> VectorMaskFirstTrue(vm, n)
      [] n.op = "VectorMaskLastTrue" -> VectorMaskLastTrue(vm, n)
      [] n.op = "VectorMaskToLong" -> VectorMaskToLong(vm, n)
      [] n.op = "VectorLongToMask" -> VectorLongToMask(vm, n)
      [] n.op = "MaskAll" -> MaskAll(vm, n)
      [] n.op = "CompressM" -> CompressM(vm, n)
      [] n.op = "AndVMask" -> AndVMask(vm, n)
      [] n.op = "OrVMask" -> OrVMask(vm, n)
      [] n.op = "XorVMask" -> XorVMask(vm, n)
      [] OTHER -> <<>>
=============================================================================
