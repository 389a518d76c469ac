----------------------------- MODULE DFAControl -----------------------------
(***************************************************************************)
(* Calls and other ends of control flow, and the intrinsics on arrays and  *)
(* strings, which take their operands in fixed registers; atomic updates   *)
(* of memory, with the barriers of the collectors; locks, fences, cache    *)
(* control.                                                                *)
(***************************************************************************)
EXTENDS DFAOperands
-----------------------------------------------------------------------------
CallDynamicJava(vm, n) == << First(<<>>, TRUE, 300, "CallDynamicJavaDirect", One("UNIVERSE")) >>

CallLeaf(vm, n) == << First(<<>>, TRUE, 300, "CallLeafDirect", One("UNIVERSE")) >>

CallLeafNoFP(vm, n) == << First(<<>>, TRUE, 300, "CallLeafNoFPDirect", One("UNIVERSE")) >>

CallLeafVector(vm, n) == << First(<<>>, TRUE, 300, "CallLeafDirectVector", One("UNIVERSE")) >>

CallRuntime(vm, n) == << First(<<>>, TRUE, 300, "CallRuntimeDirect", One("UNIVERSE")) >>

CallStaticJava(vm, n) == << First(<<>>, TRUE, 300, "CallStaticJavaDirect", One("UNIVERSE")) >>

CreateEx(vm, n) == << First(<<>>, TRUE, 100, "CreateException", RAX_REGP) >>

ForwardException(vm, n) == << First(<<>>, TRUE, 100, "ForwardExceptionjmp", One("UNIVERSE")) >>

Goto(vm, n) == << First(<<>>, TRUE, 300, "jmpDir", One("UNIVERSE")) >>

Halt(vm, n) == << First(<<>>, TRUE, 100, "ShouldNotReachHere", One("UNIVERSE")) >>

Jump(vm, n) == <<
    First(<<"RREGL">>, TRUE, 350, "jumpXtnd", One("UNIVERSE")),
    Rule(<<"_ADDL__LSHIFTL_RREGL_IMMI2_IMML32">>, TRUE, 350, "jumpXtnd_addr", One("UNIVERSE")),
    Rule(<<"_LSHIFTL_RREGL_IMMI2">>, FALSE, 350, "jumpXtnd_offset", One("UNIVERSE")) >>

Rethrow(vm, n) == << First(<<>>, TRUE, 100, "RethrowException", One("UNIVERSE")) >>

Return(vm, n) == << First(<<>>, TRUE, 100, "Ret", One("UNIVERSE")) >>

SafePoint(vm, n) == << First(<<"RREGP">>, TRUE, 125, "safePoint_poll_tls", One("UNIVERSE")) >>

TailCall(vm, n) == <<
    First(<<"NO_RBP_REGP", "RBX_REGP">>, TRUE, 300, "TailCalljmpInd", One("UNIVERSE")) >>

TailJump(vm, n) == <<
    First(<<"NO_RBP_REGP", "RAX_REGP">>, TRUE, 300, "tailjmpInd", One("UNIVERSE")) >>

PartialSubtypeCheck(vm, n) == <<
    First(<<"RSI_REGP", "_BINARY_RAX_REGP_IMMP">>, vm.UseSecondarySupersTable, 700,
          "partialSubtypeCheckConstSuper", RDI_REGP),
    Rule(<<"RSI_REGP", "RAX_REGP">>, vm.UseSecondarySupersTable, 1000,
         "partialSubtypeCheckVarSuper", RDI_REGP),
    Rule(<<"RSI_REGP", "RAX_REGP">>, ~vm.UseSecondarySupersTable, 1100, "partialSubtypeCheck",
         RDI_REGP) >>

ClearArray(vm, n) == <<
    First(<<"IMML", "RREGP">>, ~Has(n, "large") /\ vm.MaxVectorSize >= 32 /\ vm.avx512vl, 100,
          "rep_stos_im", One("UNIVERSE")),
    Rule(<<"RCX_REGL", "RDI_REGP">>, vm.UseAVX > 2 /\ Has(n, "large"), 100,
         "rep_stos_large_evex", One("UNIVERSE")),
    Rule(<<"RCX_REGL", "RDI_REGP">>, vm.UseAVX <= 2 /\ Has(n, "large"), 100, "rep_stos_large",
         One("UNIVERSE")),
    Rule(<<"RCX_REGL", "RDI_REGP">>, ~Has(n, "large") /\ vm.UseAVX > 2, 125, "rep_stos_evex",
         One("UNIVERSE")),
    Rule(<<"RCX_REGL", "RDI_REGP">>, ~Has(n, "large") /\ vm.UseAVX <= 2, 100, "rep_stos",
         One("UNIVERSE")) >>

AryEq(vm, n) == <<
    First(<<"RDI_REGP", "RSI_REGP">>, vm.avx512vlbw /\ Has(n, "UU"), 100, "array_equalsC_evex",
          RAX_REGI),
    Rule(<<"RDI_REGP", "RSI_REGP">>, ~vm.avx512vlbw /\ Has(n, "UU"), 100, "array_equalsC",
         RAX_REGI),
    Rule(<<"RDI_REGP", "RSI_REGP">>, vm.avx512vlbw /\ Has(n, "LL"), 100, "array_equalsB_evex",
         RAX_REGI),
    Rule(<<"RDI_REGP", "RSI_REGP">>, ~vm.avx512vlbw /\ Has(n, "LL"), 100, "array_equalsB",
         RAX_REGI) >>

EncodeISOArray(vm, n) == <<
    First(<<"RSI_REGP", "_BINARY_RDI_REGP_RDX_REGI">>, Has(n, "ascii"), 100,
          "encode_ascii_array", RAX_REGI),
    Rule(<<"RSI_REGP", "_BINARY_RDI_REGP_RDX_REGI">>, ~Has(n, "ascii"), 100, "encode_iso_array",
         RAX_REGI) >>

CountPositives(vm, n) == <<
    First(<<"RSI_REGP", "RCX_REGI">>, vm.avx512vlbw /\ vm.bmi2, 100, "count_positives_evex",
          RAX_REGI),
    Rule(<<"RSI_REGP", "RCX_REGI">>, ~vm.avx512vlbw \/ ~vm.bmi2, 100, "count_positives",
         RAX_REGI) >>

StrComp_string_compareUL_evex(vm, n) == <<
    First(<<"_BINARY_RSI_REGP_RDX_REGI", "_BINARY_RDI_REGP_RCX_REGI">>,
          vm.avx512vlbw /\ Has(n, "UL"), 100, "string_compareUL_evex", RAX_REGI),
    Rule(<<"_BINARY_RSI_REGP_RDX_REGI", "_BINARY_RDI_REGP_RCX_REGI">>,
         ~vm.avx512vlbw /\ Has(n, "UL"), 100, "string_compareUL", RAX_REGI),
    Rule(<<"_BINARY_RDI_REGP_RCX_REGI", "_BINARY_RSI_REGP_RDX_REGI">>,
         vm.avx512vlbw /\ Has(n, "LU"), 100, "string_compareLU_evex", RAX_REGI),
    Rule(<<"_BINARY_RDI_REGP_RCX_REGI", "_BINARY_RSI_REGP_RDX_REGI">>,
         ~vm.avx512vlbw /\ Has(n, "LU"), 100, "string_compareLU", RAX_REGI) >>

StrComp_string_compareU_evex(vm, n) == <<
    Rule(<<"_BINARY_RDI_REGP_RCX_REGI", "_BINARY_RSI_REGP_RDX_REGI">>,
         vm.avx512vlbw /\ Has(n, "UU"), 100, "string_compareU_evex", RAX_REGI),
    Rule(<<"_BINARY_RDI_REGP_RCX_REGI", "_BINARY_RSI_REGP_RDX_REGI">>,
         ~vm.avx512vlbw /\ Has(n, "UU"), 100, "string_compareU", RAX_REGI),
    Rule(<<"_BINARY_RDI_REGP_RCX_REGI", "_BINARY_RSI_REGP_RDX_REGI">>,
         vm.avx512vlbw /\ Has(n, "LL"), 100, "string_compareL_evex", RAX_REGI),
    Rule(<<"_BINARY_RDI_REGP_RCX_REGI", "_BINARY_RSI_REGP_RDX_REGI">>,
         ~vm.avx512vlbw /\ Has(n, "LL"), 100, "string_compareL", RAX_REGI) >>

StrComp(vm, n) ==
    StrComp_string_compareUL_evex(vm, n)
    \o StrComp_string_compareU_evex(vm, n)

StrCompressedCopy(vm, n) == <<
    First(<<"RSI_REGP", "_BINARY_RDI_REGP_RDX_REGI">>, vm.avx512vlbw /\ vm.bmi2, 100,
          "string_compress_evex", RAX_REGI),
    Rule(<<"RSI_REGP", "_BINARY_RDI_REGP_RDX_REGI">>, ~vm.avx512vlbw \/ ~vm.bmi2, 100,
         "string_compress", RAX_REGI) >>

StrEquals(vm, n) == <<
    First(<<"_BINARY_RDI_REGP_RSI_REGP", "RCX_REGI">>, vm.avx512vlbw, 100, "string_equals_evex",
          RAX_REGI),
    Rule(<<"_BINARY_RDI_REGP_RSI_REGP", "RCX_REGI">>, ~vm.avx512vlbw, 100, "string_equals",
         RAX_REGI) >>

StrIndexOf_string_indexofUL(vm, n) == <<
    First(<<"_BINARY_RDI_REGP_RDX_REGI", "_BINARY_RSI_REGP_RAX_REGI">>,
          vm.UseSSE42Intrinsics /\ Has(n, "UL"), 100, "string_indexofUL", RBX_REGI),
    Rule(<<"_BINARY_RDI_REGP_RDX_REGI", "_BINARY_RSI_REGP_RAX_REGI">>,
         vm.UseSSE42Intrinsics /\ Has(n, "UU"), 100, "string_indexofU", RBX_REGI),
    Rule(<<"_BINARY_RDI_REGP_RDX_REGI", "_BINARY_RSI_REGP_RAX_REGI">>,
         vm.UseSSE42Intrinsics /\ Has(n, "LL"), 100, "string_indexofL", RBX_REGI),
    Rule(<<"_BINARY_RDI_REGP_RDX_REGI", "_BINARY_RSI_REGP_IMMI">>,
         vm.UseSSE42Intrinsics /\ Has(n, "UL"), 100, "string_indexof_conUL", RBX_REGI) >>

StrIndexOf_string_indexof_conU(vm, n) == <<
    Rule(<<"_BINARY_RDI_REGP_RDX_REGI", "_BINARY_RSI_REGP_IMMI">>,
         vm.UseSSE42Intrinsics /\ Has(n, "UU"), 100, "string_indexof_conU", RBX_REGI),
    Rule(<<"_BINARY_RDI_REGP_RDX_REGI", "_BINARY_RSI_REGP_IMMI">>,
         vm.UseSSE42Intrinsics /\ Has(n, "LL"), 100, "string_indexof_conL", RBX_REGI) >>

StrIndexOf(vm, n) ==
    StrIndexOf_string_indexofUL(vm, n)
    \o StrIndexOf_string_indexof_conU(vm, n)

StrIndexOfChar(vm, n) == <<
    First(<<"_BINARY_RDI_REGP_RDX_REGI", "RAX_REGI">>, vm.UseSSE42Intrinsics /\ Has(n, "L"),
          100, "stringL_indexof_char", RBX_REGI),
    Rule(<<"_BINARY_RDI_REGP_RDX_REGI", "RAX_REGI">>, vm.UseSSE42Intrinsics /\ Has(n, "U"), 100,
         "string_indexof_char", RBX_REGI) >>

StrInflatedCopy(vm, n) == <<
    First(<<"RSI_REGP", "_BINARY_RDI_REGP_RDX_REGI">>, vm.avx512vlbw /\ vm.bmi2, 100,
          "string_inflate_evex", One("UNIVERSE")),
    Rule(<<"RSI_REGP", "_BINARY_RDI_REGP_RDX_REGI">>, ~vm.avx512vlbw \/ ~vm.bmi2, 100,
         "string_inflate", One("UNIVERSE")) >>

VectorizedHashCode(vm, n) == <<
    First(<<"_BINARY_RDI_REGP_RDX_REGI", "_BINARY_RBX_REGI_IMMU8">>, vm.UseAVX >= 2, 100,
          "arrays_hashcode", RBX_REGI) >>

CompareAndSwapB(vm, n) == <<
    First(<<"MEMORY", "_BINARY_RAX_REGI_RREGI">>, TRUE, 100, "compareAndSwapB", RREGI) >>

CompareAndSwapS(vm, n) == <<
    First(<<"MEMORY", "_BINARY_RAX_REGI_RREGI">>, TRUE, 100, "compareAndSwapS", RREGI) >>

CompareAndSwapI(vm, n) == <<
    First(<<"MEMORY", "_BINARY_RAX_REGI_RREGI">>, TRUE, 100, "compareAndSwapI", RREGI) >>

CompareAndSwapL(vm, n) == <<
    First(<<"MEMORY", "_BINARY_RAX_REGL_RREGL">>, TRUE, 100, "compareAndSwapL", RREGI) >>

CompareAndSwapP(vm, n) == <<
    First(<<"INDIRECT", "_BINARY_RAX_REGP_RREGP">>, vm.UseG1GC /\ Has(n, "barrier"), 100,
          "g1CompareAndSwapP", RREGI),
    Rule(<<"INDIRECT", "_BINARY_RAX_REGP_RREGP">>, vm.UseZGC /\ Has(n, "barrier"), 100,
         "zCompareAndSwapP", RREGI),
    Rule(<<"MEMORY", "_BINARY_RAX_REGP_RREGP">>, ~Has(n, "barrier"), 100, "compareAndSwapP",
         RREGI) >>

CompareAndSwapN(vm, n) == <<
    First(<<"INDIRECT", "_BINARY_RAX_REGN_RREGN">>, vm.UseG1GC /\ Has(n, "barrier"), 100,
          "g1CompareAndSwapN", RREGI),
    Rule(<<"MEMORY", "_BINARY_RAX_REGN_RREGN">>, ~Has(n, "barrier"), 100, "compareAndSwapN",
         RREGI) >>

WeakCompareAndSwapB(vm, n) == <<
    First(<<"MEMORY", "_BINARY_RAX_REGI_RREGI">>, TRUE, 100, "compareAndSwapB_0", RREGI) >>

WeakCompareAndSwapS(vm, n) == <<
    First(<<"MEMORY", "_BINARY_RAX_REGI_RREGI">>, TRUE, 100, "compareAndSwapS_0", RREGI) >>

WeakCompareAndSwapI(vm, n) == <<
    First(<<"MEMORY", "_BINARY_RAX_REGI_RREGI">>, TRUE, 100, "compareAndSwapI_0", RREGI) >>

WeakCompareAndSwapL(vm, n) == <<
    First(<<"MEMORY", "_BINARY_RAX_REGL_RREGL">>, TRUE, 100, "compareAndSwapL_0", RREGI) >>

WeakCompareAndSwapP(vm, n) == <<
    First(<<"INDIRECT", "_BINARY_RAX_REGP_RREGP">>, vm.UseG1GC /\ Has(n, "barrier"), 100,
          "g1CompareAndSwapP_0", RREGI),
    Rule(<<"INDIRECT", "_BINARY_RAX_REGP_RREGP">>, vm.UseZGC /\ Has(n, "barrier"), 100,
         "zCompareAndSwapP_0", RREGI),
    Rule(<<"MEMORY", "_BINARY_RAX_REGP_RREGP">>, ~Has(n, "barrier"), 100, "compareAndSwapP_0",
         RREGI) >>

WeakCompareAndSwapN(vm, n) == <<
    First(<<"INDIRECT", "_BINARY_RAX_REGN_RREGN">>, vm.UseG1GC /\ Has(n, "barrier"), 100,
          "g1CompareAndSwapN_0", RREGI),
    Rule(<<"MEMORY", "_BINARY_RAX_REGN_RREGN">>, ~Has(n, "barrier"), 100, "compareAndSwapN_0",
         RREGI) >>

CompareAndExchangeB(vm, n) == <<
    First(<<"MEMORY", "_BINARY_RAX_REGI_RREGI">>, TRUE, 100, "compareAndExchangeB", RAX_REGI) >>

CompareAndExchangeS(vm, n) == <<
    First(<<"MEMORY", "_BINARY_RAX_REGI_RREGI">>, TRUE, 100, "compareAndExchangeS", RAX_REGI) >>

CompareAndExchangeI(vm, n) == <<
    First(<<"MEMORY", "_BINARY_RAX_REGI_RREGI">>, TRUE, 100, "compareAndExchangeI", RAX_REGI) >>

CompareAndExchangeL(vm, n) == <<
    First(<<"MEMORY", "_BINARY_RAX_REGL_RREGL">>, TRUE, 100, "compareAndExchangeL", RAX_REGL) >>

CompareAndExchangeP(vm, n) == <<
    First(<<"INDIRECT", "_BINARY_RAX_REGP_RREGP">>, vm.UseG1GC /\ Has(n, "barrier"), 100,
          "g1CompareAndExchangeP", RAX_REGP),
    Rule(<<"INDIRECT", "_BINARY_RAX_REGP_NO_RAX_REGP">>, vm.UseZGC /\ Has(n, "barrier"), 100,
         "zCompareAndExchangeP", RAX_REGP),
    Rule(<<"MEMORY", "_BINARY_RAX_REGP_RREGP">>, ~Has(n, "barrier"), 100, "compareAndExchangeP",
         RAX_REGP) >>

CompareAndExchangeN(vm, n) == <<
    First(<<"INDIRECT", "_BINARY_RAX_REGN_RREGN">>, vm.UseG1GC /\ Has(n, "barrier"), 100,
          "g1CompareAndExchangeN", One("RAX_REGN")),
    Rule(<<"MEMORY", "_BINARY_RAX_REGN_RREGN">>, ~Has(n, "barrier"), 100, "compareAndExchangeN",
         One("RAX_REGN")) >>

ShenandoahCompareAndSwapN(vm, n) == <<
    First(<<"MEMORY", "_BINARY_RAX_REGN_RREGN">>, TRUE, 100, "compareAndSwapN_shenandoah",
          RREGI) >>

ShenandoahCompareAndSwapP(vm, n) == <<
    First(<<"MEMORY", "_BINARY_RAX_REGP_RREGP">>, TRUE, 100, "compareAndSwapP_shenandoah",
          RREGI) >>

ShenandoahWeakCompareAndSwapN(vm, n) == <<
    First(<<"MEMORY", "_BINARY_RAX_REGN_RREGN">>, TRUE, 100, "compareAndSwapN_shenandoah_0",
          RREGI) >>

ShenandoahWeakCompareAndSwapP(vm, n) == <<
    First(<<"MEMORY", "_BINARY_RAX_REGP_RREGP">>, TRUE, 100, "compareAndSwapP_shenandoah_0",
          RREGI) >>

ShenandoahCompareAndExchangeP(vm, n) == <<
    First(<<"MEMORY", "_BINARY_RAX_REGP_RREGP">>, TRUE, 1000, "compareAndExchangeP_shenandoah",
          RAX_REGP) >>

ShenandoahCompareAndExchangeN(vm, n) == <<
    First(<<"MEMORY", "_BINARY_RAX_REGN_RREGN">>, TRUE, 100, "compareAndExchangeN_shenandoah",
          One("RAX_REGN")) >>

GetAndAddB(vm, n) == <<
    First(<<"MEMORY", "RREGI">>, ~Has(n, "unused"), 100, "xaddB", RREGI),
    First(<<"MEMORY", "IMMI">>, Has(n, "unused"), 100, "xaddB_imm_no_res", One("UNIVERSE")),
    Rule(<<"MEMORY", "RREGI">>, Has(n, "unused"), 100, "xaddB_reg_no_res", One("UNIVERSE")) >>

GetAndAddS(vm, n) == <<
    First(<<"MEMORY", "RREGI">>, ~Has(n, "unused"), 100, "xaddS", RREGI),
    First(<<"MEMORY", "IMMI">>, vm.UseStoreImmI16 /\ Has(n, "unused"), 100, "xaddS_imm_no_res",
          One("UNIVERSE")),
    Rule(<<"MEMORY", "RREGI">>, Has(n, "unused"), 100, "xaddS_reg_no_res", One("UNIVERSE")) >>

GetAndAddI(vm, n) == <<
    First(<<"MEMORY", "RREGI">>, ~Has(n, "unused"), 100, "xaddI", RREGI),
    First(<<"MEMORY", "IMMI">>, Has(n, "unused"), 100, "xaddI_imm_no_res", One("UNIVERSE")),
    Rule(<<"MEMORY", "RREGI">>, Has(n, "unused"), 100, "xaddI_reg_no_res", One("UNIVERSE")) >>

GetAndAddL(vm, n) == <<
    First(<<"MEMORY", "RREGL">>, ~Has(n, "unused"), 100, "xaddL", RREGL),
    First(<<"MEMORY", "IMML32">>, Has(n, "unused"), 100, "xaddL_imm_no_res", One("UNIVERSE")),
    Rule(<<"MEMORY", "RREGL">>, Has(n, "unused"), 100, "xaddL_reg_no_res", One("UNIVERSE")) >>

GetAndSetB(vm, n) == << First(<<"MEMORY", "RREGI">>, TRUE, 100, "xchgB", RREGI) >>

GetAndSetS(vm, n) == << First(<<"MEMORY", "RREGI">>, TRUE, 100, "xchgS", RREGI) >>

GetAndSetI(vm, n) == << First(<<"MEMORY", "RREGI">>, TRUE, 100, "xchgI", RREGI) >>

GetAndSetL(vm, n) == << First(<<"MEMORY", "RREGL">>, TRUE, 100, "xchgL", RREGL) >>

GetAndSetP(vm, n) == <<
    First(<<"INDIRECT", "RREGP">>, vm.UseG1GC /\ Has(n, "barrier"), 100, "g1GetAndSetP", RREGP),
    Rule(<<"INDIRECT", "RREGP">>, vm.UseZGC /\ Has(n, "barrier"), 100, "zXChgP", RREGP),
    Rule(<<"MEMORY", "RREGP">>, ~Has(n, "barrier"), 100, "xchgP", RREGP) >>

\* Mutant: the instruction without a barrier does not ask whether there is one.
GetAndSetNAnyway(vm, n) == <<
    First(<<"INDIRECT", "RREGN">>, vm.UseG1GC /\ Has(n, "barrier"), 100, "g1GetAndSetN", RREGN),
    Rule(<<"MEMORY", "RREGN">>, TRUE, 100, "xchgN", RREGN) >>

GetAndSetN(vm, n) == <<
    First(<<"INDIRECT", "RREGN">>, vm.UseG1GC /\ Has(n, "barrier"), 100, "g1GetAndSetN", RREGN),
    Rule(<<"MEMORY", "RREGN">>, ~Has(n, "barrier"), 100, "xchgN", RREGN) >>

MemBarAcquire(vm, n) == << First(<<>>, TRUE, 0, "membar_acquire", One("UNIVERSE")) >>

LoadFence(vm, n) == << First(<<>>, TRUE, 0, "membar_acquire_0", One("UNIVERSE")) >>

MemBarAcquireLock(vm, n) == << First(<<>>, TRUE, 0, "membar_acquire_lock", One("UNIVERSE")) >>

MemBarRelease(vm, n) == << First(<<>>, TRUE, 0, "membar_release", One("UNIVERSE")) >>

StoreFence(vm, n) == << First(<<>>, TRUE, 0, "membar_release_0", One("UNIVERSE")) >>

StoreStoreFence(vm, n) == << First(<<>>, TRUE, 0, "membar_storestore_0", One("UNIVERSE")) >>

MemBarReleaseLock(vm, n) == << First(<<>>, TRUE, 0, "membar_release_lock", One("UNIVERSE")) >>

MemBarVolatile(vm, n) == <<
    First(<<>>, Has(n, "store load barrier follows"), 0, "unnecessary_membar_volatile",
          One("UNIVERSE")),
    Rule(<<>>, TRUE, 400, "membar_volatile", One("UNIVERSE")) >>

MemBarStoreStore(vm, n) == << First(<<>>, TRUE, 0, "membar_storestore", One("UNIVERSE")) >>

OnSpinWait(vm, n) == << First(<<>>, TRUE, 200, "onspinwait", One("UNIVERSE")) >>

FastLock(vm, n) == <<
    First(<<"RREGP", "RBX_REGP">>, TRUE, 300, "cmpFastLock", One("RFLAGSREG")) >>

FastUnlock(vm, n) == <<
    First(<<"RREGP", "RAX_REGP">>, TRUE, 300, "cmpFastUnlock", One("RFLAGSREG")) >>

CacheWB(vm, n) == <<
    First(<<"INDIRECT">>, vm.data_cache_line_flush, 100, "cacheWB", One("UNIVERSE")) >>

CacheWBPreSync(vm, n) == <<
    First(<<>>, vm.data_cache_line_flush, 100, "cacheWBPreSync", One("UNIVERSE")) >>

CacheWBPostSync(vm, n) == <<
    First(<<>>, vm.data_cache_line_flush, 100, "cacheWBPostSync", One("UNIVERSE")) >>

PrefetchAllocation(vm, n) == <<
    First(<<"MEMORY">>, vm.AllocatePrefetchInstr = 2, 125, "prefetchAllocT2", One("UNIVERSE")),
    Rule(<<"MEMORY">>, vm.AllocatePrefetchInstr = 1, 125, "prefetchAllocT0", One("UNIVERSE")),
    Rule(<<"MEMORY">>, vm.AllocatePrefetchInstr = 0, 125, "prefetchAllocNTA", One("UNIVERSE")),
    Rule(<<"MEMORY">>, vm.AllocatePrefetchInstr = 3, 125, "prefetchAlloc", One("UNIVERSE")) >>
=============================================================================
