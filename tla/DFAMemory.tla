------------------------------ MODULE DFAMemory -----------------------------
(***************************************************************************)
(* Addresses, pointers, loads and stores.  A store that matches a load     *)
(* from the same address and an operation is one instruction on memory.    *)
(***************************************************************************)
EXTENDS DFAOperands
-----------------------------------------------------------------------------
AddP_subP_rReg(vm, n) == <<
    First(<<"RREGP", "_SUBI_IMMI_0_RREGI">>, TRUE, 100, "subP_rReg", RREGP),
    Rule(<<"RREGP", "IMML32">>, TRUE, 100, "addP_rReg_imm", RREGP),
    Rule(<<"RREGP", "RREGL">>, TRUE, 100, "addP_rReg", RREGP) >>

AddP_indPosIndexScaleOffsetNarrow(vm, n) == <<
    Operand(<<"_ADDP__DECODEN_RREGN___LSHIFTL__CONVI2L_RREGI__IMMI2", "IMML32">>,
            vm.shift = 0 /\ NonNeg(Kid3(n, 1, 2, 1)), 10, "indPosIndexScaleOffsetNarrow",
            Address("INDPOSINDEXSCALEOFFSETNARROW", "leaPPosIdxScaleOffNarrow")),
    Inner(<<"_DECODEN_RREGN_", "_LSHIFTL__CONVI2L_RREGI__IMMI2">>,
          "_ADDP__DECODEN_RREGN___LSHIFTL__CONVI2L_RREGI__IMMI2") >>

AddP_indPosIndexOffsetNarrow(vm, n) == <<
    Operand(<<"_ADDP__DECODEN_RREGN___CONVI2L_RREGI_", "IMML32">>,
            vm.shift = 0 /\ NonNeg(Kid2(n, 1, 2)), 10, "indPosIndexOffsetNarrow",
            Address("INDPOSINDEXOFFSETNARROW", "leaPPosIdxOffNarrow")),
    Inner(<<"_DECODEN_RREGN_", "_CONVI2L_RREGI_">>, "_ADDP__DECODEN_RREGN___CONVI2L_RREGI_"),
    Operand(<<"_ADDP__DECODEN_RREGN___LSHIFTL_RREGL_IMMI2", "IMML32">>, vm.shift = 0, 10,
            "indIndexScaleOffsetNarrow",
            Address("INDINDEXSCALEOFFSETNARROW", "leaPIdxScaleOffNarrow")),
    Inner(<<"_DECODEN_RREGN_", "_LSHIFTL_RREGL_IMMI2">>,
          "_ADDP__DECODEN_RREGN___LSHIFTL_RREGL_IMMI2") >>

AddP_indIndexScaleNarrow(vm, n) == <<
    Operand(<<"_DECODEN_RREGN_", "_LSHIFTL_RREGL_IMMI2">>, vm.shift = 0, 10,
            "indIndexScaleNarrow", Address("INDINDEXSCALENARROW", "leaPIdxScaleNarrow")),
    Operand(<<"_DECODEN_RREGN_", "RREGL">>, vm.shift = 0, 10, "indIndexNarrow",
            <<<<"INDINDEXNARROW", Own, 0>>, <<"MEMORY", Own, 0>>>>),
    Operand(<<"_ADDP__DECODEN_RREGN__RREGL", "IMML32">>, vm.shift = 0, 10,
            "indIndexOffsetNarrow", Address("INDINDEXOFFSETNARROW", "leaPIdxOffNarrow")),
    Inner(<<"_DECODEN_RREGN_", "RREGL">>, "_ADDP__DECODEN_RREGN__RREGL") >>

AddP_indOffset32Narrow(vm, n) == <<
    Operand(<<"_DECODEN_RREGN_", "IMML32">>, vm.shift = 0, 0, "indOffset32Narrow",
            Address("INDOFFSET32NARROW", "leaP32Narrow")),
    Operand(<<"_DECODEN_RREGN_", "IMML8">>, vm.shift = 0, 0, "indOffset8Narrow",
            Address("INDOFFSET8NARROW", "leaP8Narrow")) >>

AddP_indCompressedOopOffset(vm, n) == <<
    Operand(<<"_DECODEN_RREGN_", "IMML32">>, vm.UseCompressedOops /\ vm.shift = 3, 10,
            "indCompressedOopOffset",
            Address("INDCOMPRESSEDOOPOFFSET", "leaPCompressedOopOffset")),
    Operand(<<"_ADDP_ANY_REGP__LSHIFTL__CONVI2L_RREGI__IMMI2", "IMML32">>,
            NonNeg(Kid3(n, 1, 2, 1)), 10, "indPosIndexScaleOffset",
            Address("INDPOSINDEXSCALEOFFSET", "leaPPosIdxScaleOff")),
    Inner(<<"ANY_REGP", "_LSHIFTL__CONVI2L_RREGI__IMMI2">>,
          "_ADDP_ANY_REGP__LSHIFTL__CONVI2L_RREGI__IMMI2") >>

AddP_indPosIndexOffset(vm, n) == <<
    Operand(<<"_ADDP_ANY_REGP__CONVI2L_RREGI_", "IMML32">>, NonNeg(Kid2(n, 1, 2)), 10,
            "indPosIndexOffset", Address("INDPOSINDEXOFFSET", "leaPPosIdxOff")),
    Inner(<<"ANY_REGP", "_CONVI2L_RREGI_">>, "_ADDP_ANY_REGP__CONVI2L_RREGI_"),
    Operand(<<"_ADDP_ANY_REGP__LSHIFTL_RREGL_IMMI2", "IMML32">>, TRUE, 10,
            "indIndexScaleOffset", Address("INDINDEXSCALEOFFSET", "leaPIdxScaleOff")),
    Inner(<<"ANY_REGP", "_LSHIFTL_RREGL_IMMI2">>, "_ADDP_ANY_REGP__LSHIFTL_RREGL_IMMI2") >>

AddP_indPosIndexScale(vm, n) == <<
    Operand(<<"ANY_REGP", "_LSHIFTL__CONVI2L_RREGI__IMMI2">>, NonNeg(Kid2(n, 2, 1)), 10,
            "indPosIndexScale", Address("INDPOSINDEXSCALE", "leaPPosIdxScale")),
    Operand(<<"ANY_REGP", "_LSHIFTL_RREGL_IMMI2">>, TRUE, 10, "indIndexScale",
            Address("INDINDEXSCALE", "leaPIdxScale")),
    Operand(<<"ANY_REGP", "RREGL">>, TRUE, 10, "indIndex",
            <<<<"INDINDEX", Own, 0>>, <<"MEMORY", Own, 0>>>>) >>

AddP_indIndexOffset(vm, n) == <<
    Operand(<<"_ADDP_ANY_REGP_RREGL", "IMML32">>, TRUE, 10, "indIndexOffset",
            Address("INDINDEXOFFSET", "leaPIdxOff")),
    Inner(<<"ANY_REGP", "RREGL">>, "_ADDP_ANY_REGP_RREGL"),
    Operand(<<"ANY_REGP", "IMML32">>, TRUE, 0, "indOffset32", Address("INDOFFSET32", "leaP32")) >>

AddP_indOffset8(vm, n) == <<
    Operand(<<"ANY_REGP", "IMML8">>, TRUE, 0, "indOffset8", Address("INDOFFSET8", "leaP8")) >>

AddP(vm, n) ==
    AddP_subP_rReg(vm, n)
    \o AddP_indPosIndexScaleOffsetNarrow(vm, n)
    \o AddP_indPosIndexOffsetNarrow(vm, n)
    \o AddP_indIndexScaleNarrow(vm, n)
    \o AddP_indOffset32Narrow(vm, n)
    \o AddP_indCompressedOopOffset(vm, n)
    \o AddP_indPosIndexOffset(vm, n)
    \o AddP_indPosIndexScale(vm, n)
    \o AddP_indIndexOffset(vm, n)
    \o AddP_indOffset8(vm, n)

\* Mutant: a pointer that may be null is decoded by no rule.
DecodeNNotNull(vm, n) == <<
    First(<<"RREGN">>, Has(n, "NotNull") \/ Has(n, "Constant"), 100, "decodeHeapOop_not_null",
          RREGP),
    Operand(<<"RREGN">>, vm.shift = 0, 0, "indirectNarrow",
            <<<<"INDIRECTNARROW", Own, 0>>, <<"MEMORY", Own, 0>>>>),
    Inner(<<"RREGN">>, "_DECODEN_RREGN_") >>

DecodeN(vm, n) == <<
    First(<<"RREGN">>, Has(n, "NotNull") \/ Has(n, "Constant"), 100, "decodeHeapOop_not_null",
          RREGP),
    Rule(<<"RREGN">>, ~Has(n, "NotNull") /\ ~Has(n, "Constant"), 100, "decodeHeapOop", RREGP),
    Operand(<<"RREGN">>, vm.shift = 0, 0, "indirectNarrow",
            <<<<"INDIRECTNARROW", Own, 0>>, <<"MEMORY", Own, 0>>>>),
    Inner(<<"RREGN">>, "_DECODEN_RREGN_") >>

DecodeNKlass(vm, n) == << First(<<"RREGN">>, TRUE, 100, "decodeKlass_not_null", RREGP) >>

EncodeP(vm, n) == <<
    Inner(<<"ANY_REGP">>, "_ENCODEP_ANY_REGP_"),
    First(<<"RREGP">>, Has(n, "NotNull"), 100, "encodeHeapOop_not_null", RREGN),
    Rule(<<"RREGP">>, ~Has(n, "NotNull"), 100, "encodeHeapOop", RREGN) >>

EncodePKlass(vm, n) == << First(<<"RREGP">>, TRUE, 100, "encodeKlass_not_null", RREGN) >>

CastX2P(vm, n) == << First(<<"RREGL">>, TRUE, 100, "castX2P", RREGP) >>

CastP2X(vm, n) == <<
    Inner(<<"ANY_REGP">>, "_CASTP2X_ANY_REGP_"),
    Inner(<<"_DECODEN_RREGN_">>, "_CASTP2X__DECODEN_RREGN__"),
    Inner(<<"RREGP">>, "_CASTP2X_RREGP_"),
    First(<<"RREGP">>, TRUE, 100, "castP2X", RREGL) >>

CastPP(vm, n) == << First(<<"RREGP">>, TRUE, 100, "castPP", RREGP) >>

CheckCastPP(vm, n) == << First(<<"RREGP">>, TRUE, 100, "checkCastPP", RREGP) >>

LoadB(vm, n) == <<
    Inner(<<"MEMORY">>, "_LOADB_MEMORY_"),
    First(<<"MEMORY">>, TRUE, 125, "loadB", RREGI) >>

LoadUB(vm, n) == <<
    Inner(<<"MEMORY">>, "_LOADUB_MEMORY_"),
    First(<<"MEMORY">>, TRUE, 125, "loadUB", RREGI) >>

LoadS(vm, n) == <<
    Inner(<<"MEMORY">>, "_LOADS_MEMORY_"),
    First(<<"MEMORY">>, TRUE, 125, "loadS", RREGI) >>

LoadUS(vm, n) == <<
    Inner(<<"MEMORY">>, "_LOADUS_MEMORY_"),
    First(<<"MEMORY">>, TRUE, 125, "loadUS", RREGI) >>

LoadI(vm, n) == <<
    Inner(<<"MEMORY">>, "_LOADI_MEMORY_"),
    First(<<"MEMORY">>, TRUE, 125, "loadI", RREGI) >>

LoadL(vm, n) == <<
    Inner(<<"MEMORY">>, "_LOADL_MEMORY_"),
    First(<<"MEMORY">>, TRUE, 125, "loadL", RREGL) >>

LoadRange(vm, n) == << First(<<"MEMORY">>, TRUE, 125, "loadRange", RREGI) >>

LoadP(vm, n) == <<
    First(<<"MEMORY">>, vm.UseG1GC /\ Has(n, "barrier"), 125, "g1LoadP", RREGP),
    Rule(<<"MEMORY">>, vm.UseZGC /\ Has(n, "barrier"), 125, "zLoadP", RREGP),
    Inner(<<"MEMORY">>, "_LOADP_MEMORY_"),
    Rule(<<"MEMORY">>, ~Has(n, "barrier"), 125, "loadP", RREGP) >>

LoadN(vm, n) == <<
    First(<<"MEMORY">>, vm.UseG1GC /\ Has(n, "barrier"), 125, "g1LoadN", RREGN),
    Inner(<<"MEMORY">>, "_LOADN_MEMORY_"),
    Rule(<<"MEMORY">>, ~Has(n, "barrier"), 125, "loadN", RREGN) >>

LoadKlass(vm, n) == << First(<<"MEMORY">>, TRUE, 125, "loadKlass", RREGP) >>

LoadNKlass(vm, n) == <<
    Inner(<<"MEMORY">>, "_LOADNKLASS_MEMORY_"),
    First(<<"MEMORY">>, vm.UseCompactObjectHeaders, 125, "loadNKlassCompactHeaders", RREGN),
    Rule(<<"MEMORY">>, ~vm.UseCompactObjectHeaders, 125, "loadNKlass", RREGN) >>

LoadF(vm, n) == <<
    Inner(<<"MEMORY">>, "_LOADF_MEMORY_"),
    First(<<"MEMORY">>, TRUE, 145, "loadF", REGF) >>

LoadD(vm, n) == <<
    Inner(<<"MEMORY">>, "_LOADD_MEMORY_"),
    First(<<"MEMORY">>, vm.UseXmmLoadAndClearUpper, 145, "loadD", REGD),
    Rule(<<"MEMORY">>, ~vm.UseXmmLoadAndClearUpper, 145, "loadD_partial", REGD) >>

StoreB(vm, n) == <<
    First(<<"MEMORY", "_XORI_RREGI__LOADB_MEMORY_">>, SameAddress(n, 2), 150, "xorB_mem_rReg_0",
          One("UNIVERSE")),
    Rule(<<"MEMORY", "_XORI__LOADB_MEMORY__RREGI">>, SameAddress(n, 1), 150, "xorB_mem_rReg",
         One("UNIVERSE")),
    Rule(<<"MEMORY", "_ORI_RREGI__LOADB_MEMORY_">>, SameAddress(n, 2), 150, "orB_mem_rReg_0",
         One("UNIVERSE")),
    Rule(<<"MEMORY", "_ORI__LOADB_MEMORY__RREGI">>, SameAddress(n, 1), 150, "orB_mem_rReg",
         One("UNIVERSE")),
    Rule(<<"MEMORY", "_ANDI_RREGI__LOADB_MEMORY_">>, SameAddress(n, 2), 150, "andB_mem_rReg_0",
         One("UNIVERSE")),
    Rule(<<"MEMORY", "_ANDI__LOADB_MEMORY__RREGI">>, SameAddress(n, 1), 150, "andB_mem_rReg",
         One("UNIVERSE")),
    Rule(<<"MEMORY", "IMMI8">>, TRUE, 150, "storeImmB", One("UNIVERSE")),
    Rule(<<"MEMORY", "IMMI_0">>, vm.UseCompressedOops /\ vm.base = 0, 125, "storeImmB0",
         One("UNIVERSE")),
    Rule(<<"MEMORY", "RREGI">>, TRUE, 125, "storeB", One("UNIVERSE")) >>

StoreC(vm, n) == <<
    First(<<"MEMORY", "_CONVF2HF_REGF_">>, vm.UseAVX > 2 /\ vm.avx512vl, 100,
          "convF2HF_mem_reg", One("UNIVERSE")),
    Rule(<<"MEMORY", "IMMI16">>, vm.UseStoreImmI16, 150, "storeImmI16", One("UNIVERSE")),
    Rule(<<"MEMORY", "IMMI_0">>, vm.UseCompressedOops /\ vm.base = 0, 125, "storeImmC0",
         One("UNIVERSE")),
    Rule(<<"MEMORY", "RREGI">>, TRUE, 125, "storeC", One("UNIVERSE")) >>

StoreI_xorI_mem_imm(vm, n) == <<
    First(<<"MEMORY", "_XORI__LOADI_MEMORY__IMMI">>, SameAddress(n, 1), 125, "xorI_mem_imm",
          One("UNIVERSE")),
    Rule(<<"MEMORY", "_XORI_RREGI__LOADI_MEMORY_">>, SameAddress(n, 2), 150, "xorI_mem_rReg_0",
         One("UNIVERSE")),
    Rule(<<"MEMORY", "_XORI__LOADI_MEMORY__RREGI">>, SameAddress(n, 1), 150, "xorI_mem_rReg",
         One("UNIVERSE")),
    Rule(<<"MEMORY", "_ORI__LOADI_MEMORY__IMMI">>, SameAddress(n, 1), 125, "orI_mem_imm",
         One("UNIVERSE")),
    Rule(<<"MEMORY", "_ORI_RREGI__LOADI_MEMORY_">>, SameAddress(n, 2), 150, "orI_mem_rReg_0",
         One("UNIVERSE")),
    Rule(<<"MEMORY", "_ORI__LOADI_MEMORY__RREGI">>, SameAddress(n, 1), 150, "orI_mem_rReg",
         One("UNIVERSE")),
    Rule(<<"MEMORY", "_ANDI__LOADI_MEMORY__IMMI">>, SameAddress(n, 1), 125, "andI_mem_imm",
         One("UNIVERSE")),
    Rule(<<"MEMORY", "_ANDI_RREGI__LOADI_MEMORY_">>, SameAddress(n, 2), 150, "andI_mem_rReg_0",
         One("UNIVERSE")),
    Rule(<<"MEMORY", "_ANDI__LOADI_MEMORY__RREGI">>, SameAddress(n, 1), 150, "andI_mem_rReg",
         One("UNIVERSE")),
    Rule(<<"MEMORY", "_URSHIFTI__LOADI_MEMORY__RCX_REGI">>, ~vm.bmi2 /\ SameAddress(n, 1), 100,
         "shrI_mem_CL", One("UNIVERSE")),
    Rule(<<"MEMORY", "_URSHIFTI__LOADI_MEMORY__IMMI8">>, SameAddress(n, 1), 100, "shrI_mem_imm",
         One("UNIVERSE")),
    Rule(<<"MEMORY", "_RSHIFTI__LOADI_MEMORY__RCX_REGI">>, ~vm.bmi2 /\ SameAddress(n, 1), 100,
         "sarI_mem_CL", One("UNIVERSE")),
    Rule(<<"MEMORY", "_RSHIFTI__LOADI_MEMORY__IMMI8">>, SameAddress(n, 1), 100, "sarI_mem_imm",
         One("UNIVERSE")),
    Rule(<<"MEMORY", "_LSHIFTI__LOADI_MEMORY__RCX_REGI">>, ~vm.bmi2 /\ SameAddress(n, 1), 100,
         "salI_mem_CL", One("UNIVERSE")),
    Rule(<<"MEMORY", "_LSHIFTI__LOADI_MEMORY__IMMI8">>, SameAddress(n, 1), 100, "salI_mem_imm",
         One("UNIVERSE")),
    Rule(<<"MEMORY", "_SUBI_IMMI_0__LOADI_MEMORY_">>, SameAddress(n, 2), 100, "negI_mem",
         One("UNIVERSE")),
    Rule(<<"MEMORY", "_SUBI__LOADI_MEMORY__RREGI">>, SameAddress(n, 1), 150, "subI_mem_rReg",
         One("UNIVERSE")),
    Rule(<<"MEMORY", "_ADDI__LOADI_MEMORY__IMMI_M1">>, vm.UseIncDec /\ SameAddress(n, 1), 125,
         "decI_mem", One("UNIVERSE")) >>

StoreI_incI_mem(vm, n) == <<
    Rule(<<"MEMORY", "_ADDI__LOADI_MEMORY__IMMI_1">>, vm.UseIncDec /\ SameAddress(n, 1), 125,
         "incI_mem", One("UNIVERSE")),
    Rule(<<"MEMORY", "_ADDI__LOADI_MEMORY__IMMI">>, SameAddress(n, 1), 125, "addI_mem_imm",
         One("UNIVERSE")),
    Rule(<<"MEMORY", "_ADDI_RREGI__LOADI_MEMORY_">>, SameAddress(n, 2), 150, "addI_mem_rReg_0",
         One("UNIVERSE")),
    Rule(<<"MEMORY", "_ADDI__LOADI_MEMORY__RREGI">>, SameAddress(n, 1), 150, "addI_mem_rReg",
         One("UNIVERSE")),
    Rule(<<"MEMORY", "IMMI">>, TRUE, 150, "storeImmI", One("UNIVERSE")),
    Rule(<<"MEMORY", "IMMI_0">>, vm.UseCompressedOops /\ vm.base = 0, 125, "storeImmI0",
         One("UNIVERSE")),
    Rule(<<"MEMORY", "RREGI">>, TRUE, 125, "storeI", One("UNIVERSE")) >>

StoreI(vm, n) ==
    StoreI_xorI_mem_imm(vm, n)
    \o StoreI_incI_mem(vm, n)

StoreL_xorL_mem_imm(vm, n) == <<
    First(<<"MEMORY", "_XORL__LOADL_MEMORY__IMML32">>, SameAddress(n, 1), 125, "xorL_mem_imm",
          One("UNIVERSE")),
    Rule(<<"MEMORY", "_XORL__LOADL_MEMORY__RREGL">>, SameAddress(n, 1), 150, "xorL_mem_rReg",
         One("UNIVERSE")),
    Rule(<<"MEMORY", "_ORL__LOADL_MEMORY__IMML_POW2">>,
         Kid2(n, 2, 2).hi # 0 /\ SameAddress(n, 1), 125, "btsL_mem_imm", One("UNIVERSE")),
    Rule(<<"MEMORY", "_ORL__LOADL_MEMORY__IMML32">>, SameAddress(n, 1), 125, "orL_mem_imm",
         One("UNIVERSE")),
    Rule(<<"MEMORY", "_ORL_RREGL__LOADL_MEMORY_">>, SameAddress(n, 2), 150, "orL_mem_rReg_0",
         One("UNIVERSE")),
    Rule(<<"MEMORY", "_ORL__LOADL_MEMORY__RREGL">>, SameAddress(n, 1), 150, "orL_mem_rReg",
         One("UNIVERSE")),
    Rule(<<"MEMORY", "_ANDL__LOADL_MEMORY__IMML_NOTPOW2">>,
         (Not(Kid2(n, 2, 2)).hi # 0 \/ Not(Kid2(n, 2, 2)).lo < 0) /\ SameAddress(n, 1), 125,
         "btrL_mem_imm", One("UNIVERSE")),
    Rule(<<"MEMORY", "_ANDL__LOADL_MEMORY__IMML32">>, SameAddress(n, 1), 125, "andL_mem_imm",
         One("UNIVERSE")),
    Rule(<<"MEMORY", "_ANDL_RREGL__LOADL_MEMORY_">>, SameAddress(n, 2), 150, "andL_mem_rReg_0",
         One("UNIVERSE")),
    Rule(<<"MEMORY", "_ANDL__LOADL_MEMORY__RREGL">>, SameAddress(n, 1), 150, "andL_mem_rReg",
         One("UNIVERSE")),
    Rule(<<"MEMORY", "_URSHIFTL__LOADL_MEMORY__RCX_REGI">>, ~vm.bmi2 /\ SameAddress(n, 1), 100,
         "shrL_mem_CL", One("UNIVERSE")),
    Rule(<<"MEMORY", "_URSHIFTL__LOADL_MEMORY__IMMI8">>, SameAddress(n, 1), 100, "shrL_mem_imm",
         One("UNIVERSE")),
    Rule(<<"MEMORY", "_RSHIFTL__LOADL_MEMORY__RCX_REGI">>, ~vm.bmi2 /\ SameAddress(n, 1), 100,
         "sarL_mem_CL", One("UNIVERSE")),
    Rule(<<"MEMORY", "_RSHIFTL__LOADL_MEMORY__IMMI">>, SameAddress(n, 1), 100, "sarL_mem_imm",
         One("UNIVERSE")),
    Rule(<<"MEMORY", "_LSHIFTL__LOADL_MEMORY__RCX_REGI">>, ~vm.bmi2 /\ SameAddress(n, 1), 100,
         "salL_mem_CL", One("UNIVERSE")),
    Rule(<<"MEMORY", "_LSHIFTL__LOADL_MEMORY__IMMI8">>, SameAddress(n, 1), 100, "salL_mem_imm",
         One("UNIVERSE")),
    Rule(<<"MEMORY", "_SUBL_IMML0__LOADL_MEMORY_">>, SameAddress(n, 2), 100, "negL_mem",
         One("UNIVERSE")),
    Rule(<<"MEMORY", "_SUBL__LOADL_MEMORY__RREGL">>, SameAddress(n, 1), 150, "subL_mem_rReg",
         One("UNIVERSE")) >>

StoreL_decL_mem(vm, n) == <<
    Rule(<<"MEMORY", "_ADDL__LOADL_MEMORY__IMML_M1">>, vm.UseIncDec /\ SameAddress(n, 1), 125,
         "decL_mem", One("UNIVERSE")),
    Rule(<<"MEMORY", "_ADDL__LOADL_MEMORY__IMML1">>, vm.UseIncDec /\ SameAddress(n, 1), 125,
         "incL_mem", One("UNIVERSE")),
    Rule(<<"MEMORY", "_ADDL__LOADL_MEMORY__IMML32">>, SameAddress(n, 1), 125, "addL_mem_imm",
         One("UNIVERSE")),
    Rule(<<"MEMORY", "_ADDL_RREGL__LOADL_MEMORY_">>, SameAddress(n, 2), 150, "addL_mem_rReg_0",
         One("UNIVERSE")),
    Rule(<<"MEMORY", "_ADDL__LOADL_MEMORY__RREGL">>, SameAddress(n, 1), 150, "addL_mem_rReg",
         One("UNIVERSE")),
    Rule(<<"MEMORY", "IMML32">>, TRUE, 150, "storeImmL", One("UNIVERSE")),
    Rule(<<"MEMORY", "IMML0">>, vm.UseCompressedOops /\ vm.base = 0, 125, "storeImmL0",
         One("UNIVERSE")),
    Rule(<<"MEMORY", "RREGL">>, TRUE, 125, "storeL", One("UNIVERSE")) >>

StoreL(vm, n) ==
    StoreL_xorL_mem_imm(vm, n)
    \o StoreL_decL_mem(vm, n)

StoreP(vm, n) == <<
    First(<<"MEMORY", "ANY_REGP">>, vm.UseG1GC /\ Has(n, "barrier"), 125, "g1StoreP",
          One("UNIVERSE")),
    Rule(<<"MEMORY", "IMMP0">>, vm.UseZGC /\ Has(n, "barrier"), 125, "zStorePNull",
         One("UNIVERSE")),
    Rule(<<"MEMORY", "ANY_REGP">>, vm.UseZGC /\ Has(n, "barrier"), 125, "zStoreP",
         One("UNIVERSE")),
    Rule(<<"MEMORY", "IMMP31">>, ~Has(n, "barrier"), 150, "storeImmP", One("UNIVERSE")),
    Rule(<<"MEMORY", "IMMP0">>, vm.UseCompressedOops /\ vm.base = 0 /\ ~Has(n, "barrier"), 125,
         "storeImmP0", One("UNIVERSE")),
    Rule(<<"MEMORY", "ANY_REGP">>, ~Has(n, "barrier"), 125, "storeP", One("UNIVERSE")) >>

StoreN(vm, n) == <<
    First(<<"MEMORY", "_ENCODEP_ANY_REGP_">>, vm.UseG1GC /\ Has(n, "barrier"), 125,
          "g1EncodePAndStoreN", One("UNIVERSE")),
    Rule(<<"MEMORY", "RREGN">>, vm.UseG1GC /\ Has(n, "barrier"), 125, "g1StoreN",
         One("UNIVERSE")),
    Rule(<<"MEMORY", "IMMN">>, ~Has(n, "barrier"), 150, "storeImmN", One("UNIVERSE")),
    Rule(<<"MEMORY", "IMMN0">>, vm.base = 0 /\ ~Has(n, "barrier"), 125, "storeImmN0",
         One("UNIVERSE")),
    Rule(<<"MEMORY", "RREGN">>, ~Has(n, "barrier"), 125, "storeN", One("UNIVERSE")) >>

StoreNKlass(vm, n) == <<
    First(<<"MEMORY", "IMMNKLASS">>, TRUE, 150, "storeImmNKlass", One("UNIVERSE")),
    Rule(<<"MEMORY", "RREGN">>, TRUE, 125, "storeNKlass", One("UNIVERSE")) >>

StoreF(vm, n) == <<
    First(<<"MEMORY", "IMMF">>, TRUE, 50, "storeF_imm", One("UNIVERSE")),
    Rule(<<"MEMORY", "IMMF0">>, vm.UseCompressedOops /\ vm.base = 0, 25, "storeF0",
         One("UNIVERSE")),
    Rule(<<"MEMORY", "REGF">>, TRUE, 95, "storeF", One("UNIVERSE")) >>

StoreD(vm, n) == <<
    First(<<"MEMORY", "IMMD0">>, vm.UseCompressedOops /\ vm.base = 0, 25, "storeD0",
          One("UNIVERSE")),
    Rule(<<"MEMORY", "IMMD0">>, ~vm.UseCompressedOops \/ vm.base # 0, 50, "storeD0_imm",
         One("UNIVERSE")),
    Rule(<<"MEMORY", "REGD">>, TRUE, 95, "storeD", One("UNIVERSE")) >>

ThreadLocal(vm, n) == <<
    First(<<>>, TRUE, 100, "tlsLoadP",
          <<<<"R15_REGP", Own, 0>>, <<"ANY_REGP", Own, 0>>, <<"INDIRECT", Own, 0>>,
             <<"MEMORY", "indirect", 0>>, <<"RREGP", Own, 0>>,
             <<"STACKSLOTP", "storeSSP", 100>>, <<"RAX_REGP", Own, 0>>, <<"RBX_REGP", Own, 0>>,
             <<"NO_RBP_REGP", Own, 0>>, <<"NO_RAX_REGP", Own, 0>>, <<"RSI_REGP", Own, 0>>,
             <<"RBP_REGP", Own, 0>>, <<"RDI_REGP", Own, 0>>>>) >>
=============================================================================
