---------------------------- MODULE DFAVectorMove ---------------------------
(***************************************************************************)
(* Vectors loaded, stored, replicated, permuted, converted and taken apart;*)
(* vector masks, in a mask register (KREG) or as a vector.                 *)
(***************************************************************************)
EXTENDS DFAOperands
-----------------------------------------------------------------------------
CastVV(vm, n) == <<
    First(<<"LEGVEC">>, TRUE, 0, "castVVLeg", LEGVEC),
    Rule(<<"VEC">>, TRUE, 0, "castVV", VEC),
    First(<<"KREG">>, TRUE, 0, "castMM", One("KREG")) >>

LoadVector(vm, n) == <<
    First(<<"MEMORY">>, TRUE, 125, "loadV", VEC),
    Inner(<<"MEMORY">>, "_LOADVECTOR_MEMORY_") >>

LoadVectorGather(vm, n) == <<
    First(<<"MEMORY", "RREGP">>, Subword(n) /\ InBytes(n) > 8, 100, "vgather_subwordGT8B", VEC),
    Rule(<<"MEMORY", "RREGP">>, Subword(n) /\ InBytes(n) <= 8, 100, "vgather_subwordLE8B", VEC),
    Rule(<<"MEMORY", "VEC">>, (vm.avx512vl \/ InBytes(n) = 64) /\ ~Subword(n), 100, "evgather",
         VEC),
    Rule(<<"MEMORY", "LEGVEC">>, ~vm.avx512vl /\ ~Subword(n) /\ InBytes(n) <= 32, 100, "gather",
         LEGVEC) >>

LoadVectorGatherMasked(vm, n) == <<
    First(<<"MEMORY", "_BINARY_RREGP_VEC">>, ~vm.avx512vlbw /\ Subword(n) /\ InBytes(n) > 8,
          100, "vgather_masked_subwordGT8B_avx2", VEC),
    Rule(<<"MEMORY", "_BINARY_RREGP_VEC">>, ~vm.avx512vlbw /\ Subword(n) /\ InBytes(n) <= 8,
         100, "vgather_masked_subwordLE8B_avx2", VEC),
    Rule(<<"MEMORY", "_BINARY_RREGP_KREG">>, vm.avx512bw /\ Subword(n) /\ InBytes(n) > 8, 100,
         "vgather_masked_subwordGT8B_avx3", VEC),
    Rule(<<"MEMORY", "_BINARY_RREGP_KREG">>, vm.avx512bw /\ Subword(n) /\ InBytes(n) <= 8, 100,
         "vgather_masked_subwordLE8B_avx3", VEC),
    Rule(<<"MEMORY", "_BINARY_VEC_KREG">>, (vm.avx512vl \/ InBytes(n) = 64) /\ ~Subword(n), 100,
         "evgather_masked", VEC) >>

LoadVectorMasked(vm, n) == <<
    First(<<"MEMORY", "KREG">>, IsMask(Kid(n, 2)), 100, "vmasked_load_evex", VEC),
    Rule(<<"MEMORY", "VEC">>, ~IsMask(Kid(n, 2)), 100, "vmasked_load_avx_non_subword", VEC) >>

StoreVector(vm, n) == <<
    First(<<"MEMORY", "VEC">>, TRUE, 145, "storeV", One("UNIVERSE")),
    Rule(<<"MEMORY", "_VECTORCASTF2HF_VEC_">>, InBytes(Kid(n, 2)) >= 16, 100,
         "vconvF2HF_mem_reg", One("UNIVERSE")) >>

StoreVectorScatter(vm, n) == <<
    First(<<"MEMORY", "_BINARY_VEC_VEC">>, vm.UseAVX > 2, 100, "scatter", One("UNIVERSE")) >>

StoreVectorScatterMasked(vm, n) == <<
    First(<<"MEMORY", "_BINARY_VEC__BINARY_VEC_KREG">>, TRUE, 100, "scatter_masked",
          One("UNIVERSE")) >>

StoreVectorMasked(vm, n) == <<
    First(<<"MEMORY", "_BINARY_VEC_KREG">>, IsMask(Kid2(n, 2, 2)), 100, "vmasked_store_evex",
          One("UNIVERSE")),
    Rule(<<"MEMORY", "_BINARY_VEC_VEC">>, ~IsMask(Kid2(n, 2, 2)), 100,
         "vmasked_store_avx_non_subword", One("UNIVERSE")) >>

VerifyVectorAlignment(vm, n) == <<
    First(<<"RREGP", "IMML32">>, TRUE, 100, "verify_vector_alignment", RREGP) >>

Replicate_ReplD_zero(vm, n) == <<
    First(<<"IMMD0">>, Has(n, "double"), 100, "ReplD_zero", VEC),
    Rule(<<"IMMD">>, Has(n, "double"), 100, "ReplD_imm", VEC),
    Rule(<<"_LOADD_MEMORY_">>, vm.UseSSE >= 3 /\ Has(n, "double"), 100, "ReplD_mem", VEC),
    Rule(<<"VLREGD">>, vm.UseSSE < 3 /\ Has(n, "double"), 100, "ReplD_reg", VEC),
    Rule(<<"VLREGD">>, vm.UseSSE >= 3 /\ Has(n, "double"), 100, "vReplD_reg", VEC),
    Rule(<<"IMMF0">>, Has(n, "float"), 100, "ReplF_zero", VEC),
    Rule(<<"IMMF">>, Has(n, "float"), 100, "ReplF_imm", VEC),
    Rule(<<"_LOADF_MEMORY_">>, vm.UseAVX > 0 /\ Has(n, "float"), 100, "ReplF_mem", VEC),
    Rule(<<"VLREGF">>, vm.UseAVX = 0 /\ Has(n, "float"), 100, "ReplF_reg", VEC),
    Rule(<<"VLREGF">>, vm.UseAVX > 0 /\ Has(n, "float"), 100, "vReplF_reg", VEC) >>

Replicate_ReplL_M1(vm, n) == <<
    Rule(<<"IMML_M1">>, Has(n, "long"), 100, "ReplL_M1", VEC),
    Rule(<<"IMML0">>, Has(n, "long"), 100, "ReplL_zero", VEC),
    Rule(<<"IMML">>, Has(n, "long"), 100, "ReplL_imm", VEC),
    Rule(<<"_LOADL_MEMORY_">>, Has(n, "long"), 100, "ReplL_mem", VEC),
    Rule(<<"RREGL">>, Has(n, "long"), 100, "ReplL_reg", VEC),
    Rule(<<"IMMI_M1">>, Test(n, {"byte", "short", "int"}), 100, "ReplI_M1", VEC),
    Rule(<<"IMMI_0">>, Test(n, {"byte", "short", "int"}), 100, "ReplI_zero", VEC),
    Rule(<<"IMMI">>, Test(n, {"byte", "short", "int"}), 100, "ReplI_imm", VEC),
    Rule(<<"_LOADI_MEMORY_">>, Has(n, "int"), 100, "ReplI_mem", VEC),
    Rule(<<"RREGI">>, Has(n, "int"), 100, "ReplI_reg", VEC) >>

Replicate_ReplS_mem(vm, n) == <<
    Rule(<<"_LOADS_MEMORY_">>, vm.UseAVX >= 2 /\ Has(n, "short"), 100, "ReplS_mem", VEC),
    Rule(<<"REGF">>, vm.avx512_fp16 /\ Has(n, "short"), 100, "ReplHF_reg", VEC),
    Rule(<<"IMMH">>, TRUE, 100, "ReplHF_imm", VEC),
    Rule(<<"RREGI">>, Has(n, "short"), 100, "vReplS_reg", VEC),
    Rule(<<"_LOADB_MEMORY_">>, vm.UseAVX >= 2 /\ Has(n, "byte"), 100, "ReplB_mem", VEC),
    Rule(<<"RREGI">>, Has(n, "byte"), 100, "vReplB_reg", VEC) >>

Replicate(vm, n) ==
    Replicate_ReplD_zero(vm, n)
    \o Replicate_ReplL_M1(vm, n)
    \o Replicate_ReplS_mem(vm, n)

PopulateIndex(vm, n) == <<
    First(<<"RREGL", "IMMI_1">>, TRUE, 100, "VectorPopulateLIndex", VEC),
    Rule(<<"RREGI", "IMMI_1">>, TRUE, 100, "VectorPopulateIndex", VEC) >>

VectorLoadConst(vm, n) == << First(<<"IMMI_0">>, TRUE, 100, "loadIotaIndices", VEC) >>

ExtractB(vm, n) == <<
    First(<<"LEGVEC", "IMMI">>, InBytes(Kid(n, 1)) = 32 \/ InBytes(Kid(n, 1)) = 64, 100,
          "vextractI_1", RREGI),
    Rule(<<"LEGVEC", "IMMU8">>, InBytes(Kid(n, 1)) <= 16, 100, "extractI_1", RREGI) >>

ExtractS(vm, n) == <<
    First(<<"LEGVEC", "IMMI">>, InBytes(Kid(n, 1)) = 32 \/ InBytes(Kid(n, 1)) = 64, 100,
          "vextractI_0", RREGI),
    Rule(<<"LEGVEC", "IMMU8">>, InBytes(Kid(n, 1)) <= 16, 100, "extractI_0", RREGI) >>

ExtractI(vm, n) == <<
    First(<<"LEGVEC", "IMMI">>, InBytes(Kid(n, 1)) = 32 \/ InBytes(Kid(n, 1)) = 64, 100,
          "vextractI", RREGI),
    Rule(<<"LEGVEC", "IMMU8">>, InBytes(Kid(n, 1)) <= 16, 100, "extractI", RREGI) >>

ExtractL(vm, n) == <<
    First(<<"LEGVEC", "IMMU8">>, Lanes(Kid(n, 1)) = 4 \/ Lanes(Kid(n, 1)) = 8, 100, "vextractL",
          RREGL),
    Rule(<<"LEGVEC", "IMMU8">>, Lanes(Kid(n, 1)) <= 2, 100, "extractL", RREGL) >>

ExtractF(vm, n) == <<
    First(<<"LEGVEC", "IMMU8">>, Lanes(Kid(n, 1)) = 8 \/ Lanes(Kid(n, 1)) = 16, 100,
          "vextractF", LEGREGF),
    Rule(<<"LEGVEC", "IMMU8">>, Lanes(Kid(n, 1)) <= 4, 100, "extractF", LEGREGF) >>

ExtractD(vm, n) == <<
    First(<<"LEGVEC", "IMMU8">>, Lanes(Kid(n, 1)) = 4 \/ Lanes(Kid(n, 1)) = 8, 100, "vextractD",
          LEGREGD),
    Rule(<<"LEGVEC", "IMMU8">>, Lanes(Kid(n, 1)) = 2, 100, "extractD", LEGREGD) >>

VectorInsert_insert8D(vm, n) == <<
    First(<<"_BINARY_VEC_REGD", "IMMI">>, Lanes(n) = 8, 100, "insert8D", VEC),
    Rule(<<"_BINARY_VEC_REGD", "IMMU8">>, Lanes(n) = 4, 100, "insert4D", VEC),
    Rule(<<"_BINARY_VEC_REGD", "IMMU8">>, Lanes(n) = 2, 100, "insert2D", VEC),
    Rule(<<"_BINARY_VEC_REGF", "IMMU8">>, Lanes(n) >= 8, 100, "vinsertF", VEC),
    Rule(<<"_BINARY_VEC_REGF", "IMMU8">>, Lanes(n) < 8, 100, "insertF", VEC),
    Rule(<<"_BINARY_VEC_RREGL", "IMMU8">>, Lanes(n) = 8, 100, "insert8L", VEC),
    Rule(<<"_BINARY_VEC_RREGL", "IMMU8">>, Lanes(n) = 4, 100, "insert4L", VEC),
    Rule(<<"_BINARY_VEC_RREGL", "IMMU8">>, Lanes(n) = 2, 100, "insert2L", VEC),
    Rule(<<"_BINARY_VEC_RREGI", "IMMU8">>, InBytes(n) = 64, 100, "insert64", VEC),
    Rule(<<"_BINARY_VEC_RREGI", "IMMU8">>, InBytes(n) = 32, 100, "insert32", VEC) >>

VectorInsert_insert(vm, n) == <<
    Rule(<<"_BINARY_VEC_RREGI", "IMMU8">>, InBytes(n) < 32, 100, "insert", VEC) >>

VectorInsert(vm, n) ==
    VectorInsert_insert8D(vm, n)
    \o VectorInsert_insert(vm, n)

VectorBlend(vm, n) == <<
    First(<<"_BINARY_VEC_VEC", "KREG">>, IsMask(Kid(n, 2)) /\ (~Subword(n) \/ vm.avx512bw), 100,
          "evblendvp64_masked", VEC),
    Rule(<<"_BINARY_VEC_VEC", "VEC">>, InBytes(n) = 64 /\ ~IsMask(Kid(n, 2)), 100,
         "evblendvp64", VEC),
    Rule(<<"_BINARY_LEGVEC_LEGVEC", "LEGVEC">>,
         vm.UseAVX > 0 /\ vm.EnableX86ECoreOpts /\ ~IsMask(Kid(n, 2)) /\ InBytes(n) <= 32, 100,
         "vblendvp", LEGVEC),
    Rule(<<"_BINARY_LEGVEC_LEGVEC", "LEGVEC">>,
         vm.UseAVX > 0 /\ ~vm.EnableX86ECoreOpts /\ ~IsMask(Kid(n, 2)) /\ InBytes(n) <= 32
            /\ ~Integral(n), 100, "vblendvpFD", LEGVEC),
    Rule(<<"_BINARY_LEGVEC_LEGVEC", "LEGVEC">>,
         vm.UseAVX > 0 /\ ~vm.EnableX86ECoreOpts /\ ~IsMask(Kid(n, 2)) /\ InBytes(n) <= 32
            /\ Integral(n), 100, "vblendvpI", LEGVEC),
    Rule(<<"_BINARY_VEC_VEC", "VEC">>, vm.UseAVX = 0, 100, "blendvp", VEC) >>

VectorRearrange_vrearrangev_reg_masked(vm, n) == <<
    First(<<"_BINARY_VEC_VEC", "KREG">>, TRUE, 100, "vrearrangev_reg_masked", VEC),
    Rule(<<"VEC", "VEC">>, DoubleWord(n) /\ (Lanes(n) = 8 \/ vm.avx512vl), 100,
         "rearrangeL_evex", VEC),
    Rule(<<"VEC", "VEC">>, DoubleWord(n) /\ Lanes(n) < 8 /\ ~vm.avx512vl, 100, "rearrangeL",
         VEC),
    Rule(<<"VEC", "VEC">>, (Has(n, "int") \/ Has(n, "float")) /\ vm.UseAVX > 0, 100,
         "rearrangeI_avx", VEC),
    Rule(<<"VEC", "VEC">>, (Has(n, "int") \/ Has(n, "float")) /\ vm.UseAVX = 0, 100,
         "rearrangeI", VEC),
    Rule(<<"VEC", "VEC">>, Has(n, "short") /\ vm.avx512bw, 100, "rearrangeS_evex", VEC),
    Rule(<<"LEGVEC", "VEC">>, Has(n, "short") /\ Lanes(n) = 16 /\ ~vm.avx512bw, 100,
         "rearrangeS_avx", LEGVEC),
    Rule(<<"VEC", "VEC">>, Has(n, "short") /\ Lanes(n) <= 8 /\ ~vm.avx512bw, 100, "rearrangeS",
         VEC),
    Rule(<<"VEC", "VEC">>, Has(n, "byte") /\ Lanes(n) >= 32 /\ vm.avx512_vbmi, 100,
         "rearrangeB_evex_vbmi", VEC),
    Rule(<<"VEC", "VEC">>, Has(n, "byte") /\ Lanes(n) > 32 /\ ~vm.avx512_vbmi, 100,
         "rearrangeB_evex", VEC) >>

VectorRearrange_rearrangeB_avx(vm, n) == <<
    Rule(<<"LEGVEC", "VEC">>, Has(n, "byte") /\ Lanes(n) = 32 /\ ~vm.avx512_vbmi, 100,
         "rearrangeB_avx", LEGVEC),
    Rule(<<"VEC", "VEC">>, Has(n, "byte") /\ Lanes(n) < 32, 100, "rearrangeB", VEC) >>

VectorRearrange(vm, n) ==
    VectorRearrange_vrearrangev_reg_masked(vm, n)
    \o VectorRearrange_rearrangeB_avx(vm, n)

VectorLoadShuffle(vm, n) == <<
    First(<<"VEC">>, DoubleWord(n) /\ Lanes(n) < 8 /\ ~vm.avx512vl, 100, "loadShuffleL", VEC),
    Rule(<<"VEC">>, (Has(n, "int") \/ Has(n, "float")) /\ Lanes(n) = 4 /\ vm.UseAVX = 0, 100,
         "loadShuffleI", VEC),
    Rule(<<"VEC">>, Has(n, "short") /\ ~vm.avx512bw, 100, "loadShuffleS", VEC) >>

SelectFromTwoVector(vm, n) == <<
    First(<<"_BINARY_VEC_VEC", "VEC">>, TRUE, 100, "vector_selectfrom_twovectors_reg_evex", VEC) >>

CompressV(vm, n) == <<
    First(<<"VEC", "KREG">>, vm.avx512vl \/ InBytes(n) = 64, 100, "vcompress_expand_reg_evex",
          VEC),
    Rule(<<"VEC", "VEC">>, ~vm.avx512vl /\ InBytes(n) <= 32, 100, "vcompress_reg_avx", VEC) >>

ExpandV(vm, n) == <<
    First(<<"VEC", "KREG">>, vm.avx512vl \/ InBytes(n) = 64, 100, "vcompress_expand_reg_evex_0",
          VEC),
    Rule(<<"VEC", "VEC">>, ~vm.avx512vl /\ InBytes(n) <= 32, 100, "vcompress_reg_avx_0", VEC) >>

VectorReinterpret(vm, n) == <<
    Inner(<<"_LOADVECTOR_MEMORY_">>, "_VECTORREINTERPRET__LOADVECTOR_MEMORY__"),
    First(<<"LEGVEC">>, ~IsMask(n) /\ InBytes(Kid(n, 1)) > InBytes(n), 125,
          "reinterpret_shrink", VEC),
    Rule(<<"VEC">>,
         vm.UseAVX > 0 /\ ~IsMask(n) /\ InBytes(Kid(n, 1)) > 4
            /\ InBytes(Kid(n, 1)) < InBytes(n), 125, "vreinterpret_expand", LEGVEC),
    Rule(<<"VEC">>,
         vm.UseAVX > 0 /\ ~IsMask(n) /\ InBytes(Kid(n, 1)) = 4
            /\ InBytes(Kid(n, 1)) < InBytes(n), 125, "vreinterpret_expand4", LEGVEC),
    Rule(<<"VEC">>, vm.UseAVX = 0 /\ InBytes(Kid(n, 1)) < InBytes(n), 125, "reinterpret_expand",
         VEC),
    Rule(<<"VEC">>, ~IsMask(n) /\ InBytes(n) = InBytes(Kid(n, 1)), 125, "reinterpret", VEC),
    First(<<"KREG">>,
          vm.UseAVX > 2 /\ Lanes(n) # Lanes(Kid(n, 1)) /\ IsMask(n) /\ IsMask(Kid(n, 1))
             /\ (Has(Kid(n, 1), "long") \/ Has(Kid(n, 1), "double")) /\ Has(n, "byte"), 100,
          "reinterpret_mask_Q2B", One("KREG")),
    Rule(<<"KREG">>,
         vm.UseAVX > 2 /\ Lanes(n) # Lanes(Kid(n, 1)) /\ IsMask(n) /\ IsMask(Kid(n, 1))
            /\ (Has(Kid(n, 1), "int") \/ Has(Kid(n, 1), "float")) /\ Has(n, "byte"), 100,
         "reinterpret_mask_D2B", One("KREG")),
    Rule(<<"KREG">>,
         vm.UseAVX > 2 /\ Lanes(n) # Lanes(Kid(n, 1)) /\ IsMask(n) /\ IsMask(Kid(n, 1))
            /\ Has(Kid(n, 1), "short") /\ Has(n, "byte"), 100, "reinterpret_mask_W2B",
         One("KREG")),
    Rule(<<"KREG">>, IsMask(n) /\ Lanes(n) = Lanes(Kid(n, 1)), 125, "reinterpret_mask",
         One("KREG")) >>

VectorCastB2X(vm, n) == <<
    First(<<"LEGVEC">>, ~vm.avx512vl /\ Has(n, "double"), 100, "vcastBtoD", LEGVEC),
    Rule(<<"VEC">>, vm.avx512vl \/ ~Has(n, "double"), 100, "vcastBtoX", VEC) >>

VectorCastS2X(vm, n) == <<
    First(<<"VEC">>, (vm.UseAVX > 2 /\ vm.avx512vlbw) \/ InBytes(n) >= InBytes(Kid(n, 1)), 100,
          "vcastStoX_evex", VEC),
    Rule(<<"VEC">>,
         (vm.UseAVX <= 2 \/ ~vm.avx512vlbw) /\ Lanes(Kid(n, 1)) = 16 /\ Has(n, "byte"), 100,
         "vcastStoX", VEC),
    Rule(<<"VEC">>,
         (vm.UseAVX <= 2 \/ ~vm.avx512vlbw) /\ Lanes(Kid(n, 1)) <= 8 /\ Has(n, "byte"), 100,
         "castStoX", VEC) >>

VectorCastI2X(vm, n) == <<
    First(<<"VEC">>, vm.UseAVX > 2 \/ InBytes(n) >= InBytes(Kid(n, 1)), 100, "vcastItoX_evex",
          VEC),
    Rule(<<"VEC">>,
         vm.UseAVX <= 2 /\ InBytes(Kid(n, 1)) = 32 /\ InBytes(n) < InBytes(Kid(n, 1)), 100,
         "vcastItoX", VEC),
    Rule(<<"VEC">>,
         vm.UseAVX <= 2 /\ InBytes(Kid(n, 1)) <= 16 /\ InBytes(n) < InBytes(Kid(n, 1)), 100,
         "castItoX", VEC) >>

VectorCastL2X(vm, n) == <<
    First(<<"VEC">>, vm.UseAVX > 2 \/ (Has(n, "int") \/ Has(n, "float") \/ Has(n, "double")),
          100, "vcastLtoX_evex", VEC),
    Rule(<<"VEC">>, (Has(n, "byte") \/ Has(n, "short")) /\ vm.UseAVX <= 2, 100, "vcastLtoBS",
         VEC) >>

VectorCastF2X(vm, n) == <<
    First(<<"_LOADVECTOR_MEMORY_">>, vm.avx10_2 /\ Integral(n), 100, "castFtoX_mem_avx10_2",
          VEC),
    Rule(<<"VEC">>, vm.avx10_2 /\ Integral(n), 100, "castFtoX_reg_avx10_2", VEC),
    Rule(<<"VEC">>, ~vm.avx10_2 /\ (vm.avx512vl \/ InBytes(Kid(n, 1)) = 64) /\ Integral(n), 100,
         "castFtoX_reg_evex", VEC),
    Rule(<<"VEC">>,
         ~vm.avx10_2 /\ ~vm.avx512vl /\ InBytes(Kid(n, 1)) < 64 /\ ElementBytes(n) <= 4
            /\ Integral(n), 100, "castFtoX_reg_avx", VEC),
    Rule(<<"VEC">>, Has(n, "double"), 100, "vcastFtoD_reg", VEC) >>

VectorCastD2X(vm, n) == <<
    First(<<"_LOADVECTOR_MEMORY_">>, vm.avx10_2 /\ Integral(n), 100, "castDtoX_mem_avx10_2",
          VEC),
    Rule(<<"VEC">>, vm.avx10_2 /\ Integral(n), 100, "castDtoX_reg_avx10_2", VEC),
    Rule(<<"VEC">>, ~vm.avx10_2 /\ (vm.avx512vl \/ InBytes(Kid(n, 1)) = 64) /\ Integral(n), 100,
         "castDtoX_reg_evex", VEC),
    Rule(<<"VEC">>, ~vm.avx10_2 /\ ~vm.avx512vl /\ InBytes(Kid(n, 1)) < 64 /\ Integral(n), 100,
         "castDtoX_reg_avx", VEC),
    Rule(<<"VEC">>, Has(n, "float"), 100, "vcastDtoF_reg", VEC) >>

VectorCastF2HF(vm, n) == <<
    Inner(<<"VEC">>, "_VECTORCASTF2HF_VEC_"),
    First(<<"VEC">>, TRUE, 100, "vconvF2HF", VEC) >>

VectorCastHF2F(vm, n) == <<
    First(<<"VEC">>, TRUE, 125, "vconvHF2F", VEC),
    Rule(<<"_LOADVECTOR_MEMORY_">>, TRUE, 100, "vconvHF2F_reg_mem", VEC) >>

VectorUCastB2X(vm, n) == << First(<<"VEC">>, TRUE, 100, "vucast", VEC) >>

VectorUCastS2X(vm, n) == << First(<<"VEC">>, TRUE, 100, "vucast_0", VEC) >>

VectorUCastI2X(vm, n) == << First(<<"VEC">>, TRUE, 100, "vucast_1", VEC) >>

RegVectMask(vm, n) == << First(<<>>, TRUE, 0, "kReg", One("KREG")) >>

VectorMaskCmp(vm, n) == <<
    First(<<"_BINARY_VEC_VEC", "_BINARY_IMMI8_KREG">>, TRUE, 100, "evcmp_masked", One("KREG")),
    Rule(<<"_BINARY_VEC_VEC", "IMMI8">>, IsMask(n) /\ Integral(Kid2(n, 1, 1)), 100, "evcmp",
         One("KREG")),
    First(<<"_BINARY_VEC_VEC", "IMMI8">>,
          (~IsMask(n) /\ InBytes(Kid2(n, 1, 1)) = 64) /\ Integral(Kid2(n, 1, 1)), 100, "vcmp64",
          VEC),
    Rule(<<"_BINARY_LEGVEC_LEGVEC", "IMMI8">>,
         ~IsMask(n) /\ Has(Kid(n, 2), "unsigned") /\ InBytes(Kid2(n, 1, 1)) >= 4
            /\ InBytes(Kid2(n, 1, 1)) <= 32 /\ Integral(Kid2(n, 1, 1)), 100, "vcmpu", LEGVEC),
    Rule(<<"_BINARY_LEGVEC_LEGVEC", "IMMI8">>,
         ~IsMask(n) /\ ~Has(Kid(n, 2), "unsigned") /\ InBytes(Kid2(n, 1, 1)) >= 4
            /\ InBytes(Kid2(n, 1, 1)) <= 32 /\ Integral(Kid2(n, 1, 1))
            /\ Test(Kid(n, 2), {"ne", "le", "ge"}), 100, "vcmp_negate", LEGVEC),
    Rule(<<"_BINARY_LEGVEC_LEGVEC", "IMMI8">>,
         ~IsMask(n) /\ ~Has(Kid(n, 2), "unsigned") /\ InBytes(Kid2(n, 1, 1)) >= 4
            /\ InBytes(Kid2(n, 1, 1)) <= 32 /\ Integral(Kid2(n, 1, 1))
            /\ Test(Kid(n, 2), {"eq", "lt", "gt"}), 100, "vcmp_direct", LEGVEC),
    Rule(<<"_BINARY_VEC_VEC", "IMMI8">>, IsMask(n) /\ Floating(Kid2(n, 1, 1)), 100, "evcmpFD",
         One("KREG")),
    Rule(<<"_BINARY_VEC_VEC", "IMMI8">>,
         InBytes(Kid2(n, 1, 1)) = 64 /\ ~IsMask(n) /\ Floating(Kid2(n, 1, 1)), 100, "evcmpFD64",
         VEC),
    Rule(<<"_BINARY_LEGVEC_LEGVEC", "IMMI8">>,
         ~IsMask(n) /\ InBytes(Kid2(n, 1, 1)) >= 8 /\ InBytes(Kid2(n, 1, 1)) <= 32
            /\ Floating(Kid2(n, 1, 1)), 100, "vcmpFD", LEGVEC) >>

VectorCmpMasked(vm, n) == <<
    First(<<"VEC", "_BINARY_VEC_KREG">>, TRUE, 100, "vmask_cmp_node", RREGI) >>

VectorTest(vm, n) == <<
    First(<<"KREG", "KREG">>, Lanes(Kid(n, 1)) >= 16 \/ (Lanes(Kid(n, 1)) = 8 /\ vm.avx512dq),
          100, "ktest_ge8", One("RFLAGSREGU")),
    Rule(<<"KREG", "KREG">>,
         (Lanes(Kid(n, 1)) < 8 \/ (Lanes(Kid(n, 1)) = 8 /\ ~vm.avx512dq)) /\ Test(n, {"ne"}),
         100, "ktest_anytrue_le8", One("RFLAGSREGU")),
    Rule(<<"KREG", "KREG">>,
         (Lanes(Kid(n, 1)) < 8 \/ (Lanes(Kid(n, 1)) = 8 /\ ~vm.avx512dq))
            /\ Test(n, {"overflow"}), 100, "ktest_alltrue_le8", One("RFLAGSREGU")),
    Rule(<<"LEGVEC", "LEGVEC">>, InBytes(Kid(n, 1)) >= 16, 100, "vptest_ge16",
         One("RFLAGSREGU")),
    Rule(<<"LEGVEC", "LEGVEC">>, InBytes(Kid(n, 1)) < 16, 100, "vptest_lt16", One("RFLAGSREGU")) >>

VectorLoadMask(vm, n) == <<
    First(<<"VEC">>, IsMask(n) /\ vm.avx512vlbw, 100, "loadMask_evex", One("KREG")),
    Rule(<<"VEC">>, IsMask(n) /\ ~vm.avx512vlbw, 100, "loadMask64", One("KREG")),
    First(<<"LEGVEC">>, ~IsMask(n) /\ ~vm.avx512vlbw, 100, "loadMask", LEGVEC) >>

VectorStoreMask(vm, n) == <<
    Inner(<<"VEC", "IMMI">>, "_VECTORSTOREMASK_VEC_IMMI"),
    First(<<"KREG", "IMMI">>, IsMask(Kid(n, 1)) /\ vm.avx512vlbw, 100, "vstoreMask_evex", VEC),
    Rule(<<"KREG", "IMMI">>, IsMask(Kid(n, 1)) /\ ~vm.avx512vlbw, 100,
         "vstoreMask_evex_vectmask", VEC),
    Rule(<<"VEC", "IMMI_8">>, vm.UseAVX > 2 /\ ~IsMask(Kid(n, 1)), 100,
         "vstoreMask8B_evex_novectmask", VEC),
    Rule(<<"VEC", "IMMI_4">>, vm.UseAVX > 2 /\ ~IsMask(Kid(n, 1)), 100,
         "vstoreMask4B_evex_novectmask", VEC),
    Rule(<<"VEC", "IMMI_8">>, vm.UseAVX <= 2 /\ Lanes(n) = 4, 100, "storeMask8B_avx", VEC),
    Rule(<<"VEC", "IMMI_8">>, vm.UseAVX <= 2 /\ Lanes(n) = 2, 100, "storeMask8B", VEC),
    Rule(<<"VEC", "IMMI_4">>, vm.UseAVX <= 2 /\ Lanes(n) <= 8 /\ ~IsMask(Kid(n, 1)), 100,
         "vstoreMask4B", VEC),
    Rule(<<"VEC", "IMMI_2">>, Lanes(n) <= 16 /\ ~IsMask(Kid(n, 1)), 100, "vstoreMask2B", VEC),
    Rule(<<"VEC", "IMMI_1">>, Lanes(n) < 64 /\ ~IsMask(Kid(n, 1)), 100, "vstoreMask1B", VEC) >>

VectorMaskCast(vm, n) == <<
    First(<<"VEC">>, InBytes(n) # InBytes(Kid(n, 1)), 100, "vmaskcast_avx", VEC),
    Rule(<<"VEC">>, InBytes(n) = InBytes(Kid(n, 1)), 0, "vmaskcast", VEC),
    First(<<"KREG">>, TRUE, 0, "vmaskcast_evex", One("KREG")) >>

VectorMaskGen(vm, n) == <<
    First(<<"IMML">>, TRUE, 100, "vmask_gen_imm", One("KREG")),
    Rule(<<"RREGL">>, TRUE, 100, "vmask_gen", One("KREG")) >>

VectorMaskTrueCount(vm, n) == <<
    First(<<"_VECTORSTOREMASK_VEC_IMMI">>, ~IsMask(Kid2(n, 1, 1)), 100, "vmask_truecount_avx",
          RREGI),
    Rule(<<"VEC">>, ~IsMask(Kid(n, 1)), 100, "vmask_truecount_bool", RREGI),
    Rule(<<"KREG">>, IsMask(Kid(n, 1)), 100, "vmask_truecount_evex", RREGI) >>

VectorMaskFirstTrue(vm, n) == <<
    First(<<"_VECTORSTOREMASK_VEC_IMMI">>, ~IsMask(Kid2(n, 1, 1)), 100,
          "vmask_first_or_last_true_avx", RREGI),
    Rule(<<"VEC">>, ~IsMask(Kid(n, 1)), 100, "vmask_first_or_last_true_bool", RREGI),
    Rule(<<"KREG">>, IsMask(Kid(n, 1)), 100, "vmask_first_or_last_true_evex", RREGI) >>

VectorMaskLastTrue(vm, n) == <<
    First(<<"_VECTORSTOREMASK_VEC_IMMI">>, ~IsMask(Kid2(n, 1, 1)), 100,
          "vmask_first_or_last_true_avx_0", RREGI),
    Rule(<<"VEC">>, ~IsMask(Kid(n, 1)), 100, "vmask_first_or_last_true_bool_0", RREGI),
    Rule(<<"KREG">>, IsMask(Kid(n, 1)), 100, "vmask_first_or_last_true_evex_0", RREGI) >>

VectorMaskToLong(vm, n) == <<
    First(<<"_VECTORSTOREMASK_VEC_IMMI">>, ~IsMask(Kid2(n, 1, 1)), 100, "vmask_tolong_avx",
          RREGL),
    Rule(<<"VEC">>, ~IsMask(Kid(n, 1)), 100, "vmask_tolong_bool", RREGL),
    Rule(<<"KREG">>, IsMask(Kid(n, 1)), 100, "vmask_tolong_evex", RREGL) >>

VectorLongToMask(vm, n) == <<
    First(<<"RREGL">>, IsMask(n), 100, "long_to_mask_evex", One("KREG")),
    First(<<"RREGL">>, ~IsMask(n) /\ Lanes(n) > 8, 100, "long_to_maskGT8_avx", VEC),
    Rule(<<"RREGL">>, ~IsMask(n) /\ Lanes(n) <= 8, 100, "long_to_maskLE8_avx", VEC) >>

MaskAll(vm, n) == <<
    Inner(<<"IMMI_M1">>, "_MASKALL_IMMI_M1_"),
    First(<<"RREGI">>, Lanes(n) <= 32, 100, "mask_all_evexI_LE32", One("KREG")),
    Rule(<<"RREGI">>, Lanes(n) > 32, 100, "mask_all_evexI_GT32", One("KREG")),
    Rule(<<"RREGL">>, TRUE, 100, "mask_all_evexL", One("KREG")) >>

CompressM(vm, n) == << First(<<"KREG">>, TRUE, 100, "vcompress_mask_reg_evex", One("KREG")) >>

AndVMask(vm, n) == << First(<<"KREG", "KREG">>, TRUE, 100, "mask_opers_evex", One("KREG")) >>

OrVMask(vm, n) == << First(<<"KREG", "KREG">>, TRUE, 100, "mask_opers_evex_0", One("KREG")) >>

XorVMask(vm, n) == <<
    First(<<"KREG", "KREG">>, TRUE, 100, "mask_opers_evex_1", One("KREG")),
    Rule(<<"KREG", "_MASKALL_IMMI_M1_">>,
         (Lanes(n) = 8 /\ vm.avx512dq) \/ Lanes(n) = 16 \/ (Lanes(n) > 16 /\ vm.avx512bw), 100,
         "mask_not_imm", One("KREG")),
    Rule(<<"KREG", "_MASKALL_IMMI_M1_">>, Lanes(n) < 8 /\ vm.avx512dq, 100, "mask_not_immLT8",
         One("KREG")) >>
=============================================================================
