---------------------------- MODULE DFAVectorBits ---------------------------
(***************************************************************************)
(* Bitwise vector operations, shifts, and counting bits.                   *)
(***************************************************************************)
EXTENDS DFAOperands
-----------------------------------------------------------------------------
AndV(vm, n) == <<
    First(<<"_BINARY_VEC__LOADVECTOR_MEMORY_", "KREG">>, TRUE, 100, "vand_mem_masked", VEC),
    Rule(<<"_BINARY_VEC_VEC", "KREG">>, TRUE, 100, "vand_reg_masked", VEC),
    Rule(<<"_LOADVECTOR_MEMORY_", "VEC">>, vm.UseAVX > 0 /\ InBytes(Kid(n, 1)) > 8, 100,
         "vand_mem_0", VEC),
    Rule(<<"VEC", "_LOADVECTOR_MEMORY_">>, vm.UseAVX > 0 /\ InBytes(Kid(n, 1)) > 8, 100,
         "vand_mem", VEC),
    Rule(<<"VEC", "VEC">>, vm.UseAVX > 0, 100, "vand_reg", VEC),
    Rule(<<"VEC", "VEC">>, vm.UseAVX = 0, 100, "vand", VEC) >>

OrV(vm, n) == <<
    First(<<"_BINARY_VEC__LOADVECTOR_MEMORY_", "KREG">>, TRUE, 100, "vor_mem_masked", VEC),
    Rule(<<"_BINARY_VEC_VEC", "KREG">>, TRUE, 100, "vor_reg_masked", VEC),
    Rule(<<"_LOADVECTOR_MEMORY_", "VEC">>, vm.UseAVX > 0 /\ InBytes(Kid(n, 1)) > 8, 100,
         "vor_mem_0", VEC),
    Rule(<<"VEC", "_LOADVECTOR_MEMORY_">>, vm.UseAVX > 0 /\ InBytes(Kid(n, 1)) > 8, 100,
         "vor_mem", VEC),
    Rule(<<"VEC", "VEC">>, vm.UseAVX > 0, 100, "vor_reg", VEC),
    Rule(<<"VEC", "VEC">>, vm.UseAVX = 0, 100, "vor", VEC) >>

XorV(vm, n) == <<
    First(<<"_BINARY_VEC__LOADVECTOR_MEMORY_", "KREG">>, TRUE, 100, "vxor_mem_masked", VEC),
    Rule(<<"_BINARY_VEC_VEC", "KREG">>, TRUE, 100, "vxor_reg_masked", VEC),
    Rule(<<"_LOADVECTOR_MEMORY_", "VEC">>, vm.UseAVX > 0 /\ InBytes(Kid(n, 1)) > 8, 100,
         "vxor_mem_0", VEC),
    Rule(<<"VEC", "_LOADVECTOR_MEMORY_">>, vm.UseAVX > 0 /\ InBytes(Kid(n, 1)) > 8, 100,
         "vxor_mem", VEC),
    Rule(<<"VEC", "VEC">>, vm.UseAVX > 0, 100, "vxor_reg", VEC),
    Rule(<<"VEC", "VEC">>, vm.UseAVX = 0, 100, "vxor", VEC) >>

MacroLogicV(vm, n) == <<
    First(<<"VEC", "_BINARY_VEC__BINARY_MEMORY__BINARY_IMMU8_KREG">>, TRUE, 100,
          "vternlogd_mem_masked", VEC),
    Rule(<<"VEC", "_BINARY_VEC__BINARY_VEC__BINARY_IMMU8_KREG">>, TRUE, 100,
         "vternlog_reg_masked", VEC),
    Rule(<<"_BINARY_VEC_VEC", "_BINARY__LOADVECTOR_MEMORY__IMMU8">>, InBytes(Kid2(n, 1, 1)) > 8,
         100, "vpternlog_mem", VEC),
    Rule(<<"_BINARY_VEC_VEC", "_BINARY_VEC_IMMU8">>, TRUE, 100, "vpternlog", VEC) >>

LShiftCntV(vm, n) == <<
    Inner(<<"IMMI8">>, "_LSHIFTCNTV_IMMI8_"),
    First(<<"RREGI">>, TRUE, 100, "vshiftcnt", VEC) >>

RShiftCntV(vm, n) == <<
    Inner(<<"IMMI8">>, "_RSHIFTCNTV_IMMI8_"),
    First(<<"RREGI">>, TRUE, 100, "vshiftcnt_0", VEC) >>

LShiftVB(vm, n) == <<
    First(<<"VEC", "VEC">>, Lanes(n) = 64 /\ Has(n, "var") /\ vm.avx512bw, 100,
          "vshift64B_var_evex_bw", VEC),
    Rule(<<"VEC", "VEC">>, Lanes(n) <= 32 /\ Has(n, "var") /\ vm.avx512bw, 100,
         "vshiftB_var_evex_bw", VEC),
    Rule(<<"VEC", "VEC">>, Lanes(n) = 32 /\ Has(n, "var") /\ ~vm.avx512bw, 100,
         "vshift32B_var_nobw", VEC),
    Rule(<<"VEC", "VEC">>, Lanes(n) = 16 /\ Has(n, "var") /\ ~vm.avx512bw, 100,
         "vshift16B_var_nobw", VEC),
    Rule(<<"VEC", "VEC">>, Lanes(n) <= 8 /\ Has(n, "var") /\ ~vm.avx512bw, 100,
         "vshift8B_var_nobw", VEC),
    Rule(<<"VEC", "VEC">>, Lanes(n) = 64 /\ ~Has(n, "var"), 100, "vshift64B_avx", VEC),
    Rule(<<"VEC", "VEC">>, Lanes(n) = 32 /\ ~Has(n, "var"), 100, "vshift32B_avx", VEC),
    Rule(<<"VEC", "VEC">>, Lanes(n) = 16 /\ ~Has(n, "var") /\ vm.UseAVX > 1, 100,
         "vshift16B_avx", VEC),
    Rule(<<"VEC", "VEC">>, Lanes(n) = 16 /\ ~Has(n, "var") /\ vm.UseAVX <= 1, 100, "vshift16B",
         VEC),
    Rule(<<"VEC", "VEC">>, Lanes(n) <= 8 /\ ~Has(n, "var"), 100, "vshiftB", VEC) >>

LShiftVS(vm, n) == <<
    First(<<"_BINARY_VEC_VEC", "KREG">>, Has(n, "var"), 100, "vlshiftv_reg_masked", VEC),
    Rule(<<"_BINARY_VEC_VEC", "KREG">>, ~Has(n, "var"), 100, "vlshift_reg_masked", VEC),
    Rule(<<"_BINARY_VEC__LSHIFTCNTV_IMMI8_", "KREG">>, TRUE, 100, "vlshift_imm_masked", VEC),
    Rule(<<"VEC", "VEC">>, Has(n, "var") /\ vm.avx512bw, 100, "vshift16S_var_evex_bw", VEC),
    Rule(<<"VEC", "VEC">>, Lanes(n) = 16 /\ Has(n, "var") /\ ~vm.avx512bw, 100,
         "vshift16S_var_nobw", VEC),
    Rule(<<"VEC", "VEC">>, Lanes(n) <= 8 /\ Has(n, "var") /\ ~vm.avx512bw, 100,
         "vshift8S_var_nobw", VEC),
    Rule(<<"VEC", "VEC">>, ~Has(n, "var"), 100, "vshiftS", VEC) >>

LShiftVI(vm, n) == <<
    First(<<"_BINARY_VEC_VEC", "KREG">>, Has(n, "var"), 100, "vlshiftv_reg_masked_0", VEC),
    Rule(<<"_BINARY_VEC_VEC", "KREG">>, ~Has(n, "var"), 100, "vlshift_reg_masked_0", VEC),
    Rule(<<"_BINARY_VEC__LSHIFTCNTV_IMMI8_", "KREG">>, TRUE, 100, "vlshift_imm_masked_0", VEC),
    Rule(<<"VEC", "VEC">>, Has(n, "var"), 100, "vshiftI_var", VEC),
    Rule(<<"VEC", "_LSHIFTCNTV_IMMI8_">>, TRUE, 100, "vshiftI_imm", VEC),
    Rule(<<"VEC", "VEC">>, ~Has(n, "var"), 100, "vshiftI", VEC) >>

LShiftVL(vm, n) == <<
    First(<<"_BINARY_VEC_VEC", "KREG">>, Has(n, "var"), 100, "vlshiftv_reg_masked_1", VEC),
    Rule(<<"_BINARY_VEC_VEC", "KREG">>, ~Has(n, "var"), 100, "vlshift_reg_masked_1", VEC),
    Rule(<<"_BINARY_VEC__LSHIFTCNTV_IMMI8_", "KREG">>, TRUE, 100, "vlshift_imm_masked_1", VEC),
    Rule(<<"VEC", "VEC">>, Has(n, "var"), 100, "vshiftL_var", VEC),
    Rule(<<"VEC", "_LSHIFTCNTV_IMMI8_">>, TRUE, 100, "vshiftL_imm", VEC),
    Rule(<<"VEC", "VEC">>, ~Has(n, "var"), 100, "vshiftL", VEC) >>

RShiftVB(vm, n) == <<
    First(<<"VEC", "VEC">>, Lanes(n) = 64 /\ Has(n, "var") /\ vm.avx512bw, 100,
          "vshift64B_var_evex_bw_0", VEC),
    Rule(<<"VEC", "VEC">>, Lanes(n) <= 32 /\ Has(n, "var") /\ vm.avx512bw, 100,
         "vshiftB_var_evex_bw_0", VEC),
    Rule(<<"VEC", "VEC">>, Lanes(n) = 32 /\ Has(n, "var") /\ ~vm.avx512bw, 100,
         "vshift32B_var_nobw_0", VEC),
    Rule(<<"VEC", "VEC">>, Lanes(n) = 16 /\ Has(n, "var") /\ ~vm.avx512bw, 100,
         "vshift16B_var_nobw_0", VEC),
    Rule(<<"VEC", "VEC">>, Lanes(n) <= 8 /\ Has(n, "var") /\ ~vm.avx512bw, 100,
         "vshift8B_var_nobw_0", VEC),
    Rule(<<"VEC", "VEC">>, Lanes(n) = 64 /\ ~Has(n, "var"), 100, "vshift64B_avx_0", VEC),
    Rule(<<"VEC", "VEC">>, Lanes(n) = 32 /\ ~Has(n, "var"), 100, "vshift32B_avx_0", VEC),
    Rule(<<"VEC", "VEC">>, Lanes(n) = 16 /\ ~Has(n, "var") /\ vm.UseAVX > 1, 100,
         "vshift16B_avx_0", VEC),
    Rule(<<"VEC", "VEC">>, Lanes(n) = 16 /\ ~Has(n, "var") /\ vm.UseAVX <= 1, 100,
         "vshift16B_0", VEC),
    Rule(<<"VEC", "VEC">>, Lanes(n) <= 8 /\ ~Has(n, "var"), 100, "vshiftB_0", VEC) >>

RShiftVS(vm, n) == <<
    First(<<"_BINARY_VEC_VEC", "KREG">>, Has(n, "var"), 100, "vrshiftv_reg_masked", VEC),
    Rule(<<"_BINARY_VEC_VEC", "KREG">>, ~Has(n, "var"), 100, "vrshift_reg_masked", VEC),
    Rule(<<"_BINARY_VEC__RSHIFTCNTV_IMMI8_", "KREG">>, TRUE, 100, "vrshift_imm_masked", VEC),
    Rule(<<"VEC", "VEC">>, Has(n, "var") /\ vm.avx512bw, 100, "vshift16S_var_evex_bw_0", VEC),
    Rule(<<"VEC", "VEC">>, Lanes(n) = 16 /\ Has(n, "var") /\ ~vm.avx512bw, 100,
         "vshift16S_var_nobw_0", VEC),
    Rule(<<"VEC", "VEC">>, Lanes(n) <= 8 /\ Has(n, "var") /\ ~vm.avx512bw, 100,
         "vshift8S_var_nobw_0", VEC),
    Rule(<<"VEC", "VEC">>, ~Has(n, "var"), 100, "vshiftS_0", VEC) >>

RShiftVI(vm, n) == <<
    First(<<"_BINARY_VEC_VEC", "KREG">>, Has(n, "var"), 100, "vrshiftv_reg_masked_0", VEC),
    Rule(<<"_BINARY_VEC_VEC", "KREG">>, ~Has(n, "var"), 100, "vrshift_reg_masked_0", VEC),
    Rule(<<"_BINARY_VEC__RSHIFTCNTV_IMMI8_", "KREG">>, TRUE, 100, "vrshift_imm_masked_0", VEC),
    Rule(<<"VEC", "VEC">>, Has(n, "var"), 100, "vshiftI_var_0", VEC),
    Rule(<<"VEC", "_RSHIFTCNTV_IMMI8_">>, TRUE, 100, "vshiftI_imm_0", VEC),
    Rule(<<"VEC", "VEC">>, ~Has(n, "var"), 100, "vshiftI_0", VEC) >>

RShiftVL(vm, n) == <<
    First(<<"_BINARY_VEC_VEC", "KREG">>, Has(n, "var"), 100, "vrshiftv_reg_masked_1", VEC),
    Rule(<<"_BINARY_VEC_VEC", "KREG">>, ~Has(n, "var"), 100, "vrshift_reg_masked_1", VEC),
    Rule(<<"_BINARY_VEC__RSHIFTCNTV_IMMI8_", "KREG">>, TRUE, 100, "vrshift_imm_masked_1", VEC),
    Rule(<<"VEC", "VEC">>, Has(n, "var") /\ vm.UseAVX > 2, 100, "vshiftL_arith_var_evex", VEC),
    Rule(<<"VEC", "VEC">>, Lanes(n) <= 4 /\ Has(n, "var") /\ vm.UseAVX = 2, 100,
         "vshiftL_arith_var", VEC),
    Rule(<<"VEC", "VEC">>, ~Has(n, "var") /\ vm.UseAVX > 2, 100, "vshiftL_arith_reg_evex", VEC),
    Rule(<<"VEC", "VEC">>, ~Has(n, "var") /\ vm.UseAVX <= 2, 100, "vshiftL_arith_reg", VEC) >>

URShiftVB(vm, n) == <<
    First(<<"VEC", "VEC">>, Lanes(n) = 64 /\ Has(n, "var") /\ vm.avx512bw, 100,
          "vshift64B_var_evex_bw_1", VEC),
    Rule(<<"VEC", "VEC">>, Lanes(n) <= 32 /\ Has(n, "var") /\ vm.avx512bw, 100,
         "vshiftB_var_evex_bw_1", VEC),
    Rule(<<"VEC", "VEC">>, Lanes(n) = 32 /\ Has(n, "var") /\ ~vm.avx512bw, 100,
         "vshift32B_var_nobw_1", VEC),
    Rule(<<"VEC", "VEC">>, Lanes(n) = 16 /\ Has(n, "var") /\ ~vm.avx512bw, 100,
         "vshift16B_var_nobw_1", VEC),
    Rule(<<"VEC", "VEC">>, Lanes(n) <= 8 /\ Has(n, "var") /\ ~vm.avx512bw, 100,
         "vshift8B_var_nobw_1", VEC),
    Rule(<<"VEC", "VEC">>, Lanes(n) = 64 /\ ~Has(n, "var"), 100, "vshift64B_avx_1", VEC),
    Rule(<<"VEC", "VEC">>, Lanes(n) = 32 /\ ~Has(n, "var"), 100, "vshift32B_avx_1", VEC),
    Rule(<<"VEC", "VEC">>, Lanes(n) = 16 /\ ~Has(n, "var") /\ vm.UseAVX > 1, 100,
         "vshift16B_avx_1", VEC),
    Rule(<<"VEC", "VEC">>, Lanes(n) = 16 /\ ~Has(n, "var") /\ vm.UseAVX <= 1, 100,
         "vshift16B_1", VEC),
    Rule(<<"VEC", "VEC">>, Lanes(n) <= 8 /\ ~Has(n, "var"), 100, "vshiftB_1", VEC) >>

URShiftVS(vm, n) == <<
    First(<<"_BINARY_VEC_VEC", "KREG">>, Has(n, "var"), 100, "vurshiftv_reg_masked", VEC),
    Rule(<<"_BINARY_VEC_VEC", "KREG">>, ~Has(n, "var"), 100, "vurshift_reg_masked", VEC),
    Rule(<<"_BINARY_VEC__RSHIFTCNTV_IMMI8_", "KREG">>, TRUE, 100, "vurshift_imm_masked", VEC),
    Rule(<<"VEC", "VEC">>, Has(n, "var") /\ vm.avx512bw, 100, "vshift16S_var_evex_bw_1", VEC),
    Rule(<<"VEC", "VEC">>, Lanes(n) = 16 /\ Has(n, "var") /\ ~vm.avx512bw, 100,
         "vshift16S_var_nobw_1", VEC),
    Rule(<<"VEC", "VEC">>, Lanes(n) <= 8 /\ Has(n, "var") /\ ~vm.avx512bw, 100,
         "vshift8S_var_nobw_1", VEC),
    Rule(<<"VEC", "VEC">>, ~Has(n, "var"), 100, "vshiftS_1", VEC) >>

URShiftVI(vm, n) == <<
    First(<<"_BINARY_VEC_VEC", "KREG">>, Has(n, "var"), 100, "vurshiftv_reg_masked_0", VEC),
    Rule(<<"_BINARY_VEC_VEC", "KREG">>, ~Has(n, "var"), 100, "vurshift_reg_masked_0", VEC),
    Rule(<<"_BINARY_VEC__RSHIFTCNTV_IMMI8_", "KREG">>, TRUE, 100, "vurshift_imm_masked_0", VEC),
    Rule(<<"VEC", "VEC">>, Has(n, "var"), 100, "vshiftI_var_1", VEC),
    Rule(<<"VEC", "_RSHIFTCNTV_IMMI8_">>, TRUE, 100, "vshiftI_imm_1", VEC),
    Rule(<<"VEC", "VEC">>, ~Has(n, "var"), 100, "vshiftI_1", VEC) >>

URShiftVL(vm, n) == <<
    First(<<"_BINARY_VEC_VEC", "KREG">>, Has(n, "var"), 100, "vurshiftv_reg_masked_1", VEC),
    Rule(<<"_BINARY_VEC_VEC", "KREG">>, ~Has(n, "var"), 100, "vurshift_reg_masked_1", VEC),
    Rule(<<"_BINARY_VEC__RSHIFTCNTV_IMMI8_", "KREG">>, TRUE, 100, "vurshift_imm_masked_1", VEC),
    Rule(<<"VEC", "VEC">>, Has(n, "var"), 100, "vshiftL_var_0", VEC),
    Rule(<<"VEC", "_RSHIFTCNTV_IMMI8_">>, TRUE, 100, "vshiftL_imm_0", VEC),
    Rule(<<"VEC", "VEC">>, ~Has(n, "var"), 100, "vshiftL_0", VEC) >>

RotateLeftV(vm, n) == <<
    First(<<"_BINARY_VEC_VEC", "KREG">>, TRUE, 100, "vrol_reg_masked", VEC),
    Rule(<<"_BINARY_VEC_IMMI8", "KREG">>, TRUE, 100, "vrol_imm_masked", VEC),
    Rule(<<"VEC", "VEC">>, TRUE, 100, "vprorate", VEC),
    Rule(<<"VEC", "IMMI8">>, TRUE, 100, "vprotate_immI8", VEC) >>

RotateRightV(vm, n) == <<
    First(<<"_BINARY_VEC_VEC", "KREG">>, TRUE, 100, "vrol_reg_masked_0", VEC),
    Rule(<<"_BINARY_VEC_IMMI8", "KREG">>, TRUE, 100, "vrol_imm_masked_0", VEC),
    Rule(<<"VEC", "VEC">>, TRUE, 100, "vprorate_0", VEC),
    Rule(<<"VEC", "IMMI8">>, TRUE, 100, "vprotate_immI8_0", VEC) >>

PopCountVI(vm, n) == <<
    First(<<"VEC">>, ~HasVectorPopCount(vm, Kid(n, 1)), 100, "vpopcount_avx_reg", VEC),
    Rule(<<"VEC", "KREG">>, HasVectorPopCount(vm, Kid(n, 1)), 100,
         "vpopcount_integral_reg_evex_masked", VEC),
    Rule(<<"VEC">>, HasVectorPopCount(vm, Kid(n, 1)), 100, "vpopcount_integral_reg_evex", VEC) >>

PopCountVL(vm, n) == <<
    First(<<"VEC">>, ~HasVectorPopCount(vm, Kid(n, 1)), 100, "vpopcount_avx_reg_0", VEC),
    Rule(<<"VEC", "KREG">>, HasVectorPopCount(vm, Kid(n, 1)), 100,
         "vpopcount_integral_reg_evex_masked_0", VEC),
    Rule(<<"VEC">>, HasVectorPopCount(vm, Kid(n, 1)), 100, "vpopcount_integral_reg_evex_0", VEC) >>

CountLeadingZerosV(vm, n) == <<
    First(<<"VEC">>, ~Has(Kid(n, 1), "int") /\ ~vm.avx512vl /\ InBytes(Kid(n, 1)) < 64, 100,
          "vcount_leading_zeros_reg_avx", VEC),
    Rule(<<"VEC">>, Has(Kid(n, 1), "int") /\ ~vm.avx512vl /\ InBytes(Kid(n, 1)) < 64, 100,
         "vcount_leading_zeros_int_reg_avx", VEC),
    Rule(<<"VEC">>, Has(Kid(n, 1), "byte") /\ vm.avx512vlbw, 100,
         "vcount_leading_zeros_byte_reg_evex", VEC),
    Rule(<<"VEC">>, Has(Kid(n, 1), "short") /\ vm.avx512cd /\ (vm.avx512vl \/ InBytes(n) = 64),
         100, "vcount_leading_zeros_short_reg_evex", VEC),
    Rule(<<"VEC", "KREG">>, HasVectorClz(vm, Kid(n, 1)), 100,
         "vcount_leading_zeros_IL_reg_evex_masked", VEC),
    Rule(<<"VEC">>, HasVectorClz(vm, Kid(n, 1)), 100, "vcount_leading_zeros_IL_reg_evex", VEC) >>

CountTrailingZerosV(vm, n) == <<
    First(<<"VEC">>, ~vm.avx512vl /\ InBytes(Kid(n, 1)) < 64, 100,
          "vcount_trailing_zeros_reg_avx", VEC),
    Rule(<<"VEC">>, Has(Kid(n, 1), "byte") /\ vm.avx512vlbw, 400,
         "vcount_trailing_zeros_byte_reg_evex", VEC),
    Rule(<<"VEC">>, Has(Kid(n, 1), "short") /\ vm.avx512cd /\ (vm.avx512vl \/ InBytes(n) = 64),
         400, "vcount_trailing_zeros_short_reg_evex", VEC),
    Rule(<<"VEC">>, HasVectorClz(vm, Kid(n, 1)), 400, "vcount_trailing_zeros_reg_evex", VEC) >>

ReverseV(vm, n) == <<
    First(<<"VEC">>, vm.gfni, 100, "vreverse_reg_gfni", VEC),
    Rule(<<"VEC">>, ~vm.gfni, 100, "vreverse_reg", VEC) >>

ReverseBytesV(vm, n) == <<
    First(<<"VEC">>, ~vm.avx512bw /\ InBytes(n) = 64, 100, "vreverse_byte64_reg", VEC),
    Rule(<<"VEC">>, vm.avx512bw \/ InBytes(n) < 64, 100, "vreverse_byte_reg", VEC) >>
=============================================================================
