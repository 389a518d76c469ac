------------------------------ MODULE DFAVector -----------------------------
(***************************************************************************)
(* Vector arithmetic.  A masked operation has the mask as its second kid   *)
(* and its operands in a Binary.                                           *)
(***************************************************************************)
EXTENDS DFAOperands
-----------------------------------------------------------------------------
AddVB(vm, n) == <<
    First(<<"_BINARY_VEC__LOADVECTOR_MEMORY_", "KREG">>, TRUE, 100, "vadd_mem_masked", VEC),
    Rule(<<"_BINARY_VEC_VEC", "KREG">>, TRUE, 100, "vadd_reg_masked", VEC),
    Rule(<<"_LOADVECTOR_MEMORY_", "VEC">>, vm.UseAVX > 0 /\ InBytes(Kid(n, 1)) > 8, 100,
         "vaddB_mem_0", VEC),
    Rule(<<"VEC", "_LOADVECTOR_MEMORY_">>, vm.UseAVX > 0 /\ InBytes(Kid(n, 1)) > 8, 100,
         "vaddB_mem", VEC),
    Rule(<<"VEC", "VEC">>, vm.UseAVX > 0, 100, "vaddB_reg", VEC),
    Rule(<<"VEC", "VEC">>, vm.UseAVX = 0, 100, "vaddB", VEC) >>

AddVS(vm, n) == <<
    First(<<"_BINARY_VEC__LOADVECTOR_MEMORY_", "KREG">>, TRUE, 100, "vadd_mem_masked_0", VEC),
    Rule(<<"_BINARY_VEC_VEC", "KREG">>, TRUE, 100, "vadd_reg_masked_0", VEC),
    Rule(<<"_LOADVECTOR_MEMORY_", "VEC">>, vm.UseAVX > 0 /\ InBytes(Kid(n, 1)) > 8, 100,
         "vaddS_mem_0", VEC),
    Rule(<<"VEC", "_LOADVECTOR_MEMORY_">>, vm.UseAVX > 0 /\ InBytes(Kid(n, 1)) > 8, 100,
         "vaddS_mem", VEC),
    Rule(<<"VEC", "VEC">>, vm.UseAVX > 0, 100, "vaddS_reg", VEC),
    Rule(<<"VEC", "VEC">>, vm.UseAVX = 0, 100, "vaddS", VEC) >>

AddVI(vm, n) == <<
    First(<<"_BINARY_VEC__LOADVECTOR_MEMORY_", "KREG">>, TRUE, 100, "vadd_mem_masked_1", VEC),
    Rule(<<"_BINARY_VEC_VEC", "KREG">>, TRUE, 100, "vadd_reg_masked_1", VEC),
    Rule(<<"VEC", "_MULADDVS2VI_VEC_VEC">>, vm.avx512_vnni, 10, "vmuladdaddS2I_reg_0", VEC),
    Rule(<<"_MULADDVS2VI_VEC_VEC", "VEC">>, vm.avx512_vnni, 10, "vmuladdaddS2I_reg", VEC),
    Rule(<<"_LOADVECTOR_MEMORY_", "VEC">>, vm.UseAVX > 0 /\ InBytes(Kid(n, 1)) > 8, 100,
         "vaddI_mem_0", VEC),
    Rule(<<"VEC", "_LOADVECTOR_MEMORY_">>, vm.UseAVX > 0 /\ InBytes(Kid(n, 1)) > 8, 100,
         "vaddI_mem", VEC),
    Rule(<<"VEC", "VEC">>, vm.UseAVX > 0, 100, "vaddI_reg", VEC),
    Rule(<<"VEC", "VEC">>, vm.UseAVX = 0, 100, "vaddI", VEC) >>

AddVL(vm, n) == <<
    First(<<"_BINARY_VEC__LOADVECTOR_MEMORY_", "KREG">>, TRUE, 100, "vadd_mem_masked_2", VEC),
    Rule(<<"_BINARY_VEC_VEC", "KREG">>, TRUE, 100, "vadd_reg_masked_2", VEC),
    Rule(<<"_LOADVECTOR_MEMORY_", "VEC">>, vm.UseAVX > 0 /\ InBytes(Kid(n, 1)) > 8, 100,
         "vaddL_mem_0", VEC),
    Rule(<<"VEC", "_LOADVECTOR_MEMORY_">>, vm.UseAVX > 0 /\ InBytes(Kid(n, 1)) > 8, 100,
         "vaddL_mem", VEC),
    Rule(<<"VEC", "VEC">>, vm.UseAVX > 0, 100, "vaddL_reg", VEC),
    Rule(<<"VEC", "VEC">>, vm.UseAVX = 0, 100, "vaddL", VEC) >>

AddVF(vm, n) == <<
    First(<<"_BINARY_VEC__LOADVECTOR_MEMORY_", "KREG">>, TRUE, 100, "vadd_mem_masked_3", VEC),
    Rule(<<"_BINARY_VEC_VEC", "KREG">>, TRUE, 100, "vadd_reg_masked_3", VEC),
    Rule(<<"_LOADVECTOR_MEMORY_", "VEC">>, vm.UseAVX > 0 /\ InBytes(Kid(n, 1)) > 8, 100,
         "vaddF_mem_0", VEC),
    Rule(<<"VEC", "_LOADVECTOR_MEMORY_">>, vm.UseAVX > 0 /\ InBytes(Kid(n, 1)) > 8, 100,
         "vaddF_mem", VEC),
    Rule(<<"VEC", "VEC">>, vm.UseAVX > 0, 100, "vaddF_reg", VEC),
    Rule(<<"VEC", "VEC">>, vm.UseAVX = 0, 100, "vaddF", VEC) >>

AddVD(vm, n) == <<
    First(<<"_BINARY_VEC__LOADVECTOR_MEMORY_", "KREG">>, TRUE, 100, "vadd_mem_masked_4", VEC),
    Rule(<<"_BINARY_VEC_VEC", "KREG">>, TRUE, 100, "vadd_reg_masked_4", VEC),
    Rule(<<"_LOADVECTOR_MEMORY_", "VEC">>, vm.UseAVX > 0 /\ InBytes(Kid(n, 1)) > 8, 100,
         "vaddD_mem_0", VEC),
    Rule(<<"VEC", "_LOADVECTOR_MEMORY_">>, vm.UseAVX > 0 /\ InBytes(Kid(n, 1)) > 8, 100,
         "vaddD_mem", VEC),
    Rule(<<"VEC", "VEC">>, vm.UseAVX > 0, 100, "vaddD_reg", VEC),
    Rule(<<"VEC", "VEC">>, vm.UseAVX = 0, 100, "vaddD", VEC) >>

AddVHF(vm, n) == <<
    First(<<"_VECTORREINTERPRET__LOADVECTOR_MEMORY__", "VEC">>, TRUE, 100,
          "vector_binOps_HF_mem_0", VEC),
    Rule(<<"VEC", "_VECTORREINTERPRET__LOADVECTOR_MEMORY__">>, TRUE, 100,
         "vector_binOps_HF_mem", VEC),
    Rule(<<"VEC", "VEC">>, TRUE, 100, "vector_binOps_HF_reg", VEC) >>

SubVB(vm, n) == <<
    First(<<"_BINARY_VEC__LOADVECTOR_MEMORY_", "KREG">>, TRUE, 100, "vsub_mem_masked", VEC),
    Rule(<<"_BINARY_VEC_VEC", "KREG">>, TRUE, 100, "vsub_reg_masked", VEC),
    Rule(<<"VEC", "_LOADVECTOR_MEMORY_">>, vm.UseAVX > 0 /\ InBytes(Kid(n, 1)) > 8, 100,
         "vsubB_mem", VEC),
    Rule(<<"VEC", "VEC">>, vm.UseAVX > 0, 100, "vsubB_reg", VEC),
    Rule(<<"VEC", "VEC">>, vm.UseAVX = 0, 100, "vsubB", VEC) >>

SubVS(vm, n) == <<
    First(<<"_BINARY_VEC__LOADVECTOR_MEMORY_", "KREG">>, TRUE, 100, "vsub_mem_masked_0", VEC),
    Rule(<<"_BINARY_VEC_VEC", "KREG">>, TRUE, 100, "vsub_reg_masked_0", VEC),
    Rule(<<"VEC", "_LOADVECTOR_MEMORY_">>, vm.UseAVX > 0 /\ InBytes(Kid(n, 1)) > 8, 100,
         "vsubS_mem", VEC),
    Rule(<<"VEC", "VEC">>, vm.UseAVX > 0, 100, "vsubS_reg", VEC),
    Rule(<<"VEC", "VEC">>, vm.UseAVX = 0, 100, "vsubS", VEC) >>

SubVI(vm, n) == <<
    First(<<"_BINARY_VEC__LOADVECTOR_MEMORY_", "KREG">>, TRUE, 100, "vsub_mem_masked_1", VEC),
    Rule(<<"_BINARY_VEC_VEC", "KREG">>, TRUE, 100, "vsub_reg_masked_1", VEC),
    Rule(<<"VEC", "_LOADVECTOR_MEMORY_">>, vm.UseAVX > 0 /\ InBytes(Kid(n, 1)) > 8, 100,
         "vsubI_mem", VEC),
    Rule(<<"VEC", "VEC">>, vm.UseAVX > 0, 100, "vsubI_reg", VEC),
    Rule(<<"VEC", "VEC">>, vm.UseAVX = 0, 100, "vsubI", VEC) >>

SubVL(vm, n) == <<
    First(<<"_BINARY_VEC__LOADVECTOR_MEMORY_", "KREG">>, TRUE, 100, "vsub_mem_masked_2", VEC),
    Rule(<<"_BINARY_VEC_VEC", "KREG">>, TRUE, 100, "vsub_reg_masked_2", VEC),
    Rule(<<"VEC", "_LOADVECTOR_MEMORY_">>, vm.UseAVX > 0 /\ InBytes(Kid(n, 1)) > 8, 100,
         "vsubL_mem", VEC),
    Rule(<<"VEC", "VEC">>, vm.UseAVX > 0, 100, "vsubL_reg", VEC),
    Rule(<<"VEC", "VEC">>, vm.UseAVX = 0, 100, "vsubL", VEC) >>

SubVF(vm, n) == <<
    First(<<"_BINARY_VEC__LOADVECTOR_MEMORY_", "KREG">>, TRUE, 100, "vsub_mem_masked_3", VEC),
    Rule(<<"_BINARY_VEC_VEC", "KREG">>, TRUE, 100, "vsub_reg_masked_3", VEC),
    Rule(<<"VEC", "_LOADVECTOR_MEMORY_">>, vm.UseAVX > 0 /\ InBytes(Kid(n, 1)) > 8, 100,
         "vsubF_mem", VEC),
    Rule(<<"VEC", "VEC">>, vm.UseAVX > 0, 100, "vsubF_reg", VEC),
    Rule(<<"VEC", "VEC">>, vm.UseAVX = 0, 100, "vsubF", VEC) >>

SubVD(vm, n) == <<
    First(<<"_BINARY_VEC__LOADVECTOR_MEMORY_", "KREG">>, TRUE, 100, "vsub_mem_masked_4", VEC),
    Rule(<<"_BINARY_VEC_VEC", "KREG">>, TRUE, 100, "vsub_reg_masked_4", VEC),
    Rule(<<"VEC", "_LOADVECTOR_MEMORY_">>, vm.UseAVX > 0 /\ InBytes(Kid(n, 1)) > 8, 100,
         "vsubD_mem", VEC),
    Rule(<<"VEC", "VEC">>, vm.UseAVX > 0, 100, "vsubD_reg", VEC),
    Rule(<<"VEC", "VEC">>, vm.UseAVX = 0, 100, "vsubD", VEC) >>

SubVHF(vm, n) == <<
    First(<<"VEC", "_VECTORREINTERPRET__LOADVECTOR_MEMORY__">>, TRUE, 100,
          "vector_binOps_HF_mem_4", VEC),
    Rule(<<"VEC", "VEC">>, TRUE, 100, "vector_binOps_HF_reg_2", VEC) >>

MulVB(vm, n) == <<
    First(<<"VEC", "VEC">>, vm.UseAVX > 0 /\ InBytes(n) > 8, 100, "vmulB_reg", VEC),
    Rule(<<"VEC", "VEC">>, vm.UseAVX = 0 /\ InBytes(n) > 8, 100, "vmulB", VEC),
    Rule(<<"VEC", "VEC">>, InBytes(n) <= 8, 100, "vmul8B", VEC) >>

MulVS(vm, n) == <<
    First(<<"_BINARY_VEC__LOADVECTOR_MEMORY_", "KREG">>, TRUE, 100, "vmul_mem_masked", VEC),
    Rule(<<"_BINARY_VEC_VEC", "KREG">>, TRUE, 100, "vmul_reg_masked", VEC),
    Rule(<<"_LOADVECTOR_MEMORY_", "VEC">>, vm.UseAVX > 0 /\ InBytes(Kid(n, 1)) > 8, 100,
         "vmulS_mem_0", VEC),
    Rule(<<"VEC", "_LOADVECTOR_MEMORY_">>, vm.UseAVX > 0 /\ InBytes(Kid(n, 1)) > 8, 100,
         "vmulS_mem", VEC),
    Rule(<<"VEC", "VEC">>, vm.UseAVX > 0, 100, "vmulS_reg", VEC),
    Rule(<<"VEC", "VEC">>, vm.UseAVX = 0, 100, "vmulS", VEC) >>

MulVI(vm, n) == <<
    First(<<"_BINARY_VEC__LOADVECTOR_MEMORY_", "KREG">>, TRUE, 100, "vmul_mem_masked_0", VEC),
    Rule(<<"_BINARY_VEC_VEC", "KREG">>, TRUE, 100, "vmul_reg_masked_0", VEC),
    Rule(<<"_LOADVECTOR_MEMORY_", "VEC">>, vm.UseAVX > 0 /\ InBytes(Kid(n, 1)) > 8, 100,
         "vmulI_mem_0", VEC),
    Rule(<<"VEC", "_LOADVECTOR_MEMORY_">>, vm.UseAVX > 0 /\ InBytes(Kid(n, 1)) > 8, 100,
         "vmulI_mem", VEC),
    Rule(<<"VEC", "VEC">>, vm.UseAVX > 0, 100, "vmulI_reg", VEC),
    Rule(<<"VEC", "VEC">>, vm.UseAVX = 0, 100, "vmulI", VEC) >>

MulVL(vm, n) == <<
    First(<<"_BINARY_VEC__LOADVECTOR_MEMORY_", "KREG">>, TRUE, 100, "vmul_mem_masked_1", VEC),
    Rule(<<"_BINARY_VEC_VEC", "KREG">>, TRUE, 100, "vmul_reg_masked_1", VEC),
    Rule(<<"VEC", "VEC">>, vm.UseAVX > 0 /\ Has(n, "int inputs"), 100, "vmuldq_reg", VEC),
    Rule(<<"VEC", "VEC">>, vm.UseAVX > 0 /\ Has(n, "uint inputs"), 100, "vmuludq_reg", VEC),
    Rule(<<"VEC", "VEC">>,
         vm.UseAVX > 0 /\ ((InBytes(n) = 64 /\ ~vm.avx512dq) \/ (InBytes(n) < 64
            /\ ~vm.avx512vldq)), 500, "vmulL_reg", VEC),
    Rule(<<"VEC", "VEC">>, vm.UseAVX = 0, 500, "vmulL", VEC),
    Rule(<<"_LOADVECTOR_MEMORY_", "VEC">>,
         (InBytes(n) = 64 /\ vm.avx512dq) \/ (InBytes(n) > 8 /\ vm.avx512vldq), 500,
         "evmulL_mem_0", VEC),
    Rule(<<"VEC", "_LOADVECTOR_MEMORY_">>,
         (InBytes(n) = 64 /\ vm.avx512dq) \/ (InBytes(n) > 8 /\ vm.avx512vldq), 500,
         "evmulL_mem", VEC),
    Rule(<<"VEC", "VEC">>, (InBytes(n) = 64 /\ vm.avx512dq) \/ vm.avx512vldq, 500, "evmulL_reg",
         VEC) >>

MulVF(vm, n) == <<
    First(<<"_BINARY_VEC__LOADVECTOR_MEMORY_", "KREG">>, TRUE, 100, "vmul_mem_masked_2", VEC),
    Rule(<<"_BINARY_VEC_VEC", "KREG">>, TRUE, 100, "vmul_reg_masked_2", VEC),
    Rule(<<"_LOADVECTOR_MEMORY_", "VEC">>, vm.UseAVX > 0 /\ InBytes(Kid(n, 1)) > 8, 100,
         "vmulF_mem_0", VEC),
    Rule(<<"VEC", "_LOADVECTOR_MEMORY_">>, vm.UseAVX > 0 /\ InBytes(Kid(n, 1)) > 8, 100,
         "vmulF_mem", VEC),
    Rule(<<"VEC", "VEC">>, vm.UseAVX > 0, 100, "vmulF_reg", VEC),
    Rule(<<"VEC", "VEC">>, vm.UseAVX = 0, 100, "vmulF", VEC) >>

MulVD(vm, n) == <<
    First(<<"_BINARY_VEC__LOADVECTOR_MEMORY_", "KREG">>, TRUE, 100, "vmul_mem_masked_3", VEC),
    Rule(<<"_BINARY_VEC_VEC", "KREG">>, TRUE, 100, "vmul_reg_masked_3", VEC),
    Rule(<<"_LOADVECTOR_MEMORY_", "VEC">>, vm.UseAVX > 0 /\ InBytes(Kid(n, 1)) > 8, 100,
         "vmulD_mem_0", VEC),
    Rule(<<"VEC", "_LOADVECTOR_MEMORY_">>, vm.UseAVX > 0 /\ InBytes(Kid(n, 1)) > 8, 100,
         "vmulD_mem", VEC),
    Rule(<<"VEC", "VEC">>, vm.UseAVX > 0, 100, "vmulD_reg", VEC),
    Rule(<<"VEC", "VEC">>, vm.UseAVX = 0, 100, "vmulD", VEC) >>

MulVHF(vm, n) == <<
    First(<<"_VECTORREINTERPRET__LOADVECTOR_MEMORY__", "VEC">>, TRUE, 100,
          "vector_binOps_HF_mem_3", VEC),
    Rule(<<"VEC", "_VECTORREINTERPRET__LOADVECTOR_MEMORY__">>, TRUE, 100,
         "vector_binOps_HF_mem_2", VEC),
    Rule(<<"VEC", "VEC">>, TRUE, 100, "vector_binOps_HF_reg_1", VEC) >>

MulAddVS2VI(vm, n) == <<
    Inner(<<"VEC", "VEC">>, "_MULADDVS2VI_VEC_VEC"),
    First(<<"VEC", "VEC">>, vm.UseAVX > 0, 100, "vmuladdS2I_reg_avx", VEC),
    Rule(<<"VEC", "VEC">>, vm.UseAVX = 0, 100, "vmuladdS2I_reg_sse", VEC) >>

DivVF(vm, n) == <<
    First(<<"_BINARY_VEC__LOADVECTOR_MEMORY_", "KREG">>, TRUE, 100, "vdiv_mem_masked", VEC),
    Rule(<<"_BINARY_VEC_VEC", "KREG">>, TRUE, 100, "vdiv_reg_masked", VEC),
    Rule(<<"VEC", "_LOADVECTOR_MEMORY_">>, vm.UseAVX > 0 /\ InBytes(Kid(n, 1)) > 8, 100,
         "vdivF_mem", VEC),
    Rule(<<"VEC", "VEC">>, vm.UseAVX > 0, 100, "vdivF_reg", VEC),
    Rule(<<"VEC", "VEC">>, vm.UseAVX = 0, 100, "vdivF", VEC) >>

DivVD(vm, n) == <<
    First(<<"_BINARY_VEC__LOADVECTOR_MEMORY_", "KREG">>, TRUE, 100, "vdiv_mem_masked_0", VEC),
    Rule(<<"_BINARY_VEC_VEC", "KREG">>, TRUE, 100, "vdiv_reg_masked_0", VEC),
    Rule(<<"VEC", "_LOADVECTOR_MEMORY_">>, vm.UseAVX > 0 /\ InBytes(Kid(n, 1)) > 8, 100,
         "vdivD_mem", VEC),
    Rule(<<"VEC", "VEC">>, vm.UseAVX > 0, 100, "vdivD_reg", VEC),
    Rule(<<"VEC", "VEC">>, vm.UseAVX = 0, 100, "vdivD", VEC) >>

DivVHF(vm, n) == <<
    First(<<"VEC", "_VECTORREINTERPRET__LOADVECTOR_MEMORY__">>, TRUE, 100,
          "vector_binOps_HF_mem_1", VEC),
    Rule(<<"VEC", "VEC">>, TRUE, 100, "vector_binOps_HF_reg_0", VEC) >>

FmaVF(vm, n) == <<
    First(<<"_BINARY_VEC_VEC", "_BINARY__LOADVECTOR_MEMORY__KREG">>, TRUE, 100,
          "vfma_mem_masked", VEC),
    Rule(<<"_BINARY_VEC_VEC", "_BINARY_VEC_KREG">>, TRUE, 100, "vfma_reg_masked", VEC),
    Rule(<<"VEC", "_BINARY_VEC__LOADVECTOR_MEMORY_">>, InBytes(Kid(n, 1)) > 8, 150, "vfmaF_mem",
         VEC),
    Rule(<<"VEC", "_BINARY_VEC_VEC">>, TRUE, 150, "vfmaF_reg", VEC) >>

FmaVD(vm, n) == <<
    First(<<"_BINARY_VEC_VEC", "_BINARY__LOADVECTOR_MEMORY__KREG">>, TRUE, 100,
          "vfma_mem_masked_0", VEC),
    Rule(<<"_BINARY_VEC_VEC", "_BINARY_VEC_KREG">>, TRUE, 100, "vfma_reg_masked_0", VEC),
    Rule(<<"VEC", "_BINARY_VEC__LOADVECTOR_MEMORY_">>, InBytes(Kid(n, 1)) > 8, 150, "vfmaD_mem",
         VEC),
    Rule(<<"VEC", "_BINARY_VEC_VEC">>, TRUE, 150, "vfmaD_reg", VEC) >>

FmaVHF(vm, n) == <<
    First(<<"VEC", "_BINARY_VEC__VECTORREINTERPRET__LOADVECTOR_MEMORY__">>, TRUE, 100,
          "vector_fma_HF_mem", VEC),
    Rule(<<"VEC", "_BINARY_VEC_VEC">>, TRUE, 100, "vector_fma_HF_reg", VEC) >>

\* Mutant: the size is not asked for.
SqrtVFAnySize(vm, n) == <<
    First(<<"VEC", "KREG">>, TRUE, 100, "vsqrt_reg_masked", VEC),
    Rule(<<"_LOADVECTOR_MEMORY_">>, TRUE, 100, "vsqrtF_mem", VEC),
    Rule(<<"VEC">>, TRUE, 100, "vsqrtF_reg", VEC) >>

SqrtVF(vm, n) == <<
    First(<<"VEC", "KREG">>, TRUE, 100, "vsqrt_reg_masked", VEC),
    Rule(<<"_LOADVECTOR_MEMORY_">>, InBytes(Kid(n, 1)) > 8, 100, "vsqrtF_mem", VEC),
    Rule(<<"VEC">>, TRUE, 100, "vsqrtF_reg", VEC) >>

SqrtVD(vm, n) == <<
    First(<<"VEC", "KREG">>, TRUE, 100, "vsqrt_reg_masked_0", VEC),
    Rule(<<"_LOADVECTOR_MEMORY_">>, InBytes(Kid(n, 1)) > 8, 100, "vsqrtD_mem", VEC),
    Rule(<<"VEC">>, TRUE, 100, "vsqrtD_reg", VEC) >>

SqrtVHF(vm, n) == <<
    First(<<"_VECTORREINTERPRET__LOADVECTOR_MEMORY__">>, TRUE, 100, "vector_sqrt_HF_mem", VEC),
    Rule(<<"VEC">>, TRUE, 100, "vector_sqrt_HF_reg", VEC) >>

AbsVB(vm, n) == <<
    First(<<"VEC", "KREG">>, TRUE, 100, "vabs_masked", VEC),
    Rule(<<"VEC">>, TRUE, 100, "vabsB_reg", VEC) >>

AbsVS(vm, n) == <<
    First(<<"VEC", "KREG">>, TRUE, 100, "vabs_masked_0", VEC),
    Rule(<<"VEC">>, TRUE, 100, "vabsS_reg", VEC) >>

AbsVI(vm, n) == <<
    First(<<"VEC", "KREG">>, TRUE, 100, "vabs_masked_1", VEC),
    Rule(<<"VEC">>, TRUE, 100, "vabsI_reg", VEC) >>

AbsVL(vm, n) == <<
    First(<<"VEC", "KREG">>, TRUE, 100, "vabs_masked_2", VEC),
    Rule(<<"VEC">>, TRUE, 100, "vabsL_reg", VEC) >>

AbsVF(vm, n) == <<
    First(<<"VEC">>, Lanes(n) = 4, 150, "vabsneg4F", VEC),
    Rule(<<"VEC">>, Lanes(n) # 4, 150, "vabsnegF", VEC) >>

AbsVD(vm, n) == << First(<<"VEC">>, TRUE, 100, "vabsnegD", VEC) >>

NegVF(vm, n) == <<
    First(<<"VEC">>, Lanes(n) = 4, 150, "vabsneg4F_0", VEC),
    Rule(<<"VEC">>, Lanes(n) # 4, 150, "vabsnegF_0", VEC) >>

NegVD(vm, n) == << First(<<"VEC">>, TRUE, 100, "vabsnegD_0", VEC) >>

SignumVF(vm, n) == <<
    First(<<"VEC", "_BINARY_VEC_VEC">>, vm.avx512vl \/ InBytes(n) = 64, 100, "signumV_reg_evex",
          VEC),
    Rule(<<"VEC", "_BINARY_VEC_VEC">>, ~vm.avx512vl /\ InBytes(n) <= 32, 100, "signumV_reg_avx",
         VEC) >>

SignumVD(vm, n) == <<
    First(<<"VEC", "_BINARY_VEC_VEC">>, vm.avx512vl \/ InBytes(n) = 64, 100,
          "signumV_reg_evex_0", VEC),
    Rule(<<"VEC", "_BINARY_VEC_VEC">>, ~vm.avx512vl /\ InBytes(n) <= 32, 100,
         "signumV_reg_avx_0", VEC) >>

MinV(vm, n) == <<
    First(<<"_BINARY_VEC__LOADVECTOR_MEMORY_", "KREG">>, TRUE, 100, "vminv_mem_masked", VEC),
    Rule(<<"_BINARY_VEC_VEC", "KREG">>, TRUE, 100, "vminv_reg_masked", VEC),
    Rule(<<"VEC", "VEC">>, ~vm.avx10_2 /\ InBytes(n) = 64 /\ Floating(n), 100,
         "evminmaxFP_reg_evex", VEC),
    Rule(<<"LEGVEC", "LEGVEC">>,
         ~vm.avx10_2 /\ InBytes(n) <= 32 /\ Floating(n) /\ vm.UseAVX > 0, 100, "minmaxFP_reg",
         LEGVEC),
    Rule(<<"VEC", "VEC">>, vm.avx10_2 /\ Floating(n), 100, "minmaxFP_reg_avx10_2", VEC),
    Rule(<<"VEC", "VEC">>, (InBytes(n) = 64 \/ vm.avx512vl) /\ Has(n, "long"), 100,
         "vminmaxL_reg_evex", VEC),
    Rule(<<"LEGVEC", "LEGVEC">>,
         InBytes(n) <= 32 /\ Has(n, "long") /\ vm.UseAVX > 0 /\ ~vm.avx512vl, 100,
         "vminmaxL_reg_avx", LEGVEC),
    Rule(<<"VEC", "VEC">>, InBytes(n) = 16 /\ Has(n, "long") /\ vm.UseAVX = 0, 100,
         "minmaxL_reg_sse", VEC),
    Rule(<<"VEC", "VEC">>, Integral(n) /\ ~Has(n, "long") /\ vm.UseAVX > 0, 100, "vminmax_reg",
         VEC),
    Rule(<<"VEC", "VEC">>, Integral(n) /\ ~Has(n, "long") /\ vm.UseAVX = 0, 100,
         "minmax_reg_sse", VEC) >>

MaxV(vm, n) == <<
    First(<<"_BINARY_VEC__LOADVECTOR_MEMORY_", "KREG">>, TRUE, 100, "vmaxv_mem_masked", VEC),
    Rule(<<"_BINARY_VEC_VEC", "KREG">>, TRUE, 100, "vmaxv_reg_masked", VEC),
    Rule(<<"VEC", "VEC">>, ~vm.avx10_2 /\ InBytes(n) = 64 /\ Floating(n), 100,
         "evminmaxFP_reg_evex_0", VEC),
    Rule(<<"LEGVEC", "LEGVEC">>,
         ~vm.avx10_2 /\ InBytes(n) <= 32 /\ Floating(n) /\ vm.UseAVX > 0, 100, "minmaxFP_reg_0",
         LEGVEC),
    Rule(<<"VEC", "VEC">>, vm.avx10_2 /\ Floating(n), 100, "minmaxFP_reg_avx10_2_0", VEC),
    Rule(<<"VEC", "VEC">>, (InBytes(n) = 64 \/ vm.avx512vl) /\ Has(n, "long"), 100,
         "vminmaxL_reg_evex_0", VEC),
    Rule(<<"LEGVEC", "LEGVEC">>,
         InBytes(n) <= 32 /\ Has(n, "long") /\ vm.UseAVX > 0 /\ ~vm.avx512vl, 100,
         "vminmaxL_reg_avx_0", LEGVEC),
    Rule(<<"VEC", "VEC">>, InBytes(n) = 16 /\ Has(n, "long") /\ vm.UseAVX = 0, 100,
         "minmaxL_reg_sse_0", VEC),
    Rule(<<"VEC", "VEC">>, Integral(n) /\ ~Has(n, "long") /\ vm.UseAVX > 0, 100,
         "vminmax_reg_0", VEC),
    Rule(<<"VEC", "VEC">>, Integral(n) /\ ~Has(n, "long") /\ vm.UseAVX = 0, 100,
         "minmax_reg_sse_0", VEC) >>

UMinV(vm, n) == <<
    First(<<"_BINARY_VEC__LOADVECTOR_MEMORY_", "KREG">>, TRUE, 100, "vector_uminmax_mem_masked",
          VEC),
    Rule(<<"_BINARY_VEC_VEC", "KREG">>, TRUE, 100, "vector_uminmax_reg_masked", VEC),
    Rule(<<"VEC", "VEC">>, ~vm.avx512vl /\ Has(n, "long"), 100, "vector_uminmaxq_reg", VEC),
    Rule(<<"VEC", "_LOADVECTOR_MEMORY_">>, vm.avx512vl \/ ~Has(n, "long"), 100,
         "vector_uminmax_mem", VEC),
    Rule(<<"VEC", "VEC">>, vm.avx512vl \/ ~Has(n, "long"), 100, "vector_uminmax_reg", VEC) >>

UMaxV(vm, n) == <<
    First(<<"_BINARY_VEC__LOADVECTOR_MEMORY_", "KREG">>, TRUE, 100,
          "vector_uminmax_mem_masked_0", VEC),
    Rule(<<"_BINARY_VEC_VEC", "KREG">>, TRUE, 100, "vector_uminmax_reg_masked_0", VEC),
    Rule(<<"VEC", "VEC">>, ~vm.avx512vl /\ Has(n, "long"), 100, "vector_uminmaxq_reg_0", VEC),
    Rule(<<"VEC", "_LOADVECTOR_MEMORY_">>, vm.avx512vl \/ ~Has(n, "long"), 100,
         "vector_uminmax_mem_0", VEC),
    Rule(<<"VEC", "VEC">>, vm.avx512vl \/ ~Has(n, "long"), 100, "vector_uminmax_reg_0", VEC) >>

MinVHF(vm, n) == <<
    First(<<"VEC", "VEC">>, ~vm.avx10_2, 100, "vector_minmax_HF_reg", VEC),
    Rule(<<"VEC", "VEC">>, vm.avx10_2, 100, "vector_minmax_HF_reg_avx10_2", VEC),
    Rule(<<"_VECTORREINTERPRET__LOADVECTOR_MEMORY__", "VEC">>, vm.avx10_2, 100,
         "vector_minmax_HF_mem_avx10_2_0", VEC),
    Rule(<<"VEC", "_VECTORREINTERPRET__LOADVECTOR_MEMORY__">>, vm.avx10_2, 100,
         "vector_minmax_HF_mem_avx10_2", VEC) >>

MaxVHF(vm, n) == <<
    First(<<"VEC", "VEC">>, ~vm.avx10_2, 100, "vector_minmax_HF_reg_0", VEC),
    Rule(<<"VEC", "VEC">>, vm.avx10_2, 100, "vector_minmax_HF_reg_avx10_2_0", VEC),
    Rule(<<"_VECTORREINTERPRET__LOADVECTOR_MEMORY__", "VEC">>, vm.avx10_2, 100,
         "vector_minmax_HF_mem_avx10_2_2", VEC),
    Rule(<<"VEC", "_VECTORREINTERPRET__LOADVECTOR_MEMORY__">>, vm.avx10_2, 100,
         "vector_minmax_HF_mem_avx10_2_1", VEC) >>

SaturatingAddV_vector_addsub_saturating_unsigned_subword_masked_mem(vm, n) == <<
    First(<<"_BINARY_VEC__LOADVECTOR_MEMORY_", "KREG">>, Subword(n) /\ Has(n, "unsigned"), 100,
          "vector_addsub_saturating_unsigned_subword_masked_mem", VEC),
    Rule(<<"_BINARY_VEC__LOADVECTOR_MEMORY_", "KREG">>, Subword(n) /\ ~Has(n, "unsigned"), 100,
         "vector_addsub_saturating_subword_masked_mem", VEC),
    Rule(<<"_BINARY_VEC_VEC", "KREG">>, Subword(n) /\ Has(n, "unsigned"), 100,
         "vector_addsub_saturating_unsigned_subword_masked_reg", VEC),
    Rule(<<"_BINARY_VEC_VEC", "KREG">>, Subword(n) /\ ~Has(n, "unsigned"), 100,
         "vector_addsub_saturating_subword_masked_reg", VEC),
    Rule(<<"VEC", "_LOADVECTOR_MEMORY_">>, Subword(n) /\ Has(n, "unsigned"), 100,
         "vector_addsub_saturating_unsigned_subword_mem", VEC),
    Rule(<<"VEC", "_LOADVECTOR_MEMORY_">>, Subword(n) /\ ~Has(n, "unsigned"), 100,
         "vector_addsub_saturating_subword_mem", VEC),
    Rule(<<"VEC", "VEC">>,
         ~Subword(n) /\ Has(n, "unsigned") /\ InBytes(n) <= 32 /\ ~vm.avx512vl, 100,
         "vector_add_saturating_unsigned_reg_avx", VEC),
    Rule(<<"VEC", "VEC">>,
         ~Subword(n) /\ Has(n, "unsigned") /\ (InBytes(n) = 64 \/ vm.avx512vl), 100,
         "vector_add_saturating_unsigned_reg_evex", VEC),
    Rule(<<"VEC", "VEC">>,
         ~Subword(n) /\ ~Has(n, "unsigned") /\ InBytes(n) <= 32 /\ ~vm.avx512vl, 100,
         "vector_addsub_saturating_reg_avx", VEC) >>

SaturatingAddV_vector_addsub_saturating_reg_evex(vm, n) == <<
    Rule(<<"VEC", "VEC">>,
         ~Subword(n) /\ ~Has(n, "unsigned") /\ (InBytes(n) = 64 \/ vm.avx512vl), 100,
         "vector_addsub_saturating_reg_evex", VEC),
    Rule(<<"VEC", "VEC">>, Subword(n) /\ Has(n, "unsigned"), 100,
         "vector_addsub_saturating_unsigned_subword_reg", VEC),
    Rule(<<"VEC", "VEC">>, Subword(n) /\ ~Has(n, "unsigned"), 100,
         "vector_addsub_saturating_subword_reg", VEC) >>

SaturatingAddV(vm, n) ==
    SaturatingAddV_vector_addsub_saturating_unsigned_subword_masked_mem(vm, n)
    \o SaturatingAddV_vector_addsub_saturating_reg_evex(vm, n)

SaturatingSubV_vector_addsub_saturating_unsigned_subword_masked_mem_0(vm, n) == <<
    First(<<"_BINARY_VEC__LOADVECTOR_MEMORY_", "KREG">>, Subword(n) /\ Has(n, "unsigned"), 100,
          "vector_addsub_saturating_unsigned_subword_masked_mem_0", VEC),
    Rule(<<"_BINARY_VEC__LOADVECTOR_MEMORY_", "KREG">>, Subword(n) /\ ~Has(n, "unsigned"), 100,
         "vector_addsub_saturating_subword_masked_mem_0", VEC),
    Rule(<<"_BINARY_VEC_VEC", "KREG">>, Subword(n) /\ Has(n, "unsigned"), 100,
         "vector_addsub_saturating_unsigned_subword_masked_reg_0", VEC),
    Rule(<<"_BINARY_VEC_VEC", "KREG">>, Subword(n) /\ ~Has(n, "unsigned"), 100,
         "vector_addsub_saturating_subword_masked_reg_0", VEC),
    Rule(<<"VEC", "_LOADVECTOR_MEMORY_">>, Subword(n) /\ Has(n, "unsigned"), 100,
         "vector_addsub_saturating_unsigned_subword_mem_0", VEC),
    Rule(<<"VEC", "_LOADVECTOR_MEMORY_">>, Subword(n) /\ ~Has(n, "unsigned"), 100,
         "vector_addsub_saturating_subword_mem_0", VEC),
    Rule(<<"VEC", "VEC">>,
         ~Subword(n) /\ Has(n, "unsigned") /\ InBytes(n) <= 32 /\ ~vm.avx512vl, 100,
         "vector_sub_saturating_unsigned_reg_avx", VEC),
    Rule(<<"VEC", "VEC">>,
         ~Subword(n) /\ Has(n, "unsigned") /\ (InBytes(n) = 64 \/ vm.avx512vl), 100,
         "vector_sub_saturating_unsigned_reg_evex", VEC),
    Rule(<<"VEC", "VEC">>,
         ~Subword(n) /\ ~Has(n, "unsigned") /\ InBytes(n) <= 32 /\ ~vm.avx512vl, 100,
         "vector_addsub_saturating_reg_avx_0", VEC) >>

SaturatingSubV_vector_addsub_saturating_reg_evex_0(vm, n) == <<
    Rule(<<"VEC", "VEC">>,
         ~Subword(n) /\ ~Has(n, "unsigned") /\ (InBytes(n) = 64 \/ vm.avx512vl), 100,
         "vector_addsub_saturating_reg_evex_0", VEC),
    Rule(<<"VEC", "VEC">>, Subword(n) /\ Has(n, "unsigned"), 100,
         "vector_addsub_saturating_unsigned_subword_reg_0", VEC),
    Rule(<<"VEC", "VEC">>, Subword(n) /\ ~Has(n, "unsigned"), 100,
         "vector_addsub_saturating_subword_reg_0", VEC) >>

SaturatingSubV(vm, n) ==
    SaturatingSubV_vector_addsub_saturating_unsigned_subword_masked_mem_0(vm, n)
    \o SaturatingSubV_vector_addsub_saturating_reg_evex_0(vm, n)

RoundVF(vm, n) == <<
    First(<<"VEC">>, (vm.avx512vl \/ InBytes(n) = 64) /\ Has(n, "int"), 100,
          "vround_float_evex", VEC),
    Rule(<<"VEC">>, ~vm.avx512vl /\ InBytes(n) < 64 /\ Has(n, "int"), 100, "vround_float_avx",
         VEC) >>

RoundVD(vm, n) == << First(<<"VEC">>, Has(n, "long"), 100, "vround_reg_evex", VEC) >>

RoundDoubleModeV(vm, n) == <<
    First(<<"_LOADVECTOR_MEMORY_", "IMMU8">>, Lanes(n) = 8, 100, "vround8D_mem", VEC),
    Rule(<<"_LOADVECTOR_MEMORY_", "IMMU8">>, Lanes(n) < 8, 100, "vroundD_mem", LEGVEC),
    Rule(<<"VEC", "IMMU8">>, Lanes(n) = 8, 100, "vround8D_reg", VEC),
    Rule(<<"LEGVEC", "IMMU8">>, Lanes(n) < 8, 100, "vroundD_reg", LEGVEC) >>
=============================================================================
