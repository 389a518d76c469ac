---------------------------- MODULE DFAReduction ----------------------------
(***************************************************************************)
(* Reductions of a vector to a scalar.                                     *)
(***************************************************************************)
EXTENDS DFAOperands
-----------------------------------------------------------------------------
AddReductionVI(vm, n) == <<
    First(<<"RREGI", "LEGVEC">>, Elem(n, "short"), 100, "reductionS", RREGI),
    Rule(<<"RREGI", "VEC">>, Elem(n, "byte") /\ vm.avx512bw, 100, "reductionB_avx512bw", RREGI),
    Rule(<<"RREGI", "LEGVEC">>, Elem(n, "byte") /\ ~vm.avx512bw, 100, "reductionB", RREGI),
    Rule(<<"RREGI", "LEGVEC">>, Elem(n, "int"), 100, "reductionI", RREGI) >>

AddReductionVL(vm, n) == <<
    First(<<"RREGL", "VEC">>, Elem(n, "long") /\ vm.avx512dq, 100, "reductionL_avx512dq", RREGL),
    Rule(<<"RREGL", "LEGVEC">>, Elem(n, "long") /\ ~vm.avx512dq, 100, "reductionL", RREGL) >>

AddReductionVF(vm, n) == <<
    First(<<"REGF", "LEGVEC">>, ~Has(n, "strict") /\ Lanes(Kid(n, 2)) = 16, 100,
          "unordered_reduction16F", REGF),
    Rule(<<"REGF", "VEC">>, ~Has(n, "strict") /\ Lanes(Kid(n, 2)) = 8, 100,
         "unordered_reduction8F", REGF),
    Rule(<<"REGF", "VEC">>, ~Has(n, "strict") /\ Lanes(Kid(n, 2)) = 4, 100,
         "unordered_reduction4F", REGF),
    Rule(<<"REGF", "VEC">>, ~Has(n, "strict") /\ Lanes(Kid(n, 2)) = 2, 100,
         "unordered_reduction2F", REGF),
    Rule(<<"REGF", "LEGVEC">>, Has(n, "strict") /\ Lanes(Kid(n, 2)) = 16, 100, "reduction16F",
         REGF),
    Rule(<<"REGF", "VEC">>, Has(n, "strict") /\ Lanes(Kid(n, 2)) = 8, 100, "reduction8F", REGF),
    Rule(<<"REGF", "VEC">>, Has(n, "strict") /\ Lanes(Kid(n, 2)) <= 4, 100, "reductionF128",
         REGF) >>

AddReductionVD(vm, n) == <<
    First(<<"REGD", "LEGVEC">>, ~Has(n, "strict") /\ Lanes(Kid(n, 2)) = 8, 100,
          "unordered_reduction8D", REGD),
    Rule(<<"REGD", "VEC">>, ~Has(n, "strict") /\ Lanes(Kid(n, 2)) = 4, 100,
         "unordered_reduction4D", REGD),
    Rule(<<"REGD", "VEC">>, ~Has(n, "strict") /\ Lanes(Kid(n, 2)) = 2, 100,
         "unordered_reduction2D", REGD),
    Rule(<<"REGD", "LEGVEC">>, Has(n, "strict") /\ Lanes(Kid(n, 2)) = 8, 100, "reduction8D",
         REGD),
    Rule(<<"REGD", "VEC">>, Has(n, "strict") /\ Lanes(Kid(n, 2)) = 4, 100, "reduction4D", REGD),
    Rule(<<"REGD", "VEC">>, Has(n, "strict") /\ Lanes(Kid(n, 2)) = 2, 100, "reduction2D", REGD) >>

MulReductionVI(vm, n) == <<
    First(<<"RREGI", "LEGVEC">>, Elem(n, "byte") /\ Lanes(Kid(n, 2)) = 64, 100,
          "mul_reduction64B", RREGI),
    Rule(<<"RREGI", "VEC">>, Elem(n, "byte") /\ Lanes(Kid(n, 2)) <= 32, 100, "mul_reductionB",
         RREGI),
    Rule(<<"RREGI", "LEGVEC">>, Elem(n, "short"), 100, "reductionS_0", RREGI),
    Rule(<<"RREGI", "LEGVEC">>, Elem(n, "int"), 100, "reductionI_0", RREGI) >>

MulReductionVL(vm, n) == <<
    First(<<"RREGL", "VEC">>, Elem(n, "long") /\ vm.avx512dq, 100, "reductionL_avx512dq_0",
          RREGL),
    Rule(<<"RREGL", "LEGVEC">>, Elem(n, "long") /\ ~vm.avx512dq, 100, "reductionL_0", RREGL) >>

MulReductionVF(vm, n) == <<
    First(<<"REGF", "LEGVEC">>, ~Has(n, "strict") /\ Lanes(Kid(n, 2)) = 16, 100,
          "unordered_reduction16F_0", REGF),
    Rule(<<"REGF", "VEC">>, ~Has(n, "strict") /\ Lanes(Kid(n, 2)) = 8, 100,
         "unordered_reduction8F_0", REGF),
    Rule(<<"REGF", "VEC">>, ~Has(n, "strict") /\ Lanes(Kid(n, 2)) = 4, 100,
         "unordered_reduction4F_0", REGF),
    Rule(<<"REGF", "VEC">>, ~Has(n, "strict") /\ Lanes(Kid(n, 2)) = 2, 100,
         "unordered_reduction2F_0", REGF),
    Rule(<<"REGF", "LEGVEC">>, Has(n, "strict") /\ Lanes(Kid(n, 2)) = 16, 100, "reduction16F_0",
         REGF),
    Rule(<<"REGF", "VEC">>, Has(n, "strict") /\ Lanes(Kid(n, 2)) = 8, 100, "reduction8F_0",
         REGF),
    Rule(<<"REGF", "VEC">>, Has(n, "strict") /\ Lanes(Kid(n, 2)) <= 4, 100, "reductionF128_0",
         REGF) >>

MulReductionVD(vm, n) == <<
    First(<<"REGD", "LEGVEC">>, ~Has(n, "strict") /\ Lanes(Kid(n, 2)) = 8, 100,
          "unordered_reduction8D_0", REGD),
    Rule(<<"REGD", "VEC">>, ~Has(n, "strict") /\ Lanes(Kid(n, 2)) = 4, 100,
         "unordered_reduction4D_0", REGD),
    Rule(<<"REGD", "VEC">>, ~Has(n, "strict") /\ Lanes(Kid(n, 2)) = 2, 100,
         "unordered_reduction2D_0", REGD),
    Rule(<<"REGD", "LEGVEC">>, Has(n, "strict") /\ Lanes(Kid(n, 2)) = 8, 100, "reduction8D_0",
         REGD),
    Rule(<<"REGD", "VEC">>, Has(n, "strict") /\ Lanes(Kid(n, 2)) = 4, 100, "reduction4D_0",
         REGD),
    Rule(<<"REGD", "VEC">>, Has(n, "strict") /\ Lanes(Kid(n, 2)) = 2, 100, "reduction2D_0",
         REGD) >>

AndReductionV_reductionS_1(vm, n) == <<
    First(<<"RREGI", "LEGVEC">>, Elem(n, "short"), 100, "reductionS_1", RREGI),
    Rule(<<"RREGI", "VEC">>, Elem(n, "byte") /\ vm.avx512bw, 100, "reductionB_avx512bw_0",
         RREGI),
    Rule(<<"RREGI", "LEGVEC">>, Elem(n, "byte") /\ ~vm.avx512bw, 100, "reductionB_0", RREGI),
    First(<<"RREGL", "VEC">>, Elem(n, "long") /\ vm.avx512dq, 100, "reductionL_avx512dq_1",
          RREGL),
    Rule(<<"RREGL", "LEGVEC">>, Elem(n, "long") /\ ~vm.avx512dq, 100, "reductionL_1", RREGL) >>

AndReductionV_reductionI_1(vm, n) == <<
    Rule(<<"RREGI", "LEGVEC">>, Elem(n, "int"), 100, "reductionI_1", RREGI) >>

AndReductionV(vm, n) ==
    AndReductionV_reductionS_1(vm, n)
    \o AndReductionV_reductionI_1(vm, n)

OrReductionV_reductionS_2(vm, n) == <<
    First(<<"RREGI", "LEGVEC">>, Elem(n, "short"), 100, "reductionS_2", RREGI),
    Rule(<<"RREGI", "VEC">>, Elem(n, "byte") /\ vm.avx512bw, 100, "reductionB_avx512bw_1",
         RREGI),
    Rule(<<"RREGI", "LEGVEC">>, Elem(n, "byte") /\ ~vm.avx512bw, 100, "reductionB_1", RREGI),
    First(<<"RREGL", "VEC">>, Elem(n, "long") /\ vm.avx512dq, 100, "reductionL_avx512dq_2",
          RREGL),
    Rule(<<"RREGL", "LEGVEC">>, Elem(n, "long") /\ ~vm.avx512dq, 100, "reductionL_2", RREGL) >>

OrReductionV_reductionI_2(vm, n) == <<
    Rule(<<"RREGI", "LEGVEC">>, Elem(n, "int"), 100, "reductionI_2", RREGI) >>

OrReductionV(vm, n) ==
    OrReductionV_reductionS_2(vm, n)
    \o OrReductionV_reductionI_2(vm, n)

XorReductionV_reductionS_3(vm, n) == <<
    First(<<"RREGI", "LEGVEC">>, Elem(n, "short"), 100, "reductionS_3", RREGI),
    Rule(<<"RREGI", "VEC">>, Elem(n, "byte") /\ vm.avx512bw, 100, "reductionB_avx512bw_2",
         RREGI),
    Rule(<<"RREGI", "LEGVEC">>, Elem(n, "byte") /\ ~vm.avx512bw, 100, "reductionB_2", RREGI),
    First(<<"RREGL", "VEC">>, Elem(n, "long") /\ vm.avx512dq, 100, "reductionL_avx512dq_3",
          RREGL),
    Rule(<<"RREGL", "LEGVEC">>, Elem(n, "long") /\ ~vm.avx512dq, 100, "reductionL_3", RREGL) >>

XorReductionV_reductionI_3(vm, n) == <<
    Rule(<<"RREGI", "LEGVEC">>, Elem(n, "int"), 100, "reductionI_3", RREGI) >>

XorReductionV(vm, n) ==
    XorReductionV_reductionS_3(vm, n)
    \o XorReductionV_reductionI_3(vm, n)

MinReductionV_minmax_reductionD_av_avx10_2(vm, n) == <<
    First(<<"REGD", "VEC">>, vm.avx10_2 /\ Elem(n, "double") /\ Lanes(Kid(n, 2)) >= 4, 100,
          "minmax_reductionD_av_avx10_2", REGD),
    Rule(<<"REGD", "VEC">>, vm.avx10_2 /\ Elem(n, "double") /\ Lanes(Kid(n, 2)) = 2, 100,
         "minmax_reduction2D_av_avx10_2", REGD),
    Rule(<<"IMMD", "VEC">>,
         vm.avx10_2 /\ Elem(n, "double") /\ NeutralStart(n) /\ Lanes(Kid(n, 2)) >= 4, 100,
         "minmax_reductionD_avx10_2", REGD),
    Rule(<<"IMMD", "VEC">>,
         vm.avx10_2 /\ Elem(n, "double") /\ NeutralStart(n) /\ Lanes(Kid(n, 2)) = 2, 100,
         "minmax_reduction2D_avx10_2", REGD),
    Rule(<<"LEGREGD", "LEGVEC">>, ~vm.avx10_2 /\ Elem(n, "double") /\ Lanes(Kid(n, 2)) >= 4,
         100, "minmax_reductionD_av", LEGREGD),
    Rule(<<"LEGREGD", "LEGVEC">>, ~vm.avx10_2 /\ Elem(n, "double") /\ Lanes(Kid(n, 2)) = 2, 100,
         "minmax_reduction2D_av", LEGREGD),
    Rule(<<"IMMD", "LEGVEC">>,
         ~vm.avx10_2 /\ Elem(n, "double") /\ NeutralStart(n) /\ Lanes(Kid(n, 2)) >= 4, 100,
         "minmax_reductionD", LEGREGD) >>

MinReductionV_minmax_reduction2D(vm, n) == <<
    Rule(<<"IMMD", "LEGVEC">>,
         ~vm.avx10_2 /\ Elem(n, "double") /\ NeutralStart(n) /\ Lanes(Kid(n, 2)) = 2, 100,
         "minmax_reduction2D", LEGREGD),
    First(<<"REGF", "VEC">>, vm.avx10_2 /\ Elem(n, "float") /\ Lanes(Kid(n, 2)) >= 4, 100,
          "minmax_reductionF_av_avx10_2", REGF),
    Rule(<<"REGF", "VEC">>, vm.avx10_2 /\ Elem(n, "float") /\ Lanes(Kid(n, 2)) = 2, 100,
         "minmax_reduction2F_av_avx10_2", REGF),
    Rule(<<"IMMF", "VEC">>,
         vm.avx10_2 /\ Elem(n, "float") /\ NeutralStart(n) /\ Lanes(Kid(n, 2)) >= 4, 100,
         "minmax_reductionF_avx10_2", REGF),
    Rule(<<"IMMF", "VEC">>,
         vm.avx10_2 /\ Elem(n, "float") /\ NeutralStart(n) /\ Lanes(Kid(n, 2)) = 2, 100,
         "minmax_reduction2F_avx10_2", REGF),
    Rule(<<"LEGREGF", "LEGVEC">>, ~vm.avx10_2 /\ Elem(n, "float") /\ Lanes(Kid(n, 2)) >= 4, 100,
         "minmax_reductionF_av", LEGREGF),
    Rule(<<"LEGREGF", "LEGVEC">>, ~vm.avx10_2 /\ Elem(n, "float") /\ Lanes(Kid(n, 2)) = 2, 100,
         "minmax_reduction2F_av", LEGREGF) >>

MinReductionV_minmax_reductionF(vm, n) == <<
    Rule(<<"IMMF", "LEGVEC">>,
         ~vm.avx10_2 /\ Elem(n, "float") /\ NeutralStart(n) /\ Lanes(Kid(n, 2)) >= 4, 100,
         "minmax_reductionF", LEGREGF),
    Rule(<<"IMMF", "LEGVEC">>,
         ~vm.avx10_2 /\ Elem(n, "float") /\ NeutralStart(n) /\ Lanes(Kid(n, 2)) = 2, 100,
         "minmax_reduction2F", LEGREGF),
    First(<<"RREGI", "LEGVEC">>, Elem(n, "short"), 100, "reductionS_4", RREGI),
    Rule(<<"RREGI", "VEC">>, Elem(n, "byte") /\ vm.avx512bw, 100, "reductionB_avx512bw_3",
         RREGI),
    Rule(<<"RREGI", "LEGVEC">>, Elem(n, "byte") /\ ~vm.avx512bw, 100, "reductionB_3", RREGI),
    First(<<"RREGL", "VEC">>, Elem(n, "long") /\ vm.avx512dq, 100, "reductionL_avx512dq_4",
          RREGL) >>

MinReductionV_reductionL_4(vm, n) == <<
    Rule(<<"RREGL", "LEGVEC">>, Elem(n, "long") /\ ~vm.avx512dq, 100, "reductionL_4", RREGL),
    Rule(<<"RREGI", "LEGVEC">>, Elem(n, "int"), 100, "reductionI_4", RREGI) >>

MinReductionV(vm, n) ==
    MinReductionV_minmax_reductionD_av_avx10_2(vm, n)
    \o MinReductionV_minmax_reduction2D(vm, n)
    \o MinReductionV_minmax_reductionF(vm, n)
    \o MinReductionV_reductionL_4(vm, n)

MaxReductionV_minmax_reductionD_av_avx10_2_0(vm, n) == <<
    First(<<"REGD", "VEC">>, vm.avx10_2 /\ Elem(n, "double") /\ Lanes(Kid(n, 2)) >= 4, 100,
          "minmax_reductionD_av_avx10_2_0", REGD),
    Rule(<<"REGD", "VEC">>, vm.avx10_2 /\ Elem(n, "double") /\ Lanes(Kid(n, 2)) = 2, 100,
         "minmax_reduction2D_av_avx10_2_0", REGD),
    Rule(<<"IMMD", "VEC">>,
         vm.avx10_2 /\ Elem(n, "double") /\ NeutralStart(n) /\ Lanes(Kid(n, 2)) >= 4, 100,
         "minmax_reductionD_avx10_2_0", REGD),
    Rule(<<"IMMD", "VEC">>,
         vm.avx10_2 /\ Elem(n, "double") /\ NeutralStart(n) /\ Lanes(Kid(n, 2)) = 2, 100,
         "minmax_reduction2D_avx10_2_0", REGD),
    Rule(<<"LEGREGD", "LEGVEC">>, ~vm.avx10_2 /\ Elem(n, "double") /\ Lanes(Kid(n, 2)) >= 4,
         100, "minmax_reductionD_av_0", LEGREGD),
    Rule(<<"LEGREGD", "LEGVEC">>, ~vm.avx10_2 /\ Elem(n, "double") /\ Lanes(Kid(n, 2)) = 2, 100,
         "minmax_reduction2D_av_0", LEGREGD),
    Rule(<<"IMMD", "LEGVEC">>,
         ~vm.avx10_2 /\ Elem(n, "double") /\ NeutralStart(n) /\ Lanes(Kid(n, 2)) >= 4, 100,
         "minmax_reductionD_0", LEGREGD) >>

MaxReductionV_minmax_reduction2D_0(vm, n) == <<
    Rule(<<"IMMD", "LEGVEC">>,
         ~vm.avx10_2 /\ Elem(n, "double") /\ NeutralStart(n) /\ Lanes(Kid(n, 2)) = 2, 100,
         "minmax_reduction2D_0", LEGREGD),
    First(<<"REGF", "VEC">>, vm.avx10_2 /\ Elem(n, "float") /\ Lanes(Kid(n, 2)) >= 4, 100,
          "minmax_reductionF_av_avx10_2_0", REGF),
    Rule(<<"REGF", "VEC">>, vm.avx10_2 /\ Elem(n, "float") /\ Lanes(Kid(n, 2)) = 2, 100,
         "minmax_reduction2F_av_avx10_2_0", REGF),
    Rule(<<"IMMF", "VEC">>,
         vm.avx10_2 /\ Elem(n, "float") /\ NeutralStart(n) /\ Lanes(Kid(n, 2)) >= 4, 100,
         "minmax_reductionF_avx10_2_0", REGF),
    Rule(<<"IMMF", "VEC">>,
         vm.avx10_2 /\ Elem(n, "float") /\ NeutralStart(n) /\ Lanes(Kid(n, 2)) = 2, 100,
         "minmax_reduction2F_avx10_2_0", REGF),
    Rule(<<"LEGREGF", "LEGVEC">>, ~vm.avx10_2 /\ Elem(n, "float") /\ Lanes(Kid(n, 2)) >= 4, 100,
         "minmax_reductionF_av_0", LEGREGF),
    Rule(<<"LEGREGF", "LEGVEC">>, ~vm.avx10_2 /\ Elem(n, "float") /\ Lanes(Kid(n, 2)) = 2, 100,
         "minmax_reduction2F_av_0", LEGREGF) >>

MaxReductionV_minmax_reductionF_0(vm, n) == <<
    Rule(<<"IMMF", "LEGVEC">>,
         ~vm.avx10_2 /\ Elem(n, "float") /\ NeutralStart(n) /\ Lanes(Kid(n, 2)) >= 4, 100,
         "minmax_reductionF_0", LEGREGF),
    Rule(<<"IMMF", "LEGVEC">>,
         ~vm.avx10_2 /\ Elem(n, "float") /\ NeutralStart(n) /\ Lanes(Kid(n, 2)) = 2, 100,
         "minmax_reduction2F_0", LEGREGF),
    First(<<"RREGI", "LEGVEC">>, Elem(n, "short"), 100, "reductionS_5", RREGI),
    Rule(<<"RREGI", "VEC">>, Elem(n, "byte") /\ vm.avx512bw, 100, "reductionB_avx512bw_4",
         RREGI),
    Rule(<<"RREGI", "LEGVEC">>, Elem(n, "byte") /\ ~vm.avx512bw, 100, "reductionB_4", RREGI),
    First(<<"RREGL", "VEC">>, Elem(n, "long") /\ vm.avx512dq, 100, "reductionL_avx512dq_5",
          RREGL) >>

MaxReductionV_reductionL_5(vm, n) == <<
    Rule(<<"RREGL", "LEGVEC">>, Elem(n, "long") /\ ~vm.avx512dq, 100, "reductionL_5", RREGL),
    Rule(<<"RREGI", "LEGVEC">>, Elem(n, "int"), 100, "reductionI_5", RREGI) >>

MaxReductionV(vm, n) ==
    MaxReductionV_minmax_reductionD_av_avx10_2_0(vm, n)
    \o MaxReductionV_minmax_reduction2D_0(vm, n)
    \o MaxReductionV_minmax_reductionF_0(vm, n)
    \o MaxReductionV_reductionL_5(vm, n)
=============================================================================
