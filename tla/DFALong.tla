------------------------------- MODULE DFALong ------------------------------
(***************************************************************************)
(* Long arithmetic.                                                        *)
(***************************************************************************)
EXTENDS DFAOperands
-----------------------------------------------------------------------------
AddL_leaL_rReg_immL32_peep(vm, n) == <<
    First(<<"RREGL", "IMML32">>, FALSE, 100, "leaL_rReg_immL32_peep", RREGL),
    Rule(<<"RREGL", "RREGL">>, FALSE, 100, "leaL_rReg_rReg_peep", RREGL),
    Inner(<<"RREGL", "IMML_M1">>, "_ADDL_RREGL_IMML_M1"),
    Rule(<<"_ADDL__LSHIFTL_RREGL_IMMI2_RREGL", "IMML32">>, vm.fast_3op_lea, 100,
         "leaL_rReg_rReg_immI2_immL32_0", RREGL),
    Inner(<<"_LSHIFTL_RREGL_IMMI2", "RREGL">>, "_ADDL__LSHIFTL_RREGL_IMMI2_RREGL"),
    Rule(<<"_ADDL_RREGL__LSHIFTL_RREGL_IMMI2", "IMML32">>, vm.fast_3op_lea, 100,
         "leaL_rReg_rReg_immI2_immL32", RREGL),
    Inner(<<"RREGL", "_LSHIFTL_RREGL_IMMI2">>, "_ADDL_RREGL__LSHIFTL_RREGL_IMMI2") >>

AddL_leaL_rReg_rReg_immI2_0(vm, n) == <<
    Rule(<<"_LSHIFTL_RREGL_IMMI2", "NO_RBP_R13_REGL">>, vm.fast_2op_lea, 100,
         "leaL_rReg_rReg_immI2_0", RREGL),
    Rule(<<"NO_RBP_R13_REGL", "_LSHIFTL_RREGL_IMMI2">>, vm.fast_2op_lea, 100,
         "leaL_rReg_rReg_immI2", RREGL),
    Rule(<<"_ADDL_RREGL_RREGL", "IMML32">>, vm.fast_3op_lea, 100, "leaL_rReg_rReg_immL32",
         RREGL),
    Inner(<<"RREGL", "RREGL">>, "_ADDL_RREGL_RREGL"),
    Rule(<<"_LSHIFTL_RREGL_IMMI2", "IMML32">>, vm.fast_2op_lea, 100, "leaL_rReg_immI2_immL32",
         RREGL),
    Inner(<<"_LOADL_MEMORY_", "IMML_M1">>, "_ADDL__LOADL_MEMORY__IMML_M1") >>

AddL_decL_rReg_mem_ndd(vm, n) == <<
    Rule(<<"_LOADL_MEMORY_", "IMML_M1">>, vm.UseAPX /\ vm.UseIncDec, 100, "decL_rReg_mem_ndd",
         RREGL),
    Rule(<<"RREGL", "IMML_M1">>, vm.UseAPX /\ vm.UseIncDec, 100, "decL_rReg_ndd", RREGL),
    Rule(<<"RREGL", "IMML_M1">>, ~vm.UseAPX /\ vm.UseIncDec, 100, "decL_rReg", RREGL),
    Inner(<<"_LOADL_MEMORY_", "IMML1">>, "_ADDL__LOADL_MEMORY__IMML1"),
    Rule(<<"_LOADL_MEMORY_", "IMML1">>, vm.UseAPX /\ vm.UseIncDec, 100, "incL_rReg_mem_ndd",
         RREGL) >>

AddL_incL_rReg_ndd(vm, n) == <<
    Rule(<<"RREGI", "IMML1">>, vm.UseAPX /\ vm.UseIncDec, 100, "incL_rReg_ndd", RREGL),
    Rule(<<"RREGL", "IMML1">>, ~vm.UseAPX /\ vm.UseIncDec, 100, "incL_rReg", RREGL),
    Inner(<<"_LOADL_MEMORY_", "IMML32">>, "_ADDL__LOADL_MEMORY__IMML32"),
    Inner(<<"RREGL", "_LOADL_MEMORY_">>, "_ADDL_RREGL__LOADL_MEMORY_"),
    Inner(<<"_LOADL_MEMORY_", "RREGL">>, "_ADDL__LOADL_MEMORY__RREGL"),
    Rule(<<"_LOADL_MEMORY_", "RREGL">>, vm.UseAPX, 150, "addL_rReg_rReg_mem_ndd_0", RREGL),
    Rule(<<"RREGL", "_LOADL_MEMORY_">>, vm.UseAPX, 150, "addL_rReg_rReg_mem_ndd", RREGL) >>

AddL_addL_rReg_mem_0(vm, n) == <<
    Rule(<<"_LOADL_MEMORY_", "RREGL">>, ~vm.UseAPX, 150, "addL_rReg_mem_0", RREGL),
    Rule(<<"RREGL", "_LOADL_MEMORY_">>, ~vm.UseAPX, 150, "addL_rReg_mem", RREGL),
    Rule(<<"_LOADL_MEMORY_", "IMML32">>, vm.UseAPX, 100, "addL_rReg_mem_imm_ndd", RREGL),
    Rule(<<"RREGL", "IMML32">>, vm.UseAPX, 100, "addL_rReg_rReg_imm_ndd", RREGL) >>

AddL_addL_rReg_imm(vm, n) == <<
    Rule(<<"RREGL", "IMML32">>, ~vm.UseAPX, 100, "addL_rReg_imm", RREGL),
    Rule(<<"RREGL", "RREGL">>, vm.UseAPX, 100, "addL_rReg_ndd", RREGL),
    Rule(<<"RREGL", "RREGL">>, ~vm.UseAPX, 100, "addL_rReg", RREGL),
    Inner(<<"_LSHIFTL_RREGL_IMMI2", "IMML32">>, "_ADDL__LSHIFTL_RREGL_IMMI2_IMML32") >>

AddL(vm, n) ==
    AddL_leaL_rReg_immL32_peep(vm, n)
    \o AddL_leaL_rReg_rReg_immI2_0(vm, n)
    \o AddL_decL_rReg_mem_ndd(vm, n)
    \o AddL_incL_rReg_ndd(vm, n)
    \o AddL_addL_rReg_mem_0(vm, n)
    \o AddL_addL_rReg_imm(vm, n)

SubL_negL_rReg_ndd(vm, n) == <<
    Inner(<<"IMML0", "RREGL">>, "_SUBL_IMML0_RREGL"),
    Inner(<<"IMML0", "_LOADL_MEMORY_">>, "_SUBL_IMML0__LOADL_MEMORY_"),
    First(<<"IMML0", "RREGL">>, vm.UseAPX, 100, "negL_rReg_ndd", RREGL),
    Rule(<<"IMML0", "RREGL">>, ~vm.UseAPX, 100, "negL_rReg", RREGL),
    Inner(<<"_LOADL_MEMORY_", "RREGL">>, "_SUBL__LOADL_MEMORY__RREGL"),
    Rule(<<"_LOADL_MEMORY_", "RREGL">>, vm.UseAPX, 150, "subL_rReg_mem_rReg_ndd", RREGL),
    Rule(<<"RREGL", "_LOADL_MEMORY_">>, vm.UseAPX, 150, "subL_rReg_rReg_mem_ndd", RREGL) >>

SubL_subL_rReg_mem(vm, n) == <<
    Rule(<<"RREGL", "_LOADL_MEMORY_">>, ~vm.UseAPX, 150, "subL_rReg_mem", RREGL),
    Rule(<<"_LOADL_MEMORY_", "IMML32">>, vm.UseAPX, 100, "subL_rReg_mem_imm_ndd", RREGL),
    Rule(<<"RREGL", "IMML32">>, vm.UseAPX, 100, "subL_rReg_rReg_imm_ndd", RREGL),
    Rule(<<"RREGL", "RREGL">>, vm.UseAPX, 100, "subL_rReg_ndd", RREGL) >>

SubL_subL_rReg(vm, n) == << Rule(<<"RREGL", "RREGL">>, ~vm.UseAPX, 100, "subL_rReg", RREGL) >>

SubL(vm, n) ==
    SubL_negL_rReg_ndd(vm, n)
    \o SubL_subL_rReg_mem(vm, n)
    \o SubL_subL_rReg(vm, n)

MulL_mulL_mem_imm(vm, n) == <<
    First(<<"_LOADL_MEMORY_", "IMML32">>, TRUE, 300, "mulL_mem_imm", RREGL),
    Rule(<<"_LOADL_MEMORY_", "RREGL">>, vm.UseAPX, 350, "mulL_rReg_rReg_mem_ndd_0", RREGL),
    Rule(<<"RREGL", "_LOADL_MEMORY_">>, vm.UseAPX, 350, "mulL_rReg_rReg_mem_ndd", RREGL),
    Rule(<<"_LOADL_MEMORY_", "RREGL">>, ~vm.UseAPX, 350, "mulL_mem_0", RREGL),
    Rule(<<"RREGL", "_LOADL_MEMORY_">>, ~vm.UseAPX, 350, "mulL_mem", RREGL) >>

MulL_mulL_rReg_imm(vm, n) == <<
    Rule(<<"RREGL", "IMML32">>, TRUE, 300, "mulL_rReg_imm", RREGL),
    Rule(<<"RREGL", "RREGL">>, vm.UseAPX, 300, "mulL_rReg_ndd", RREGL),
    Rule(<<"RREGL", "RREGL">>, ~vm.UseAPX, 300, "mulL_rReg", RREGL) >>

MulL(vm, n) ==
    MulL_mulL_mem_imm(vm, n)
    \o MulL_mulL_rReg_imm(vm, n)

AndL_zerox_long_reg_reg(vm, n) == <<
    Inner(<<"_LOADL_MEMORY_", "_CASTP2X_RREGP_">>, "_ANDL__LOADL_MEMORY___CASTP2X_RREGP_"),
    Inner(<<"_CASTP2X_RREGP_", "_LOADL_MEMORY_">>, "_ANDL__CASTP2X_RREGP___LOADL_MEMORY_"),
    Inner(<<"RREGL", "RREGL">>, "_ANDL_RREGL_RREGL"),
    Inner(<<"RREGL", "IMML32">>, "_ANDL_RREGL_IMML32"),
    First(<<"RREGL", "IMML_32BITS">>, TRUE, 100, "zerox_long_reg_reg", RREGL),
    Rule(<<"_CONVI2L_RREGI_", "IMML_32BITS">>, TRUE, 100, "convI2L_reg_reg_zex", RREGL),
    Rule(<<"_LOADL_MEMORY_", "_ADDL__LOADL_MEMORY__IMML_M1">>,
         vm.UseBMI1Instructions /\ Kid2(n, 1, 1) = Kid3(n, 2, 1, 1), 125, "blsrL_rReg_mem_0",
         RREGL),
    Rule(<<"_ADDL__LOADL_MEMORY__IMML_M1", "_LOADL_MEMORY_">>,
         vm.UseBMI1Instructions /\ Kid3(n, 1, 1, 1) = Kid2(n, 2, 1), 125, "blsrL_rReg_mem",
         RREGL) >>

AndL_blsrL_rReg_rReg_0(vm, n) == <<
    Rule(<<"RREGL", "_ADDL_RREGL_IMML_M1">>,
         vm.UseBMI1Instructions /\ Kid(n, 1) = Kid2(n, 2, 1), 100, "blsrL_rReg_rReg_0", RREGL),
    Rule(<<"_ADDL_RREGL_IMML_M1", "RREGL">>,
         vm.UseBMI1Instructions /\ Kid2(n, 1, 1) = Kid(n, 2), 100, "blsrL_rReg_rReg", RREGL),
    Rule(<<"_LOADL_MEMORY_", "_SUBL_IMML0__LOADL_MEMORY_">>,
         vm.UseBMI1Instructions /\ Kid2(n, 1, 1) = Kid3(n, 2, 2, 1), 125, "blsiL_rReg_mem_0",
         RREGL),
    Rule(<<"_SUBL_IMML0__LOADL_MEMORY_", "_LOADL_MEMORY_">>,
         vm.UseBMI1Instructions /\ Kid3(n, 1, 2, 1) = Kid2(n, 2, 1), 125, "blsiL_rReg_mem",
         RREGL) >>

AndL_blsiL_rReg_rReg_0(vm, n) == <<
    Rule(<<"RREGL", "_SUBL_IMML0_RREGL">>, vm.UseBMI1Instructions /\ Kid(n, 1) = Kid2(n, 2, 2),
         100, "blsiL_rReg_rReg_0", RREGL),
    Rule(<<"_SUBL_IMML0_RREGL", "RREGL">>, vm.UseBMI1Instructions /\ Kid2(n, 1, 2) = Kid(n, 2),
         100, "blsiL_rReg_rReg", RREGL),
    Rule(<<"RREGL", "_XORL_RREGL_IMML_M1">>, vm.UseBMI1Instructions, 100,
         "andnL_rReg_rReg_rReg_0", RREGL),
    Rule(<<"_XORL_RREGL_IMML_M1", "RREGL">>, vm.UseBMI1Instructions, 100,
         "andnL_rReg_rReg_rReg", RREGL) >>

AndL_andnL_rReg_rReg_mem_0(vm, n) == <<
    Rule(<<"_LOADL_MEMORY_", "_XORL_RREGL_IMML_M1">>, vm.UseBMI1Instructions, 125,
         "andnL_rReg_rReg_mem_0", RREGL),
    Rule(<<"_XORL_RREGL_IMML_M1", "_LOADL_MEMORY_">>, vm.UseBMI1Instructions, 125,
         "andnL_rReg_rReg_mem", RREGL),
    Inner(<<"_LOADL_MEMORY_", "IMML_NOTPOW2">>, "_ANDL__LOADL_MEMORY__IMML_NOTPOW2"),
    Inner(<<"_LOADL_MEMORY_", "IMML32">>, "_ANDL__LOADL_MEMORY__IMML32"),
    Inner(<<"RREGL", "_LOADL_MEMORY_">>, "_ANDL_RREGL__LOADL_MEMORY_"),
    Inner(<<"_LOADL_MEMORY_", "RREGL">>, "_ANDL__LOADL_MEMORY__RREGL"),
    Rule(<<"_LOADL_MEMORY_", "RREGL">>, vm.UseAPX, 150, "andL_rReg_rReg_mem_ndd_0", RREGL),
    Rule(<<"RREGL", "_LOADL_MEMORY_">>, vm.UseAPX, 150, "andL_rReg_rReg_mem_ndd", RREGL) >>

AndL_andL_rReg_mem_0(vm, n) == <<
    Rule(<<"_LOADL_MEMORY_", "RREGL">>, ~vm.UseAPX, 150, "andL_rReg_mem_0", RREGL),
    Rule(<<"RREGL", "_LOADL_MEMORY_">>, ~vm.UseAPX, 150, "andL_rReg_mem", RREGL),
    Rule(<<"_LOADL_MEMORY_", "IMML32">>, vm.UseAPX, 100, "andL_rReg_mem_imm_ndd", RREGL),
    Rule(<<"RREGL", "IMML32">>, vm.UseAPX, 100, "andL_rReg_rReg_imm_ndd", RREGL) >>

AndL_andL_rReg_imm(vm, n) == <<
    Rule(<<"RREGL", "IMML32">>, ~vm.UseAPX, 100, "andL_rReg_imm", RREGL),
    Rule(<<"RREGL", "IMML_65535">>, TRUE, 100, "andL_rReg_imm65535", RREGL),
    Rule(<<"RREGL", "IMML_255">>, TRUE, 100, "andL_rReg_imm255", RREGL),
    Rule(<<"RREGL", "RREGL">>, vm.UseAPX, 100, "andL_rReg_ndd", RREGL),
    Rule(<<"RREGL", "RREGL">>, ~vm.UseAPX, 100, "andL_rReg", RREGL) >>

AndL_loadUI2L(vm, n) == <<
    Rule(<<"_CONVI2L__LOADI_MEMORY__", "IMML_32BITS">>, TRUE, 125, "loadUI2L", RREGL) >>

AndL(vm, n) ==
    AndL_zerox_long_reg_reg(vm, n)
    \o AndL_blsrL_rReg_rReg_0(vm, n)
    \o AndL_blsiL_rReg_rReg_0(vm, n)
    \o AndL_andnL_rReg_rReg_mem_0(vm, n)
    \o AndL_andL_rReg_mem_0(vm, n)
    \o AndL_andL_rReg_imm(vm, n)
    \o AndL_loadUI2L(vm, n)

OrL_orL_rReg_rReg_mem_ndd_0(vm, n) == <<
    Inner(<<"_LOADL_MEMORY_", "IMML_POW2">>, "_ORL__LOADL_MEMORY__IMML_POW2"),
    Inner(<<"_LOADL_MEMORY_", "IMML32">>, "_ORL__LOADL_MEMORY__IMML32"),
    Inner(<<"RREGL", "_LOADL_MEMORY_">>, "_ORL_RREGL__LOADL_MEMORY_"),
    Inner(<<"_LOADL_MEMORY_", "RREGL">>, "_ORL__LOADL_MEMORY__RREGL"),
    First(<<"_LOADL_MEMORY_", "RREGL">>, vm.UseAPX, 150, "orL_rReg_rReg_mem_ndd_0", RREGL),
    Rule(<<"RREGL", "_LOADL_MEMORY_">>, vm.UseAPX, 150, "orL_rReg_rReg_mem_ndd", RREGL),
    Rule(<<"_LOADL_MEMORY_", "RREGL">>, ~vm.UseAPX, 150, "orL_rReg_mem_0", RREGL),
    Rule(<<"RREGL", "_LOADL_MEMORY_">>, ~vm.UseAPX, 150, "orL_rReg_mem", RREGL) >>

OrL_orL_rReg_mem_imm_ndd(vm, n) == <<
    Rule(<<"_LOADL_MEMORY_", "IMML32">>, vm.UseAPX, 100, "orL_rReg_mem_imm_ndd", RREGL),
    Rule(<<"IMML32", "RREGL">>, vm.UseAPX, 100, "orL_rReg_imm_rReg_ndd", RREGL),
    Rule(<<"RREGL", "IMML32">>, vm.UseAPX, 100, "orL_rReg_rReg_imm_ndd", RREGL),
    Rule(<<"RREGL", "IMML32">>, ~vm.UseAPX, 100, "orL_rReg_imm", RREGL) >>

OrL_orL_rReg_castP2X_ndd_0(vm, n) == <<
    Rule(<<"_CASTP2X_ANY_REGP_", "ANY_REGP">>, TRUE, 100, "orL_rReg_castP2X_ndd_0", RREGL),
    Rule(<<"ANY_REGP", "_CASTP2X_ANY_REGP_">>, TRUE, 100, "orL_rReg_castP2X_ndd", RREGL),
    Rule(<<"_CASTP2X_ANY_REGP_", "RREGL">>, TRUE, 100, "orL_rReg_castP2X_0", RREGL),
    Rule(<<"RREGL", "_CASTP2X_ANY_REGP_">>, TRUE, 100, "orL_rReg_castP2X", RREGL),
    Rule(<<"RREGL", "RREGL">>, vm.UseAPX, 100, "orL_rReg_ndd", RREGL) >>

OrL_orL_rReg(vm, n) == << Rule(<<"RREGL", "RREGL">>, ~vm.UseAPX, 100, "orL_rReg", RREGL) >>

OrL(vm, n) ==
    OrL_orL_rReg_rReg_mem_ndd_0(vm, n)
    \o OrL_orL_rReg_mem_imm_ndd(vm, n)
    \o OrL_orL_rReg_castP2X_ndd_0(vm, n)
    \o OrL_orL_rReg(vm, n)

XorL_xorL_rReg_rReg_mem_ndd(vm, n) == <<
    Inner(<<"_LOADL_MEMORY_", "IMML32">>, "_XORL__LOADL_MEMORY__IMML32"),
    Inner(<<"_LOADL_MEMORY_", "RREGL">>, "_XORL__LOADL_MEMORY__RREGL"),
    First(<<"RREGL", "_LOADL_MEMORY_">>, vm.UseAPX, 150, "xorL_rReg_rReg_mem_ndd", RREGL),
    Rule(<<"RREGL", "_LOADL_MEMORY_">>, ~vm.UseAPX, 150, "xorL_rReg_mem", RREGL),
    Rule(<<"_LOADL_MEMORY_", "IMML32">>, vm.UseAPX, 150, "xorL_rReg_mem_imm", RREGL),
    Rule(<<"RREGL", "IMML32">>, vm.UseAPX /\ ~Long(Kid(n, 2), -1, -1), 100,
         "xorL_rReg_rReg_imm", RREGL) >>

XorL_xorL_rReg_imm(vm, n) == <<
    Rule(<<"RREGL", "IMML32">>, ~vm.UseAPX /\ ~Long(Kid(n, 2), -1, -1), 100, "xorL_rReg_imm",
         RREGL),
    Rule(<<"RREGL", "IMML_M1">>, vm.UseAPX, 100, "xorL_rReg_im1_ndd", RREGL),
    Rule(<<"RREGL", "IMML_M1">>, ~vm.UseAPX, 100, "xorL_rReg_im1", RREGL),
    Rule(<<"RREGL", "RREGL">>, vm.UseAPX, 100, "xorL_rReg_ndd", RREGL) >>

XorL_xorL_rReg(vm, n) == <<
    Rule(<<"RREGL", "RREGL">>, ~vm.UseAPX, 100, "xorL_rReg", RREGL),
    Rule(<<"_ADDL_RREGL_IMML_M1", "RREGL">>,
         vm.UseBMI1Instructions /\ Kid2(n, 1, 1) = Kid(n, 2), 100, "blsmskL_rReg_rReg", RREGL),
    Rule(<<"_ADDL__LOADL_MEMORY__IMML_M1", "_LOADL_MEMORY_">>,
         vm.UseBMI1Instructions /\ Kid3(n, 1, 1, 1) = Kid2(n, 2, 1), 125, "blsmskL_rReg_mem",
         RREGL),
    Inner(<<"RREGL", "IMML_M1">>, "_XORL_RREGL_IMML_M1") >>

XorL(vm, n) ==
    XorL_xorL_rReg_rReg_mem_ndd(vm, n)
    \o XorL_xorL_rReg_imm(vm, n)
    \o XorL_xorL_rReg(vm, n)

LShiftL_leaL_rReg_immI2_peep(vm, n) == <<
    First(<<"RREGL", "IMMI2">>, FALSE, 100, "leaL_rReg_immI2_peep", RREGL),
    Rule(<<"_LOADL_MEMORY_", "RREGI">>, vm.bmi2, 175, "salL_mem_rReg", RREGL),
    Rule(<<"RREGL", "RREGI">>, vm.bmi2, 100, "salL_rReg_rReg", RREGL),
    Inner(<<"_LOADL_MEMORY_", "RCX_REGI">>, "_LSHIFTL__LOADL_MEMORY__RCX_REGI"),
    Rule(<<"RREGL", "RCX_REGI">>, ~vm.bmi2, 100, "salL_rReg_CL", RREGL),
    Inner(<<"_LOADL_MEMORY_", "IMMI8">>, "_LSHIFTL__LOADL_MEMORY__IMMI8") >>

LShiftL_salL_rReg_mem_imm_ndd(vm, n) == <<
    Rule(<<"_LOADL_MEMORY_", "IMMI8">>, vm.UseAPX, 100, "salL_rReg_mem_imm_ndd", RREGL),
    Rule(<<"RREGL", "IMMI8">>, vm.UseAPX, 100, "salL_rReg_imm_ndd", RREGL),
    Rule(<<"RREGL", "IMMI8">>, ~vm.UseAPX, 100, "salL_rReg_imm", RREGL),
    Rule(<<"RREGL", "IMMI2">>, vm.UseAPX, 100, "salL_rReg_immI2_ndd", RREGL) >>

LShiftL_salL_rReg_immI2(vm, n) == <<
    Rule(<<"RREGL", "IMMI2">>, ~vm.UseAPX, 100, "salL_rReg_immI2", RREGL),
    Inner(<<"_CONVI2L_RREGI_", "IMMI2">>, "_LSHIFTL__CONVI2L_RREGI__IMMI2"),
    Inner(<<"RREGL", "IMMI2">>, "_LSHIFTL_RREGL_IMMI2") >>

LShiftL(vm, n) ==
    LShiftL_leaL_rReg_immI2_peep(vm, n)
    \o LShiftL_salL_rReg_mem_imm_ndd(vm, n)
    \o LShiftL_salL_rReg_immI2(vm, n)

RShiftL_sarL_mem_rReg(vm, n) == <<
    First(<<"_LOADL_MEMORY_", "RREGI">>, vm.bmi2, 175, "sarL_mem_rReg", RREGL),
    Rule(<<"RREGL", "RREGI">>, vm.bmi2, 100, "sarL_rReg_rReg", RREGL),
    Inner(<<"_LOADL_MEMORY_", "RCX_REGI">>, "_RSHIFTL__LOADL_MEMORY__RCX_REGI"),
    Rule(<<"RREGL", "RCX_REGI">>, ~vm.bmi2, 100, "sarL_rReg_CL", RREGL),
    Inner(<<"_LOADL_MEMORY_", "IMMI">>, "_RSHIFTL__LOADL_MEMORY__IMMI"),
    Rule(<<"_LOADL_MEMORY_", "IMMI">>, vm.UseAPX, 100, "sarL_rReg_mem_imm_ndd", RREGL) >>

RShiftL_sarL_rReg_imm_ndd(vm, n) == <<
    Rule(<<"RREGL", "IMMI">>, vm.UseAPX, 100, "sarL_rReg_imm_ndd", RREGL),
    Rule(<<"RREGL", "IMMI">>, ~vm.UseAPX, 100, "sarL_rReg_imm", RREGL) >>

RShiftL(vm, n) ==
    RShiftL_sarL_mem_rReg(vm, n)
    \o RShiftL_sarL_rReg_imm_ndd(vm, n)

URShiftL_shrL_mem_rReg(vm, n) == <<
    First(<<"_LOADL_MEMORY_", "RREGI">>, vm.bmi2, 175, "shrL_mem_rReg", RREGL),
    Rule(<<"RREGL", "RREGI">>, vm.bmi2, 100, "shrL_rReg_rReg", RREGL),
    Inner(<<"_LOADL_MEMORY_", "RCX_REGI">>, "_URSHIFTL__LOADL_MEMORY__RCX_REGI"),
    Rule(<<"RREGL", "RCX_REGI">>, ~vm.bmi2, 100, "shrL_rReg_CL", RREGL),
    Inner(<<"_LOADL_MEMORY_", "IMMI8">>, "_URSHIFTL__LOADL_MEMORY__IMMI8"),
    Rule(<<"_LOADL_MEMORY_", "IMMI8">>, vm.UseAPX, 100, "shrL_rReg_mem_imm_ndd", RREGL) >>

URShiftL_shrL_rReg_imm_ndd(vm, n) == <<
    Rule(<<"RREGL", "IMMI8">>, vm.UseAPX, 100, "shrL_rReg_imm_ndd", RREGL),
    Rule(<<"RREGL", "IMMI8">>, ~vm.UseAPX, 100, "shrL_rReg_imm", RREGL) >>

URShiftL(vm, n) ==
    URShiftL_shrL_mem_rReg(vm, n)
    \o URShiftL_shrL_rReg_imm_ndd(vm, n)

ConvI2L_convI2L_reg_reg(vm, n) == <<
    First(<<"RREGI">>, TRUE, 125, "convI2L_reg_reg", RREGL),
    Rule(<<"_ANDI_RREGI_IMMI_POW2M1">>, vm.bmi2, 125, "convI2LAndI_reg_immIbitmask", RREGL),
    Rule(<<"_ANDI_RREGI_IMMI_65535">>, TRUE, 100, "andI2L_rReg_imm65535", RREGL),
    Rule(<<"_ANDI_RREGI_IMMI_255">>, TRUE, 100, "andI2L_rReg_imm255", RREGL),
    Inner(<<"_LOADI_MEMORY_">>, "_CONVI2L__LOADI_MEMORY__"),
    Rule(<<"_ANDI__LOADI_MEMORY__IMMU31">>, TRUE, 100, "loadI2L_immU31", RREGL) >>

ConvI2L_loadI2L_immI_65535(vm, n) == <<
    Rule(<<"_ANDI__LOADI_MEMORY__IMMI_65535">>, TRUE, 100, "loadI2L_immI_65535", RREGL),
    Rule(<<"_ANDI__LOADI_MEMORY__IMMI_255">>, TRUE, 100, "loadI2L_immI_255", RREGL),
    Rule(<<"_LOADI_MEMORY_">>, TRUE, 125, "loadI2L", RREGL),
    Rule(<<"_ANDI__LOADUS_MEMORY__IMMI">>, TRUE, 100, "loadUS2L_immI", RREGL),
    Rule(<<"_ANDI__LOADUS_MEMORY__IMMI_255">>, TRUE, 100, "loadUS2L_immI_255", RREGL) >>

ConvI2L_loadUS2L(vm, n) == <<
    Rule(<<"_LOADUS_MEMORY_">>, TRUE, 125, "loadUS2L", RREGL),
    Rule(<<"_LOADS_MEMORY_">>, TRUE, 125, "loadS2L", RREGL),
    Rule(<<"_ANDI__LOADUB_MEMORY__IMMI">>, TRUE, 100, "loadUB2L_immI", RREGL),
    Rule(<<"_LOADUB_MEMORY_">>, TRUE, 125, "loadUB2L", RREGL),
    Rule(<<"_LOADB_MEMORY_">>, TRUE, 125, "loadB2L", RREGL),
    Inner(<<"RREGI">>, "_CONVI2L_RREGI_") >>

ConvI2L(vm, n) ==
    ConvI2L_convI2L_reg_reg(vm, n)
    \o ConvI2L_loadI2L_immI_65535(vm, n)
    \o ConvI2L_loadUS2L(vm, n)

NegL(vm, n) == <<
    First(<<"RREGL">>, vm.UseAPX, 100, "negL_rReg_2_ndd", RREGL),
    Rule(<<"RREGL">>, ~vm.UseAPX, 100, "negL_rReg_2", RREGL) >>

AbsL(vm, n) == << First(<<"RREGL">>, TRUE, 100, "absL_rReg", RREGL) >>

DivL(vm, n) == << First(<<"RAX_REGL", "NO_RAX_RDX_REGL">>, TRUE, 4000, "divL_rReg", RAX_REGL) >>

ModL(vm, n) == << First(<<"RAX_REGL", "NO_RAX_RDX_REGL">>, TRUE, 300, "modL_rReg", RDX_REGL) >>

MulHiL(vm, n) == << First(<<"RREGL", "RAX_REGL">>, TRUE, 300, "mulHiL_rReg", RDX_REGL) >>

UMulHiL(vm, n) == << First(<<"RREGL", "RAX_REGL">>, TRUE, 300, "umulHiL_rReg", RDX_REGL) >>

CountLeadingZerosL(vm, n) == <<
    First(<<"RREGL">>, ~vm.UseCountLeadingZerosInstruction, 100, "countLeadingZerosL_bsr",
          RREGI),
    Rule(<<"_LOADL_MEMORY_">>, vm.UseCountLeadingZerosInstruction, 175,
         "countLeadingZerosL_mem", RREGI),
    Rule(<<"RREGL">>, vm.UseCountLeadingZerosInstruction, 100, "countLeadingZerosL", RREGI) >>

CountTrailingZerosL(vm, n) == <<
    First(<<"RREGL">>, ~vm.UseCountTrailingZerosInstruction, 100, "countTrailingZerosL_bsf",
          RREGI),
    Rule(<<"_LOADL_MEMORY_">>, vm.UseCountTrailingZerosInstruction, 175,
         "countTrailingZerosL_mem", RREGI),
    Rule(<<"RREGL">>, vm.UseCountTrailingZerosInstruction, 100, "countTrailingZerosL", RREGI) >>

PopCountL(vm, n) == <<
    First(<<"_LOADL_MEMORY_">>, vm.UsePopCountInstruction, 100, "popCountL_mem", RREGI),
    Rule(<<"RREGL">>, vm.UsePopCountInstruction, 100, "popCountL", RREGI) >>

CastLL(vm, n) == <<
    First(<<"RREGL">>, vm.VerifyConstraintCasts > 0 /\ ~Has(n, "imm32"), 100, "castLL_checked",
          RREGL),
    Rule(<<"RREGL">>, vm.VerifyConstraintCasts > 0 /\ Has(n, "imm32"), 100,
         "castLL_checked_L32", RREGL),
    Rule(<<"RREGL">>, vm.VerifyConstraintCasts = 0, 0, "castLL", RREGL) >>
=============================================================================
