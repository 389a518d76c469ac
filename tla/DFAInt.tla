------------------------------- MODULE DFAInt -------------------------------
(***************************************************************************)
(* Integer arithmetic.                                                     *)
(***************************************************************************)
EXTENDS DFAOperands
-----------------------------------------------------------------------------
AddI_leaI_rReg_immI_peep(vm, n) == <<
    First(<<"RREGI", "IMMI">>, FALSE, 100, "leaI_rReg_immI_peep", RREGI),
    Rule(<<"RREGI", "RREGI">>, FALSE, 100, "leaI_rReg_rReg_peep", RREGI),
    Rule(<<"_SUBI_RREGI_RREGI", "_ANDI_RREGI__CMPLTMASK_RREGI_RREGI">>,
         Kid2(n, 1, 1) = Kid3(n, 2, 2, 1) /\ Kid2(n, 1, 2) = Kid3(n, 2, 2, 2), 300,
         "cadd_cmpLTMask_2", RREGI),
    Rule(<<"_ANDI_RREGI__CMPLTMASK_RREGI_RREGI", "_SUBI_RREGI_RREGI">>,
         Kid3(n, 1, 2, 1) = Kid2(n, 2, 1) /\ Kid3(n, 1, 2, 2) = Kid2(n, 2, 2), 300,
         "cadd_cmpLTMask_0", RREGI),
    Rule(<<"_SUBI_RREGI_RREGI", "_ANDI__CMPLTMASK_RREGI_RREGI_RREGI">>,
         Kid2(n, 1, 1) = Kid3(n, 2, 1, 1) /\ Kid2(n, 1, 2) = Kid3(n, 2, 1, 2), 300,
         "cadd_cmpLTMask_1", RREGI) >>

AddI_cadd_cmpLTMask(vm, n) == <<
    Rule(<<"_ANDI__CMPLTMASK_RREGI_RREGI_RREGI", "_SUBI_RREGI_RREGI">>,
         Kid3(n, 1, 1, 1) = Kid2(n, 2, 1) /\ Kid3(n, 1, 1, 2) = Kid2(n, 2, 2), 300,
         "cadd_cmpLTMask", RREGI),
    Inner(<<"RREGI", "IMMI_M1">>, "_ADDI_RREGI_IMMI_M1"),
    Rule(<<"_ADDI__LSHIFTI_RREGI_IMMI2_RREGI", "IMMI">>, vm.fast_3op_lea, 100,
         "leaI_rReg_rReg_immI2_immI_0", RREGI),
    Inner(<<"_LSHIFTI_RREGI_IMMI2", "RREGI">>, "_ADDI__LSHIFTI_RREGI_IMMI2_RREGI"),
    Rule(<<"_ADDI_RREGI__LSHIFTI_RREGI_IMMI2", "IMMI">>, vm.fast_3op_lea, 100,
         "leaI_rReg_rReg_immI2_immI", RREGI),
    Inner(<<"RREGI", "_LSHIFTI_RREGI_IMMI2">>, "_ADDI_RREGI__LSHIFTI_RREGI_IMMI2"),
    Rule(<<"_LSHIFTI_RREGI_IMMI2", "NO_RBP_R13_REGI">>, vm.fast_2op_lea, 100,
         "leaI_rReg_rReg_immI2_0", RREGI) >>

AddI_leaI_rReg_rReg_immI2(vm, n) == <<
    Rule(<<"NO_RBP_R13_REGI", "_LSHIFTI_RREGI_IMMI2">>, vm.fast_2op_lea, 100,
         "leaI_rReg_rReg_immI2", RREGI),
    Rule(<<"_ADDI_RREGI_RREGI", "IMMI">>, vm.fast_3op_lea, 100, "leaI_rReg_rReg_immI", RREGI),
    Inner(<<"RREGI", "RREGI">>, "_ADDI_RREGI_RREGI"),
    Rule(<<"_LSHIFTI_RREGI_IMMI2", "IMMI">>, vm.fast_2op_lea, 100, "leaI_rReg_immI2_immI",
         RREGI),
    Inner(<<"_LOADI_MEMORY_", "IMMI_M1">>, "_ADDI__LOADI_MEMORY__IMMI_M1"),
    Rule(<<"_LOADI_MEMORY_", "IMMI_M1">>, vm.UseAPX /\ vm.UseIncDec, 100, "decI_rReg_mem_ndd",
         RREGI) >>

AddI_decI_rReg_ndd(vm, n) == <<
    Rule(<<"RREGI", "IMMI_M1">>, vm.UseAPX /\ vm.UseIncDec, 100, "decI_rReg_ndd", RREGI),
    Rule(<<"RREGI", "IMMI_M1">>, ~vm.UseAPX /\ vm.UseIncDec, 100, "decI_rReg", RREGI),
    Inner(<<"_LOADI_MEMORY_", "IMMI_1">>, "_ADDI__LOADI_MEMORY__IMMI_1"),
    Rule(<<"_LOADI_MEMORY_", "IMMI_1">>, vm.UseAPX /\ vm.UseIncDec, 100, "incI_rReg_mem_ndd",
         RREGI),
    Rule(<<"RREGI", "IMMI_1">>, vm.UseAPX /\ vm.UseIncDec, 100, "incI_rReg_ndd", RREGI) >>

AddI_incI_rReg(vm, n) == <<
    Rule(<<"RREGI", "IMMI_1">>, ~vm.UseAPX /\ vm.UseIncDec, 100, "incI_rReg", RREGI),
    Inner(<<"_LOADI_MEMORY_", "IMMI">>, "_ADDI__LOADI_MEMORY__IMMI"),
    Inner(<<"RREGI", "_LOADI_MEMORY_">>, "_ADDI_RREGI__LOADI_MEMORY_"),
    Inner(<<"_LOADI_MEMORY_", "RREGI">>, "_ADDI__LOADI_MEMORY__RREGI"),
    Rule(<<"_LOADI_MEMORY_", "RREGI">>, vm.UseAPX, 150, "addI_rReg_rReg_mem_ndd_0", RREGI),
    Rule(<<"RREGI", "_LOADI_MEMORY_">>, vm.UseAPX, 150, "addI_rReg_rReg_mem_ndd", RREGI) >>

AddI_addI_rReg_mem_0(vm, n) == <<
    Rule(<<"_LOADI_MEMORY_", "RREGI">>, ~vm.UseAPX, 150, "addI_rReg_mem_0", RREGI),
    Rule(<<"RREGI", "_LOADI_MEMORY_">>, ~vm.UseAPX, 150, "addI_rReg_mem", RREGI),
    Rule(<<"_LOADI_MEMORY_", "IMMI">>, vm.UseAPX, 100, "addI_rReg_mem_imm_ndd", RREGI),
    Rule(<<"RREGI", "IMMI">>, vm.UseAPX, 100, "addI_rReg_rReg_imm_ndd", RREGI) >>

AddI_addI_rReg_imm(vm, n) == <<
    Rule(<<"RREGI", "IMMI">>, ~vm.UseAPX, 100, "addI_rReg_imm", RREGI),
    Rule(<<"RREGI", "RREGI">>, vm.UseAPX, 100, "addI_rReg_ndd", RREGI),
    Rule(<<"RREGI", "RREGI">>, ~vm.UseAPX, 100, "addI_rReg", RREGI) >>

AddI(vm, n) ==
    AddI_leaI_rReg_immI_peep(vm, n)
    \o AddI_cadd_cmpLTMask(vm, n)
    \o AddI_leaI_rReg_rReg_immI2(vm, n)
    \o AddI_decI_rReg_ndd(vm, n)
    \o AddI_incI_rReg(vm, n)
    \o AddI_addI_rReg_mem_0(vm, n)
    \o AddI_addI_rReg_imm(vm, n)

SubI_negI_rReg_ndd(vm, n) == <<
    Inner(<<"RREGI", "RREGI">>, "_SUBI_RREGI_RREGI"),
    Inner(<<"IMMI_0", "_LOADI_MEMORY_">>, "_SUBI_IMMI_0__LOADI_MEMORY_"),
    First(<<"IMMI_0", "RREGI">>, vm.UseAPX, 100, "negI_rReg_ndd", RREGI),
    Rule(<<"IMMI_0", "RREGI">>, ~vm.UseAPX, 100, "negI_rReg", RREGI),
    Inner(<<"IMMI_0", "RREGI">>, "_SUBI_IMMI_0_RREGI"),
    Inner(<<"_LOADI_MEMORY_", "RREGI">>, "_SUBI__LOADI_MEMORY__RREGI"),
    Rule(<<"_LOADI_MEMORY_", "RREGI">>, vm.UseAPX, 150, "subI_rReg_mem_rReg_ndd", RREGI),
    Rule(<<"RREGI", "_LOADI_MEMORY_">>, vm.UseAPX, 150, "subI_rReg_rReg_mem_ndd", RREGI) >>

SubI_subI_rReg_mem(vm, n) == <<
    Rule(<<"RREGI", "_LOADI_MEMORY_">>, ~vm.UseAPX, 150, "subI_rReg_mem", RREGI),
    Rule(<<"_LOADI_MEMORY_", "IMMI">>, vm.UseAPX, 100, "subI_rReg_mem_imm_ndd", RREGI),
    Rule(<<"RREGI", "IMMI">>, vm.UseAPX, 100, "subI_rReg_rReg_imm_ndd", RREGI),
    Rule(<<"RREGI", "RREGI">>, vm.UseAPX, 100, "subI_rReg_ndd", RREGI) >>

SubI_subI_rReg(vm, n) == << Rule(<<"RREGI", "RREGI">>, ~vm.UseAPX, 100, "subI_rReg", RREGI) >>

SubI(vm, n) ==
    SubI_negI_rReg_ndd(vm, n)
    \o SubI_subI_rReg_mem(vm, n)
    \o SubI_subI_rReg(vm, n)

MulI_mulI_mem_imm(vm, n) == <<
    First(<<"_LOADI_MEMORY_", "IMMI">>, TRUE, 300, "mulI_mem_imm", RREGI),
    Rule(<<"_LOADI_MEMORY_", "RREGI">>, vm.UseAPX, 350, "mulI_rReg_rReg_mem_ndd_0", RREGI),
    Rule(<<"RREGI", "_LOADI_MEMORY_">>, vm.UseAPX, 350, "mulI_rReg_rReg_mem_ndd", RREGI),
    Rule(<<"_LOADI_MEMORY_", "RREGI">>, ~vm.UseAPX, 350, "mulI_mem_0", RREGI) >>

MulI_mulI_mem(vm, n) == <<
    Rule(<<"RREGI", "_LOADI_MEMORY_">>, ~vm.UseAPX, 350, "mulI_mem", RREGI),
    Rule(<<"RREGI", "IMMI">>, TRUE, 300, "mulI_rReg_imm", RREGI),
    Rule(<<"RREGI", "RREGI">>, vm.UseAPX, 300, "mulI_rReg_ndd", RREGI),
    Rule(<<"RREGI", "RREGI">>, ~vm.UseAPX, 300, "mulI_rReg", RREGI) >>

MulI(vm, n) ==
    MulI_mulI_mem_imm(vm, n)
    \o MulI_mulI_mem(vm, n)

AndI_and_cmpLTMask_0(vm, n) == <<
    Inner(<<"_LOADB_MEMORY_", "IMMI8">>, "_ANDI__LOADB_MEMORY__IMMI8"),
    Inner(<<"_LOADUB_MEMORY_", "IMMU7">>, "_ANDI__LOADUB_MEMORY__IMMU7"),
    Inner(<<"RREGI", "RREGI">>, "_ANDI_RREGI_RREGI"),
    Inner(<<"RREGI", "IMMI">>, "_ANDI_RREGI_IMMI"),
    First(<<"RREGI", "_CMPLTMASK_RREGI_RREGI">>, TRUE, 300, "and_cmpLTMask_0", RREGI),
    Rule(<<"_CMPLTMASK_RREGI_RREGI", "RREGI">>, TRUE, 300, "and_cmpLTMask", RREGI),
    Inner(<<"RREGI", "_CMPLTMASK_RREGI_RREGI">>, "_ANDI_RREGI__CMPLTMASK_RREGI_RREGI"),
    Inner(<<"_CMPLTMASK_RREGI_RREGI", "RREGI">>, "_ANDI__CMPLTMASK_RREGI_RREGI_RREGI"),
    Rule(<<"_LOADI_MEMORY_", "_ADDI__LOADI_MEMORY__IMMI_M1">>,
         vm.UseBMI1Instructions /\ Kid2(n, 1, 1) = Kid3(n, 2, 1, 1), 125, "blsrI_rReg_mem_0",
         RREGI),
    Rule(<<"_ADDI__LOADI_MEMORY__IMMI_M1", "_LOADI_MEMORY_">>,
         vm.UseBMI1Instructions /\ Kid3(n, 1, 1, 1) = Kid2(n, 2, 1), 125, "blsrI_rReg_mem",
         RREGI) >>

AndI_blsrI_rReg_rReg_0(vm, n) == <<
    Rule(<<"RREGI", "_ADDI_RREGI_IMMI_M1">>,
         vm.UseBMI1Instructions /\ Kid(n, 1) = Kid2(n, 2, 1), 100, "blsrI_rReg_rReg_0", RREGI),
    Rule(<<"_ADDI_RREGI_IMMI_M1", "RREGI">>,
         vm.UseBMI1Instructions /\ Kid2(n, 1, 1) = Kid(n, 2), 100, "blsrI_rReg_rReg", RREGI),
    Rule(<<"_LOADI_MEMORY_", "_SUBI_IMMI_0__LOADI_MEMORY_">>,
         vm.UseBMI1Instructions /\ Kid2(n, 1, 1) = Kid3(n, 2, 2, 1), 125, "blsiI_rReg_mem_0",
         RREGI),
    Rule(<<"_SUBI_IMMI_0__LOADI_MEMORY_", "_LOADI_MEMORY_">>,
         vm.UseBMI1Instructions /\ Kid3(n, 1, 2, 1) = Kid2(n, 2, 1), 125, "blsiI_rReg_mem",
         RREGI) >>

AndI_blsiI_rReg_rReg_0(vm, n) == <<
    Rule(<<"RREGI", "_SUBI_IMMI_0_RREGI">>, vm.UseBMI1Instructions /\ Kid(n, 1) = Kid2(n, 2, 2),
         100, "blsiI_rReg_rReg_0", RREGI),
    Rule(<<"_SUBI_IMMI_0_RREGI", "RREGI">>, vm.UseBMI1Instructions /\ Kid2(n, 1, 2) = Kid(n, 2),
         100, "blsiI_rReg_rReg", RREGI),
    Rule(<<"RREGI", "_XORI_RREGI_IMMI_M1">>, vm.UseBMI1Instructions, 100,
         "andnI_rReg_rReg_rReg_0", RREGI),
    Rule(<<"_XORI_RREGI_IMMI_M1", "RREGI">>, vm.UseBMI1Instructions, 100,
         "andnI_rReg_rReg_rReg", RREGI) >>

AndI_andnI_rReg_rReg_mem_0(vm, n) == <<
    Rule(<<"_LOADI_MEMORY_", "_XORI_RREGI_IMMI_M1">>, vm.UseBMI1Instructions, 125,
         "andnI_rReg_rReg_mem_0", RREGI),
    Rule(<<"_XORI_RREGI_IMMI_M1", "_LOADI_MEMORY_">>, vm.UseBMI1Instructions, 125,
         "andnI_rReg_rReg_mem", RREGI),
    Inner(<<"_LOADI_MEMORY_", "IMMI">>, "_ANDI__LOADI_MEMORY__IMMI"),
    Inner(<<"RREGI", "_LOADI_MEMORY_">>, "_ANDI_RREGI__LOADI_MEMORY_"),
    Inner(<<"_LOADI_MEMORY_", "RREGI">>, "_ANDI__LOADI_MEMORY__RREGI"),
    Inner(<<"RREGI", "_LOADB_MEMORY_">>, "_ANDI_RREGI__LOADB_MEMORY_"),
    Inner(<<"_LOADB_MEMORY_", "RREGI">>, "_ANDI__LOADB_MEMORY__RREGI"),
    Rule(<<"_LOADI_MEMORY_", "RREGI">>, vm.UseAPX, 150, "andI_rReg_rReg_mem_ndd_0", RREGI) >>

AndI_andI_rReg_rReg_mem_ndd(vm, n) == <<
    Rule(<<"RREGI", "_LOADI_MEMORY_">>, vm.UseAPX, 150, "andI_rReg_rReg_mem_ndd", RREGI),
    Rule(<<"_LOADI_MEMORY_", "RREGI">>, ~vm.UseAPX, 150, "andI_rReg_mem_0", RREGI),
    Rule(<<"RREGI", "_LOADI_MEMORY_">>, ~vm.UseAPX, 150, "andI_rReg_mem", RREGI),
    Rule(<<"_LOADI_MEMORY_", "IMMI">>, vm.UseAPX, 100, "andI_rReg_mem_imm_ndd", RREGI) >>

AndI_andI_rReg_rReg_imm_ndd(vm, n) == <<
    Rule(<<"RREGI", "IMMI">>, vm.UseAPX, 100, "andI_rReg_rReg_imm_ndd", RREGI),
    Rule(<<"RREGI", "IMMI">>, ~vm.UseAPX, 100, "andI_rReg_imm", RREGI),
    Inner(<<"RREGI", "IMMI_POW2M1">>, "_ANDI_RREGI_IMMI_POW2M1"),
    Inner(<<"RREGI", "IMMI_65535">>, "_ANDI_RREGI_IMMI_65535"),
    Rule(<<"RREGI", "IMMI_65535">>, TRUE, 100, "andI_rReg_imm65535", RREGI),
    Inner(<<"RREGI", "IMMI_255">>, "_ANDI_RREGI_IMMI_255"),
    Rule(<<"RREGI", "IMMI_255">>, TRUE, 100, "andI_rReg_imm255", RREGI) >>

AndI_andI_rReg_ndd(vm, n) == <<
    Rule(<<"RREGI", "RREGI">>, vm.UseAPX, 100, "andI_rReg_ndd", RREGI),
    Rule(<<"RREGI", "RREGI">>, ~vm.UseAPX, 100, "andI_rReg", RREGI),
    Inner(<<"_LOADI_MEMORY_", "IMMU31">>, "_ANDI__LOADI_MEMORY__IMMU31"),
    Inner(<<"_LOADI_MEMORY_", "IMMI_65535">>, "_ANDI__LOADI_MEMORY__IMMI_65535"),
    Inner(<<"_LOADI_MEMORY_", "IMMI_255">>, "_ANDI__LOADI_MEMORY__IMMI_255"),
    Rule(<<"_LOADI_MEMORY_", "IMMI_65535">>, TRUE, 125, "loadI2US", RREGI),
    Rule(<<"_LOADI_MEMORY_", "IMMI_255">>, TRUE, 125, "loadI2UB", RREGI),
    Inner(<<"_LOADUS_MEMORY_", "IMMI">>, "_ANDI__LOADUS_MEMORY__IMMI"),
    Inner(<<"_LOADUS_MEMORY_", "IMMI_255">>, "_ANDI__LOADUS_MEMORY__IMMI_255") >>

AndI_inner(vm, n) == << Inner(<<"_LOADUB_MEMORY_", "IMMI">>, "_ANDI__LOADUB_MEMORY__IMMI") >>

AndI(vm, n) ==
    AndI_and_cmpLTMask_0(vm, n)
    \o AndI_blsrI_rReg_rReg_0(vm, n)
    \o AndI_blsiI_rReg_rReg_0(vm, n)
    \o AndI_andnI_rReg_rReg_mem_0(vm, n)
    \o AndI_andI_rReg_rReg_mem_ndd(vm, n)
    \o AndI_andI_rReg_rReg_imm_ndd(vm, n)
    \o AndI_andI_rReg_ndd(vm, n)
    \o AndI_inner(vm, n)

OrI_orI_rReg_rReg_mem_ndd_0(vm, n) == <<
    Inner(<<"_LOADI_MEMORY_", "IMMI">>, "_ORI__LOADI_MEMORY__IMMI"),
    Inner(<<"RREGI", "_LOADI_MEMORY_">>, "_ORI_RREGI__LOADI_MEMORY_"),
    Inner(<<"_LOADI_MEMORY_", "RREGI">>, "_ORI__LOADI_MEMORY__RREGI"),
    Inner(<<"RREGI", "_LOADB_MEMORY_">>, "_ORI_RREGI__LOADB_MEMORY_"),
    Inner(<<"_LOADB_MEMORY_", "RREGI">>, "_ORI__LOADB_MEMORY__RREGI"),
    First(<<"_LOADI_MEMORY_", "RREGI">>, vm.UseAPX, 150, "orI_rReg_rReg_mem_ndd_0", RREGI),
    Rule(<<"RREGI", "_LOADI_MEMORY_">>, vm.UseAPX, 150, "orI_rReg_rReg_mem_ndd", RREGI),
    Rule(<<"_LOADI_MEMORY_", "RREGI">>, ~vm.UseAPX, 150, "orI_rReg_mem_0", RREGI),
    Rule(<<"RREGI", "_LOADI_MEMORY_">>, ~vm.UseAPX, 150, "orI_rReg_mem", RREGI) >>

OrI_orI_rReg_mem_imm_ndd(vm, n) == <<
    Rule(<<"_LOADI_MEMORY_", "IMMI">>, vm.UseAPX, 100, "orI_rReg_mem_imm_ndd", RREGI),
    Rule(<<"IMMI", "RREGI">>, vm.UseAPX, 100, "orI_rReg_imm_rReg_ndd", RREGI),
    Rule(<<"RREGI", "IMMI">>, vm.UseAPX, 100, "orI_rReg_rReg_imm_ndd", RREGI),
    Rule(<<"RREGI", "IMMI">>, ~vm.UseAPX, 100, "orI_rReg_imm", RREGI) >>

OrI_orI_rReg_ndd(vm, n) == <<
    Rule(<<"RREGI", "RREGI">>, vm.UseAPX, 100, "orI_rReg_ndd", RREGI),
    Rule(<<"RREGI", "RREGI">>, ~vm.UseAPX, 100, "orI_rReg", RREGI) >>

OrI(vm, n) ==
    OrI_orI_rReg_rReg_mem_ndd_0(vm, n)
    \o OrI_orI_rReg_mem_imm_ndd(vm, n)
    \o OrI_orI_rReg_ndd(vm, n)

XorI_xorI_rReg_rReg_mem_ndd_0(vm, n) == <<
    Inner(<<"_LOADI_MEMORY_", "IMMI">>, "_XORI__LOADI_MEMORY__IMMI"),
    Inner(<<"RREGI", "_LOADI_MEMORY_">>, "_XORI_RREGI__LOADI_MEMORY_"),
    Inner(<<"_LOADI_MEMORY_", "RREGI">>, "_XORI__LOADI_MEMORY__RREGI"),
    Inner(<<"RREGI", "_LOADB_MEMORY_">>, "_XORI_RREGI__LOADB_MEMORY_"),
    Inner(<<"_LOADB_MEMORY_", "RREGI">>, "_XORI__LOADB_MEMORY__RREGI"),
    First(<<"_LOADI_MEMORY_", "RREGI">>, vm.UseAPX, 150, "xorI_rReg_rReg_mem_ndd_0", RREGI),
    Rule(<<"RREGI", "_LOADI_MEMORY_">>, vm.UseAPX, 150, "xorI_rReg_rReg_mem_ndd", RREGI),
    Rule(<<"_LOADI_MEMORY_", "RREGI">>, ~vm.UseAPX, 150, "xorI_rReg_mem_0", RREGI),
    Rule(<<"RREGI", "_LOADI_MEMORY_">>, ~vm.UseAPX, 150, "xorI_rReg_mem", RREGI) >>

XorI_xorI_rReg_mem_imm_ndd(vm, n) == <<
    Rule(<<"_LOADI_MEMORY_", "IMMI">>, vm.UseAPX, 150, "xorI_rReg_mem_imm_ndd", RREGI),
    Rule(<<"RREGI", "IMMI">>, vm.UseAPX /\ Kid(n, 2).lo # -1, 100, "xorI_rReg_rReg_imm_ndd",
         RREGI),
    Rule(<<"RREGI", "IMMI">>, ~vm.UseAPX /\ Kid(n, 2).lo # -1, 100, "xorI_rReg_imm", RREGI),
    Rule(<<"RREGI", "IMMI_M1">>, vm.UseAPX, 100, "xorI_rReg_im1_ndd", RREGI) >>

XorI_xorI_rReg_im1(vm, n) == <<
    Rule(<<"RREGI", "IMMI_M1">>, ~vm.UseAPX, 100, "xorI_rReg_im1", RREGI),
    Rule(<<"RREGI", "RREGI">>, vm.UseAPX, 100, "xorI_rReg_ndd", RREGI),
    Rule(<<"RREGI", "RREGI">>, ~vm.UseAPX, 100, "xorI_rReg", RREGI),
    Rule(<<"RREGI", "_ADDI_RREGI_IMMI_M1">>,
         vm.UseBMI1Instructions /\ Kid(n, 1) = Kid2(n, 2, 1), 100, "blsmskI_rReg_rReg_0", RREGI) >>

XorI_blsmskI_rReg_rReg(vm, n) == <<
    Rule(<<"_ADDI_RREGI_IMMI_M1", "RREGI">>,
         vm.UseBMI1Instructions /\ Kid2(n, 1, 1) = Kid(n, 2), 100, "blsmskI_rReg_rReg", RREGI),
    Rule(<<"_LOADI_MEMORY_", "_ADDI__LOADI_MEMORY__IMMI_M1">>,
         vm.UseBMI1Instructions /\ Kid2(n, 1, 1) = Kid3(n, 2, 1, 1), 125, "blsmskI_rReg_mem_0",
         RREGI),
    Rule(<<"_ADDI__LOADI_MEMORY__IMMI_M1", "_LOADI_MEMORY_">>,
         vm.UseBMI1Instructions /\ Kid3(n, 1, 1, 1) = Kid2(n, 2, 1), 125, "blsmskI_rReg_mem",
         RREGI),
    Inner(<<"RREGI", "IMMI_M1">>, "_XORI_RREGI_IMMI_M1") >>

XorI(vm, n) ==
    XorI_xorI_rReg_rReg_mem_ndd_0(vm, n)
    \o XorI_xorI_rReg_mem_imm_ndd(vm, n)
    \o XorI_xorI_rReg_im1(vm, n)
    \o XorI_blsmskI_rReg_rReg(vm, n)

LShiftI_leaI_rReg_immI2_peep(vm, n) == <<
    First(<<"RREGI", "IMMI2">>, FALSE, 100, "leaI_rReg_immI2_peep", RREGI),
    Inner(<<"RREGI", "IMMI_16">>, "_LSHIFTI_RREGI_IMMI_16"),
    Inner(<<"RREGI", "IMMI_24">>, "_LSHIFTI_RREGI_IMMI_24"),
    Rule(<<"_LOADI_MEMORY_", "RREGI">>, vm.bmi2, 175, "salI_mem_rReg", RREGI),
    Rule(<<"RREGI", "RREGI">>, vm.bmi2, 100, "salI_rReg_rReg", RREGI),
    Inner(<<"_LOADI_MEMORY_", "RCX_REGI">>, "_LSHIFTI__LOADI_MEMORY__RCX_REGI"),
    Rule(<<"RREGI", "RCX_REGI">>, ~vm.bmi2, 100, "salI_rReg_CL", RREGI),
    Inner(<<"_LOADI_MEMORY_", "IMMI8">>, "_LSHIFTI__LOADI_MEMORY__IMMI8") >>

LShiftI_salI_rReg_mem_imm_ndd(vm, n) == <<
    Rule(<<"_LOADI_MEMORY_", "IMMI8">>, vm.UseAPX, 100, "salI_rReg_mem_imm_ndd", RREGI),
    Rule(<<"RREGI", "IMMI8">>, vm.UseAPX, 100, "salI_rReg_imm_ndd", RREGI),
    Rule(<<"RREGI", "IMMI8">>, ~vm.UseAPX, 100, "salI_rReg_imm", RREGI),
    Rule(<<"RREGI", "IMMI2">>, vm.UseAPX, 100, "salI_rReg_immI2_ndd", RREGI) >>

LShiftI_salI_rReg_immI2(vm, n) == <<
    Rule(<<"RREGI", "IMMI2">>, ~vm.UseAPX, 100, "salI_rReg_immI2", RREGI),
    Inner(<<"RREGI", "IMMI2">>, "_LSHIFTI_RREGI_IMMI2"),
    Inner(<<"_LOADI_MEMORY_", "IMMI_16">>, "_LSHIFTI__LOADI_MEMORY__IMMI_16"),
    Inner(<<"_LOADI_MEMORY_", "IMMI_24">>, "_LSHIFTI__LOADI_MEMORY__IMMI_24"),
    Inner(<<"_LOADUS_MEMORY_", "IMMI_24">>, "_LSHIFTI__LOADUS_MEMORY__IMMI_24"),
    Inner(<<"_LOADS_MEMORY_", "IMMI_24">>, "_LSHIFTI__LOADS_MEMORY__IMMI_24") >>

LShiftI(vm, n) ==
    LShiftI_leaI_rReg_immI2_peep(vm, n)
    \o LShiftI_salI_rReg_mem_imm_ndd(vm, n)
    \o LShiftI_salI_rReg_immI2(vm, n)

RShiftI_i2s(vm, n) == <<
    First(<<"_LSHIFTI_RREGI_IMMI_16", "IMMI_16">>, Kid2(n, 1, 2) = Kid(n, 2), 100, "i2s", RREGI),
    Rule(<<"_LSHIFTI_RREGI_IMMI_24", "IMMI_24">>, Kid2(n, 1, 2) = Kid(n, 2), 100, "i2b", RREGI),
    Rule(<<"_LOADI_MEMORY_", "RREGI">>, vm.bmi2, 175, "sarI_mem_rReg", RREGI),
    Rule(<<"RREGI", "RREGI">>, vm.bmi2, 100, "sarI_rReg_rReg", RREGI),
    Inner(<<"_LOADI_MEMORY_", "RCX_REGI">>, "_RSHIFTI__LOADI_MEMORY__RCX_REGI") >>

RShiftI_sarI_rReg_CL(vm, n) == <<
    Rule(<<"RREGI", "RCX_REGI">>, ~vm.bmi2, 100, "sarI_rReg_CL", RREGI),
    Inner(<<"_LOADI_MEMORY_", "IMMI8">>, "_RSHIFTI__LOADI_MEMORY__IMMI8"),
    Rule(<<"_LOADI_MEMORY_", "IMMI8">>, vm.UseAPX, 100, "sarI_rReg_mem_imm_ndd", RREGI),
    Rule(<<"RREGI", "IMMI8">>, vm.UseAPX, 100, "sarI_rReg_imm_ndd", RREGI),
    Rule(<<"RREGI", "IMMI8">>, ~vm.UseAPX, 100, "sarI_rReg_imm", RREGI) >>

RShiftI_loadI2S(vm, n) == <<
    Rule(<<"_LSHIFTI__LOADI_MEMORY__IMMI_16", "IMMI_16">>, Kid2(n, 1, 2) = Kid(n, 2), 125,
         "loadI2S", RREGI),
    Rule(<<"_LSHIFTI__LOADI_MEMORY__IMMI_24", "IMMI_24">>, Kid2(n, 1, 2) = Kid(n, 2), 125,
         "loadI2B", RREGI),
    Rule(<<"_LSHIFTI__LOADUS_MEMORY__IMMI_24", "IMMI_24">>, Kid2(n, 1, 2) = Kid(n, 2), 125,
         "loadUS2B", RREGI),
    Rule(<<"_LSHIFTI__LOADS_MEMORY__IMMI_24", "IMMI_24">>, Kid2(n, 1, 2) = Kid(n, 2), 125,
         "loadS2B", RREGI) >>

RShiftI(vm, n) ==
    RShiftI_i2s(vm, n)
    \o RShiftI_sarI_rReg_CL(vm, n)
    \o RShiftI_loadI2S(vm, n)

URShiftI_shrI_mem_rReg(vm, n) == <<
    First(<<"_LOADI_MEMORY_", "RREGI">>, vm.bmi2, 175, "shrI_mem_rReg", RREGI),
    Rule(<<"RREGI", "RREGI">>, vm.bmi2, 100, "shrI_rReg_rReg", RREGI),
    Inner(<<"_LOADI_MEMORY_", "RCX_REGI">>, "_URSHIFTI__LOADI_MEMORY__RCX_REGI"),
    Rule(<<"RREGI", "RCX_REGI">>, ~vm.bmi2, 100, "shrI_rReg_CL", RREGI),
    Inner(<<"_LOADI_MEMORY_", "IMMI8">>, "_URSHIFTI__LOADI_MEMORY__IMMI8"),
    Rule(<<"_LOADI_MEMORY_", "IMMI8">>, vm.UseAPX, 100, "shrI_rReg_mem_imm_ndd", RREGI) >>

URShiftI_shrI_rReg_imm_ndd(vm, n) == <<
    Rule(<<"RREGI", "IMMI8">>, vm.UseAPX, 100, "shrI_rReg_imm_ndd", RREGI),
    Rule(<<"RREGI", "IMMI8">>, ~vm.UseAPX, 100, "shrI_rReg_imm", RREGI) >>

URShiftI(vm, n) ==
    URShiftI_shrI_mem_rReg(vm, n)
    \o URShiftI_shrI_rReg_imm_ndd(vm, n)

CmpLTMask(vm, n) == <<
    Inner(<<"RREGI", "RREGI">>, "_CMPLTMASK_RREGI_RREGI"),
    First(<<"RREGI", "IMMI_0">>, TRUE, 100, "cmpLTMask0", RREGI),
    Rule(<<"RREGI", "RREGI">>, TRUE, 400, "cmpLTMask", RREGI) >>

ConvL2I(vm, n) == <<
    First(<<"RREGL">>, TRUE, 100, "convL2I_reg_reg", RREGI),
    Rule(<<"_CASTP2X__DECODEN_RREGN__">>, vm.shift = 0, 100, "convN2I", RREGI),
    Rule(<<"_CASTP2X_RREGP_">>, TRUE, 100, "convP2I", RREGI) >>

MaxI(vm, n) == <<
    First(<<"RREGI", "RREGI">>, vm.UseAPX, 200, "maxI_rReg_ndd", RREGI),
    Rule(<<"RREGI", "RREGI">>, ~vm.UseAPX, 200, "maxI_rReg", RREGI) >>

MinI(vm, n) == <<
    First(<<"RREGI", "RREGI">>, vm.UseAPX, 200, "minI_rReg_ndd", RREGI),
    Rule(<<"RREGI", "RREGI">>, ~vm.UseAPX, 200, "minI_rReg", RREGI) >>

NegI(vm, n) == <<
    First(<<"RREGI">>, vm.UseAPX, 100, "negI_rReg_2_ndd", RREGI),
    Rule(<<"RREGI">>, ~vm.UseAPX, 100, "negI_rReg_2", RREGI) >>

AbsI(vm, n) == << First(<<"RREGI">>, TRUE, 100, "absI_rReg", RREGI) >>

DivI(vm, n) == << First(<<"RAX_REGI", "NO_RAX_RDX_REGI">>, TRUE, 4000, "divI_rReg", RAX_REGI) >>

ModI(vm, n) == << First(<<"RAX_REGI", "NO_RAX_RDX_REGI">>, TRUE, 300, "modI_rReg", RDX_REGI) >>

MulAddS2I(vm, n) == <<
    First(<<"_BINARY_RREGI_RREGI", "_BINARY_RREGI_RREGI">>, TRUE, 100, "mulAddS2I_rReg", RREGI) >>

RotateLeft_rolL_rReg_Var_ndd(vm, n) == <<
    First(<<"RREGL", "RCX_REGI">>, vm.UseAPX /\ Has(n, "long"), 100, "rolL_rReg_Var_ndd", RREGL),
    Rule(<<"RREGL", "RCX_REGI">>, ~vm.UseAPX /\ Has(n, "long"), 100, "rolL_rReg_Var", RREGL),
    Rule(<<"_LOADL_MEMORY_", "IMMI8">>, vm.bmi2 /\ Has(n, "long"), 175, "rolL_mem_immI8", RREGL),
    Rule(<<"RREGL", "IMMI8">>, ~vm.UseAPX /\ vm.bmi2 /\ Has(n, "long"), 100, "rolL_immI8",
         RREGL),
    Rule(<<"RREGL", "IMMI8">>, ~vm.bmi2 /\ Has(n, "long"), 100, "rolL_immI8_legacy", RREGL) >>

RotateLeft_rolI_rReg_Var_ndd(vm, n) == <<
    First(<<"RREGI", "RCX_REGI">>, vm.UseAPX /\ Has(n, "int"), 100, "rolI_rReg_Var_ndd", RREGI),
    Rule(<<"RREGI", "RCX_REGI">>, ~vm.UseAPX /\ Has(n, "int"), 100, "rolI_rReg_Var", RREGI),
    Rule(<<"_LOADI_MEMORY_", "IMMI8">>, vm.bmi2 /\ Has(n, "int"), 175, "rolI_mem_immI8", RREGI),
    Rule(<<"RREGI", "IMMI8">>, ~vm.UseAPX /\ vm.bmi2 /\ Has(n, "int"), 100, "rolI_immI8", RREGI) >>

RotateLeft_rolI_immI8_legacy(vm, n) == <<
    Rule(<<"RREGI", "IMMI8">>, ~vm.bmi2 /\ Has(n, "int"), 100, "rolI_immI8_legacy", RREGI) >>

RotateLeft(vm, n) ==
    RotateLeft_rolL_rReg_Var_ndd(vm, n)
    \o RotateLeft_rolI_rReg_Var_ndd(vm, n)
    \o RotateLeft_rolI_immI8_legacy(vm, n)

RotateRight_rorL_rReg_Var_ndd(vm, n) == <<
    First(<<"RREGL", "RCX_REGI">>, vm.UseAPX /\ Has(n, "long"), 100, "rorL_rReg_Var_ndd", RREGL),
    Rule(<<"RREGL", "RCX_REGI">>, ~vm.UseAPX /\ Has(n, "long"), 100, "rorL_rReg_Var", RREGL),
    Rule(<<"_LOADL_MEMORY_", "IMMI8">>, vm.bmi2 /\ Has(n, "long"), 175, "rorL_mem_immI8", RREGL),
    Rule(<<"RREGL", "IMMI8">>, vm.bmi2 /\ Has(n, "long"), 100, "rorL_immI8", RREGL),
    Rule(<<"RREGL", "IMMI8">>, ~vm.bmi2 /\ Has(n, "long"), 100, "rorL_immI8_legacy", RREGL) >>

RotateRight_rorI_rReg_Var_ndd(vm, n) == <<
    First(<<"RREGI", "RCX_REGI">>, vm.UseAPX /\ Has(n, "int"), 100, "rorI_rReg_Var_ndd", RREGI),
    Rule(<<"RREGI", "RCX_REGI">>, ~vm.UseAPX /\ Has(n, "int"), 100, "rorI_rReg_Var", RREGI),
    Rule(<<"_LOADI_MEMORY_", "IMMI8">>, vm.bmi2 /\ Has(n, "int"), 175, "rorI_mem_immI8", RREGI),
    Rule(<<"RREGI", "IMMI8">>, ~vm.UseAPX /\ vm.bmi2 /\ Has(n, "int"), 100, "rorI_immI8", RREGI) >>

RotateRight_rorI_immI8_legacy(vm, n) == <<
    Rule(<<"RREGI", "IMMI8">>, ~vm.bmi2 /\ Has(n, "int"), 100, "rorI_immI8_legacy", RREGI) >>

RotateRight(vm, n) ==
    RotateRight_rorL_rReg_Var_ndd(vm, n)
    \o RotateRight_rorI_rReg_Var_ndd(vm, n)
    \o RotateRight_rorI_immI8_legacy(vm, n)

CountLeadingZerosI(vm, n) == <<
    First(<<"RREGI">>, ~vm.UseCountLeadingZerosInstruction, 100, "countLeadingZerosI_bsr",
          RREGI),
    Rule(<<"_LOADI_MEMORY_">>, vm.UseCountLeadingZerosInstruction, 175,
         "countLeadingZerosI_mem", RREGI),
    Rule(<<"RREGI">>, vm.UseCountLeadingZerosInstruction, 100, "countLeadingZerosI", RREGI) >>

CountTrailingZerosI(vm, n) == <<
    First(<<"RREGI">>, ~vm.UseCountTrailingZerosInstruction, 100, "countTrailingZerosI_bsf",
          RREGI),
    Rule(<<"_LOADI_MEMORY_">>, vm.UseCountTrailingZerosInstruction, 175,
         "countTrailingZerosI_mem", RREGI),
    Rule(<<"RREGI">>, vm.UseCountTrailingZerosInstruction, 100, "countTrailingZerosI", RREGI) >>

PopCountI(vm, n) == <<
    First(<<"_LOADI_MEMORY_">>, vm.UsePopCountInstruction, 100, "popCountI_mem", RREGI),
    Rule(<<"RREGI">>, vm.UsePopCountInstruction, 100, "popCountI", RREGI) >>

CastII(vm, n) == <<
    First(<<"RREGI">>, vm.VerifyConstraintCasts > 0, 100, "castII_checked", RREGI),
    Rule(<<"RREGI">>, vm.VerifyConstraintCasts = 0, 0, "castII", RREGI) >>
=============================================================================
