----------------------------- MODULE DFACompare -----------------------------
(***************************************************************************)
(* Comparisons, branches and conditional moves.  The matcher pairs the     *)
(* test and the flags, and the two values of a CMove, in Binary nodes.     *)
(***************************************************************************)
EXTENDS DFAOperands
-----------------------------------------------------------------------------
CmpI(vm, n) == <<
    First(<<"_ANDI__LOADB_MEMORY__IMMI8", "IMMI_0">>, TRUE, 125, "testB_mem_imm",
          One("RFLAGSREG")),
    Rule(<<"_ANDI__LOADUB_MEMORY__IMMU7", "IMMI_0">>, TRUE, 125, "testUB_mem_imm",
         One("RFLAGSREG")),
    Rule(<<"_LOADB_MEMORY_", "IMMI8">>, TRUE, 125, "compB_mem_imm", One("RFLAGSREG")),
    Rule(<<"_ANDI__LOADI_MEMORY__RREGI", "IMMI_0">>, TRUE, 100, "testI_reg_mem_0",
         One("RFLAGSREG")),
    Rule(<<"_ANDI_RREGI__LOADI_MEMORY_", "IMMI_0">>, TRUE, 100, "testI_reg_mem",
         One("RFLAGSREG")),
    Rule(<<"_ANDI_RREGI_RREGI", "IMMI_0">>, TRUE, 100, "testI_reg_reg", One("RFLAGSREG")),
    Rule(<<"_ANDI_RREGI_IMMI", "IMMI_0">>, TRUE, 100, "testI_reg_imm", One("RFLAGSREG")),
    Rule(<<"RREGI", "IMMI_0">>, TRUE, 100, "testI_reg", One("RFLAGSREG")),
    Rule(<<"RREGI", "_LOADI_MEMORY_">>, TRUE, 500, "compI_rReg_mem", One("RFLAGSREG")),
    Rule(<<"RREGI", "IMMI">>, TRUE, 100, "compI_rReg_imm", One("RFLAGSREG")),
    Rule(<<"RREGI", "RREGI">>, TRUE, 100, "compI_rReg", One("RFLAGSREG")) >>

CmpU(vm, n) == <<
    First(<<"RREGI", "IMMI_0">>, TRUE, 100, "testU_reg", One("RFLAGSREGU")),
    Rule(<<"RREGI", "_LOADI_MEMORY_">>, TRUE, 500, "compU_rReg_mem", One("RFLAGSREGU")),
    Rule(<<"RREGI", "IMMI">>, TRUE, 100, "compU_rReg_imm", One("RFLAGSREGU")),
    Rule(<<"RREGI", "RREGI">>, TRUE, 100, "compU_rReg", One("RFLAGSREGU")) >>

CmpL(vm, n) == <<
    First(<<"_ANDL__LOADL_MEMORY___CASTP2X_RREGP_", "IMML0">>, TRUE, 100, "testL_reg_mem2_0",
          One("RFLAGSREG")),
    Rule(<<"_ANDL__CASTP2X_RREGP___LOADL_MEMORY_", "IMML0">>, TRUE, 100, "testL_reg_mem2",
         One("RFLAGSREG")),
    Rule(<<"_ANDL__LOADL_MEMORY__RREGL", "IMML0">>, TRUE, 100, "testL_reg_mem_0",
         One("RFLAGSREG")),
    Rule(<<"_ANDL_RREGL__LOADL_MEMORY_", "IMML0">>, TRUE, 100, "testL_reg_mem",
         One("RFLAGSREG")),
    Rule(<<"_ANDL_RREGL_RREGL", "IMML0">>, TRUE, 100, "testL_reg_reg", One("RFLAGSREG")),
    Rule(<<"_ANDL_RREGL_IMML32", "IMML0">>, TRUE, 100, "testL_reg_imm", One("RFLAGSREG")),
    Rule(<<"RREGL", "IMML0">>, TRUE, 100, "testL_reg", One("RFLAGSREG")),
    Rule(<<"RREGL", "_LOADL_MEMORY_">>, TRUE, 100, "compL_rReg_mem", One("RFLAGSREG")),
    Rule(<<"RREGL", "IMML32">>, TRUE, 100, "compL_rReg_imm", One("RFLAGSREG")),
    Rule(<<"RREGL", "RREGL">>, TRUE, 100, "compL_rReg", One("RFLAGSREG")) >>

CmpUL(vm, n) == <<
    First(<<"RREGL", "IMML0">>, TRUE, 100, "testUL_reg", One("RFLAGSREGU")),
    Rule(<<"RREGL", "_LOADL_MEMORY_">>, TRUE, 100, "compUL_rReg_mem", One("RFLAGSREGU")),
    Rule(<<"RREGL", "IMML32">>, TRUE, 100, "compUL_rReg_imm", One("RFLAGSREGU")),
    Rule(<<"RREGL", "RREGL">>, TRUE, 100, "compUL_rReg", One("RFLAGSREGU")) >>

CmpL3(vm, n) == << First(<<"RREGL", "RREGL">>, TRUE, 275, "cmpL3_reg_reg", RREGI) >>

CmpU3(vm, n) == << First(<<"RREGI", "RREGI">>, TRUE, 275, "cmpU3_reg_reg", RREGI) >>

CmpUL3(vm, n) == << First(<<"RREGL", "RREGL">>, TRUE, 275, "cmpUL3_reg_reg", RREGI) >>

CmpP(vm, n) == <<
    First(<<"_LOADP_MEMORY_", "IMMP0">>, vm.UseZGC /\ Has(Kid(n, 1), "barrier"), 500,
          "zLoadPNullCheck", One("RFLAGSREG")),
    Rule(<<"_LOADP_MEMORY_", "IMMP0">>,
         vm.UseCompressedOops /\ vm.base = 0 /\ ~Has(Kid(n, 1), "barrier"), 100,
         "testP_mem_reg0", One("RFLAGSREG")),
    Rule(<<"_LOADP_MEMORY_", "IMMP0">>,
         (~vm.UseCompressedOops \/ vm.base # 0) /\ ~Has(Kid(n, 1), "barrier"), 500, "testP_mem",
         One("RFLAGSREG")),
    Rule(<<"RREGP", "IMMP0">>, TRUE, 100, "testP_reg", One("RFLAGSREG")),
    First(<<"RREGP", "_LOADP_MEMORY_">>,
          ~Has(Kid2(n, 2, 1), "reloc") /\ ~Has(Kid(n, 2), "barrier"), 100, "compP_mem_rReg",
          One("RFLAGSREGU")),
    Rule(<<"RREGP", "_LOADP_MEMORY_">>, ~Has(Kid(n, 2), "barrier"), 500, "compP_rReg_mem",
         One("RFLAGSREGU")),
    Rule(<<"RREGP", "RREGP">>, TRUE, 100, "compP_rReg", One("RFLAGSREGU")) >>

CmpN(vm, n) == <<
    First(<<"_LOADN_MEMORY_", "IMMN0">>, vm.base = 0 /\ ~Has(Kid(n, 1), "barrier"), 100,
          "testN_mem_reg0", One("RFLAGSREG")),
    Rule(<<"_LOADN_MEMORY_", "IMMN0">>, vm.base # 0 /\ ~Has(Kid(n, 1), "barrier"), 500,
         "testN_mem", One("RFLAGSREG")),
    Rule(<<"RREGN", "IMMN0">>, TRUE, 100, "testN_reg", One("RFLAGSREG")),
    First(<<"IMMNKLASS", "_LOADNKLASS_MEMORY_">>, ~vm.UseCompactObjectHeaders, 100,
          "compN_mem_imm_klass", One("RFLAGSREGU")),
    Rule(<<"RREGN", "IMMNKLASS">>, TRUE, 100, "compN_rReg_imm_klass", One("RFLAGSREGU")),
    Rule(<<"IMMN", "_LOADN_MEMORY_">>, ~Has(Kid(n, 2), "barrier"), 100, "compN_mem_imm",
         One("RFLAGSREGU")),
    Rule(<<"RREGN", "IMMN">>, TRUE, 100, "compN_rReg_imm", One("RFLAGSREGU")),
    Rule(<<"RREGN", "_LOADN_MEMORY_">>, ~Has(Kid(n, 2), "barrier"), 100, "compN_rReg_mem",
         One("RFLAGSREGU")),
    Rule(<<"RREGN", "RREGN">>, TRUE, 100, "compN_rReg", One("RFLAGSREGU")) >>

CmpF(vm, n) == <<
    First(<<"REGF", "IMMF">>, TRUE, 100, "cmpF_cc_immCF", One("RFLAGSREGUCF")),
    Rule(<<"REGF", "_LOADF_MEMORY_">>, TRUE, 100, "cmpF_cc_memCF", One("RFLAGSREGUCF")),
    Rule(<<"REGF", "REGF">>, TRUE, 100, "cmpF_cc_reg_CF", One("RFLAGSREGUCF")),
    First(<<"REGF", "REGF">>, TRUE, 500, "cmpF_cc_reg", One("RFLAGSREGU")) >>

CmpD(vm, n) == <<
    First(<<"REGD", "IMMD">>, TRUE, 100, "cmpD_cc_immCF", One("RFLAGSREGUCF")),
    Rule(<<"REGD", "_LOADD_MEMORY_">>, TRUE, 100, "cmpD_cc_memCF", One("RFLAGSREGUCF")),
    Rule(<<"REGD", "REGD">>, TRUE, 100, "cmpD_cc_reg_CF", One("RFLAGSREGUCF")),
    First(<<"REGD", "REGD">>, TRUE, 500, "cmpD_cc_reg", One("RFLAGSREGU")) >>

CmpF3(vm, n) == <<
    First(<<"REGF", "IMMF">>, TRUE, 275, "cmpF_imm", RREGI),
    Rule(<<"REGF", "_LOADF_MEMORY_">>, TRUE, 275, "cmpF_mem", RREGI),
    Rule(<<"REGF", "REGF">>, TRUE, 275, "cmpF_reg", RREGI) >>

CmpD3(vm, n) == <<
    First(<<"REGD", "IMMD">>, TRUE, 275, "cmpD_imm", RREGI),
    Rule(<<"REGD", "_LOADD_MEMORY_">>, TRUE, 275, "cmpD_mem", RREGI),
    Rule(<<"REGD", "REGD">>, TRUE, 275, "cmpD_reg", RREGI) >>

\* Mutant: the carry flag is enough for any comparison.
BoolOfCarry(vm, n) == <<
    First(<<>>, TRUE, 0, "cmpOpUCF", One("CMPOPUCF")),
    First(<<>>, TRUE, 0, "cmpOpU", One("CMPOPU")),
    First(<<>>, TRUE, 0, "cmpOp", One("CMPOP")) >>

Bool(vm, n) == <<
    First(<<>>, Test(n, {"ne", "eq"}) /\ Kid2(n, 1, 1) # Kid2(n, 1, 2), 0, "cmpOpUCF2",
          One("CMPOPUCF2")),
    First(<<>>, Test(n, {"lt", "ge", "le", "gt"}) \/ Kid2(n, 1, 1) = Kid2(n, 1, 2), 0,
          "cmpOpUCF", One("CMPOPUCF")),
    First(<<>>, TRUE, 0, "cmpOpU", One("CMPOPU")),
    First(<<>>, TRUE, 0, "cmpOp", One("CMPOP")) >>

Binary_inner(vm, n) == <<
    Inner(<<"RAX_REGP", "NO_RAX_REGP">>, "_BINARY_RAX_REGP_NO_RAX_REGP"),
    Inner(<<"VEC", "_VECTORREINTERPRET__LOADVECTOR_MEMORY__">>,
          "_BINARY_VEC__VECTORREINTERPRET__LOADVECTOR_MEMORY__"),
    Inner(<<"VEC", "_BINARY_MEMORY__BINARY_IMMU8_KREG">>,
          "_BINARY_VEC__BINARY_MEMORY__BINARY_IMMU8_KREG"),
    Inner(<<"MEMORY", "_BINARY_IMMU8_KREG">>, "_BINARY_MEMORY__BINARY_IMMU8_KREG"),
    Inner(<<"VEC", "_BINARY_VEC__BINARY_IMMU8_KREG">>,
          "_BINARY_VEC__BINARY_VEC__BINARY_IMMU8_KREG"),
    Inner(<<"VEC", "_BINARY_IMMU8_KREG">>, "_BINARY_VEC__BINARY_IMMU8_KREG"),
    Inner(<<"IMMU8", "KREG">>, "_BINARY_IMMU8_KREG"),
    Inner(<<"IMMI8", "KREG">>, "_BINARY_IMMI8_KREG"),
    Inner(<<"_LOADVECTOR_MEMORY_", "KREG">>, "_BINARY__LOADVECTOR_MEMORY__KREG"),
    Inner(<<"VEC", "_RSHIFTCNTV_IMMI8_">>, "_BINARY_VEC__RSHIFTCNTV_IMMI8_"),
    Inner(<<"VEC", "_LSHIFTCNTV_IMMI8_">>, "_BINARY_VEC__LSHIFTCNTV_IMMI8_"),
    Inner(<<"VEC", "IMMI8">>, "_BINARY_VEC_IMMI8"),
    Inner(<<"_LOADVECTOR_MEMORY_", "IMMU8">>, "_BINARY__LOADVECTOR_MEMORY__IMMU8"),
    Inner(<<"VEC", "IMMU8">>, "_BINARY_VEC_IMMU8"),
    Inner(<<"LEGVEC", "LEGVEC">>, "_BINARY_LEGVEC_LEGVEC"),
    Inner(<<"REGD", "IMMD">>, "_BINARY_REGD_IMMD"),
    Inner(<<"VEC", "_LOADVECTOR_MEMORY_">>, "_BINARY_VEC__LOADVECTOR_MEMORY_"),
    Inner(<<"VEC", "REGD">>, "_BINARY_VEC_REGD"),
    Inner(<<"VEC", "REGF">>, "_BINARY_VEC_REGF"),
    Inner(<<"VEC", "RREGL">>, "_BINARY_VEC_RREGL"),
    Inner(<<"VEC", "RREGI">>, "_BINARY_VEC_RREGI"),
    Inner(<<"VEC", "_BINARY_VEC_KREG">>, "_BINARY_VEC__BINARY_VEC_KREG"),
    Inner(<<"VEC", "VEC">>, "_BINARY_VEC_VEC"),
    Inner(<<"RREGP", "VEC">>, "_BINARY_RREGP_VEC"),
    Inner(<<"RREGP", "KREG">>, "_BINARY_RREGP_KREG"),
    Inner(<<"VEC", "KREG">>, "_BINARY_VEC_KREG"),
    Inner(<<"RAX_REGP", "IMMP">>, "_BINARY_RAX_REGP_IMMP"),
    Inner(<<"RBX_REGI", "IMMU8">>, "_BINARY_RBX_REGI_IMMU8"),
    Inner(<<"RDI_REGP", "RSI_REGP">>, "_BINARY_RDI_REGP_RSI_REGP"),
    Inner(<<"RSI_REGP", "RAX_REGI">>, "_BINARY_RSI_REGP_RAX_REGI"),
    Inner(<<"RSI_REGP", "IMMI">>, "_BINARY_RSI_REGP_IMMI"),
    Inner(<<"RDI_REGP", "RDX_REGI">>, "_BINARY_RDI_REGP_RDX_REGI"),
    Inner(<<"RSI_REGP", "RDX_REGI">>, "_BINARY_RSI_REGP_RDX_REGI"),
    Inner(<<"RDI_REGP", "RCX_REGI">>, "_BINARY_RDI_REGP_RCX_REGI"),
    Inner(<<"RAX_REGN", "RREGN">>, "_BINARY_RAX_REGN_RREGN"),
    Inner(<<"RAX_REGI", "RREGI">>, "_BINARY_RAX_REGI_RREGI"),
    Inner(<<"RAX_REGL", "RREGL">>, "_BINARY_RAX_REGL_RREGL") >>

Binary_inner_2(vm, n) == <<
    Inner(<<"RAX_REGP", "RREGP">>, "_BINARY_RAX_REGP_RREGP"),
    Inner(<<"REGD", "REGD">>, "_BINARY_REGD_REGD"),
    Inner(<<"REGF", "REGF">>, "_BINARY_REGF_REGF"),
    Inner(<<"RREGL", "_LOADL_MEMORY_">>, "_BINARY_RREGL__LOADL_MEMORY_"),
    Inner(<<"RREGL", "RREGL">>, "_BINARY_RREGL_RREGL"),
    Inner(<<"IMML1", "RREGL">>, "_BINARY_IMML1_RREGL"),
    Inner(<<"RREGP", "RREGP">>, "_BINARY_RREGP_RREGP"),
    Inner(<<"RREGN", "RREGN">>, "_BINARY_RREGN_RREGN"),
    Inner(<<"RREGI", "_LOADI_MEMORY_">>, "_BINARY_RREGI__LOADI_MEMORY_"),
    Inner(<<"CMPOPUCF2", "RFLAGSREGUCF">>, "_BINARY_CMPOPUCF2_RFLAGSREGUCF"),
    Inner(<<"CMPOPUCF", "RFLAGSREGUCF">>, "_BINARY_CMPOPUCF_RFLAGSREGUCF"),
    Inner(<<"CMPOPU", "RFLAGSREGU">>, "_BINARY_CMPOPU_RFLAGSREGU"),
    Inner(<<"RREGI", "RREGI">>, "_BINARY_RREGI_RREGI"),
    Inner(<<"IMMI_1", "RREGI">>, "_BINARY_IMMI_1_RREGI"),
    Inner(<<"CMPOP", "RFLAGSREG">>, "_BINARY_CMPOP_RFLAGSREG") >>

Binary(vm, n) ==
    Binary_inner(vm, n)
    \o Binary_inner_2(vm, n)

If(vm, n) == <<
    First(<<"CMPOPUCF2", "RFLAGSREGUCF">>, TRUE, 200, "jmpConUCF2", One("UNIVERSE")),
    Rule(<<"CMPOPUCF", "RFLAGSREGUCF">>, TRUE, 200, "jmpConUCF", One("UNIVERSE")),
    Rule(<<"CMPOPU", "RFLAGSREGU">>, TRUE, 300, "jmpConU", One("UNIVERSE")),
    Rule(<<"CMPOP", "RFLAGSREG">>, TRUE, 300, "jmpCon", One("UNIVERSE")) >>

CountedLoopEnd(vm, n) == <<
    First(<<"CMPOP", "RFLAGSREG">>, TRUE, 300, "jmpLoopEnd", One("UNIVERSE")) >>

CMoveI_cmovI_rReg_rReg_memUCF_ndd(vm, n) == <<
    First(<<"_BINARY_CMPOPUCF_RFLAGSREGUCF", "_BINARY_RREGI__LOADI_MEMORY_">>, vm.UseAPX, 250,
          "cmovI_rReg_rReg_memUCF_ndd", RREGI),
    Rule(<<"_BINARY_CMPOPU_RFLAGSREGU", "_BINARY_RREGI__LOADI_MEMORY_">>, vm.UseAPX, 250,
         "cmovI_rReg_rReg_memU_ndd", RREGI),
    Rule(<<"_BINARY_CMPOPUCF_RFLAGSREGUCF", "_BINARY_RREGI__LOADI_MEMORY_">>, ~vm.UseAPX, 250,
         "cmovI_memUCF", RREGI),
    Rule(<<"_BINARY_CMPOPU_RFLAGSREGU", "_BINARY_RREGI__LOADI_MEMORY_">>, ~vm.UseAPX, 250,
         "cmovI_memU", RREGI) >>

CMoveI_cmovI_rReg_rReg_mem_ndd(vm, n) == <<
    Rule(<<"_BINARY_CMPOP_RFLAGSREG", "_BINARY_RREGI__LOADI_MEMORY_">>, vm.UseAPX, 250,
         "cmovI_rReg_rReg_mem_ndd", RREGI),
    Rule(<<"_BINARY_CMPOP_RFLAGSREG", "_BINARY_RREGI__LOADI_MEMORY_">>, ~vm.UseAPX, 250,
         "cmovI_mem", RREGI),
    Rule(<<"_BINARY_CMPOPUCF2_RFLAGSREGUCF", "_BINARY_RREGI_RREGI">>,
         vm.UseAPX /\ Test(Kid2(n, 1, 1), {"eq"}), 200, "cmovI_regUCF2_eq_ndd", RREGI),
    Rule(<<"_BINARY_CMPOPUCF2_RFLAGSREGUCF", "_BINARY_RREGI_RREGI">>,
         ~vm.UseAPX /\ Test(Kid2(n, 1, 1), {"eq"}), 200, "cmovI_regUCF2_eq", RREGI) >>

CMoveI_cmovI_regUCF2_ne_ndd(vm, n) == <<
    Rule(<<"_BINARY_CMPOPUCF2_RFLAGSREGUCF", "_BINARY_RREGI_RREGI">>,
         vm.UseAPX /\ Test(Kid2(n, 1, 1), {"ne"}), 200, "cmovI_regUCF2_ne_ndd", RREGI),
    Rule(<<"_BINARY_CMPOPUCF2_RFLAGSREGUCF", "_BINARY_RREGI_RREGI">>,
         ~vm.UseAPX /\ Test(Kid2(n, 1, 1), {"ne"}), 200, "cmovI_regUCF2_ne", RREGI),
    Rule(<<"_BINARY_CMPOPUCF_RFLAGSREGUCF", "_BINARY_RREGI_RREGI">>, vm.UseAPX, 200,
         "cmovI_regUCF_ndd", RREGI),
    Rule(<<"_BINARY_CMPOPUCF_RFLAGSREGUCF", "_BINARY_RREGI_RREGI">>, ~vm.UseAPX, 200,
         "cmovI_regUCF", RREGI) >>

CMoveI_cmovI_imm_01UCF(vm, n) == <<
    Rule(<<"_BINARY_CMPOPUCF_RFLAGSREGUCF", "_BINARY_IMMI_1_RREGI">>,
         Kid2(n, 2, 2).op = "ConI" /\ Kid2(n, 2, 2).lo = 0, 100, "cmovI_imm_01UCF", RREGI),
    Rule(<<"_BINARY_CMPOPU_RFLAGSREGU", "_BINARY_RREGI_RREGI">>, vm.UseAPX, 200,
         "cmovI_regU_ndd", RREGI),
    Rule(<<"_BINARY_CMPOPU_RFLAGSREGU", "_BINARY_RREGI_RREGI">>, ~vm.UseAPX, 200, "cmovI_regU",
         RREGI),
    Rule(<<"_BINARY_CMPOPU_RFLAGSREGU", "_BINARY_IMMI_1_RREGI">>,
         Kid2(n, 2, 2).op = "ConI" /\ Kid2(n, 2, 2).lo = 0, 100, "cmovI_imm_01U", RREGI) >>

CMoveI_cmovI_reg_ndd(vm, n) == <<
    Rule(<<"_BINARY_CMPOP_RFLAGSREG", "_BINARY_RREGI_RREGI">>, vm.UseAPX, 200, "cmovI_reg_ndd",
         RREGI),
    Rule(<<"_BINARY_CMPOP_RFLAGSREG", "_BINARY_RREGI_RREGI">>, ~vm.UseAPX, 200, "cmovI_reg",
         RREGI),
    Rule(<<"_BINARY_CMPOP_RFLAGSREG", "_BINARY_IMMI_1_RREGI">>,
         Kid2(n, 2, 2).op = "ConI" /\ Kid2(n, 2, 2).lo = 0, 100, "cmovI_imm_01", RREGI) >>

CMoveI(vm, n) ==
    CMoveI_cmovI_rReg_rReg_memUCF_ndd(vm, n)
    \o CMoveI_cmovI_rReg_rReg_mem_ndd(vm, n)
    \o CMoveI_cmovI_regUCF2_ne_ndd(vm, n)
    \o CMoveI_cmovI_imm_01UCF(vm, n)
    \o CMoveI_cmovI_reg_ndd(vm, n)

CMoveL_cmovL_rReg_rReg_memUCF_ndd(vm, n) == <<
    First(<<"_BINARY_CMPOPUCF_RFLAGSREGUCF", "_BINARY_RREGL__LOADL_MEMORY_">>, vm.UseAPX, 200,
          "cmovL_rReg_rReg_memUCF_ndd", RREGL),
    Rule(<<"_BINARY_CMPOPU_RFLAGSREGU", "_BINARY_RREGL__LOADL_MEMORY_">>, vm.UseAPX, 200,
         "cmovL_rReg_rReg_memU_ndd", RREGL),
    Rule(<<"_BINARY_CMPOPUCF_RFLAGSREGUCF", "_BINARY_RREGL__LOADL_MEMORY_">>, ~vm.UseAPX, 200,
         "cmovL_memUCF", RREGL),
    Rule(<<"_BINARY_CMPOPU_RFLAGSREGU", "_BINARY_RREGL__LOADL_MEMORY_">>, ~vm.UseAPX, 200,
         "cmovL_memU", RREGL),
    Rule(<<"_BINARY_CMPOPUCF2_RFLAGSREGUCF", "_BINARY_RREGL_RREGL">>,
         vm.UseAPX /\ Test(Kid2(n, 1, 1), {"eq"}), 200, "cmovL_regUCF2_eq_ndd", RREGL) >>

CMoveL_cmovL_regUCF2_eq(vm, n) == <<
    Rule(<<"_BINARY_CMPOPUCF2_RFLAGSREGUCF", "_BINARY_RREGL_RREGL">>,
         ~vm.UseAPX /\ Test(Kid2(n, 1, 1), {"eq"}), 200, "cmovL_regUCF2_eq", RREGL),
    Rule(<<"_BINARY_CMPOPUCF2_RFLAGSREGUCF", "_BINARY_RREGL_RREGL">>,
         vm.UseAPX /\ Test(Kid2(n, 1, 1), {"ne"}), 200, "cmovL_regUCF2_ne_ndd", RREGL),
    Rule(<<"_BINARY_CMPOPUCF2_RFLAGSREGUCF", "_BINARY_RREGL_RREGL">>,
         ~vm.UseAPX /\ Test(Kid2(n, 1, 1), {"ne"}), 200, "cmovL_regUCF2_ne", RREGL),
    Rule(<<"_BINARY_CMPOPUCF_RFLAGSREGUCF", "_BINARY_RREGL_RREGL">>, vm.UseAPX, 200,
         "cmovL_regUCF_ndd", RREGL) >>

CMoveL_cmovL_regUCF(vm, n) == <<
    Rule(<<"_BINARY_CMPOPUCF_RFLAGSREGUCF", "_BINARY_RREGL_RREGL">>, ~vm.UseAPX, 200,
         "cmovL_regUCF", RREGL),
    Rule(<<"_BINARY_CMPOPUCF_RFLAGSREGUCF", "_BINARY_IMML1_RREGL">>,
         Kid2(n, 2, 2).op = "ConL" /\ Long(Kid2(n, 2, 2), 0, 0), 100, "cmovL_imm_01UCF", RREGL),
    Rule(<<"_BINARY_CMPOPU_RFLAGSREGU", "_BINARY_RREGL_RREGL">>, vm.UseAPX, 200,
         "cmovL_regU_ndd", RREGL),
    Rule(<<"_BINARY_CMPOPU_RFLAGSREGU", "_BINARY_RREGL_RREGL">>, ~vm.UseAPX, 200, "cmovL_regU",
         RREGL) >>

CMoveL_cmovL_imm_01U(vm, n) == <<
    Rule(<<"_BINARY_CMPOPU_RFLAGSREGU", "_BINARY_IMML1_RREGL">>,
         Kid2(n, 2, 2).op = "ConL" /\ Long(Kid2(n, 2, 2), 0, 0), 100, "cmovL_imm_01U", RREGL),
    Rule(<<"_BINARY_CMPOP_RFLAGSREG", "_BINARY_RREGL__LOADL_MEMORY_">>, vm.UseAPX, 200,
         "cmovL_rReg_rReg_mem_ndd", RREGL),
    Rule(<<"_BINARY_CMPOP_RFLAGSREG", "_BINARY_RREGL__LOADL_MEMORY_">>, ~vm.UseAPX, 200,
         "cmovL_mem", RREGL),
    Rule(<<"_BINARY_CMPOP_RFLAGSREG", "_BINARY_RREGL_RREGL">>, vm.UseAPX, 200, "cmovL_reg_ndd",
         RREGL) >>

CMoveL_cmovL_reg(vm, n) == <<
    Rule(<<"_BINARY_CMPOP_RFLAGSREG", "_BINARY_RREGL_RREGL">>, ~vm.UseAPX, 200, "cmovL_reg",
         RREGL),
    Rule(<<"_BINARY_CMPOP_RFLAGSREG", "_BINARY_IMML1_RREGL">>,
         Kid2(n, 2, 2).op = "ConL" /\ Long(Kid2(n, 2, 2), 0, 0), 100, "cmovL_imm_01", RREGL) >>

CMoveL(vm, n) ==
    CMoveL_cmovL_rReg_rReg_memUCF_ndd(vm, n)
    \o CMoveL_cmovL_regUCF2_eq(vm, n)
    \o CMoveL_cmovL_regUCF(vm, n)
    \o CMoveL_cmovL_imm_01U(vm, n)
    \o CMoveL_cmovL_reg(vm, n)

CMoveP_cmovP_regUCF2_eq_ndd(vm, n) == <<
    First(<<"_BINARY_CMPOPUCF2_RFLAGSREGUCF", "_BINARY_RREGP_RREGP">>,
          vm.UseAPX /\ Test(Kid2(n, 1, 1), {"eq"}), 200, "cmovP_regUCF2_eq_ndd", RREGP),
    Rule(<<"_BINARY_CMPOPUCF2_RFLAGSREGUCF", "_BINARY_RREGP_RREGP">>,
         ~vm.UseAPX /\ Test(Kid2(n, 1, 1), {"eq"}), 200, "cmovP_regUCF2_eq", RREGP),
    Rule(<<"_BINARY_CMPOPUCF2_RFLAGSREGUCF", "_BINARY_RREGP_RREGP">>,
         vm.UseAPX /\ Test(Kid2(n, 1, 1), {"ne"}), 200, "cmovP_regUCF2_ne_ndd", RREGP) >>

CMoveP_cmovP_regUCF2_ne(vm, n) == <<
    Rule(<<"_BINARY_CMPOPUCF2_RFLAGSREGUCF", "_BINARY_RREGP_RREGP">>,
         ~vm.UseAPX /\ Test(Kid2(n, 1, 1), {"ne"}), 200, "cmovP_regUCF2_ne", RREGP),
    Rule(<<"_BINARY_CMPOPUCF_RFLAGSREGUCF", "_BINARY_RREGP_RREGP">>, vm.UseAPX, 200,
         "cmovP_regUCF_ndd", RREGP),
    Rule(<<"_BINARY_CMPOPUCF_RFLAGSREGUCF", "_BINARY_RREGP_RREGP">>, ~vm.UseAPX, 200,
         "cmovP_regUCF", RREGP) >>

CMoveP_cmovP_regU_ndd(vm, n) == <<
    Rule(<<"_BINARY_CMPOPU_RFLAGSREGU", "_BINARY_RREGP_RREGP">>, vm.UseAPX, 200,
         "cmovP_regU_ndd", RREGP),
    Rule(<<"_BINARY_CMPOPU_RFLAGSREGU", "_BINARY_RREGP_RREGP">>, ~vm.UseAPX, 200, "cmovP_regU",
         RREGP),
    Rule(<<"_BINARY_CMPOP_RFLAGSREG", "_BINARY_RREGP_RREGP">>, vm.UseAPX, 200, "cmovP_reg_ndd",
         RREGP) >>

CMoveP_cmovP_reg(vm, n) == <<
    Rule(<<"_BINARY_CMPOP_RFLAGSREG", "_BINARY_RREGP_RREGP">>, ~vm.UseAPX, 200, "cmovP_reg",
         RREGP) >>

CMoveP(vm, n) ==
    CMoveP_cmovP_regUCF2_eq_ndd(vm, n)
    \o CMoveP_cmovP_regUCF2_ne(vm, n)
    \o CMoveP_cmovP_regU_ndd(vm, n)
    \o CMoveP_cmovP_reg(vm, n)

CMoveN(vm, n) == <<
    First(<<"_BINARY_CMPOPUCF2_RFLAGSREGUCF", "_BINARY_RREGN_RREGN">>,
          Test(Kid2(n, 1, 1), {"eq"}), 200, "cmovN_regUCF2_eq", RREGN),
    Rule(<<"_BINARY_CMPOPUCF2_RFLAGSREGUCF", "_BINARY_RREGN_RREGN">>,
         Test(Kid2(n, 1, 1), {"ne"}), 200, "cmovN_regUCF2_ne", RREGN),
    Rule(<<"_BINARY_CMPOPUCF_RFLAGSREGUCF", "_BINARY_RREGN_RREGN">>, vm.UseAPX, 200,
         "cmovN_regUCF_ndd", RREGN),
    Rule(<<"_BINARY_CMPOPU_RFLAGSREGU", "_BINARY_RREGN_RREGN">>, vm.UseAPX, 200,
         "cmovN_regU_ndd", RREGN),
    Rule(<<"_BINARY_CMPOPUCF_RFLAGSREGUCF", "_BINARY_RREGN_RREGN">>, ~vm.UseAPX, 200,
         "cmovN_regUCF", RREGN),
    Rule(<<"_BINARY_CMPOPU_RFLAGSREGU", "_BINARY_RREGN_RREGN">>, ~vm.UseAPX, 200, "cmovN_regU",
         RREGN),
    Rule(<<"_BINARY_CMPOP_RFLAGSREG", "_BINARY_RREGN_RREGN">>, vm.UseAPX, 200, "cmovN_reg_ndd",
         RREGN),
    Rule(<<"_BINARY_CMPOP_RFLAGSREG", "_BINARY_RREGN_RREGN">>, ~vm.UseAPX, 200, "cmovN_reg",
         RREGN) >>

CMoveF(vm, n) == <<
    First(<<"_BINARY_CMPOPUCF_RFLAGSREGUCF", "_BINARY_REGF_REGF">>, TRUE, 200, "cmovF_regUCF",
          REGF),
    Rule(<<"_BINARY_CMPOPU_RFLAGSREGU", "_BINARY_REGF_REGF">>, TRUE, 200, "cmovF_regU", REGF),
    Rule(<<"_BINARY_CMPOP_RFLAGSREG", "_BINARY_REGF_REGF">>, TRUE, 200, "cmovF_reg", REGF) >>

CMoveD(vm, n) == <<
    First(<<"_BINARY_CMPOPUCF_RFLAGSREGUCF", "_BINARY_REGD_REGD">>, TRUE, 200, "cmovD_regUCF",
          REGD),
    Rule(<<"_BINARY_CMPOPU_RFLAGSREGU", "_BINARY_REGD_REGD">>, TRUE, 200, "cmovD_regU", REGD),
    Rule(<<"_BINARY_CMPOP_RFLAGSREG", "_BINARY_REGD_REGD">>, TRUE, 200, "cmovD_reg", REGD) >>
=============================================================================
