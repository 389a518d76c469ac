------------------------------ MODULE DFAFloat ------------------------------
(***************************************************************************)
(* Float and double arithmetic, and the conversions; other scalar          *)
(* operations: unsigned division, overflow checks, bit permutations,       *)
(* rounding, half precision.                                               *)
(***************************************************************************)
EXTENDS DFAOperands
-----------------------------------------------------------------------------
AddF_addF_reg_imm(vm, n) == <<
    First(<<"REGF", "IMMF">>, vm.UseAVX > 0, 150, "addF_reg_imm", REGF),
    Rule(<<"_LOADF_MEMORY_", "REGF">>, vm.UseAVX > 0, 150, "addF_reg_mem_0", REGF),
    Rule(<<"REGF", "_LOADF_MEMORY_">>, vm.UseAVX > 0, 150, "addF_reg_mem", REGF),
    Rule(<<"REGF", "REGF">>, vm.UseAVX > 0, 150, "addF_reg_reg", REGF),
    Rule(<<"REGF", "IMMF">>, vm.UseAVX = 0, 150, "addF_imm", REGF),
    Rule(<<"_LOADF_MEMORY_", "REGF">>, vm.UseAVX = 0, 150, "addF_mem_0", REGF),
    Rule(<<"REGF", "_LOADF_MEMORY_">>, vm.UseAVX = 0, 150, "addF_mem", REGF) >>

AddF_addF_reg(vm, n) == << Rule(<<"REGF", "REGF">>, vm.UseAVX = 0, 150, "addF_reg", REGF) >>

AddF(vm, n) ==
    AddF_addF_reg_imm(vm, n)
    \o AddF_addF_reg(vm, n)

AddD_addD_reg_imm(vm, n) == <<
    First(<<"REGD", "IMMD">>, vm.UseAVX > 0, 150, "addD_reg_imm", REGD),
    Rule(<<"_LOADD_MEMORY_", "REGD">>, vm.UseAVX > 0, 150, "addD_reg_mem_0", REGD),
    Rule(<<"REGD", "_LOADD_MEMORY_">>, vm.UseAVX > 0, 150, "addD_reg_mem", REGD),
    Rule(<<"REGD", "REGD">>, vm.UseAVX > 0, 150, "addD_reg_reg", REGD),
    Rule(<<"REGD", "IMMD">>, vm.UseAVX = 0, 150, "addD_imm", REGD),
    Rule(<<"_LOADD_MEMORY_", "REGD">>, vm.UseAVX = 0, 150, "addD_mem_0", REGD),
    Rule(<<"REGD", "_LOADD_MEMORY_">>, vm.UseAVX = 0, 150, "addD_mem", REGD) >>

AddD_addD_reg(vm, n) == << Rule(<<"REGD", "REGD">>, vm.UseAVX = 0, 150, "addD_reg", REGD) >>

AddD(vm, n) ==
    AddD_addD_reg_imm(vm, n)
    \o AddD_addD_reg(vm, n)

SubF(vm, n) == <<
    First(<<"REGF", "IMMF">>, vm.UseAVX > 0, 150, "subF_reg_imm", REGF),
    Rule(<<"REGF", "_LOADF_MEMORY_">>, vm.UseAVX > 0, 150, "subF_reg_mem", REGF),
    Rule(<<"REGF", "REGF">>, vm.UseAVX > 0, 150, "subF_reg_reg", REGF),
    Rule(<<"REGF", "IMMF">>, vm.UseAVX = 0, 150, "subF_imm", REGF),
    Rule(<<"REGF", "_LOADF_MEMORY_">>, vm.UseAVX = 0, 150, "subF_mem", REGF),
    Rule(<<"REGF", "REGF">>, vm.UseAVX = 0, 150, "subF_reg", REGF) >>

SubD(vm, n) == <<
    First(<<"REGD", "IMMD">>, vm.UseAVX > 0, 150, "subD_reg_imm", REGD),
    Rule(<<"REGD", "_LOADD_MEMORY_">>, vm.UseAVX > 0, 150, "subD_reg_mem", REGD),
    Rule(<<"REGD", "REGD">>, vm.UseAVX > 0, 150, "subD_reg_reg", REGD),
    Rule(<<"REGD", "IMMD">>, vm.UseAVX = 0, 150, "subD_imm", REGD),
    Rule(<<"REGD", "_LOADD_MEMORY_">>, vm.UseAVX = 0, 150, "subD_mem", REGD),
    Rule(<<"REGD", "REGD">>, vm.UseAVX = 0, 150, "subD_reg", REGD) >>

MulF_mulF_reg_imm(vm, n) == <<
    First(<<"REGF", "IMMF">>, vm.UseAVX > 0, 150, "mulF_reg_imm", REGF),
    Rule(<<"_LOADF_MEMORY_", "REGF">>, vm.UseAVX > 0, 150, "mulF_reg_mem_0", REGF),
    Rule(<<"REGF", "_LOADF_MEMORY_">>, vm.UseAVX > 0, 150, "mulF_reg_mem", REGF),
    Rule(<<"REGF", "REGF">>, vm.UseAVX > 0, 150, "mulF_reg_reg", REGF),
    Rule(<<"REGF", "IMMF">>, vm.UseAVX = 0, 150, "mulF_imm", REGF),
    Rule(<<"_LOADF_MEMORY_", "REGF">>, vm.UseAVX = 0, 150, "mulF_mem_0", REGF),
    Rule(<<"REGF", "_LOADF_MEMORY_">>, vm.UseAVX = 0, 150, "mulF_mem", REGF) >>

MulF_mulF_reg(vm, n) == << Rule(<<"REGF", "REGF">>, vm.UseAVX = 0, 150, "mulF_reg", REGF) >>

MulF(vm, n) ==
    MulF_mulF_reg_imm(vm, n)
    \o MulF_mulF_reg(vm, n)

MulD_mulD_reg_imm(vm, n) == <<
    First(<<"REGD", "IMMD">>, vm.UseAVX > 0, 150, "mulD_reg_imm", REGD),
    Rule(<<"_LOADD_MEMORY_", "REGD">>, vm.UseAVX > 0, 150, "mulD_reg_mem_0", REGD),
    Rule(<<"REGD", "_LOADD_MEMORY_">>, vm.UseAVX > 0, 150, "mulD_reg_mem", REGD),
    Rule(<<"REGD", "REGD">>, vm.UseAVX > 0, 150, "mulD_reg_reg", REGD),
    Rule(<<"REGD", "IMMD">>, vm.UseAVX = 0, 150, "mulD_imm", REGD),
    Rule(<<"_LOADD_MEMORY_", "REGD">>, vm.UseAVX = 0, 150, "mulD_mem_0", REGD),
    Rule(<<"REGD", "_LOADD_MEMORY_">>, vm.UseAVX = 0, 150, "mulD_mem", REGD) >>

MulD_mulD_reg(vm, n) == << Rule(<<"REGD", "REGD">>, vm.UseAVX = 0, 150, "mulD_reg", REGD) >>

MulD(vm, n) ==
    MulD_mulD_reg_imm(vm, n)
    \o MulD_mulD_reg(vm, n)

DivF(vm, n) == <<
    First(<<"REGF", "IMMF">>, vm.UseAVX > 0, 150, "divF_reg_imm", REGF),
    Rule(<<"REGF", "_LOADF_MEMORY_">>, vm.UseAVX > 0, 150, "divF_reg_mem", REGF),
    Rule(<<"REGF", "REGF">>, vm.UseAVX > 0, 150, "divF_reg_reg", REGF),
    Rule(<<"REGF", "IMMF">>, vm.UseAVX = 0, 150, "divF_imm", REGF),
    Rule(<<"REGF", "_LOADF_MEMORY_">>, vm.UseAVX = 0, 150, "divF_mem", REGF),
    Rule(<<"REGF", "REGF">>, vm.UseAVX = 0, 150, "divF_reg", REGF) >>

DivD(vm, n) == <<
    First(<<"REGD", "IMMD">>, vm.UseAVX > 0, 150, "divD_reg_imm", REGD),
    Rule(<<"REGD", "_LOADD_MEMORY_">>, vm.UseAVX > 0, 150, "divD_reg_mem", REGD),
    Rule(<<"REGD", "REGD">>, vm.UseAVX > 0, 150, "divD_reg_reg", REGD),
    Rule(<<"REGD", "IMMD">>, vm.UseAVX = 0, 150, "divD_imm", REGD),
    Rule(<<"REGD", "_LOADD_MEMORY_">>, vm.UseAVX = 0, 150, "divD_mem", REGD),
    Rule(<<"REGD", "REGD">>, vm.UseAVX = 0, 150, "divD_reg", REGD) >>

NegF(vm, n) == <<
    First(<<"VLREGF">>, vm.UseAVX > 0, 150, "negF_reg_reg", VLREGF),
    Rule(<<"REGF">>, vm.UseAVX = 0, 150, "negF_reg", REGF) >>

NegD(vm, n) == <<
    First(<<"VLREGD">>, vm.UseAVX > 0, 150, "negD_reg_reg", VLREGD),
    Rule(<<"REGD">>, vm.UseAVX = 0, 150, "negD_reg", REGD) >>

AbsF(vm, n) == <<
    First(<<"VLREGF">>, vm.UseAVX > 0, 150, "absF_reg_reg", VLREGF),
    Rule(<<"REGF">>, vm.UseAVX = 0, 150, "absF_reg", REGF) >>

AbsD(vm, n) == <<
    First(<<"VLREGD">>, vm.UseAVX > 0, 150, "absD_reg_reg", VLREGD),
    Rule(<<"REGD">>, vm.UseAVX = 0, 150, "absD_reg", REGD) >>

SqrtF(vm, n) == << First(<<"REGF">>, TRUE, 100, "sqrtF_reg", REGF) >>

SqrtD(vm, n) == << First(<<"REGD">>, TRUE, 100, "sqrtD_reg", REGD) >>

FmaF(vm, n) == << First(<<"REGF", "_BINARY_REGF_REGF">>, TRUE, 150, "fmaF_reg", REGF) >>

FmaD(vm, n) == << First(<<"REGD", "_BINARY_REGD_REGD">>, TRUE, 150, "fmaD_reg", REGD) >>

ConvI2F(vm, n) == <<
    First(<<"RREGI">>, vm.UseXmmI2F, 100, "convXI2F_reg", REGF),
    Rule(<<"_LOADI_MEMORY_">>, vm.UseAVX = 0, 100, "convI2F_reg_mem", REGF),
    Rule(<<"RREGI">>, ~vm.UseXmmI2F, 100, "convI2F_reg_reg", VLREGF) >>

ConvI2D(vm, n) == <<
    First(<<"RREGI">>, vm.UseXmmI2D, 100, "convXI2D_reg", REGD),
    Rule(<<"_LOADI_MEMORY_">>, vm.UseAVX = 0, 100, "convI2D_reg_mem", REGD),
    Rule(<<"RREGI">>, ~vm.UseXmmI2D, 100, "convI2D_reg_reg", VLREGD) >>

ConvL2F(vm, n) == <<
    First(<<"_LOADL_MEMORY_">>, vm.UseAVX = 0, 100, "convL2F_reg_mem", REGF),
    Rule(<<"RREGL">>, TRUE, 100, "convL2F_reg_reg", VLREGF) >>

ConvL2D(vm, n) == <<
    First(<<"_LOADL_MEMORY_">>, vm.UseAVX = 0, 100, "convL2D_reg_mem", REGD),
    Rule(<<"RREGL">>, TRUE, 100, "convL2D_reg_reg", VLREGD) >>

ConvF2D(vm, n) == <<
    First(<<"_LOADF_MEMORY_">>, vm.UseAVX = 0, 100, "convF2D_reg_mem", REGD),
    Rule(<<"REGF">>, TRUE, 100, "convF2D_reg_reg", REGD) >>

ConvD2F(vm, n) == <<
    First(<<"_LOADD_MEMORY_">>, vm.UseAVX = 0, 100, "convD2F_reg_mem", REGF),
    Rule(<<"REGD">>, TRUE, 100, "convD2F_reg_reg", REGF) >>

ConvF2I(vm, n) == <<
    First(<<"_LOADF_MEMORY_">>, vm.avx10_2, 100, "convF2I_reg_mem_avx10_2", RREGI),
    Rule(<<"REGF">>, vm.avx10_2, 100, "convF2I_reg_reg_avx10_2", RREGI),
    Rule(<<"REGF">>, ~vm.avx10_2, 100, "convF2I_reg_reg", RREGI) >>

ConvF2L(vm, n) == <<
    First(<<"_LOADF_MEMORY_">>, vm.avx10_2, 100, "convF2L_reg_mem_avx10_2", RREGL),
    Rule(<<"REGF">>, vm.avx10_2, 100, "convF2L_reg_reg_avx10_2", RREGL),
    Rule(<<"REGF">>, ~vm.avx10_2, 100, "convF2L_reg_reg", RREGL) >>

ConvD2I(vm, n) == <<
    First(<<"_LOADD_MEMORY_">>, vm.avx10_2, 100, "convD2I_reg_mem_avx10_2", RREGI),
    Rule(<<"REGD">>, vm.avx10_2, 100, "convD2I_reg_reg_avx10_2", RREGI),
    Rule(<<"REGD">>, ~vm.avx10_2, 100, "convD2I_reg_reg", RREGI) >>

ConvD2L(vm, n) == <<
    First(<<"_LOADD_MEMORY_">>, vm.avx10_2, 100, "convD2L_reg_mem_avx10_2", RREGL),
    Rule(<<"REGD">>, vm.avx10_2, 100, "convD2L_reg_reg_avx10_2", RREGL),
    Rule(<<"REGD">>, ~vm.avx10_2, 100, "convD2L_reg_reg", RREGL) >>

MoveI2F(vm, n) == <<
    First(<<"RREGI">>, TRUE, 100, "MoveI2F_reg_reg", REGF),
    Rule(<<"RREGI">>, TRUE, 100, "MoveI2F_reg_stack",
         Loaded("STACKSLOTF", "loadSSF", 125, Registers(REGF))),
    Rule(<<"STACKSLOTI">>, TRUE, 125, "MoveI2F_stack_reg", REGF) >>

MoveF2I(vm, n) == <<
    First(<<"REGF">>, TRUE, 85, "MoveF2I_reg_reg", RREGI),
    Rule(<<"REGF">>, TRUE, 95, "MoveF2I_reg_stack",
         Loaded("STACKSLOTI", "loadSSI", 125, Registers(RREGI))),
    Rule(<<"STACKSLOTF">>, TRUE, 125, "MoveF2I_stack_reg", RREGI) >>

MoveL2D(vm, n) == <<
    First(<<"RREGL">>, TRUE, 100, "MoveL2D_reg_reg", REGD),
    Rule(<<"RREGL">>, TRUE, 100, "MoveL2D_reg_stack",
         Loaded("STACKSLOTD", "loadSSD", 125, Registers(REGD))),
    Rule(<<"STACKSLOTL">>, vm.UseXmmLoadAndClearUpper, 125, "MoveL2D_stack_reg", REGD),
    Rule(<<"STACKSLOTL">>, ~vm.UseXmmLoadAndClearUpper, 125, "MoveL2D_stack_reg_partial", REGD) >>

MoveD2L(vm, n) == <<
    First(<<"REGD">>, TRUE, 85, "MoveD2L_reg_reg", RREGL),
    Rule(<<"REGD">>, TRUE, 95, "MoveD2L_reg_stack",
         Loaded("STACKSLOTL", "loadSSL", 125, Registers(RREGL))),
    Rule(<<"STACKSLOTD">>, TRUE, 125, "MoveD2L_stack_reg", RREGL) >>

MaxF(vm, n) == <<
    First(<<"LEGREGF", "LEGREGF">>, ~vm.avx10_2 /\ vm.UseAVX > 0 /\ Has(n, "reduction"), 100,
          "maxF_reduction_reg", LEGREGF),
    Rule(<<"LEGREGF", "LEGREGF">>, ~vm.avx10_2 /\ vm.UseAVX > 0 /\ ~Has(n, "reduction"), 100,
         "maxF_reg", LEGREGF),
    Rule(<<"REGF", "REGF">>, vm.avx10_2, 100, "maxF_reg_avx10_2", REGF) >>

MaxD(vm, n) == <<
    First(<<"LEGREGD", "LEGREGD">>, ~vm.avx10_2 /\ vm.UseAVX > 0 /\ Has(n, "reduction"), 100,
          "maxD_reduction_reg", LEGREGD),
    Rule(<<"LEGREGD", "LEGREGD">>, ~vm.avx10_2 /\ vm.UseAVX > 0 /\ ~Has(n, "reduction"), 100,
         "maxD_reg", LEGREGD),
    Rule(<<"REGD", "REGD">>, vm.avx10_2, 100, "maxD_reg_avx10_2", REGD) >>

MinF(vm, n) == <<
    First(<<"LEGREGF", "LEGREGF">>, ~vm.avx10_2 /\ vm.UseAVX > 0 /\ Has(n, "reduction"), 100,
          "minF_reduction_reg", LEGREGF),
    Rule(<<"LEGREGF", "LEGREGF">>, ~vm.avx10_2 /\ vm.UseAVX > 0 /\ ~Has(n, "reduction"), 100,
         "minF_reg", LEGREGF),
    Rule(<<"REGF", "REGF">>, vm.avx10_2, 100, "minF_reg_avx10_2", REGF) >>

MinD(vm, n) == <<
    First(<<"LEGREGD", "LEGREGD">>, ~vm.avx10_2 /\ vm.UseAVX > 0 /\ Has(n, "reduction"), 100,
          "minD_reduction_reg", LEGREGD),
    Rule(<<"LEGREGD", "LEGREGD">>, ~vm.avx10_2 /\ vm.UseAVX > 0 /\ ~Has(n, "reduction"), 100,
         "minD_reg", LEGREGD),
    Rule(<<"REGD", "REGD">>, vm.avx10_2, 100, "minD_reg_avx10_2", REGD) >>

UDivI(vm, n) == <<
    First(<<"RAX_REGI", "NO_RAX_RDX_REGI">>, TRUE, 300, "udivI_rReg", RAX_REGI) >>

UDivL(vm, n) == <<
    First(<<"RAX_REGL", "NO_RAX_RDX_REGL">>, TRUE, 300, "udivL_rReg", RAX_REGL) >>

UModI(vm, n) == <<
    First(<<"RAX_REGI", "NO_RAX_RDX_REGI">>, TRUE, 300, "umodI_rReg", RDX_REGI) >>

UModL(vm, n) == <<
    First(<<"RAX_REGL", "NO_RAX_RDX_REGL">>, TRUE, 300, "umodL_rReg", RDX_REGL) >>

DivModI(vm, n) == <<
    First(<<"RAX_REGI", "NO_RAX_RDX_REGI">>, TRUE, 4000, "divModI_rReg_divmod", One("UNIVERSE")) >>

DivModL(vm, n) == <<
    First(<<"RAX_REGL", "NO_RAX_RDX_REGL">>, TRUE, 4000, "divModL_rReg_divmod", One("UNIVERSE")) >>

UDivModI(vm, n) == <<
    First(<<"RAX_REGI", "NO_RAX_RDX_REGI">>, TRUE, 300, "udivModI_rReg_divmod", One("UNIVERSE")) >>

UDivModL(vm, n) == <<
    First(<<"RAX_REGL", "NO_RAX_RDX_REGL">>, TRUE, 300, "udivModL_rReg_divmod", One("UNIVERSE")) >>

OverflowAddI(vm, n) == <<
    First(<<"RAX_REGI", "IMMI">>, TRUE, 100, "overflowAddI_rReg_imm", One("RFLAGSREG")),
    Rule(<<"RAX_REGI", "RREGI">>, TRUE, 100, "overflowAddI_rReg", One("RFLAGSREG")) >>

OverflowSubI(vm, n) == <<
    First(<<"IMMI_0", "RAX_REGI">>, TRUE, 100, "overflowNegI_rReg", One("RFLAGSREG")),
    Rule(<<"RREGI", "IMMI">>, TRUE, 100, "overflowSubI_rReg_imm", One("RFLAGSREG")),
    Rule(<<"RREGI", "RREGI">>, TRUE, 100, "overflowSubI_rReg", One("RFLAGSREG")) >>

OverflowMulI(vm, n) == <<
    First(<<"RREGI", "IMMI">>, TRUE, 100, "overflowMulI_rReg_imm", One("RFLAGSREG")),
    Rule(<<"RAX_REGI", "RREGI">>, TRUE, 100, "overflowMulI_rReg", One("RFLAGSREG")) >>

OverflowAddL(vm, n) == <<
    First(<<"RAX_REGL", "IMML32">>, TRUE, 100, "overflowAddL_rReg_imm", One("RFLAGSREG")),
    Rule(<<"RAX_REGL", "RREGL">>, TRUE, 100, "overflowAddL_rReg", One("RFLAGSREG")) >>

OverflowSubL(vm, n) == <<
    First(<<"IMML0", "RAX_REGL">>, TRUE, 100, "overflowNegL_rReg", One("RFLAGSREG")),
    Rule(<<"RREGL", "IMML32">>, TRUE, 100, "overflowSubL_rReg_imm", One("RFLAGSREG")),
    Rule(<<"RREGL", "RREGL">>, TRUE, 100, "overflowSubL_rReg", One("RFLAGSREG")) >>

OverflowMulL(vm, n) == <<
    First(<<"RREGL", "IMML32">>, TRUE, 100, "overflowMulL_rReg_imm", One("RFLAGSREG")),
    Rule(<<"RAX_REGL", "RREGL">>, TRUE, 100, "overflowMulL_rReg", One("RFLAGSREG")) >>

ReverseI(vm, n) == <<
    First(<<"RREGI">>, vm.gfni, 100, "bytes_reversebit_int_gfni", RREGI),
    Rule(<<"RREGI">>, ~vm.gfni, 100, "bytes_reversebit_int", RREGI) >>

ReverseL(vm, n) == <<
    First(<<"RREGL">>, vm.gfni, 100, "bytes_reversebit_long_gfni", RREGL),
    Rule(<<"RREGL">>, ~vm.gfni, 100, "bytes_reversebit_long", RREGL) >>

ReverseBytesI(vm, n) == << First(<<"RREGI">>, TRUE, 100, "bytes_reverse_int", RREGI) >>

ReverseBytesL(vm, n) == << First(<<"RREGL">>, TRUE, 100, "bytes_reverse_long", RREGL) >>

ReverseBytesUS(vm, n) == <<
    First(<<"RREGI">>, TRUE, 100, "bytes_reverse_unsigned_short", RREGI) >>

ReverseBytesS(vm, n) == << First(<<"RREGI">>, TRUE, 100, "bytes_reverse_short", RREGI) >>

CompressBits(vm, n) == <<
    First(<<"RREGI", "_LOADI_MEMORY_">>, Has(n, "int"), 100, "compressBitsI_mem", RREGI),
    Rule(<<"RREGI", "RREGI">>, Has(n, "int"), 100, "compressBitsI_reg", RREGI),
    First(<<"RREGL", "_LOADL_MEMORY_">>, Has(n, "long"), 100, "compressBitsL_mem", RREGL),
    Rule(<<"RREGL", "RREGL">>, Has(n, "long"), 100, "compressBitsL_reg", RREGL) >>

ExpandBits(vm, n) == <<
    First(<<"RREGI", "_LOADI_MEMORY_">>, Has(n, "int"), 100, "expandBitsI_mem", RREGI),
    Rule(<<"RREGI", "RREGI">>, Has(n, "int"), 100, "expandBitsI_reg", RREGI),
    First(<<"RREGL", "_LOADL_MEMORY_">>, Has(n, "long"), 100, "expandBitsL_mem", RREGL),
    Rule(<<"RREGL", "RREGL">>, Has(n, "long"), 100, "expandBitsL_reg", RREGL) >>

CastFF(vm, n) == << First(<<"REGF">>, TRUE, 0, "castFF", REGF) >>

CastDD(vm, n) == << First(<<"REGD">>, TRUE, 0, "castDD", REGD) >>

CastHH(vm, n) == << First(<<"REGF">>, TRUE, 0, "castHH", REGF) >>

RoundF(vm, n) == << First(<<"REGF">>, TRUE, 100, "round_float_reg", RREGI) >>

RoundD(vm, n) == << First(<<"REGD">>, TRUE, 100, "round_double_reg", RREGL) >>

RoundDoubleMode(vm, n) == <<
    First(<<"IMMD", "IMMU8">>, TRUE, 150, "roundD_imm", LEGREGD),
    Rule(<<"LEGREGD", "IMMU8">>, TRUE, 150, "roundD_reg", LEGREGD) >>

IsInfiniteF(vm, n) == <<
    First(<<"REGF">>, TRUE, 100, "FloatClassCheck_reg_reg_vfpclass", RREGI) >>

IsInfiniteD(vm, n) == <<
    First(<<"REGD">>, TRUE, 100, "DoubleClassCheck_reg_reg_vfpclass", RREGI) >>

CopySignF(vm, n) == << First(<<"REGF", "REGF">>, TRUE, 100, "copySignF_reg", REGF) >>

CopySignD(vm, n) == <<
    First(<<"REGD", "_BINARY_REGD_IMMD">>, TRUE, 100, "copySignD_imm", REGD) >>

SignumF(vm, n) == << First(<<"REGF", "_BINARY_REGF_REGF">>, TRUE, 100, "signumF_reg", REGF) >>

SignumD(vm, n) == << First(<<"REGD", "_BINARY_REGD_REGD">>, TRUE, 100, "signumD_reg", REGD) >>

ConvF2HF(vm, n) == <<
    Inner(<<"REGF">>, "_CONVF2HF_REGF_"),
    First(<<"VLREGF">>, TRUE, 125, "convF2HF_reg_reg", RREGI) >>

ConvHF2F(vm, n) == <<
    First(<<"_REINTERPRETHF2S_REGF_">>, TRUE, 100, "convHF2SAndHF2F", REGF),
    Rule(<<"RREGI">>, TRUE, 100, "convHF2F_reg_reg", VLREGF) >>

ReinterpretS2HF(vm, n) == <<
    First(<<"_CONVF2HF_REGF_">>, TRUE, 100, "convF2HFAndS2HF", REGF),
    Rule(<<"RREGI">>, TRUE, 100, "reinterpretS2HF", REGF) >>

ReinterpretHF2S(vm, n) == <<
    Inner(<<"REGF">>, "_REINTERPRETHF2S_REGF_"),
    First(<<"REGF">>, TRUE, 100, "reinterpretHF2S", RREGI) >>

AddHF(vm, n) == << First(<<"REGF", "REGF">>, TRUE, 100, "scalar_binOps_HF_reg", REGF) >>

SubHF(vm, n) == << First(<<"REGF", "REGF">>, TRUE, 100, "scalar_binOps_HF_reg_2", REGF) >>

MulHF(vm, n) == << First(<<"REGF", "REGF">>, TRUE, 100, "scalar_binOps_HF_reg_1", REGF) >>

DivHF(vm, n) == << First(<<"REGF", "REGF">>, TRUE, 100, "scalar_binOps_HF_reg_0", REGF) >>

FmaHF(vm, n) == <<
    First(<<"REGF", "_BINARY_REGF_REGF">>, TRUE, 100, "scalar_fma_HF_reg", REGF) >>

SqrtHF(vm, n) == << First(<<"REGF">>, TRUE, 100, "scalar_sqrt_HF_reg", REGF) >>

MaxHF(vm, n) == <<
    First(<<"REGF", "REGF">>, ~vm.avx10_2, 100, "scalar_minmax_HF_reg", REGF),
    Rule(<<"REGF", "REGF">>, vm.avx10_2, 100, "scalar_minmax_HF_reg_avx10_2", REGF) >>

MinHF(vm, n) == <<
    First(<<"REGF", "REGF">>, ~vm.avx10_2, 100, "scalar_minmax_HF_reg_0", REGF),
    Rule(<<"REGF", "REGF">>, vm.avx10_2, 100, "scalar_minmax_HF_reg_avx10_2_0", REGF) >>
=============================================================================
