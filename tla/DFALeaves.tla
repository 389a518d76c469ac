------------------------------ MODULE DFALeaves -----------------------------
(***************************************************************************)
(* The states of leaves: registers (also what the matcher puts where a     *)
(* node is shared and so a tree of its own), vectors, and constants.       *)
(***************************************************************************)
EXTENDS DFAOperands
-----------------------------------------------------------------------------
RegN(vm, n) == <<
    First(<<>>, TRUE, 0, "rax_RegN", One("RAX_REGN")),
    First(<<>>, TRUE, 0, "rRegN", One("RREGN")) >>

RegI(vm, n) == <<
    First(<<>>, TRUE, 0, "no_rbp_r13_RegI", One("NO_RBP_R13_REGI")),
    First(<<>>, TRUE, 0, "no_rax_rdx_RegI", One("NO_RAX_RDX_REGI")),
    First(<<>>, TRUE, 0, "rdi_RegI",
          <<<<"RDI_REGI", Own, 0>>, <<"RREGI", "rRegI", 0>>, <<"STACKSLOTI", "storeSSI", 100>>,
             <<"RAX_REGI", "rax_RegI", 0>>, <<"RBX_REGI", "rbx_RegI", 0>>,
             <<"RCX_REGI", "rcx_RegI", 0>>, <<"RDX_REGI", "rdx_RegI", 0>>>>),
    Nothing,
    Nothing,
    Nothing,
    Nothing,
    Nothing >>

RegP(vm, n) == <<
    First(<<>>, TRUE, 0, "no_rax_RegP", One("NO_RAX_REGP")),
    First(<<>>, TRUE, 0, "r15_RegP",
          <<<<"R15_REGP", Own, 0>>, <<"ANY_REGP", "any_RegP", 0>>,
             <<"INDIRECT", "indirect", 0>>, <<"MEMORY", "indirect", 0>>,
             <<"RREGP", "rRegP", 0>>, <<"STACKSLOTP", "storeSSP", 100>>,
             <<"RAX_REGP", "rax_RegP", 0>>, <<"RBX_REGP", "rbx_RegP", 0>>,
             <<"NO_RBP_REGP", "no_rbp_RegP", 0>>, <<"RSI_REGP", "rsi_RegP", 0>>,
             <<"RBP_REGP", "rbp_RegP", 0>>, <<"RDI_REGP", "rdi_RegP", 0>>>>),
    Nothing,
    Nothing,
    Nothing,
    Nothing,
    Nothing,
    Nothing,
    Nothing,
    Nothing >>

RegF(vm, n) == <<
    First(<<>>, TRUE, 0, "vlRegF", VLREGF),
    First(<<>>, TRUE, 0, "legRegF", One("LEGREGF")),
    First(<<>>, TRUE, 0, "regF", <<<<"REGF", Own, 0>>, <<"STACKSLOTF", "storeSSF", 95>>>>) >>

RegD(vm, n) == <<
    First(<<>>, TRUE, 0, "vlRegD", VLREGD),
    First(<<>>, TRUE, 0, "legRegD", One("LEGREGD")),
    First(<<>>, TRUE, 0, "regD", <<<<"REGD", Own, 0>>, <<"STACKSLOTD", "storeSSD", 95>>>>) >>

RegL(vm, n) == <<
    First(<<>>, TRUE, 0, "no_rbp_r13_RegL", One("NO_RBP_R13_REGL")),
    First(<<>>, TRUE, 0, "r11_RegL", One("R11_REGL")),
    First(<<>>, TRUE, 0, "rdx_RegL",
          <<<<"RDX_REGL", Own, 0>>, <<"RREGL", "rRegL", 0>>, <<"STACKSLOTL", "storeSSL", 100>>,
             <<"NO_RAX_RDX_REGL", "no_rax_rdx_RegL", 0>>, <<"RAX_REGL", "rax_RegL", 0>>,
             <<"RCX_REGL", "rcx_RegL", 0>>>>),
    Nothing,
    Nothing,
    Nothing,
    Nothing >>

RegFlags(vm, n) == <<
    First(<<>>, FALSE, 0, "rFlagsRegUCF", One("RFLAGSREGUCF")),
    First(<<>>, TRUE, 0, "rFlagsRegU", One("RFLAGSREGU")),
    First(<<>>, TRUE, 0, "rFlagsReg", One("RFLAGSREG")) >>

VecS(vm, n) == <<
    First(<<>>, TRUE, 0, "legVecS", One("LEGVECS")),
    First(<<>>, TRUE, 0, "vecS", One("VECS")),
    First(<<>>, TRUE, 0, "legVec", LEGVEC),
    First(<<>>, TRUE, 0, "vec", One("VEC")) >>

VecD(vm, n) == <<
    First(<<>>, TRUE, 0, "legVecD", One("LEGVECD")),
    First(<<>>, TRUE, 0, "vecD", One("VECD")),
    First(<<>>, TRUE, 0, "legVec", LEGVEC),
    First(<<>>, TRUE, 0, "vec", One("VEC")) >>

VecX(vm, n) == <<
    First(<<>>, TRUE, 0, "legVecX", One("LEGVECX")),
    First(<<>>, TRUE, 0, "vecX", One("VECX")),
    First(<<>>, TRUE, 0, "legVec", LEGVEC),
    First(<<>>, TRUE, 0, "vec", One("VEC")),
    First(<<>>, TRUE, 0, "rxmm0", One("RXMM0")) >>

VecY(vm, n) == <<
    First(<<>>, TRUE, 0, "legVecY", One("LEGVECY")),
    First(<<>>, TRUE, 0, "vecY", One("VECY")),
    First(<<>>, TRUE, 0, "legVec", LEGVEC),
    First(<<>>, TRUE, 0, "vec", One("VEC")) >>

VecZ(vm, n) == <<
    First(<<>>, TRUE, 0, "legVecZ", One("LEGVECZ")),
    First(<<>>, TRUE, 0, "vecZ", One("VECZ")),
    First(<<>>, TRUE, 0, "legVec", LEGVEC),
    First(<<>>, TRUE, 0, "vec", One("VEC")) >>

ConN(vm, n) == <<
    First(<<>>, n.lo = 0, 5, "immN0", Loaded("IMMN0", "loadConN0", 100, RREGN)),
    Operand(<<>>, TRUE, 10, "immN", Loaded("IMMN", "loadConN", 125, RREGN)),
    Known("loadConN", Via("loadConN", 125, RREGN)) >>

ConNKlass(vm, n) == <<
    First(<<>>, TRUE, 10, "immNKlass", Loaded("IMMNKLASS", "loadConNKlass", 125, RREGN)),
    First(<<>>, TRUE, 0, "loadConNKlass", Via("loadConNKlass", 125, RREGN)) >>

ConD(vm, n) == <<
    First(<<>>, TRUE, 15, "immD", Loaded("IMMD", "loadConD", 125, REGD)),
    First(<<>>, Long(n, 0, 0), 5, "immD0", Loaded("IMMD0", "loadConD0", 100, REGD)),
    Known("loadConD", Via("loadConD", 125, REGD)) >>

ConH(vm, n) == <<
    First(<<>>, TRUE, 15, "immH", Loaded("IMMH", "loadConH", 125, REGF)),
    First(<<>>, TRUE, 0, "loadConH", Via("loadConH", 125, REGF)) >>

ConF(vm, n) == <<
    First(<<>>, TRUE, 15, "immF", Loaded("IMMF", "loadConF", 125, REGF)),
    First(<<>>, n.lo = 0, 5, "immF0", Loaded("IMMF0", "loadConF0", 100, REGF)),
    Known("loadConF", Via("loadConF", 125, REGF)) >>

ConI_immI_65535(vm, n) == <<
    First(<<>>, n.lo = 65535, 0, "immI_65535", One("IMMI_65535")),
    First(<<>>, n.lo = 255, 0, "immI_255", One("IMMI_255")),
    First(<<>>, n.lo = 24, 0, "immI_24", One("IMMI_24")),
    First(<<>>, n.lo = 16, 0, "immI_16", One("IMMI_16")),
    First(<<>>, n.lo > 0 /\ n.lo \in LowMasks, 20, "immI_Pow2M1", One("IMMI_POW2M1")),
    First(<<>>, n.lo >= 0, 0, "immU31", One("IMMU31")),
    First(<<>>, n.lo \in -32768 .. 32767, 10, "immI16", One("IMMI16")),
    First(<<>>, n.lo \in 0 .. 255, 5, "immU8", One("IMMU8")),
    First(<<>>, n.lo \in -128 .. 127, 5, "immI8", One("IMMI8")),
    First(<<>>, n.lo \in 0 .. 127, 5, "immU7", One("IMMU7")),
    First(<<>>, n.lo \in 0 .. 3, 0, "immI2", One("IMMI2")),
    First(<<>>, n.lo = 8, 0, "immI_8", One("IMMI_8")),
    First(<<>>, n.lo = 4, 0, "immI_4", One("IMMI_4")),
    First(<<>>, n.lo = 2, 0, "immI_2", One("IMMI_2")),
    First(<<>>, n.lo = -1, 0, "immI_M1", One("IMMI_M1")),
    First(<<>>, n.lo = 1, 0, "immI_1", One("IMMI_1")),
    First(<<>>, n.lo = 0, 0, "immI_0", Loaded("IMMI_0", "loadConI0", 50, RREGI)) >>

ConI_immI(vm, n) == <<
    Operand(<<>>, TRUE, 10, "immI", Loaded("IMMI", "loadConI", 100, RREGI)),
    Known("loadConI", Via("loadConI", 100, RREGI)) >>

ConI(vm, n) ==
    ConI_immI_65535(vm, n)
    \o ConI_immI(vm, n)

ConL_immL_65535(vm, n) == <<
    First(<<>>, Long(n, 0, 65535), 0, "immL_65535", One("IMML_65535")),
    First(<<>>, Long(n, 0, 255), 0, "immL_255", One("IMML_255")),
    First(<<>>, Long(n, 0, -1), 20, "immL_32bits", One("IMML_32BITS")),
    First(<<>>, Long(n, -1, -1), 0, "immL_M1", One("IMML_M1")),
    First(<<>>, Long(n, 0, 1), 0, "immL1", One("IMML1")),
    First(<<>>, Long(n, 0, 0), 10, "immL0", Loaded("IMML0", "loadConL0", 50, RREGL)),
    First(<<>>, PowerOf2(Not(n)), 15, "immL_NotPow2", One("IMML_NOTPOW2")),
    First(<<>>, PowerOf2(n), 15, "immL_Pow2", One("IMML_POW2")),
    Operand(<<>>, SignExtended(n), 15, "immL32", Loaded("IMML32", "loadConL32", 70, RREGL)),
    Operand(<<>>, n.hi = 0, 10, "immUL32", Loaded("IMMUL32", "loadConUL32", 60, RREGL)),
    First(<<>>, SignExtended(n) /\ n.lo \in -128 .. 127, 5, "immL8", One("IMML8")) >>

ConL_immL(vm, n) == <<
    Operand(<<>>, TRUE, 20, "immL", Loaded("IMML", "loadConL", 150, RREGL)),
    Known("loadConL", Via("loadConL", 150, RREGL)) >>

ConL(vm, n) ==
    ConL_immL_65535(vm, n)
    \o ConL_immL(vm, n)

ConP_immP31(vm, n) == <<
    First(<<>>, ~Has(n, "reloc") /\ n.hi = 0 /\ n.lo >= 0, 5, "immP31",
          Loaded("IMMP31", "loadConP31", 60, RREGP)),
    Operand(<<>>, Long(n, 0, 0), 5, "immP0", Loaded("IMMP0", "loadConP0", 50, RREGP)),
    Operand(<<>>, TRUE, 10, "immP", Loaded("IMMP", "loadConP", 100, RREGP)) >>

ConP_loadConP(vm, n) == << Known("loadConP", Via("loadConP", 100, RREGP)) >>

ConP(vm, n) ==
    ConP_immP31(vm, n)
    \o ConP_loadConP(vm, n)
=============================================================================
