------------------------------ MODULE MCNodes ------------------------------
(***************************************************************************)
(* What the forests of MCDFA are made of: ideal nodes, the flags of some   *)
(* VMs, and lists of trees.                                                *)
(***************************************************************************)
EXTENDS DFAOperands, SequencesExt

-----------------------------------------------------------------------------
\* Ideal nodes
Node(op, in) == [NoNode EXCEPT !.op = op, !.in = in]
Leaf(op, k) == [NoNode EXCEPT !.op = op, !.lo = k]
Typed(facts, n) == [n EXCEPT !.is = facts]
Const(op, hi, lo) == [NoNode EXCEPT !.op = op, !.hi = hi, !.lo = lo]

I(k) == Leaf("RegI", k)
L(k) == Leaf("RegL", k)
P(k) == Leaf("RegP", k)
F(k) == Leaf("RegF", k)
D(k) == Leaf("RegD", k)
Narrow == Leaf("RegN", 1)
ConInt(k) == Leaf("ConI", k)
ConLong(k) == Const("ConL", IF k < 0 THEN -1 ELSE 0, k)
Far == Const("ConL", 256, 5)        \* needs more than 32 bits

Decoded == Typed({"NotNull"}, Node("DecodeN", <<Narrow>>))
Bases == <<P(1), Decoded>>
Index == Typed({"nonneg"}, Node("ConvI2L", <<I(1)>>))
Wide == Node("ConvI2L", <<I(1)>>)       \* may be negative
Scaled(x, k) == Node("LShiftL", <<x, ConInt(k)>>)
At(base, off) == Node("AddP", <<base, off>>)

Pair(x, y) == Node("Binary", <<x, y>>)
Load(op, a) == Node(op, <<a>>)
Store(op, a, v) == Node(op, <<a, v>>)
Cond(test, cmp) == LET b == Typed({test}, Node("Bool", <<cmp>>)) IN <<b, cmp>>
Select(op, test, cmp, x, y) ==
    Node(op, <<Node("Binary", Cond(test, cmp)), Pair(x, y)>>)
-----------------------------------------------------------------------------
\* VM flags: an x86-64 of today, and changes to it
VM == [UseAPX |-> FALSE, UseIncDec |-> TRUE, UseBMI1Instructions |-> TRUE, bmi2 |-> TRUE,
       fast_2op_lea |-> TRUE, fast_3op_lea |-> FALSE, shift |-> 3, base |-> 1,
       UseCompressedOops |-> TRUE, UseCompactObjectHeaders |-> FALSE,
       UseCountLeadingZerosInstruction |-> TRUE, UseCountTrailingZerosInstruction |-> TRUE,
       UsePopCountInstruction |-> TRUE, UseG1GC |-> TRUE, UseZGC |-> FALSE,
       UseXmmLoadAndClearUpper |-> TRUE, UseXmmI2F |-> FALSE, UseXmmI2D |-> FALSE,
       UseStoreImmI16 |-> FALSE, UseAVX |-> 2, VerifyConstraintCasts |-> 0,
       UseSSE |-> 4, UseSSE42Intrinsics |-> TRUE, UseSecondarySupersTable |-> TRUE,
       AllocatePrefetchInstr |-> 0, MaxVectorSize |-> 32, EnableX86ECoreOpts |-> FALSE,
       data_cache_line_flush |-> TRUE, gfni |-> FALSE, avx10_2 |-> FALSE,
       avx512vl |-> FALSE, avx512bw |-> FALSE, avx512dq |-> FALSE, avx512cd |-> FALSE,
       avx512vlbw |-> FALSE, avx512vldq |-> FALSE, avx512_bitalg |-> FALSE,
       avx512_vpopcntdq |-> FALSE, avx512_vnni |-> FALSE, avx512_vbmi |-> FALSE,
       avx512_fp16 |-> FALSE]
Apx == [VM EXCEPT !.UseAPX = TRUE, !.fast_3op_lea = TRUE]
Old == [VM EXCEPT !.UseIncDec = FALSE, !.UseBMI1Instructions = FALSE, !.bmi2 = FALSE,
                  !.fast_2op_lea = FALSE, !.UseAVX = 0, !.UseXmmI2F = TRUE,
                  !.UseXmmI2D = TRUE, !.UseXmmLoadAndClearUpper = FALSE,
                  !.UseCountLeadingZerosInstruction = FALSE,
                  !.UseCountTrailingZerosInstruction = FALSE, !.UseSSE = 2,
                  !.UseSecondarySupersTable = FALSE, !.MaxVectorSize = 16,
                  !.AllocatePrefetchInstr = 3]
Avx1 == [VM EXCEPT !.UseAVX = 1, !.bmi2 = FALSE]
ECore == [VM EXCEPT !.EnableX86ECoreOpts = TRUE, !.gfni = TRUE, !.AllocatePrefetchInstr = 1]
\* The first processors with AVX-512 have 64-byte vectors of ints, longs, floats
\* and doubles only, and masks for those alone.
Knl == [VM EXCEPT !.UseAVX = 3, !.MaxVectorSize = 64, !.avx512cd = TRUE,
                  !.AllocatePrefetchInstr = 2]
Avx512 == [Knl EXCEPT !.avx512vl = TRUE, !.avx512bw = TRUE, !.avx512dq = TRUE,
                      !.avx512vlbw = TRUE, !.avx512vldq = TRUE]
Avx10 == [Avx512 EXCEPT !.avx10_2 = TRUE, !.UseAPX = TRUE, !.gfni = TRUE,
                        !.avx512_bitalg = TRUE, !.avx512_vpopcntdq = TRUE,
                        !.avx512_vnni = TRUE, !.avx512_vbmi = TRUE, !.avx512_fp16 = TRUE]
Zgc == [VM EXCEPT !.UseG1GC = FALSE, !.UseZGC = TRUE, !.UseCompressedOops = FALSE]
Unshifted == [VM EXCEPT !.shift = 0]
CompressedHeaps == <<VM, Unshifted, [Unshifted EXCEPT !.base = 0], [VM EXCEPT !.base = 0],
                     [VM EXCEPT !.UseCompactObjectHeaders = TRUE]>>

\* A forest: trees labelled one after the other under the same VM flags
Forest(vm, roots) == [vm |-> vm, roots |-> roots]

\* Lists of every f(x), f(x, y), ...
Each(f(_), xs) == [i \in DOMAIN xs |-> f(xs[i])]
Each2(f(_, _), xs, ys) ==
    [i \in 1 .. Len(xs) * Len(ys) |->
        f(xs[1 + ((i - 1) % Len(xs))], ys[1 + ((i - 1) \div Len(xs))])]
Each3(f(_, _, _), xs, ys, zs) ==
    FlattenSeq(Each(LAMBDA z : Each2(LAMBDA x, y : f(x, y, z), xs, ys), zs))

\* x op y and y op x, stored where x may have been loaded from
Commuted(ops, store, xs, ys) ==
    Each3(LAMBDA op, x, y :
            LET z == <<Node(op, <<x, y>>), Node(op, <<y, x>>)>> IN
            IF store = "" THEN z ELSE z \o <<Store(store, P(1), z[1]), Store(store, P(1), z[2])>>,
          ops, xs, ys)
Binary2(ops, store, xs, ys) ==
    Each3(LAMBDA op, x, y :
            LET z == Node(op, <<x, y>>) IN
            IF store = "" THEN <<z>> ELSE <<z, Store(store, P(1), z)>>,
          ops, xs, ys)
Unary(ops, xs) == Each2(LAMBDA op, x : <<Node(op, <<x>>)>>, ops, xs)

Mem(op) == Load(op, P(1))
Away(op) == Load(op, P(2))
On(vms, forests) == Each2(Forest, vms, forests)
=============================================================================
