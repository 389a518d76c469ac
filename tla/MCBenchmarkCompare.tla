------------------------- MODULE MCBenchmarkCompare -------------------------
(* Directories of two or three files with up to three rows of two benchmarks. *)
EXTENDS BenchmarkCompare

MCBenchOrder == <<"max", "min">>

Row(b, m, p, s) == [benchmark |-> b, mode |-> m, params |-> p, score |-> s]
File(prefix, suffix, rows) == [prefix |-> prefix, suffix |-> suffix, rows |-> rows]

\* The scores of a patch: much worse, hardly better, better by half a percent.
Scores == {100, 201, 203}

\* The rows of a file have the same "Param:" columns: one, or none.
Keys == {<<"max", "avgt", <<1>> >>, <<"max", "avgt", <<2>> >>, <<"min", "thrpt", <<1>> >>}
PlainKeys == {<<"max", "avgt", <<>> >>, <<"min", "avgt", <<>> >>, <<"min", "thrpt", <<>> >>}

RowOf(k, s) == Row(k[1], k[2], k[3], s)

\* Two files of the same runs, the patch's scores left open.
SameOrder ==
  UNION {{{File("base-", "", <<RowOf(a, 200), RowOf(b, 200), RowOf(c, 200)>>),
           File("", "", <<RowOf(a, s), RowOf(b, t), RowOf(c, 203)>>)} :
     a \in K, b \in K, c \in K, s \in Scores, t \in Scores} : K \in {Keys, PlainKeys}}

\* Another order, another run, a blank line, an unknown mode.
Lines(K) == {RowOf(k, 201) : k \in K} \cup {Blank} \cup {Row("max", "?", k[3], 1) : k \in K}

OtherOrder ==
  UNION {{{File("base-", "", <<RowOf(a, 200), RowOf(b, 200)>>), File("", "", <<x, y>>)} :
     a \in K, b \in K, x \in Lines(L), y \in Lines(L)} :
     K \in {Keys, PlainKeys}, L \in {Keys, PlainKeys}}

\* The two files plan.md names, and a patch too many.
Named ==
  {{File("", "", <<RowOf(a, 200)>>), File("", "-base", <<RowOf(a, 100)>>)} : a \in Keys}
  \cup {{File("base-", "", <<RowOf(a, 200)>>), File("", "", <<RowOf(b, 201)>>),
         File("", "old", <<RowOf(a, 100)>>)} : a \in Keys, b \in Keys}

MCDirectories == SameOrder \cup OtherOrder \cup Named
=============================================================================
