------------------------------ MODULE MCPlayer ------------------------------
(* A dump without a node, one with a few nodes and one with an exception path *)
(* that shortens it when hidden.  The steps are made of the levels of IRGraph.*)
EXTENDS Player, FiniteSets, SequencesExt

IR == INSTANCE IRGraph

N(type, in) == [type |-> type, in |-> in, ret |-> 0, arg |-> <<>>]

Graph(t) ==
  CASE t = "blank" -> <<>>
    [] t = "neg"   -> << N("Parm", <<1>>), N("Return", <<1>>) >>
    [] t = "call"  -> << N("Call", <<>>), N("Return", <<1>>),
                         N("Op", <<1>>), N("Rethrow", <<3>>) >>

MCTexts == {"blank", "neg", "call"}
MCParams == {"42", "7"}
MCNodesOf(t) == DOMAIN Graph(t)
MCEdgesOf(t) == IR!DataEdges(Graph(t))
MCExceptionNodesOf(t) ==
  IF IR!OfType(Graph(t), "Rethrow") = {} THEN {} ELSE IR!ExceptionOnly(Graph(t))

\* The steps over some levels: a parameter shows its number, and so does what
\* is executed after it.
StepsOver(t, levels, p) ==
  LET into(S) == {e \in MCEdgesOf(t) : e[2] \in S}
      before(k) == UNION {levels[i] : i \in 1..(k - 1)}
      upTo(k) == UNION {levels[i] : i \in 1..k}
      values(S) == [n \in MCNodesOf(t) |-> IF n \in S THEN p ELSE "none"]
      step(k) == [activeNodes |-> levels[k], activeEdges |-> into(levels[k]),
                  completedNodes |-> before(k), completedEdges |-> into(before(k)),
                  values |-> values(upTo(k))]
      initial == [activeNodes |-> {}, activeEdges |-> {}, completedNodes |-> {},
                  completedEdges |-> {}, values |-> values({})]
  IN  <<initial>> \o [k \in DOMAIN levels |-> step(k)]

StepsTable ==
  [x \in MCTexts \X BOOLEAN \X MCParams |->
     StepsOver(x[1], IR!FilterLevels(IR!Levels(Graph(x[1])),
                       IF x[2] THEN MCExceptionNodesOf(x[1]) ELSE {}), x[3])]
MCStepsOf(t, h, p) == StepsTable[<<t, h, p>>]

\* "r" matches the returns and rethrows, "x" nothing.
MCQueries == {"r", "x"}
MCMatches(t, q) ==
  IF q = "x" THEN {} ELSE IR!OfType(Graph(t), "Return") \cup IR!OfType(Graph(t), "Rethrow")
=============================================================================
