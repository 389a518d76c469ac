--------------------------- MODULE IRParserProofs ---------------------------
(***************************************************************************)
(* buildEdges for every dump: whatever lines were parsed and in whatever   *)
(* order the inputs are gone through, the array of edges is the graph's.   *)
(***************************************************************************)
EXTENDS IRParser, FiniteSetTheorems, SequenceTheorems, TLAPS

\* The edge a pair of a node and a position stands for, if it stands for one.
Makes(p, e) ==
  /\ e = <<nodes[p[1]].in[p[2]], p[1]>>
  /\ e \in Edges(nodes)

Pairs == UNION {{n} \X DOMAIN nodes[n].in : n \in DOMAIN nodes}

\* The array lists the keys seen, each once; these are edges of the graph, and
\* an edge not among them is still to be made.
EInv ==
  /\ pc \in {"parse", "edges", "done"}
  /\ IsFiniteSet(seen)
  /\ edges \in Seq(seen)
  /\ ToSet(edges) = seen
  /\ Len(edges) = Cardinality(seen)
  /\ pc = "parse" => seen = {}
  /\ pc # "parse" =>
       /\ seen \subseteq Edges(nodes)
       /\ todo \subseteq Pairs
       /\ \A p \in Pairs : \A e : Makes(p, e) => e \in seen \/ p \in todo
  /\ pc = "done" => todo = {}

LEMMA InitEInv == Init => EInv
<1> SUFFICES ASSUME Init PROVE EInv
  OBVIOUS
<1>1. IsFiniteSet(seen) /\ Cardinality(seen) = 0
  BY FS_EmptySet DEF Init
<1>2. edges \in Seq(seen) /\ Len(edges) = 0 /\ ToSet(edges) = {}
  BY EmptySeq DEF Init, ToSet
<1>3. QED
  BY <1>1, <1>2 DEF Init, EInv

\* Every edge of the graph has a pair that stands for it.
LEMMA EdgesHavePairs ==
  ASSUME NEW e \in Edges(nodes)
  PROVE  \E p \in Pairs : Makes(p, e)
<1>1. /\ e \in (DOMAIN nodes) \X (DOMAIN nodes)
      /\ e[1] \in InputIds(nodes, e[2])
  BY DEF Edges
<1>2. PICK i \in DOMAIN nodes[e[2]].in : nodes[e[2]].in[i] = e[1]
  BY <1>1 DEF InputIds, ToSet
<1>3. <<e[2], i>> \in Pairs
  BY <1>1, <1>2 DEF Pairs
<1>4. Makes(<<e[2], i>>, e)
  BY <1>1, <1>2 DEF Makes
<1>5. QED
  BY <1>3, <1>4

\* What the inner loop asks of an input is what makes it an edge.
LEMMA TestIsEdge ==
  ASSUME NEW n \in DOMAIN nodes, NEW i \in DOMAIN nodes[n].in
  PROVE  LET a == nodes[n].in[i] IN
           (a # Gap /\ a # n /\ a \in DOMAIN nodes) <=> <<a, n>> \in Edges(nodes)
BY DEF Edges, InputIds, ToSet

\* One turn of the inner loop: an edge not seen before is appended and noted.
LEMMA AddEdgeEInv == ASSUME EInv, NEW p \in todo, AddEdge(p[1], p[2]) PROVE EInv'
<1> DEFINE n == p[1]
           i == p[2]
           a == nodes[n].in[i]
           e == <<a, n>>
<1>1. /\ pc = "edges" /\ pc' = "edges" /\ nodes' = nodes
      /\ todo' = todo \ {<<n, i>>}
  BY DEF AddEdge
<1>2. p \in Pairs
  BY <1>1 DEF EInv
<1>3. /\ p = <<n, i>> /\ n \in DOMAIN nodes /\ i \in DOMAIN nodes[n].in
  BY <1>2 DEF Pairs
<1>4. (a # Gap /\ a # n /\ a \in DOMAIN nodes) <=> e \in Edges(nodes)
  BY <1>3, TestIsEdge
<1>5. \A f : Makes(p, f) => f = e /\ e \in Edges(nodes)
  BY <1>3 DEF Makes
<1>6. Pairs' = Pairs /\ \A q, f : Makes(q, f)' <=> Makes(q, f)
  BY <1>1 DEF Pairs, Makes
<1>7. CASE e \in Edges(nodes) /\ e \notin seen
  <2>1. edges' = Append(edges, e) /\ seen' = seen \cup {e}
    BY <1>4, <1>7 DEF AddEdge
  <2>2. /\ IsFiniteSet(seen')
        /\ Cardinality(seen') = Cardinality(seen) + 1
    BY <1>7, <2>1, FS_AddElement DEF EInv
  <2>3. edges \in Seq(seen')
    BY <2>1, SeqMonotonic DEF EInv
  <2>4. /\ edges' \in Seq(seen')
        /\ Len(edges') = Len(edges) + 1
        /\ \A j \in 1..Len(edges) : edges'[j] = edges[j]
        /\ edges'[Len(edges) + 1] = e
    BY <2>1, <2>3, AppendProperties
  <2>5. /\ Len(edges) \in Nat
        /\ DOMAIN edges = 1..Len(edges)
        /\ DOMAIN edges' = 1..(Len(edges) + 1)
    BY <2>3, <2>4, LenProperties
  <2>6. ToSet(edges') = ToSet(edges) \cup {e}
    <3>1. DOMAIN edges' = (DOMAIN edges) \cup {Len(edges) + 1}
      BY <2>5
    <3>2. QED
      BY <2>4, <2>5, <3>1 DEF ToSet
  <2>7. \A q \in Pairs : \A f : Makes(q, f) => f \in seen' \/ q \in todo'
    BY <1>1, <1>3, <1>5, <2>1 DEF EInv
  <2>8. QED
    BY <1>1, <1>6, <1>7, <2>1, <2>2, <2>4, <2>6, <2>7 DEF EInv
<1>8. CASE ~(e \in Edges(nodes) /\ e \notin seen)
  <2>1. edges' = edges /\ seen' = seen
    BY <1>4, <1>8 DEF AddEdge
  <2>2. \A q \in Pairs : \A f : Makes(q, f) => f \in seen' \/ q \in todo'
    BY <1>1, <1>3, <1>5, <1>8, <2>1 DEF EInv
  <2>3. QED
    BY <1>1, <1>6, <2>1, <2>2 DEF EInv
<1>9. QED
  BY <1>7, <1>8

LEMMA StepEInv == EInv /\ [Next]_vars => EInv'
<1> SUFFICES ASSUME EInv, [Next]_vars PROVE EInv'
  OBVIOUS
<1>1. CASE ParseLine
  BY <1>1 DEF ParseLine, EInv
<1>2. CASE StartEdges
  <2>1. /\ pc' = "edges" /\ seen = {} /\ todo' = Pairs'
        /\ UNCHANGED <<edges, seen, nodes>>
    BY <1>2 DEF StartEdges, EInv, Pairs
  <2>2. QED
    BY <2>1 DEF EInv
<1>3. ASSUME NEW p \in todo, AddEdge(p[1], p[2]) PROVE EInv'
  BY <1>3, AddEdgeEInv
<1>4. CASE Finish
  BY <1>4 DEF Finish, EInv, Pairs, Makes
<1>5. CASE UNCHANGED vars
  BY <1>5 DEF vars, EInv, Pairs, Makes
<1>6. QED
  BY <1>1, <1>2, <1>3, <1>4, <1>5 DEF Next

\* For every dump, the edges built are those of the graph parsed, each once,
\* none from a node to itself or to one that is not there.
THEOREM EdgesTheorem == Spec => []EdgesAreComplete
<1>1. EInv => EdgesAreComplete
  <2> SUFFICES ASSUME EInv, pc = "done"
               PROVE  /\ Len(edges) = Cardinality(Edges(nodes))
                      /\ ToSet(edges) = Edges(nodes)
    BY DEF EdgesAreComplete
  <2>1. \A e \in Edges(nodes) : e \in seen
    BY EdgesHavePairs DEF EInv
  <2>2. seen = Edges(nodes)
    BY <2>1 DEF EInv
  <2>3. QED
    BY <2>2 DEF EInv
<1>2. QED
  BY <1>1, InitEInv, StepEInv, PTL DEF Spec
-----------------------------------------------------------------------------
\* The places in a finite set are numbered from 1 on, in their order.
LEMMA RankFacts ==
  ASSUME NEW P \in SUBSET Nat, IsFiniteSet(P)
  PROVE  /\ Cardinality(P) \in Nat
         /\ \A i \in P : Rank(P, i) \in 1..Cardinality(P)
         /\ \A i, j \in P : i < j => Rank(P, i) < Rank(P, j)
         /\ \A k \in 1..Cardinality(P) : \E i \in P : Rank(P, i) = k
<1> DEFINE n == Cardinality(P)
           Upto(i) == {j \in P : j <= i}
           rank == [i \in P |-> Rank(P, i)]
<1>1. n \in Nat /\ \A i \in P : i \in Nat
  BY FS_CardinalityType
<1>2. ASSUME NEW i \in P
      PROVE  Rank(P, i) \in 1..n
  <2>1. IsFiniteSet(Upto(i)) /\ Rank(P, i) <= n
    BY FS_Subset, Upto(i) \in SUBSET P DEF Rank
  <2>2. Rank(P, i) \in Nat /\ Upto(i) # {}
    BY <1>1, <2>1, FS_CardinalityType DEF Rank
  <2>3. Rank(P, i) # 0
    BY <2>1, <2>2, FS_EmptySet DEF Rank
  <2> QED BY <1>1, <2>1, <2>2, <2>3
<1>3. ASSUME NEW i \in P, NEW j \in P, i < j
      PROVE  Rank(P, i) < Rank(P, j)
  <2>1. \A x \in P : x <= i => x <= j
    BY <1>1, <1>3
  <2>2. j <= j /\ ~(j <= i)
    BY <1>1, <1>3
  <2>3. Upto(i) \subseteq Upto(j) /\ j \in Upto(j) /\ j \notin Upto(i)
    BY <2>1, <2>2, Zenon
  <2>4. IsFiniteSet(Upto(j))
    BY FS_Subset, Upto(j) \in SUBSET P
  <2>5. Rank(P, i) <= Rank(P, j) /\ Rank(P, i) # Rank(P, j)
    BY <2>3, <2>4, FS_Subset DEF Rank
  <2> QED BY <1>1, <1>2, <2>5
<1> HIDE DEF n
<1>4. \A i, j \in P : i # j => Rank(P, i) # Rank(P, j)
  <2> SUFFICES ASSUME NEW i \in P, NEW j \in P, i < j
               PROVE  Rank(P, i) # Rank(P, j)
    BY <1>1
  <2> QED BY <1>1, <1>2, <1>3
<1>5. rank \in Injection(P, 1..n)
  BY <1>2, <1>4 DEF Injection, IsInjective
<1>6. rank \in Surjection(P, 1..n)
  BY <1>1, <1>5, FS_Interval, FS_Injection DEF n
<1> QED BY <1>1, <1>2, <1>3, <1>6 DEF Surjection, n

\* What is selected from a sequence: as many elements as there are places, the
\* one at a place coming at that place's rank, and nothing else.
LEMMA SelectedFacts ==
  ASSUME NEW s, NEW n \in Nat, DOMAIN s = 1..n, NEW P \in SUBSET DOMAIN s
  PROVE  /\ DOMAIN Selected(s, P) = 1..Cardinality(P)
         /\ Cardinality(P) \in Nat
         /\ \A i \in P : /\ Rank(P, i) \in DOMAIN Selected(s, P)
                         /\ Selected(s, P)[Rank(P, i)] = s[i]
<1>1. P \in SUBSET Nat /\ IsFiniteSet(P)
  BY FS_Interval, FS_Subset, P \in SUBSET (1..n)
<1>2. /\ Cardinality(P) \in Nat
      /\ \A i \in P : Rank(P, i) \in 1..Cardinality(P)
      /\ \A i, j \in P : i < j => Rank(P, i) < Rank(P, j)
  BY <1>1, RankFacts
<1>3. ASSUME NEW i \in P
      PROVE  Selected(s, P)[Rank(P, i)] = s[i]
  <2> DEFINE c == CHOOSE j \in P : Rank(P, j) = Rank(P, i)
  <2>1. c \in P /\ Rank(P, c) = Rank(P, i)
    BY <1>3
  <2> HIDE DEF c
  <2>2. c \in Nat /\ i \in Nat /\ Rank(P, i) \in Nat
    BY <1>1, <1>2, <2>1
  <2>3. ~(c < i) /\ ~(i < c)
    BY <1>2, <2>1, <2>2
  <2>4. c = i
    BY <2>2, <2>3
  <2>5. Selected(s, P)[Rank(P, i)] = s[c]
    BY <1>2 DEF Selected, c
  <2> QED BY <2>4, <2>5
<1> QED BY <1>2, <1>3 DEF Selected

\* An id or a placeholder of a line is the input at its rank among them.
LEMMA InputsFacts ==
  ASSUME NEW toks, NEW S, toks \in Seq(S)
  PROVE  \A i \in InputPlaces(toks) :
           /\ Rank(InputPlaces(toks), i) \in DOMAIN Inputs(toks)
           /\ Inputs(toks)[Rank(InputPlaces(toks), i)] = toks[i].of
<1> DEFINE P == InputPlaces(toks)
<1>1. Len(toks) \in Nat /\ DOMAIN toks = 1..Len(toks)
  OBVIOUS
<1>2. P \in SUBSET DOMAIN toks
  BY DEF InputPlaces
<1>3. \A i \in P : /\ Rank(P, i) \in DOMAIN Selected(toks, P)
                   /\ Selected(toks, P)[Rank(P, i)] = toks[i]
  <2> HIDE DEF P
  <2> QED BY <1>1, <1>2, SelectedFacts
<1> QED BY <1>3 DEF Inputs

\* The id right after the first "returns" is the input at the return index.
LEMMA ReturnIndexFacts ==
  ASSUME NEW toks, NEW S, toks \in Seq(S),
         NEW m \in 1..(Len(toks) - 1), FirstReturns(toks, m), toks[m + 1].tok = "id"
  PROVE  /\ ReturnIndex(toks) \in DOMAIN Inputs(toks)
         /\ Inputs(toks)[ReturnIndex(toks)] = toks[m + 1].of
<1> DEFINE A == AfterReturns(toks)
<1>1. Len(toks) \in Nat /\ DOMAIN toks = 1..Len(toks)
  OBVIOUS
<1>2. m \in Nat /\ m + 1 \in DOMAIN toks /\ m \in 1..((m + 1) - 1)
  BY <1>1
<1>3. m + 1 \in A
  BY <1>2 DEF AfterReturns, FirstReturns
<1>4. ASSUME NEW i \in A PROVE m + 1 <= i
  <2>1. i \in 1..Len(toks) /\ \E k \in 1..(i - 1) : toks[k].tok = "returns"
    BY <1>1 DEF AfterReturns
  <2>2. PICK k \in 1..(i - 1) : toks[k].tok = "returns"
    BY <2>1
  <2>3. k \notin 1..(m - 1)
    BY <2>2 DEF FirstReturns
  <2> QED BY <1>1, <2>1, <2>2, <2>3
<1>5. A \in SUBSET Nat
  BY <1>1 DEF AfterReturns
<1>6. First(A) = m + 1
  <2> HIDE DEF A
  <2>1. First(A) \in A /\ First(A) <= m + 1
    BY <1>3, <1>4 DEF First
  <2>2. First(A) \in Nat
    BY <1>5, <2>1
  <2>3. m + 1 <= First(A)
    BY <1>4, <2>1
  <2> QED BY <1>2, <2>1, <2>2, <2>3
<1>7. m + 1 \in InputPlaces(toks)
  BY <1>2 DEF InputPlaces
<1>8. ReturnIndex(toks) = Rank(InputPlaces(toks), m + 1)
  BY <1>3, <1>6 DEF ReturnIndex
<1> QED BY <1>7, <1>8, InputsFacts

\* What is left and what was parsed are lines of one dump, and a node is what
\* some parsed line with its id says.
PInv ==
  /\ \E D \in Dumps : /\ lines \in Seq(ToSet(D))
                      /\ parsed \subseteq {l \in ToSet(D) : l.shape}
  /\ \A n \in DOMAIN nodes : \E l \in parsed :
       /\ l.id = n
       /\ nodes[n].in = Inputs(l.toks)
       /\ nodes[n].ret = ReturnIndex(l.toks)
       /\ nodes[n].outs = l.outs

LEMMA InitPInv == Init => PInv
<1> SUFFICES ASSUME Init PROVE PInv
  OBVIOUS
<1>1. lines \in Dumps /\ lines \in Seq(ToSet(lines)) /\ parsed = {}
  BY DumpsAssumption DEF Init, IsDump
<1>2. DOMAIN nodes = {}
  BY DEF Init
<1> QED BY <1>1, <1>2 DEF PInv

\* A line defines its node and leaves the other nodes as they were.
LEMMA ParseLinePInv == PInv /\ ParseLine => PInv'
<1> SUFFICES ASSUME PInv, ParseLine PROVE PInv'
  OBVIOUS
<1> DEFINE l == Head(lines)
           node == [type |-> l.type, in |-> Inputs(l.toks),
                    ret |-> ReturnIndex(l.toks), arg |-> <<>>, outs |-> l.outs]
<1>1. PICK D \in Dumps : /\ lines \in Seq(ToSet(D))
                         /\ parsed \subseteq {k \in ToSet(D) : k.shape}
  BY DEF PInv
<1>2. l \in ToSet(D) /\ lines' \in Seq(ToSet(D))
  BY <1>1, HeadTailProperties DEF ParseLine
<1>3. CASE l.shape
  <2>1. /\ parsed' = parsed \cup {l}
        /\ nodes' = [n \in DOMAIN nodes \cup {l.id} |->
                       IF n = l.id THEN node ELSE nodes[n]]
    BY <1>3 DEF ParseLine
  <2>2. ASSUME NEW n \in DOMAIN nodes'
        PROVE  \E k \in parsed' : /\ k.id = n
                                  /\ nodes'[n].in = Inputs(k.toks)
                                  /\ nodes'[n].ret = ReturnIndex(k.toks)
                                  /\ nodes'[n].outs = k.outs
    <3>1. CASE n = l.id
      <4>1. nodes'[n] = node /\ l \in parsed'
        BY <2>1, <3>1
      <4> QED BY <3>1, <4>1
    <3>2. CASE n # l.id
      <4>1. n \in DOMAIN nodes /\ nodes'[n] = nodes[n]
        BY <2>1, <2>2, <3>2
      <4> QED BY <2>1, <4>1 DEF PInv
    <3> QED BY <3>1, <3>2
  <2>3. parsed' \subseteq {k \in ToSet(D) : k.shape}
    BY <1>1, <1>2, <1>3, <2>1
  <2> QED BY <1>2, <2>2, <2>3 DEF PInv
<1>4. CASE ~l.shape
  <2>1. UNCHANGED <<nodes, parsed>>
    BY <1>4 DEF ParseLine
  <2> QED BY <1>1, <1>2, <2>1 DEF PInv
<1> QED BY <1>3, <1>4

LEMMA StepPInv == PInv /\ [Next]_vars => PInv'
<1> SUFFICES ASSUME PInv, [Next]_vars PROVE PInv'
  OBVIOUS
<1>1. CASE ParseLine
  BY <1>1, ParseLinePInv
<1>2. CASE UNCHANGED <<lines, nodes, parsed>>
  BY <1>2 DEF PInv
<1>3. CASE StartEdges
  BY <1>2, <1>3 DEF StartEdges
<1>4. ASSUME NEW p \in todo, AddEdge(p[1], p[2]) PROVE PInv'
  BY <1>2, <1>4 DEF AddEdge
<1>5. CASE Finish
  BY <1>2, <1>5 DEF Finish
<1>6. CASE UNCHANGED vars
  BY <1>2, <1>6 DEF vars
<1> QED BY <1>1, <1>3, <1>4, <1>5, <1>6 DEF Next

\* What the assumption on the dumps says of the lines parsed.
LEMMA ParsedFacts ==
  ASSUME PInv
  PROVE  /\ \A l \in parsed : l.id \in Nat /\ l.toks \in Seq(ToSet(l.toks))
         /\ \A l, k \in parsed :
              k.id \in l.outs => {Id(l.id), Glued(l.id)} \cap ToSet(k.toks) # {}
<1>1. PICK D \in Dumps : parsed \subseteq {l \in ToSet(D) : l.shape}
  BY DEF PInv
<1>2. IsDump(D) /\ LinksAgree(D)
  BY DumpsAssumption
<1>3. \A l \in parsed : l.id \in Nat /\ l.toks \in Seq(ToSet(l.toks))
  BY <1>1, <1>2 DEF IsDump
<1>4. ASSUME NEW l \in parsed, NEW k \in parsed, k.id \in l.outs
      PROVE  {Id(l.id), Glued(l.id)} \cap ToSet(k.toks) # {}
  BY <1>1, <1>2, <1>4 DEF LinksAgree
<1> QED BY <1>3, <1>4

\* For every dump, the input a Return is said to return is the id right after
\* the first "returns" of its line, however many placeholders come before it.
THEOREM ReturnTheorem == Spec => []ReturnIndexPointsAtValue
<1>1. ASSUME PInv PROVE ReturnIndexPointsAtValue
  <2> SUFFICES ASSUME NEW n \in DOMAIN nodes
               PROVE  \E l \in parsed : l.id = n /\
                        \A m \in 1..(Len(l.toks) - 1) :
                          FirstReturns(l.toks, m) /\ l.toks[m + 1].tok = "id" =>
                            /\ nodes[n].ret \in DOMAIN nodes[n].in
                            /\ nodes[n].in[nodes[n].ret] = l.toks[m + 1].of
    BY DEF ReturnIndexPointsAtValue
  <2>1. PICK l \in parsed : /\ l.id = n
                            /\ nodes[n].in = Inputs(l.toks)
                            /\ nodes[n].ret = ReturnIndex(l.toks)
    BY <1>1 DEF PInv
  <2>2. l.toks \in Seq(ToSet(l.toks))
    BY <1>1, ParsedFacts
  <2>3. ASSUME NEW m \in 1..(Len(l.toks) - 1),
               FirstReturns(l.toks, m), l.toks[m + 1].tok = "id"
        PROVE  /\ nodes[n].ret \in DOMAIN nodes[n].in
               /\ nodes[n].in[nodes[n].ret] = l.toks[m + 1].of
    BY <2>1, <2>2, <2>3, ReturnIndexFacts
  <2> QED BY <2>1, <2>3
<1> QED BY <1>1, InitPInv, StepPInv, PTL DEF Spec

\* For every dump that prints each link at both ends, a node that another lists
\* among its users has the edge, unless some line has an id glued to a
\* parenthesis.
THEOREM LinksTheorem == Spec => []PlainLinksAreEdges
<1>1. ASSUME PInv, EdgesAreComplete PROVE PlainLinksAreEdges
  <2> SUFFICES ASSUME pc = "done",
                      \A l \in parsed : \A i \in DOMAIN l.toks : l.toks[i].tok # "glued",
                      NEW a \in DOMAIN nodes, NEW b \in nodes[a].outs \cap DOMAIN nodes,
                      a # b
               PROVE  <<a, b>> \in ToSet(edges)
    BY DEF PlainLinksAreEdges, Linked
  <2>1. PICK l \in parsed : l.id = a /\ nodes[a].outs = l.outs
    BY <1>1 DEF PInv
  <2>2. PICK k \in parsed : k.id = b /\ nodes[b].in = Inputs(k.toks)
    BY <1>1 DEF PInv
  <2>3. /\ a \in Nat /\ k.toks \in Seq(ToSet(k.toks))
        /\ {Id(a), Glued(a)} \cap ToSet(k.toks) # {}
    BY <1>1, <2>1, <2>2, ParsedFacts
  <2>4. PICK i \in DOMAIN k.toks : k.toks[i] \in {Id(a), Glued(a)}
    BY <2>3 DEF ToSet
  <2>5. k.toks[i].tok = "id" /\ k.toks[i].of = a
    <3>1. k.toks[i] # Glued(a)
      BY <2>2, <2>4 DEF Glued
    <3> QED BY <2>4, <3>1 DEF Id
  <2>6. i \in InputPlaces(k.toks)
    BY <2>4, <2>5 DEF InputPlaces
  <2>7. PICK j \in DOMAIN nodes[b].in : nodes[b].in[j] = a
    BY <2>2, <2>3, <2>5, <2>6, InputsFacts
  <2>8. a \in InputIds(nodes, b)
    BY <2>3, <2>7 DEF InputIds, ToSet, Gap
  <2> QED BY <1>1, <2>8 DEF Edges, EdgesAreComplete
<1> QED BY <1>1, InitPInv, StepPInv, EdgesTheorem, PTL DEF Spec

\* What the parser returns is a graph as the other modules take it: its ids are
\* natural numbers, so none is the placeholder, and they are finitely many.
Numbered == DOMAIN nodes \subseteq Nat /\ IsFiniteSet(DOMAIN nodes)

LEMMA NumberedStep == IsFiniteSet(DOMAIN nodes) /\ [Next]_vars => IsFiniteSet(DOMAIN nodes)'
<1> SUFFICES ASSUME IsFiniteSet(DOMAIN nodes), [Next]_vars
             PROVE  IsFiniteSet(DOMAIN nodes)'
  OBVIOUS
<1>1. CASE nodes' = nodes
  BY <1>1
<1>2. CASE ParseLine
  <2>1. nodes' = nodes \/ \E id : DOMAIN nodes' = DOMAIN nodes \cup {id}
    BY <1>2 DEF ParseLine
  <2> QED BY <1>1, <2>1, FS_AddElement
<1> QED BY <1>1, <1>2 DEF Next, StartEdges, AddEdge, Finish, vars

\* Whatever the dump, its graph meets what the walks, the levels and the steps
\* assume of one (GraphsAssumption).
THEOREM GraphTheorem == Spec => []Numbered
<1>1. Init => IsFiniteSet(DOMAIN nodes)
  BY FS_EmptySet DEF Init
<1>2. PInv => DOMAIN nodes \subseteq Nat
  <2> SUFFICES ASSUME PInv, NEW n \in DOMAIN nodes PROVE n \in Nat
    OBVIOUS
  <2>1. PICK l \in parsed : l.id = n
    BY DEF PInv
  <2>2. PICK D \in Dumps : l \in ToSet(D) /\ l.shape
    BY DEF PInv
  <2> QED BY <2>1, <2>2, DumpsAssumption DEF IsDump
<1>3. PInv /\ IsFiniteSet(DOMAIN nodes) => Numbered
  BY <1>2 DEF Numbered
<1> QED BY <1>1, <1>3, NumberedStep, InitPInv, StepPInv, PTL DEF Spec
=============================================================================
