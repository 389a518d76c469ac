-------------------------- MODULE StepBuilderProofs --------------------------
(***************************************************************************)
(* From a parsed graph to its steps, for every finite graph, cyclic ones   *)
(* included.  First the two walks that find the exception path: what they  *)
(* have on their stacks and behind them, and that the result is the        *)
(* declared classification.  Then the levels, the filter and the steps.    *)
(***************************************************************************)
EXTENDS StepBuilder, FiniteSetTheorems, SequenceTheorems, TLAPS

\* Pushing a finite set puts each of its elements on the stack.
LEMMA PushFacts ==
  ASSUME NEW S, IsFiniteSet(S)
  PROVE  Push(S) \in Seq(S) /\ ToSet(Push(S)) = S
<1> DEFINE k == Cardinality(S)
           f == Push(S)
<1>1. k \in Nat /\ ExistsBijection(1..k, S)
  BY FS_CardinalityType
<1>2. f \in [1..k -> S] /\ IsInjective(f)
  BY <1>1 DEF Push, SetToSeq, ExistsBijection, Bijection, Injection
<1>3. f \in Injection(1..k, S)
  BY <1>2 DEF Injection
<1>4. Cardinality(1..k) = k
  BY <1>1, FS_Interval
<1>5. f \in Surjection(1..k, S)
  BY <1>3, <1>4, FS_Injection
<1>6. f \in Seq(S) /\ DOMAIN f = 1..k
  BY <1>1, <1>2
<1>7. ToSet(f) = S
  BY <1>2, <1>5, <1>6 DEF Surjection, ToSet
<1>8. QED
  BY <1>6, <1>7

\* Popping takes the last element off and leaves the others.
LEMMA PopFacts ==
  ASSUME NEW S, NEW s \in Seq(S), s # <<>>
  PROVE  /\ Last(s) \in S
         /\ Front(s) \in Seq(S)
         /\ ToSet(s) = ToSet(Front(s)) \cup {Last(s)}
<1>1. Len(s) \in Nat \ {0} /\ DOMAIN s = 1..Len(s)
  BY EmptySeq, LenProperties
<1>2. \A i \in 1..Len(s) : s[i] \in S
  BY ElementOfSeq
<1>3. /\ Front(s) \in Seq(S)
      /\ Len(Front(s)) = Len(s) - 1
      /\ \A i \in 1..(Len(s) - 1) : Front(s)[i] = s[i]
  BY <1>1, <1>2, SubSeqProperties DEF Front
<1>4. DOMAIN Front(s) = 1..(Len(s) - 1)
  BY <1>3, LenProperties
<1>5. DOMAIN s = (DOMAIN Front(s)) \cup {Len(s)}
  BY <1>1, <1>4
<1>6. ToSet(s) = ToSet(Front(s)) \cup {Last(s)}
  BY <1>3, <1>4, <1>5 DEF ToSet, Last
<1>7. QED
  BY <1>1, <1>2, <1>3, <1>6 DEF Last

LEMMA ConcatFacts ==
  ASSUME NEW S, NEW s \in Seq(S), NEW t \in Seq(S)
  PROVE  s \o t \in Seq(S) /\ ToSet(s \o t) = ToSet(s) \cup ToSet(t)
<1>1. s \o t \in Seq(S)
  BY ConcatProperties
<1>2. ToSet(s) = Range(s) /\ ToSet(t) = Range(t) /\ ToSet(s \o t) = Range(s \o t)
  BY DEF ToSet, Range
<1>3. QED
  BY <1>1, <1>2, RangeConcatenation

\* The set of the seeds and of what a walk from them reaches is closed, and is
\* the least such set.
LEMMA BackwardFacts ==
  ASSUME NEW G, NEW seeds \in SUBSET DOMAIN G
  PROVE  /\ seeds \subseteq BackwardFrom(G, seeds)
         /\ Closed(G, BackwardFrom(G, seeds))
         /\ \A S \in SUBSET DOMAIN G :
              seeds \subseteq S /\ Closed(G, S) => BackwardFrom(G, seeds) \subseteq S
<1>1. seeds \subseteq BackwardFrom(G, seeds)
  BY DEF BackwardFrom
<1>2. Closed(G, BackwardFrom(G, seeds))
  <2> SUFFICES ASSUME NEW n \in BackwardFrom(G, seeds), Inner(G, n),
                      NEW a \in InputIds(G, n) \cap DOMAIN G,
                      NEW S \in SUBSET DOMAIN G, seeds \subseteq S, Closed(G, S)
               PROVE  a \in S
    BY DEF Closed, BackwardFrom
  <2>1. n \in S
    BY DEF BackwardFrom
  <2>2. QED
    BY <2>1 DEF Closed
<1>3. QED
  BY <1>1, <1>2 DEF BackwardFrom

Happy     == BackwardFrom(nodes, OfType(nodes, "Return"))
Exception == BackwardFrom(nodes, OfType(nodes, "Rethrow"))

\* The walks reach only what they should, and miss nothing they have not on
\* the stack.
WInv ==
  /\ nodes \in Graphs
  /\ walk \in {"happy", "exception", "done"}
  /\ stack \in Seq(DOMAIN nodes)
  /\ reached \subseteq DOMAIN nodes
  /\ FrontierComplete
  /\ walk = "happy" => reached \cup ToSet(stack) \subseteq Happy
  /\ walk = "exception" =>
       happyPath = Happy /\ reached \cup ToSet(stack) \subseteq Exception
  /\ walk # "done" => OfType(nodes, "Rethrow") # {}
  /\ walk = "done" =>
       exceptionOnly = IF OfType(nodes, "Rethrow") = {} THEN {}
                       ELSE Exception \ Happy

LEMMA SeedsFacts ==
  ASSUME NEW G \in Graphs, NEW T
  PROVE  /\ OfType(G, T) \subseteq DOMAIN G
         /\ Push(OfType(G, T)) \in Seq(DOMAIN G)
         /\ ToSet(Push(OfType(G, T))) = OfType(G, T)
<1>1. OfType(G, T) \subseteq DOMAIN G
  BY DEF OfType
<1>2. IsFiniteSet(OfType(G, T))
  BY <1>1, GraphsAssumption, FS_Subset
<1>3. QED
  BY <1>1, <1>2, PushFacts, SeqMonotonic

LEMMA InitWInv == Init => WInv
<1> SUFFICES ASSUME Init PROVE WInv
  OBVIOUS
<1>1. /\ OfType(nodes, "Return") \subseteq DOMAIN nodes
      /\ stack \in Seq(DOMAIN nodes)
      /\ ToSet(stack) = OfType(nodes, "Return")
  BY SeedsFacts DEF Init
<1>2. OfType(nodes, "Return") \subseteq Happy
  BY <1>1, BackwardFacts DEF Happy
<1>3. FrontierComplete
  BY <1>1 DEF Init, FrontierComplete, Seeds
<1>4. QED
  BY <1>1, <1>2, <1>3 DEF Init, WInv

\* A turn pops an id and pushes those of its inputs that are not reached yet.
LEMMA VisitWInv == WInv /\ Visit => WInv'
<1> SUFFICES ASSUME WInv, Visit PROVE WInv'
  OBVIOUS
<1> DEFINE push == IF Inner(nodes, Top) THEN Unreached(Top) ELSE {}
<1>1. /\ walk # "done" /\ stack # <<>>
      /\ reached' = reached \cup {Top}
      /\ stack' = Front(stack) \o Push(push)
      /\ UNCHANGED <<nodes, walk, happyPath, exceptionOnly>>
  BY DEF Visit, Turn, Top
<1>2. /\ Top \in DOMAIN nodes
      /\ Front(stack) \in Seq(DOMAIN nodes)
      /\ ToSet(stack) = ToSet(Front(stack)) \cup {Top}
  BY <1>1, PopFacts DEF WInv, Top
<1>3. push \subseteq DOMAIN nodes
  BY DEF Unreached
<1>4. IsFiniteSet(push)
  BY <1>3, GraphsAssumption, FS_Subset DEF WInv
<1>5. Push(push) \in Seq(DOMAIN nodes) /\ ToSet(Push(push)) = push
  BY <1>3, <1>4, PushFacts, SeqMonotonic
<1>6. /\ stack' \in Seq(DOMAIN nodes)
      /\ ToSet(stack') = ToSet(Front(stack)) \cup push
  BY <1>1, <1>2, <1>5, ConcatFacts
<1>7. Inner(nodes, Top) =>
        InputIds(nodes, Top) \cap DOMAIN nodes \subseteq reached' \cup push
  BY <1>1 DEF Unreached
<1>8. FrontierComplete'
  <2>1. reached \cup ToSet(stack) \subseteq reached' \cup ToSet(stack')
    BY <1>1, <1>2, <1>6
  <2>2. Seeds' = Seeds
    BY <1>1 DEF Seeds
  <2>3. ASSUME NEW n \in reached', Inner(nodes, n)
        PROVE  InputIds(nodes, n) \cap DOMAIN nodes \subseteq reached' \cup ToSet(stack')
    <3>1. CASE n \in reached
      BY <1>1, <2>1, <2>3, <3>1 DEF WInv, FrontierComplete
    <3>2. CASE n = Top
      BY <1>6, <1>7, <2>3, <3>2
    <3>3. QED
      BY <1>1, <2>3, <3>1, <3>2
  <2>4. Seeds \subseteq reached' \cup ToSet(stack')
    BY <1>1, <2>1 DEF WInv, FrontierComplete
  <2>5. QED
    BY <1>1, <2>2, <2>3, <2>4 DEF FrontierComplete
<1>9. \A S : Closed(nodes, S) /\ reached \cup ToSet(stack) \subseteq S
               => reached' \cup ToSet(stack') \subseteq S
  BY <1>1, <1>2, <1>6 DEF Closed, Unreached
<1>10. Closed(nodes, Happy) /\ Closed(nodes, Exception)
  BY SeedsFacts, BackwardFacts DEF WInv, Happy, Exception
<1>11. Happy' = Happy /\ Exception' = Exception
  BY <1>1 DEF Happy, Exception
<1>12. QED
  BY <1>1, <1>2, <1>6, <1>8, <1>9, <1>10, <1>11 DEF WInv

LEMMA PopAgainWInv == WInv /\ PopAgain => WInv'
<1> SUFFICES ASSUME WInv, PopAgain PROVE WInv'
  OBVIOUS
<1>1. /\ stack # <<>> /\ Last(stack) \in reached
      /\ stack' = Front(stack)
      /\ UNCHANGED <<nodes, walk, reached, happyPath, exceptionOnly>>
  BY DEF PopAgain
<1>2. /\ stack' \in Seq(DOMAIN nodes)
      /\ ToSet(stack) = ToSet(stack') \cup {Last(stack)}
  BY <1>1, PopFacts DEF WInv
<1>3. reached' \cup ToSet(stack') = reached \cup ToSet(stack)
  BY <1>1, <1>2
<1>4. Seeds' = Seeds /\ Happy' = Happy /\ Exception' = Exception
  BY <1>1 DEF Seeds, Happy, Exception
<1>5. FrontierComplete'
  BY <1>1, <1>3, <1>4 DEF WInv, FrontierComplete
<1>6. QED
  BY <1>1, <1>2, <1>3, <1>4, <1>5 DEF WInv

\* A walk with nothing left on its stack has reached a closed set.
LEMMA WalkIsComplete ==
  ASSUME WInv, walk # "done", stack = <<>>
  PROVE  BackwardFrom(nodes, Seeds) \subseteq reached
<1>1. ToSet(stack) = {}
  BY DEF ToSet
<1>2. Seeds \subseteq reached /\ Closed(nodes, reached)
  BY <1>1 DEF WInv, FrontierComplete, Closed
<1>3. Seeds \subseteq DOMAIN nodes
  BY DEF Seeds, OfType
<1>4. QED
  BY <1>2, <1>3, BackwardFacts DEF WInv

LEMMA EndHappyWInv == WInv /\ EndHappyWalk => WInv'
<1> SUFFICES ASSUME WInv, EndHappyWalk PROVE WInv'
  OBVIOUS
<1>1. /\ walk = "happy" /\ walk' = "exception" /\ stack = <<>>
      /\ happyPath' = reached /\ reached' = {}
      /\ stack' = Push(OfType(nodes, "Rethrow"))
      /\ UNCHANGED <<nodes, exceptionOnly>>
  BY DEF EndHappyWalk
<1>2. reached = Happy
  BY <1>1, WalkIsComplete DEF WInv, Seeds, Happy
<1>3. /\ OfType(nodes, "Rethrow") \subseteq DOMAIN nodes
      /\ stack' \in Seq(DOMAIN nodes)
      /\ ToSet(stack') = OfType(nodes, "Rethrow")
  BY <1>1, SeedsFacts DEF WInv
<1>4. OfType(nodes, "Rethrow") \subseteq Exception
  BY <1>3, BackwardFacts DEF Exception
<1>5. Happy' = Happy /\ Exception' = Exception
  BY <1>1 DEF Happy, Exception
<1>6. FrontierComplete'
  BY <1>1, <1>3 DEF FrontierComplete, Seeds
<1>7. QED
  BY <1>1, <1>2, <1>3, <1>4, <1>5, <1>6 DEF WInv

LEMMA EndExceptionWInv == WInv /\ EndExceptionWalk => WInv'
<1> SUFFICES ASSUME WInv, EndExceptionWalk PROVE WInv'
  OBVIOUS
<1>1. /\ walk = "exception" /\ walk' = "done" /\ stack = <<>>
      /\ exceptionOnly' = reached \ happyPath
      /\ UNCHANGED <<nodes, stack, reached, happyPath>>
  BY DEF EndExceptionWalk
<1>2. reached = Exception
  BY <1>1, WalkIsComplete DEF WInv, Seeds, Exception
<1>3. Happy' = Happy /\ Exception' = Exception
  BY <1>1 DEF Happy, Exception
<1>4. QED
  BY <1>1, <1>2, <1>3 DEF WInv, FrontierComplete

LEMMA StepWInv == WInv /\ [Next]_vars => WInv'
<1> SUFFICES ASSUME WInv, [Next]_vars PROVE WInv'
  OBVIOUS
<1>1. CASE UNCHANGED vars
  BY <1>1 DEF vars, WInv, FrontierComplete, Seeds, Happy, Exception
<1>2. QED
  BY <1>1, VisitWInv, PopAgainWInv, EndHappyWInv, EndExceptionWInv DEF Next

\* The invariant of both walks, for every finite graph.
THEOREM WalkInvariant == Spec => []WInv
<1>1. QED
  BY InitWInv, StepWInv, PTL DEF Spec

\* A visited node's inputs are visited or on the stack.
THEOREM FrontierTheorem == Spec => []FrontierComplete
<1>1. WInv => FrontierComplete
  BY DEF WInv
<1>2. QED
  BY <1>1, WalkInvariant, PTL

\* The nodes classified are those on an input path to a Rethrow and on none to
\* a Return, whatever cycles, shared inputs and joins the graph has.
THEOREM ClassificationTheorem == Spec => []ClassifiesReachability
<1>1. WInv => ClassifiesReachability
  BY DEF WInv, ClassifiesReachability, ExceptionOnly, Happy, Exception
<1>2. QED
  BY <1>1, WalkInvariant, PTL

\* Hiding the exception path hides no input of the happy one.
THEOREM HappyPathTheorem == Spec => []HappyPathIsClosed
<1>1. WInv => HappyPathIsClosed
  <2> SUFFICES ASSUME WInv, walk = "done", NEW n \in Happy
               PROVE  /\ n \notin exceptionOnly
                      /\ Inner(nodes, n) => InputIds(nodes, n) \cap exceptionOnly = {}
    BY DEF HappyPathIsClosed, Happy
  <2>1. exceptionOnly \subseteq (DOMAIN nodes) \ Happy
    BY DEF WInv, Exception, BackwardFrom
  <2>2. Closed(nodes, Happy)
    BY SeedsFacts, BackwardFacts DEF WInv, Happy
  <2>3. QED
    BY <2>1, <2>2 DEF Closed
<1>2. QED
  BY <1>1, WalkInvariant, PTL
-----------------------------------------------------------------------------
\* The places in a finite set are numbered from 1 on, in their order.
LEMMA RankFacts ==
  ASSUME NEW P \in SUBSET Nat, IsFiniteSet(P)
  PROVE  /\ Cardinality(P) \in Nat
         /\ \A i \in P : Rank(P, i) \in 1..Cardinality(P)
         /\ \A i, j \in P : i < j => Rank(P, i) < Rank(P, j)
         /\ \A k \in 1..Cardinality(P) : \E i \in P : Rank(P, i) = k
<1> DEFINE n == Cardinality(P)
           Upto(i) == {j \in P : j <= i}
           rank == [i \in P |-> Rank(P, i)]
<1>1. n \in Nat /\ \A i \in P : i \in Nat
  BY FS_CardinalityType
<1>2. ASSUME NEW i \in P
      PROVE  Rank(P, i) \in 1..n
  <2>1. IsFiniteSet(Upto(i)) /\ Rank(P, i) <= n
    BY FS_Subset, Upto(i) \in SUBSET P DEF Rank
  <2>2. Rank(P, i) \in Nat /\ Upto(i) # {}
    BY <1>1, <2>1, FS_CardinalityType DEF Rank
  <2>3. Rank(P, i) # 0
    BY <2>1, <2>2, FS_EmptySet DEF Rank
  <2> QED BY <1>1, <2>1, <2>2, <2>3
<1>3. ASSUME NEW i \in P, NEW j \in P, i < j
      PROVE  Rank(P, i) < Rank(P, j)
  <2>1. \A x \in P : x <= i => x <= j
    BY <1>1, <1>3
  <2>2. j <= j /\ ~(j <= i)
    BY <1>1, <1>3
  <2>3. Upto(i) \subseteq Upto(j) /\ j \in Upto(j) /\ j \notin Upto(i)
    BY <2>1, <2>2, Zenon
  <2>4. IsFiniteSet(Upto(j))
    BY FS_Subset, Upto(j) \in SUBSET P
  <2>5. Rank(P, i) <= Rank(P, j) /\ Rank(P, i) # Rank(P, j)
    BY <2>3, <2>4, FS_Subset DEF Rank
  <2> QED BY <1>1, <1>2, <2>5
<1> HIDE DEF n
<1>4. \A i, j \in P : i # j => Rank(P, i) # Rank(P, j)
  <2> SUFFICES ASSUME NEW i \in P, NEW j \in P, i < j
               PROVE  Rank(P, i) # Rank(P, j)
    BY <1>1
  <2> QED BY <1>1, <1>2, <1>3
<1>5. rank \in Injection(P, 1..n)
  BY <1>2, <1>4 DEF Injection, IsInjective
<1>6. rank \in Surjection(P, 1..n)
  BY <1>1, <1>5, FS_Interval, FS_Injection DEF n
<1> QED BY <1>1, <1>2, <1>3, <1>6 DEF Surjection, n
\* What is selected from a sequence: as many elements as there are places, the
\* one at a place coming at that place's rank, and nothing else.
LEMMA SelectedFacts ==
  ASSUME NEW s, NEW n \in Nat, DOMAIN s = 1..n, NEW P \in SUBSET DOMAIN s
  PROVE  /\ DOMAIN Selected(s, P) = 1..Cardinality(P)
         /\ Cardinality(P) \in Nat
         /\ \A i \in P : /\ Rank(P, i) \in DOMAIN Selected(s, P)
                         /\ Selected(s, P)[Rank(P, i)] = s[i]
         /\ \A i, j \in P : i < j => Rank(P, i) < Rank(P, j)
         /\ \A k \in DOMAIN Selected(s, P) : \E i \in P : Rank(P, i) = k
<1>1. P \in SUBSET Nat /\ IsFiniteSet(P)
  BY FS_Interval, FS_Subset, P \in SUBSET (1..n)
<1>2. /\ Cardinality(P) \in Nat
      /\ \A i \in P : Rank(P, i) \in 1..Cardinality(P)
      /\ \A i, j \in P : i < j => Rank(P, i) < Rank(P, j)
      /\ \A k \in 1..Cardinality(P) : \E i \in P : Rank(P, i) = k
  BY <1>1, RankFacts
<1>3. ASSUME NEW i \in P
      PROVE  Selected(s, P)[Rank(P, i)] = s[i]
  <2> DEFINE c == CHOOSE j \in P : Rank(P, j) = Rank(P, i)
  <2>1. c \in P /\ Rank(P, c) = Rank(P, i)
    BY <1>3
  <2> HIDE DEF c
  <2>2. c \in Nat /\ i \in Nat /\ Rank(P, i) \in Nat
    BY <1>1, <1>2, <2>1
  <2>3. ~(c < i) /\ ~(i < c)
    BY <1>2, <2>1, <2>2
  <2>4. c = i
    BY <2>2, <2>3
  <2>5. Selected(s, P)[Rank(P, i)] = s[c]
    BY <1>2 DEF Selected, c
  <2> QED BY <2>4, <2>5
<1> QED BY <1>2, <1>3 DEF Selected

Ids  == DOMAIN nodes
Data == DataEdges(nodes)

\* Levels with nothing of H: no id is in two of them, and the source of an edge
\* into one is in H or in no later one.
Ordered(ls, H) ==
  /\ ls \in Seq(SUBSET Ids)
  /\ \A i, j \in 1..Len(ls) : i # j => ls[i] \cap ls[j] = {}
  /\ \A i \in 1..Len(ls) : ls[i] \cap H = {}
  /\ \A i \in 1..Len(ls) : \A e \in Data :
       e[2] \in ls[i] => e[1] \in H \/ \E j \in 1..i : e[1] \in ls[j]

Covers(ls, H) == \A n \in Ids : n \in H \/ \E i \in 1..Len(ls) : n \in ls[i]

LEMMA DataFacts ==
  \A e \in Data : e[1] \in Ids /\ e[2] \in Ids /\ e[1] # e[2] /\ e = <<e[1], e[2]>>
BY DEF Data, Ids, DataEdges, Edges

\* One element more.
LEMMA AppendFacts ==
  ASSUME NEW S, NEW s \in Seq(S), NEW x
  PROVE  /\ Append(s, x) \in Seq(S \cup {x})
         /\ Len(s) \in Nat
         /\ Len(Append(s, x)) = Len(s) + 1
         /\ \A i \in 1..Len(s) : Append(s, x)[i] = s[i]
         /\ Append(s, x)[Len(s) + 1] = x
<1>1. s \in Seq(S \cup {x})
  BY SeqMonotonic
<1> QED BY <1>1, AppendProperties, LenProperties

LEMMA PlacedFacts ==
  ASSUME NEW S, levels \in Seq(S)
  PROVE  \A n : n \in Placed <=> \E i \in 1..Len(levels) : n \in levels[i]
<1>1. DOMAIN levels = 1..Len(levels)
  BY LenProperties
<1> QED BY <1>1 DEF Placed, ToSet

\* A level of ids not placed yet, with the sources of the edges into it placed or
\* in it.
LEMMA AppendOrdered ==
  ASSUME Ordered(levels, {}), NEW l \in SUBSET Ids, l \cap Placed = {},
         \A e \in Data : e[2] \in l => e[1] \in Placed \cup l
  PROVE  Ordered(Append(levels, l), {})
<1> DEFINE new == Append(levels, l)
<1>1. levels \in Seq(SUBSET Ids)
  BY DEF Ordered
<1>2. /\ new \in Seq(SUBSET Ids)
      /\ Len(levels) \in Nat /\ Len(new) = Len(levels) + 1
      /\ \A i \in 1..Len(levels) : new[i] = levels[i]
      /\ new[Len(levels) + 1] = l
  BY <1>1, AppendProperties, LenProperties
<1> HIDE DEF new
<1>3. \A n : n \in Placed <=> \E i \in 1..Len(levels) : n \in levels[i]
  BY <1>1, PlacedFacts
<1>4. \A i \in 1..Len(levels) : levels[i] \cap l = {}
  BY <1>3
<1>5. \A i \in 1..Len(new) : i \in 1..Len(levels) \/ i = Len(levels) + 1
  BY <1>2
<1>6. ASSUME NEW i \in 1..Len(new), NEW j \in 1..Len(new), i # j
      PROVE  new[i] \cap new[j] = {}
  <2>1. CASE i \in 1..Len(levels) /\ j \in 1..Len(levels)
    BY <1>2, <1>6, <2>1 DEF Ordered
  <2>2. CASE i \in 1..Len(levels) /\ j = Len(levels) + 1
    BY <1>2, <1>4, <2>2
  <2>3. CASE i = Len(levels) + 1 /\ j \in 1..Len(levels)
    BY <1>2, <1>4, <2>3
  <2> QED BY <1>5, <1>6, <2>1, <2>2, <2>3
<1>7. ASSUME NEW i \in 1..Len(new), NEW e \in Data, e[2] \in new[i]
      PROVE  \E j \in 1..i : e[1] \in new[j]
  <2>1. CASE i \in 1..Len(levels)
    <3>1. PICK j \in 1..i : e[1] \in levels[j]
      BY <1>2, <1>7, <2>1 DEF Ordered
    <3>2. j \in 1..Len(levels)
      BY <1>2, <2>1
    <3> QED BY <1>2, <3>1, <3>2
  <2>2. CASE i = Len(levels) + 1
    <3>1. e[1] \in Placed \cup l
      BY <1>2, <1>7, <2>2
    <3>2. CASE e[1] \in l
      BY <1>2, <2>2, <3>2
    <3>3. CASE e[1] \in Placed
      <4>1. PICK j \in 1..Len(levels) : e[1] \in levels[j]
        BY <1>3, <3>3
      <4>2. j \in 1..i
        BY <1>2, <2>2
      <4> QED BY <1>2, <4>1, <4>2
    <3> QED BY <3>1, <3>2, <3>3
  <2> QED BY <1>5, <2>1, <2>2
<1> QED BY <1>2, <1>6, <1>7 DEF Ordered, new

\* The filter takes the hidden ids out and changes no order.
LEMMA FilterOrdered ==
  ASSUME NEW ls, Ordered(ls, {}), Covers(ls, {}), NEW H
  PROVE  Ordered(FilterLevels(ls, H), H) /\ Covers(FilterLevels(ls, H), H)
<1> DEFINE left == [i \in DOMAIN ls |-> ls[i] \ H]
           P == {i \in DOMAIN left : left[i] # {}}
           new == FilterLevels(ls, H)
<1>1. /\ ls \in Seq(SUBSET Ids) /\ Len(ls) \in Nat
      /\ DOMAIN ls = 1..Len(ls) /\ DOMAIN left = 1..Len(ls)
      /\ \A i \in 1..Len(ls) : left[i] = ls[i] \ H
  BY LenProperties DEF Ordered
<1>2. new = Selected(left, P)
  BY DEF FilterLevels
<1>3. P \in SUBSET (1..Len(ls)) /\ \A i \in 1..Len(ls) : i \in P <=> ls[i] \ H # {}
  BY <1>1
<1> HIDE DEF left, P, new
<1>4. /\ DOMAIN new = 1..Cardinality(P)
      /\ Cardinality(P) \in Nat
      /\ \A i \in P : /\ Rank(P, i) \in DOMAIN new
                      /\ new[Rank(P, i)] = left[i]
      /\ \A i, j \in P : i < j => Rank(P, i) < Rank(P, j)
      /\ \A k \in DOMAIN new : \E i \in P : Rank(P, i) = k
  <2>1. DOMAIN left = 1..Len(ls)
    BY <1>1
  <2>2. Len(ls) \in Nat /\ P \in SUBSET DOMAIN left
    BY <1>1, <1>3
  <2>3. /\ DOMAIN Selected(left, P) = 1..Cardinality(P)
        /\ Cardinality(P) \in Nat
        /\ \A i \in P : /\ Rank(P, i) \in DOMAIN Selected(left, P)
                        /\ Selected(left, P)[Rank(P, i)] = left[i]
        /\ \A i, j \in P : i < j => Rank(P, i) < Rank(P, j)
        /\ \A k \in DOMAIN Selected(left, P) : \E i \in P : Rank(P, i) = k
    BY <2>1, <2>2, SelectedFacts
  <2> QED BY <1>2, <2>3
<1>5. \A k \in 1..Cardinality(P) : \E i \in P : Rank(P, i) = k /\ new[k] = ls[i] \ H
  BY <1>1, <1>3, <1>4
<1>6. new \in Seq(SUBSET Ids) /\ Len(new) = Cardinality(P)
  <2>1. new = [k \in 1..Cardinality(P) |-> new[k]]
    BY <1>2, <1>4 DEF Selected
  <2>2. \A k \in 1..Cardinality(P) : new[k] \in SUBSET Ids
    BY <1>1, <1>3, <1>5
  <2> QED BY <1>4, <2>1, <2>2
<1>7. ASSUME NEW k \in 1..Len(new), NEW l \in 1..Len(new), k # l
      PROVE  new[k] \cap new[l] = {}
  <2>1. PICK i \in P : Rank(P, i) = k /\ new[k] = ls[i] \ H
    BY <1>5, <1>6
  <2>2. PICK j \in P : Rank(P, j) = l /\ new[l] = ls[j] \ H
    BY <1>5, <1>6
  <2>3. i # j /\ i \in 1..Len(ls) /\ j \in 1..Len(ls)
    BY <1>3, <1>7, <2>1, <2>2
  <2> QED BY <2>1, <2>2, <2>3 DEF Ordered
<1>8. \A k \in 1..Len(new) : new[k] \cap H = {}
  BY <1>5, <1>6
<1>9. ASSUME NEW n, NEW i \in 1..Len(ls), n \in ls[i], n \notin H
      PROVE  i \in P /\ Rank(P, i) \in 1..Len(new) /\ n \in new[Rank(P, i)]
  BY <1>1, <1>3, <1>4, <1>6, <1>9
<1>10. ASSUME NEW k \in 1..Len(new), NEW e \in Data, e[2] \in new[k], e[1] \notin H
       PROVE  \E l \in 1..k : e[1] \in new[l]
  <2>1. PICK i \in P : Rank(P, i) = k /\ new[k] = ls[i] \ H
    BY <1>5, <1>6
  <2>2. PICK j \in 1..i : e[1] \in ls[j]
    BY <1>3, <1>10, <2>1 DEF Ordered
  <2>3. i \in Nat /\ j \in 1..Len(ls)
    BY <1>1, <1>3, <2>1, <2>2
  <2>4. j \in P /\ Rank(P, j) \in 1..Len(new) /\ e[1] \in new[Rank(P, j)]
    BY <1>9, <1>10, <2>2, <2>3
  <2>5. Rank(P, j) <= k
    BY <1>4, <1>6, <2>1, <2>2, <2>3, <2>4
  <2> QED BY <2>4, <2>5
<1>11. Ordered(new, H)
  BY <1>6, <1>7, <1>8, <1>10 DEF Ordered
<1>12. Covers(new, H)
  BY <1>9 DEF Covers
<1> QED BY <1>11, <1>12 DEF new

\* The first level gone, its ids are behind the others.
LEMMA TailOrdered ==
  ASSUME NEW ls, NEW H, Ordered(ls, H), Covers(ls, H), ls # <<>>
  PROVE  Ordered(Tail(ls), H \cup Head(ls)) /\ Covers(Tail(ls), H \cup Head(ls))
<1> DEFINE t == Tail(ls)
<1>1. ls \in Seq(SUBSET Ids)
  BY DEF Ordered
<1>2. /\ Head(ls) = ls[1]
      /\ t \in Seq(SUBSET Ids)
      /\ Len(ls) \in Nat \ {0} /\ Len(t) = Len(ls) - 1
      /\ \A i \in 1..Len(t) : t[i] = ls[i + 1]
  BY <1>1, HeadTailProperties, EmptySeq, LenProperties
<1> HIDE DEF t
<1>3. \A i \in 1..Len(t) : i + 1 \in 1..Len(ls) /\ i + 1 # 1
  BY <1>2
<1>4. \A i \in 1..Len(ls) : i = 1 \/ (i - 1 \in 1..Len(t) /\ t[i - 1] = ls[i])
  <2> SUFFICES ASSUME NEW i \in 1..Len(ls), i # 1
               PROVE  i - 1 \in 1..Len(t) /\ t[i - 1] = ls[i]
    OBVIOUS
  <2>1. i - 1 \in 1..Len(t) /\ (i - 1) + 1 = i
    BY <1>2
  <2> QED BY <1>2, <2>1
<1>5. ASSUME NEW i \in 1..Len(t), NEW j \in 1..Len(t), i # j
      PROVE  t[i] \cap t[j] = {}
  <2>1. i + 1 # j + 1 /\ i + 1 \in 1..Len(ls) /\ j + 1 \in 1..Len(ls)
    BY <1>3, <1>5
  <2>2. ls[i + 1] \cap ls[j + 1] = {}
    BY <2>1 DEF Ordered
  <2> QED BY <1>2, <2>2
<1>6. ASSUME NEW i \in 1..Len(t) PROVE t[i] \cap (H \cup Head(ls)) = {}
  <2>1. 1 \in 1..Len(ls)
    BY <1>2
  <2>2. ls[i + 1] \cap H = {} /\ ls[i + 1] \cap ls[1] = {}
    BY <1>3, <2>1 DEF Ordered
  <2> QED BY <1>2, <2>2
<1>7. ASSUME NEW i \in 1..Len(t), NEW e \in Data, e[2] \in t[i], e[1] \notin H \cup Head(ls)
      PROVE  \E j \in 1..i : e[1] \in t[j]
  <2>1. PICK j \in 1..(i + 1) : e[1] \in ls[j]
    BY <1>2, <1>3, <1>7 DEF Ordered
  <2>2. j # 1 /\ j \in 1..Len(ls)
    BY <1>2, <1>7, <2>1
  <2>3. j - 1 \in 1..i /\ t[j - 1] = ls[j]
    BY <1>4, <2>1, <2>2
  <2> QED BY <2>1, <2>3
<1>8. Ordered(t, H \cup Head(ls))
  BY <1>2, <1>5, <1>6, <1>7 DEF Ordered
<1>9. ASSUME NEW n \in Ids, n \notin H \cup Head(ls)
      PROVE  \E i \in 1..Len(t) : n \in t[i]
  <2>1. PICK i \in 1..Len(ls) : n \in ls[i]
    BY <1>9 DEF Covers
  <2> QED BY <1>2, <1>4, <1>9, <2>1
<1>10. Covers(t, H \cup Head(ls))
  BY <1>9 DEF Covers
<1> QED BY <1>8, <1>10 DEF t

-----------------------------------------------------------------------------
\* What a node shows does not depend on its inputs where a data edge cannot
\* enter it.
LEMMA IgnoresInputs ==
  ASSUME NEW node, NEW x, NEW y, NEW p,
         node.type \in {"Root", "Start", "Con", "Conv", "Region", "Loop"}
  PROVE  ComputeValue(node, x, p) = ComputeValue(node, y, p)
<1>1. node.type \notin DOMAIN Binary
  BY DEF Binary
<1> QED BY <1>1 DEF ComputeValue, IsCon

\* A value that no data edge takes to n is none of n's business.
LEMMA StableValue ==
  ASSUME nodes \in Graphs, nodes' = nodes, param' = param,
         NEW n \in Ids, NEW m \in Ids, <<m, n>> \notin Data,
         \A a \in Ids \ {m} : nodeValues'[a] = nodeValues[a]
  PROVE  ComputeValue(nodes[n], InputValues(n), param)'
           = ComputeValue(nodes[n], InputValues(n), param)
<1> DEFINE in == nodes[n].in
<1>1. CASE \A i \in DOMAIN in : in[i] # m
  <2>1. \A i \in DOMAIN in :
          (IF in[i] \in Ids THEN nodeValues'[in[i]] ELSE Nothing)
            = (IF in[i] \in Ids THEN nodeValues[in[i]] ELSE Nothing)
    BY <1>1
  <2>2. InputValues(n)' = InputValues(n)
    BY <2>1 DEF InputValues, Ids
  <2> QED BY <2>2
<1>2. CASE \E i \in DOMAIN in : in[i] = m
  <2>1. m # Gap
    BY GraphsAssumption DEF Ids, Gap
  <2>2. m \in InputIds(nodes, n)
    BY <1>2, <2>1 DEF InputIds, ToSet
  <2>3. Structural(nodes, m, n)
    BY <2>2 DEF Data, DataEdges, Edges, Ids, Structural
  <2>4. nodes[n].type \in {"Root", "Start", "Con", "Conv", "Region", "Loop"}
    <3>1. CASE m = n
      BY <2>2, <3>1, SelfInputsAssumption DEF Ids
    <3>2. CASE m # n
      BY <2>3, <3>2 DEF Structural, IsCon
    <3> QED BY <3>1, <3>2
  <2>5. \A x, y, p : ComputeValue(nodes[n], x, p) = ComputeValue(nodes[n], y, p)
    BY <2>4, IgnoresInputs
  <2> QED BY <2>5
<1> QED BY <1>1, <1>2
-----------------------------------------------------------------------------
\* What of the current level has executed.
Computed == IF pc = "level" THEN Head(levels) \ todo ELSE {}

Shown(n) == nodeValues[n] = ComputeValue(nodes[n], InputValues(n), param)

\* The levels left hold, in order, what is neither hidden nor completed.
LInv ==
  /\ pc \in {"order", "filter", "next", "level", "done"}
  /\ pc # "order" => walk = "done"
  /\ pc \in {"order", "filter"} => hidden = {} /\ completedNodes = {}
  /\ hidden # {} => hidden = exceptionOnly
  /\ completedNodes \subseteq Ids \ hidden
  /\ Ordered(levels, hidden \cup completedNodes)
  /\ pc # "order" => Covers(levels, hidden \cup completedNodes)
  /\ pc = "level" => /\ levels # <<>>
                     /\ todo \subseteq Head(levels)
                     /\ activeEdges = {e \in Data : e[2] \in Computed}
  /\ pc = "done" => levels = <<>>

\* A step is what was executed when it was cut, and was final then.
StepInv(s) ==
  /\ s.activeNodes \cup s.completedNodes \subseteq completedNodes
  /\ s.activeNodes \cap s.completedNodes = {}
  /\ s.activeEdges = {e \in Data : e[2] \in s.activeNodes}
  /\ Cyclic(s.activeNodes)
       \/ \A e \in s.activeEdges : e[1] \in s.completedNodes \cup hidden
  /\ \A n \in Ids : s.values[n] # Nothing => n \in s.activeNodes \cup s.completedNodes
  /\ \A n \in s.activeNodes \cup s.completedNodes : s.values[n] = nodeValues[n]

StepsInv ==
  /\ \E S : steps \in Seq(S)
  /\ \A k \in 1..Len(steps) : StepInv(steps[k])
  /\ \A k, l \in 1..Len(steps) :
       k < l => steps[k].activeNodes \cup steps[k].completedNodes
                  \subseteq steps[l].completedNodes
  /\ \A n \in completedNodes : \E k \in 1..Len(steps) : n \in steps[k].activeNodes

\* What has executed shows what it would show now, but on a cycle.
ValuesInv ==
  /\ DOMAIN nodeValues = Ids
  /\ \A n \in Ids : nodeValues[n] # Nothing => n \in completedNodes \cup Computed
  /\ \A k \in 1..Len(steps) :
       Cyclic(steps[k].activeNodes) \/ \A n \in steps[k].activeNodes : Shown(n)
  /\ pc = "level" => Cyclic(Head(levels)) \/ \A n \in Computed : Shown(n)

BInv == WInv /\ LInv /\ StepsInv /\ ValuesInv

LEMMA InitBInv == BuildInit => BInv
<1> SUFFICES ASSUME BuildInit PROVE BInv
  OBVIOUS
<1>1. WInv
  BY InitWInv DEF BuildInit
<1>2. /\ pc = "order" /\ hidden = {} /\ completedNodes = {}
      /\ levels = <<>> /\ nodeValues = NoValues
      /\ steps = <<Step({}, {}, {}, {}, NoValues)>>
  BY DEF BuildInit
<1>3. DOMAIN nodeValues = Ids /\ \A n \in Ids : nodeValues[n] = Nothing
  BY <1>2 DEF NoValues, Ids
<1>4. LInv
  <2>1. Ordered(levels, {})
    BY <1>2 DEF Ordered
  <2> QED BY <1>2, <2>1 DEF LInv
<1>5. /\ steps \in Seq({Step({}, {}, {}, {}, NoValues)}) /\ Len(steps) = 1
      /\ steps[1].activeNodes = {} /\ steps[1].completedNodes = {}
      /\ steps[1].activeEdges = {} /\ steps[1].values = nodeValues
  BY <1>2 DEF Step
<1>6. \A k \in 1..Len(steps) : k = 1
  BY <1>5
<1>7. StepsInv
  <2>1. StepInv(steps[1])
    BY <1>2, <1>3, <1>5 DEF StepInv
  <2> QED BY <1>2, <1>5, <1>6, <2>1 DEF StepsInv
<1>8. ValuesInv
  BY <1>2, <1>3, <1>5, <1>6 DEF ValuesInv, Computed
<1> QED BY <1>1, <1>4, <1>7, <1>8 DEF BInv

\* Where no value and no step changes and nothing of a level has executed, only
\* the levels are at stake.
LEMMA OnlyLevels ==
  ASSUME BInv, UNCHANGED <<nodes, param, steps, nodeValues, completedNodes>>,
         hidden \subseteq hidden', Computed = {}, Computed' = {}
  PROVE  StepsInv' /\ ValuesInv'
<1>1. ASSUME NEW k \in 1..Len(steps) PROVE StepInv(steps[k])'
  <2>1. StepInv(steps[k])
    BY DEF BInv, StepsInv
  <2> QED BY <2>1 DEF StepInv, Ids, Data, Cyclic
<1>2. StepsInv'
  BY <1>1 DEF BInv, StepsInv
<1>3. \A n : Shown(n)' = Shown(n)
  BY DEF Shown, InputValues
<1>4. ASSUME NEW k \in 1..Len(steps)
      PROVE  (Cyclic(steps[k].activeNodes)
                \/ \A n \in steps[k].activeNodes : Shown(n))'
  <2>1. Cyclic(steps[k].activeNodes)
          \/ \A n \in steps[k].activeNodes : Shown(n)
    BY DEF BInv, ValuesInv
  <2>2. CASE Cyclic(steps[k].activeNodes)
    BY <2>2 DEF Cyclic
  <2>3. CASE \A n \in steps[k].activeNodes : Shown(n)
    BY <1>3, <2>3
  <2> QED BY <2>1, <2>2, <2>3
<1>5. /\ DOMAIN nodeValues' = Ids'
      /\ \A n \in Ids' : nodeValues'[n] # Nothing => n \in completedNodes' \cup Computed'
  BY DEF BInv, ValuesInv, Ids
<1>6. (pc = "level" => Cyclic(Head(levels)) \/ \A n \in Computed : Shown(n))'
  BY Computed' = {}
<1>7. ValuesInv'
  BY <1>4, <1>5, <1>6 DEF ValuesInv
<1> QED BY <1>2, <1>7

\* The walks come before everything else.
LEMMA ClassifyBInv == BInv /\ Classify => BInv'
<1> SUFFICES ASSUME BInv, Classify PROVE BInv'
  OBVIOUS
<1>1. WInv'
  BY StepWInv DEF BInv, Classify
<1>2. nodes' = nodes /\ walk # "done"
  BY DEF Classify, Next, Visit, PopAgain, EndHappyWalk, EndExceptionWalk, Turn
<1>3. /\ pc = "order" /\ hidden = {} /\ completedNodes = {}
      /\ UNCHANGED <<pc, hidden, levels, completedNodes, param, steps, nodeValues>>
  BY <1>2 DEF BInv, LInv, Classify, buildVars
<1>4. LInv'
  BY <1>2, <1>3 DEF BInv, LInv, Ordered, Ids, Data
<1>5. Computed = {} /\ Computed' = {}
  BY <1>3 DEF Computed
<1> QED BY <1>1, <1>2, <1>3, <1>4, <1>5, OnlyLevels DEF BInv

\* No value, no step, no part of the graph or of its classification changes.
LEMMA LevelsStep ==
  ASSUME BInv, UNCHANGED <<vars, param, completedNodes, nodeValues, steps>>,
         pc # "level", pc' # "level", hidden \subseteq hidden', LInv'
  PROVE  BInv'
<1>1. UNCHANGED <<nodes, walk, stack, reached, happyPath, exceptionOnly>>
  BY DEF vars
<1>2. WInv'
  BY <1>1 DEF BInv, WInv, FrontierComplete, Seeds, Happy, Exception
<1>3. Computed = {} /\ Computed' = {}
  BY DEF Computed
<1> QED BY <1>1, <1>2, <1>3, OnlyLevels DEF BInv

LEMMA TakeLevelBInv == BInv /\ TakeLevel => BInv'
<1> SUFFICES ASSUME BInv, TakeLevel PROVE BInv'
  OBVIOUS
<1>1. /\ pc = "order" /\ pc' = pc /\ levels' = Append(levels, Ready)
      /\ UNCHANGED <<vars, param, completedNodes, nodeValues, steps, hidden>>
  BY DEF TakeLevel
<1>2. nodes' = nodes
  BY <1>1 DEF vars
<1>3. hidden = {} /\ completedNodes = {} /\ Ordered(levels, {})
  BY <1>1 DEF BInv, LInv
<1>4. /\ Ready \in SUBSET Ids /\ Ready \cap Placed = {}
      /\ \A e \in Data : e[2] \in Ready => e[1] \in Placed \cup Ready
  BY DEF Ready, Ids, Data
<1>5. Ordered(Append(levels, Ready), {})
  BY <1>3, <1>4, AppendOrdered
<1>6. LInv'
  BY <1>1, <1>2, <1>3, <1>5 DEF LInv, Ordered, Ids, Data
<1> QED BY <1>1, <1>6, LevelsStep

\* What cannot be ordered comes last, and nothing is left over.
LEMMA TakeRestBInv == BInv /\ TakeRest => BInv'
<1> SUFFICES ASSUME BInv, TakeRest PROVE BInv'
  OBVIOUS
<1> DEFINE rest == Ids \ Placed
<1>1. /\ walk = "done" /\ pc = "order" /\ pc' = "filter"
      /\ levels' = IF Placed = Ids THEN levels ELSE Append(levels, rest)
      /\ UNCHANGED <<vars, param, completedNodes, nodeValues, steps, hidden>>
  BY DEF TakeRest, Ids
<1>2. nodes' = nodes /\ walk' = "done"
  BY <1>1 DEF vars
<1>3. hidden = {} /\ completedNodes = {} /\ Ordered(levels, {})
  BY <1>1 DEF BInv, LInv
<1>4. \A n : n \in Placed <=> \E i \in 1..Len(levels) : n \in levels[i]
  BY <1>3, PlacedFacts DEF Ordered
<1>5. Ordered(levels', {}) /\ Covers(levels', {})
  <2>1. CASE Placed = Ids
    BY <1>1, <1>3, <1>4, <2>1 DEF Covers
  <2>2. CASE Placed # Ids
    <3>1. \A e \in Data : e[2] \in rest => e[1] \in Placed \cup rest
      BY DataFacts
    <3>2. Ordered(Append(levels, rest), {})
      BY <1>3, <3>1, AppendOrdered
    <3>3. /\ Len(levels) \in Nat /\ Len(Append(levels, rest)) = Len(levels) + 1
          /\ \A i \in 1..Len(levels) : Append(levels, rest)[i] = levels[i]
          /\ Append(levels, rest)[Len(levels) + 1] = rest
      BY <1>3, AppendFacts DEF Ordered
    <3>4. ASSUME NEW n \in Ids
          PROVE  \E i \in 1..Len(Append(levels, rest)) : n \in Append(levels, rest)[i]
      <4>1. CASE n \in rest
        <5>1. Len(levels) + 1 \in 1..Len(Append(levels, rest))
          BY <3>3
        <5> QED BY <3>3, <4>1, <5>1
      <4>2. CASE n \in Placed
        <5>1. PICK i \in 1..Len(levels) : n \in levels[i]
          BY <1>4, <4>2
        <5>2. i \in 1..Len(Append(levels, rest))
          BY <3>3
        <5> QED BY <3>3, <5>1, <5>2
      <4> QED BY <4>1, <4>2
    <3> QED BY <1>1, <2>2, <3>2, <3>4 DEF Covers
  <2> QED BY <2>1, <2>2
<1>6. LInv'
  BY <1>1, <1>2, <1>3, <1>5 DEF LInv, Ordered, Covers, Ids, Data
<1> QED BY <1>1, <1>6, LevelsStep

\* Hiding takes ids out before any of them has executed.
LEMMA FilterBInv == BInv /\ Filter => BInv'
<1> SUFFICES ASSUME BInv, Filter PROVE BInv'
  OBVIOUS
<1>1. /\ pc = "filter" /\ pc' = "next"
      /\ hidden' \in {{}, exceptionOnly}
      /\ levels' = FilterLevels(levels, hidden')
      /\ UNCHANGED <<vars, param, completedNodes, nodeValues, steps>>
  BY DEF Filter
<1>2. nodes' = nodes /\ walk' = walk /\ exceptionOnly' = exceptionOnly
  BY <1>1 DEF vars
<1>3. /\ walk = "done" /\ hidden = {} /\ completedNodes = {}
      /\ Ordered(levels, {}) /\ Covers(levels, {})
  BY <1>1 DEF BInv, LInv
<1>4. Ordered(levels', hidden') /\ Covers(levels', hidden')
  BY <1>1, <1>3, FilterOrdered
<1>5. LInv'
  BY <1>1, <1>2, <1>3, <1>4 DEF LInv, Ordered, Covers, Ids, Data
<1> QED BY <1>1, <1>3, <1>5, LevelsStep

LEMMA BeginLevelBInv == BInv /\ BeginLevel => BInv'
<1> SUFFICES ASSUME BInv, BeginLevel PROVE BInv'
  OBVIOUS
<1>1. /\ pc = "next" /\ pc' = "level" /\ levels # <<>>
      /\ todo' = Head(levels) /\ activeEdges' = {}
      /\ UNCHANGED <<vars, param, completedNodes, nodeValues, steps, hidden, levels>>
  BY DEF BeginLevel
<1>2. UNCHANGED <<nodes, walk, stack, reached, happyPath, exceptionOnly>>
  BY <1>1 DEF vars
<1>3. Computed = {} /\ Computed' = {}
  BY <1>1 DEF Computed
<1>4. LInv'
  BY <1>1, <1>2, <1>3 DEF BInv, LInv, Ordered, Covers, Ids, Data
<1>5. WInv'
  BY <1>2 DEF BInv, WInv, FrontierComplete, Seeds, Happy, Exception
<1> QED BY <1>1, <1>2, <1>3, <1>4, <1>5, OnlyLevels DEF BInv

LEMMA ReturnBInv == BInv /\ Return => BInv'
<1> SUFFICES ASSUME BInv, Return PROVE BInv'
  OBVIOUS
<1>1. /\ pc = "next" /\ pc' = "done" /\ levels = <<>>
      /\ UNCHANGED <<vars, param, completedNodes, nodeValues, steps, hidden, levels>>
  BY DEF Return
<1>2. UNCHANGED <<nodes, walk, exceptionOnly>>
  BY <1>1 DEF vars
<1>3. LInv'
  BY <1>1, <1>2 DEF BInv, LInv, Ordered, Covers, Ids, Data
<1> QED BY <1>1, <1>3, LevelsStep

\* A value computed in a level disturbs no step cut before, and none of the
\* values in the level unless a cycle runs through it.
LEMMA ComputeBInv == ASSUME BInv, NEW m \in todo, Compute(m) PROVE BInv'
<1>1. /\ pc = "level" /\ pc' = pc /\ m \in Head(levels)
      /\ nodeValues' = [nodeValues EXCEPT ![m] =
                          ComputeValue(nodes[m], InputValues(m), param)]
      /\ activeEdges' = activeEdges \cup {e \in Data : e[2] = m}
      /\ todo' = todo \ {m}
      /\ UNCHANGED <<vars, param, hidden, levels, completedNodes, steps>>
  BY DEF Compute, Data, BInv, LInv
<1>2. UNCHANGED <<nodes, walk, stack, reached, happyPath, exceptionOnly>>
  BY <1>1 DEF vars
<1>3. WInv' /\ nodes \in Graphs
  BY <1>2 DEF BInv, WInv, FrontierComplete, Seeds, Happy, Exception
<1>4. /\ Computed = Head(levels) \ todo
      /\ Computed' = Computed \cup {m} /\ m \notin Computed
      /\ Computed' \subseteq Head(levels)
  BY <1>1 DEF Computed, BInv, LInv
<1>5. activeEdges' = {e \in Data : e[2] \in Computed'}
  BY <1>1, <1>4 DEF BInv, LInv
<1>6. LInv'
  <2>1. Ordered(levels, hidden \cup completedNodes)'
    BY <1>1, <1>2 DEF BInv, LInv, Ordered, Ids, Data
  <2>2. Covers(levels, hidden \cup completedNodes)'
    BY <1>1, <1>2 DEF BInv, LInv, Covers, Ids
  <2>3. (activeEdges = {e \in Data : e[2] \in Computed})'
    BY <1>2, <1>5 DEF Data
  <2> QED BY <1>1, <1>2, <2>1, <2>2, <2>3 DEF BInv, LInv, Ids
<1>7. Head(levels) \subseteq Ids /\ Head(levels) \cap (hidden \cup completedNodes) = {}
  <2>1. levels \in Seq(SUBSET Ids) /\ levels # <<>>
    BY <1>1 DEF BInv, LInv, Ordered
  <2>2. Head(levels) = levels[1] /\ 1 \in 1..Len(levels) /\ levels[1] \in SUBSET Ids
    BY <2>1, HeadTailProperties, EmptySeq, LenProperties
  <2> QED BY <2>2 DEF BInv, LInv, Ordered
<1>8. /\ DOMAIN nodeValues = Ids /\ DOMAIN nodeValues' = Ids /\ m \in Ids
      /\ nodeValues'[m] = ComputeValue(nodes[m], InputValues(m), param)
      /\ \A a \in Ids \ {m} : nodeValues'[a] = nodeValues[a]
  BY <1>1, <1>7 DEF BInv, ValuesInv
<1>9. ASSUME NEW n \in Ids, <<m, n>> \notin Data
      PROVE  ComputeValue(nodes[n], InputValues(n), param)'
               = ComputeValue(nodes[n], InputValues(n), param)
  BY <1>1, <1>2, <1>3, <1>8, <1>9, StableValue
<1>10. ASSUME NEW n \in Ids \ {m}, <<m, n>> \notin Data, Shown(n)
       PROVE  Shown(n)'
  BY <1>8, <1>9, <1>10 DEF Shown
<1>11. Shown(m)'
  <2>1. <<m, m>> \notin Data
    BY DataFacts
  <2> QED BY <1>8, <1>9, <2>1 DEF Shown
<1>12. ASSUME NEW k \in 1..Len(steps)
       PROVE  StepInv(steps[k])'
  <2>1. StepInv(steps[k]) /\ m \notin steps[k].activeNodes \cup steps[k].completedNodes
    BY <1>1, <1>7 DEF BInv, StepsInv, StepInv
  <2>2. \A n \in steps[k].activeNodes \cup steps[k].completedNodes :
          steps[k].values[n] = nodeValues'[n]
    BY <1>8, <2>1 DEF StepInv, BInv, LInv
  <2> QED BY <1>1, <1>2, <2>1, <2>2 DEF StepInv, Ids, Data, Cyclic
<1>13. StepsInv'
  BY <1>1, <1>12 DEF BInv, StepsInv
<1>14. ASSUME NEW k \in 1..Len(steps)
       PROVE  (Cyclic(steps[k].activeNodes)
                 \/ \A n \in steps[k].activeNodes : Shown(n))'
  <2>1. CASE Cyclic(steps[k].activeNodes)
    BY <1>1, <1>2, <2>1 DEF Cyclic
  <2>2. CASE ~Cyclic(steps[k].activeNodes)
    <3>1. ASSUME NEW n \in steps[k].activeNodes
          PROVE  Shown(n)'
      <4>1. Shown(n)
        BY <2>2 DEF BInv, ValuesInv
      <4>2. StepInv(steps[k])
        BY DEF BInv, StepsInv
      <4>3. n \in Ids \ {m}
        BY <1>1, <1>7, <4>2 DEF StepInv, BInv, LInv
      <4>4. <<m, n>> \notin Data
        <5>1. SUFFICES ASSUME <<m, n>> \in Data PROVE FALSE
          OBVIOUS
        <5>2. <<m, n>> \in steps[k].activeEdges
          BY <4>2, <5>1 DEF StepInv
        <5>3. m \in steps[k].completedNodes \cup hidden
          BY <2>2, <4>2, <5>2 DEF StepInv
        <5> QED BY <1>1, <1>7, <4>2, <5>3 DEF StepInv
      <4> QED BY <1>10, <4>1, <4>3, <4>4
    <3> QED BY <1>1, <3>1
  <2> QED BY <2>1, <2>2
<1>15. (pc = "level" => Cyclic(Head(levels)) \/ \A n \in Computed : Shown(n))'
  <2>1. CASE Cyclic(Head(levels))
    BY <1>1, <1>2, <2>1 DEF Cyclic
  <2>2. CASE ~Cyclic(Head(levels))
    <3>1. ASSUME NEW n \in Computed
          PROVE  Shown(n)'
      <4>1. Shown(n)
        BY <1>1, <2>2 DEF BInv, ValuesInv
      <4>2. n \in Ids \ {m} /\ n \in Head(levels)
        BY <1>4, <1>7
      <4>3. <<m, n>> \notin Data
        BY <1>1, <2>2, <4>2 DEF Cyclic, Data
      <4> QED BY <1>10, <4>1, <4>2, <4>3
    <3> QED BY <1>4, <1>11, <3>1
  <2> QED BY <2>1, <2>2
<1>16. \A n \in Ids : nodeValues'[n] # Nothing => n \in completedNodes' \cup Computed'
  BY <1>1, <1>4, <1>8 DEF BInv, ValuesInv
<1>17. ValuesInv'
  BY <1>1, <1>2, <1>8, <1>14, <1>15, <1>16 DEF ValuesInv, Ids
<1> QED BY <1>3, <1>6, <1>13, <1>17 DEF BInv

\* The step cut at the end of a level, and the level behind it.
LEMMA EndLevelBInv == BInv /\ EndLevel => BInv'
<1> SUFFICES ASSUME BInv, EndLevel PROVE BInv'
  OBVIOUS
<1> DEFINE h == Head(levels)
           new == Step(h, activeEdges, completedNodes, completedEdges, nodeValues)
<1>1. /\ pc = "level" /\ pc' = "next" /\ todo = {} /\ levels # <<>>
      /\ steps' = Append(steps, new)
      /\ completedNodes' = completedNodes \cup h
      /\ levels' = Tail(levels)
      /\ UNCHANGED <<vars, param, hidden, nodeValues>>
  BY DEF EndLevel, BInv, LInv
<1>2. UNCHANGED <<nodes, walk, stack, reached, happyPath, exceptionOnly>>
  BY <1>1 DEF vars
<1>3. WInv'
  BY <1>2 DEF BInv, WInv, FrontierComplete, Seeds, Happy, Exception
<1>4. /\ new.activeNodes = h /\ new.activeEdges = activeEdges
      /\ new.completedNodes = completedNodes /\ new.values = nodeValues
  BY DEF Step
<1> HIDE DEF new
<1>5. h = levels[1] /\ 1 \in 1..Len(levels) /\ h \subseteq Ids
  <2>1. levels \in Seq(SUBSET Ids)
    BY DEF BInv, LInv, Ordered
  <2> QED BY <1>1, <2>1, HeadTailProperties, EmptySeq, LenProperties
<1> HIDE DEF h
<1>6. h \cap (hidden \cup completedNodes) = {}
  BY <1>5 DEF BInv, LInv, Ordered
<1>7. Computed = h /\ Computed' = {} /\ activeEdges = {e \in Data : e[2] \in h}
  BY <1>1 DEF Computed, BInv, LInv, h
<1>8. /\ Ordered(Tail(levels), hidden \cup completedNodes')
      /\ Covers(Tail(levels), hidden \cup completedNodes')
  <2>1. hidden \cup completedNodes' = (hidden \cup completedNodes) \cup Head(levels)
    BY <1>1 DEF h
  <2> QED BY <1>1, <2>1, TailOrdered DEF BInv, LInv
<1>9. LInv'
  <2>1. completedNodes' \subseteq Ids' \ hidden'
    BY <1>1, <1>2, <1>5, <1>6 DEF BInv, LInv, Ids
  <2>2. Ordered(levels, hidden \cup completedNodes)'
    BY <1>1, <1>2, <1>8 DEF Ordered, Ids, Data
  <2>3. Covers(levels, hidden \cup completedNodes)'
    BY <1>1, <1>2, <1>8 DEF Covers, Ids
  <2> QED BY <1>1, <1>2, <2>1, <2>2, <2>3 DEF BInv, LInv
<1>10. Cyclic(h) \/ \A e \in activeEdges : e[1] \in completedNodes \cup hidden
  <2>1. ASSUME NEW e \in activeEdges, e[1] \notin completedNodes \cup hidden
        PROVE  Cyclic(h)
    <3>1. e \in Data /\ e[2] \in h
      BY <1>7
    <3>2. PICK j \in 1..1 : e[1] \in levels[j]
      BY <1>5, <2>1, <3>1 DEF BInv, LInv, Ordered
    <3>3. e[1] \in h
      BY <1>5, <3>2
    <3> QED BY <3>1, <3>3 DEF Cyclic, Data
  <2> QED BY <2>1
<1>11. PICK S : steps \in Seq(S)
  BY DEF BInv, StepsInv
<1>12. /\ steps' \in Seq(S \cup {new})
       /\ Len(steps) \in Nat /\ Len(steps') = Len(steps) + 1
       /\ \A k \in 1..Len(steps) : steps'[k] = steps[k]
       /\ steps'[Len(steps) + 1] = new
  BY <1>1, <1>11, AppendFacts
<1>13. \A k \in 1..Len(steps') : k \in 1..Len(steps) \/ k = Len(steps) + 1
  BY <1>12
<1>14. ASSUME NEW k \in 1..Len(steps)
       PROVE  StepInv(steps[k])'
  <2>1. StepInv(steps[k]) /\ steps'[k] = steps[k]
    BY <1>12 DEF BInv, StepsInv
  <2> QED BY <1>1, <1>2, <2>1 DEF StepInv, Ids, Data, Cyclic
<1>15. ASSUME NEW k, k = Len(steps) + 1
       PROVE  StepInv(steps[k])'
  <2>1. \A n \in Ids : nodeValues[n] # Nothing => n \in h \cup completedNodes
    BY <1>7 DEF BInv, ValuesInv
  <2>2. h \cup completedNodes \subseteq completedNodes' /\ h \cap completedNodes = {}
    BY <1>1, <1>6
  <2>3. /\ steps'[k].activeNodes = h /\ steps'[k].activeEdges = activeEdges
        /\ steps'[k].completedNodes = completedNodes /\ steps'[k].values = nodeValues
    BY <1>4, <1>12, <1>15
  <2>4. Cyclic(steps[k].activeNodes)' <=> Cyclic(h)
    BY <1>2, <2>3 DEF Cyclic
  <2>5. /\ activeEdges = {e \in Data' : e[2] \in h} /\ Ids' = Ids
        /\ hidden' = hidden /\ nodeValues' = nodeValues
    BY <1>1, <1>2, <1>7 DEF Data, Ids
  <2> QED BY <1>10, <2>1, <2>2, <2>3, <2>4, <2>5 DEF StepInv
<1>16. ASSUME NEW k \in 1..Len(steps'), NEW l \in 1..Len(steps'), k < l
       PROVE  steps'[k].activeNodes \cup steps'[k].completedNodes
                \subseteq steps'[l].completedNodes
  <2>1. k \in 1..Len(steps)
    BY <1>12, <1>16
  <2>2. CASE l \in 1..Len(steps)
    BY <1>12, <1>16, <2>1, <2>2 DEF BInv, StepsInv
  <2>3. CASE l = Len(steps) + 1
    <3>1. steps'[l].completedNodes = completedNodes
      BY <1>4, <1>12, <2>3
    <3> QED BY <1>12, <2>1, <3>1 DEF BInv, StepsInv, StepInv
  <2> QED BY <1>13, <2>2, <2>3
<1>17. ASSUME NEW n \in completedNodes'
       PROVE  \E k \in 1..Len(steps') : n \in steps'[k].activeNodes
  <2>1. CASE n \in completedNodes
    <3>1. PICK k \in 1..Len(steps) : n \in steps[k].activeNodes
      BY <2>1 DEF BInv, StepsInv
    <3>2. k \in 1..Len(steps')
      BY <1>12
    <3> QED BY <1>12, <3>1, <3>2
  <2>2. CASE n \in h
    <3>1. Len(steps) + 1 \in 1..Len(steps')
      BY <1>12
    <3> QED BY <1>4, <1>12, <2>2, <3>1
  <2> QED BY <1>1, <2>1, <2>2
<1>18. StepsInv'
  <2>1. \A k \in 1..Len(steps') : StepInv(steps[k])'
    BY <1>13, <1>14, <1>15
  <2> QED BY <1>12, <1>16, <1>17, <2>1 DEF StepsInv
<1>19. \A n : Shown(n)' = Shown(n)
  BY <1>1, <1>2 DEF Shown, InputValues
<1>20. ASSUME NEW k \in 1..Len(steps')
       PROVE  (Cyclic(steps[k].activeNodes)
                 \/ \A n \in steps[k].activeNodes : Shown(n))'
  <2>1. PICK a : a = steps'[k].activeNodes
    OBVIOUS
  <2>2. Cyclic(a) \/ \A n \in a : Shown(n)
    <3>1. CASE k \in 1..Len(steps)
      BY <1>12, <2>1, <3>1 DEF BInv, ValuesInv
    <3>2. CASE k = Len(steps) + 1
      <4>1. a = h
        BY <1>4, <1>12, <2>1, <3>2
      <4> QED BY <1>1, <1>7, <4>1 DEF BInv, ValuesInv, h
    <3> QED BY <1>13, <3>1, <3>2
  <2>3. CASE Cyclic(a)
    BY <1>2, <2>1, <2>3 DEF Cyclic
  <2>4. CASE \A n \in a : Shown(n)
    BY <1>19, <2>1, <2>4
  <2> QED BY <2>2, <2>3, <2>4
<1>21. ValuesInv'
  <2>1. \A n \in Ids : nodeValues'[n] # Nothing => n \in completedNodes' \cup Computed'
    BY <1>1, <1>7 DEF BInv, ValuesInv
  <2>2. DOMAIN nodeValues' = Ids'
    BY <1>1, <1>2 DEF BInv, ValuesInv, Ids
  <2> QED BY <1>1, <1>2, <1>20, <2>1, <2>2 DEF ValuesInv, Ids
<1> QED BY <1>3, <1>9, <1>18, <1>21 DEF BInv

LEMMA StepBInv == BInv /\ [BuildNext]_<<vars, buildVars>> => BInv'
<1> SUFFICES ASSUME BInv, [BuildNext]_<<vars, buildVars>> PROVE BInv'
  OBVIOUS
<1>1. CASE UNCHANGED <<vars, buildVars>>
  <2>1. UNCHANGED <<nodes, walk, stack, reached, happyPath, exceptionOnly, param, hidden,
                    levels, todo, activeEdges, completedNodes, completedEdges,
                    nodeValues, steps, pc>>
    BY <1>1 DEF vars, buildVars
  <2>2. WInv'
    BY <2>1 DEF BInv, WInv, FrontierComplete, Seeds, Happy, Exception
  <2>3. LInv'
    BY <2>1 DEF BInv, LInv, Ordered, Covers, Ids, Data, Computed
  <2>4. StepsInv'
    BY <2>1 DEF BInv, StepsInv, StepInv, Ids, Data, Cyclic
  <2>5. ValuesInv'
    BY <2>1 DEF BInv, ValuesInv, Ids, Cyclic, Computed, Shown, InputValues
  <2> QED BY <2>2, <2>3, <2>4, <2>5 DEF BInv
<1> QED BY <1>1, ClassifyBInv, TakeLevelBInv, TakeRestBInv, FilterBInv, BeginLevelBInv,
           ComputeBInv, EndLevelBInv, ReturnBInv DEF BuildNext

\* What holds from the parsed graph to the last step, for every finite graph.
THEOREM BuildInvariant == BuildSpec => []BInv
<1>1. QED
  BY InitBInv, StepBInv, PTL DEF BuildSpec

\* A step lights up no edge whose source has not executed, and what a node
\* showed when its step was cut is what the final values make it show; on a cycle
\* neither is claimed.
THEOREM ValuesTheorem == BuildSpec => []ValuesAreFinal
<1>1. BInv => ValuesAreFinal
  <2> SUFFICES ASSUME BInv, NEW k \in 1..Len(steps), ~Cyclic(steps[k].activeNodes)
               PROVE  /\ \A e \in steps[k].activeEdges :
                           e[1] \in steps[k].completedNodes \cup hidden
                      /\ \A n \in steps[k].activeNodes : Shown(n)
    BY DEF ValuesAreFinal, UnorderedSteps, Shown
  <2>1. StepInv(steps[k])
    BY DEF BInv, StepsInv
  <2>2. \A e \in steps[k].activeEdges : e[1] \in steps[k].completedNodes \cup hidden
    BY <2>1 DEF StepInv
  <2>3. \A n \in steps[k].activeNodes : Shown(n)
    BY DEF BInv, ValuesInv
  <2> QED BY <2>2, <2>3
<1>2. QED
  BY <1>1, BuildInvariant, PTL

\* No step shows a value before its node executes, and none loses or changes one
\* that an earlier step shows: every step holds its own copy.
THEOREM SnapshotsTheorem == BuildSpec => []StepsAreSnapshots
<1>1. BInv => StepsAreSnapshots
  <2> SUFFICES ASSUME BInv, NEW k \in 1..Len(steps), NEW n \in Ids
               PROVE  /\ steps[k].values[n] # Nothing =>
                           n \in steps[k].completedNodes \cup steps[k].activeNodes
                      /\ \A l \in k..Len(steps) : n \in steps[k].completedNodes =>
                           steps[l].values[n] = steps[k].values[n]
    BY DEF StepsAreSnapshots, Ids
  <2>1. StepInv(steps[k])
    BY DEF BInv, StepsInv
  <2>2. steps[k].values[n] # Nothing =>
          n \in steps[k].completedNodes \cup steps[k].activeNodes
    BY <2>1 DEF StepInv
  <2>3. ASSUME NEW l \in k..Len(steps), n \in steps[k].completedNodes
        PROVE  steps[l].values[n] = steps[k].values[n]
    <3>1. l \in 1..Len(steps) /\ (k = l \/ k < l)
      BY DEF BInv, StepsInv
    <3>2. StepInv(steps[l])
      BY <3>1 DEF BInv, StepsInv
    <3>3. n \in steps[l].completedNodes
      BY <2>3, <3>1 DEF BInv, StepsInv
    <3> QED BY <2>1, <2>3, <3>2, <3>3 DEF StepInv
  <2> QED BY <2>2, <2>3
<1>2. QED
  BY <1>1, BuildInvariant, PTL

\* The steps execute every node that is not hidden, once, and what is hidden is
\* the exception path as it is declared, or nothing.
THEOREM ShownTheorem == BuildSpec => []ShownPath
<1>1. BInv => ShownPath
  <2> SUFFICES ASSUME BInv, pc = "done"
               PROVE  /\ hidden # {} => hidden = ExceptionOnly(nodes)
                      /\ UNION {steps[k].activeNodes : k \in 1..Len(steps)} = Ids \ hidden
                      /\ \A k, l \in 1..Len(steps) :
                           k # l => steps[k].activeNodes \cap steps[l].activeNodes = {}
    BY DEF ShownPath, Ids
  <2>1. hidden # {} => hidden = ExceptionOnly(nodes)
    BY DEF BInv, LInv, WInv, ExceptionOnly, Exception, Happy
  <2>2. completedNodes = Ids \ hidden
    <3>1. Len(levels) = 0
      BY DEF BInv, LInv
    <3> QED BY <3>1 DEF BInv, LInv, Covers
  <2>3. UNION {steps[k].activeNodes : k \in 1..Len(steps)} = completedNodes
    <3>1. \A n \in completedNodes : \E k \in 1..Len(steps) : n \in steps[k].activeNodes
      BY DEF BInv, StepsInv
    <3>2. \A k \in 1..Len(steps) : steps[k].activeNodes \subseteq completedNodes
      BY DEF BInv, StepsInv, StepInv
    <3> QED BY <3>1, <3>2
  <2>4. ASSUME NEW k \in 1..Len(steps), NEW l \in 1..Len(steps), k < l
        PROVE  steps[k].activeNodes \cap steps[l].activeNodes = {}
    <3>1. steps[k].activeNodes \subseteq steps[l].completedNodes
      BY <2>4 DEF BInv, StepsInv
    <3>2. StepInv(steps[l])
      BY DEF BInv, StepsInv
    <3> QED BY <3>1, <3>2 DEF StepInv
  <2>5. \A k, l \in 1..Len(steps) : k # l => k < l \/ l < k
    BY DEF BInv, StepsInv
  <2> QED BY <2>1, <2>2, <2>3, <2>4, <2>5
<1>2. QED
  BY <1>1, BuildInvariant, PTL
-----------------------------------------------------------------------------
\* A step as the page takes it (StepType of Player, for some set of values).
StepOf(V) == [activeNodes : SUBSET Ids, activeEdges : SUBSET Data,
              completedNodes : SUBSET Ids, completedEdges : SUBSET Data,
              values : [Ids -> V]]

StepsTyped == steps # <<>> /\ \A k \in 1..Len(steps) : \E V : steps[k] \in StepOf(V)

TInv ==
  /\ StepsTyped
  /\ completedEdges \subseteq Data
  /\ \E V : nodeValues \in [Ids -> V]

LEMMA InitTInv == BuildInit => TInv
<1> SUFFICES ASSUME BuildInit PROVE TInv
  OBVIOUS
<1>1. nodeValues \in [Ids -> {Nothing}]
  BY DEF BuildInit, NoValues, Ids
<1>2. Len(steps) = 1 /\ steps # <<>> /\ steps[1] \in StepOf({Nothing})
  BY <1>1 DEF BuildInit, Step, StepOf
<1>3. \A k \in 1..Len(steps) : k = 1
  BY <1>2
<1> QED BY <1>1, <1>2, <1>3 DEF BuildInit, TInv, StepsTyped

LEMMA StepTInv == BInv /\ TInv /\ [BuildNext]_<<vars, buildVars>> => TInv'
<1> SUFFICES ASSUME BInv, TInv, [BuildNext]_<<vars, buildVars>> PROVE TInv'
  OBVIOUS
<1>1. CASE UNCHANGED <<nodes, steps, completedEdges, nodeValues>>
  BY <1>1 DEF TInv, StepsTyped, StepOf, Ids, Data
<1>2. ASSUME NEW m \in todo, Compute(m) PROVE TInv'
  <2>1. UNCHANGED <<nodes, steps, completedEdges>>
    BY <1>2 DEF Compute, vars
  <2>2. \E V : nodeValues' \in [Ids -> V]
    <3> DEFINE x == ComputeValue(nodes[m], InputValues(m), param)
    <3>1. nodeValues' = [nodeValues EXCEPT ![m] = x]
      BY <1>2 DEF Compute
    <3>2. PICK V : nodeValues \in [Ids -> V]
      BY DEF TInv
    <3> HIDE DEF x
    <3>3. nodeValues' \in [Ids -> V \cup {x}]
      BY <3>1, <3>2
    <3> QED BY <3>3
  <2> QED BY <2>1, <2>2 DEF TInv, StepsTyped, StepOf, Ids, Data
<1>3. CASE EndLevel
  <2> DEFINE new == Step(Head(levels), activeEdges, completedNodes, completedEdges, nodeValues)
  <2>1. /\ steps' = Append(steps, new) /\ nodes' = nodes /\ nodeValues' = nodeValues
        /\ completedEdges' \subseteq completedEdges \cup activeEdges \cup Data
    BY <1>3 DEF EndLevel, vars, Data
  <2>2. Head(levels) \subseteq Ids /\ activeEdges \subseteq Data /\ completedNodes \subseteq Ids
    <3>1. levels \in Seq(SUBSET Ids) /\ levels # <<>>
      BY <1>3 DEF EndLevel, BInv, LInv, Ordered
    <3> QED BY <1>3, <3>1, HeadTailProperties DEF EndLevel, BInv, LInv
  <2>3. PICK V : nodeValues \in [Ids -> V]
    BY DEF TInv
  <2>4. new \in StepOf(V)
    BY <2>2, <2>3 DEF Step, StepOf, TInv
  <2> HIDE DEF new
  <2>5. PICK S : steps \in Seq(S)
    BY DEF BInv, StepsInv
  <2>6. /\ steps' \in Seq(S \cup {new})
        /\ Len(steps) \in Nat /\ Len(steps') = Len(steps) + 1
        /\ \A k \in 1..Len(steps) : steps'[k] = steps[k]
        /\ steps'[Len(steps) + 1] = new
    BY <2>1, <2>5, AppendFacts
  <2>7. ASSUME NEW k \in 1..Len(steps') PROVE \E W : steps'[k] \in StepOf(W)
    <3>1. k \in 1..Len(steps) \/ k = Len(steps) + 1
      BY <2>6
    <3> QED BY <2>4, <2>6, <3>1 DEF TInv, StepsTyped
  <2>8. steps' # <<>>
    BY <2>6
  <2>9. Ids' = Ids /\ Data' = Data
    BY <2>1 DEF Ids, Data
  <2>10. StepsTyped'
    BY <2>7, <2>8, <2>9 DEF StepsTyped, StepOf
  <2> QED BY <2>1, <2>2, <2>3, <2>9, <2>10 DEF TInv
<1>4. CASE Classify \/ TakeLevel \/ TakeRest \/ Filter \/ BeginLevel \/ Return
  BY <1>1, <1>4 DEF Classify, Next, Visit, PopAgain, EndHappyWalk, EndExceptionWalk, Turn,
                    TakeLevel, TakeRest, Filter, BeginLevel, Return, vars, buildVars
<1>5. CASE UNCHANGED <<vars, buildVars>>
  BY <1>1, <1>5 DEF vars, buildVars
<1> QED BY <1>2, <1>3, <1>4, <1>5 DEF BuildNext

\* The page always has a step to show, and every step is about the graph's own
\* nodes and data edges: what the page assumes of the builder (StepsAssumption).
THEOREM StepsTheorem == BuildSpec => []StepsTyped
<1>1. TInv => StepsTyped
  BY DEF TInv
<1> QED BY <1>1, InitTInv, StepTInv, BuildInvariant, InitBInv, StepBInv, PTL DEF BuildSpec
=============================================================================
