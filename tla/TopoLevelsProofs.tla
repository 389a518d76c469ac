-------------------------- MODULE TopoLevelsProofs --------------------------
(***************************************************************************)
(* topoLevels for every finite set of ids and every graph on it: the       *)
(* invariant of its loops, the order and the shape of the levels it        *)
(* returns, and that its steps are those of the abstract execution order.  *)
(***************************************************************************)
EXTENDS TopoLevels, FiniteSetTheorems, SequenceTheorems, TLAPS

\* A listing of a finite set is an array of its elements, each once.
LEMMA ListingFacts ==
  ASSUME NEW S, IsFiniteSet(S), NEW s \in Listings(S)
  PROVE  /\ s \in Seq(S)
         /\ Elems(s) = S
         /\ \A i, j \in 1..Len(s) : s[i] = s[j] => i = j
<1> DEFINE k == Cardinality(S)
<1>1. k \in Nat
  BY FS_CardinalityType
<1>2. s \in [1..k -> S]
  BY DEF Listings
<1>3. s \in Seq(S) /\ Len(s) = k
  BY <1>1, <1>2
<1>4. Elems(s) = S
  BY <1>1, <1>2, <1>3 DEF Listings, Elems
<1>5. QED
  BY <1>1, <1>3, <1>4 DEF Listings

\* Appending to an array adds the one element.
LEMMA AppendElems ==
  ASSUME NEW S, NEW s \in Seq(S), NEW x \in S
  PROVE  Elems(Append(s, x)) = Elems(s) \cup {x}
<1>1. Len(s) \in Nat /\ Len(Append(s, x)) = Len(s) + 1
  BY AppendProperties, LenProperties
<1>2. \A i \in 1..Len(s) : Append(s, x)[i] = s[i]
  BY AppendProperties
<1>3. Append(s, x)[Len(s) + 1] = x
  BY AppendProperties
<1>4. 1..(Len(s) + 1) = (1..Len(s)) \cup {Len(s) + 1}
  BY <1>1
<1>5. QED
  BY <1>1, <1>2, <1>3, <1>4 DEF Elems

\* The edges of a graph are finitely many, and so are those a node waits for.
LEMMA EdgesFinite ==
  ASSUME TypeOK
  PROVE  IsFiniteSet(edges) /\ \A T : T \subseteq edges => IsFiniteSet(T)
<1>1. IsFiniteSet(Node \X Node)
  BY NodeAssumption, FS_Product
<1>2. edges \subseteq Node \X Node
  BY DEF TypeOK
<1>3. IsFiniteSet(edges)
  BY <1>1, <1>2, FS_Subset
<1>4. QED
  BY <1>3, FS_Subset

LEMMA InitIInv == Init => IInv
<1> SUFFICES ASSUME Init PROVE IInv
  OBVIOUS
<1> DEFINE R == {n \in Node : inDeg[n] = 0}
<1>1. edges \subseteq {e \in Node \X Node : e[1] # e[2]}
  BY GraphsAssumption DEF Init
<1>2. IsFiniteSet(Node \X Node)
  BY NodeAssumption, FS_Product
<1>3. \A n \in Node : IsFiniteSet(Into(n))
  BY <1>1, <1>2, FS_Subset DEF Into
<1>4. \A n \in Node : Waiting(n) = Into(n)
  BY DEF Init, Waiting, Into
<1>5. \A n \in Node : inDeg[n] = Cardinality(Into(n)) /\ inDeg[n] \in Nat
  BY <1>3, FS_CardinalityType DEF Init
<1>6. R = {n \in Node : Waiting(n) = {}}
  BY <1>3, <1>4, <1>5, FS_EmptySet
<1>7. IsFiniteSet(R)
  BY NodeAssumption, FS_Subset
<1>8. /\ q \in Seq(R)
      /\ Elems(q) = R
      /\ \A i, j \in 1..Len(q) : q[i] = q[j] => i = j
  BY <1>7, ListingFacts DEF Init
<1>9. TypeOK
  <2>1. inDeg \in [Node -> Nat]
    BY <1>5 DEF Init
  <2>2. q \in Seq(Node)
    BY <1>8, SeqMonotonic
  <2>3. QED
    BY <1>1, <2>1, <2>2 DEF Init, TypeOK
<1>10. QueueIsReady
  BY <1>4, <1>5, <1>6, <1>8 DEF Init, QueueIsReady, Pending
<1>11. NoDuplicate
  BY <1>8 DEF Init, NoDuplicate, Pending
<1>12. visited = UNION {Elems(levels[i]) : i \in 1..Len(levels)}
  BY DEF Init
<1>13. DependenciesRespected
  BY DEF Init, DependenciesRespected
<1>14. QED
  BY <1>9, <1>10, <1>11, <1>12, <1>13 DEF Init, IInv

\* Emitting the queue keeps the invariant.
LEMMA StartLevelIInv == IInv /\ StartLevel => IInv'
<1> SUFFICES ASSUME IInv, StartLevel PROVE IInv'
  OBVIOUS
<1>1. TypeOK /\ QueueIsReady /\ NoDuplicate /\ todo = {} /\ pc = "while"
  BY DEF IInv, StartLevel
<1>2. /\ Elems(q) = {n \in Node \ visited : Waiting(n) = {}}
      /\ Elems(q) \cap visited = {}
  BY <1>1 DEF QueueIsReady, NoDuplicate, Pending
<1>3. TypeOK'
  <2>1. levels' \in Seq(Seq(Node))
    BY <1>1, AppendProperties DEF StartLevel, TypeOK
  <2>2. visited' \subseteq Node
    BY <1>1, <1>2 DEF StartLevel, TypeOK
  <2>3. nq' \in Seq(Node)
    BY DEF StartLevel
  <2>4. QED
    BY <1>1, <2>1, <2>2, <2>3 DEF StartLevel, TypeOK
<1>4. \A n \in Node : Waiting(n)' = Waiting(n)
  BY <1>1, <1>2 DEF StartLevel, Waiting, Into, TypeOK
<1>5. {n \in Node \ visited' : Waiting(n) = {}} = {}
  BY <1>2 DEF StartLevel
<1>6. Elems(<<>>) = {}
  BY DEF Elems
<1>7. QueueIsReady'
  BY <1>1, <1>4, <1>5, <1>6 DEF StartLevel, QueueIsReady, Pending
<1>8. NoDuplicate'
  BY <1>6 DEF StartLevel, NoDuplicate, Pending
<1>9. \A n \in visited' : Waiting(n)' = {}
  BY <1>1, <1>2, <1>4 DEF StartLevel, IInv, TypeOK
<1>10. /\ Len(levels) \in Nat
       /\ Len(levels') = Len(levels) + 1
       /\ \A i \in 1..Len(levels) : levels'[i] = levels[i]
       /\ levels'[Len(levels) + 1] = q
  BY <1>1, AppendProperties, LenProperties DEF StartLevel, TypeOK
<1>11. visited = UNION {Elems(levels[i]) : i \in 1..Len(levels)}
  BY <1>1 DEF IInv
<1>12. visited' = UNION {Elems(levels'[i]) : i \in 1..Len(levels')}
  <2>1. 1..Len(levels') = (1..Len(levels)) \cup {Len(levels) + 1}
    BY <1>10
  <2>2. visited' = visited \cup Elems(q)
    BY DEF StartLevel
  <2>3. QED
    BY <1>10, <1>11, <2>1, <2>2
<1>13. DependenciesRespected'
  <2> SUFFICES ASSUME NEW i \in 1..Len(levels'), NEW e \in edges',
                      e[2] \in Elems(levels'[i])
               PROVE  \E j \in 1..(i-1) : e[1] \in Elems(levels'[j])
    BY DEF DependenciesRespected
  <2>1. e \in edges /\ e \in Node \X Node
    BY <1>1 DEF StartLevel, TypeOK
  <2>2. CASE i \in 1..Len(levels)
    <3>1. e[2] \in Elems(levels[i])
      BY <1>10, <2>2
    <3>2. PICK j \in 1..(i-1) : e[1] \in Elems(levels[j])
      BY <1>1, <2>1, <2>2, <3>1 DEF IInv, DependenciesRespected
    <3>3. levels'[j] = levels[j]
      BY <1>10, <2>2
    <3>4. QED
      BY <3>2, <3>3
  <2>3. CASE i = Len(levels) + 1
    <3>1. Waiting(e[2]) = {}
      BY <1>2, <1>10, <2>3
    <3>2. e[1] \in visited
      BY <2>1, <3>1 DEF Waiting, Into
    <3>3. PICK j \in 1..Len(levels) : e[1] \in Elems(levels[j])
      BY <1>11, <3>2
    <3>4. j \in 1..(i-1) /\ levels'[j] = levels[j]
      BY <1>10, <2>3
    <3>5. QED
      BY <3>3, <3>4
  <2>4. QED
    BY <1>10, <2>2, <2>3
<1>14. \A S \in SUBSET Node : Stuck(S)' => S \cap visited' = {}
  <2> SUFFICES ASSUME NEW S \in SUBSET Node, Stuck(S), NEW n \in S,
                      n \in Elems(q)
               PROVE  FALSE
    BY <1>1 DEF IInv, StartLevel, Stuck
  <2>1. PICK e \in edges : e[2] = n /\ e[1] \in S
    BY DEF Stuck
  <2>2. e[1] \in visited
    BY <1>2, <2>1 DEF Waiting, Into
  <2>3. QED
    BY <1>1, <2>1, <2>2 DEF IInv
<1>15. \A e \in todo' : e[1] \in visited'
  BY DEF StartLevel
<1>16. QED
  BY <1>3, <1>7, <1>8, <1>9, <1>12, <1>13, <1>14, <1>15 DEF StartLevel, IInv

\* Relaxing one edge keeps the invariant: the counter follows the edges.
LEMMA RelaxIInv == ASSUME IInv, NEW e \in edges, Relax(e) PROVE IInv'
<1> DEFINE m == e[2]
<1>1. TypeOK /\ QueueIsReady /\ NoDuplicate /\ pc = "inner" /\ e \in todo
  BY DEF IInv, Relax
<1>2. e \in Node \X Node /\ m \in Node
  BY <1>1 DEF TypeOK
<1>3. e \in Waiting(m)
  BY <1>1 DEF Waiting, Into
<1>4. m \notin visited
  BY <1>3 DEF IInv
<1>5. e[1] \in visited
  BY <1>1 DEF IInv
<1>6. Waiting(m)' = Waiting(m) \ {e}
  BY <1>5 DEF Relax, Waiting, Into
<1>7. \A n \in Node : n # m => Waiting(n)' = Waiting(n)
  BY DEF Relax, Waiting, Into
<1>8. /\ IsFiniteSet(Waiting(m))
      /\ IsFiniteSet(Waiting(m) \ {e})
  BY <1>1, EdgesFinite DEF Waiting, Into
<1>9. /\ Cardinality(Waiting(m) \ {e}) = inDeg[m] - 1
      /\ inDeg[m] - 1 \in Nat
      /\ Waiting(m)' = {} <=> inDeg[m] = 1
  <2>1. inDeg[m] = Cardinality(Waiting(m)) /\ inDeg[m] \in Nat
    BY <1>1, <1>2 DEF QueueIsReady, TypeOK
  <2>2. Cardinality(Waiting(m) \ {e}) = inDeg[m] - 1
    BY <1>3, <1>8, <2>1, FS_RemoveElement
  <2>3. Cardinality(Waiting(m) \ {e}) \in Nat
    BY <1>8, FS_CardinalityType
  <2>4. Cardinality(Waiting(m) \ {e}) = 0 <=> Waiting(m) \ {e} = {}
    BY <1>8, FS_EmptySet
  <2>5. QED
    BY <1>6, <2>1, <2>2, <2>3, <2>4
<1>10. \A n \in Node : inDeg'[n] = Cardinality(Waiting(n)')
  BY <1>1, <1>2, <1>6, <1>7, <1>9 DEF Relax, QueueIsReady, TypeOK
<1>11. TypeOK'
  <2>1. inDeg' \in [Node -> Nat]
    BY <1>1, <1>2, <1>9 DEF Relax, TypeOK
  <2>2. nq' \in Seq(Node)
    BY <1>1, <1>2, AppendProperties DEF Relax, TypeOK
  <2>3. QED
    BY <1>1, <2>1, <2>2 DEF Relax, TypeOK
<1>12. /\ Elems(nq) = {n \in Node \ visited : Waiting(n) = {}}
       /\ \A i, j \in 1..Len(nq) : nq[i] = nq[j] => i = j
  BY <1>1 DEF QueueIsReady, NoDuplicate, Pending
<1>13. m \notin Elems(nq)
  BY <1>3, <1>12
<1>14. QueueIsReady' /\ NoDuplicate'
  <2>1. CASE inDeg[m] = 1
    <3>1. nq' = Append(nq, m)
      BY <2>1 DEF Relax
    <3>2. Elems(nq') = Elems(nq) \cup {m}
      BY <1>1, <1>2, <3>1, AppendElems DEF TypeOK
    <3>3. Elems(nq') = {n \in Node \ visited : Waiting(n)' = {}}
      BY <1>2, <1>4, <1>7, <1>9, <1>12, <2>1, <3>2
    <3>4. /\ Len(nq) \in Nat
          /\ Len(nq') = Len(nq) + 1
          /\ \A i \in 1..Len(nq) : nq'[i] = nq[i]
          /\ nq'[Len(nq) + 1] = m
      BY <1>1, <1>2, <3>1, AppendProperties, LenProperties DEF TypeOK
    <3>5. \A i \in 1..Len(nq) : nq[i] # m
      BY <1>13 DEF Elems
    <3>6. \A i, j \in 1..Len(nq') : nq'[i] = nq'[j] => i = j
      BY <1>12, <3>4, <3>5
    <3>7. QED
      BY <1>1, <1>10, <3>3, <3>6 DEF Relax, QueueIsReady, NoDuplicate, Pending
  <2>2. CASE inDeg[m] # 1
    <3>1. nq' = nq
      BY <2>2 DEF Relax
    <3>2. Elems(nq') = {n \in Node \ visited : Waiting(n)' = {}}
      BY <1>3, <1>7, <1>9, <1>12, <2>2, <3>1
    <3>3. QED
      BY <1>1, <1>10, <1>12, <3>1, <3>2
         DEF Relax, QueueIsReady, NoDuplicate, Pending
  <2>3. QED
    BY <2>1, <2>2
<1>15. \A n \in visited' : Waiting(n)' = {}
  BY <1>1, <1>4, <1>7 DEF Relax, IInv, TypeOK
<1>16. DependenciesRespected'
  BY DEF Relax, IInv, DependenciesRespected
<1>17. \A S \in SUBSET Node : Stuck(S)' => S \cap visited' = {}
  BY DEF Relax, IInv, Stuck
<1>18. QED
  BY <1>1, <1>11, <1>14, <1>15, <1>16, <1>17 DEF Relax, IInv

\* Leaving the inner loop, and emptying the queue, keep the invariant.
LEMMA EndLevelIInv == IInv /\ EndLevel => IInv'
<1> SUFFICES ASSUME IInv, EndLevel PROVE IInv'
  OBVIOUS
<1>1. TypeOK'
  BY DEF EndLevel, IInv, TypeOK
<1>2. \A n : Waiting(n)' = Waiting(n)
  BY DEF EndLevel, Waiting, Into
<1>3. Pending' = Pending
  BY DEF EndLevel, Pending
<1>4. QueueIsReady' /\ NoDuplicate'
  BY <1>2, <1>3 DEF EndLevel, IInv, QueueIsReady, NoDuplicate
<1>5. DependenciesRespected'
  BY DEF EndLevel, IInv, DependenciesRespected
<1>6. \A S \in SUBSET Node : Stuck(S)' => S \cap visited' = {}
  BY DEF EndLevel, IInv, Stuck
<1>7. QED
  BY <1>1, <1>2, <1>4, <1>5, <1>6 DEF EndLevel, IInv

LEMMA FinishIInv == IInv /\ Finish => IInv'
<1> SUFFICES ASSUME IInv, Finish PROVE IInv'
  OBVIOUS
<1>1. PICK rest \in Listings(Node \ visited) :
        levels' = IF rest # <<>> THEN Append(levels, rest) ELSE levels
  BY DEF Finish
<1>2. rest \in Seq(Node)
  <2>1. IsFiniteSet(Node \ visited)
    BY NodeAssumption, FS_Subset
  <2>2. rest \in Seq(Node \ visited)
    BY <2>1, ListingFacts
  <2>3. QED
    BY <2>2, SeqMonotonic
<1>3. levels' \in Seq(Seq(Node))
  BY <1>1, <1>2, AppendProperties DEF IInv, TypeOK
<1>4. TypeOK'
  BY <1>3 DEF Finish, IInv, TypeOK
<1>5. \A n : Waiting(n)' = Waiting(n)
  BY DEF Finish, Waiting, Into
<1>6. Pending' = Pending
  BY DEF Finish, Pending
<1>7. QueueIsReady' /\ NoDuplicate'
  BY <1>5, <1>6 DEF Finish, IInv, QueueIsReady, NoDuplicate
<1>8. DependenciesRespected'
  BY DEF Finish, DependenciesRespected
<1>9. \A S \in SUBSET Node : Stuck(S)' => S \cap visited' = {}
  BY DEF Finish, IInv, Stuck
<1>10. QED
  BY <1>4, <1>5, <1>7, <1>8, <1>9 DEF Finish, IInv

LEMMA StepIInv == IInv /\ [Next]_vars => IInv'
<1> SUFFICES ASSUME IInv, [Next]_vars PROVE IInv'
  OBVIOUS
<1>1. CASE StartLevel
  BY <1>1, StartLevelIInv
<1>2. ASSUME NEW e \in edges, Relax(e) PROVE IInv'
  BY <1>2, RelaxIInv
<1>3. CASE EndLevel
  BY <1>3, EndLevelIInv
<1>4. CASE Finish
  BY <1>4, FinishIInv
<1>5. CASE UNCHANGED vars
  <2>1. \A n : Waiting(n)' = Waiting(n)
    BY <1>5 DEF vars, Waiting, Into
  <2>2. Pending' = Pending
    BY <1>5 DEF vars, Pending
  <2>3. TypeOK'
    BY <1>5 DEF vars, IInv, TypeOK
  <2>4. QueueIsReady' /\ NoDuplicate'
    BY <1>5, <2>1, <2>2 DEF vars, IInv, QueueIsReady, NoDuplicate
  <2>5. DependenciesRespected'
    BY <1>5 DEF vars, IInv, DependenciesRespected
  <2>6. \A S \in SUBSET Node : Stuck(S)' => S \cap visited' = {}
    BY <1>5 DEF vars, IInv, Stuck
  <2>7. QED
    BY <1>5, <2>1, <2>3, <2>4, <2>5, <2>6 DEF vars, IInv
<1>6. QED
  BY <1>1, <1>2, <1>3, <1>4, <1>5 DEF Next

\* The invariant of topoLevels' loops: the counters count the edges still to
\* relax, the queue holds exactly the ready ids, no id is emitted twice, and
\* every emitted id comes after all its data inputs (test.html:487).
THEOREM LoopInvariant == Spec => []IInv
<1>1. QED
  BY InitIInv, StepIInv, PTL DEF Spec

\* For every graph, an emitted node's data inputs are in earlier levels.
THEOREM OrderTheorem == Spec => []DependenciesRespected
<1>1. IInv => DependenciesRespected
  BY DEF IInv
<1>2. QED
  BY <1>1, LoopInvariant, PTL

\* For every graph, the last unordered level holds the ids that a cycle of
\* data edges leads to, and no others.
THEOREM CycleTheorem == Spec => []OnlyCyclesAreUnordered
<1>1. IInv => OnlyCyclesAreUnordered
  <2> SUFFICES ASSUME IInv, pc = "done"
               PROVE  /\ Stuck(Node \ visited)
                      /\ \A S \in SUBSET Node : Stuck(S) => S \cap visited = {}
    BY DEF OnlyCyclesAreUnordered
  <2>1. Elems(<<>>) = {}
    BY DEF Elems
  <2>2. \A n \in Node \ visited : Waiting(n) # {}
    BY <2>1 DEF IInv, QueueIsReady, Pending
  <2>3. \A n \in Node \ visited : \E e \in edges : e[2] = n /\ e[1] \notin visited
    BY <2>2 DEF IInv, Waiting, Into
  <2>4. \A e \in edges : e[1] \in Node
    BY DEF IInv, TypeOK
  <2>5. Stuck(Node \ visited)
    BY <2>3, <2>4 DEF Stuck
  <2>6. QED
    BY <2>5 DEF IInv
<1>2. QED
  BY <1>1, LoopInvariant, PTL

\* What the abstract order calls ready are the nodes that wait for nothing.
LEMMA ReadyWaitsForNothing ==
  ASSUME IInv, pc = "while"
  PROVE  Order!Ready = Elems(q)
<1>1. todo = {} /\ Pending = q
  BY DEF IInv, Pending
<1>2. Order!Ready = {n \in Node \ visited : Waiting(n) = {}}
  BY <1>1 DEF Order!Ready, Waiting, Into
<1>3. QED
  BY <1>1, <1>2 DEF IInv, QueueIsReady

\* Emitting the queue executes a level: all that is ready, and something is.
LEMMA LevelIsFired == IInv /\ StartLevel => Order!FireReady
<1> SUFFICES ASSUME IInv, StartLevel PROVE Order!FireReady
  OBVIOUS
<1>1. pc = "while" /\ pc' = "inner"
  BY DEF StartLevel
<1>2. Order!Ready = Elems(q)
  BY <1>1, ReadyWaitsForNothing
<1>3. Elems(q) # {}
  <2>1. Len(q) \in Nat \ {0}
    BY EmptySeq DEF StartLevel, IInv, TypeOK
  <2>2. q[1] \in Elems(q)
    BY <2>1 DEF Elems
  <2>3. QED
    BY <2>2
<1>4. QED
  BY <1>1, <1>2, <1>3 DEF StartLevel, Order!FireReady

\* The last, unordered level executes what is left, if anything is.
LEMMA RestIsFired == IInv /\ Finish => Order!FireRest \/ UNCHANGED Order!vars
<1> SUFFICES ASSUME IInv, Finish, visited # Node PROVE Order!FireRest
  BY DEF Finish, Order!vars
<1>1. pc = "while" /\ q = <<>> /\ pc' = "done"
  BY DEF Finish
<1>2. Order!Ready = {}
  BY <1>1, ReadyWaitsForNothing DEF Elems
<1>3. QED
  BY <1>1, <1>2 DEF Finish, Order!FireRest

\* The work inside the loops does not show.
LEMMA RelaxingIsInvisible ==
  (\E e \in edges : Relax(e)) \/ EndLevel => UNCHANGED Order!vars
BY DEF Relax, EndLevel, Order!vars

\* The abstract execution order is implemented: the initial states are its
\* initial states, and a step emits a level, lets the rest go, or stutters.
\* (Its fairness is left to TLC.)
THEOREM OrderIsImplemented == Spec => Order!Init /\ [][Order!Next]_(Order!vars)
<1>1. Init => Order!Init
  BY DEF Init, Order!Init
<1>2. UNCHANGED vars => UNCHANGED Order!vars
  BY DEF vars, Order!vars
<1>3. IInv /\ [Next]_vars => [Order!Next]_(Order!vars)
  BY <1>2, LevelIsFired, RestIsFired, RelaxingIsInvisible DEF Next, Order!Next
<1>4. QED
  BY <1>1, <1>3, LoopInvariant, PTL DEF Spec

\* What the loop keeps true of the level before: the ids being collected, or
\* queued, have an input in it.
EarlyInv ==
  /\ AsEarlyAsPossible
  /\ pc = "inner" =>
       /\ levels # <<>> /\ levels[Len(levels)] = q
       /\ \A e \in todo : e[1] \in Elems(q)
  /\ pc # "done" /\ levels # <<>> =>
       \A n \in Elems(Pending) :
         \E e \in edges : e[2] = n /\ e[1] \in Elems(levels[Len(levels)])

LEMMA StepEarlyInv == IInv /\ EarlyInv /\ [Next]_vars => EarlyInv'
<1> SUFFICES ASSUME IInv, EarlyInv, [Next]_vars PROVE EarlyInv'
  OBVIOUS
<1>1. CASE StartLevel
  <2>1. /\ levels \in Seq(Seq(Node)) /\ q \in Seq(Node)
        /\ pc = "while" /\ pc' = "inner" /\ edges' = edges /\ q' = q
        /\ levels' = Append(levels, q) /\ nq' = <<>>
    BY <1>1 DEF StartLevel, IInv, TypeOK
  <2>2. /\ Len(levels) \in Nat
        /\ Len(levels') = Len(levels) + 1
        /\ levels' # <<>>
        /\ \A i \in 1..Len(levels) : levels'[i] = levels[i]
        /\ levels'[Len(levels) + 1] = q
    BY <2>1, AppendProperties, LenProperties
  <2>3. ASSUME NEW i \in 2..Len(levels'), NEW n \in Elems(levels'[i])
        PROVE  \E e \in edges : e[2] = n /\ e[1] \in Elems(levels'[i-1])
    <3>1. CASE i \in 2..Len(levels)
      <4>1. levels'[i] = levels[i] /\ levels'[i-1] = levels[i-1]
        BY <2>2, <3>1
      <4>2. QED
        BY <2>1, <2>3, <3>1, <4>1 DEF EarlyInv, AsEarlyAsPossible
    <3>2. CASE i = Len(levels) + 1
      <4>1. levels'[i] = q /\ levels'[i-1] = levels[Len(levels)]
        BY <2>2, <2>3, <3>2
      <4>2. levels # <<>>
        BY <2>2, <2>3, <3>2, EmptySeq
      <4>3. n \in Elems(Pending)
        BY <2>1, <2>3, <4>1 DEF Pending
      <4>4. QED
        BY <2>1, <4>1, <4>2, <4>3 DEF EarlyInv
    <3>3. QED
      BY <2>2, <2>3, <3>1, <3>2
  <2>4. AsEarlyAsPossible'
    BY <2>1, <2>3 DEF AsEarlyAsPossible
  <2>5. \A e \in todo' : e[1] \in Elems(q)
    BY <1>1 DEF StartLevel
  <2>6. Elems(Pending') = {}
    BY <2>1 DEF Pending, Elems
  <2>7. QED
    BY <2>1, <2>2, <2>4, <2>5, <2>6 DEF EarlyInv
<1>2. ASSUME NEW e \in edges, Relax(e) PROVE EarlyInv'
  <2>1. /\ pc = "inner" /\ pc' = "inner" /\ e \in todo
        /\ todo' \subseteq todo
        /\ UNCHANGED <<edges, q, levels>>
    BY <1>2 DEF Relax
  <2>2. nq \in Seq(Node) /\ e[2] \in Node
    BY DEF IInv, TypeOK
  <2>3. Elems(nq') \subseteq Elems(nq) \cup {e[2]}
    BY <1>2, <2>2, AppendElems DEF Relax
  <2>4. e[1] \in Elems(levels[Len(levels)])
    BY <2>1 DEF EarlyInv
  <2>5. \A n \in Elems(nq') :
          \E f \in edges : f[2] = n /\ f[1] \in Elems(levels[Len(levels)])
    BY <2>1, <2>3, <2>4 DEF EarlyInv, Pending
  <2>6. QED
    BY <2>1, <2>5 DEF EarlyInv, AsEarlyAsPossible, Pending
<1>3. CASE EndLevel
  BY <1>3 DEF EndLevel, EarlyInv, AsEarlyAsPossible, Pending
<1>4. CASE Finish
  BY <1>4 DEF Finish, EarlyInv, AsEarlyAsPossible
<1>5. CASE UNCHANGED vars
  BY <1>5 DEF vars, EarlyInv, AsEarlyAsPossible, Pending
<1>6. QED
  BY <1>1, <1>2, <1>3, <1>4, <1>5 DEF Next

\* For every graph, an id is in the level right after the last of its inputs.
THEOREM EarliestTheorem == Spec => []AsEarlyAsPossible
<1>1. Init => EarlyInv
  <2> SUFFICES ASSUME Init PROVE EarlyInv
    OBVIOUS
  <2>1. levels = <<>> /\ pc = "while" /\ Len(levels) = 0
    BY EmptySeq DEF Init
  <2>2. QED
    BY <2>1 DEF EarlyInv, AsEarlyAsPossible
<1>2. EarlyInv => AsEarlyAsPossible
  BY DEF EarlyInv
<1>3. QED
  BY <1>1, <1>2, StepEarlyInv, LoopInvariant, PTL DEF Spec

\* No id is in two places of a list of levels.
Apart(ls) ==
  \A i, k \in 1..Len(ls) : \A j \in 1..Len(ls[i]) : \A l \in 1..Len(ls[k]) :
    ls[i][j] = ls[k][l] => i = k /\ j = l

OnceInv ==
  /\ Apart(levels)
  /\ pc = "done" =>
       \A n \in Node : \E i \in 1..Len(levels) : \E j \in 1..Len(levels[i]) :
         levels[i][j] = n

\* A level of new ids, each listed once, keeps the levels apart.
LEMMA AppendApart ==
  ASSUME NEW ls \in Seq(Seq(Node)), NEW s \in Seq(Node), Apart(ls),
         \A i, j \in 1..Len(s) : s[i] = s[j] => i = j,
         \A i \in 1..Len(ls) : Elems(ls[i]) \cap Elems(s) = {}
  PROVE  Apart(Append(ls, s))
<1> DEFINE new == Append(ls, s)
<1>1. /\ Len(ls) \in Nat
      /\ Len(new) = Len(ls) + 1
      /\ \A i \in 1..Len(ls) : new[i] = ls[i]
      /\ new[Len(ls) + 1] = s
  BY AppendProperties, LenProperties
<1> SUFFICES ASSUME NEW i \in 1..Len(new), NEW k \in 1..Len(new),
                    NEW j \in 1..Len(new[i]), NEW l \in 1..Len(new[k]),
                    new[i][j] = new[k][l]
             PROVE  i = k /\ j = l
  BY DEF Apart
<1>2. i \in 1..Len(ls) \/ i = Len(ls) + 1
  BY <1>1
<1>3. k \in 1..Len(ls) \/ k = Len(ls) + 1
  BY <1>1
<1>4. new[i][j] \in Elems(new[i]) /\ new[k][l] \in Elems(new[k])
  BY DEF Elems
<1>5. CASE i \in 1..Len(ls) /\ k \in 1..Len(ls)
  <2>1. new[i] = ls[i] /\ new[k] = ls[k]
    BY <1>1, <1>5
  <2>2. j \in 1..Len(ls[i]) /\ l \in 1..Len(ls[k]) /\ ls[i][j] = ls[k][l]
    BY <2>1
  <2>3. QED
    BY <1>5, <2>2 DEF Apart
<1>6. CASE i \in 1..Len(ls) /\ k = Len(ls) + 1
  BY <1>1, <1>4, <1>6
<1>7. CASE i = Len(ls) + 1 /\ k \in 1..Len(ls)
  BY <1>1, <1>4, <1>7
<1>8. CASE i = Len(ls) + 1 /\ k = Len(ls) + 1
  <2>1. new[i] = s /\ new[k] = s
    BY <1>1, <1>8
  <2>2. QED
    BY <1>8, <2>1
<1>9. QED
  BY <1>2, <1>3, <1>5, <1>6, <1>7, <1>8

LEMMA StepOnceInv == IInv /\ OnceInv /\ [Next]_vars => OnceInv'
<1> SUFFICES ASSUME IInv, OnceInv, [Next]_vars PROVE OnceInv'
  OBVIOUS
<1>0. levels \in Seq(Seq(Node)) /\ q \in Seq(Node)
  BY DEF IInv, TypeOK
<1>1. CASE StartLevel
  <2>1. /\ levels' = Append(levels, q) /\ pc' = "inner" /\ pc = "while"
        /\ visited = UNION {Elems(levels[i]) : i \in 1..Len(levels)}
    BY <1>1 DEF StartLevel, IInv
  <2>2. /\ \A i, j \in 1..Len(q) : q[i] = q[j] => i = j
        /\ Elems(q) \cap visited = {}
    BY <2>1 DEF IInv, NoDuplicate, Pending
  <2>3. \A i \in 1..Len(levels) : Elems(levels[i]) \cap Elems(q) = {}
    BY <2>1, <2>2
  <2>4. Apart(levels')
    BY <1>0, <2>1, <2>2, <2>3, AppendApart DEF OnceInv
  <2>5. QED
    BY <2>1, <2>4 DEF OnceInv
<1>2. ASSUME NEW e \in edges, Relax(e) PROVE OnceInv'
  BY <1>2 DEF Relax, OnceInv
<1>3. CASE EndLevel
  BY <1>3 DEF EndLevel, OnceInv
<1>4. CASE Finish
  <2>1. PICK rest \in Listings(Node \ visited) :
          levels' = IF rest # <<>> THEN Append(levels, rest) ELSE levels
    BY <1>4 DEF Finish
  <2>2. IsFiniteSet(Node \ visited)
    BY NodeAssumption, FS_Subset
  <2>3. /\ rest \in Seq(Node \ visited)
        /\ Elems(rest) = Node \ visited
        /\ \A i, j \in 1..Len(rest) : rest[i] = rest[j] => i = j
    BY <2>2, ListingFacts
  <2>4. rest \in Seq(Node)
    BY <2>3, SeqMonotonic
  <2>5. visited = UNION {Elems(levels[i]) : i \in 1..Len(levels)}
    BY <1>4 DEF Finish, IInv
  <2>6. \A i \in 1..Len(levels) : Elems(levels[i]) \cap Elems(rest) = {}
    BY <2>3, <2>5
  <2>7. Apart(levels')
    <3>1. Apart(Append(levels, rest))
      BY <1>0, <2>3, <2>4, <2>6, AppendApart DEF OnceInv
    <3>2. QED
      BY <2>1, <3>1 DEF OnceInv
  <2>8. ASSUME NEW n \in Node
        PROVE  \E i \in 1..Len(levels') : n \in Elems(levels'[i])
    <3>1. CASE n \in visited
      <4>1. PICK i \in 1..Len(levels) : n \in Elems(levels[i])
        BY <2>5, <3>1
      <4>2. /\ Len(levels) \in Nat
            /\ Len(Append(levels, rest)) = Len(levels) + 1
            /\ Append(levels, rest)[i] = levels[i]
        BY <1>0, <2>4, AppendProperties, LenProperties
      <4>3. i \in 1..Len(levels') /\ levels'[i] = levels[i]
        BY <2>1, <4>2
      <4>4. QED
        BY <4>1, <4>3
    <3>2. CASE n \notin visited
      <4>1. n \in Elems(rest)
        BY <2>3, <3>2
      <4>2. rest # <<>>
        BY <4>1 DEF Elems
      <4>3. /\ Len(levels) \in Nat
            /\ Len(Append(levels, rest)) = Len(levels) + 1
            /\ Append(levels, rest)[Len(levels) + 1] = rest
        BY <1>0, <2>4, AppendProperties, LenProperties
      <4>4. /\ Len(levels) + 1 \in 1..Len(levels')
            /\ levels'[Len(levels) + 1] = rest
        BY <2>1, <4>2, <4>3
      <4>5. QED
        BY <4>1, <4>4
    <3>3. QED
      BY <3>1, <3>2
  <2>9. \A n \in Node : \E i \in 1..Len(levels') : \E j \in 1..Len(levels'[i]) :
          levels'[i][j] = n
    BY <2>8 DEF Elems
  <2>10. QED
    BY <2>7, <2>9 DEF OnceInv
<1>5. CASE UNCHANGED vars
  BY <1>5 DEF vars, OnceInv
<1>6. QED
  BY <1>1, <1>2, <1>3, <1>4, <1>5 DEF Next

\* For every graph, cyclic ones included, every id is in one place of the levels
\* returned, and in no other (test.html:478).
THEOREM OnceTheorem == Spec => []ExactlyOnce
<1>1. Init => OnceInv
  <2> SUFFICES ASSUME Init PROVE OnceInv
    OBVIOUS
  <2>1. pc = "while" /\ Len(levels) = 0
    BY EmptySeq DEF Init
  <2>2. QED
    BY <2>1 DEF OnceInv, Apart
<1>2. OnceInv => ExactlyOnce
  <2> SUFFICES ASSUME OnceInv, pc = "done", NEW n \in Node
               PROVE  \E i \in 1..Len(levels) : \E j \in 1..Len(levels[i]) :
                        /\ levels[i][j] = n
                        /\ \A k \in 1..Len(levels) : \A l \in 1..Len(levels[k]) :
                             levels[k][l] = n => k = i /\ l = j
    BY DEF ExactlyOnce
  <2>1. PICK i \in 1..Len(levels) : \E j \in 1..Len(levels[i]) : levels[i][j] = n
    BY DEF OnceInv
  <2>2. PICK j \in 1..Len(levels[i]) : levels[i][j] = n
    BY <2>1
  <2>3. \A k \in 1..Len(levels) : \A l \in 1..Len(levels[k]) :
          levels[k][l] = n => k = i /\ l = j
    <3> SUFFICES ASSUME NEW k \in 1..Len(levels), NEW l \in 1..Len(levels[k]),
                        levels[k][l] = levels[i][j]
                 PROVE  k = i /\ l = j
      BY <2>2
    <3>1. Apart(levels)
      BY DEF OnceInv
    <3>2. QED
      BY <2>2, <3>1 DEF Apart
  <2>4. QED
    BY <2>2, <2>3
<1>3. QED
  BY <1>1, <1>2, StepOnceInv, LoopInvariant, PTL DEF Spec
=============================================================================
