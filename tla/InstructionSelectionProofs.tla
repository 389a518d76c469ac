--------------------- MODULE InstructionSelectionProofs ---------------------
(***************************************************************************)
(* The labelling pass finds the cheapest match of every label, for any     *)
(* trees and any tables of blocks that obey what TablesAssumption says of  *)
(* the guards the generator leaves out, and with it the cheapest cover of  *)
(* the whole tree; where the tables write out the chain rules              *)
(* (ChainsAssumption), a state is returned with everything its value can   *)
(* be copied into; with the tables of 06-dfa_x86.cpp a branch tests the    *)
(* flags as its comparison set them; and where blocks have mirror images   *)
(* (SwapsAssumption), the order of commutative operands is of no           *)
(* consequence.                                                            *)
(***************************************************************************)
EXTENDS InstructionSelection, TLAPS

LEMMA TableTyped ==
    ASSUME NEW t \in DOMAIN Trees, NEW i \in States(t)
    PROVE  /\ Table(t, i) \in Seq(Blocks)
           /\ \A j \in DOMAIN Table(t, i) : \A k \in DOMAIN Table(t, i)[j].to :
                 /\ k <= Table(t, i)[j].always => NeedsNoGuard(Table(t, i), j, k)
                 /\ Table(t, i)[j].known => RecordedAlways(Table(t, i), j, k)
BY TablesAssumption

\* A block of a table, and what one finds in it.
LEMMA BlockTyped ==
    ASSUME NEW t \in DOMAIN Trees, NEW i \in States(t), NEW j \in DOMAIN Table(t, i)
    PROVE  /\ j \in Nat \ {0}
           /\ Table(t, i)[j] \in Blocks
           /\ Table(t, i)[j].to \in Seq(STRING \X STRING \X Nat)
           /\ Table(t, i)[j].kids \in Seq(STRING)
           /\ Table(t, i)[j].cost \in Nat
           /\ Table(t, i)[j].always \in Nat
           /\ \A k \in DOMAIN Table(t, i)[j].to :
                 k \in Nat \ {0} /\ Table(t, i)[j].to[k][3] \in Nat
<1> DEFINE b == Table(t, i)[j]
<1>1. j \in Nat \ {0} /\ b \in Blocks
  BY TableTyped
<1>2. b.to \in Seq(STRING \X STRING \X Nat) /\ b.kids \in Seq(STRING)
      /\ b.cost \in Nat /\ b.always \in Nat
  BY <1>1 DEF Blocks
<1>3. ASSUME NEW k \in DOMAIN b.to PROVE k \in Nat \ {0} /\ b.to[k][3] \in Nat
  <2>1. k \in Nat \ {0} /\ b.to[k] \in STRING \X STRING \X Nat
    BY <1>2
  <2> QED BY <2>1
<1> QED BY <1>1, <1>2, <1>3

\* The kids of a state come before it.
LEMMA KidsBelow ==
    ASSUME NEW t \in DOMAIN Trees, NEW i \in States(t), NEW k \in DOMAIN Trees[t].kids[i]
    PROVE  /\ Trees[t].kids[i][k] \in 1 .. i - 1
           /\ Trees[t].kids[i][k] \in States(t)
<1>1. Trees[t].kids \in Seq(Seq(Nat)) /\ i \in 1 .. Len(Trees[t].kids)
  BY TreesAssumption DEF States
<1>2. Trees[t].kids[i][k] \in 1 .. i - 1
  BY TreesAssumption DEF States
<1> QED BY <1>1, <1>2 DEF States
-----------------------------------------------------------------------------
\* The labels that a match asks of the kids have a cost.
LEMMA KidCostIsNat ==
    ASSUME TypeOK, state \in States(tree),
           NEW j \in DOMAIN Table(tree, state),
           Applies(Table(tree, state)[j], tree, state, cost)
    PROVE  \A l \in {1, 2} : KidCost(Table(tree, state)[j], tree, state, cost, l) \in Nat
<1> DEFINE b == Table(tree, state)[j]
<1> SUFFICES ASSUME NEW l \in {1, 2}, l \in DOMAIN b.kids
             PROVE  cost[Trees[tree].kids[state][l]][b.kids[l]] \in Nat
  BY DEF KidCost
<1>1. /\ l \in DOMAIN Trees[tree].kids[state]
      /\ b.kids[l] \in DOMAIN cost[Trees[tree].kids[state][l]]
  BY DEF Applies
<1>2. Trees[tree].kids[state][l] \in States(tree)
  BY <1>1, KidsBelow DEF TypeOK
<1> QED BY <1>1, <1>2 DEF TypeOK

\* A match that applies has a price.
LEMMA PriceIsNat ==
    ASSUME TypeOK, state \in States(tree),
           NEW j \in DOMAIN Table(tree, state),
           Applies(Table(tree, state)[j], tree, state, cost),
           NEW k \in DOMAIN Table(tree, state)[j].to
    PROVE  /\ Price(Table(tree, state)[j], tree, state, cost, k) \in Nat
           /\ Price(Table(tree, state)[j], tree, state, cost, k)
              >= Table(tree, state)[j].cost + Table(tree, state)[j].to[k][3]
           /\ Table(tree, state)[j].kids = <<>> =>
              Price(Table(tree, state)[j], tree, state, cost, k)
              = Table(tree, state)[j].cost + Table(tree, state)[j].to[k][3]
<1> DEFINE b == Table(tree, state)[j]
<1>1. tree \in DOMAIN Trees
  BY DEF TypeOK
<1>2. b.cost \in Nat /\ b.to[k][3] \in Nat
  BY <1>1, BlockTyped
<1>3. \A l \in {1, 2} : KidCost(b, tree, state, cost, l) \in Nat
  BY KidCostIsNat
<1>4. b.kids = <<>> => \A l \in {1, 2} : KidCost(b, tree, state, cost, l) = 0
  BY DEF KidCost
<1>5. /\ KidCost(b, tree, state, cost, 1) \in Nat
      /\ KidCost(b, tree, state, cost, 2) \in Nat
  BY <1>3
<1>6. b.kids = <<>> => /\ KidCost(b, tree, state, cost, 1) = 0
                       /\ KidCost(b, tree, state, cost, 2) = 0
  BY <1>4
<1> DEFINE own == b.cost
           above == b.to[k][3]
           p == KidCost(b, tree, state, cost, 1)
           q == KidCost(b, tree, state, cost, 2)
<1>7. Price(b, tree, state, cost, k) = own + p + q + above
  BY DEF Price, MatchCost
<1>8. /\ own + p + q + above \in Nat /\ own + p + q + above >= own + above
      /\ p = 0 /\ q = 0 => own + p + q + above = own + above
  <2>1. own \in Nat /\ above \in Nat /\ p \in Nat /\ q \in Nat
    BY <1>2, <1>5
  <2> HIDE DEF own, above, p, q
  <2> QED BY <2>1
<1> QED BY <1>6, <1>7, <1>8

\* What a state matches depends on the labels of the states before it only.
LEMMA SameMatches ==
    ASSUME NEW t \in DOMAIN Trees, NEW i \in States(t), NEW j \in DOMAIN Table(t, i),
           NEW c, NEW d, \A m \in 1 .. i - 1 : c[m] = d[m]
    PROVE  /\ Applies(Table(t, i)[j], t, i, c) <=> Applies(Table(t, i)[j], t, i, d)
           /\ \A k \in DOMAIN Table(t, i)[j].to : Applies(Table(t, i)[j], t, i, c) =>
                 Price(Table(t, i)[j], t, i, c, k) = Price(Table(t, i)[j], t, i, d, k)
<1> DEFINE b == Table(t, i)[j]
<1>1. \A k \in DOMAIN Trees[t].kids[i] : c[Trees[t].kids[i][k]] = d[Trees[t].kids[i][k]]
  BY KidsBelow
<1>2. Applies(b, t, i, c) <=> Applies(b, t, i, d)
  BY <1>1 DEF Applies
<1>3. ASSUME Applies(b, t, i, c), NEW l
      PROVE  KidCost(b, t, i, c, l) = KidCost(b, t, i, d, l)
  BY <1>1, <1>3 DEF KidCost, Applies
<1>4. ASSUME Applies(b, t, i, c), NEW k
      PROVE  Price(b, t, i, c, k) = Price(b, t, i, d, k)
  BY <1>3, <1>4 DEF Price, MatchCost
<1> QED BY <1>2, <1>4
-----------------------------------------------------------------------------
THEOREM InitIInv == Init => IInv
<1> SUFFICES ASSUME Init PROVE IInv
  OBVIOUS
<1>1. Trees[tree].kids \in Seq(Seq(Nat)) /\ tree \in DOMAIN Trees
  BY TreesAssumption DEF Init
<1>2. TypeOK
  BY <1>1 DEF Init, TypeOK, States, NoLabels
<1>3. InBlock
  BY DEF Init, InBlock
<1>4. Recorded
  <2> SUFFICES ASSUME state \in States(tree),
                      NEW j \in DOMAIN Table(tree, state), Entered(Table(tree, state), j),
                      NEW k \in DOMAIN Table(tree, state)[j].to, Passed(j, k)
               PROVE  FALSE
    BY DEF Recorded
  <2>1. j \in Nat \ {0} /\ k \in Nat \ {0}
    BY <1>1, BlockTyped
  <2> QED BY <2>1 DEF Init, Passed, Before
<1>5. Justified
  BY DEF Init, Justified, NoLabels
<1>6. Unlabelled
  BY DEF Init, Unlabelled, NoLabels
<1> QED BY <1>2, <1>3, <1>4, <1>5, <1>6 DEF IInv

\* The production at hand is no dearer than any of the same label that was passed
\* when the code records it.
LEMMA NoDearer ==
    ASSUME IInv, state \in States(tree), block \in DOMAIN Table(tree, state),
           Applies(Table(tree, state)[block], tree, state, cost),
           prod \in DOMAIN Table(tree, state)[block].to,
           Improves(Table(tree, state)[block]),
           NEW j \in DOMAIN Table(tree, state), Entered(Table(tree, state), j),
           NEW k \in DOMAIN Table(tree, state)[j].to, Passed(j, k),
           Label(Table(tree, state)[j], k) = Label(Table(tree, state)[block], prod)
    PROVE  Price(Table(tree, state)[block], tree, state, cost, prod)
           <= Price(Table(tree, state)[j], tree, state, cost, k)
<1> DEFINE B == Table(tree, state)
           L == Label(B[block], prod)
           new == Price(B[block], tree, state, cost, prod)
           old == Price(B[j], tree, state, cost, k)
<1>1. TypeOK /\ tree \in DOMAIN Trees /\ Applies(B[j], tree, state, cost)
  BY DEF IInv, TypeOK, Entered
<1>2. new \in Nat /\ old \in Nat
  BY <1>1, PriceIsNat
<1>3. IsValid(L) /\ cost[state][L] \in Nat /\ cost[state][L] <= old
  BY <1>1 DEF IInv, Recorded, TypeOK, IsValid
<1>4. CASE prod <= B[block].always
  <2>1. NeedsNoGuard(B, block, prod)
    BY <1>1, <1>4, TableTyped
  <2>2. j \in 1 .. block
    BY <1>1, BlockTyped DEF Passed, Before
  <2>3. /\ B[block].kids = <<>>
        /\ B[block].cost + B[block].to[prod][3] <= B[j].cost + B[j].to[k][3]
    BY <2>1, <2>2 DEF NeedsNoGuard, Passed
  <2>4. /\ new = B[block].cost + B[block].to[prod][3]
        /\ old >= B[j].cost + B[j].to[k][3]
    BY <1>1, <2>3, PriceIsNat
  <2>5. /\ B[block].cost \in Nat /\ B[block].to[prod][3] \in Nat
        /\ B[j].cost \in Nat /\ B[j].to[k][3] \in Nat
    BY <1>1, BlockTyped
  <2> QED
    <3> HIDE DEF B, new, old
    <3>1. new <= old
      BY <1>2, <2>3, <2>4, <2>5
    <3> QED BY <3>1 DEF B, new, old
<1>5. CASE IsValid(L) /\ cost[state][L] > new
  <2> HIDE DEF L, new, old
  <2>1. new <= old
    BY <1>2, <1>3, <1>5
  <2> QED BY <2>1 DEF new, old
<1>6. CASE ~IsValid(L)
  BY <1>3, <1>6
<1> QED BY <1>4, <1>5, <1>6 DEF Improves
-----------------------------------------------------------------------------
\* A step that records nothing preserves the invariant if it moves on past
\* matches whose labels are valid at no higher cost already.
LEMMA PassOver ==
    ASSUME IInv, state \in States(tree), UNCHANGED <<tree, state, cost, rule>>,
           block' \in Nat \ {0}, prod' \in Nat \ {0}, InBlock',
           \A j \in DOMAIN Table(tree, state) : \A k \in DOMAIN Table(tree, state)[j].to :
              Applies(Table(tree, state)[j], tree, state, cost) =>
              /\ j <= block /\ Passed(j, k) => j <= block' /\ Passed(j, k)'
              /\ j <= block' /\ Passed(j, k)' =>
                 \/ j <= block /\ Passed(j, k)
                 \/ /\ IsValid(Label(Table(tree, state)[j], k))
                    /\ cost[state][Label(Table(tree, state)[j], k)]
                       <= Price(Table(tree, state)[j], tree, state, cost, k)
    PROVE  IInv'
<1> DEFINE B == Table(tree, state)
<1>1. TypeOK /\ Recorded /\ Justified /\ Unlabelled
  BY DEF IInv
<1>2. tree' = tree /\ state' = state /\ cost' = cost /\ rule' = rule
  OBVIOUS
<1>3. TypeOK'
  BY <1>1, <1>2 DEF TypeOK, States
<1>4. Recorded'
  <2> SUFFICES ASSUME NEW j \in DOMAIN B, Entered(B, j)',
                      NEW k \in DOMAIN B[j].to, Passed(j, k)'
               PROVE  /\ IsValid(Label(B[j], k))
                      /\ cost[state][Label(B[j], k)] <= Price(B[j], tree, state, cost, k)
    BY <1>2 DEF Recorded, IsValid, Price, MatchCost, KidCost
  <2>1. Applies(B[j], tree, state, cost) /\ j <= block'
    BY <1>2 DEF Entered
  <2>2. CASE j <= block /\ Passed(j, k)
    BY <1>1, <2>1, <2>2 DEF Recorded, Entered
  <2> QED BY <2>1, <2>2
<1>5. Justified'
  <2> SUFFICES ASSUME NEW nt \in DOMAIN cost[state]
               PROVE  (\E j \in DOMAIN B :
                         /\ Entered(B, j)
                         /\ \E k \in DOMAIN B[j].to :
                               /\ Passed(j, k)
                               /\ Label(B[j], k) = nt
                               /\ cost[state][nt] = Price(B[j], tree, state, cost, k)
                               /\ rule[state][nt] = RuleOf(B[j], k))'
    BY <1>2 DEF Justified
  <2>1. PICK j \in DOMAIN B :
           /\ Entered(B, j)
           /\ \E k \in DOMAIN B[j].to :
                 /\ Passed(j, k)
                 /\ Label(B[j], k) = nt
                 /\ cost[state][nt] = Price(B[j], tree, state, cost, k)
                 /\ rule[state][nt] = RuleOf(B[j], k)
    BY <1>1 DEF Justified
  <2>2. PICK k \in DOMAIN B[j].to :
           /\ Passed(j, k)
           /\ Label(B[j], k) = nt
           /\ cost[state][nt] = Price(B[j], tree, state, cost, k)
           /\ rule[state][nt] = RuleOf(B[j], k)
    BY <2>1
  <2>3. Applies(B[j], tree, state, cost) /\ j <= block' /\ Passed(j, k)'
    BY <2>1, <2>2 DEF Entered
  <2>4. Entered(B, j)'
    BY <1>2, <2>3 DEF Entered
  <2> QED BY <1>2, <2>2, <2>3, <2>4
<1>6. Unlabelled'
  BY <1>1, <1>2 DEF Unlabelled
<1> QED BY <1>3, <1>4, <1>5, <1>6 DEF IInv

LEMMA SkipIInv ==
    ASSUME IInv, state \in States(tree), block \in DOMAIN Table(tree, state),
           Skip(Table(tree, state)[block])
    PROVE  IInv'
<1> DEFINE B == Table(tree, state)
<1>1. tree \in DOMAIN Trees /\ block \in Nat \ {0} /\ prod \in Nat \ {0}
  BY DEF IInv, TypeOK
<1>2. /\ UNCHANGED <<tree, state, cost, rule>>
      /\ block' = block + 1 /\ prod' = prod
      /\ ~Applies(B[block], tree, state, cost)
  BY DEF Skip
<1>3. prod = 1
  BY <1>2 DEF IInv, InBlock
<1>4. InBlock'
  BY <1>2, <1>3 DEF InBlock
<1>5. ASSUME NEW j \in DOMAIN B, NEW k \in DOMAIN B[j].to,
             Applies(B[j], tree, state, cost)
      PROVE  /\ j <= block /\ Passed(j, k) => j <= block' /\ Passed(j, k)'
             /\ j <= block' /\ Passed(j, k)' => j <= block /\ Passed(j, k)
  <2>1. j \in Nat \ {0} /\ k \in Nat \ {0} /\ j # block
    BY <1>1, <1>2, <1>5, BlockTyped
  <2> QED BY <1>1, <1>2, <1>3, <2>1 DEF Passed, Before
<1>6. block' \in Nat \ {0} /\ prod' \in Nat \ {0}
  BY <1>1, <1>2
<1> QED BY <1>2, <1>4, <1>5, <1>6, PassOver

LEMMA PruneIInv ==
    ASSUME IInv, state \in States(tree), block \in DOMAIN Table(tree, state),
           Prune(Table(tree, state)[block])
    PROVE  IInv'
<1> DEFINE B == Table(tree, state)
           L == Label(B[block], prod)
<1>1. tree \in DOMAIN Trees /\ block \in Nat \ {0} /\ prod \in Nat \ {0}
  BY DEF IInv, TypeOK
<1>2. /\ UNCHANGED <<tree, state, cost, rule>>
      /\ block' = block /\ prod' = prod + 1
      /\ Applies(B[block], tree, state, cost) /\ prod \in DOMAIN B[block].to
  BY DEF Prune
<1>3. InBlock'
  <2>1. prod' - 1 = prod
    BY <1>1, <1>2
  <2> QED BY <1>2, <2>1 DEF InBlock, Applies, States, Table
\* What is known to be valid is: a block that always matches came before.
<1>4. IsValid(L)
  <2> SUFFICES ASSUME B[block].known PROVE IsValid(L)
    BY DEF Prune
  <2>1. PICK j \in 1 .. block - 1 :
           /\ B[j].when /\ B[j].kids = <<>>
           /\ \E l \in DOMAIN B[j].to : Label(B[j], l) = L
    BY <1>1, <1>2, TableTyped DEF RecordedAlways
  <2>2. PICK l \in DOMAIN B[j].to : Label(B[j], l) = L
    BY <2>1
  <2>3. B \in Seq(Blocks) /\ block \in 1 .. Len(B)
    BY <1>1, TableTyped
  <2>4. j \in DOMAIN B
    BY <2>3
  <2>5. Applies(B[j], tree, state, cost)
    BY <2>1 DEF Applies
  <2>6. j <= block /\ j < block
    BY <1>1
  <2>7. Entered(B, j) /\ Passed(j, l)
    BY <2>5, <2>6 DEF Entered, Passed, Before
  <2> QED BY <2>2, <2>4, <2>7 DEF IInv, Recorded
<1>5. cost[state][L] <= Price(B[block], tree, state, cost, prod)
  BY <1>4 DEF Prune
<1>6. ASSUME NEW j \in DOMAIN B, NEW k \in DOMAIN B[j].to,
             Applies(B[j], tree, state, cost)
      PROVE  /\ j <= block /\ Passed(j, k) => j <= block' /\ Passed(j, k)'
             /\ j <= block' /\ Passed(j, k)' =>
                (j <= block /\ Passed(j, k)) \/ (j = block /\ k = prod)
  <2>1. j \in Nat \ {0} /\ k \in Nat \ {0}
    BY <1>1, BlockTyped
  <2> QED BY <1>1, <1>2, <2>1 DEF Passed, Before
<1>7. block' \in Nat \ {0} /\ prod' \in Nat \ {0}
  BY <1>1, <1>2
<1> QED BY <1>2, <1>3, <1>4, <1>5, <1>6, <1>7, PassOver

LEMMA EndBlockIInv ==
    ASSUME IInv, state \in States(tree), block \in DOMAIN Table(tree, state),
           EndBlock(Table(tree, state)[block])
    PROVE  IInv'
<1> DEFINE B == Table(tree, state)
<1>1. tree \in DOMAIN Trees /\ block \in Nat \ {0} /\ prod \in Nat \ {0}
  BY DEF IInv, TypeOK
<1>2. /\ UNCHANGED <<tree, state, cost, rule>>
      /\ block' = block + 1 /\ prod' = 1
      /\ prod \notin DOMAIN B[block].to
  BY DEF EndBlock
<1>3. InBlock'
  BY <1>2 DEF InBlock
<1>4. \A k \in DOMAIN B[block].to : k < prod
  <2>1. B[block].to \in Seq(STRING \X STRING \X Nat)
    BY <1>1, BlockTyped
  <2>2. prod # 1 => prod - 1 \in DOMAIN B[block].to
    BY DEF IInv, InBlock
  <2> QED BY <1>1, <1>2, <2>1, <2>2
<1>5. ASSUME NEW j \in DOMAIN B, NEW k \in DOMAIN B[j].to,
             Applies(B[j], tree, state, cost)
      PROVE  /\ j <= block /\ Passed(j, k) => j <= block' /\ Passed(j, k)'
             /\ j <= block' /\ Passed(j, k)' => j <= block /\ Passed(j, k)
  <2>1. j \in Nat \ {0} /\ k \in Nat \ {0}
    BY <1>1, BlockTyped
  <2>2. j = block => k < prod
    BY <1>4
  <2> QED BY <1>1, <1>2, <2>1, <2>2 DEF Passed, Before
<1>6. block' \in Nat \ {0} /\ prod' \in Nat \ {0}
  BY <1>1, <1>2
<1> QED BY <1>2, <1>3, <1>5, <1>6, PassOver

LEMMA ReturnIInv ==
    ASSUME IInv, NextState
    PROVE  IInv'
<1>1. /\ tree \in DOMAIN Trees /\ state \in States(tree)
      /\ Trees[tree].kids \in Seq(Seq(Nat))
  BY TreesAssumption DEF IInv, TypeOK, NextState, AtReturn
<1>2. /\ tree' = tree /\ cost' = cost /\ rule' = rule
      /\ state' = state + 1 /\ block' = 1 /\ prod' = 1
  BY DEF NextState
<1>3. state \in Nat /\ state' \in 1 .. Len(Trees[tree].kids) + 1 /\ state' > state
  BY <1>1, <1>2 DEF States
<1>4. TypeOK'
  BY <1>2, <1>3 DEF IInv, TypeOK, States
<1>5. InBlock'
  BY <1>2 DEF InBlock
<1>6. Recorded'
  <2> SUFFICES ASSUME state' \in States(tree),
                      NEW j \in DOMAIN Table(tree, state'),
                      NEW k \in DOMAIN Table(tree, state')[j].to, Passed(j, k)'
               PROVE  FALSE
    BY <1>2 DEF Recorded
  <2>1. j \in Nat \ {0} /\ k \in Nat \ {0}
    BY <1>1, BlockTyped
  <2> QED BY <1>2, <2>1 DEF Passed, Before
<1>7. Justified'
  <2>1. state' \in States(tree) => DOMAIN cost[state'] = {}
    BY <1>3 DEF IInv, Unlabelled
  <2> QED BY <1>2, <2>1 DEF Justified
<1>8. Unlabelled'
  <2> SUFFICES ASSUME NEW i \in States(tree), i > state' PROVE DOMAIN cost[i] = {}
    BY <1>2 DEF Unlabelled
  <2>1. i > state
    BY <1>1, <1>2, <1>3 DEF States
  <2> QED BY <2>1 DEF IInv, Unlabelled
<1> QED BY <1>4, <1>5, <1>6, <1>7, <1>8 DEF IInv

LEMMA ProduceIInv ==
    ASSUME IInv, state \in States(tree), block \in DOMAIN Table(tree, state),
           Produce(Table(tree, state)[block])
    PROVE  IInv'
<1> DEFINE B == Table(tree, state)
           L == Label(B[block], prod)
           new == Price(B[block], tree, state, cost, prod)
<1>1. /\ tree \in DOMAIN Trees /\ block \in Nat \ {0} /\ prod \in Nat \ {0}
      /\ TypeOK /\ Recorded /\ Justified /\ Unlabelled
      /\ DOMAIN cost = States(tree) /\ DOMAIN rule = States(tree)
  BY DEF IInv, TypeOK
<1>2. /\ tree' = tree /\ state' = state /\ block' = block /\ prod' = prod + 1
      /\ cost' = [cost EXCEPT ![state] = With(@, L, new)]
      /\ rule' = [rule EXCEPT ![state] = With(@, L, RuleOf(B[block], prod))]
      /\ Applies(B[block], tree, state, cost) /\ prod \in DOMAIN B[block].to
      /\ Improves(B[block])
  BY DEF Produce
<1>3. new \in Nat
  BY <1>1, <1>2, PriceIsNat
\* The labels of the state, and of the others
<1>4. /\ DOMAIN cost'[state] = DOMAIN cost[state] \cup {L}
      /\ cost'[state][L] = new
      /\ \A nt \in DOMAIN cost[state] : nt # L => cost'[state][nt] = cost[state][nt]
  BY <1>1, <1>2 DEF With
<1>5. /\ DOMAIN rule'[state] = DOMAIN rule[state] \cup {L}
      /\ rule'[state][L] = RuleOf(B[block], prod)
      /\ \A nt \in DOMAIN rule[state] : nt # L => rule'[state][nt] = rule[state][nt]
  BY <1>1, <1>2 DEF With
<1>6. /\ DOMAIN cost' = States(tree) /\ DOMAIN rule' = States(tree)
      /\ \A i \in States(tree) : i # state => cost'[i] = cost[i] /\ rule'[i] = rule[i]
  BY <1>1, <1>2
\* The kids' labels are as before, and so is what matches.
<1>7. \A m \in 1 .. state - 1 : cost[m] = cost'[m]
  <2>1. Trees[tree].kids \in Seq(Seq(Nat))
    BY <1>1, TreesAssumption
  <2> QED BY <1>6, <2>1 DEF States
<1>8. \A j \in DOMAIN B :
         /\ Applies(B[j], tree, state, cost) <=> Applies(B[j], tree, state, cost')
         /\ \A k \in DOMAIN B[j].to : Applies(B[j], tree, state, cost) =>
               Price(B[j], tree, state, cost, k) = Price(B[j], tree, state, cost', k)
  BY <1>1, <1>7, SameMatches
<1>9. \A j \in DOMAIN B : Entered(B, j) <=> Entered(B, j)'
  <2> TAKE j \in DOMAIN B
  <2>1. tree' = tree /\ state' = state /\ block' = block
    BY <1>2
  <2>2. Applies(B[j], tree, state, cost) <=> Applies(B[j], tree, state, cost')
    BY <1>8
  <2> QED BY <2>1, <2>2 DEF Entered
<1>10. \A j \in DOMAIN B : \A k \in DOMAIN B[j].to :
          Passed(j, k)' <=> Passed(j, k) \/ (j = block /\ k = prod)
  <2> TAKE j \in DOMAIN B
  <2> TAKE k \in DOMAIN B[j].to
  <2>1. j \in Nat \ {0} /\ k \in Nat \ {0}
    BY <1>1, BlockTyped
  <2> QED BY <1>1, <1>2, <2>1 DEF Passed, Before
<1>11. TypeOK'
  <2>1. /\ tree' \in DOMAIN Trees /\ state' \in 1 .. Len(Trees[tree'].kids) + 1
        /\ block' \in Nat \ {0} /\ prod' \in Nat \ {0}
        /\ States(tree)' = States(tree)
    BY <1>1, <1>2 DEF TypeOK, States
  <2>2. ASSUME NEW i \in States(tree)
        PROVE  /\ DOMAIN rule'[i] = DOMAIN cost'[i]
               /\ \A nt \in DOMAIN cost'[i] : cost'[i][nt] \in Nat
    <3>1. /\ DOMAIN rule[i] = DOMAIN cost[i]
          /\ \A nt \in DOMAIN cost[i] : cost[i][nt] \in Nat
      BY <1>1 DEF TypeOK
    <3>2. CASE i # state
      BY <1>6, <3>1, <3>2
    <3>3. CASE i = state
      BY <1>3, <1>4, <1>5, <3>1, <3>3
    <3> QED BY <3>2, <3>3
  <2> QED BY <1>6, <2>1, <2>2 DEF TypeOK
<1>12. InBlock'
  <2>1. prod' - 1 = prod
    BY <1>1, <1>2
  <2> QED BY <1>2, <1>8, <2>1 DEF InBlock, States, Table
<1>13. Recorded'
  <2> SUFFICES ASSUME NEW j \in DOMAIN B, Entered(B, j)',
                      NEW k \in DOMAIN B[j].to, Passed(j, k)'
               PROVE  /\ Label(B[j], k) \in DOMAIN cost'[state]
                      /\ cost'[state][Label(B[j], k)] <= Price(B[j], tree, state, cost', k)
    BY <1>2 DEF Recorded, IsValid
  <2> DEFINE nt == Label(B[j], k)
             old == Price(B[j], tree, state, cost, k)
  <2>1. Entered(B, j) /\ Applies(B[j], tree, state, cost)
        /\ old = Price(B[j], tree, state, cost', k)
    BY <1>8, <1>9 DEF Entered
  <2>2. CASE Passed(j, k) /\ nt # L
    <3>1. nt \in DOMAIN cost[state] /\ cost[state][nt] <= old
      BY <1>1, <2>1, <2>2 DEF Recorded, IsValid
    <3> QED BY <1>4, <2>1, <2>2, <3>1
  <2>3. CASE Passed(j, k) /\ nt = L
    <3>1. new <= old
      BY <1>2, <2>1, <2>3, NoDearer
    <3> QED BY <1>4, <2>1, <2>3, <3>1
  <2>4. CASE j = block /\ k = prod
    <3>1. new <= new
      BY <1>3
    <3> QED BY <1>4, <2>1, <2>4, <3>1
  <2> QED BY <1>10, <2>2, <2>3, <2>4
<1>14. Justified'
  <2> SUFFICES ASSUME NEW nt \in DOMAIN cost'[state]
               PROVE  \E j \in DOMAIN B :
                         /\ Entered(B, j)'
                         /\ \E k \in DOMAIN B[j].to :
                               /\ Passed(j, k)'
                               /\ Label(B[j], k) = nt
                               /\ cost'[state][nt] = Price(B[j], tree, state, cost', k)
                               /\ rule'[state][nt] = RuleOf(B[j], k)
    <3>1. tree' = tree /\ state' = state
      BY <1>2
    <3> QED BY <3>1 DEF Justified
  <2>1. CASE nt = L
    <3>1. PICK p \in DOMAIN B : p = block
      OBVIOUS
    <3>2. PICK q \in DOMAIN B[p].to : q = prod
      BY <1>2, <3>1
    <3>3. Entered(B, p)
      BY <1>1, <1>2, <3>1 DEF Entered
    <3>4. Entered(B, p)' /\ Passed(p, q)'
      BY <1>9, <1>10, <3>1, <3>2, <3>3
    <3>5. Price(B[p], tree, state, cost', q) = new
      BY <1>2, <1>8, <3>1, <3>2
    <3>6. /\ Label(B[p], q) = nt
          /\ cost'[state][nt] = Price(B[p], tree, state, cost', q)
          /\ rule'[state][nt] = RuleOf(B[p], q)
      BY <1>4, <1>5, <2>1, <3>1, <3>2, <3>5
    <3> QED BY <3>4, <3>6
  <2>2. CASE nt # L
    <3>1. nt \in DOMAIN cost[state] /\ nt \in DOMAIN rule[state]
      BY <1>1, <1>4, <2>2 DEF TypeOK
    <3>2. PICK j \in DOMAIN B :
             /\ Entered(B, j)
             /\ \E k \in DOMAIN B[j].to :
                   /\ Passed(j, k)
                   /\ Label(B[j], k) = nt
                   /\ cost[state][nt] = Price(B[j], tree, state, cost, k)
                   /\ rule[state][nt] = RuleOf(B[j], k)
      BY <1>1, <3>1 DEF Justified
    <3>3. PICK k \in DOMAIN B[j].to :
             /\ Passed(j, k)
             /\ Label(B[j], k) = nt
             /\ cost[state][nt] = Price(B[j], tree, state, cost, k)
             /\ rule[state][nt] = RuleOf(B[j], k)
      BY <3>2
    <3>4. Entered(B, j)' /\ Passed(j, k)'
      BY <1>9, <1>10, <3>2, <3>3
    <3>5. Price(B[j], tree, state, cost, k) = Price(B[j], tree, state, cost', k)
      BY <1>8, <3>2 DEF Entered
    <3>6. /\ cost'[state][nt] = Price(B[j], tree, state, cost', k)
          /\ rule'[state][nt] = RuleOf(B[j], k)
      BY <1>4, <1>5, <2>2, <3>1, <3>3, <3>5
    <3> QED BY <3>3, <3>4, <3>6
  <2> QED BY <2>1, <2>2
<1>15. Unlabelled'
  <2> SUFFICES ASSUME NEW i \in States(tree), i > state PROVE DOMAIN cost'[i] = {}
    BY <1>2 DEF Unlabelled
  <2>1. i # state
    BY <1>1 DEF TypeOK
  <2> QED BY <1>1, <1>6, <2>1 DEF Unlabelled
<1> QED BY <1>11, <1>12, <1>13, <1>14, <1>15 DEF IInv
-----------------------------------------------------------------------------
\* Every step of the pass preserves the invariant.
THEOREM NextIInv == IInv /\ [Next]_vars => IInv'
<1> SUFFICES ASSUME IInv, [Next]_vars PROVE IInv'
  OBVIOUS
<1>1. CASE Evaluate
  <2>1. state \in States(tree) /\ block \in DOMAIN Table(tree, state)
    BY <1>1 DEF Evaluate
  <2>2. CASE Skip(Table(tree, state)[block])
    BY <2>1, <2>2, SkipIInv
  <2>3. CASE Produce(Table(tree, state)[block])
    BY <2>1, <2>3, ProduceIInv
  <2>4. CASE Prune(Table(tree, state)[block])
    BY <2>1, <2>4, PruneIInv
  <2>5. CASE EndBlock(Table(tree, state)[block])
    BY <2>1, <2>5, EndBlockIInv
  <2> QED BY <1>1, <2>2, <2>3, <2>4, <2>5 DEF Evaluate
<1>2. CASE NextState
  BY <1>2, ReturnIInv
<1>3. CASE UNCHANGED vars
  <2>1. UNCHANGED <<tree, state, block, prod, cost, rule>>
    BY <1>3 DEF vars
  <2>2. TypeOK'
    BY <2>1 DEF IInv, TypeOK, States
  <2>3. InBlock'
    BY <2>1 DEF IInv, InBlock
  <2>4. Unlabelled'
    BY <2>1 DEF IInv, Unlabelled
  <2>5. Recorded'
    BY <2>1 DEF IInv, Recorded, Entered, Passed, IsValid
  <2>6. Justified'
    BY <2>1 DEF IInv, Justified, Entered, Passed
  <2> QED BY <2>2, <2>3, <2>4, <2>5, <2>6 DEF IInv
<1> QED BY <1>1, <1>2, <1>3 DEF Next

\* When the code of a state has run, everything has been passed.
LEMMA AllPassed ==
    ASSUME TypeOK, AtReturn, NEW j \in DOMAIN Table(tree, state),
           Applies(Table(tree, state)[j], tree, state, cost)
    PROVE  /\ Entered(Table(tree, state), j)
           /\ \A k \in DOMAIN Table(tree, state)[j].to : Passed(j, k)
<1>1. tree \in DOMAIN Trees /\ state \in States(tree) /\ block \in Nat \ {0}
  BY DEF TypeOK, AtReturn
<1>2. Table(tree, state) \in Seq(Blocks) /\ block \notin DOMAIN Table(tree, state)
  BY <1>1, TableTyped DEF AtReturn
<1>3. j < block /\ j <= block
  BY <1>1, <1>2
<1> QED BY <1>3 DEF Entered, Passed, Before

\* The invariant is what LeastCost asks for.
THEOREM IInvLeastCost == IInv => LeastCost
<1> SUFFICES ASSUME IInv, AtReturn PROVE LeastCost
  BY DEF LeastCost
<1> DEFINE B == Table(tree, state)
<1>1. /\ state \in States(tree)
      /\ TypeOK /\ Recorded /\ Justified
  BY DEF IInv, AtReturn
<1>2. ASSUME NEW j \in DOMAIN B, Applies(B[j], tree, state, cost), NEW k \in DOMAIN B[j].to
      PROVE  /\ IsValid(Label(B[j], k))
             /\ cost[state][Label(B[j], k)] <= Price(B[j], tree, state, cost, k)
  <2>1. Entered(B, j) /\ Passed(j, k)
    BY <1>1, <1>2, AllPassed
  <2> QED BY <1>1, <2>1 DEF Recorded
<1>3. \A nt \in DOMAIN cost[state] : \E j \in DOMAIN B : \E k \in DOMAIN B[j].to :
         /\ Applies(B[j], tree, state, cost)
         /\ Label(B[j], k) = nt
         /\ cost[state][nt] = Price(B[j], tree, state, cost, k)
         /\ rule[state][nt] = RuleOf(B[j], k)
  BY <1>1 DEF Justified, Entered
<1> QED BY <1>2, <1>3 DEF LeastCost, BestLabels, IsValid
-----------------------------------------------------------------------------
\* At every point of the labelling pass, the labels of the state are those of the
\* matches before it, at the lowest of their costs.
THEOREM Invariance == Spec => []IInv
BY InitIInv, NextIInv, PTL DEF Spec

\* The types.
THEOREM TypeCorrect == Spec => []TypeOK
<1>1. IInv => TypeOK
  BY DEF IInv
<1> QED BY <1>1, Invariance, PTL

\* A state leaves DFA with the cheapest match of every label, for any match tree
\* and any tables.
THEOREM LabelsAreCheapest == Spec => []LeastCost
BY IInvLeastCost, Invariance, PTL
-----------------------------------------------------------------------------
\* A step changes the labels of the state it is at only, and leaves that state with
\* its cheapest matches.
LEMMA StepKeeps ==
    ASSUME IInv, [Next]_vars
    PROVE  /\ tree' = tree /\ tree \in DOMAIN Trees /\ state \in Nat \ {0}
           /\ \A i \in 1 .. state - 1 : i \in States(tree) /\ cost'[i] = cost[i] /\ rule'[i] = rule[i]
           /\ \/ state' = state
              \/ /\ state' = state + 1 /\ state \in States(tree) /\ BestLabels(state)
                 /\ cost' = cost /\ rule' = rule
<1>1. /\ tree \in DOMAIN Trees /\ Trees[tree].kids \in Seq(Seq(Nat))
      /\ state \in 1 .. Len(Trees[tree].kids) + 1
      /\ DOMAIN cost = States(tree) /\ DOMAIN rule = States(tree)
  BY TreesAssumption DEF IInv, TypeOK
<1>2. Len(Trees[tree].kids) \in Nat /\ States(tree) = 1 .. Len(Trees[tree].kids)
  BY <1>1 DEF States
<1>3. state \in Nat \ {0} /\ \A i \in 1 .. state - 1 : i \in States(tree) /\ i # state
  BY <1>1, <1>2
<1>4. CASE Evaluate
  <2>1. state \in States(tree)
    BY <1>4 DEF Evaluate
  <2>2. CASE UNCHANGED <<tree, state, cost, rule>>
    BY <1>1, <1>3, <2>2
  <2>3. CASE Produce(Table(tree, state)[block])
    BY <1>1, <1>3, <2>3 DEF Produce
  <2> QED BY <1>4, <2>2, <2>3 DEF Evaluate, Skip, Prune, EndBlock
<1>5. CASE NextState
  <2>1. LeastCost /\ AtReturn
    BY <1>5, IInvLeastCost DEF NextState
  <2> QED BY <1>1, <1>3, <1>5, <2>1 DEF NextState, LeastCost, AtReturn
<1>6. CASE UNCHANGED vars
  BY <1>1, <1>3, <1>6 DEF vars
<1> QED BY <1>4, <1>5, <1>6 DEF Next

\* What a state was returned with depends on no state above it.
LEMMA BestLabelsKept ==
    ASSUME NEW i \in States(tree), tree \in DOMAIN Trees, tree' = tree, BestLabels(i),
           \A m \in 1 .. i : cost'[m] = cost[m] /\ rule'[m] = rule[m]
    PROVE  BestLabels(i)'
<1> DEFINE B == Table(tree, i)
<1>1. i \in Nat \ {0}
  <2>1. Trees[tree].kids \in Seq(Seq(Nat))
    BY TreesAssumption
  <2> QED BY <2>1 DEF States
<1>2. cost'[i] = cost[i] /\ rule'[i] = rule[i]
  BY <1>1
<1>3. \A m \in 1 .. i - 1 : cost[m] = cost'[m]
  BY <1>1
<1>4. \A j \in DOMAIN B :
         /\ Applies(B[j], tree, i, cost) <=> Applies(B[j], tree, i, cost')
         /\ \A k \in DOMAIN B[j].to : Applies(B[j], tree, i, cost) =>
               Price(B[j], tree, i, cost, k) = Price(B[j], tree, i, cost', k)
  BY <1>3, SameMatches
<1>5. ASSUME NEW j \in DOMAIN B, Applies(B[j], tree, i, cost'), NEW k \in DOMAIN B[j].to
      PROVE  /\ Label(B[j], k) \in DOMAIN cost'[i]
             /\ cost'[i][Label(B[j], k)] <= Price(B[j], tree, i, cost', k)
  BY <1>2, <1>4, <1>5 DEF BestLabels
<1>6. ASSUME NEW nt \in DOMAIN cost'[i]
      PROVE  \E j \in DOMAIN B : \E k \in DOMAIN B[j].to :
                /\ Applies(B[j], tree, i, cost')
                /\ Label(B[j], k) = nt
                /\ cost'[i][nt] = Price(B[j], tree, i, cost', k)
                /\ rule'[i][nt] = RuleOf(B[j], k)
  <2>1. PICK j \in DOMAIN B : \E k \in DOMAIN B[j].to :
           /\ Applies(B[j], tree, i, cost)
           /\ Label(B[j], k) = nt
           /\ cost[i][nt] = Price(B[j], tree, i, cost, k)
           /\ rule[i][nt] = RuleOf(B[j], k)
    BY <1>2, <1>6 DEF BestLabels
  <2>2. PICK k \in DOMAIN B[j].to :
           /\ Applies(B[j], tree, i, cost)
           /\ Label(B[j], k) = nt
           /\ cost[i][nt] = Price(B[j], tree, i, cost, k)
           /\ rule[i][nt] = RuleOf(B[j], k)
    BY <2>1
  <2>3. /\ Applies(B[j], tree, i, cost')
        /\ Price(B[j], tree, i, cost, k) = Price(B[j], tree, i, cost', k)
    BY <1>4, <2>2
  <2> QED BY <1>2, <2>2, <2>3
<1>7. Table(tree, i)' = B
  BY DEF Table
<1> QED BY <1>5, <1>6, <1>7 DEF BestLabels

\* A state keeps the labels it was returned with, and they stay the cheapest.
THEOREM SettledTheorem == Spec => []Settled
<1>1. Init => Settled
  BY DEF Init, Settled
<1>2. IInv /\ Settled /\ [Next]_vars => Settled'
  <2> SUFFICES ASSUME IInv, Settled, [Next]_vars, NEW i \in 1 .. state' - 1
               PROVE  BestLabels(i)'
    BY DEF Settled
  <2>1. /\ tree' = tree /\ tree \in DOMAIN Trees /\ state \in Nat \ {0}
        /\ \A m \in 1 .. state - 1 : m \in States(tree) /\ cost'[m] = cost[m] /\ rule'[m] = rule[m]
        /\ \/ state' = state
           \/ /\ state' = state + 1 /\ state \in States(tree) /\ BestLabels(state)
              /\ cost' = cost /\ rule' = rule
    BY StepKeeps
  <2>2. CASE i \in 1 .. state - 1
    <3>1. BestLabels(i) /\ i \in States(tree)
      BY <2>1, <2>2 DEF Settled
    <3>2. \A m \in 1 .. i : cost'[m] = cost[m] /\ rule'[m] = rule[m]
      BY <2>1, <2>2
    <3> QED BY <2>1, <3>1, <3>2, BestLabelsKept
  <2>3. CASE i = state
    <3>1. state' = state + 1
      BY <2>1, <2>3
    <3>2. BestLabels(i) /\ i \in States(tree) /\ cost' = cost /\ rule' = rule
      BY <2>1, <2>3, <3>1
    <3> QED BY <2>1, <3>2, BestLabelsKept
  <2> QED BY <2>1, <2>2, <2>3
<1> QED BY <1>1, <1>2, Invariance, PTL DEF Spec
-----------------------------------------------------------------------------
\* A match costs no more where its kids' labels do.
LEMMA PriceMonotone ==
    ASSUME NEW t \in DOMAIN Trees, NEW i \in States(t), NEW j \in DOMAIN Table(t, i),
           NEW k \in DOMAIN Table(t, i)[j].to, NEW c, NEW d,
           Applies(Table(t, i)[j], t, i, d),
           \A m \in 1 .. i - 1 : \A nt \in DOMAIN d[m] :
              /\ d[m][nt] \in Nat /\ nt \in DOMAIN c[m]
              /\ c[m][nt] \in Nat /\ c[m][nt] <= d[m][nt]
    PROVE  /\ Applies(Table(t, i)[j], t, i, c)
           /\ Price(Table(t, i)[j], t, i, c, k) \in Nat
           /\ Price(Table(t, i)[j], t, i, c, k) <= Price(Table(t, i)[j], t, i, d, k)
<1> DEFINE b == Table(t, i)[j]
           own == b.cost
           above == b.to[k][3]
           c1 == KidCost(b, t, i, c, 1)
           c2 == KidCost(b, t, i, c, 2)
           d1 == KidCost(b, t, i, d, 1)
           d2 == KidCost(b, t, i, d, 2)
<1>1. \A q \in DOMAIN b.kids :
         /\ q \in DOMAIN Trees[t].kids[i]
         /\ Trees[t].kids[i][q] \in 1 .. i - 1
         /\ b.kids[q] \in DOMAIN d[Trees[t].kids[i][q]]
  BY KidsBelow DEF Applies
<1>2. Applies(b, t, i, c)
  BY <1>1 DEF Applies
<1>3. \A q \in {1, 2} : /\ KidCost(b, t, i, c, q) \in Nat /\ KidCost(b, t, i, d, q) \in Nat
                        /\ KidCost(b, t, i, c, q) <= KidCost(b, t, i, d, q)
  BY <1>1 DEF KidCost
<1>4. c1 \in Nat /\ c2 \in Nat /\ d1 \in Nat /\ d2 \in Nat /\ c1 <= d1 /\ c2 <= d2
  BY <1>3
<1>5. own \in Nat /\ above \in Nat
  BY BlockTyped
<1>6. /\ Price(b, t, i, c, k) = own + c1 + c2 + above
      /\ Price(b, t, i, d, k) = own + d1 + d2 + above
  BY DEF Price, MatchCost
<1>7. own + c1 + c2 + above \in Nat /\ own + c1 + c2 + above <= own + d1 + d2 + above
  <2> HIDE DEF own, above, c1, c2, d1, d2
  <2> QED BY <1>4, <1>5
<1> QED BY <1>2, <1>6, <1>7

\* The cheapest match at every state is the cheapest selection for the tree: no way
\* to choose matches for its nodes, however they depend on one another, gives a
\* label of a finished state for less than its cost.
THEOREM CheapestSelection ==
    ASSUME NEW CONSTANT d PROVE Spec => [](Labelling(tree, d) => NoCheaper(d))
<1>1. Init => NoCheaper(d)
  BY DEF Init, NoCheaper
<1>2. ASSUME IInv, [Next]_vars, Labelling(tree, d)' PROVE Labelling(tree, d)
  <2>1. tree' = tree
    BY <1>2, StepKeeps
  <2> QED BY <1>2, <2>1
<1>3. IInv /\ (Labelling(tree, d) => NoCheaper(d)) /\ [Next]_vars => (Labelling(tree, d) => NoCheaper(d))'
  <2> SUFFICES ASSUME IInv, Labelling(tree, d), NoCheaper(d), [Next]_vars,
                      NEW i \in 1 .. state' - 1, NEW nt \in DOMAIN d[i]
               PROVE  nt \in DOMAIN cost'[i] /\ cost'[i][nt] <= d[i][nt]
    BY <1>2 DEF NoCheaper
  <2>1. /\ tree \in DOMAIN Trees /\ state \in Nat \ {0}
        /\ \A m \in 1 .. state - 1 : m \in States(tree) /\ cost'[m] = cost[m] /\ rule'[m] = rule[m]
        /\ \/ state' = state
           \/ /\ state' = state + 1 /\ state \in States(tree) /\ BestLabels(state)
              /\ cost' = cost /\ rule' = rule
    BY StepKeeps
  <2>2. CASE i \in 1 .. state - 1
    BY <2>1, <2>2 DEF NoCheaper
  <2>3. CASE i = state
    <3> DEFINE B == Table(tree, i)
    <3>1. state' = state + 1
      BY <2>1, <2>3
    <3>2. i \in States(tree) /\ BestLabels(i) /\ cost' = cost
      BY <2>1, <2>3, <3>1
    <3>3. d[i][nt] \in Nat
      BY <3>2 DEF Labelling
    <3>4. PICK j \in DOMAIN B : \E k \in DOMAIN B[j].to :
             /\ Applies(B[j], tree, i, d)
             /\ Label(B[j], k) = nt
             /\ d[i][nt] = Price(B[j], tree, i, d, k)
      BY <3>2 DEF Labelling
    <3>5. PICK k \in DOMAIN B[j].to :
             /\ Applies(B[j], tree, i, d)
             /\ Label(B[j], k) = nt
             /\ d[i][nt] = Price(B[j], tree, i, d, k)
      BY <3>4
    <3>6. ASSUME NEW m \in 1 .. i - 1, NEW l \in DOMAIN d[m]
          PROVE  /\ d[m][l] \in Nat /\ l \in DOMAIN cost[m]
                 /\ cost[m][l] \in Nat /\ cost[m][l] <= d[m][l]
      BY <2>1, <2>3 DEF NoCheaper, Labelling, IInv, TypeOK
    <3>7. /\ Applies(B[j], tree, i, cost)
          /\ Price(B[j], tree, i, cost, k) \in Nat
          /\ Price(B[j], tree, i, cost, k) <= d[i][nt]
      BY <2>1, <3>2, <3>5, <3>6, PriceMonotone
    <3>8. nt \in DOMAIN cost[i] /\ cost[i][nt] <= Price(B[j], tree, i, cost, k)
      BY <3>2, <3>5, <3>7 DEF BestLabels
    <3>9. cost[i][nt] \in Nat
      BY <3>2, <3>8 DEF IInv, TypeOK
    <3>10. cost[i][nt] <= d[i][nt]
      <4> HIDE DEF B
      <4> QED BY <3>3, <3>7, <3>8, <3>9
    <3> QED BY <3>2, <3>8, <3>10
  <2> QED BY <2>1, <2>2, <2>3
<1> QED BY <1>1, <1>3, Invariance, PTL DEF Spec

\* And it is one of these ways: when the whole tree is labelled, every cost is what
\* the matches recorded for the label and for those it takes from the kids add up to.
THEOREM CostsAreAttained == Spec => [](state \notin States(tree) => Labelling(tree, cost))
<1>1. IInv /\ Settled => (state \notin States(tree) => Labelling(tree, cost))
  <2> SUFFICES ASSUME IInv, Settled, state \notin States(tree)
               PROVE  Labelling(tree, cost)
    OBVIOUS
  <2>1. TypeOK /\ Trees[tree].kids \in Seq(Seq(Nat))
    BY TreesAssumption DEF IInv, TypeOK
  <2>2. ASSUME NEW i \in States(tree) PROVE BestLabels(i)
    <3>1. i \in 1 .. state - 1
      BY <2>1 DEF TypeOK, States
    <3> QED BY <3>1 DEF Settled
  <2> QED BY <2>1, <2>2 DEF Labelling, TypeOK, BestLabels
<1> QED BY <1>1, Invariance, SettledTheorem, PTL
-----------------------------------------------------------------------------
\* The costs of the chain rules.
LEMMA ChainCosts == ASSUME NEW r \in ChainRules PROVE r[3] \in Nat
<1> DEFINE copies == UNION {UNION {{<<c, s, 0>>, <<s, c, 0>>} : s \in Subclasses[c]} :
                            c \in DOMAIN Subclasses}
           spills == UNION {{<<s[1], s[2], 100>>, <<s[2], s[1], 125>>} : s \in Spills}
           floatSpills == {<<"REGF", "STACKSLOTF", 95>>, <<"STACKSLOTF", "REGF", 125>>,
                           <<"REGD", "STACKSLOTD", 95>>, <<"STACKSLOTD", "REGD", 125>>}
           floatCopies == UNION {{<<c[1], c[2], 100>>, <<c[2], c[1], 100>>} : c \in FloatCopies}
           vectors == {<<"VEC", "LEGVEC", 100>>, <<"LEGVEC", "VEC", 100>>}
           pointers == {<<"RREGN", "RAX_REGN", 0>>, <<"RREGP", "INDIRECT", 0>>,
                        <<"INDIRECT", "MEMORY", 0>>}
           offsets == UNION {{<<a, "MEMORY", 0>>, <<a, "RREGP", 110>>} : a \in Offsets32}
           indexes == {<<a, "MEMORY", 0>> : a \in {"INDINDEX", "INDINDEXNARROW", "INDIRECTNARROW"}}
<1>1. ChainRules = copies \cup spills \cup floatSpills \cup floatCopies \cup vectors
                   \cup pointers \cup offsets \cup indexes \cup Constants
  BY DEF ChainRules
<1>2. r \in copies \cup spills => r[3] \in Nat
  OBVIOUS
<1>3. r \in floatSpills \cup floatCopies => r[3] \in Nat
  OBVIOUS
<1>4. r \in vectors \cup pointers => r[3] \in Nat
  OBVIOUS
<1>5. r \in offsets \cup indexes => r[3] \in Nat
  OBVIOUS
<1>6. r \in Constants => r[3] \in Nat
  BY DEF Constants
<1> HIDE DEF copies, spills, floatSpills, floatCopies, vectors, pointers, offsets, indexes
<1> QED BY <1>1, <1>2, <1>3, <1>4, <1>5, <1>6

\* A block that covers a match matches too, at no more than the chain costs.
LEMMA CoveringMatch ==
    ASSUME TypeOK, state \in States(tree), NEW r \in ChainRules,
           NEW i \in DOMAIN Table(tree, state), NEW j \in DOMAIN Table(tree, state),
           NEW l \in DOMAIN Table(tree, state)[i].to, NEW k \in DOMAIN Table(tree, state)[j].to,
           Covers(Table(tree, state)[i], l, Table(tree, state)[j], k, r),
           Applies(Table(tree, state)[j], tree, state, cost)
    PROVE  /\ Applies(Table(tree, state)[i], tree, state, cost)
           /\ Price(Table(tree, state)[i], tree, state, cost, l)
              <= Price(Table(tree, state)[j], tree, state, cost, k) + r[3]
<1> DEFINE to == Table(tree, state)[i]
           from == Table(tree, state)[j]
           fromCost == from.cost + from.to[k][3]
           toCost == to.cost + to.to[l][3]
           chain == r[3]
           fromPrice == Price(from, tree, state, cost, k)
           toPrice == Price(to, tree, state, cost, l)
<1>1. tree \in DOMAIN Trees
  BY DEF TypeOK
<1>2. Applies(to, tree, state, cost)
  BY DEF Applies, Covers
<1>3. /\ to.cost \in Nat /\ to.to[l][3] \in Nat
      /\ from.cost \in Nat /\ from.to[k][3] \in Nat /\ r[3] \in Nat
  BY <1>1, BlockTyped, ChainCosts
<1>4. /\ toCost \in Nat /\ fromCost \in Nat /\ chain \in Nat
      /\ toCost <= fromCost + chain
  BY <1>3 DEF Covers
<1>5. toPrice \in Nat /\ fromPrice \in Nat /\ fromPrice >= fromCost
  BY <1>2, PriceIsNat
<1>6. CASE to.kids = <<>>
  <2>1. toPrice = toCost
    BY <1>2, <1>6, PriceIsNat
  <2> QED
    <3> HIDE DEF toPrice, fromPrice, toCost, fromCost, chain
    <3>1. toPrice <= fromPrice + chain
      BY <1>4, <1>5, <2>1
    <3> QED BY <1>2, <3>1 DEF to, toPrice, fromPrice, chain
<1>7. CASE to.kids = from.kids
  <2>1. \A q \in {1, 2} : KidCost(to, tree, state, cost, q) = KidCost(from, tree, state, cost, q)
    BY <1>7 DEF KidCost
  <2>2. \A q \in {1, 2} : KidCost(from, tree, state, cost, q) \in Nat
    BY KidCostIsNat
  <2> DEFINE kid1 == KidCost(from, tree, state, cost, 1)
             kid2 == KidCost(from, tree, state, cost, 2)
  <2>3. kid1 \in Nat /\ kid2 \in Nat
    BY <2>2
  <2>4. /\ toPrice = to.cost + kid1 + kid2 + to.to[l][3]
        /\ fromPrice = from.cost + kid1 + kid2 + from.to[k][3]
    BY <2>1 DEF Price, MatchCost
  <2>5. toPrice = toCost + (kid1 + kid2) /\ fromPrice = fromCost + (kid1 + kid2)
    <3> HIDE DEF to, from, kid1, kid2, toPrice, fromPrice
    <3> QED BY <1>3, <2>3, <2>4
  <2> QED
    <3> HIDE DEF kid1, kid2, toPrice, fromPrice, toCost, fromCost, chain
    <3>1. toPrice <= fromPrice + chain
      BY <1>4, <2>3, <2>5
    <3> QED BY <1>2, <3>1 DEF to, toPrice, fromPrice, chain
<1> QED BY <1>2, <1>6, <1>7 DEF Covers

\* What a state's value can be copied, loaded or spilled into is valid, at no more
\* than that costs, whichever match won each of the labels.
THEOREM ChainsTheorem == Spec => []ClosedUnderChains
<1>1. IInv => ClosedUnderChains
  <2> SUFFICES ASSUME IInv, AtReturn, NEW r \in ChainRules, r[1] \in Valid
               PROVE  r[2] \in Valid /\ cost[state][r[2]] <= cost[state][r[1]] + r[3]
    BY DEF ClosedUnderChains
  <2> DEFINE B == Table(tree, state)
  <2>1. TypeOK /\ tree \in DOMAIN Trees /\ state \in States(tree) /\ LeastCost
    BY IInvLeastCost DEF IInv, TypeOK, AtReturn
  <2>2. PICK j \in DOMAIN B : \E k \in DOMAIN B[j].to :
           /\ Applies(B[j], tree, state, cost)
           /\ Label(B[j], k) = r[1]
           /\ cost[state][r[1]] = Price(B[j], tree, state, cost, k)
    BY <2>1 DEF LeastCost, BestLabels, Valid
  <2>3. PICK k \in DOMAIN B[j].to :
           /\ Applies(B[j], tree, state, cost)
           /\ Label(B[j], k) = r[1]
           /\ cost[state][r[1]] = Price(B[j], tree, state, cost, k)
    BY <2>2
  <2>4. B \in UNION {{Table(t, i) : i \in States(t)} : t \in DOMAIN Trees}
    BY <2>1
  <2>5. B[j].when
    BY <2>3 DEF Applies
  <2>6. PICK i \in DOMAIN B : \E l \in DOMAIN B[i].to : Covers(B[i], l, B[j], k, r)
    BY <2>3, <2>4, <2>5, ChainsAssumption
  <2>7. PICK l \in DOMAIN B[i].to : Covers(B[i], l, B[j], k, r)
    BY <2>6
  <2>8. /\ Applies(B[i], tree, state, cost) /\ Label(B[i], l) = r[2]
        /\ Price(B[i], tree, state, cost, l) <= Price(B[j], tree, state, cost, k) + r[3]
    BY <2>1, <2>3, <2>7, CoveringMatch DEF Covers
  <2>9. IsValid(r[2]) /\ cost[state][r[2]] <= Price(B[i], tree, state, cost, l)
    BY <2>1, <2>8 DEF LeastCost, BestLabels, IsValid
  <2>10. /\ r[2] \in Valid /\ cost[state][r[2]] \in Nat /\ cost[state][r[1]] \in Nat
         /\ Price(B[i], tree, state, cost, l) \in Nat /\ r[3] \in Nat
    BY <2>1, <2>8, <2>9, PriceIsNat, ChainCosts DEF IsValid, Valid, TypeOK
  <2> QED
    <3> HIDE DEF B
    <3> QED BY <2>3, <2>8, <2>9, <2>10
<1> QED BY <1>1, Invariance, PTL
-----------------------------------------------------------------------------
(***************************************************************************)
(* What DFACompare's tables say of conditions: which pairs of a test and   *)
(* flags the blocks of branches and conditional moves ask for, and what    *)
(* they then know of the Bool and of the comparison.                       *)
(***************************************************************************)
Conditions == {<<"CMPOP", "RFLAGSREG">>, <<"CMPOPU", "RFLAGSREGU">>,
               <<"CMPOPUCF", "RFLAGSREGUCF">>, <<"CMPOPUCF2", "RFLAGSREGUCF">>}

\* The label of the Binary node that pairs them
Paired(nt) ==
    CASE nt = "_BINARY_CMPOP_RFLAGSREG" -> <<"CMPOP", "RFLAGSREG">>
      [] nt = "_BINARY_CMPOPU_RFLAGSREGU" -> <<"CMPOPU", "RFLAGSREGU">>
      [] nt = "_BINARY_CMPOPUCF_RFLAGSREGUCF" -> <<"CMPOPUCF", "RFLAGSREGUCF">>
      [] nt = "_BINARY_CMPOPUCF2_RFLAGSREGUCF" -> <<"CMPOPUCF2", "RFLAGSREGUCF">>
      [] OTHER -> <<>>

TestsFlags(blk) == blk.kids \in Conditions
TestsPair(blk) == 1 \in DOMAIN blk.kids /\ Paired(blk.kids[1]) \in Conditions
KeepsPair(blk) ==
    \A k \in DOMAIN blk.to :
        Paired(Label(blk, k)) \in Conditions => blk.kids = Paired(Label(blk, k))

Elements(s) == {s[j] : j \in DOMAIN s}

\* A table written out, or put together from parts, has no blocks but these.
LEMMA Listed ==
    ASSUME NEW s, NEW N \in Nat, DOMAIN s = 1 .. N, s = [i \in 1 .. N |-> s[i]],
           NEW S, \A i \in 1 .. N : s[i] \in S
    PROVE  s \in Seq(S)
OBVIOUS

\* A Binary node keeps what it pairs.
LEMMA InnerKeepsPair ==
    ASSUME NEW kids, NEW nt,
           nt = "_BINARY_CMPOP_RFLAGSREG" => kids = <<"CMPOP", "RFLAGSREG">>,
           nt = "_BINARY_CMPOPU_RFLAGSREGU" => kids = <<"CMPOPU", "RFLAGSREGU">>,
           nt = "_BINARY_CMPOPUCF_RFLAGSREGUCF" => kids = <<"CMPOPUCF", "RFLAGSREGUCF">>,
           nt = "_BINARY_CMPOPUCF2_RFLAGSREGUCF" => kids = <<"CMPOPUCF2", "RFLAGSREGUCF">>
    PROVE  KeepsPair(Inner(kids, nt))
<1>1. Inner(kids, nt).kids = kids /\ Inner(kids, nt).to = << <<nt, Own, 0>> >>
  BY DEF Inner, First, One, Match
<1>2. Paired(nt) \in Conditions => kids = Paired(nt)
  BY DEF Paired, Conditions
<1> QED BY <1>1, <1>2 DEF KeepsPair, Label

\* Which pairs the blocks of a branch ask for
LEMMA BranchTable ==
    ASSUME NEW vm, NEW n
    PROVE  /\ \A j \in DOMAIN If(vm, n) : TestsFlags(If(vm, n)[j])
           /\ \A j \in DOMAIN CountedLoopEnd(vm, n) : TestsFlags(CountedLoopEnd(vm, n)[j])
BY DEF If, CountedLoopEnd, First, Rule, Match, TestsFlags, Conditions

\* The tables of the conditional moves, part by part
LEMMA CMoveITable ==
    ASSUME NEW vm, NEW n, NEW j \in DOMAIN CMoveI(vm, n)
    PROVE  TestsPair(CMoveI(vm, n)[j])
<1> DEFINE p1 == CMoveI_cmovI_rReg_rReg_memUCF_ndd(vm, n)
           p2 == CMoveI_cmovI_rReg_rReg_mem_ndd(vm, n)
           p3 == CMoveI_cmovI_regUCF2_ne_ndd(vm, n)
           p4 == CMoveI_cmovI_imm_01UCF(vm, n)
           p5 == CMoveI_cmovI_reg_ndd(vm, n)
           Blks == {b \in Elements(p1) \cup Elements(p2) \cup Elements(p3) \cup Elements(p4)
                           \cup Elements(p5) : TestsPair(b)}
<1>1. p1 \in Seq(Blks)
  <2>1. DOMAIN p1 = 1 .. 4 /\ p1 = [i \in 1 .. 4 |-> p1[i]]
    BY DEF CMoveI_cmovI_rReg_rReg_memUCF_ndd
  <2>2. \A i \in 1 .. 4 : TestsPair(p1[i])
    BY DEF CMoveI_cmovI_rReg_rReg_memUCF_ndd, First, Rule, Match,
           TestsPair, Paired, Conditions
  <2> QED BY <2>1, <2>2, Listed DEF Elements
<1>2. p2 \in Seq(Blks)
  <2>1. DOMAIN p2 = 1 .. 4 /\ p2 = [i \in 1 .. 4 |-> p2[i]]
    BY DEF CMoveI_cmovI_rReg_rReg_mem_ndd
  <2>2. \A i \in 1 .. 4 : TestsPair(p2[i])
    BY DEF CMoveI_cmovI_rReg_rReg_mem_ndd, First, Rule, Match,
           TestsPair, Paired, Conditions
  <2> QED BY <2>1, <2>2, Listed DEF Elements
<1>3. p3 \in Seq(Blks)
  <2>1. DOMAIN p3 = 1 .. 4 /\ p3 = [i \in 1 .. 4 |-> p3[i]]
    BY DEF CMoveI_cmovI_regUCF2_ne_ndd
  <2>2. \A i \in 1 .. 4 : TestsPair(p3[i])
    BY DEF CMoveI_cmovI_regUCF2_ne_ndd, First, Rule, Match,
           TestsPair, Paired, Conditions
  <2> QED BY <2>1, <2>2, Listed DEF Elements
<1>4. p4 \in Seq(Blks)
  <2>1. DOMAIN p4 = 1 .. 4 /\ p4 = [i \in 1 .. 4 |-> p4[i]]
    BY DEF CMoveI_cmovI_imm_01UCF
  <2>2. \A i \in 1 .. 4 : TestsPair(p4[i])
    BY DEF CMoveI_cmovI_imm_01UCF, First, Rule, Match,
           TestsPair, Paired, Conditions
  <2> QED BY <2>1, <2>2, Listed DEF Elements
<1>5. p5 \in Seq(Blks)
  <2>1. DOMAIN p5 = 1 .. 3 /\ p5 = [i \in 1 .. 3 |-> p5[i]]
    BY DEF CMoveI_cmovI_reg_ndd
  <2>2. \A i \in 1 .. 3 : TestsPair(p5[i])
    BY DEF CMoveI_cmovI_reg_ndd, First, Rule, Match,
           TestsPair, Paired, Conditions
  <2> QED BY <2>1, <2>2, Listed DEF Elements
<1>6. CMoveI(vm, n) = p1 \o p2 \o p3 \o p4 \o p5
  BY DEF CMoveI
<1>7. CMoveI(vm, n) \in Seq(Blks)
  <2> HIDE DEF Blks, p1, p2, p3, p4, p5
  <2> QED BY <1>1, <1>2, <1>3, <1>4, <1>5, <1>6
<1>8. CMoveI(vm, n)[j] \in Blks
  <2> HIDE DEF Blks, p1, p2, p3, p4, p5
  <2> QED BY <1>7
<1> QED BY <1>8

LEMMA CMoveLTable ==
    ASSUME NEW vm, NEW n, NEW j \in DOMAIN CMoveL(vm, n)
    PROVE  TestsPair(CMoveL(vm, n)[j])
<1> DEFINE p1 == CMoveL_cmovL_rReg_rReg_memUCF_ndd(vm, n)
           p2 == CMoveL_cmovL_regUCF2_eq(vm, n)
           p3 == CMoveL_cmovL_regUCF(vm, n)
           p4 == CMoveL_cmovL_imm_01U(vm, n)
           p5 == CMoveL_cmovL_reg(vm, n)
           Blks == {b \in Elements(p1) \cup Elements(p2) \cup Elements(p3) \cup Elements(p4)
                           \cup Elements(p5) : TestsPair(b)}
<1>1. p1 \in Seq(Blks)
  <2>1. DOMAIN p1 = 1 .. 5 /\ p1 = [i \in 1 .. 5 |-> p1[i]]
    BY DEF CMoveL_cmovL_rReg_rReg_memUCF_ndd
  <2>2. \A i \in 1 .. 5 : TestsPair(p1[i])
    BY DEF CMoveL_cmovL_rReg_rReg_memUCF_ndd, First, Rule, Match,
           TestsPair, Paired, Conditions
  <2> QED BY <2>1, <2>2, Listed DEF Elements
<1>2. p2 \in Seq(Blks)
  <2>1. DOMAIN p2 = 1 .. 4 /\ p2 = [i \in 1 .. 4 |-> p2[i]]
    BY DEF CMoveL_cmovL_regUCF2_eq
  <2>2. \A i \in 1 .. 4 : TestsPair(p2[i])
    BY DEF CMoveL_cmovL_regUCF2_eq, First, Rule, Match,
           TestsPair, Paired, Conditions
  <2> QED BY <2>1, <2>2, Listed DEF Elements
<1>3. p3 \in Seq(Blks)
  <2>1. DOMAIN p3 = 1 .. 4 /\ p3 = [i \in 1 .. 4 |-> p3[i]]
    BY DEF CMoveL_cmovL_regUCF
  <2>2. \A i \in 1 .. 4 : TestsPair(p3[i])
    BY DEF CMoveL_cmovL_regUCF, First, Rule, Match,
           TestsPair, Paired, Conditions
  <2> QED BY <2>1, <2>2, Listed DEF Elements
<1>4. p4 \in Seq(Blks)
  <2>1. DOMAIN p4 = 1 .. 4 /\ p4 = [i \in 1 .. 4 |-> p4[i]]
    BY DEF CMoveL_cmovL_imm_01U
  <2>2. \A i \in 1 .. 4 : TestsPair(p4[i])
    BY DEF CMoveL_cmovL_imm_01U, First, Rule, Match,
           TestsPair, Paired, Conditions
  <2> QED BY <2>1, <2>2, Listed DEF Elements
<1>5. p5 \in Seq(Blks)
  <2>1. DOMAIN p5 = 1 .. 2 /\ p5 = [i \in 1 .. 2 |-> p5[i]]
    BY DEF CMoveL_cmovL_reg
  <2>2. \A i \in 1 .. 2 : TestsPair(p5[i])
    BY DEF CMoveL_cmovL_reg, First, Rule, Match,
           TestsPair, Paired, Conditions
  <2> QED BY <2>1, <2>2, Listed DEF Elements
<1>6. CMoveL(vm, n) = p1 \o p2 \o p3 \o p4 \o p5
  BY DEF CMoveL
<1>7. CMoveL(vm, n) \in Seq(Blks)
  <2> HIDE DEF Blks, p1, p2, p3, p4, p5
  <2> QED BY <1>1, <1>2, <1>3, <1>4, <1>5, <1>6
<1>8. CMoveL(vm, n)[j] \in Blks
  <2> HIDE DEF Blks, p1, p2, p3, p4, p5
  <2> QED BY <1>7
<1> QED BY <1>8

LEMMA CMovePTable ==
    ASSUME NEW vm, NEW n, NEW j \in DOMAIN CMoveP(vm, n)
    PROVE  TestsPair(CMoveP(vm, n)[j])
<1> DEFINE p1 == CMoveP_cmovP_regUCF2_eq_ndd(vm, n)
           p2 == CMoveP_cmovP_regUCF2_ne(vm, n)
           p3 == CMoveP_cmovP_regU_ndd(vm, n)
           p4 == CMoveP_cmovP_reg(vm, n)
           Blks == {b \in Elements(p1) \cup Elements(p2) \cup Elements(p3) \cup Elements(p4) :
                       TestsPair(b)}
<1>1. p1 \in Seq(Blks)
  <2>1. DOMAIN p1 = 1 .. 3 /\ p1 = [i \in 1 .. 3 |-> p1[i]]
    BY DEF CMoveP_cmovP_regUCF2_eq_ndd
  <2>2. \A i \in 1 .. 3 : TestsPair(p1[i])
    BY DEF CMoveP_cmovP_regUCF2_eq_ndd, First, Rule, Match,
           TestsPair, Paired, Conditions
  <2> QED BY <2>1, <2>2, Listed DEF Elements
<1>2. p2 \in Seq(Blks)
  <2>1. DOMAIN p2 = 1 .. 3 /\ p2 = [i \in 1 .. 3 |-> p2[i]]
    BY DEF CMoveP_cmovP_regUCF2_ne
  <2>2. \A i \in 1 .. 3 : TestsPair(p2[i])
    BY DEF CMoveP_cmovP_regUCF2_ne, First, Rule, Match,
           TestsPair, Paired, Conditions
  <2> QED BY <2>1, <2>2, Listed DEF Elements
<1>3. p3 \in Seq(Blks)
  <2>1. DOMAIN p3 = 1 .. 3 /\ p3 = [i \in 1 .. 3 |-> p3[i]]
    BY DEF CMoveP_cmovP_regU_ndd
  <2>2. \A i \in 1 .. 3 : TestsPair(p3[i])
    BY DEF CMoveP_cmovP_regU_ndd, First, Rule, Match,
           TestsPair, Paired, Conditions
  <2> QED BY <2>1, <2>2, Listed DEF Elements
<1>4. p4 \in Seq(Blks)
  <2>1. DOMAIN p4 = 1 .. 1 /\ p4 = [i \in 1 .. 1 |-> p4[i]]
    BY DEF CMoveP_cmovP_reg
  <2>2. \A i \in 1 .. 1 : TestsPair(p4[i])
    BY DEF CMoveP_cmovP_reg, First, Rule, Match,
           TestsPair, Paired, Conditions
  <2> QED BY <2>1, <2>2, Listed DEF Elements
<1>5. CMoveP(vm, n) = p1 \o p2 \o p3 \o p4
  BY DEF CMoveP
<1>6. CMoveP(vm, n) \in Seq(Blks)
  <2> HIDE DEF Blks, p1, p2, p3, p4
  <2> QED BY <1>1, <1>2, <1>3, <1>4, <1>5
<1>7. CMoveP(vm, n)[j] \in Blks
  <2> HIDE DEF Blks, p1, p2, p3, p4
  <2> QED BY <1>6
<1> QED BY <1>7

LEMMA BinaryTable ==
    ASSUME NEW vm, NEW n, NEW j \in DOMAIN Binary(vm, n)
    PROVE  KeepsPair(Binary(vm, n)[j])
<1> DEFINE p1 == Binary_inner(vm, n)
           p2 == Binary_inner_2(vm, n)
           Blks == {b \in Elements(p1) \cup Elements(p2) :
                       KeepsPair(b)}
<1>1. p1 \in Seq(Blks)
  <2>1. DOMAIN p1 = 1 .. 37 /\ p1 = [i \in 1 .. 37 |-> p1[i]]
    BY DEF Binary_inner
  <2>2. \A i \in 1 .. 37 : KeepsPair(p1[i])
    BY InnerKeepsPair, SMTT(90) DEF Binary_inner
  <2> QED BY <2>1, <2>2, Listed DEF Elements
<1>2. p2 \in Seq(Blks)
  <2>1. DOMAIN p2 = 1 .. 15 /\ p2 = [i \in 1 .. 15 |-> p2[i]]
    BY DEF Binary_inner_2
  <2>2. \A i \in 1 .. 15 : KeepsPair(p2[i])
    BY InnerKeepsPair, SMTT(90) DEF Binary_inner_2
  <2> QED BY <2>1, <2>2, Listed DEF Elements
<1>3. Binary(vm, n) = p1 \o p2
  BY DEF Binary
<1>4. Binary(vm, n) \in Seq(Blks)
  <2> HIDE DEF Blks, p1, p2
  <2> QED BY <1>1, <1>2, <1>3
<1>5. Binary(vm, n)[j] \in Blks
  <2> HIDE DEF Blks, p1, p2
  <2> QED BY <1>4
<1> QED BY <1>5

LEMMA CMoveTable ==
    ASSUME NEW vm, NEW n
    PROVE  /\ \A j \in DOMAIN CMoveN(vm, n) : TestsPair(CMoveN(vm, n)[j])
           /\ \A j \in DOMAIN CMoveF(vm, n) : TestsPair(CMoveF(vm, n)[j])
           /\ \A j \in DOMAIN CMoveD(vm, n) : TestsPair(CMoveD(vm, n)[j])
<1>1. \A j \in DOMAIN CMoveN(vm, n) : TestsPair(CMoveN(vm, n)[j])
  BY DEF CMoveN, First, Rule, Match, TestsPair, Paired, Conditions
<1>2. \A j \in DOMAIN CMoveF(vm, n) : TestsPair(CMoveF(vm, n)[j])
  BY DEF CMoveF, First, Rule, Match, TestsPair, Paired, Conditions
<1>3. \A j \in DOMAIN CMoveD(vm, n) : TestsPair(CMoveD(vm, n)[j])
  BY DEF CMoveD, First, Rule, Match, TestsPair, Paired, Conditions
<1> QED BY <1>1, <1>2, <1>3

\* Which tests a Bool is labelled for
LEMMA BoolTable ==
    ASSUME NEW vm, NEW n, NEW j \in DOMAIN Bool(vm, n), Bool(vm, n)[j].when,
           NEW k \in DOMAIN Bool(vm, n)[j].to
    PROVE  /\ Label(Bool(vm, n)[j], k) = "CMPOPUCF"
              => Test(n, {"lt", "ge", "le", "gt"}) \/ Kid2(n, 1, 1) = Kid2(n, 1, 2)
           /\ Label(Bool(vm, n)[j], k) = "CMPOPUCF2"
              => Test(n, {"ne", "eq"}) /\ Kid2(n, 1, 1) # Kid2(n, 1, 2)
<1> DEFINE unequal == Test(n, {"ne", "eq"}) /\ Kid2(n, 1, 1) # Kid2(n, 1, 2)
           ordered == Test(n, {"lt", "ge", "le", "gt"}) \/ Kid2(n, 1, 1) = Kid2(n, 1, 2)
           b == Bool(vm, n)[j]
<1>1. PICK nt \in {"CMPOPUCF2", "CMPOPUCF", "CMPOPU", "CMPOP"} :
         /\ b.to = One(nt)
         /\ nt = "CMPOPUCF2" => unequal
         /\ nt = "CMPOPUCF" => ordered
  <2>1. j \in {1, 2, 3, 4}
    BY DEF Bool
  <2>2. CASE j = 1
    <3>1. b.to = One("CMPOPUCF2") /\ (b.when => unequal)
      BY <2>2 DEF Bool, First, Match
    <3> QED BY <3>1
  <2>3. CASE j = 2
    <3>1. b.to = One("CMPOPUCF") /\ (b.when => ordered)
      BY <2>3 DEF Bool, First, Match
    <3> QED BY <3>1
  <2>4. CASE j \in {3, 4}
    <3>1. b.to = One("CMPOPU") \/ b.to = One("CMPOP")
      BY <2>4 DEF Bool, First, Match
    <3> QED BY <3>1
  <2> QED BY <2>1, <2>2, <2>3, <2>4
<1>2. Label(b, k) = nt
  BY <1>1 DEF One, Label
<1> QED BY <1>1, <1>2

\* The code of the opcodes a condition is matched by.
LEMMA Code ==
    ASSUME NEW vm, NEW n
    PROVE  /\ n.op = "Bool" => DFA(vm, n) = Bool(vm, n)
           /\ n.op = "Binary" => DFA(vm, n) = Binary(vm, n)
           /\ n.op = "If" => DFA(vm, n) = If(vm, n)
           /\ n.op = "CountedLoopEnd" => DFA(vm, n) = CountedLoopEnd(vm, n)
           /\ n.op = "CMoveI" => DFA(vm, n) = CMoveI(vm, n)
           /\ n.op = "CMoveL" => DFA(vm, n) = CMoveL(vm, n)
           /\ n.op = "CMoveP" => DFA(vm, n) = CMoveP(vm, n)
           /\ n.op = "CMoveN" => DFA(vm, n) = CMoveN(vm, n)
           /\ n.op = "CMoveF" => DFA(vm, n) = CMoveF(vm, n)
           /\ n.op = "CMoveD" => DFA(vm, n) = CMoveD(vm, n)
<1>1. n.op = "Bool" => DFA(vm, n) = Bool(vm, n)
  BY DEF DFA
<1>2. n.op = "Binary" => DFA(vm, n) = Binary(vm, n)
  BY DEF DFA
<1>3. n.op = "If" => DFA(vm, n) = If(vm, n)
  BY DEF DFA
<1>4. n.op = "CountedLoopEnd" => DFA(vm, n) = CountedLoopEnd(vm, n)
  BY DEF DFA
<1>5. n.op = "CMoveI" => DFA(vm, n) = CMoveI(vm, n)
  BY DEF DFA
<1>6. n.op = "CMoveL" => DFA(vm, n) = CMoveL(vm, n)
  BY DEF DFA
<1>7. n.op = "CMoveP" => DFA(vm, n) = CMoveP(vm, n)
  BY DEF DFA
<1>8. n.op = "CMoveN" => DFA(vm, n) = CMoveN(vm, n)
  BY DEF DFA
<1>9. n.op = "CMoveF" => DFA(vm, n) = CMoveF(vm, n)
  BY DEF DFA
<1>10. n.op = "CMoveD" => DFA(vm, n) = CMoveD(vm, n)
  BY DEF DFA
<1> QED BY <1>1, <1>2, <1>3, <1>4, <1>5, <1>6, <1>7, <1>8, <1>9, <1>10

\* The flags that the code of a comparison leaves its result in.
Records(s, results) ==
    \A j \in DOMAIN s : \A k \in DOMAIN s[j].to : Label(s[j], k) \in results

LEMMA OneLabel ==
    ASSUME NEW b, NEW nt, b.to = One(nt), NEW k \in DOMAIN b.to
    PROVE  Label(b, k) = nt
BY DEF One, Label

LEMMA SignedTable ==
    ASSUME NEW vm, NEW n, n.op \in SignedOps \cup StatusOps
    PROVE  Records(DFA(vm, n), {"RFLAGSREG"})
<1>1. CASE n.op = "CmpI"
  <2>1. DFA(vm, n) = CmpI(vm, n)
    BY <1>1 DEF DFA
  <2>2. \A j \in DOMAIN CmpI(vm, n) : CmpI(vm, n)[j].to \in {One("RFLAGSREG")}
    BY DEF CmpI, First, Rule, Match
  <2> QED BY <2>1, <2>2, OneLabel DEF Records
<1>2. CASE n.op = "CmpL"
  <2>1. DFA(vm, n) = CmpL(vm, n)
    BY <1>2 DEF DFA
  <2>2. \A j \in DOMAIN CmpL(vm, n) : CmpL(vm, n)[j].to \in {One("RFLAGSREG")}
    BY DEF CmpL, First, Rule, Match
  <2> QED BY <2>1, <2>2, OneLabel DEF Records
<1>3. CASE n.op = "FastLock"
  <2>1. DFA(vm, n) = FastLock(vm, n)
    BY <1>3 DEF DFA
  <2>2. \A j \in DOMAIN FastLock(vm, n) : FastLock(vm, n)[j].to \in {One("RFLAGSREG")}
    BY DEF FastLock, First, Rule, Match
  <2> QED BY <2>1, <2>2, OneLabel DEF Records
<1>4. CASE n.op = "FastUnlock"
  <2>1. DFA(vm, n) = FastUnlock(vm, n)
    BY <1>4 DEF DFA
  <2>2. \A j \in DOMAIN FastUnlock(vm, n) : FastUnlock(vm, n)[j].to \in {One("RFLAGSREG")}
    BY DEF FastUnlock, First, Rule, Match
  <2> QED BY <2>1, <2>2, OneLabel DEF Records
<1>5. CASE n.op = "OverflowAddI"
  <2>1. DFA(vm, n) = OverflowAddI(vm, n)
    BY <1>5 DEF DFA
  <2>2. \A j \in DOMAIN OverflowAddI(vm, n) : OverflowAddI(vm, n)[j].to \in {One("RFLAGSREG")}
    BY DEF OverflowAddI, First, Rule, Match
  <2> QED BY <2>1, <2>2, OneLabel DEF Records
<1>6. CASE n.op = "OverflowAddL"
  <2>1. DFA(vm, n) = OverflowAddL(vm, n)
    BY <1>6 DEF DFA
  <2>2. \A j \in DOMAIN OverflowAddL(vm, n) : OverflowAddL(vm, n)[j].to \in {One("RFLAGSREG")}
    BY DEF OverflowAddL, First, Rule, Match
  <2> QED BY <2>1, <2>2, OneLabel DEF Records
<1>7. CASE n.op = "OverflowSubI"
  <2>1. DFA(vm, n) = OverflowSubI(vm, n)
    BY <1>7 DEF DFA
  <2>2. \A j \in DOMAIN OverflowSubI(vm, n) : OverflowSubI(vm, n)[j].to \in {One("RFLAGSREG")}
    BY DEF OverflowSubI, First, Rule, Match
  <2> QED BY <2>1, <2>2, OneLabel DEF Records
<1>8. CASE n.op = "OverflowSubL"
  <2>1. DFA(vm, n) = OverflowSubL(vm, n)
    BY <1>8 DEF DFA
  <2>2. \A j \in DOMAIN OverflowSubL(vm, n) : OverflowSubL(vm, n)[j].to \in {One("RFLAGSREG")}
    BY DEF OverflowSubL, First, Rule, Match
  <2> QED BY <2>1, <2>2, OneLabel DEF Records
<1>9. CASE n.op = "OverflowMulI"
  <2>1. DFA(vm, n) = OverflowMulI(vm, n)
    BY <1>9 DEF DFA
  <2>2. \A j \in DOMAIN OverflowMulI(vm, n) : OverflowMulI(vm, n)[j].to \in {One("RFLAGSREG")}
    BY DEF OverflowMulI, First, Rule, Match
  <2> QED BY <2>1, <2>2, OneLabel DEF Records
<1>10. CASE n.op = "OverflowMulL"
  <2>1. DFA(vm, n) = OverflowMulL(vm, n)
    BY <1>10 DEF DFA
  <2>2. \A j \in DOMAIN OverflowMulL(vm, n) : OverflowMulL(vm, n)[j].to \in {One("RFLAGSREG")}
    BY DEF OverflowMulL, First, Rule, Match
  <2> QED BY <2>1, <2>2, OneLabel DEF Records
<1> QED BY <1>1, <1>2, <1>3, <1>4, <1>5, <1>6, <1>7, <1>8, <1>9, <1>10
       DEF SignedOps, StatusOps

LEMMA UnsignedTable ==
    ASSUME NEW vm, NEW n, n.op \in UnsignedOps
    PROVE  Records(DFA(vm, n), {"RFLAGSREGU"})
<1>1. CASE n.op = "CmpU"
  <2>1. DFA(vm, n) = CmpU(vm, n)
    BY <1>1 DEF DFA
  <2>2. \A j \in DOMAIN CmpU(vm, n) : CmpU(vm, n)[j].to \in {One("RFLAGSREGU")}
    BY DEF CmpU, First, Rule, Match
  <2> QED BY <2>1, <2>2, OneLabel DEF Records
<1>2. CASE n.op = "CmpUL"
  <2>1. DFA(vm, n) = CmpUL(vm, n)
    BY <1>2 DEF DFA
  <2>2. \A j \in DOMAIN CmpUL(vm, n) : CmpUL(vm, n)[j].to \in {One("RFLAGSREGU")}
    BY DEF CmpUL, First, Rule, Match
  <2> QED BY <2>1, <2>2, OneLabel DEF Records
<1>3. CASE n.op = "VectorTest"
  <2>1. DFA(vm, n) = VectorTest(vm, n)
    BY <1>3 DEF DFA
  <2>2. \A j \in DOMAIN VectorTest(vm, n) : VectorTest(vm, n)[j].to \in {One("RFLAGSREGU")}
    BY DEF VectorTest, First, Rule, Match
  <2> QED BY <2>1, <2>2, OneLabel DEF Records
<1> QED BY <1>1, <1>2, <1>3 DEF UnsignedOps

LEMMA FloatTable ==
    ASSUME NEW vm, NEW n, n.op \in FloatOps
    PROVE  Records(DFA(vm, n), {"RFLAGSREGU", "RFLAGSREGUCF"})
<1>1. CASE n.op = "CmpF"
  <2>1. DFA(vm, n) = CmpF(vm, n)
    BY <1>1 DEF DFA
  <2>2. \A j \in DOMAIN CmpF(vm, n) : CmpF(vm, n)[j].to \in {One("RFLAGSREGU"), One("RFLAGSREGUCF")}
    BY DEF CmpF, First, Rule, Match
  <2> QED BY <2>1, <2>2, OneLabel DEF Records
<1>2. CASE n.op = "CmpD"
  <2>1. DFA(vm, n) = CmpD(vm, n)
    BY <1>2 DEF DFA
  <2>2. \A j \in DOMAIN CmpD(vm, n) : CmpD(vm, n)[j].to \in {One("RFLAGSREGU"), One("RFLAGSREGUCF")}
    BY DEF CmpD, First, Rule, Match
  <2> QED BY <2>1, <2>2, OneLabel DEF Records
<1> QED BY <1>1, <1>2 DEF FloatOps

\* Pointers, in those of a signed comparison only against null
LEMMA PointerTable ==
    ASSUME NEW vm, NEW n, n.op \in PointerOps, NEW j \in DOMAIN DFA(vm, n),
           NEW k \in DOMAIN DFA(vm, n)[j].to
    PROVE  LET b == DFA(vm, n)[j] IN
           \/ Label(b, k) = "RFLAGSREGU"
           \/ Label(b, k) = "RFLAGSREG" /\ 2 \in DOMAIN b.kids /\ b.kids[2] \in {"IMMP0", "IMMN0"}
<1>1. CASE n.op = "CmpP"
  <2>1. DFA(vm, n) = CmpP(vm, n)
    BY <1>1 DEF DFA
  <2>2. \A i \in DOMAIN CmpP(vm, n) :
           LET b == CmpP(vm, n)[i] IN
           \/ b.to = One("RFLAGSREGU")
           \/ /\ b.to = One("RFLAGSREG")
              /\ 2 \in DOMAIN b.kids /\ b.kids[2] \in {"IMMP0", "IMMN0"}
    BY DEF CmpP, First, Rule, Match
  <2> QED BY <2>1, <2>2, OneLabel
<1>2. CASE n.op = "CmpN"
  <2>1. DFA(vm, n) = CmpN(vm, n)
    BY <1>2 DEF DFA
  <2>2. \A i \in DOMAIN CmpN(vm, n) :
           LET b == CmpN(vm, n)[i] IN
           \/ b.to = One("RFLAGSREGU")
           \/ /\ b.to = One("RFLAGSREG")
              /\ 2 \in DOMAIN b.kids /\ b.kids[2] \in {"IMMP0", "IMMN0"}
    BY DEF CmpN, First, Rule, Match
  <2> QED BY <2>1, <2>2, OneLabel
<1> QED BY <1>1, <1>2 DEF PointerOps

\* The flags of a comparison answer the conditions they are paired with.
LEMMA ConditionFollows ==
    ASSUME NEW pair \in Conditions, NEW test, test = pair[1] \/ Paired(test) = pair,
           NEW bool, NEW flags, Condition(bool, flags),
           pair[2] = "RFLAGSREG" => flags.op \in SignedOps \/ Test(bool, NoOrder),
           pair[2] = "RFLAGSREGU" => flags.op \notin SignedOps,
           pair[2] = "RFLAGSREGUCF" => flags.op \in FloatOps,
           pair[1] = "CMPOPUCF" => \/ Test(bool, {"lt", "ge", "le", "gt"})
                                   \/ Kid2(bool, 1, 1) = Kid2(bool, 1, 2),
           pair[1] = "CMPOPUCF2" => /\ Test(bool, {"ne", "eq"})
                                    /\ Kid2(bool, 1, 1) # Kid2(bool, 1, 2)
    PROVE  Follows(test, bool)
<1>1. /\ test \in SignedTest => pair = <<"CMPOP", "RFLAGSREG">>
      /\ test \in UnsignedTest => pair = <<"CMPOPU", "RFLAGSREGU">>
      /\ test \in CarryTest => pair = <<"CMPOPUCF", "RFLAGSREGUCF">>
      /\ test \in ParityTest => pair = <<"CMPOPUCF2", "RFLAGSREGUCF">>
  <2>1. CASE test = pair[1]
    BY <2>1 DEF Conditions, SignedTest, UnsignedTest, CarryTest, ParityTest
  <2>2. CASE Paired(test) = pair
    BY <2>2 DEF Conditions, Paired, SignedTest, UnsignedTest, CarryTest, ParityTest
  <2> QED BY <2>1, <2>2
<1>2. Kid(bool, 1) = flags /\ \A a, b \in bool.is : a = b
  BY DEF Condition
<1>3. ASSUME test \in SignedTest
      PROVE  flags.op \in {"CmpI", "CmpL"} \/ Test(bool, NoOrder)
  BY <1>1, <1>3 DEF SignedOps
<1>4. ASSUME test \in UnsignedTest PROVE flags.op \notin {"CmpI", "CmpL"}
  BY <1>1, <1>4 DEF SignedOps
<1>5. ASSUME test \in CarryTest \cup ParityTest PROVE flags.op \in {"CmpF", "CmpD"}
  BY <1>1, <1>5 DEF FloatOps
<1>6. ASSUME test \in CarryTest
      PROVE  ~(Test(bool, {"eq", "ne"}) /\ Kid2(bool, 1, 1) # Kid2(bool, 1, 2))
  <2>1. Test(bool, {"lt", "ge", "le", "gt"}) => ~Test(bool, {"eq", "ne"})
    BY <1>2 DEF Test
  <2> QED BY <1>1, <1>6, <2>1
<1>7. ASSUME test \in ParityTest
      PROVE  Test(bool, {"eq", "ne"}) /\ Kid2(bool, 1, 1) # Kid2(bool, 1, 2)
  BY <1>1, <1>7 DEF Test
<1> QED BY <1>2, <1>3, <1>4, <1>5, <1>6, <1>7 DEF Follows, Kid2
-----------------------------------------------------------------------------
\* A match of state i gives label nt.
Labelled(i, nt) ==
    \E j \in DOMAIN Table(tree, i) :
        /\ Applies(Table(tree, i)[j], tree, i, cost)
        /\ \E k \in DOMAIN Table(tree, i)[j].to : Label(Table(tree, i)[j], k) = nt
Returned(i) == i \in States(tree) /\ BestLabels(i)

\* What a match asks of a kid, a match of the kid has given.
LEMMA KidLabelled ==
    ASSUME tree \in DOMAIN Trees, NEW i \in States(tree), \A m \in 1 .. i - 1 : Returned(m),
           NEW j \in DOMAIN Table(tree, i), Applies(Table(tree, i)[j], tree, i, cost),
           NEW q \in DOMAIN Table(tree, i)[j].kids
    PROVE  \E m \in 1 .. i - 1 : /\ m \in States(tree)
                                 /\ Trees[tree].leaf[m] = Kid(Trees[tree].leaf[i], q)
                                 /\ Labelled(m, Table(tree, i)[j].kids[q])
<1> DEFINE m == Trees[tree].kids[i][q]
           nt == Table(tree, i)[j].kids[q]
<1>1. q \in DOMAIN Trees[tree].kids[i] /\ nt \in DOMAIN cost[m]
  BY DEF Applies
<1>2. m \in 1 .. i - 1 /\ m \in States(tree)
  BY <1>1, KidsBelow
<1>3. Trees[tree].leaf[m] = Kid(Trees[tree].leaf[i], q)
  BY <1>1, CodeAssumption
<1>4. Labelled(m, nt)
  <2>1. BestLabels(m)
    BY <1>2 DEF Returned
  <2> QED BY <1>1, <2>1 DEF BestLabels, Labelled
<1> QED BY <1>2, <1>3, <1>4

\* The flags a match leaves are those of the operation.
LEMMA FlagsLabelled ==
    ASSUME tree \in DOMAIN Trees, NEW i \in States(tree), \A m \in 1 .. i - 1 : Returned(m),
           NEW nt, Labelled(i, nt), NEW bool, Condition(bool, Trees[tree].leaf[i])
    PROVE  LET flags == Trees[tree].leaf[i] IN
           /\ nt = "RFLAGSREG" => flags.op \in SignedOps \/ Test(bool, NoOrder)
           /\ nt = "RFLAGSREGU" => flags.op \notin SignedOps
           /\ nt = "RFLAGSREGUCF" => flags.op \in FloatOps
<1> DEFINE flags == Trees[tree].leaf[i]
           B == Table(tree, i)
<1>1. PICK j \in DOMAIN B : /\ Applies(B[j], tree, i, cost)
                            /\ \E k \in DOMAIN B[j].to : Label(B[j], k) = nt
  BY DEF Labelled
<1>2. B = DFA(Trees[tree].vm, flags)
  BY CodeAssumption
<1>3. CASE flags.op \in SignedOps \cup StatusOps
  <2>1. nt = "RFLAGSREG"
    BY <1>1, <1>2, <1>3, SignedTable DEF Records
  <2> QED BY <1>3, <2>1 DEF Condition
<1>4. CASE flags.op \in UnsignedOps
  <2>1. nt = "RFLAGSREGU" /\ flags.op \notin SignedOps
    BY <1>1, <1>2, <1>4, UnsignedTable DEF Records, UnsignedOps, SignedOps
  <2> QED BY <2>1
<1>5. CASE flags.op \in FloatOps
  <2>1. nt \in {"RFLAGSREGU", "RFLAGSREGUCF"} /\ flags.op \notin SignedOps
    BY <1>1, <1>2, <1>5, FloatTable DEF Records, FloatOps, SignedOps
  <2> QED BY <1>5, <2>1
<1>6. CASE flags.op \in PointerOps
  <2>1. flags.op \notin SignedOps
    BY <1>6 DEF PointerOps, SignedOps
  <2>2. nt \in {"RFLAGSREG", "RFLAGSREGU"}
    BY <1>1, <1>2, <1>6, PointerTable
  <2>3. ASSUME nt = "RFLAGSREG" PROVE Test(bool, NoOrder)
    <3>1. 2 \in DOMAIN B[j].kids /\ B[j].kids[2] \in {"IMMP0", "IMMN0"}
      BY <1>1, <1>2, <1>6, <2>3, PointerTable
    <3>2. PICK m \in 1 .. i - 1 : /\ m \in States(tree)
                                  /\ Trees[tree].leaf[m] = Kid(flags, 2)
                                  /\ Labelled(m, B[j].kids[2])
      BY <1>1, <3>1, KidLabelled
    <3>3. IsNull(Kid(flags, 2))
      BY <3>1, <3>2, NullsAssumption DEF Labelled, Applies
    <3> QED BY <1>6, <3>3 DEF Condition
  <2> QED BY <2>1, <2>2, <2>3
<1> QED BY <1>3, <1>4, <1>5, <1>6 DEF Condition

\* Where a match pairs a test and flags, the flags answer the test.
LEMMA PairFollows ==
    ASSUME tree \in DOMAIN Trees, NEW i \in States(tree), \A m \in 1 .. i - 1 : Returned(m),
           NEW j \in DOMAIN Table(tree, i), Applies(Table(tree, i)[j], tree, i, cost),
           TestsFlags(Table(tree, i)[j]),
           Condition(Kid(Trees[tree].leaf[i], 1), Kid(Trees[tree].leaf[i], 2)),
           NEW test,
           test = Table(tree, i)[j].kids[1] \/ Paired(test) = Table(tree, i)[j].kids
    PROVE  Follows(test, Kid(Trees[tree].leaf[i], 1))
<1> DEFINE pair == Table(tree, i)[j].kids
           bool == Kid(Trees[tree].leaf[i], 1)
           flags == Kid(Trees[tree].leaf[i], 2)
<1>1. /\ pair \in Conditions /\ 1 \in DOMAIN pair /\ 2 \in DOMAIN pair
      /\ pair[2] \in FlagResults
  BY DEF TestsFlags, Conditions, FlagResults
<1>2. PICK a \in 1 .. i - 1 : /\ a \in States(tree) /\ Trees[tree].leaf[a] = bool
                              /\ Labelled(a, pair[1])
  BY <1>1, KidLabelled
<1>3. PICK b \in 1 .. i - 1 : /\ b \in States(tree) /\ Trees[tree].leaf[b] = flags
                              /\ Labelled(b, pair[2])
  BY <1>1, KidLabelled
<1>4. /\ pair[2] = "RFLAGSREG" => flags.op \in SignedOps \/ Test(bool, NoOrder)
      /\ pair[2] = "RFLAGSREGU" => flags.op \notin SignedOps
      /\ pair[2] = "RFLAGSREGUCF" => flags.op \in FloatOps
  BY <1>1, <1>3, FlagsLabelled
<1>5. Table(tree, a) = Bool(Trees[tree].vm, bool)
  <2>1. bool.op = "Bool" /\ Table(tree, a) = DFA(Trees[tree].vm, bool)
    BY <1>2, CodeAssumption DEF Condition
  <2> QED BY <2>1, Code
<1>6. /\ pair[1] = "CMPOPUCF" => \/ Test(bool, {"lt", "ge", "le", "gt"})
                                 \/ Kid2(bool, 1, 1) = Kid2(bool, 1, 2)
      /\ pair[1] = "CMPOPUCF2" => /\ Test(bool, {"ne", "eq"})
                                  /\ Kid2(bool, 1, 1) # Kid2(bool, 1, 2)
  BY <1>2, <1>5, BoolTable DEF Labelled, Applies
<1> HIDE DEF pair, bool, flags
<1>7. test = pair[1] \/ Paired(test) = pair
  BY DEF pair
<1>8. Condition(bool, flags)
  BY DEF bool, flags
<1>9. Follows(test, bool)
  BY <1>1, <1>4, <1>6, <1>7, <1>8, ConditionFollows
<1> QED BY <1>9 DEF bool

\* The blocks of a branch test a pair of kids, those of a move the pair that its
\* first kid is.
LEMMA DecidedTable ==
    ASSUME NEW vm, NEW n, n.op \in Decided, NEW j \in DOMAIN DFA(vm, n)
    PROVE  IF n.op \in {"If", "CountedLoopEnd"}
           THEN TestsFlags(DFA(vm, n)[j])
           ELSE TestsPair(DFA(vm, n)[j])
<1>1. CASE n.op \in {"If", "CountedLoopEnd"}
  BY <1>1, Code, BranchTable
<1>2. CASE n.op \in {"CMoveI", "CMoveL", "CMoveP"}
  BY <1>2, Code, CMoveITable, CMoveLTable, CMovePTable
<1>3. CASE n.op \in {"CMoveN", "CMoveF", "CMoveD"}
  BY <1>3, Code, CMoveTable
<1> QED BY <1>1, <1>2, <1>3 DEF Decided

\* The flags a branch or a conditional move tests are those its comparison has set
\* for that condition.
THEOREM BranchTheorem == Spec => []BranchFollowsCompare
<1>1. IInv /\ Settled => BranchFollowsCompare
  <2> SUFFICES ASSUME IInv, Settled, AtReturn, node.op \in Decided, NEW nt \in Results \cap Valid
               PROVE  Follows(ChosenFor(nt).kids[1], Test1)
    BY DEF BranchFollowsCompare
  <2> DEFINE B == Table(tree, state)
             Chosen(j) == /\ Applies(B[j], tree, state, cost)
                          /\ \E k \in DOMAIN B[j].to :
                                Label(B[j], k) = nt /\ RuleOf(B[j], k) = rule[state][nt]
  <2>1. /\ tree \in DOMAIN Trees /\ state \in States(tree) /\ BestLabels(state)
        /\ \A m \in 1 .. state - 1 : Returned(m)
    <3>1. TypeOK /\ tree \in DOMAIN Trees /\ state \in States(tree) /\ BestLabels(state)
      BY IInvLeastCost DEF IInv, TypeOK, AtReturn, LeastCost
    <3>2. Trees[tree].kids \in Seq(Seq(Nat))
      BY <3>1, TreesAssumption
    <3>3. ASSUME NEW m \in 1 .. state - 1 PROVE Returned(m)
      BY <3>1, <3>2 DEF Returned, Settled, States
    <3> QED BY <3>1, <3>3
  <2>2. \E j \in DOMAIN B : Chosen(j)
    BY <2>1 DEF BestLabels, Valid
  <2> DEFINE j == CHOOSE j \in DOMAIN B : Chosen(j)
             M == B[j]
  <2>3. j \in DOMAIN B /\ Chosen(j)
    <3> HIDE DEF B, Chosen
    <3> QED BY <2>2
  <2>4. ChosenFor(nt) = M
    BY DEF ChosenFor
  <2>5. B = DFA(Trees[tree].vm, node)
    BY <2>1, CodeAssumption DEF node
  <2>6. Applies(M, tree, state, cost)
    BY <2>3
  <2> HIDE DEF j
  <2>7. CASE node.op \in {"If", "CountedLoopEnd"}
    <3>1. TestsFlags(M)
      BY <2>3, <2>5, <2>7, DecidedTable
    <3>2. Condition(Kid(node, 1), Kid(node, 2)) /\ Test1 = Kid(node, 1)
      BY <2>1, <2>7, ConditionsAssumption DEF node, Test1
    <3>3. Follows(M.kids[1], Kid(node, 1))
      BY <2>1, <2>3, <2>6, <3>1, <3>2, PairFollows DEF node
    <3> QED BY <2>4, <3>2, <3>3
  <2>8. CASE node.op \notin {"If", "CountedLoopEnd"}
    <3>1. 1 \in DOMAIN M.kids /\ Paired(M.kids[1]) \in Conditions
      BY <2>3, <2>5, <2>8, DecidedTable DEF TestsPair
    <3>2. /\ Kid(node, 1).op = "Binary" /\ Condition(Kid2(node, 1, 1), Kid2(node, 1, 2))
          /\ Test1 = Kid2(node, 1, 1)
      BY <2>1, <2>8, ConditionsAssumption DEF node, Test1
    <3>3. PICK m \in 1 .. state - 1 : /\ m \in States(tree)
                                      /\ Trees[tree].leaf[m] = Kid(node, 1)
                                      /\ Labelled(m, M.kids[1])
      BY <2>1, <2>3, <2>6, <3>1, KidLabelled DEF node
    <3>4. Table(tree, m) = Binary(Trees[tree].vm, Kid(node, 1))
      BY <2>1, <3>2, <3>3, Code, CodeAssumption
    <3>5. PICK i \in DOMAIN Table(tree, m) :
             /\ Applies(Table(tree, m)[i], tree, m, cost)
             /\ \E k \in DOMAIN Table(tree, m)[i].to : Label(Table(tree, m)[i], k) = M.kids[1]
      BY <3>3 DEF Labelled
    <3>6. Table(tree, m)[i].kids = Paired(M.kids[1])
      <4>1. KeepsPair(Table(tree, m)[i])
        BY <3>4, BinaryTable
      <4> QED BY <3>1, <3>5, <4>1 DEF KeepsPair
    <3>7. TestsFlags(Table(tree, m)[i])
      BY <3>1, <3>6 DEF TestsFlags
    <3>8. Condition(Kid(Trees[tree].leaf[m], 1), Kid(Trees[tree].leaf[m], 2))
      BY <3>2, <3>3 DEF Kid2
    <3>9. \A l \in 1 .. m - 1 : Returned(l)
      <4>1. state \in Nat
        BY DEF IInv, TypeOK
      <4> QED BY <2>1, <3>3, <4>1
    <3>10. Follows(M.kids[1], Kid(Trees[tree].leaf[m], 1))
      BY <2>1, <3>3, <3>5, <3>6, <3>7, <3>8, <3>9, PairFollows
    <3> QED BY <2>4, <3>2, <3>3, <3>10 DEF Kid2
  <2> QED BY <2>7, <2>8
<1> QED BY <1>1, Invariance, SettledTheorem, PTL
-----------------------------------------------------------------------------
\* A match that applies has a price, for any state.
LEMMA PricesAreNat ==
    ASSUME TypeOK
    PROVE  \A i \in States(tree) : \A j \in DOMAIN Table(tree, i) :
              Applies(Table(tree, i)[j], tree, i, cost) =>
              \A k \in DOMAIN Table(tree, i)[j].to :
                 Price(Table(tree, i)[j], tree, i, cost, k) \in Nat
<1> TAKE i \in States(tree)
<1> TAKE j \in DOMAIN Table(tree, i)
<1> HAVE Applies(Table(tree, i)[j], tree, i, cost)
<1> TAKE k \in DOMAIN Table(tree, i)[j].to
<1>1. tree \in DOMAIN Trees
  BY DEF TypeOK
<1>2. Trees[tree].kids \in Seq(Seq(Nat))
  BY <1>1, TreesAssumption
<1>3. \A m \in 1 .. i - 1 : m \in States(tree)
  BY <1>2 DEF States
<1>4. \A m \in 1 .. i - 1 : \A nt \in DOMAIN cost[m] :
         /\ cost[m][nt] \in Nat /\ nt \in DOMAIN cost[m]
         /\ cost[m][nt] \in Nat /\ cost[m][nt] <= cost[m][nt]
  BY <1>3 DEF TypeOK
<1> QED BY <1>1, <1>4, PriceMonotone

\* Where each match for state i has one for state m that gives the same label for no
\* more, state m has the labels of state i for no more.
LEMMA NoDearerState ==
    ASSUME TypeOK, NEW i \in States(tree), NEW m \in States(tree), NEW N,
           BestLabels(i), BestLabels(m),
           \A j \in DOMAIN Table(tree, i) : \A k \in DOMAIN Table(tree, i)[j].to :
              /\ Applies(Table(tree, i)[j], tree, i, cost)
              /\ Label(Table(tree, i)[j], k) \in N
              => \E n \in DOMAIN Table(tree, m) : \E l \in DOMAIN Table(tree, m)[n].to :
                    /\ Applies(Table(tree, m)[n], tree, m, cost)
                    /\ Label(Table(tree, m)[n], l) = Label(Table(tree, i)[j], k)
                    /\ Price(Table(tree, m)[n], tree, m, cost, l)
                          <= Price(Table(tree, i)[j], tree, i, cost, k),
           NEW nt \in N, nt \in DOMAIN cost[i]
    PROVE  nt \in DOMAIN cost[m] /\ cost[m][nt] <= cost[i][nt]
<1> DEFINE B == Table(tree, i)
           C == Table(tree, m)
<1>1. PICK j \in DOMAIN B : \E k \in DOMAIN B[j].to :
         /\ Applies(B[j], tree, i, cost)
         /\ Label(B[j], k) = nt
         /\ cost[i][nt] = Price(B[j], tree, i, cost, k)
  BY DEF BestLabels
<1>2. PICK k \in DOMAIN B[j].to :
         /\ Applies(B[j], tree, i, cost)
         /\ Label(B[j], k) = nt
         /\ cost[i][nt] = Price(B[j], tree, i, cost, k)
  BY <1>1
<1>3. PICK n \in DOMAIN C : \E l \in DOMAIN C[n].to :
         /\ Applies(C[n], tree, m, cost)
         /\ Label(C[n], l) = nt
         /\ Price(C[n], tree, m, cost, l) <= cost[i][nt]
  BY <1>2
<1>4. PICK l \in DOMAIN C[n].to :
         /\ Applies(C[n], tree, m, cost)
         /\ Label(C[n], l) = nt
         /\ Price(C[n], tree, m, cost, l) <= cost[i][nt]
  BY <1>3
<1>5. nt \in DOMAIN cost[m] /\ cost[m][nt] <= Price(C[n], tree, m, cost, l)
  BY <1>4 DEF BestLabels
<1>6. cost[m][nt] \in Nat /\ cost[i][nt] \in Nat
  BY <1>5 DEF TypeOK
<1>7. Price(C[n], tree, m, cost, l) \in Nat
  <2>1. \A x \in DOMAIN C : Applies(C[x], tree, m, cost) =>
           \A y \in DOMAIN C[x].to : Price(C[x], tree, m, cost, y) \in Nat
    BY PricesAreNat
  <2> QED BY <1>4, <2>1
<1>8. cost[m][nt] <= cost[i][nt]
  <2> HIDE DEF C
  <2> QED BY <1>4, <1>5, <1>6, <1>7
<1> QED BY <1>5, <1>8

\* What is recorded for a node is recorded for the same node elsewhere in the tree.
LEMMA SameNodeNoDearer ==
    ASSUME TypeOK, NEW i \in States(tree), NEW m \in States(tree),
           Trees[tree].leaf[i] = Trees[tree].leaf[m], BestLabels(i), BestLabels(m),
           \A x \in 1 .. i - 1, y \in 1 .. m - 1 :
              Trees[tree].leaf[x] = Trees[tree].leaf[y] => SameLabels(x, y),
           NEW nt \in DOMAIN cost[i]
    PROVE  nt \in DOMAIN cost[m] /\ cost[m][nt] <= cost[i][nt]
<1> DEFINE B == Table(tree, i)
           down == Trees[tree].kids[i]
           over == Trees[tree].kids[m]
<1>1. tree \in DOMAIN Trees
  BY DEF TypeOK
<1>2. Table(tree, m) = B /\ DOMAIN over = DOMAIN down
  BY <1>1, CodeAssumption
<1>3. \A x \in DOMAIN down : SameLabels(down[x], over[x])
  <2> TAKE x \in DOMAIN down
  <2>1. x \in DOMAIN over
    BY <1>2
  <2>2. down[x] \in 1 .. i - 1 /\ over[x] \in 1 .. m - 1
    BY <1>1, <2>1, KidsBelow
  <2>3. /\ Trees[tree].leaf[down[x]] = Kid(Trees[tree].leaf[i], x)
        /\ Trees[tree].leaf[over[x]] = Kid(Trees[tree].leaf[m], x)
    BY <1>1, <2>1, CodeAssumption
  <2> QED BY <2>2, <2>3
<1>4. ASSUME NEW j \in DOMAIN B, NEW k \in DOMAIN B[j].to, Applies(B[j], tree, i, cost)
      PROVE  /\ Applies(B[j], tree, m, cost)
             /\ Price(B[j], tree, m, cost, k) <= Price(B[j], tree, i, cost, k)
  <2>1. \A x \in DOMAIN B[j].kids :
           /\ x \in DOMAIN down /\ x \in DOMAIN over
           /\ B[j].kids[x] \in DOMAIN cost[down[x]]
           /\ B[j].kids[x] \in DOMAIN cost[over[x]]
           /\ cost[over[x]][B[j].kids[x]] = cost[down[x]][B[j].kids[x]]
    BY <1>2, <1>3, <1>4 DEF Applies, SameLabels
  <2>2. Applies(B[j], tree, m, cost)
    BY <1>4, <2>1 DEF Applies
  <2>3. \A x \in {1, 2} : KidCost(B[j], tree, m, cost, x) = KidCost(B[j], tree, i, cost, x)
    BY <2>1 DEF KidCost
  <2>4. Price(B[j], tree, m, cost, k) = Price(B[j], tree, i, cost, k)
    BY <2>3 DEF Price, MatchCost
  <2>5. Price(B[j], tree, i, cost, k) \in Nat
    <3>1. \A n \in DOMAIN B : Applies(B[n], tree, i, cost) =>
             \A l \in DOMAIN B[n].to : Price(B[n], tree, i, cost, l) \in Nat
      BY PricesAreNat
    <3> QED BY <1>4, <3>1
  <2> QED BY <2>2, <2>4, <2>5
<1>5. \A j \in DOMAIN B : \A k \in DOMAIN B[j].to :
         Applies(B[j], tree, i, cost) /\ Label(B[j], k) \in {nt}
         => \E n \in DOMAIN Table(tree, m) : \E l \in DOMAIN Table(tree, m)[n].to :
               /\ Applies(Table(tree, m)[n], tree, m, cost)
               /\ Label(Table(tree, m)[n], l) = Label(B[j], k)
               /\ Price(Table(tree, m)[n], tree, m, cost, l) <= Price(B[j], tree, i, cost, k)
  BY <1>2, <1>4
<1> QED BY <1>5, NoDearerState

\* The labels of a state, and their costs, are a function of its node: a node that is
\* shared, and so matched several times in a tree, is labelled the same each time.
THEOREM DeterminedTheorem == Spec => []Determined
<1>1. Init => Determined
  BY DEF Init, Determined
<1>2. IInv /\ Settled /\ Settled' /\ Determined /\ [Next]_vars => Determined'
  <2> SUFFICES ASSUME IInv, Settled, Determined, [Next]_vars,
                      NEW i \in 1 .. state' - 1, NEW m \in 1 .. state' - 1,
                      Trees[tree].leaf[i] = Trees[tree].leaf[m]
               PROVE  SameLabels(i, m)'
    <3>1. ASSUME IInv, [Next]_vars PROVE tree' = tree
      BY <3>1, StepKeeps
    <3> QED BY <3>1 DEF Determined
  <2>1. /\ tree' = tree /\ tree \in DOMAIN Trees /\ state \in Nat \ {0}
        /\ \A l \in 1 .. state - 1 : l \in States(tree) /\ cost'[l] = cost[l] /\ rule'[l] = rule[l]
        /\ \/ state' = state
           \/ /\ state' = state + 1 /\ state \in States(tree) /\ BestLabels(state)
              /\ cost' = cost /\ rule' = rule
    BY StepKeeps
  <2>2. \A l \in 1 .. state' - 1 : l \in States(tree) /\ cost'[l] = cost[l] /\ BestLabels(l)
    <3> TAKE l \in 1 .. state' - 1
    <3>1. CASE l \in 1 .. state - 1
      BY <2>1, <3>1 DEF Settled
    <3>2. CASE l = state
      <4>1. state' = state + 1
        BY <2>1, <3>2
      <4> QED BY <2>1, <3>2, <4>1
    <3> QED BY <2>1, <3>1, <3>2
  <2>3. \A x \in 1 .. i - 1, y \in 1 .. m - 1 :
           Trees[tree].leaf[x] = Trees[tree].leaf[y] => SameLabels(x, y)
    <3>1. \A x \in 1 .. i - 1 : x \in 1 .. state - 1
      BY <2>1
    <3>2. \A x \in 1 .. m - 1 : x \in 1 .. state - 1
      BY <2>1
    <3> QED BY <3>1, <3>2 DEF Determined
  <2>4. \A x \in 1 .. m - 1, y \in 1 .. i - 1 :
           Trees[tree].leaf[x] = Trees[tree].leaf[y] => SameLabels(x, y)
    BY <2>3 DEF SameLabels
  <2>5. TypeOK /\ i \in States(tree) /\ m \in States(tree) /\ BestLabels(i) /\ BestLabels(m)
    BY <2>2 DEF IInv
  <2>6. \A nt \in DOMAIN cost[i] : nt \in DOMAIN cost[m] /\ cost[m][nt] <= cost[i][nt]
    BY <2>3, <2>5, SameNodeNoDearer
  <2>7. \A nt \in DOMAIN cost[m] : nt \in DOMAIN cost[i] /\ cost[i][nt] <= cost[m][nt]
    BY <2>4, <2>5, SameNodeNoDearer
  <2>8. \A nt \in DOMAIN cost[i] : cost[i][nt] \in Nat /\ cost[m][nt] \in Nat
    BY <2>5, <2>6 DEF TypeOK
  <2>9. \A nt \in DOMAIN cost[i] : cost[i][nt] = cost[m][nt]
    BY <2>6, <2>7, <2>8
  <2> QED BY <2>2, <2>6, <2>7, <2>9 DEF SameLabels
<1> QED BY <1>1, <1>2, Invariance, SettledTheorem, PTL DEF Spec

\* A label that a state was returned with is one its code can record.
LEMMA LabelsAreRecorded ==
    ASSUME NEW i, BestLabels(i), NEW nt \in DOMAIN cost[i]
    PROVE  MayLabel(tree, i, nt)
<1>1. PICK j \in DOMAIN Table(tree, i) : \E k \in DOMAIN Table(tree, i)[j].to :
         /\ Applies(Table(tree, i)[j], tree, i, cost)
         /\ Label(Table(tree, i)[j], k) = nt
  BY DEF BestLabels
<1>2. Table(tree, i)[j].when
  BY <1>1 DEF Applies
<1> QED BY <1>1, <1>2 DEF MayLabel

\* The mirror image of a match that applies, does too, for no more.
LEMMA MirrorApplies ==
    ASSUME TypeOK, NEW i \in States(tree), NEW m \in States(tree),
           Len(Trees[tree].kids[i]) = 2, Len(Trees[tree].kids[m]) = 2,
           SameLabels(Trees[tree].kids[i][1], Trees[tree].kids[m][2]),
           SameLabels(Trees[tree].kids[i][2], Trees[tree].kids[m][1]),
           NEW j \in DOMAIN Table(tree, i), NEW k \in DOMAIN Table(tree, i)[j].to,
           NEW n \in DOMAIN Table(tree, m), NEW l \in DOMAIN Table(tree, m)[n].to,
           Applies(Table(tree, i)[j], tree, i, cost), Len(Table(tree, i)[j].kids) = 2,
           Mirrors(Table(tree, m)[n], l, Table(tree, i)[j], k)
    PROVE  /\ Applies(Table(tree, m)[n], tree, m, cost)
           /\ Label(Table(tree, m)[n], l) = Label(Table(tree, i)[j], k)
           /\ Price(Table(tree, m)[n], tree, m, cost, l)
                 <= Price(Table(tree, i)[j], tree, i, cost, k)
<1> DEFINE b == Table(tree, i)[j]
           c == Table(tree, m)[n]
           down == Trees[tree].kids[i]
           over == Trees[tree].kids[m]
           b0 == b.cost
           b3 == b.to[k][3]
           c0 == c.cost
           c3 == c.to[l][3]
           p == KidCost(b, tree, i, cost, 1)
           q == KidCost(b, tree, i, cost, 2)
<1>1. tree \in DOMAIN Trees
  BY DEF TypeOK
<1>2. /\ b.kids \in Seq(STRING) /\ b0 \in Nat /\ b3 \in Nat /\ c0 \in Nat /\ c3 \in Nat
  BY <1>1, BlockTyped
<1>3. /\ c.when /\ c.kids = <<b.kids[2], b.kids[1]>> /\ Label(c, l) = Label(b, k)
      /\ c0 + c3 <= b0 + b3
  BY DEF Mirrors
<1>4. DOMAIN b.kids = {1, 2}
  BY <1>2
<1>5. DOMAIN c.kids = {1, 2} /\ c.kids[1] = b.kids[2] /\ c.kids[2] = b.kids[1]
  BY <1>3
<1>6. DOMAIN over = {1, 2}
  <2>1. Trees[tree].kids \in Seq(Seq(Nat)) /\ m \in DOMAIN Trees[tree].kids
    BY <1>1, TreesAssumption DEF States
  <2>2. over \in Seq(Nat)
    BY <2>1
  <2> QED BY <2>2
<1>7. b.kids[1] \in DOMAIN cost[down[1]] /\ b.kids[2] \in DOMAIN cost[down[2]]
  BY <1>4 DEF Applies
<1>8. /\ b.kids[1] \in DOMAIN cost[over[2]] /\ cost[over[2]][b.kids[1]] = cost[down[1]][b.kids[1]]
      /\ b.kids[2] \in DOMAIN cost[over[1]] /\ cost[over[1]][b.kids[2]] = cost[down[2]][b.kids[2]]
  BY <1>7 DEF SameLabels
<1>9. Applies(c, tree, m, cost)
  BY <1>3, <1>5, <1>6, <1>8 DEF Applies
<1>10. p = cost[down[1]][b.kids[1]] /\ q = cost[down[2]][b.kids[2]]
  BY <1>4 DEF KidCost
<1>11. KidCost(c, tree, m, cost, 1) = q /\ KidCost(c, tree, m, cost, 2) = p
  BY <1>5, <1>8, <1>10 DEF KidCost
<1>12. p \in Nat /\ q \in Nat
  <2>1. 1 \in DOMAIN down /\ 2 \in DOMAIN down
    BY <1>4 DEF Applies
  <2>2. down[1] \in States(tree) /\ down[2] \in States(tree)
    BY <1>1, <2>1, KidsBelow
  <2> QED BY <1>7, <1>10, <2>2 DEF TypeOK
<1>13. /\ Price(b, tree, i, cost, k) = b0 + p + q + b3
       /\ Price(c, tree, m, cost, l) = c0 + q + p + c3
  BY <1>11 DEF Price, MatchCost
<1>14. c0 + q + p + c3 <= b0 + p + q + b3
  <2> HIDE DEF b0, b3, c0, c3, p, q
  <2> QED BY <1>2, <1>3, <1>12
<1> QED BY <1>3, <1>9, <1>13, <1>14

\* What is recorded for x op y is recorded for y op x, for no more.
LEMMA SwappedNoDearer ==
    ASSUME TypeOK, NEW i \in States(tree), NEW m \in States(tree),
           Len(Trees[tree].kids[i]) = 2, Len(Trees[tree].kids[m]) = 2,
           SameLabels(Trees[tree].kids[i][1], Trees[tree].kids[m][2]),
           SameLabels(Trees[tree].kids[i][2], Trees[tree].kids[m][1]),
           \A x \in 1 .. i : BestLabels(x), BestLabels(m), Mirrored(tree, i, m),
           NEW nt \in Results, nt \in DOMAIN cost[i]
    PROVE  nt \in DOMAIN cost[m] /\ cost[m][nt] <= cost[i][nt]
<1> DEFINE B == Table(tree, i)
           C == Table(tree, m)
<1>1. tree \in DOMAIN Trees
  BY DEF TypeOK
<1>2. ASSUME NEW j \in DOMAIN B, NEW k \in DOMAIN B[j].to, Applies(B[j], tree, i, cost),
             Label(B[j], k) \in Results
      PROVE  \E n \in DOMAIN C : \E l \in DOMAIN C[n].to :
                /\ Applies(C[n], tree, m, cost)
                /\ Label(C[n], l) = Label(B[j], k)
                /\ Price(C[n], tree, m, cost, l) <= Price(B[j], tree, i, cost, k)
  <2>1. ASSUME NEW x \in DOMAIN B[j].kids
        PROVE  MayLabel(tree, Trees[tree].kids[i][x], B[j].kids[x])
    <3>1. x \in DOMAIN Trees[tree].kids[i]
          /\ B[j].kids[x] \in DOMAIN cost[Trees[tree].kids[i][x]]
      BY <1>2 DEF Applies
    <3>2. Trees[tree].kids[i][x] \in 1 .. i - 1
      BY <1>1, <3>1, KidsBelow
    <3>3. i \in Nat
      <4>1. Trees[tree].kids \in Seq(Seq(Nat))
        BY <1>1, TreesAssumption
      <4> QED BY <4>1 DEF States
    <3>4. BestLabels(Trees[tree].kids[i][x])
      BY <3>2, <3>3
    <3> QED BY <3>1, <3>4, LabelsAreRecorded
  <2>2. B[j].when
    BY <1>2 DEF Applies
  <2>3. /\ Len(B[j].kids) = 2
        /\ \E n \in DOMAIN C : \E l \in DOMAIN C[n].to : Mirrors(C[n], l, B[j], k)
    BY <1>2, <2>1, <2>2 DEF Mirrored
  <2>4. PICK n \in DOMAIN C : \E l \in DOMAIN C[n].to : Mirrors(C[n], l, B[j], k)
    BY <2>3
  <2>5. PICK l \in DOMAIN C[n].to : Mirrors(C[n], l, B[j], k)
    BY <2>4
  <2>6. /\ Applies(C[n], tree, m, cost)
        /\ Label(C[n], l) = Label(B[j], k)
        /\ Price(C[n], tree, m, cost, l) <= Price(B[j], tree, i, cost, k)
    BY <1>2, <2>3, <2>5, MirrorApplies
  <2> QED BY <2>6
<1>3. BestLabels(i)
  <2>1. Trees[tree].kids \in Seq(Seq(Nat))
    BY <1>1, TreesAssumption
  <2>2. i \in 1 .. i
    BY <2>1 DEF States
  <2> QED BY <2>2
<1>4. \A j \in DOMAIN B : \A k \in DOMAIN B[j].to :
         Applies(B[j], tree, i, cost) /\ Label(B[j], k) \in Results
         => \E n \in DOMAIN C : \E l \in DOMAIN C[n].to :
               /\ Applies(C[n], tree, m, cost)
               /\ Label(C[n], l) = Label(B[j], k)
               /\ Price(C[n], tree, m, cost, l) <= Price(B[j], tree, i, cost, k)
  BY <1>2
<1> HIDE DEF B, C
<1>5. BestLabels(m)
  OBVIOUS
<1> QED BY <1>3, <1>4, <1>5, NoDearerState DEF B, C

\* Where each block of a commutative operation has its mirror image
\* (SwapsAssumption), x op y and y op x give the same results for the same cost,
\* whichever blocks won below: their operands are the same two nodes, labelled in
\* other states but with the same labels.
THEOREM CommutesTheorem == Spec => []Commutes
<1>1. IInv /\ Settled /\ Determined => Commutes
  <2> SUFFICES ASSUME IInv, Settled, Determined, AtReturn, node.op \in Commutative,
                      NEW m \in 1 .. state - 1, Trees[tree].leaf[m] = Swapped(node),
                      NEW nt \in Results \cap Valid
               PROVE  nt \in DOMAIN cost[m] /\ cost[m][nt] = cost[state][nt]
    BY DEF Commutes
  <2> DEFINE down == Trees[tree].kids[state]
             over == Trees[tree].kids[m]
  <2>1. /\ TypeOK /\ tree \in DOMAIN Trees /\ state \in States(tree) /\ BestLabels(state)
        /\ state \in Nat
    BY IInvLeastCost DEF IInv, TypeOK, LeastCost, AtReturn
  <2>2. m \in States(tree)
    <3>1. Trees[tree].kids \in Seq(Seq(Nat))
      BY <2>1, TreesAssumption
    <3> QED BY <2>1, <3>1 DEF States
  <2>3. /\ Len(down) = 2 /\ Len(over) = 2
        /\ Mirrored(tree, state, m) /\ Mirrored(tree, m, state)
    BY <2>1, <2>2, SwapsAssumption DEF node
  <2>4. DOMAIN down = {1, 2} /\ DOMAIN over = {1, 2}
    <3>1. Trees[tree].kids \in Seq(Seq(Nat))
      BY <2>1, TreesAssumption
    <3>2. down \in Seq(Nat) /\ over \in Seq(Nat)
      BY <2>1, <2>2, <3>1 DEF States
    <3> QED BY <2>3, <3>2
  <2>5. /\ Trees[tree].leaf[down[1]] = Kid(node, 1) /\ Trees[tree].leaf[down[2]] = Kid(node, 2)
        /\ Trees[tree].leaf[over[1]] = Kid(Swapped(node), 1)
        /\ Trees[tree].leaf[over[2]] = Kid(Swapped(node), 2)
    BY <2>1, <2>2, <2>4, CodeAssumption DEF node
  <2>6. Kid(Swapped(node), 1) = Kid(node, 2) /\ Kid(Swapped(node), 2) = Kid(node, 1)
    <3>1. "in" \in DOMAIN node
      BY <2>1, CodeAssumption DEF node
    <3>2. Swapped(node).in = <<Kid(node, 2), Kid(node, 1)>>
      BY <3>1 DEF Swapped
    <3>3. \A a, b : /\ DOMAIN <<a, b>> = {1, 2}
                    /\ <<a, b>>[1] = a /\ <<a, b>>[2] = b
      OBVIOUS
    <3>4. Kid(Swapped(node), 1) = Swapped(node).in[1] /\ Kid(Swapped(node), 2) = Swapped(node).in[2]
      <4>1. 1 \in DOMAIN Swapped(node).in /\ 2 \in DOMAIN Swapped(node).in
        BY <3>2, <3>3
      <4> QED BY <4>1 DEF Kid
    <3> QED BY <3>2, <3>3, <3>4
  <2>7. /\ down[1] \in 1 .. state - 1 /\ down[2] \in 1 .. state - 1
        /\ over[1] \in 1 .. m - 1 /\ over[2] \in 1 .. m - 1
    BY <2>1, <2>2, <2>4, KidsBelow
  <2>8. over[1] \in 1 .. state - 1 /\ over[2] \in 1 .. state - 1
    <3>1. \A x \in 1 .. m - 1 : x \in 1 .. state - 1
      BY <2>1
    <3> QED BY <2>7, <3>1
  <2>9. /\ SameLabels(down[1], over[2]) /\ SameLabels(down[2], over[1])
        /\ SameLabels(over[1], down[2]) /\ SameLabels(over[2], down[1])
    BY <2>5, <2>6, <2>7, <2>8 DEF Determined
  <2>10. \A x \in 1 .. state : BestLabels(x)
    <3>1. \A x \in 1 .. state : x = state \/ x \in 1 .. state - 1
      BY <2>1
    <3> QED BY <2>1, <3>1 DEF Settled
  <2>11. (\A x \in 1 .. m : BestLabels(x)) /\ BestLabels(m)
    <3>1. (\A x \in 1 .. m : x \in 1 .. state) /\ m \in 1 .. state
      BY <2>1
    <3> QED BY <2>10, <3>1
  <2>12. nt \in Results /\ nt \in DOMAIN cost[state]
    BY DEF Valid
  <2>13. nt \in DOMAIN cost[m] /\ cost[m][nt] <= cost[state][nt]
    BY <2>1, <2>2, <2>3, <2>9, <2>10, <2>11, <2>12, SwappedNoDearer
  <2>14. cost[state][nt] <= cost[m][nt]
    BY <2>1, <2>2, <2>3, <2>9, <2>11, <2>12, <2>13, SwappedNoDearer
  <2>15. cost[state][nt] \in Nat /\ cost[m][nt] \in Nat
    BY <2>1, <2>2, <2>12, <2>13 DEF TypeOK
  <2> QED BY <2>13, <2>14, <2>15
<1> QED BY <1>1, Invariance, SettledTheorem, DeterminedTheorem, PTL
=============================================================================
