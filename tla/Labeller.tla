------------------------------ MODULE Labeller ------------------------------
(***************************************************************************)
(* The labelling pass of C2's instruction selector, as it is generated     *)
(* from x86.ad in 06-dfa_x86.cpp.  The matcher hands State::DFA the states *)
(* of a match tree bottom up; _sub_Op_<ideal opcode> then runs through a   *)
(* list of blocks, each a match rule:                                      *)
(*                                                                         *)
(*     if (STATE__VALID_CHILD(_kids[0], RREGI) && ... && (predicate)) {    *)
(*       unsigned int c = _kids[0]->_cost[RREGI] + ... + 100;              *)
(*       if (STATE__NOT_YET_VALID(RREGI) || _cost[RREGI] > c) {            *)
(*         DFA_PRODUCTION(RREGI, addI_rReg_rule, c)                        *)
(*       } ...                                                             *)
(*     }                                                                   *)
(*                                                                         *)
(* This module is that control flow for any table of blocks; the tables    *)
(* themselves are the DFA* modules.  A label is an operand class (RREGI,   *)
(* MEMORY, ...) a state is valid for, with the cost of the cheapest match  *)
(* found so far and the rule that gave it.                                 *)
(***************************************************************************)
EXTENDS Naturals, Sequences

CONSTANT
    Trees       \* function; the states of a match tree, bottom up:
                \* Trees[t].kids[i]: the positions of the kids of state i,
                \* Trees[t].code[i]: the blocks of the code for its opcode

VARIABLES
    tree,       \* the match tree being labelled
    state,      \* the state being labelled
    block,      \* its current block
    prod,       \* the next production of that block
    cost,       \* cost[i][nt]: State::_cost, for the labels nt that are valid
    rule        \* rule[i][nt]: State::_rule

vars == <<tree, state, block, prod, cost, rule>>
-----------------------------------------------------------------------------
States(t) == DOMAIN Trees[t].kids
Table(t, i) == Trees[t].code[i]

\* Production k of a block: <<label, rule, how much above the match it costs>>,
\* with "own" for the block's rule
Label(blk, k) == blk.to[k][1]
RuleOf(blk, k) == IF blk.to[k][2] = "own" THEN blk.rule ELSE blk.to[k][2]

\* STATE__VALID_CHILD of the block's kids, and its predicate
Applies(blk, t, i, costs) ==
    /\ blk.when
    /\ \A k \in DOMAIN blk.kids :
          /\ k \in DOMAIN Trees[t].kids[i]
          /\ blk.kids[k] \in DOMAIN costs[Trees[t].kids[i][k]]

\* Mutant: only the first kid's cost counts.
FirstKidCost(blk, t, i, costs, k) ==
    IF k = 1 /\ blk.kids # <<>> THEN costs[Trees[t].kids[i][1]][blk.kids[1]] ELSE 0

KidCost(blk, t, i, costs, k) ==
    IF k \in DOMAIN blk.kids THEN costs[Trees[t].kids[i][k]][blk.kids[k]] ELSE 0

\* c, and the cost that production k gives its label
MatchCost(blk, t, i, costs) ==
    blk.cost + KidCost(blk, t, i, costs, 1) + KidCost(blk, t, i, costs, 2)
Price(blk, t, i, costs, k) == MatchCost(blk, t, i, costs) + blk.to[k][3]

NoLabels == [nt \in {} |-> 0]
With(f, x, v) == [y \in DOMAIN f \cup {x} |-> IF y = x THEN v ELSE f[y]]
-----------------------------------------------------------------------------
(***************************************************************************)
(* What the generator emits.  The first blk.always productions of a block  *)
(* have no guard, and need none: their label cannot be valid yet, or the   *)
(* costs are constants and the old one is no lower ("overwrites higher     *)
(* cost rule").  blk.known marks the tails of the constants' code, where   *)
(* the test for validity is commented out ("KNOWN_VALID") because an       *)
(* earlier block always records the label.                                 *)
(***************************************************************************)
Blocks == [kids : Seq(STRING), when : BOOLEAN, cost : Nat, rule : STRING,
           to : Seq(STRING \X STRING \X Nat), always : Nat, known : BOOLEAN]

\* Production l of block j comes before production k of block i.
Before(j, l, i, k) == j < i \/ (j = i /\ l < k)

NeedsNoGuard(B, i, k) ==
    \A j \in 1 .. i : \A l \in DOMAIN B[j].to :
        Before(j, l, i, k) /\ Label(B[j], l) = Label(B[i], k)
        => /\ B[i].kids = <<>>
           /\ B[i].cost + B[i].to[k][3] <= B[j].cost + B[j].to[l][3]

RecordedAlways(B, i, k) ==
    \E j \in 1 .. i - 1 : /\ B[j].when /\ B[j].kids = <<>>
                          /\ \E l \in DOMAIN B[j].to : Label(B[j], l) = Label(B[i], k)

ASSUME TreesAssumption ==
    \A t \in DOMAIN Trees :
        /\ Trees[t].kids \in Seq(Seq(Nat))
        /\ \A i \in States(t) : \A k \in DOMAIN Trees[t].kids[i] :
              Trees[t].kids[i][k] \in 1 .. i - 1

ASSUME TablesAssumption ==
    \A B \in UNION {{Table(t, i) : i \in States(t)} : t \in DOMAIN Trees} :
        /\ B \in Seq(Blocks)
        /\ \A j \in DOMAIN B : \A k \in DOMAIN B[j].to :
              /\ k <= B[j].always => NeedsNoGuard(B, j, k)
              /\ B[j].known => RecordedAlways(B, j, k)
-----------------------------------------------------------------------------
Init ==
    /\ tree \in DOMAIN Trees
    /\ state = 1 /\ block = 1 /\ prod = 1
    /\ cost = [i \in States(tree) |-> NoLabels]
    /\ rule = [i \in States(tree) |-> NoLabels]

\* The match fails.
Skip(blk) ==
    /\ ~Applies(blk, tree, state, cost)
    /\ block' = block + 1
    /\ UNCHANGED <<tree, state, prod, cost, rule>>

IsValid(nt) == nt \in DOMAIN cost[state]

\* Mutant: every match is recorded, so the last one wins.
AnyMatch(blk) == prod \in DOMAIN blk.to

\* No guard, NOT_YET_VALID, or a higher cost.  A label that is not KNOWN_VALID
\* after all leaves the comparison to whatever _cost holds.
Improves(blk) ==
    \/ prod <= blk.always
    \/ ~IsValid(Label(blk, prod))
    \/ /\ IsValid(Label(blk, prod))
       /\ cost[state][Label(blk, prod)] > Price(blk, tree, state, cost, prod)

\* DFA_PRODUCTION
Produce(blk) ==
    /\ Applies(blk, tree, state, cost) /\ prod \in DOMAIN blk.to
    /\ Improves(blk)
    /\ cost' = [cost EXCEPT ![state] =
                   With(@, Label(blk, prod), Price(blk, tree, state, cost, prod))]
    /\ rule' = [rule EXCEPT ![state] = With(@, Label(blk, prod), RuleOf(blk, prod))]
    /\ prod' = prod + 1
    /\ UNCHANGED <<tree, state, block>>

\* Mutant: a match that is too dear for one label is dropped for the rest.
PruneMatch(blk) ==
    /\ Applies(blk, tree, state, cost) /\ prod \in DOMAIN blk.to
    /\ prod > blk.always
    /\ IF IsValid(Label(blk, prod))
       THEN cost[state][Label(blk, prod)] <= Price(blk, tree, state, cost, prod)
       ELSE blk.known
    /\ prod' = Len(blk.to) + 1
    /\ UNCHANGED <<tree, state, block, cost, rule>>

\* The label stays as it is: the match is pruned.
Prune(blk) ==
    /\ Applies(blk, tree, state, cost) /\ prod \in DOMAIN blk.to
    /\ prod > blk.always
    /\ IF IsValid(Label(blk, prod))
       THEN cost[state][Label(blk, prod)] <= Price(blk, tree, state, cost, prod)
       ELSE blk.known
    /\ prod' = prod + 1
    /\ UNCHANGED <<tree, state, block, cost, rule>>

EndBlock(blk) ==
    /\ Applies(blk, tree, state, cost) /\ prod \notin DOMAIN blk.to
    /\ block' = block + 1 /\ prod' = 1
    /\ UNCHANGED <<tree, state, cost, rule>>

\* One step of the code of the state's opcode
Evaluate ==
    /\ state \in States(tree) /\ block \in DOMAIN Table(tree, state)
    /\ LET blk == Table(tree, state)[block] IN
       \/ Skip(blk)
       \/ Produce(blk)
       \/ Prune(blk)
       \/ EndBlock(blk)

AtReturn == state \in States(tree) /\ block \notin DOMAIN Table(tree, state)

\* DFA returns; the matcher goes on to the next state.
NextState ==
    /\ AtReturn
    /\ state' = state + 1 /\ block' = 1 /\ prod' = 1
    /\ UNCHANGED <<tree, cost, rule>>

Next == Evaluate \/ NextState

Spec == Init /\ [][Next]_vars
-----------------------------------------------------------------------------
TypeOK ==
    /\ tree \in DOMAIN Trees
    /\ state \in 1 .. Len(Trees[tree].kids) + 1
    /\ block \in Nat \ {0} /\ prod \in Nat \ {0}
    /\ DOMAIN cost = States(tree) /\ DOMAIN rule = States(tree)
    /\ \A i \in States(tree) : /\ DOMAIN rule[i] = DOMAIN cost[i]
                               /\ \A nt \in DOMAIN cost[i] : cost[i][nt] \in Nat

\* The labels of state i are those of its matches, each with the cost and the rule
\* of a cheapest one.
BestLabels(i) ==
    LET B == Table(tree, i) IN
    /\ \A j \in DOMAIN B : Applies(B[j], tree, i, cost) =>
          \A k \in DOMAIN B[j].to :
              /\ Label(B[j], k) \in DOMAIN cost[i]
              /\ cost[i][Label(B[j], k)] <= Price(B[j], tree, i, cost, k)
    /\ \A nt \in DOMAIN cost[i] : \E j \in DOMAIN B : \E k \in DOMAIN B[j].to :
          /\ Applies(B[j], tree, i, cost)
          /\ Label(B[j], k) = nt
          /\ cost[i][nt] = Price(B[j], tree, i, cost, k)
          /\ rule[i][nt] = RuleOf(B[j], k)

\* "The matches test the cost function of that rule, and prune any cases which
\* are higher cost for the same reduction" (06-dfa_x86.cpp:61): whatever the
\* order of the blocks and wherever a guard was left out, a state is returned
\* with a label for everything that matched, at the cost of the cheapest match,
\* and with the rule of such a match.
LeastCost == AtReturn => BestLabels(state)
-----------------------------------------------------------------------------
\* Why: the same holds at every point of the code for the productions before it,
\* those of the blocks that matched up to here.
Entered(B, j) == j <= block /\ Applies(B[j], tree, state, cost)
Passed(j, k) == Before(j, k, block, prod)

\* Only a block that matched is entered.
InBlock ==
    prod # 1 =>
    /\ state \in States(tree) /\ block \in DOMAIN Table(tree, state)
    /\ Applies(Table(tree, state)[block], tree, state, cost)
    /\ prod - 1 \in DOMAIN Table(tree, state)[block].to

\* A label is recorded for what was passed, at no higher cost, ...
Recorded ==
    state \in States(tree) =>
    LET B == Table(tree, state) IN
    \A j \in DOMAIN B : Entered(B, j) =>
        \A k \in DOMAIN B[j].to : Passed(j, k) =>
            /\ IsValid(Label(B[j], k))
            /\ cost[state][Label(B[j], k)] <= Price(B[j], tree, state, cost, k)

\* ... and no label is recorded for anything else.
Justified ==
    state \in States(tree) =>
    LET B == Table(tree, state) IN
    \A nt \in DOMAIN cost[state] : \E j \in DOMAIN B :
        /\ Entered(B, j)
        /\ \E k \in DOMAIN B[j].to :
              /\ Passed(j, k)
              /\ Label(B[j], k) = nt
              /\ cost[state][nt] = Price(B[j], tree, state, cost, k)
              /\ rule[state][nt] = RuleOf(B[j], k)

\* The states above wait for their kids.
Unlabelled == \A i \in States(tree) : i > state => DOMAIN cost[i] = {}

\* The inductive invariant
IInv == TypeOK /\ InBlock /\ Recorded /\ Justified /\ Unlabelled
-----------------------------------------------------------------------------
\* The states below stay as they were returned.
Settled == \A i \in 1 .. state - 1 : BestLabels(i)

\* Any way to label the states of tree t by matches of its nodes, each at what
\* the labels it takes from the kids cost: what Matcher::ReduceInst can follow
\* from any label of the root down to the leaves.
Labelling(t, d) ==
    /\ DOMAIN d = States(t)
    /\ \A i \in States(t) : \A nt \in DOMAIN d[i] :
          LET B == Table(t, i) IN
          /\ d[i][nt] \in Nat
          /\ \E j \in DOMAIN B : \E k \in DOMAIN B[j].to :
                /\ Applies(B[j], t, i, d)
                /\ Label(B[j], k) = nt
                /\ d[i][nt] = Price(B[j], t, i, d, k)

\* None is cheaper than what the pass has recorded, for any label of any state
\* that it has returned from: choosing the cheapest match state by state gives
\* the cheapest instructions for the whole tree.
NoCheaper(d) ==
    \A i \in 1 .. state - 1 : \A nt \in DOMAIN d[i] :
        nt \in DOMAIN cost[i] /\ cost[i][nt] <= d[i][nt]
=============================================================================
