-------------------------- MODULE AgentTurn_proofs --------------------------
(* Theorems about agent.py: its loop (AgentTurn), for every registry of      *)
(* tools, every plan a model may answer with and any number of turns; about  *)
(* the files a plan is let read (ChainedPlan), for every plan and request;   *)
(* and about the skill's rewrite of a plan whose outputs collide             *)
(* (OutputCollisions), for every plan and whatever files are there.          *)
EXTENDS AgentTurn, ChainedPlan, Positions_proofs, SequenceTheorems

---------------------------------------------------------------------------
\* What is left of an intent.

IsSeq(s) == s \in Seq(Range(s))

KeptSteps(block) == {i \in DOMAIN block : ~Redundant(block, i)}

LEMMA KeptStepsCounted ==
    ASSUME NEW block, IsSeq(block)
    PROVE  /\ DOMAIN block = 1..Len(block) /\ Len(block) \in Nat
           /\ KeptSteps(block) \in SUBSET Nat /\ IsFiniteSet(KeptSteps(block))
           /\ Cardinality(KeptSteps(block)) <= Len(block)
<1>1. DOMAIN block = 1..Len(block) /\ Len(block) \in Nat
    BY DEF IsSeq
<1>2. IsFiniteSet(1..Len(block)) /\ Cardinality(1..Len(block)) = Len(block)
    <2>1. 1 \in Int /\ Len(block) \in Int /\ Len(block) >= 0
        BY <1>1
    <2>2. /\ IsFiniteSet(1..Len(block))
          /\ Cardinality(1..Len(block)) = IF 1 > Len(block) THEN 0 ELSE Len(block) - 1 + 1
        BY <2>1, FS_Interval
    <2> QED  BY <2>1, <2>2
<1>3. KeptSteps(block) \in SUBSET (1..Len(block))
    BY <1>1 DEF KeptSteps
<1> QED  BY <1>1, <1>2, <1>3, FS_Subset

\* Optimisation keeps the order of the steps it keeps, and all of them.
LEMMA OptimizedOrder ==
    ASSUME NEW block, IsSeq(block)
    PROVE  /\ DOMAIN Optimized(block) = 1..Cardinality(KeptSteps(block))
           /\ \A m \in KeptSteps(block) : \E k \in DOMAIN Optimized(block) : Optimized(block)[k] = block[m]
           /\ \A k \in DOMAIN Optimized(block) : \E m \in KeptSteps(block) :
                 /\ Optimized(block)[k] = block[m]
                 /\ \A j \in KeptSteps(block) : j < m =>
                       \E l \in 1..(k - 1) : Optimized(block)[l] = block[j]
<1> DEFINE S == KeptSteps(block)
           f == InOrder(S)
<1>1. S \in SUBSET Nat /\ IsFiniteSet(S) /\ Kept(block) = f
    BY KeptStepsCounted DEF Kept, KeptSteps
<1>2. /\ DOMAIN f = 1..Cardinality(S) /\ Cardinality(S) \in Nat
      /\ \A k \in 1..Cardinality(S) : f[k] \in S /\ Rank(S, f[k]) = k
      /\ \A i \in S : f[Rank(S, i)] = i /\ Rank(S, i) \in 1..Cardinality(S)
      /\ \A i, j \in S : i < j => Rank(S, i) < Rank(S, j)
    BY <1>1, InOrderRanks, RankBounds
<1>3. DOMAIN Optimized(block) = 1..Cardinality(S) /\ \A k \in 1..Cardinality(S) : Optimized(block)[k] = block[f[k]]
    BY <1>1, <1>2 DEF Optimized
<1> HIDE DEF S, f
<1>4. \A m \in S : Rank(S, m) \in DOMAIN Optimized(block) /\ Optimized(block)[Rank(S, m)] = block[m]
    BY <1>2, <1>3
<1>5. ASSUME NEW k \in DOMAIN Optimized(block)
      PROVE  \E m \in S : /\ Optimized(block)[k] = block[m]
                          /\ \A j \in S : j < m => \E l \in 1..(k - 1) : Optimized(block)[l] = block[j]
    <2>1. f[k] \in S /\ Rank(S, f[k]) = k /\ Optimized(block)[k] = block[f[k]] /\ k \in 1..Cardinality(S)
        BY <1>2, <1>3
    <2>2. ASSUME NEW j \in S, j < f[k] PROVE \E l \in 1..(k - 1) : Optimized(block)[l] = block[j]
        <3>1. Rank(S, j) < k /\ Rank(S, j) \in 1..Cardinality(S)
            BY <1>2, <2>1, <2>2
        <3>2. Rank(S, j) \in 1..(k - 1)
            BY <3>1, <2>1, <1>2
        <3> QED  BY <3>2, <1>4
    <2> QED  BY <2>1, <2>2
<1> QED  BY <1>3, <1>4, <1>5 DEF S

---------------------------------------------------------------------------
\* What an intent expands to.

\* At least one leaf; the last binds the intent's variable, and what a leaf uses
\* the intent uses or an earlier leaf of it binds.
LEMMA ExpandedShape ==
    ASSUME NEW step, Known(step)
    PROVE  LET block == Expand(step)
           IN  /\ IsSeq(block) /\ block # <<>>
               /\ step.out # NoVar => block[Len(block)].out = step.out
               /\ \A m \in DOMAIN block : \A v \in block[m].uses :
                     v \in step.uses \/ (v # NoVar /\ \E j \in 1..(m - 1) : block[j].out = v)
<1> DEFINE leaves == Registry[step.tool].leaves
           block == Expand(step)
<1>1. leaves \in Seq(Range(leaves))
      /\ \A k \in DOMAIN leaves : leaves[k].uses \subseteq {leaves[j].out : j \in 1..(k - 1)} \ {NoVar}
    BY RegistryAssumption DEF Known
<1>2. CASE leaves = <<>>
    <2>1. block = <<step>>
        BY <1>2 DEF Expand, Known
    <2>2. Range(<<step>>) = {step}
        BY DEF Range
    <2>3. IsSeq(<<step>>)
        BY <2>2 DEF IsSeq
    <2> QED  BY <2>1, <2>3
<1>3. CASE leaves # <<>>
    <2>1. DOMAIN leaves = 1..Len(leaves) /\ Len(leaves) \in Nat \ {0}
        BY <1>1, <1>3
    <2>2. /\ DOMAIN block = 1..Len(leaves)
          /\ \A k \in 1..Len(leaves) :
                /\ block[k].uses = leaves[k].uses \cup (IF leaves[k].forwards THEN step.uses ELSE {})
                /\ block[k].out = IF k = Len(leaves) /\ step.out # NoVar THEN step.out ELSE leaves[k].out
        BY <1>3, <2>1 DEF Expand, Known
    <2>3. IsSeq(block) /\ Len(block) = Len(leaves)
        <3>1. block = [k \in 1..Len(leaves) |-> block[k]]
            BY <1>3, <2>1 DEF Expand, Known
        <3>2. \A k \in 1..Len(leaves) : block[k] \in Range(block)
            BY <2>2 DEF Range
        <3> HIDE DEF block
        <3>3. block \in [1..Len(leaves) -> Range(block)]
            BY <3>1, <3>2
        <3> QED  BY <3>3, <2>1, <2>2 DEF IsSeq
    <2> HIDE DEF block, leaves
    <2>4. block # <<>>
        BY <2>1, <2>3
    <2>5. step.out # NoVar => block[Len(block)].out = step.out
        <3>1. Len(block) = Len(leaves) /\ Len(leaves) \in 1..Len(leaves)
            BY <2>1, <2>3
        <3>2. block[Len(leaves)].out = IF step.out # NoVar THEN step.out ELSE leaves[Len(leaves)].out
            BY <3>1, <2>2
        <3> QED  BY <3>1, <3>2
    <2>6. ASSUME NEW m \in DOMAIN block, NEW v \in block[m].uses, v \notin step.uses
          PROVE  v # NoVar /\ \E j \in 1..(m - 1) : block[j].out = v
        <3>1. m \in 1..Len(leaves) /\ v \in leaves[m].uses
            BY <2>2, <2>6
        <3>2. PICK j \in 1..(m - 1) : v = leaves[j].out /\ v # NoVar
            BY <3>1, <1>1, <2>1
        <3>3. j \in 1..Len(leaves) /\ j # Len(leaves)
            <4>1. Len(leaves) \in Nat /\ m \in Nat /\ m <= Len(leaves) /\ j \in Nat /\ 1 <= j /\ j < m
                BY <3>1, <2>1
            <4> QED  BY <4>1
        <3>4. block[j].out = leaves[j].out
            BY <3>3, <2>2
        <3> QED  BY <3>2, <3>4
    <2> QED  BY <2>3, <2>4, <2>5, <2>6 DEF block
<1> QED  BY <1>2, <1>3

\* The last step of a block is kept, and so is a step whose variable a later
\* one uses.
LEMMA UsedIsKept ==
    ASSUME NEW block, IsSeq(block)
    PROVE  /\ block # <<>> => Len(block) \in KeptSteps(block)
           /\ \A m \in DOMAIN block : \A v \in block[m].uses : \A j \in 1..(m - 1) :
                 v # NoVar /\ block[j].out = v => j \in KeptSteps(block)
<1>1. DOMAIN block = 1..Len(block) /\ Len(block) \in Nat
    BY DEF IsSeq
<1>2. block # <<>> => Len(block) \in KeptSteps(block)
    <2>1. block # <<>> => Len(block) \in 1..Len(block)
        BY <1>1 DEF IsSeq
    <2>2. (Len(block) + 1)..Len(block) = {}
        BY <1>1
    <2> QED  BY <1>1, <2>1, <2>2 DEF KeptSteps, Redundant
<1>3. ASSUME NEW m \in DOMAIN block, NEW v \in block[m].uses, NEW j \in 1..(m - 1), v # NoVar, block[j].out = v
      PROVE  j \in KeptSteps(block)
    <2>1. m \in (j + 1)..Len(block) /\ j \in DOMAIN block
        BY <1>1
    <2> QED  BY <2>1, <1>3 DEF KeptSteps, Redundant
<1> QED  BY <1>2, <1>3

\* Every kept leaf of an intent that binds the variable is before the leaf that
\* uses it, unless the intent itself used it.
LEMMA OptimizedUses ==
    ASSUME NEW step, Known(step), NEW k \in DOMAIN Optimized(Expand(step)),
           NEW v \in Optimized(Expand(step))[k].uses, v \notin step.uses
    PROVE  v # NoVar /\ \E l \in 1..(k - 1) : Optimized(Expand(step))[l].out = v
<1> DEFINE block == Expand(step)
<1>1. IsSeq(block)
    BY ExpandedShape
<1>2. PICK m \in KeptSteps(block) :
          /\ Optimized(block)[k] = block[m]
          /\ \A j \in KeptSteps(block) : j < m => \E l \in 1..(k - 1) : Optimized(block)[l] = block[j]
    BY <1>1, OptimizedOrder
<1>3. m \in DOMAIN block /\ v \in block[m].uses /\ m \in Nat
    BY <1>1, <1>2, KeptStepsCounted DEF KeptSteps
<1>4. v # NoVar /\ \E j \in 1..(m - 1) : block[j].out = v
    BY <1>3, ExpandedShape
<1>5. PICK j \in 1..(m - 1) : block[j].out = v
    BY <1>4
<1>6. j \in KeptSteps(block) /\ j < m
    BY <1>1, <1>3, <1>4, <1>5, UsedIsKept
<1>7. PICK l \in 1..(k - 1) : Optimized(block)[l] = block[j]
    BY <1>2, <1>6
<1> QED  BY <1>4, <1>5, <1>7

\* The intent's own variable is bound by a leaf that is kept.
LEMMA OptimizedBinds ==
    ASSUME NEW step, Known(step), step.out # NoVar
    PROVE  \E k \in DOMAIN Optimized(Expand(step)) : Optimized(Expand(step))[k].out = step.out
<1> DEFINE block == Expand(step)
<1>1. IsSeq(block) /\ block # <<>> /\ block[Len(block)].out = step.out
    BY ExpandedShape
<1>2. Len(block) \in KeptSteps(block)
    BY <1>1, UsedIsKept
<1> QED  BY <1>1, <1>2, OptimizedOrder

\* There is a leaf to run, and the leaves are numbered from one.
LEMMA OptimizedNumbered ==
    ASSUME NEW step, Known(step)
    PROVE  \E n \in Nat \ {0} : /\ DOMAIN Optimized(Expand(step)) = 1..n
                                /\ Len(Optimized(Expand(step))) = n /\ n <= Len(Expand(step))
                                /\ DOMAIN Expand(step) = 1..Len(Expand(step)) /\ Len(Expand(step)) \in Nat
<1> DEFINE block == Expand(step)
           n == Cardinality(KeptSteps(block))
<1>1. IsSeq(block) /\ block # <<>>
    BY ExpandedShape
<1>2. n \in Nat /\ n <= Len(block) /\ DOMAIN block = 1..Len(block) /\ Len(block) \in Nat
    BY <1>1, KeptStepsCounted, FS_CardinalityType
<1>3. n # 0
    BY <1>1, UsedIsKept, KeptStepsCounted, FS_EmptySet
<1>4. DOMAIN Optimized(block) = 1..n
    BY <1>1, OptimizedOrder
<1>5. Optimized(block) = [k \in 1..n |-> Optimized(block)[k]]
    BY <1>4 DEF Optimized
<1> HIDE DEF n
<1>6. Len(Optimized(block)) = n
    BY <1>2, <1>5
<1> QED  BY <1>2, <1>3, <1>4, <1>6

---------------------------------------------------------------------------
\* The invariant of the loop.

\* The plan whose leaves run: validated, expanded and optimised.
Accepted ==
    /\ blocks = [i \in DOMAIN payload |-> Optimized(Expand(payload[i]))]
    /\ ValidPlan(payload, FALSE)
    /\ ValidLeaves(Expanded(payload))

Clauses(i) == {j \in DOMAIN payload : ~TerminalStep(payload[j]) /\ j < i}

Approving == approve /\ ~AllTerminal

Bound(leaf) == leaf.out = NoVar \/ leaf.out \in DOMAIN ctx

\* Before intent bi: the clauses of the intents before it have been shown, and
\* every leaf of them has bound its variable.
AtIntent ==
    /\ bi \in 1..(Len(payload) + 1)
    /\ results # <<>> => bi > 1
    /\ \A i \in 1..(bi - 1) : \A k \in DOMAIN blocks[i] : Bound(blocks[i][k])
    /\ Approving => shown = Cardinality(Clauses(bi))

\* At leaf li of intent bi: its own clause has been shown and agreed to.
AtLeaf ==
    /\ bi \in 1..Len(payload) /\ li \in DOMAIN blocks[bi]
    /\ results # <<>> => bi > 1 \/ li > 1
    /\ \A i \in 1..(bi - 1) : \A k \in DOMAIN blocks[i] : Bound(blocks[i][k])
    /\ \A k \in 1..(li - 1) : Bound(blocks[bi][k])
    /\ Approving => shown = Cardinality(Clauses(bi + 1))
    /\ Shows(bi) => bi \in approved

TurnInv ==
    /\ IsSeq(payload)
    /\ phase = "repair" => first = Garbage \/ IsSeq(first)
    /\ phase \in {"intent", "leaf"} => Accepted
    /\ phase = "intent" => AtIntent
    /\ phase = "leaf" => AtLeaf
    /\ NothingDestroyedUnconfirmed

\* The intents of an accepted plan, and the leaves left of each.
LEMMA AcceptedBlocks ==
    ASSUME IsSeq(payload), Accepted
    PROVE  /\ DOMAIN payload = 1..Len(payload) /\ Len(payload) \in Nat
           /\ DOMAIN blocks = 1..Len(payload) /\ Len(blocks) = Len(payload)
           /\ \A i \in 1..Len(payload) :
                 /\ Known(payload[i]) /\ blocks[i] = Optimized(Expand(payload[i]))
                 /\ \E n \in Nat \ {0} : DOMAIN blocks[i] = 1..n /\ Len(blocks[i]) = n
<1>1. DOMAIN payload = 1..Len(payload) /\ Len(payload) \in Nat
    BY DEF IsSeq
<1>2. blocks = [i \in 1..Len(payload) |-> Optimized(Expand(payload[i]))]
    BY <1>1 DEF Accepted
<1>3. \A i \in 1..Len(payload) : Known(payload[i])
    BY <1>1 DEF Accepted, ValidPlan, ValidStep
<1>4. DOMAIN blocks = 1..Len(payload) /\ Len(blocks) = Len(payload)
    BY <1>1, <1>2
<1>5. \A i \in 1..Len(payload) : blocks[i] = Optimized(Expand(payload[i]))
    BY <1>2
<1> QED  BY <1>1, <1>3, <1>4, <1>5, OptimizedNumbered

\* The clauses shown before intent i, and its own.
LEMMA ClauseCount ==
    ASSUME IsSeq(payload), NEW i \in 1..Len(payload)
    PROVE  /\ Cardinality(Clauses(i)) \in Nat /\ Clauses(1) = {}
           /\ TerminalStep(payload[i]) => Clauses(i + 1) = Clauses(i)
           /\ ~TerminalStep(payload[i]) =>
                /\ Cardinality(Clauses(i + 1)) = Cardinality(Clauses(i)) + 1
                /\ Summaries(payload)[Cardinality(Clauses(i)) + 1] = i
<1> DEFINE S == {j \in DOMAIN payload : ~TerminalStep(payload[j])}
<1>1. DOMAIN payload = 1..Len(payload) /\ Len(payload) \in Nat
    BY DEF IsSeq
<1>2. S \in SUBSET (1..Len(payload)) /\ S \in SUBSET Nat
    BY <1>1
<1>3. IsFiniteSet(1..Len(payload))
    <2>1. 1 \in Int /\ Len(payload) \in Int
        BY <1>1
    <2> QED  BY <2>1, FS_Interval
<1>4. IsFiniteSet(S) /\ Clauses(i) \in SUBSET (1..Len(payload)) /\ IsFiniteSet(Clauses(i)) /\ Cardinality(Clauses(i)) \in Nat
    BY <1>1, <1>2, <1>3, FS_Subset, FS_CardinalityType DEF Clauses
<1>5. Clauses(1) = {}
    BY <1>1 DEF Clauses
<1>6. Clauses(i + 1) = Clauses(i) \cup (IF TerminalStep(payload[i]) THEN {} ELSE {i})
    BY <1>1 DEF Clauses
<1>7. ASSUME ~TerminalStep(payload[i])
      PROVE  /\ Cardinality(Clauses(i + 1)) = Cardinality(Clauses(i)) + 1
             /\ Summaries(payload)[Cardinality(Clauses(i)) + 1] = i
    <2>1. i \notin Clauses(i) /\ Clauses(i + 1) = Clauses(i) \cup {i}
        BY <1>6, <1>7 DEF Clauses
    <2>2. Cardinality(Clauses(i + 1)) = Cardinality(Clauses(i)) + 1
        BY <2>1, <1>4, FS_AddElement
    <2>3. i \in S /\ Clauses(i + 1) = {j \in S : j <= i}
        BY <1>1, <1>7 DEF Clauses
    <2>4. Rank(S, i) = Cardinality(Clauses(i)) + 1
        BY <2>2, <2>3 DEF Rank
    <2>5. Summaries(payload) = InOrder(S)
        BY DEF Summaries
    <2> HIDE DEF S
    <2>6. InOrder(S)[Rank(S, i)] = i
        BY <1>2, <1>4, <2>3, InOrderRanks
    <2> QED  BY <2>2, <2>4, <2>5, <2>6
<1>8. TerminalStep(payload[i]) => Clauses(i + 1) = Clauses(i)
    BY <1>6
<1> QED  BY <1>4, <1>5, <1>7, <1>8

\* Every variable the next leaf uses is bound, once the plan has begun to run.
LEMMA NextLeafBound ==
    ASSUME IsSeq(payload), Accepted, AtLeaf, results # <<>>
    PROVE  Leaf.uses \subseteq DOMAIN ctx
<1> DEFINE step == payload[bi]
<1>1. /\ bi \in 1..Len(payload) /\ Known(step) /\ DOMAIN payload = 1..Len(payload) /\ Len(payload) \in Nat
      /\ Leaf = Optimized(Expand(step))[li] /\ li \in DOMAIN Optimized(Expand(step))
      /\ blocks[bi] = Optimized(Expand(step))
    BY AcceptedBlocks DEF AtLeaf, Leaf
<1> SUFFICES ASSUME NEW v \in Leaf.uses PROVE v \in DOMAIN ctx
    OBVIOUS
<1>2. CASE v \notin step.uses
    <2>1. v # NoVar /\ \E l \in 1..(li - 1) : blocks[bi][l].out = v
        BY <1>1, <1>2, OptimizedUses
    <2> QED  BY <2>1 DEF AtLeaf, Bound
<1>3. CASE v \in step.uses /\ Len(payload) > 1
    <2>1. v \in AssignedBefore(payload, bi)
        BY <1>1, <1>3 DEF Accepted, ValidPlan
    <2>2. PICK j \in 1..(bi - 1) : v = payload[j].out /\ v # NoVar
        BY <2>1 DEF AssignedBefore
    <2>3. j \in 1..Len(payload)
        BY <1>1
    <2>4. \E k \in DOMAIN blocks[j] : blocks[j][k].out = v
        BY <2>2, <2>3, AcceptedBlocks, OptimizedBinds
    <2> QED  BY <2>2, <2>4 DEF AtLeaf, Bound
<1>4. CASE v \in step.uses /\ ~(Len(payload) > 1)
    <2>1. Len(payload) = 1 /\ bi = 1 /\ li # 1
        BY <1>1, <1>4 DEF AtLeaf
    <2> DEFINE block == Expand(step)
    <2>2. PICK n \in Nat \ {0} : /\ DOMAIN Optimized(block) = 1..n /\ n <= Len(block)
                                 /\ DOMAIN block = 1..Len(block) /\ Len(block) \in Nat
        BY <1>1, OptimizedNumbered
    <2>3. IsSeq(block)
        BY <1>1, ExpandedShape
    <2>4. PICK m \in KeptSteps(block) :
              /\ Leaf = block[m]
              /\ \A j \in KeptSteps(block) : j < m => \E l \in 1..(li - 1) : blocks[bi][l] = block[j]
        BY <1>1, <2>3, OptimizedOrder
    <2>5. m \in 1..Len(block) /\ 1 \in 1..Len(block) /\ 2 \in 1..Len(block)
        BY <1>1, <2>1, <2>2, <2>4 DEF KeptSteps
    <2>6. DOMAIN Expanded(payload) = {1} /\ Expanded(payload)[1] = block
        BY <1>1, <2>1 DEF Expanded
    <2> HIDE DEF block
    <2>7. \A p : p \in Places(Expanded(payload)) <=> \E k \in 1..Len(block) : p = <<1, k>>
        BY <2>2, <2>6 DEF Places
    <2>8. <<1, m>> \in Places(Expanded(payload)) /\ Places(Expanded(payload)) # {<<1, m>>}
        <3>1. <<1, 1>> # <<1, 2>>
            OBVIOUS
        <3> QED  BY <3>1, <2>5, <2>7
    <2>9. block[m].uses \subseteq BoundBefore(Expanded(payload), <<1, m>>)
        BY <2>6, <2>8 DEF Accepted, ValidLeaves
    <2>10. PICK q \in Places(Expanded(payload)) : Precedes(q, <<1, m>>) /\ v = Expanded(payload)[q[1]][q[2]].out /\ v # NoVar
        BY <2>4, <2>9 DEF BoundBefore
    <2>11. PICK j \in 1..Len(block) : q = <<1, j>>
        BY <2>7, <2>10
    <2>12. j \in 1..(m - 1) /\ block[j].out = v
        BY <2>5, <2>6, <2>10, <2>11 DEF Precedes
    <2>13. j \in KeptSteps(block) /\ j < m
        BY <2>2, <2>3, <2>4, <2>5, <2>10, <2>12, UsedIsKept
    <2>14. \E l \in 1..(li - 1) : blocks[bi][l].out = v
        BY <2>4, <2>12, <2>13
    <2> QED  BY <2>10, <2>14 DEF AtLeaf, Bound
<1> QED  BY <1>2, <1>3, <1>4, <1>1

---------------------------------------------------------------------------
\* The steps.

LEMMA SaidIsSeq ==
    ASSUME NEW tool
    PROVE  IsSeq(<<Say(tool)>>)
<1>1. Range(<<Say(tool)>>) = {Say(tool)}
    BY DEF Range
<1> QED  BY <1>1 DEF IsSeq

LEMMA SettledIsSeq ==
    ASSUME NEW answer, answer = Garbage \/ IsSeq(answer)
    PROVE  IsSeq(Settle(answer))
BY SaidIsSeq DEF Settle

\* The parts of the invariant that no plan has to be running for.
LEMMA Waiting ==
    ASSUME IsSeq(payload'), phase' = "repair" => first' = Garbage \/ IsSeq(first'),
           phase' \notin {"intent", "leaf"}, NothingDestroyedUnconfirmed'
    PROVE  TurnInv'
BY DEF TurnInv

LEMMA Inferred ==
    ASSUME TurnInv, NEW a \in Answers \cup {Garbage}, Refuse \/ AskModel(a) \/ Repair(a)
    PROVE  TurnInv'
<1>1. IsSeq(a) \/ a = Garbage
    BY AnswersAssumption DEF IsSeq
<1>2. NothingDestroyedUnconfirmed' /\ phase' \in {"guard", "repair"}
    BY DEF TurnInv, Refuse, AskModel, Repair, NothingDestroyedUnconfirmed, call
<1>3. CASE Refuse
    BY <1>2, <1>3, SaidIsSeq, Waiting DEF Refuse
<1>4. CASE AskModel(a)
    BY <1>1, <1>2, <1>4, SettledIsSeq, Waiting DEF AskModel, TurnInv
<1>5. CASE Repair(a)
    <2>1. IsSeq(payload') /\ phase' = "guard"
        BY <1>1, <1>5, SettledIsSeq DEF Repair, TurnInv
    <2> QED  BY <1>2, <2>1, Waiting
<1> QED  BY <1>3, <1>4, <1>5

LEMMA Gated ==
    ASSUME TurnInv, Guard \/ GatesAsk \/ GatesRaise \/ LeafRaises
    PROVE  TurnInv'
<1>1. /\ payload' = payload /\ log' = log /\ confirmed' = confirmed
      /\ phase' \in {"over", "gates", "raised"}
    BY DEF Guard, GatesAsk, AskBack, GatesRaise, LeafRaises, RaiseError, call
<1> QED  BY <1>1, Waiting DEF TurnInv, NothingDestroyedUnconfirmed

\* A plan is accepted: nothing of it has run.
LEMMA PlanAccepted ==
    ASSUME TurnInv, Accept
    PROVE  TurnInv'
<1>1. /\ payload' = payload /\ log' = log /\ confirmed' = confirmed /\ phase' = "intent"
      /\ bi' = 1 /\ shown' = 0 /\ results' = <<>>
      /\ IsSeq(payload) /\ Accepted'
    BY DEF Accept, Accepted, TurnInv, call, Expanded
<1>2. Clauses(1)' = {} /\ Cardinality({}) = 0
    <2>1. \A j \in DOMAIN payload : ~(j < 1)
        BY <1>1 DEF IsSeq
    <2> QED  BY <1>1, <2>1, FS_EmptySet DEF Clauses
<1>3. 1 \in 1..(Len(payload) + 1) /\ 1..(1 - 1) = {}
    BY <1>1 DEF IsSeq
<1>4. AtIntent'
    BY <1>1, <1>2, <1>3 DEF AtIntent
<1> QED  BY <1>1, <1>4 DEF TurnInv, NothingDestroyedUnconfirmed

\* The clause of the intent is shown, and is the intent's own.
LEMMA IntentShown ==
    ASSUME TurnInv, NEW ok \in BOOLEAN, ShowIntent(ok)
    PROVE  TurnInv'
<1>1. /\ UNCHANGED <<call, payload, blocks, bi, ctx, results, log>> /\ bi <= Len(blocks)
      /\ IsSeq(payload) /\ Accepted /\ AtIntent
    BY DEF ShowIntent, TurnInv
<1>2. NothingDestroyedUnconfirmed'
    BY <1>1 DEF TurnInv, NothingDestroyedUnconfirmed, call
<1>3. CASE ~ok
    <2>1. phase' \in {"over", "ask"}
        BY <1>3 DEF ShowIntent, PlanEnds
    <2> QED  BY <1>1, <1>2, <2>1, Waiting
<1>4. CASE ok
    <2>1. phase' = "leaf" /\ li' = 1 /\ bi' = bi /\ bi \in 1..Len(payload)
        BY <1>1, <1>4, AcceptedBlocks DEF ShowIntent, AtIntent
    <2>2. 1 \in DOMAIN blocks[bi] /\ 1..(1 - 1) = {}
        BY <1>1, <2>1, AcceptedBlocks
    <2>3. Accepted'
        BY <1>1 DEF Accepted, Expanded
    <2>4. Approving' <=> Approving
        BY <1>1 DEF Approving, AllTerminal, call
    <2>5. CASE Shows(bi)
        <3>1. Approving /\ ~TerminalStep(payload[bi])
            BY <2>5 DEF Shows, Approving
        <3>2. shown' = shown + 1 /\ approved' = approved \cup {Summaries(payload)[shown + 1]}
            BY <1>4, <2>5 DEF ShowIntent
        <3>3. shown = Cardinality(Clauses(bi))
            BY <1>1, <3>1 DEF AtIntent
        <3>4. shown' = Cardinality(Clauses(bi + 1)) /\ bi \in approved'
            BY <1>1, <2>1, <3>1, <3>2, <3>3, ClauseCount
        <3>5. Clauses(bi + 1)' = Clauses(bi + 1)
            BY <1>1 DEF Clauses
        <3>6. AtLeaf'
            BY <1>1, <2>1, <2>2, <3>4, <3>5 DEF AtLeaf, AtIntent, Bound
        <3> QED  BY <1>1, <1>2, <2>1, <2>3, <3>6 DEF TurnInv
    <2>6. CASE ~Shows(bi)
        <3>1. shown' = shown /\ (Approving => TerminalStep(payload[bi])) /\ ~Shows(bi)'
            BY <1>1, <1>4, <2>6, <2>4 DEF ShowIntent, Shows, Approving, AllTerminal, call
        <3>2. Approving => shown' = Cardinality(Clauses(bi + 1))
            BY <1>1, <2>1, <3>1, ClauseCount DEF AtIntent
        <3>3. Clauses(bi + 1)' = Clauses(bi + 1)
            BY <1>1 DEF Clauses
        <3>4. AtLeaf'
            BY <1>1, <2>1, <2>2, <2>4, <3>1, <3>2, <3>3 DEF AtLeaf, AtIntent, Bound
        <3> QED  BY <1>1, <1>2, <2>1, <2>3, <3>4 DEF TurnInv
    <2> QED  BY <2>5, <2>6
<1> QED  BY <1>3, <1>4

\* A leaf runs: what it binds stays bound, and a destructive one was confirmed.
LEMMA LeafRun ==
    ASSUME TurnInv, NEW status \in Statuses, RunLeaf(status)
    PROVE  TurnInv'
<1>1. /\ UNCHANGED <<call, first, payload, blocks, shown, approved>>
      /\ IsSeq(payload) /\ Accepted /\ AtLeaf /\ li <= Len(blocks[bi])
      /\ ctx' = [v \in DOMAIN ctx \cup ({Leaf.out} \ {NoVar}) |-> IF v = Leaf.out THEN <<bi, li>> ELSE ctx[v]]
    BY DEF RunLeaf, Running, TurnInv
<1>2. NothingDestroyedUnconfirmed'
    <2>1. confirmed' = confirmed /\ NothingDestroyedUnconfirmed
        BY <1>1 DEF TurnInv, call
    <2>2. CASE ~Touches
        BY <2>1, <2>2 DEF RunLeaf, NothingDestroyedUnconfirmed
    <2>3. CASE Touches
        <3>1. Destructive(payload[bi]) \/ Destructive(Leaf) => confirmed
            BY <2>3 DEF RunLeaf, NeedsConfirmation, Touches
        <3>2. log' = log \cup {[turn |-> turn, intent |-> payload[bi], leaf |-> Leaf]}
            BY <2>3 DEF RunLeaf
        <3> QED  BY <2>1, <3>1, <3>2 DEF NothingDestroyedUnconfirmed
    <2> QED  BY <2>2, <2>3
<1>3. /\ Leaf.out = NoVar \/ Leaf.out \in DOMAIN ctx'
      /\ \A x \in DOMAIN ctx : x \in DOMAIN ctx'
    BY <1>1
<1>4. CASE Stops(status)
    <2>1. phase' \in {"over", "ask"}
        BY <1>4 DEF RunLeaf, PlanEnds
    <2> QED  BY <1>1, <1>2, <2>1, Waiting
<1>5. CASE ~Stops(status)
    <2>1. PICK n \in Nat \ {0} : DOMAIN blocks[bi] = 1..n /\ Len(blocks[bi]) = n
        BY <1>1, AcceptedBlocks DEF AtLeaf
    <2>2. /\ Len(payload) \in Nat /\ DOMAIN payload = 1..Len(payload)
          /\ bi \in 1..Len(payload) /\ li \in 1..n
        BY <1>1, <2>1, AcceptedBlocks DEF AtLeaf
    <2>3. Accepted' /\ (Approving' <=> Approving) /\ \A i : Clauses(i)' = Clauses(i)
        <3>1. Accepted'
            BY <1>1 DEF Accepted, Expanded
        <3>2. Approving' <=> Approving
            BY <1>1 DEF Approving, AllTerminal, call
        <3>3. \A i : Clauses(i)' = Clauses(i)
            BY <1>1 DEF Clauses
        <3> QED  BY <3>1, <3>2, <3>3
    <2>4. \A i \in 1..(bi - 1) : \A k \in DOMAIN blocks[i] :
              blocks[i][k].out = NoVar \/ blocks[i][k].out \in DOMAIN ctx'
        BY <1>1, <1>3 DEF AtLeaf, Bound
    <2>5. \A k \in 1..li : blocks[bi][k].out = NoVar \/ blocks[bi][k].out \in DOMAIN ctx'
        <3>1. \A k \in 1..(li - 1) : blocks[bi][k].out = NoVar \/ blocks[bi][k].out \in DOMAIN ctx'
            BY <1>1, <1>3 DEF AtLeaf, Bound
        <3>2. \A k \in 1..li : k = li \/ k \in 1..(li - 1)
            BY <2>2
        <3> QED  BY <1>3, <3>1, <3>2 DEF Leaf
    <2>6. CASE li < Len(blocks[bi])
        <3>1. phase' = "leaf" /\ li' = li + 1 /\ bi' = bi
            BY <1>5, <2>6 DEF RunLeaf, Running
        <3>2. li + 1 \in 1..n /\ (li + 1) - 1 = li /\ li + 1 > 1
            BY <2>1, <2>2, <2>6
        <3>3. Approving => shown = Cardinality(Clauses(bi + 1))
            BY <1>1 DEF AtLeaf
        <3>4. (Shows(bi) => bi \in approved)'
            BY <1>1, <3>1 DEF AtLeaf, Shows, AllTerminal, call
        <3>5. (\A k \in 1..(li - 1) : Bound(blocks[bi][k]))'
            BY <1>1, <2>5, <3>1, <3>2 DEF Bound
        <3>6. (\A i \in 1..(bi - 1) : \A k \in DOMAIN blocks[i] : Bound(blocks[i][k]))'
            BY <1>1, <2>4, <3>1 DEF Bound
        <3>7. (Approving => shown = Cardinality(Clauses(bi + 1)))'
            BY <1>1, <2>3, <3>1, <3>3
        <3>8. (bi \in 1..Len(payload) /\ li \in DOMAIN blocks[bi] /\ (bi > 1 \/ li > 1))'
            BY <1>1, <2>1, <2>2, <3>1, <3>2
        <3>9. AtLeaf'
            BY <3>4, <3>5, <3>6, <3>7, <3>8 DEF AtLeaf
        <3> QED  BY <1>1, <1>2, <2>3, <3>1, <3>9 DEF TurnInv
    <2>7. CASE ~(li < Len(blocks[bi]))
        <3>1. phase' = "intent" /\ bi' = bi + 1
            BY <1>5, <2>7 DEF RunLeaf
        <3>2. li = n /\ bi + 1 \in 1..(Len(payload) + 1) /\ bi + 1 > 1
            BY <2>1, <2>2, <2>7
        <3>3. \A i \in 1..((bi + 1) - 1) : i = bi \/ i \in 1..(bi - 1)
            BY <2>2
        <3>4. \A i \in 1..((bi + 1) - 1) : \A k \in DOMAIN blocks[i] :
                  blocks[i][k].out = NoVar \/ blocks[i][k].out \in DOMAIN ctx'
            BY <2>1, <2>4, <2>5, <3>2, <3>3
        <3>5. Approving => shown = Cardinality(Clauses(bi + 1))
            BY <1>1 DEF AtLeaf
        <3>6. (\A i \in 1..(bi - 1) : \A k \in DOMAIN blocks[i] : Bound(blocks[i][k]))'
            BY <1>1, <3>1, <3>4 DEF Bound
        <3>7. (Approving => shown = Cardinality(Clauses(bi)))'
            BY <1>1, <2>3, <3>1, <3>5
        <3>8. (bi \in 1..(Len(payload) + 1) /\ bi > 1)'
            BY <1>1, <3>1, <3>2
        <3>9. AtIntent'
            BY <3>6, <3>7, <3>8 DEF AtIntent
        <3> QED  BY <1>1, <1>2, <2>3, <3>1, <3>9 DEF TurnInv
    <2> QED  BY <2>6, <2>7
<1> QED  BY <1>4, <1>5

LEMMA PlanDone ==
    ASSUME TurnInv, AfterLastIntent
    PROVE  TurnInv'
<1>1. /\ UNCHANGED <<call, first, payload, log>> /\ IsSeq(payload)
      /\ phase' \in {"over", "ask"}
    BY DEF AfterLastIntent, PlanEnds, TurnInv
<1>2. NothingDestroyedUnconfirmed'
    BY <1>1 DEF TurnInv, NothingDestroyedUnconfirmed, call
<1> QED  BY <1>1, <1>2, Waiting

LEMMA Stutter ==
    ASSUME TurnInv, UNCHANGED turnVars
    PROVE  TurnInv'
<1>1. UNCHANGED <<dryRun, confirmed, approve, unsafe, phase, turn, first, payload, blocks, bi, li, shown,
                  approved, ctx, results, history, seen, log>>
    BY DEF turnVars, call, exec
<1> QED  BY <1>1 DEF TurnInv, Accepted, AtIntent, AtLeaf, Bound, Clauses, Approving, AllTerminal, Shows, Expanded,
                     NothingDestroyedUnconfirmed

LEMMA TurnStarts ==
    ASSUME TurnInit
    PROVE  TurnInv
<1>1. IsSeq(<<>>)
    BY DEF IsSeq
<1> QED  BY <1>1 DEF TurnInit, TurnInv, NothingDestroyedUnconfirmed

LEMMA TurnStep ==
    ASSUME TurnInv, [TurnNext]_turnVars
    PROVE  TurnInv'
<1>1. CASE Refuse \/ \E a \in Answers \cup {Garbage} : AskModel(a) \/ Repair(a)
    <2>1. Answers \cup {Garbage} # {}
        OBVIOUS
    <2> QED  BY <1>1, <2>1, Inferred
<1>2. CASE Guard \/ GatesAsk \/ GatesRaise \/ LeafRaises
    BY <1>2, Gated
<1>3. CASE Accept
    BY <1>3, PlanAccepted
<1>4. CASE \E ok \in BOOLEAN : ShowIntent(ok)
    BY <1>4, IntentShown
<1>5. CASE AfterLastIntent
    BY <1>5, PlanDone
<1>6. CASE \E s \in Statuses : RunLeaf(s)
    BY <1>6, LeafRun
<1>7. CASE UNCHANGED turnVars
    BY <1>7, Stutter
<1> QED  BY <1>1, <1>2, <1>3, <1>4, <1>5, <1>6, <1>7 DEF TurnNext

\* Where the loop of agent.py stands always agrees with what was planned, shown
\* and bound so far: the inductive invariant of a turn.
THEOREM TurnInvariant == TurnSpec => []TurnInv
<1>1. TurnInit => TurnInv
    BY TurnStarts
<1>2. TurnInv /\ [TurnNext]_turnVars => TurnInv'
    BY TurnStep
<1> QED  BY <1>1, <1>2, PTL DEF TurnSpec

---------------------------------------------------------------------------
\* In a call that was not confirmed, no leaf of a destructive intent and no
\* destructive leaf touches the user's files, whatever the model answers and
\* whatever the intent expands to (agent.py, _execute_steps).
THEOREM NothingDestroyed == TurnSpec => []NothingDestroyedUnconfirmed
<1>1. TurnInv => NothingDestroyedUnconfirmed
    BY DEF TurnInv
<1> QED  BY <1>1, TurnInvariant, PTL

\* An intent whose clause is to be shown runs only after that very clause was
\* shown and agreed to: the running count of clauses never drifts from the
\* intents, terminal ones between them included (agent.py, execute_plan).
THEOREM ApprovedRuns == TurnSpec => []ApprovedIsRun
<1>1. TurnInv => ApprovedIsRun
    BY DEF TurnInv, AtLeaf, ApprovedIsRun
<1> QED  BY <1>1, TurnInvariant, PTL

\* Once a plan has begun to run, the variables of its next leaf are bound: what
\* expansion renamed and optimisation dropped is never needed (planner.py,
\* optimize_plan; agent.py, _execute_steps).
THEOREM NothingDangles == TurnSpec => []NoDanglingVariable
<1>1. TurnInv => NoDanglingVariable
    BY NextLeafBound DEF TurnInv, NoDanglingVariable
<1> QED  BY <1>1, TurnInvariant, PTL

---------------------------------------------------------------------------
\* The files a plan is let read.  The three places that look at its references
\* do so in turn, each at a plan the one before has changed.

PastStems == stage \in {"gate", "rewrite", "preflight", "run"}
PastGate == stage \in {"rewrite", "preflight", "run"}

\* What the guard against invented names and the stems leave of an input.
Vouched(i, r) ==
    \/ IsTerminal(asked[i])
    \/ ~IsFile(r) \/ IsGlob(r)
    \/ Within(said, r)
    \/ NamedByStem(said, r, Listing)
    \/ r \in OutputsOf(asked)
    \/ ~HasDir(r) /\ IsStemCandidate(r.name.parts) /\ r.name \in Listing

AllVouched == \A i \in DOMAIN asked : \A r \in Range(asked[i].ins) : Vouched(i, r)

AllFiles == \A i \in DOMAIN asked : \A r \in Range(asked[i].ins) : ~IsGlob(r) /\ IsFile(r)

NamedInv ==
    /\ stage = "stems" => ~Hallucinated(asked, said, Listing)
    /\ PastStems => AllVouched
    /\ PastGate => ~UnderSpecified(asked, said)
    /\ stage \in {"preflight", "run"} => AllFiles

\* Nothing that NamedInv and the property look at changes past the stems.
LEMMA StillNamed ==
    ASSUME NamedInv, UNCHANGED <<said, asked, disk>>, PastGate,
           stage' = stage \/ (stage' \in {"preflight", "run"} /\ AllFiles)
    PROVE  NamedInv'
<1>1. Listing' = Listing
    BY DEF Listing
<1>2. AllVouched' = AllVouched /\ AllFiles' = AllFiles
    BY <1>1 DEF AllVouched, Vouched, AllFiles
<1>3. UnderSpecified(asked, said)' = UnderSpecified(asked, said)
    OBVIOUS
<1>4. stage' # "stems"
    BY DEF PastGate
<1> QED  BY <1>2, <1>3, <1>4 DEF NamedInv, PastGate, PastStems

\* A stem becomes a name that is there; the rest is as the guard left it.
LEMMA StemsVouch ==
    ASSUME ~Hallucinated(asked, said, Listing), asked' = ResolvedStems(asked), UNCHANGED <<said, disk>>
    PROVE  AllVouched'
<1> SUFFICES ASSUME NEW i \in DOMAIN asked', NEW r \in Range(asked[i].ins)'
             PROVE  Vouched(i, r)'
    BY DEF AllVouched
<1>1. PICK p, L : p = asked /\ L = Listing
    OBVIOUS
<1>2. /\ Listing' = L
      /\ DOMAIN asked' = DOMAIN p
      /\ \A j \in DOMAIN p : asked'[j].tool = p[j].tool /\ asked'[j].out = p[j].out
      /\ asked'[i].ins = [k \in DOMAIN p[i].ins |-> ResolveStem(p[i].ins[k])]
    BY <1>1 DEF ResolvedStems, Listing
<1>3. PICK k \in DOMAIN p[i].ins : r = ResolveStem(p[i].ins[k])
    BY <1>2 DEF Range
<1>4. OutputsOf(asked)' = OutputsOf(p)
    BY <1>2 DEF OutputsOf
<1>5. CASE r = p[i].ins[k]
    <2>1. r \in Range(p[i].ins)
        BY <1>5 DEF Range
    <2>2. IsTerminal(p[i]) \/ IsGlob(r) \/ ~IsFile(r) \/ r \in OutputsOf(p) \/ Within(said, r) \/ NamedByStem(said, r, L)
        BY <1>1, <1>2, <2>1 DEF Hallucinated
    <2>3. IsTerminal(asked[i])' <=> IsTerminal(p[i])
        BY <1>2 DEF IsTerminal
    <2> QED  BY <1>2, <1>4, <2>2, <2>3 DEF Vouched
<1>6. CASE r # p[i].ins[k]
    <2>1. PICK ref : ref = p[i].ins[k]
        OBVIOUS
    <2>2. IsStem(ref) /\ StemMatches(ref) # {} /\ r = Bare(CHOOSE n \in StemMatches(ref) : TRUE)
        BY <1>3, <1>6, <2>1 DEF ResolveStem
    <2>3. PICK n \in StemMatches(ref) : r = Bare(n)
        BY <2>2
    <2>4. n \in L /\ n.parts = ref.name.parts /\ IsStemCandidate(ref.name.parts)
        BY <1>1, <2>2 DEF StemMatches, IsStem
    <2>5. r.name = n /\ ~HasDir(r)
        BY <2>3 DEF Bare, HasDir
    <2> QED  BY <1>2, <2>4, <2>5 DEF Vouched
<1> QED  BY <1>5, <1>6

LEMMA NamedKept ==
    ASSUME NamedInv, [ChainNext]_<<vars, chainVars>>
    PROVE  NamedInv'
<1>1. CASE Ask
    BY <1>1 DEF Ask, NamedInv, PastStems, PastGate
<1>2. CASE Infer /\ ~Ask
    <2>1. PICK linked : linked = Linked(proposed, said)
        OBVIOUS
    <2>2. ~Hallucinated(linked, said, Listing) /\ asked' = linked /\ stage' = "stems" /\ UNCHANGED <<said, disk>>
        BY <1>2, <2>1 DEF Infer
    <2>3. Listing' = Listing
        BY <2>2 DEF Listing
    <2> QED  BY <2>2, <2>3 DEF NamedInv, PastStems, PastGate
<1>3. CASE ResolveStems /\ ~Ask
    <2>1. stage = "stems" /\ asked' = ResolvedStems(asked) /\ stage' = "gate" /\ UNCHANGED <<said, disk>>
        BY <1>3 DEF ResolveStems
    <2>2. AllVouched'
        BY <2>1, StemsVouch DEF NamedInv
    <2> QED  BY <2>1, <2>2 DEF NamedInv, PastStems, PastGate
<1>4. CASE ClarifyGate /\ ~Ask
    <2>1. stage = "gate" /\ ~UnderSpecified(asked, said) /\ stage' = "rewrite" /\ UNCHANGED <<said, asked, disk>>
        BY <1>4 DEF ClarifyGate, vars
    <2>2. Listing' = Listing
        BY <2>1 DEF Listing
    <2>3. AllVouched' = AllVouched /\ UnderSpecified(asked, said)' = UnderSpecified(asked, said)
        BY <2>1, <2>2 DEF AllVouched, Vouched
    <2> QED  BY <2>1, <2>3 DEF NamedInv, PastStems, PastGate
<1>5. CASE Rewrite
    <2>1. stage = "rewrite" /\ AllFiles /\ stage' \in {stage, "preflight"}
        BY <1>5 DEF Rewrite, AllFiles
    <2>2. UNCHANGED <<said, asked, disk>>
        BY <1>5 DEF Rewrite, Legal, PassStep, KeepOutput, MoveProducer, MoveConsumer
    <2> QED  BY <2>1, <2>2, StillNamed DEF PastGate
<1>6. CASE Preflight /\ ~Ask
    <2>1. stage = "preflight" /\ stage' = "run" /\ UNCHANGED <<said, asked, disk>>
        BY <1>6 DEF Preflight, vars
    <2> QED  BY <2>1, StillNamed DEF PastGate, NamedInv
<1>7. CASE Execute
    <2>1. stage = "run" /\ stage' = stage /\ UNCHANGED <<said, asked, disk>>
        BY <1>7 DEF Execute, RunStep, chainVars
    <2> QED  BY <2>1, StillNamed DEF PastGate
<1>8. CASE UNCHANGED <<vars, chainVars>>
    <2>1. UNCHANGED <<said, asked, disk, stage>>
        BY <1>8 DEF vars, chainVars
    <2>2. Listing' = Listing
        BY <2>1 DEF Listing
    <2> QED  BY <2>1, <2>2 DEF NamedInv, PastStems, PastGate, AllVouched, Vouched, AllFiles
<1> QED  BY <1>1, <1>2, <1>3, <1>4, <1>5, <1>6, <1>7, <1>8 DEF ChainNext

\* What the gate lets pass was written out, named by a stem, or made earlier,
\* where it looks; where it does not, the guard has looked.
LEMMA VouchedIsNamed ==
    ASSUME NamedInv, stage = "run", NEW i \in DOMAIN asked, NEW r \in Range(asked[i].ins), ~IsTerminal(asked[i])
    PROVE  \/ UserNamed(r)
           \/ \E j \in 1..(i - 1) : asked[j].out = r
           \/ Ungated(r) /\ \E j \in DOMAIN asked : asked[j].out = r
           \/ said.batch /\ IsStemCandidate(r.name.parts) /\ r.name \in Listing
<1>1. IsFile(r) /\ ~IsGlob(r) /\ Vouched(i, r) /\ ~UnderSpecified(asked, said)
    BY DEF NamedInv, PastStems, PastGate, AllVouched, AllFiles
<1>2. r \in OutputsOf(asked) => \E j \in DOMAIN asked : asked[j].out = r
    BY DEF OutputsOf
<1>3. NamedByStem(said, r, Listing) => UserNamed(r)
    BY DEF NamedByStem, UserNamed
<1>4. CASE said.batch \/ HasDir(r)
    BY <1>1, <1>2, <1>3, <1>4 DEF Vouched, Ungated, UserNamed
<1>5. CASE ~said.batch /\ ~HasDir(r)
    <2>1. (\E j \in 1..(i - 1) : asked[j].out = r) \/ Concrete(said, r)
        BY <1>1, <1>5 DEF UnderSpecified
    <2>2. WrittenOut(said, r) => Within(said, r)
        BY <1>5 DEF WrittenOut, Within
    <2>3. CASE StemWithin(said, r.name.parts)
        BY <1>1, <1>2, <1>3, <2>3 DEF Vouched, Ungated, UserNamed
    <2> QED  BY <2>1, <2>2, <2>3 DEF Concrete, UserNamed
<1> QED  BY <1>4, <1>5

\* A plan that is run reads only files that the user named or an earlier step
\* makes, for every plan the model may answer with, linked in whatever way; the
\* exceptions are the ones the gate leaves out (agent.py, infer and
\* _execute_plan_impl; nl_clarify_gate.py).
THEOREM NamedFilesOnly == ChainSpec => []OnlyNamedFilesRead
<1>1. ChainInit => NamedInv
    BY DEF ChainInit, NamedInv, PastStems, PastGate
<1>2. NamedInv /\ [ChainNext]_<<vars, chainVars>> => NamedInv'
    BY NamedKept
<1>3. NamedInv => OnlyNamedFilesRead
    BY VouchedIsNamed DEF OnlyNamedFilesRead
<1> QED  BY <1>1, <1>2, <1>3, PTL DEF ChainSpec

---------------------------------------------------------------------------
\* Names and paths.

Path == [dir : Seq(STRING), name : Name]

\* A list of members of S is a sequence over S.
LEMMA ListedIsSeq ==
    ASSUME NEW S, NEW n \in Nat, NEW f \in [1..n -> S]
    PROVE  f \in Seq(S) /\ Len(f) = n /\ DOMAIN f = 1..n
<1>1. f \in Seq(S)
    BY SeqDef
<1> QED  BY <1>1

\* Max of numbers that are bounded is one of them.
LEMMA GreatestNumber ==
    ASSUME NEW N \in Nat, NEW S \in SUBSET (0..N), S # {}
    PROVE  Max(S) \in S /\ \A x \in S : x <= Max(S)
<1> DEFINE T == {t \in Nat : \A x \in S : x <= t}
<1>1. N \in T
    OBVIOUS
<1>2. PICK t \in T : \A m \in T : t <= m
    <2> HIDE DEF T
    <2>1. T \in SUBSET Nat
        BY DEF T
    <2> QED  BY <1>1, <2>1, LeastNumber
<1>3. t \in S
    <2> SUFFICES ASSUME t \notin S PROVE FALSE
        OBVIOUS
    <2>1. PICK x \in S : TRUE
        OBVIOUS
    <2>2. \A y \in S : y \in Nat /\ y <= t /\ y # t
        BY <1>2
    <2>3. t - 1 \in T
        <3>1. t \in Nat /\ x \in Nat /\ x < t
            BY <1>2, <2>1, <2>2
        <3>2. \A y \in S : y <= t - 1
            BY <2>2, <3>1
        <3> QED  BY <3>1, <3>2
    <2>4. t <= t - 1
        BY <1>2, <2>3
    <2> QED  BY <1>2, <2>4
<1>4. t \in S /\ \A x \in S : t >= x
    BY <1>2, <1>3
<1>5. Max(S) \in S /\ \A x \in S : Max(S) >= x
    BY <1>4 DEF Max
<1>6. S \subseteq Nat
    OBVIOUS
<1> QED  BY <1>5, <1>6

\* The nearest earlier step that declares the path, if there is one.
LEMMA ProducerIs ==
    ASSUME NEW p, NEW path, NEW before \in Nat
    PROVE  LET j == ProducerOf(p, path, before)
           IN  /\ j # 0 => j \in 1..(before - 1) /\ HasOutput(p[j]) /\ OutPath(p[j]) = path
               /\ j \in Nat
               /\ \A m \in 1..(before - 1) : HasOutput(p[m]) /\ OutPath(p[m]) = path => m <= j
<1> DEFINE D == {j \in 1..(before - 1) : HasOutput(p[j]) /\ OutPath(p[j]) = path}
           S == {0} \cup D
<1>1. S \in SUBSET (0..before) /\ S # {}
    OBVIOUS
<1>2. ProducerOf(p, path, before) = Max(S)
    BY DEF ProducerOf
<1>3. Max(S) \in S /\ \A x \in S : x <= Max(S)
    <2> HIDE DEF S
    <2> QED  BY <1>1, GreatestNumber
<1> QED  BY <1>2, <1>3

\* What a finite set is mapped to is finite.
LEMMA ImageFinite ==
    ASSUME NEW f, IsFiniteSet(DOMAIN f)
    PROVE  IsFiniteSet({f[x] : x \in DOMAIN f})
<1> DEFINE g == [x \in DOMAIN f |-> f[x]]
           T == {f[x] : x \in DOMAIN f}
<1>1. g \in Surjection(DOMAIN f, T)
    BY DEF Surjection
<1> QED  BY <1>1, FS_Surjection

\* A name that is chosen is not one of those taken.
Candidate(path, mark, n) == [path EXCEPT !.name = Numbered(path.name, mark, n)]

LEMMA CandidatesDiffer ==
    ASSUME NEW path \in Path, NEW mark \in Part, NEW m \in Nat \ {0}, NEW n \in Nat \ {0},
           Candidate(path, mark, m) = Candidate(path, mark, n)
    PROVE  m = n
<1> DEFINE parts == path.name.parts
<1>1. parts \in Seq(Part) /\ path.name \in Name
    BY DEF Path, Name
<1>2. Numbered(path.name, mark, m) = Numbered(path.name, mark, n)
    BY DEF Candidate, Path
<1>3. Append(parts, mark) \o [k \in 1..(m - 1) |-> "_"] = Append(parts, mark) \o [k \in 1..(n - 1) |-> "_"]
    BY <1>2 DEF Numbered
<1> HIDE DEF parts
<1>4. ASSUME NEW l \in Nat \ {0}
      PROVE  [k \in 1..(l - 1) |-> "_"] \in Seq(Part) /\ Len([k \in 1..(l - 1) |-> "_"]) = l - 1
    <2> DEFINE f == [k \in 1..(l - 1) |-> "_"]
    <2>1. f \in [1..(l - 1) -> Part]
        BY DEF Part
    <2>3. l - 1 \in Nat
        OBVIOUS
    <2> HIDE DEF f
    <2>2. f \in Seq(Part) /\ Len(f) = l - 1
        <3>1. PICK c \in Nat : c = l - 1
            BY <2>3
        <3>2. f \in [1..c -> Part]
            BY <2>1, <3>1
        <3>3. f \in Seq(Part) /\ Len(f) = c
            BY <3>2, ListedIsSeq
        <3> QED  BY <3>1, <3>3
    <2> QED  BY <2>2 DEF f
<1>5. Append(parts, mark) \in Seq(Part) /\ Len(Append(parts, mark)) = Len(parts) + 1 /\ Len(parts) \in Nat
    BY <1>1
<1>6. \A l \in Nat \ {0} : Len(Append(parts, mark) \o [k \in 1..(l - 1) |-> "_"]) = Len(parts) + 1 + (l - 1)
    <2> TAKE l \in Nat \ {0}
    <2>1. PICK t : t = [k \in 1..(l - 1) |-> "_"]
        OBVIOUS
    <2>2. t \in Seq(Part) /\ Len(t) = l - 1
        BY <1>4, <2>1
    <2>3. Len(Append(parts, mark) \o t) = Len(Append(parts, mark)) + Len(t)
        BY <1>5, <2>2
    <2> QED  BY <1>5, <2>1, <2>2, <2>3
<1>7. Len(parts) + 1 + (m - 1) = Len(parts) + 1 + (n - 1)
    BY <1>3, <1>6
<1> QED  BY <1>5, <1>7

LEMMA CandidateIsPath ==
    ASSUME NEW path \in Path, NEW mark \in Part, NEW n \in Nat \ {0}
    PROVE  Candidate(path, mark, n) \in Path /\ Candidate(path, mark, n).dir = path.dir
<1> DEFINE parts == path.name.parts
           t == [k \in 1..(n - 1) |-> "_"]
<1>1. parts \in Seq(Part) /\ path.name.ext \in STRING
    BY DEF Path, Name
<1>2. t \in Seq(Part)
    <2>1. t \in [1..(n - 1) -> Part]
        BY DEF Part
    <2>3. n - 1 \in Nat
        OBVIOUS
    <2> HIDE DEF t
    <2>2. PICK c \in Nat : c = n - 1
        BY <2>3
    <2>4. t \in [1..c -> Part]
        BY <2>1, <2>2
    <2> QED  BY <2>4, ListedIsSeq
<1>3. Append(parts, mark) \o t \in Seq(Part)
    <2> HIDE DEF parts, t
    <2> QED  BY <1>1, <1>2
<1>4. Numbered(path.name, mark, n) \in Name
    BY <1>1, <1>3 DEF Numbered, Name
<1> QED  BY <1>4 DEF Candidate, Path

\* Counting up to one more than there are taken names finds a free one.
LEMMA FreeCandidate ==
    ASSUME NEW path \in Path, NEW mark \in Part, NEW taken, IsFiniteSet(taken)
    PROVE  LET c == FirstFree(LAMBDA n : [path EXCEPT !.name = Numbered(@, mark, n)], taken)
           IN  c \notin taken /\ c \in Path /\ c.dir = path.dir
<1> DEFINE b == Cardinality(taken) + 1
           F == {n \in 1..b : Candidate(path, mark, n) \notin taken}
<1>1. b \in Nat \ {0}
    BY FS_CardinalityType
<1>2. F # {}
    <2> SUFFICES ASSUME \A n \in 1..b : Candidate(path, mark, n) \in taken PROVE FALSE
        OBVIOUS
    <2> DEFINE f == [n \in 1..b |-> Candidate(path, mark, n)]
    <2>1. f \in [1..b -> taken]
        OBVIOUS
    <2>2. IsFiniteSet(1..b) /\ Cardinality(1..b) = b
        <3> HIDE DEF b
        <3> QED  BY <1>1, FS_Interval
    <2>3. Cardinality(taken) < Cardinality(1..b)
        BY <2>2, FS_CardinalityType
    <2> HIDE DEF b, f
    <2>4. PICK x, y \in 1..b : x # y /\ f[x] = f[y]
        BY <2>1, <2>2, <2>3, FS_PigeonHole
    <2>5. x \in Nat \ {0} /\ y \in Nat \ {0}
        BY <1>1
    <2>6. Candidate(path, mark, x) = Candidate(path, mark, y)
        BY <2>4 DEF f
    <2> QED  BY <2>4, <2>5, <2>6, CandidatesDiffer
<1>3. F \in SUBSET Nat /\ F \in SUBSET (Nat \ {0})
    <2> HIDE DEF b
    <2>1. \A n \in F : n \in 1..b
        OBVIOUS
    <2> HIDE DEF F
    <2> QED  BY <1>1, <2>1
<1>4. FirstFree(LAMBDA n : [path EXCEPT !.name = Numbered(@, mark, n)], taken) = Candidate(path, mark, Min(F))
    BY DEF FirstFree, Candidate
<1> HIDE DEF F
<1>5. PICK n \in F : \A m \in F : n <= m
    BY <1>2, <1>3, LeastNumber
<1>6. Min(F) \in F
    BY <1>5 DEF Min
<1>7. Candidate(path, mark, Min(F)) \notin taken
    BY <1>6 DEF F
<1> QED  BY <1>3, <1>4, <1>6, <1>7, CandidateIsPath

---------------------------------------------------------------------------
\* What a reference denotes, and what becomes of it.

LEMMA RefPath ==
    ASSUME NEW ref \in Reference
    PROVE  InPath(ref) = [dir |-> ref.dir, name |-> ref.name] /\ InPath(ref) \in Path
<1>1. ref.dir \in Seq(STRING) /\ ref.name \in Name
    BY DEF Reference
<1>2. <<>> \o ref.dir = ref.dir
    BY <1>1, ConcatEmptySeq
<1> QED  BY <1>1, <1>2 DEF InPath, Under, Path

LEMMA UnderIsPath ==
    ASSUME NEW base \in Seq(STRING), NEW ref \in Reference
    PROVE  Under(base, ref) \in Path
<1>1. ref.dir \in Seq(STRING) /\ ref.name \in Name
    BY DEF Reference
<1>2. base \o ref.dir \in Seq(STRING)
    BY <1>1
<1> QED  BY <1>1, <1>2 DEF Under, Path

LEMMA RespellIs ==
    ASSUME NEW base \in Seq(STRING), NEW ref \in Reference, NEW chosen \in Path,
           chosen.dir = Under(base, ref).dir
    PROVE  Respell(ref, chosen) \in Reference /\ Under(base, Respell(ref, chosen)) = chosen
<1>1. ref.dir \in Seq(STRING) /\ ref.name \in Name /\ ref.abs \in BOOLEAN
    BY DEF Reference
<1>2. chosen.dir \in Seq(STRING) /\ chosen.name \in Name /\ chosen = [dir |-> chosen.dir, name |-> chosen.name]
    BY DEF Path
<1>3. Respell(ref, chosen) \in Reference
    BY <1>1, <1>2 DEF Respell, Reference
<1>4. CASE ref.abs
    <2>1. PICK r : r = Respell(ref, chosen)
        OBVIOUS
    <2>2. r.abs = ref.abs /\ r.dir = chosen.dir /\ r.name = chosen.name
        BY <1>4, <2>1 DEF Respell
    <2>3. r.abs
        BY <1>4, <2>2
    <2>4. Under(base, r) = [dir |-> r.dir, name |-> r.name]
        BY <2>3 DEF Under
    <2> QED  BY <1>2, <1>3, <2>1, <2>2, <2>4
<1>5. CASE ~ref.abs
    <2>1. PICK r : r = Respell(ref, chosen)
        OBVIOUS
    <2>2. r.abs = ref.abs /\ r.dir = ref.dir /\ r.name = chosen.name
        BY <1>5, <2>1 DEF Respell
    <2>3. ~r.abs
        BY <1>5, <2>2
    <2>4. Under(base, r) = [dir |-> base \o ref.dir, name |-> chosen.name]
        BY <2>2, <2>3 DEF Under
    <2>5. Under(base, ref).dir = base \o ref.dir
        BY <1>5 DEF Under
    <2> QED  BY <1>2, <1>3, <2>1, <2>4, <2>5
<1> QED  BY <1>1, <1>3, <1>4, <1>5

LEMMA StepParts ==
    ASSUME NEW step \in Step
    PROVE  /\ step.ins \in Seq(Reference) /\ DOMAIN step.ins = 1..Len(step.ins) /\ Len(step.ins) \in Nat
           /\ \A k \in DOMAIN step.ins : step.ins[k] \in Reference
           /\ HasOutput(step) => step.out \in Reference
           /\ OutputBase(step) \in Seq(STRING)
           /\ HasOutput(step) => OutPath(step) \in Path
           /\ \A k \in DOMAIN step.ins : InPath(step.ins[k]) \in Path
<1>1. step.ins \in Seq(Reference) /\ DOMAIN step.ins = 1..Len(step.ins) /\ Len(step.ins) \in Nat
    BY DEF Step
<1>2. \A k \in DOMAIN step.ins : step.ins[k] \in Reference
    BY <1>1
<1>3. HasOutput(step) => step.out \in Reference
    BY DEF HasOutput, Step
<1>4. \A k \in DOMAIN step.ins : InPath(step.ins[k]) \in Path
    BY <1>2, RefPath
<1>5. OutputBase(step) \in Seq(STRING)
    <2>1. CASE step.tool \in SandboxOutputTools \/ 1 \notin DOMAIN step.ins
        <3>1. OutputBase(step) = <<>>
            BY <2>1 DEF OutputBase
        <3> QED  BY <3>1, EmptySeq
    <2>2. CASE ~(step.tool \in SandboxOutputTools \/ 1 \notin DOMAIN step.ins)
        <3>1. InPath(step.ins[1]) \in Path
            BY <1>4, <2>2
        <3> QED  BY <2>2, <3>1 DEF OutputBase, Path
    <2> QED  BY <2>1, <2>2
<1>6. HasOutput(step) => OutPath(step) \in Path
    BY <1>3, <1>5, UnderIsPath DEF OutPath
<1> QED  BY <1>1, <1>2, <1>3, <1>4, <1>5, <1>6

\* Only the inputs that denote the path change, and they denote the chosen one.
LEMMA ReboundIs ==
    ASSUME NEW step \in Step, NEW path, NEW chosen \in Path, chosen.dir = path.dir, NEW q, q = Rebound(step, path, chosen)
    PROVE  /\ q \in Step /\ q.tool = step.tool /\ q.out = step.out /\ DOMAIN q.ins = DOMAIN step.ins
           /\ \A k \in DOMAIN step.ins :
                 InPath(q.ins[k]) = IF ~IsTerminal(step) /\ InPath(step.ins[k]) = path THEN chosen ELSE InPath(step.ins[k])
           /\ OutputBase(q) = OutputBase(step)
<1>1. CASE IsTerminal(step)
    BY <1>1 DEF Rebound
<1>2. CASE ~IsTerminal(step)
    <2> DEFINE new == [k \in DOMAIN step.ins |->
                         IF InPath(step.ins[k]) = path THEN Respell(step.ins[k], chosen) ELSE step.ins[k]]
    <2>1. q = [step EXCEPT !.ins = new]
        BY <1>2 DEF Rebound
    <2>2. /\ step.ins \in Seq(Reference) /\ DOMAIN step.ins = 1..Len(step.ins) /\ Len(step.ins) \in Nat
          /\ \A k \in DOMAIN step.ins : step.ins[k] \in Reference
        BY StepParts
    <2>3. ASSUME NEW k \in DOMAIN step.ins
          PROVE  /\ new[k] \in Reference
                 /\ InPath(new[k]) = IF InPath(step.ins[k]) = path THEN chosen ELSE InPath(step.ins[k])
        <3>1. CASE InPath(step.ins[k]) = path
            <4>1. new[k] = Respell(step.ins[k], chosen) /\ step.ins[k] \in Reference /\ <<>> \in Seq(STRING)
                BY <2>2, <3>1
            <4>2. chosen.dir = Under(<<>>, step.ins[k]).dir
                BY <3>1 DEF InPath
            <4> QED  BY <3>1, <4>1, <4>2, RespellIs DEF InPath
        <3>2. CASE InPath(step.ins[k]) # path
            BY <2>2, <3>2
        <3> QED  BY <3>1, <3>2
    <2>4. new \in [1..Len(step.ins) -> Reference] /\ DOMAIN new = DOMAIN step.ins
        BY <2>2, <2>3
    <2> HIDE DEF new
    <2>5. new \in Seq(Reference)
        BY <2>2, <2>4, ListedIsSeq
    <2>6. q \in Step /\ q.tool = step.tool /\ q.out = step.out /\ q.ins = new
        BY <2>1, <2>5 DEF Step
    <2>7. OutputBase(q) = OutputBase(step)
        <3>1. CASE 1 \in DOMAIN step.ins
            <4>1. InPath(new[1]).dir = InPath(step.ins[1]).dir
                BY <2>3, <3>1
            <4> QED  BY <2>4, <2>6, <4>1 DEF OutputBase
        <3>2. CASE 1 \notin DOMAIN step.ins
            BY <2>4, <2>6, <3>2 DEF OutputBase
        <3> QED  BY <3>1, <3>2
    <2> QED  BY <1>2, <2>3, <2>4, <2>6, <2>7
<1> QED  BY <1>1, <1>2

\* The plan with the output of step j renamed and the references of the steps
\* from lo to hi with it.
Swapped(S, path, chosen) == {IF x = path THEN chosen ELSE x : x \in S}

RenamedAt(p, j, lo, hi, path, chosen) ==
    ReboundBetween([p EXCEPT ![j].out = Respell(@, chosen)], lo, hi, path, chosen)

Renamed(p, q, j, lo, hi, path, chosen) ==
    /\ q \in [DOMAIN p -> Step]
    /\ \A m \in DOMAIN p :
          /\ q[m].tool = p[m].tool
          /\ HasOutput(q[m]) <=> HasOutput(p[m])
          /\ DOMAIN q[m].ins = DOMAIN p[m].ins
          /\ \A k \in DOMAIN p[m].ins :
                InPath(q[m].ins[k]) = IF m \in lo..hi /\ ~IsTerminal(p[m]) /\ InPath(p[m].ins[k]) = path
                                      THEN chosen ELSE InPath(p[m].ins[k])
          /\ OutPath(q[m]) = IF m = j THEN chosen ELSE OutPath(p[m])
          /\ InPaths(q[m]) = IF m \in lo..hi /\ ~IsTerminal(p[m])
                             THEN Swapped(InPaths(p[m]), path, chosen)
                             ELSE InPaths(p[m])

\* What a move leaves of each step of the plan.
LEMMA RenameIs ==
    ASSUME NoFile \notin Reference, NEW D, NEW p \in [D -> Step], NEW j \in D, NEW lo, NEW hi, j \notin lo..hi,
           HasOutput(p[j]), NEW chosen \in Path, chosen.dir = OutPath(p[j]).dir
    PROVE  Renamed(p, RenamedAt(p, j, lo, hi, OutPath(p[j]), chosen), j, lo, hi, OutPath(p[j]), chosen)
<1> DEFINE path == OutPath(p[j])
           r == [p EXCEPT ![j].out = Respell(@, chosen)]
           q == RenamedAt(p, j, lo, hi, path, chosen)
<1>1. /\ p[j] \in Step /\ p[j].out \in Reference /\ OutputBase(p[j]) \in Seq(STRING)
      /\ Respell(p[j].out, chosen) \in Reference
      /\ Under(OutputBase(p[j]), Respell(p[j].out, chosen)) = chosen
    BY StepParts, RespellIs DEF OutPath
<1>2. r \in [D -> Step] /\ \A m \in D : m # j => r[m] = p[m]
    BY <1>1 DEF Step
<1>3. /\ r[j].tool = p[j].tool /\ r[j].ins = p[j].ins /\ r[j].out = Respell(p[j].out, chosen)
      /\ OutputBase(r[j]) = OutputBase(p[j])
    BY <1>1 DEF Step, OutputBase
<1>4. HasOutput(r[j]) /\ OutPath(r[j]) = chosen
    BY <1>1, <1>3 DEF HasOutput, OutPath, IsTerminal
<1>5. ASSUME NEW m \in D
      PROVE  /\ r[m] \in Step /\ r[m].tool = p[m].tool /\ r[m].ins = p[m].ins /\ OutputBase(r[m]) = OutputBase(p[m])
             /\ HasOutput(r[m]) <=> HasOutput(p[m])
             /\ OutPath(r[m]) = IF m = j THEN chosen ELSE OutPath(p[m])
             /\ m # j => r[m].out = p[m].out
    BY <1>2, <1>3, <1>4
<1> HIDE DEF r
<1>6. DOMAIN q = D /\ \A m \in D : q[m] = IF m \in lo..hi THEN Rebound(r[m], path, chosen) ELSE r[m]
    BY <1>2 DEF RenamedAt, ReboundBetween, r
<1> HIDE DEF q
<1>7. ASSUME NEW m \in D
      PROVE  /\ q[m] \in Step /\ q[m].tool = p[m].tool /\ (HasOutput(q[m]) <=> HasOutput(p[m]))
             /\ DOMAIN q[m].ins = DOMAIN p[m].ins
             /\ \A k \in DOMAIN p[m].ins :
                   InPath(q[m].ins[k]) = IF m \in lo..hi /\ ~IsTerminal(p[m]) /\ InPath(p[m].ins[k]) = path
                                         THEN chosen ELSE InPath(p[m].ins[k])
             /\ OutPath(q[m]) = IF m = j THEN chosen ELSE OutPath(p[m])
             /\ InPaths(q[m]) = IF m \in lo..hi /\ ~IsTerminal(p[m])
                                THEN Swapped(InPaths(p[m]), path, chosen)
                                ELSE InPaths(p[m])
    <2>1. CASE m \notin lo..hi
        <3>1. q[m] = r[m]
            BY <1>6, <2>1
        <3>2. InPaths(q[m]) = InPaths(p[m])
            BY <1>5, <3>1 DEF InPaths
        <3> QED  BY <1>5, <2>1, <3>1, <3>2
    <2>2. CASE m \in lo..hi
        <3>1. PICK s \in Step : s = r[m]
            BY <1>5
        <3>2. PICK t : t = q[m]
            OBVIOUS
        <3>3. t = Rebound(s, path, chosen)
            BY <1>6, <2>2, <3>1, <3>2
        <3>4. /\ t \in Step /\ t.tool = s.tool /\ t.out = s.out /\ DOMAIN t.ins = DOMAIN s.ins
              /\ \A k \in DOMAIN s.ins :
                    InPath(t.ins[k]) = IF ~IsTerminal(s) /\ InPath(s.ins[k]) = path THEN chosen ELSE InPath(s.ins[k])
              /\ OutputBase(t) = OutputBase(s)
            BY <3>3, ReboundIs
        <3>5. (HasOutput(t) <=> HasOutput(s)) /\ OutPath(t) = OutPath(s) /\ (IsTerminal(s) <=> IsTerminal(p[m]))
            BY <1>5, <3>1, <3>4 DEF HasOutput, OutPath, IsTerminal
        <3>6. InPaths(s) = InPaths(p[m])
            BY <1>5, <3>1 DEF InPaths
        <3>7. InPaths(t) = IF ~IsTerminal(s) THEN Swapped(InPaths(s), path, chosen) ELSE InPaths(s)
            <4>1. CASE IsTerminal(s)
                BY <3>4, <4>1 DEF InPaths
            <4>2. CASE ~IsTerminal(s)
                BY <3>4, <4>2 DEF InPaths, Swapped
            <4> QED  BY <4>1, <4>2
        <3> QED  BY <1>5, <2>2, <3>1, <3>2, <3>4, <3>5, <3>6, <3>7
    <2> QED  BY <2>1, <2>2
<1>8. q \in [D -> Step]
    <2>1. q = [m \in D |-> q[m]]
        BY <1>6 DEF q, RenamedAt, ReboundBetween
    <2> QED  BY <1>7, <2>1
<1>9. DOMAIN p = D
    OBVIOUS
<1> QED  BY <1>7, <1>8, <1>9 DEF Renamed, q

\* _bind_legal_output_names keeps the shape of a plan.
LEMMA LegalIs ==
    ASSUME PlansAssumption, RespelledAssumption, NEW p \in Seq(Step)
    PROVE  /\ LegalPlan(p) \in [DOMAIN p -> Step]
           /\ \A m \in DOMAIN p :
                 /\ LegalPlan(p)[m].tool = p[m].tool
                 /\ DOMAIN LegalPlan(p)[m].ins = DOMAIN p[m].ins
                 /\ HasOutput(LegalPlan(p)[m]) <=> HasOutput(p[m])
<1>1. ASSUME NEW ref \in Reference PROVE LegalRef(ref) \in Reference
    <2> DEFINE parts == ref.name.parts
               new == [k \in DOMAIN parts |-> IF parts[k] \in DOMAIN Respelled THEN Respelled[parts[k]] ELSE parts[k]]
    <2>1. ref.name \in Name /\ parts \in Seq(Part)
        BY DEF Reference, Name
    <2>2. DOMAIN parts = 1..Len(parts) /\ Len(parts) \in Nat /\ \A k \in DOMAIN parts : parts[k] \in Part
        BY <2>1
    <2>3. new \in [1..Len(parts) -> Part]
        BY <2>2 DEF RespelledAssumption
    <2>4. LegalRef(ref) = [ref EXCEPT !.name.parts = new]
        BY DEF LegalRef
    <2> HIDE DEF new, parts
    <2>5. new \in Seq(Part)
        BY <2>2, <2>3, ListedIsSeq
    <2> QED  BY <2>1, <2>4, <2>5 DEF Reference, Name
<1> DEFINE L == LegalPlan(p)
<1>2. ASSUME NEW m \in DOMAIN p
      PROVE  /\ L[m] \in Step /\ L[m].tool = p[m].tool /\ DOMAIN L[m].ins = DOMAIN p[m].ins
             /\ HasOutput(L[m]) <=> HasOutput(p[m])
    <2>1. PICK s \in Step : s = p[m]
        OBVIOUS
    <2> DEFINE new == [k \in DOMAIN s.ins |-> IF ~IsTerminal(s) /\ WrittenBefore(p, m, s.ins[k])
                                              THEN LegalRef(s.ins[k]) ELSE s.ins[k]]
               out == IF HasOutput(s) THEN LegalRef(s.out) ELSE s.out
    <2>2. /\ DOMAIN s.ins = 1..Len(s.ins) /\ Len(s.ins) \in Nat
          /\ \A k \in DOMAIN s.ins : s.ins[k] \in Reference
          /\ HasOutput(s) => s.out \in Reference
        BY StepParts
    <2>3. new \in [1..Len(s.ins) -> Reference]
        BY <1>1, <2>2
    <2>4. out \in Reference \cup {NoFile} /\ (HasOutput(s) => out \in Reference) /\ (~HasOutput(s) => out = s.out)
        BY <1>1, <2>2 DEF Step
    <2>5. L[m] = [tool |-> s.tool, ins |-> new, out |-> out]
        BY <2>1 DEF LegalPlan
    <2> HIDE DEF new, out
    <2>6. new \in Seq(Reference) /\ DOMAIN new = DOMAIN s.ins
        BY <2>2, <2>3, ListedIsSeq
    <2>7. L[m] \in Step /\ L[m].tool = s.tool /\ L[m].out = out /\ L[m].ins = new
        BY <2>4, <2>5, <2>6 DEF Step
    <2>8. HasOutput(L[m]) <=> HasOutput(s)
        BY <2>4, <2>7 DEF HasOutput, IsTerminal, PlansAssumption
    <2> QED  BY <2>1, <2>6, <2>7, <2>8
<1>3. L = [m \in DOMAIN p |-> L[m]]
    BY DEF LegalPlan
<1> HIDE DEF L
<1>4. L \in [DOMAIN p -> Step]
    BY <1>2, <1>3
<1> QED  BY <1>2, <1>4 DEF L

---------------------------------------------------------------------------
\* The walk.  What holds of the plan p that the walk has made of the plan N
\* when it is past the first w steps: decl are the declared paths, mov the
\* chosen ones, and dk the files that were there.

EndsBranch(N, m) ==
    /\ HasOutput(N[m])
    /\ \E k \in DOMAIN N : k < m /\ HasOutput(N[k]) /\ OutPath(N[k]) = OutPath(N[m])
    /\ \A k \in DOMAIN N : k > m /\ HasOutput(N[k]) => OutPath(N[k]) # OutPath(N[m])

\* A step that is walked over and declares the path, or no reader of it left.
Followed(p, w, path) ==
    \/ \E m \in DOMAIN p : m <= w /\ HasOutput(p[m]) /\ OutPath(p[m]) = path
    \/ \A m \in DOMAIN p : m > w /\ ~IsTerminal(p[m]) => path \notin InPaths(p[m])

SameShape(p, N) ==
    /\ p \in [DOMAIN N -> Step]
    /\ \A m \in DOMAIN N :
          /\ p[m].tool = N[m].tool
          /\ HasOutput(p[m]) <=> HasOutput(N[m])
          /\ DOMAIN p[m].ins = DOMAIN N[m].ins

\* All that the plan declares is spoken for, and it reads nothing else but what it read.
Accounted(p, N, decl) ==
    /\ DeclaredBy(N) \subseteq decl
    /\ \A m \in DOMAIN N : HasOutput(p[m]) => OutPath(p[m]) \in decl
    /\ \A m \in DOMAIN N : ~IsTerminal(p[m]) => InPaths(p[m]) \subseteq ReadBy(N) \cup decl

\* A chosen name is new to the disk and to the plan, and one step writes it.
Fresh(p, N, decl, mov, dk) ==
    /\ mov \subseteq decl /\ mov \cap dk = {} /\ mov \cap DeclaredBy(N) = {}
    /\ \A k, m \in DOMAIN N : HasOutput(p[k]) /\ HasOutput(p[m]) /\ OutPath(p[k]) \in mov /\ OutPath(p[k]) = OutPath(p[m])
                            => k = m

\* An output has its own name or a chosen one; an end of a branch, its own.
NamesKept(p, N, mov, w) ==
    \A m \in DOMAIN N : HasOutput(p[m]) =>
        /\ OutPath(p[m]) = OutPath(N[m]) \/ OutPath(p[m]) \in mov
        /\ m > w \/ EndsBranch(N, m) => OutPath(p[m]) = OutPath(N[m])

\* The plan p that the walk has made of N on its first w steps.
Rewritten(p, N, decl, mov, dk, w) ==
    /\ SameShape(p, N)
    /\ Accounted(p, N, decl)
    /\ \A m \in DOMAIN N : m <= w /\ HasOutput(p[m]) => ~Overwrites(p[m])
    /\ Fresh(p, N, decl, mov, dk)
    /\ NamesKept(p, N, mov, w)
    /\ \A k \in DOMAIN N : k <= w /\ HasOutput(N[k]) => Followed(p, w, OutPath(N[k]))

\* What _bind_legal_output_names leaves, before the walk.
LEMMA RewriteStarts ==
    ASSUME NEW n \in Nat, NEW N \in [1..n -> Step], NEW dk
    PROVE  Rewritten(N, N, DeclaredBy(N), {}, dk, 0)
<1>1. SameShape(N, N)
    BY DEF SameShape
<1>2. Accounted(N, N, DeclaredBy(N))
    <2>1. ASSUME NEW m \in DOMAIN N, ~IsTerminal(N[m]) PROVE InPaths(N[m]) \subseteq ReadBy(N)
        BY <2>1 DEF ReadBy
    <2> QED  BY <2>1 DEF Accounted, DeclaredBy
<1>3. Fresh(N, N, DeclaredBy(N), {}, dk)
    BY DEF Fresh
<1>4. NamesKept(N, N, {}, 0)
    BY DEF NamesKept
<1> QED  BY <1>1, <1>2, <1>3, <1>4 DEF Rewritten

\* A step that has no output, or does not overwrite its input, stays as it is.
LEMMA RewritePasses ==
    ASSUME NEW n \in Nat, NEW N \in [1..n -> Step], NEW p, NEW decl, NEW mov, NEW dk, NEW w \in Nat, w + 1 \in 1..n,
           Rewritten(p, N, decl, mov, dk, w), HasOutput(p[w + 1]) => ~Overwrites(p[w + 1])
    PROVE  Rewritten(p, N, decl, mov, dk, w + 1)
<1> DEFINE i == w + 1
<1>1. /\ SameShape(p, N) /\ Accounted(p, N, decl) /\ Fresh(p, N, decl, mov, dk) /\ NamesKept(p, N, mov, w)
      /\ \A m \in 1..n : m <= w /\ HasOutput(p[m]) => ~Overwrites(p[m])
      /\ \A k \in 1..n : k <= w /\ HasOutput(N[k]) => Followed(p, w, OutPath(N[k]))
    BY DEF Rewritten
<1>2. /\ i \in 1..n /\ \A m \in 1..n : m <= i <=> m <= w \/ m = i
      /\ \A m \in 1..n : m > i => m > w
    OBVIOUS
<1>3. DOMAIN p = 1..n /\ \A m \in 1..n : HasOutput(p[m]) <=> HasOutput(N[m])
    BY <1>1 DEF SameShape
<1> HIDE DEF i
<1>4. \A m \in 1..n : m <= i /\ HasOutput(p[m]) => ~Overwrites(p[m])
    BY <1>1, <1>2 DEF i
<1>5. NamesKept(p, N, mov, i)
    BY <1>1, <1>2 DEF NamesKept
<1>6. ASSUME NEW k \in 1..n, k <= i, HasOutput(N[k]) PROVE Followed(p, i, OutPath(N[k]))
    <2>1. CASE k <= w
        BY <1>1, <1>2, <1>3, <1>6, <2>1 DEF Followed
    <2>2. CASE k = i
        <3>1. HasOutput(p[i]) /\ OutPath(p[i]) = OutPath(N[i])
            <4>1. i > w
                BY DEF i
            <4> QED  BY <1>1, <1>2, <1>3, <1>6, <2>2, <4>1 DEF NamesKept
        <3>2. i <= i
            BY <1>2
        <3> QED  BY <1>2, <1>3, <2>2, <3>1, <3>2 DEF Followed
    <2> QED  BY <1>2, <1>6, <2>1, <2>2
<1> QED  BY <1>1, <1>4, <1>5, <1>6 DEF Rewritten, i

\* Who gives way to step i: an earlier step that declares the path, or, when
\* there is none, step i itself.
GivesWay(p, i, j, lo, hi) ==
    \/ j < i /\ lo = j + 1 /\ hi = i
    \/ /\ j = i /\ lo = i + 1 /\ hi = Len(p)
       /\ \A m \in DOMAIN p : m < i /\ HasOutput(p[m]) => OutPath(p[m]) # OutPath(p[i])

\* An output gives way, and the references that meant it follow.
LEMMA RewriteMoves ==
    ASSUME NoFile \notin Reference,
           NEW n \in Nat, NEW N \in [1..n -> Step], NEW p, NEW decl, NEW mov, NEW dk, NEW w \in Nat, w + 1 \in 1..n,
           Rewritten(p, N, decl, mov, dk, w), HasOutput(p[w + 1]), Overwrites(p[w + 1]),
           NEW path, path = OutPath(p[w + 1]),
           NEW j \in 1..n, HasOutput(p[j]), OutPath(p[j]) = path,
           NEW lo, NEW hi, GivesWay(p, w + 1, j, lo, hi),
           NEW chosen \in Path, chosen.dir = path.dir, chosen \notin ReadBy(N) \cup decl \cup dk
    PROVE  Rewritten(RenamedAt(p, j, lo, hi, path, chosen), N, decl \cup {chosen}, mov \cup {chosen}, dk, w + 1)
<1> DEFINE q == RenamedAt(p, j, lo, hi, path, chosen)
           new == decl \cup {chosen}
<1>1. PICK i : i = w + 1
    OBVIOUS
<1>2. /\ i \in 1..n /\ i > w /\ ~(i <= w)
      /\ \A m \in 1..n : m <= i <=> m <= w \/ m = i
      /\ \A m \in 1..n : m > i <=> m > w /\ m # i
      /\ \A m \in 1..n : m > i <=> ~(m <= i)
      /\ \A m \in 1..n : m > w <=> ~(m <= w)
      /\ \A m \in 1..n : m < i <=> m <= w
    BY <1>1
<1>3. /\ SameShape(p, N) /\ Accounted(p, N, decl) /\ Fresh(p, N, decl, mov, dk) /\ NamesKept(p, N, mov, w)
      /\ \A m \in 1..n : m <= w /\ HasOutput(p[m]) => ~Overwrites(p[m])
      /\ \A k \in 1..n : k <= w /\ HasOutput(N[k]) => Followed(p, w, OutPath(N[k]))
    BY DEF Rewritten
<1>4. /\ p \in [1..n -> Step] /\ Len(p) = n /\ DOMAIN p = 1..n
      /\ \A m \in 1..n : p[m].tool = N[m].tool /\ (HasOutput(p[m]) <=> HasOutput(N[m])) /\ DOMAIN p[m].ins = DOMAIN N[m].ins
    <2>1. p \in [1..n -> Step]
        BY <1>3 DEF SameShape
    <2> QED  BY <1>3, <2>1, ListedIsSeq DEF SameShape
<1>5. j \notin lo..hi /\ (\A m \in lo..hi : m <= i => j < i /\ m > j) /\ (\A m \in 1..n : m > i /\ j = i => m \in lo..hi)
      /\ (j # i => j < i /\ i \in lo..hi) /\ j <= i
    <2>1. i \in Nat /\ j \in Nat
        BY <1>2
    <2>2. CASE j < i /\ lo = j + 1 /\ hi = i
        BY <2>1, <2>2
    <2>3. CASE j = i /\ lo = i + 1 /\ hi = n
        BY <2>1, <2>3
    <2> QED  BY <1>1, <1>4, <2>2, <2>3 DEF GivesWay
<1>6. Renamed(p, q, j, lo, hi, path, chosen)
    <2>1. chosen.dir = OutPath(p[j]).dir /\ p \in [1..n -> Step] /\ j \notin lo..hi
        BY <1>4, <1>5
    <2>2. Renamed(p, RenamedAt(p, j, lo, hi, OutPath(p[j]), chosen), j, lo, hi, OutPath(p[j]), chosen)
        BY <2>1, RenameIs
    <2> QED  BY <2>2
<1>7. /\ q \in [1..n -> Step]
      /\ \A m \in 1..n :
            /\ q[m].tool = p[m].tool /\ (HasOutput(q[m]) <=> HasOutput(p[m])) /\ DOMAIN q[m].ins = DOMAIN p[m].ins
            /\ IsTerminal(q[m]) <=> IsTerminal(p[m])
            /\ HasOutput(p[m]) => ~IsTerminal(p[m])
            /\ OutPath(q[m]) = IF m = j THEN chosen ELSE OutPath(p[m])
            /\ InPaths(q[m]) = IF m \in lo..hi /\ ~IsTerminal(p[m])
                               THEN Swapped(InPaths(p[m]), path, chosen)
                               ELSE InPaths(p[m])
    BY <1>4, <1>6 DEF Renamed, IsTerminal, HasOutput
<1> HIDE DEF q
<1>8. /\ chosen \notin decl /\ chosen \notin ReadBy(N) /\ chosen \notin dk /\ DeclaredBy(N) \subseteq decl
      /\ \A m \in 1..n : HasOutput(p[m]) => OutPath(p[m]) \in decl
      /\ \A m \in 1..n : ~IsTerminal(p[m]) => InPaths(p[m]) \subseteq ReadBy(N) \cup decl
      /\ path \in decl /\ chosen # path
    BY <1>3, <1>4 DEF Accounted
<1>9. /\ \A S : chosen \notin S => path \notin Swapped(S, path, chosen)
      /\ \A S : Swapped(S, path, chosen) \subseteq S \cup {chosen}
    BY <1>8 DEF Swapped
<1>10. SameShape(q, N)
    BY <1>4, <1>7 DEF SameShape
<1>11. Accounted(q, N, new)
    <2>1. \A m \in 1..n : InPaths(q[m]) \subseteq InPaths(p[m]) \cup {chosen}
        BY <1>7, <1>9
    <2>2. \A m \in 1..n : HasOutput(q[m]) => OutPath(q[m]) \in new
        BY <1>7, <1>8
    <2>3. \A m \in 1..n : ~IsTerminal(q[m]) => InPaths(q[m]) \subseteq ReadBy(N) \cup new
        BY <1>7, <1>8, <2>1
    <2> QED  BY <1>4, <1>8, <2>2, <2>3 DEF Accounted
<1>12. ASSUME NEW m \in 1..n, m <= i, HasOutput(q[m]) PROVE ~Overwrites(q[m])
    <2>1. HasOutput(p[m]) /\ ~IsTerminal(p[m]) /\ chosen \notin InPaths(p[m]) /\ OutPath(p[m]) # chosen
        BY <1>7, <1>8, <1>12
    <2>2. CASE m = j
        BY <1>5, <1>7, <2>1, <2>2 DEF Overwrites
    <2>3. CASE m # j /\ m = i
        <3>1. m \in lo..hi /\ OutPath(q[m]) = path
            BY <1>1, <1>5, <1>7, <2>3
        <3> QED  BY <1>7, <1>9, <2>1, <3>1 DEF Overwrites
    <2>4. CASE m # j /\ m # i
        <3>1. OutPath(p[m]) \notin InPaths(p[m]) /\ OutPath(q[m]) = OutPath(p[m])
            BY <1>2, <1>3, <1>7, <1>12, <2>1, <2>4 DEF Overwrites
        <3>2. InPaths(q[m]) \subseteq InPaths(p[m]) \cup {chosen}
            BY <1>7, <1>9
        <3> QED  BY <2>1, <3>1, <3>2 DEF Overwrites
    <2> QED  BY <2>2, <2>3, <2>4
<1>13. Fresh(q, N, new, mov \cup {chosen}, dk)
    <2>1. /\ mov \subseteq decl /\ mov \cap dk = {} /\ mov \cap DeclaredBy(N) = {}
          /\ \A k, m \in 1..n : HasOutput(p[k]) /\ HasOutput(p[m]) /\ OutPath(p[k]) \in mov /\ OutPath(p[k]) = OutPath(p[m])
                              => k = m
        BY <1>3, <1>4 DEF Fresh
    <2>2. ASSUME NEW k \in 1..n, NEW m \in 1..n, HasOutput(q[k]), HasOutput(q[m]),
                 OutPath(q[k]) \in mov \cup {chosen}, OutPath(q[k]) = OutPath(q[m])
          PROVE  k = m
        <3>1. CASE OutPath(q[k]) = chosen
            <4>1. k = j /\ m = j
                BY <1>7, <1>8, <2>2, <3>1
            <4> QED  BY <4>1
        <3>2. CASE OutPath(q[k]) # chosen
            <4>1. OutPath(q[k]) = OutPath(p[k]) /\ OutPath(q[m]) = OutPath(p[m]) /\ HasOutput(p[k]) /\ HasOutput(p[m])
                BY <1>7, <2>2, <3>2
            <4> QED  BY <2>1, <2>2, <3>2, <4>1
        <3> QED  BY <3>1, <3>2
    <2>3. (mov \cup {chosen}) \subseteq new /\ (mov \cup {chosen}) \cap dk = {} /\ (mov \cup {chosen}) \cap DeclaredBy(N) = {}
        BY <1>8, <2>1
    <2> QED  BY <1>4, <2>2, <2>3 DEF Fresh
<1>14. path = OutPath(N[i]) /\ HasOutput(N[i]) /\ OutPath(p[i]) = path
    BY <1>1, <1>2, <1>3, <1>4 DEF NamesKept
<1>15. NamesKept(q, N, mov \cup {chosen}, i)
    <2> SUFFICES ASSUME NEW m \in 1..n, HasOutput(q[m])
                 PROVE  /\ OutPath(q[m]) = OutPath(N[m]) \/ OutPath(q[m]) \in mov \cup {chosen}
                        /\ m > i \/ EndsBranch(N, m) => OutPath(q[m]) = OutPath(N[m])
        BY DEF NamesKept
    <2>1. HasOutput(p[m]) /\ (m > i => m > w)
        BY <1>2, <1>7
    <2>2. /\ OutPath(p[m]) = OutPath(N[m]) \/ OutPath(p[m]) \in mov
          /\ m > w \/ EndsBranch(N, m) => OutPath(p[m]) = OutPath(N[m])
        BY <1>3, <2>1 DEF NamesKept
    <2>3. CASE m # j
        BY <1>7, <2>1, <2>2, <2>3
    <2>4. CASE m = j
        <3>1. ~(m > i)
            BY <1>2, <1>5, <2>4
        <3>2. ASSUME EndsBranch(N, m) PROVE FALSE
            <4>1. OutPath(N[m]) = path
                BY <2>2, <2>4, <3>2
            <4>2. CASE j < i
                <5>1. i \in 1..n /\ i > m
                    BY <1>2, <2>4, <4>2
                <5>2. \A k \in 1..n : k > m /\ HasOutput(N[k]) => OutPath(N[k]) # OutPath(N[m])
                    BY <3>2 DEF EndsBranch
                <5> QED  BY <1>14, <4>1, <5>1, <5>2
            <4>3. CASE j = i
                <5>1. PICK k \in 1..n : k < i /\ HasOutput(N[k]) /\ OutPath(N[k]) = path
                    BY <2>4, <3>2, <4>1, <4>3 DEF EndsBranch
                <5>2. Followed(p, w, path)
                    BY <1>2, <1>3, <5>1
                <5>3. ~\E x \in 1..n : x <= w /\ HasOutput(p[x]) /\ OutPath(p[x]) = path
                    BY <1>1, <1>2, <1>4, <4>3 DEF GivesWay
                <5>4. path \notin InPaths(p[i])
                    BY <1>1, <1>2, <1>4, <1>7, <5>2, <5>3 DEF Followed
                <5> QED  BY <1>1, <5>4 DEF Overwrites
            <4> QED  BY <1>5, <4>2, <4>3
        <3> QED  BY <1>7, <2>4, <3>1, <3>2
    <2> QED  BY <2>3, <2>4
<1>16. ASSUME NEW k \in 1..n, k <= i, HasOutput(N[k]) PROVE Followed(q, i, OutPath(N[k]))
    <2>1. PICK v : v = OutPath(N[k])
        OBVIOUS
    <2>2. v \in decl /\ v # chosen
        BY <1>8, <1>16, <2>1 DEF DeclaredBy
    <2>3. DOMAIN q = 1..n /\ i <= i
        BY <1>2, <1>7
    <2>4. CASE \E m \in 1..n : m <= w /\ m # j /\ HasOutput(p[m]) /\ OutPath(p[m]) = v
        BY <1>2, <1>7, <2>1, <2>3, <2>4 DEF Followed
    <2>5. CASE v = path /\ j < i
        <3>1. HasOutput(q[i]) /\ OutPath(q[i]) = path
            BY <1>1, <1>2, <1>7, <1>14, <2>5
        <3> QED  BY <1>2, <2>1, <2>3, <2>5, <3>1 DEF Followed
    <2>6. CASE v = path /\ j = i
        <3>1. ASSUME NEW m \in 1..n, m > i, ~IsTerminal(q[m]) PROVE v \notin InPaths(q[m])
            <4>1. m \in lo..hi /\ ~IsTerminal(p[m]) /\ chosen \notin InPaths(p[m])
                BY <1>5, <1>7, <1>8, <2>6, <3>1
            <4> QED  BY <1>7, <1>9, <2>6, <4>1
        <3> QED  BY <2>1, <2>3, <3>1 DEF Followed
    <2>7. CASE v # path /\ \A m \in 1..n : m > w /\ ~IsTerminal(p[m]) => v \notin InPaths(p[m])
        <3>1. \A m \in 1..n : InPaths(q[m]) \subseteq InPaths(p[m]) \cup {chosen}
            BY <1>7, <1>9
        <3> QED  BY <1>2, <1>7, <2>1, <2>2, <2>3, <2>7, <3>1 DEF Followed
    <2>8. v # path => Followed(p, w, v)
        BY <1>2, <1>3, <1>14, <1>16, <2>1
    <2> QED  BY <1>4, <1>5, <2>4, <2>5, <2>6, <2>7, <2>8 DEF Followed
<1> QED  BY <1>1, <1>4, <1>10, <1>11, <1>12, <1>13, <1>15, <1>16 DEF Rewritten, q

---------------------------------------------------------------------------
\* What the commands of a step write.

\* The places of the first n files of a batch, each after those before it.
PlacesUpTo(f, inputs, targets, n) ==
    \A k \in 0..n :
        f[k] = IF k = 0 THEN <<>>
               ELSE Append(f[k - 1], Disambiguated(inputs[k], targets[k], Range(inputs) \cup Range(f[k - 1])))

HasPlaces(inputs, targets, N) == \E f : PlacesUpTo(f, inputs, targets, N) /\ f = [k \in 0..N |-> f[k]]

LEMMA PlacesExist ==
    ASSUME NEW inputs, NEW targets, NEW N \in Nat
    PROVE  HasPlaces(inputs, targets, N)
<1> DEFINE T == {n \in 0..N : ~\E f : PlacesUpTo(f, inputs, targets, n)}
<1>1. T = {}
    <2>1. SUFFICES ASSUME T # {} PROVE FALSE
        OBVIOUS
    <2>2. T \in SUBSET Nat
        OBVIOUS
    <2>3. PICK n \in T : \A m \in T : n <= m
        <3> HIDE DEF T
        <3> QED  BY <2>1, <2>2, LeastNumber
    <2>4. n \in 0..N /\ ~\E f : PlacesUpTo(f, inputs, targets, n)
        OBVIOUS
    <2>5. n # 0
        <3> SUFFICES ASSUME n = 0 PROVE FALSE
            OBVIOUS
        <3> DEFINE g == [k \in {0} |-> <<>>]
        <3>1. g[0] = <<>>
            OBVIOUS
        <3> HIDE DEF g
        <3>2. PlacesUpTo(g, inputs, targets, 0)
            BY <3>1 DEF PlacesUpTo
        <3> QED  BY <2>4, <3>2
    <2>6. PICK f : PlacesUpTo(f, inputs, targets, n - 1)
        <3>1. n - 1 \in 0..N /\ n - 1 \notin T
            BY <2>3, <2>4, <2>5
        <3> QED  BY <3>1
    <2> DEFINE last == Append(f[n - 1], Disambiguated(inputs[n], targets[n], Range(inputs) \cup Range(f[n - 1])))
               h == [k \in 0..n |-> IF k = n THEN last ELSE f[k]]
    <2>7. h[n] = last /\ \A k \in 0..(n - 1) : h[k] = f[k] /\ k # n
        BY <2>4
    <2> HIDE DEF h
    <2>8. ASSUME NEW k \in 0..n
          PROVE  h[k] = IF k = 0 THEN <<>>
                        ELSE Append(h[k - 1], Disambiguated(inputs[k], targets[k], Range(inputs) \cup Range(h[k - 1])))
        <3>1. CASE k = n
            <4>1. n - 1 \in 0..(n - 1) /\ h[n - 1] = f[n - 1]
                BY <2>4, <2>5, <2>7
            <4> QED  BY <2>5, <2>7, <3>1, <4>1
        <3>2. CASE k # n
            <4>1. k \in 0..(n - 1) /\ (k # 0 => k - 1 \in 0..(n - 1))
                BY <2>4, <3>2
            <4>2. h[k] = f[k] /\ (k # 0 => h[k - 1] = f[k - 1])
                BY <2>7, <4>1
            <4> QED  BY <2>6, <4>1, <4>2 DEF PlacesUpTo
        <3> QED  BY <3>1, <3>2
    <2>9. PlacesUpTo(h, inputs, targets, n)
        BY <2>8 DEF PlacesUpTo
    <2> QED  BY <2>4, <2>9
<1>2. PICK f : PlacesUpTo(f, inputs, targets, N)
    BY <1>1
<1> DEFINE g == [k \in 0..N |-> f[k]]
<1>3. \A k \in 0..N : g[k] = f[k] /\ (k # 0 => k - 1 \in 0..N /\ g[k - 1] = f[k - 1])
    OBVIOUS
<1>4. g = [k \in 0..N |-> g[k]]
    OBVIOUS
<1> HIDE DEF g
<1>5. PlacesUpTo(g, inputs, targets, N)
    BY <1>2, <1>3 DEF PlacesUpTo
<1> QED  BY <1>4, <1>5 DEF HasPlaces

\* Sequences that grow by one element.
Grows(f, g, S, n) == f[0] = <<>> /\ \A k \in 1..n : g[k] \in S /\ f[k] = Append(f[k - 1], g[k])

LEMMA GrowsByOne ==
    ASSUME NEW S, NEW n \in Nat \ {0}, NEW f, NEW g, Grows(f, g, S, n)
    PROVE  f[n] \in Seq(S) /\ Len(f[n]) = n /\ f[n][1] = g[1]
<1> DEFINE Good(k) == f[k] \in Seq(S) /\ Len(f[k]) = k /\ (k # 0 => f[k][1] = g[1])
           T == {k \in 0..n : ~Good(k)}
<1>1. T = {}
    <2>1. SUFFICES ASSUME T # {} PROVE FALSE
        OBVIOUS
    <2>2. T \in SUBSET Nat
        OBVIOUS
    <2>3. PICK k \in T : \A m \in T : k <= m
        <3> HIDE DEF T
        <3> QED  BY <2>1, <2>2, LeastNumber
    <2>4. k \in 0..n /\ ~Good(k)
        OBVIOUS
    <2>5. k # 0
        <3>1. Good(0)
            BY EmptySeq DEF Grows
        <3> QED  BY <2>4, <3>1
    <2>6. k - 1 \in 0..n /\ k - 1 \notin T /\ k \in 1..n
        <3>1. k - 1 \in 0..n /\ k \in 1..n /\ k - 1 < k
            BY <2>4, <2>5
        <3> HIDE DEF T
        <3> QED  BY <2>3, <2>4, <3>1
    <2>7. Good(k - 1)
        BY <2>6
    <2>8. PICK s \in Seq(S), x \in S : s = f[k - 1] /\ x = g[k] /\ f[k] = Append(s, x) /\ Len(s) = k - 1
        BY <2>6, <2>7 DEF Grows
    <2>9. Append(s, x) \in Seq(S) /\ Len(Append(s, x)) = k /\ Append(s, x)[k] = x
          /\ (k # 1 => Append(s, x)[1] = s[1])
        BY <2>6, <2>8
    <2>10. k # 1 => s[1] = g[1]
        BY <2>6, <2>7, <2>8
    <2> QED  BY <2>4, <2>8, <2>9, <2>10
<1>2. n \in 0..n /\ n # 0
    OBVIOUS
<1>3. n \notin T
    BY <1>1
<1>4. Good(n)
    BY <1>2, <1>3
<1> QED  BY <1>2, <1>4

\* There is a place for every file, and the first is chosen knowing the inputs.
LEMMA PlacedIs ==
    ASSUME NEW n \in Nat \ {0}, NEW inputs, Len(inputs) = n, NEW targets
    PROVE  /\ DOMAIN Placed(inputs, targets) = 1..n
           /\ Placed(inputs, targets)[1] = Disambiguated(inputs[1], targets[1], Range(inputs))
<1> DEFINE placed == CHOOSE f : f = [k \in 0..n |-> IF k = 0 THEN <<>>
                ELSE Append(f[k - 1], Disambiguated(inputs[k], targets[k], Range(inputs) \cup Range(f[k - 1])))]
<1>0. n \in Nat /\ 0 \in 0..n /\ 1 \in 1..n /\ 0..n \subseteq Nat
    OBVIOUS
<1>1. \E f : f = [k \in 0..n |-> IF k = 0 THEN <<>>
                ELSE Append(f[k - 1], Disambiguated(inputs[k], targets[k], Range(inputs) \cup Range(f[k - 1])))]
    <2>1. PICK f : PlacesUpTo(f, inputs, targets, n) /\ f = [k \in 0..n |-> f[k]]
        <3>1. HasPlaces(inputs, targets, n)
            BY <1>0, PlacesExist
        <3> QED  BY <3>1, Zenon DEF HasPlaces
    <2>2. \A k \in 0..n : f[k] = IF k = 0 THEN <<>>
                ELSE Append(f[k - 1], Disambiguated(inputs[k], targets[k], Range(inputs) \cup Range(f[k - 1])))
        BY <2>1 DEF PlacesUpTo
    <2>3. f = [k \in 0..n |-> IF k = 0 THEN <<>>
                ELSE Append(f[k - 1], Disambiguated(inputs[k], targets[k], Range(inputs) \cup Range(f[k - 1])))]
        BY <2>1, <2>2, Zenon
    <2> QED  BY <2>3
<1>2. placed = [k \in 0..n |-> IF k = 0 THEN <<>>
                ELSE Append(placed[k - 1], Disambiguated(inputs[k], targets[k], Range(inputs) \cup Range(placed[k - 1])))]
    BY <1>1, Zenon
<1>3. Placed(inputs, targets) = placed[n]
    BY DEF Placed
<1> HIDE DEF placed
<1>4. \A k \in 0..n : placed[k] = IF k = 0 THEN <<>>
                ELSE Append(placed[k - 1], Disambiguated(inputs[k], targets[k], Range(inputs) \cup Range(placed[k - 1])))
    BY <1>2, Zenon
<1> DEFINE g == [k \in 1..n |-> Disambiguated(inputs[k], targets[k], Range(inputs) \cup Range(placed[k - 1]))]
           S == {g[k] : k \in 1..n}
<1>5. placed[0] = <<>> /\ 1 \in 1..n
    BY <1>0, <1>4
<1>6. \A k \in 1..n : g[k] \in S /\ placed[k] = Append(placed[k - 1], g[k])
    <2> TAKE k \in 1..n
    <2>1. k \in 0..n /\ k # 0
        BY <1>0
    <2> QED  BY <1>4, <2>1
<1>7. g[1] = Disambiguated(inputs[1], targets[1], Range(inputs))
    <2>1. Range(placed[0]) = {}
        BY <1>5 DEF Range
    <2>2. g[1] = Disambiguated(inputs[1], targets[1], Range(inputs) \cup Range(placed[0]))
        <3>1. PICK z : z = 1 - 1
            OBVIOUS
        <3>2. g[1] = Disambiguated(inputs[1], targets[1], Range(inputs) \cup Range(placed[z]))
            BY <1>5, <3>1
        <3> QED  BY <3>1, <3>2
    <2>3. Range(inputs) \cup Range(placed[0]) = Range(inputs)
        BY <2>1
    <2> QED  BY <2>2, <2>3
<1> HIDE DEF g, S
<1>8. placed[n] \in Seq(S) /\ Len(placed[n]) = n /\ placed[n][1] = g[1]
    <2>1. Grows(placed, g, S, n)
        BY <1>5, <1>6 DEF Grows
    <2>2. PICK f, h, s : f = placed /\ h = g /\ s = S
        OBVIOUS
    <2>3. Grows(f, h, s, n)
        BY <2>1, <2>2
    <2>4. f[n] \in Seq(s) /\ Len(f[n]) = n /\ f[n][1] = h[1]
        BY <2>3, GrowsByOne
    <2> QED  BY <2>2, <2>4
<1> QED  BY <1>0, <1>3, <1>7, <1>8

LEMMA WrittenIs ==
    ASSUME NEW step \in Step
    PROVE  /\ IsTerminal(step) => Written(step) = {}
           /\ HasOutput(step) /\ ~Overwrites(step) /\ step.ins # <<>> => OutPath(step) \in Written(step)
           /\ WritesAsTold(step) /\ ~Overwrites(step) => Written(step) = {OutPath(step)}
<1> DEFINE inputs == [k \in DOMAIN step.ins |-> InPath(step.ins[k])]
           targets == [k \in DOMAIN inputs |-> Target(step, inputs[k])]
           n == Len(step.ins)
<1>1. /\ step.ins \in Seq(Reference) /\ DOMAIN step.ins = 1..n /\ n \in Nat
      /\ \A k \in DOMAIN step.ins : InPath(step.ins[k]) \in Path
    BY StepParts
<1>2. IsTerminal(step) => Commands(step) = <<>>
    BY DEF Commands
<1>3. ~IsTerminal(step) /\ step.tool \in SandboxOutputTools => Commands(step) = <<[ins |-> inputs, out |-> OutPath(step)]>>
    BY DEF Commands
<1>4. ~IsTerminal(step) /\ step.tool \notin SandboxOutputTools =>
        Commands(step) = [k \in DOMAIN inputs |-> [ins |-> <<inputs[k]>>, out |-> Placed(inputs, targets)[k]]]
    BY DEF Commands
<1>5. inputs \in [1..n -> Path] /\ DOMAIN inputs = 1..n
    BY <1>1
<1>6. Range(inputs) = InPaths(step)
    BY DEF Range, InPaths
<1>7. 1 \in 1..n => targets[1] = Target(step, inputs[1]) /\ inputs[1] = InPath(step.ins[1]) /\ inputs[1] \in InPaths(step)
    BY <1>1 DEF InPaths
<1> HIDE DEF inputs, targets, n
<1>8. Len(inputs) = n
    BY <1>1, <1>5, ListedIsSeq
<1>9. CASE IsTerminal(step)
    <2>1. ~HasOutput(step) /\ ~WritesAsTold(step)
        BY <1>9 DEF HasOutput, WritesAsTold
    <2> QED  BY <1>2, <1>9, <2>1 DEF Written
<1>10. CASE ~IsTerminal(step) /\ step.tool \in SandboxOutputTools
    BY <1>3, <1>10 DEF Written
<1>11. CASE ~IsTerminal(step) /\ step.tool \notin SandboxOutputTools
    <2> SUFFICES ASSUME HasOutput(step), ~Overwrites(step), step.ins # <<>>
                 PROVE  OutPath(step) \in Written(step) /\ (n = 1 => Written(step) = {OutPath(step)})
        <3>1. Len(step.ins) = 1 => step.ins # <<>>
            OBVIOUS
        <3> QED  BY <1>11, <3>1 DEF WritesAsTold, n
    <2>1. n \in Nat \ {0} /\ 1 \in 1..n
        BY <1>1 DEF n
    <2>2. OutPath(step) = Under(inputs[1].dir, step.out)
        BY <1>1, <1>7, <1>11, <2>1 DEF OutPath, OutputBase
    <2>3. OutPath(step) \notin InPaths(step)
        BY DEF Overwrites
    <2>4. targets[1] = OutPath(step)
        BY <1>7, <2>1, <2>2, <2>3 DEF Target, HasOutput
    <2>5. Placed(inputs, targets)[1] = Disambiguated(inputs[1], targets[1], Range(inputs))
        BY <1>8, <2>1, PlacedIs
    <2>6. Disambiguated(inputs[1], OutPath(step), InPaths(step)) = OutPath(step)
        BY <2>3 DEF Disambiguated
    <2>7. Placed(inputs, targets)[1] = OutPath(step)
        BY <1>6, <2>4, <2>5, <2>6
    <2>8. Written(step) = {Placed(inputs, targets)[k] : k \in 1..n}
        <3> DEFINE f == [k \in DOMAIN inputs |-> [ins |-> <<inputs[k]>>, out |-> Placed(inputs, targets)[k]]]
        <3>1. Commands(step) = f /\ DOMAIN f = 1..n
            BY <1>4, <1>5, <1>11
        <3>2. \A k \in 1..n : f[k].out = Placed(inputs, targets)[k]
            BY <1>5
        <3> HIDE DEF f
        <3> QED  BY <3>1, <3>2 DEF Written
    <2> QED  BY <2>1, <2>7, <2>8
<1> QED  BY <1>9, <1>10, <1>11

---------------------------------------------------------------------------
\* The run.  What the files hold when the steps before a have run.

KeepsName(N, i) ==
    /\ EndsBranch(N, i) /\ N[i].ins # <<>>
    /\ \A j \in DOMAIN N : j > i => IsTerminal(N[j]) \/ WritesAsTold(N[j])

Ran(c, p, N, dk, a) ==
    /\ \A x \in DOMAIN c : \/ x \in dk /\ c[x] = <<"disk", x>>
                           \/ \E k \in DOMAIN N : k < a /\ c[x] = <<"step", k>> /\ x \in Written(p[k])
    /\ \A i \in DOMAIN N : i < a /\ KeepsName(N, i) => /\ OutPath(N[i]) \in DOMAIN c
                                                       /\ c[OutPath(N[i])] = <<"step", i>>

\* Before the run there is only the disk.
LEMMA RunStarts ==
    ASSUME NEW n \in Nat, NEW N \in [1..n -> Step], NEW p, NEW dk
    PROVE  Ran([x \in dk |-> <<"disk", x>>], p, N, dk, 1)
BY DEF Ran

LEMMA SameShapeTold ==
    ASSUME NEW s \in Step, NEW t \in Step, s.tool = t.tool, HasOutput(s) <=> HasOutput(t), DOMAIN s.ins = DOMAIN t.ins
    PROVE  /\ WritesAsTold(s) <=> WritesAsTold(t)
           /\ IsTerminal(s) <=> IsTerminal(t)
           /\ s.ins = <<>> <=> t.ins = <<>>
<1>1. s.ins \in Seq(Reference) /\ t.ins \in Seq(Reference)
    BY StepParts
<1>2. Len(s.ins) = Len(t.ins)
    BY <1>1
<1>3. s.ins = <<>> <=> t.ins = <<>>
    BY <1>1, <1>2
<1> QED  BY <1>2, <1>3 DEF WritesAsTold, IsTerminal

After(c, p, a) == [x \in DOMAIN c \cup Written(p[a]) |-> IF x \in Written(p[a]) THEN <<"step", a>> ELSE c[x]]

\* A chosen path is not on disk, and only one step of the plan names it.
LEMMA RunsOn ==
    ASSUME NEW n \in Nat, NEW N \in [1..n -> Step], NEW p, NEW decl, NEW mov, NEW dk, NEW c, NEW a \in 1..n,
           Rewritten(p, N, decl, mov, dk, n), Ran(c, p, N, dk, a),
           NEW new, new = After(c, p, a)
    PROVE  /\ Ran(new, p, N, dk, a + 1)
           /\ \A x \in mov : x \in DOMAIN c /\ new[x] # c[x] =>
                 c[x][1] = "step" /\ ~(WritesAsTold(p[c[x][2]]) /\ WritesAsTold(p[a]))
<1>1. /\ SameShape(p, N) /\ Fresh(p, N, decl, mov, dk) /\ NamesKept(p, N, mov, n)
      /\ \A m \in 1..n : HasOutput(p[m]) => ~Overwrites(p[m])
    BY DEF Rewritten
<1>2. /\ p \in [1..n -> Step]
      /\ \A m \in 1..n : /\ HasOutput(p[m]) <=> HasOutput(N[m])
                         /\ WritesAsTold(p[m]) <=> WritesAsTold(N[m])
                         /\ IsTerminal(p[m]) <=> IsTerminal(N[m])
                         /\ p[m].ins = <<>> <=> N[m].ins = <<>>
    <2>1. p \in [1..n -> Step]
        BY <1>1 DEF SameShape
    <2>2. ASSUME NEW m \in 1..n
          PROVE  /\ HasOutput(p[m]) <=> HasOutput(N[m])
                 /\ WritesAsTold(p[m]) <=> WritesAsTold(N[m])
                 /\ IsTerminal(p[m]) <=> IsTerminal(N[m])
                 /\ p[m].ins = <<>> <=> N[m].ins = <<>>
        <3>1. p[m] \in Step /\ N[m] \in Step
            BY <2>1
        <3>2. p[m].tool = N[m].tool /\ (HasOutput(p[m]) <=> HasOutput(N[m])) /\ DOMAIN p[m].ins = DOMAIN N[m].ins
            BY <1>1 DEF SameShape
        <3> QED  BY <3>1, <3>2, SameShapeTold
    <2> QED  BY <2>1, <2>2
<1>3. /\ DOMAIN new = Written(p[a]) \cup DOMAIN c
      /\ \A x \in DOMAIN new : new[x] = IF x \in Written(p[a]) THEN <<"step", a>> ELSE c[x]
    BY DEF After
<1>4. \A m \in 1..n : /\ WritesAsTold(p[m]) => Written(p[m]) = {OutPath(p[m])} /\ HasOutput(p[m])
                      /\ IsTerminal(p[m]) => Written(p[m]) = {}
                      /\ HasOutput(p[m]) /\ p[m].ins # <<>> => OutPath(p[m]) \in Written(p[m])
    <2> TAKE m \in 1..n
    <2>1. PICK s \in Step : s = p[m]
        BY <1>2
    <2>2. WritesAsTold(s) => HasOutput(s)
        BY DEF WritesAsTold
    <2>3. HasOutput(s) => ~Overwrites(s)
        BY <1>1, <2>1
    <2> QED  BY <2>1, <2>2, <2>3, WrittenIs
<1>5. ASSUME NEW x \in DOMAIN new
      PROVE  \/ x \in dk /\ new[x] = <<"disk", x>>
             \/ \E k \in 1..n : k < a + 1 /\ new[x] = <<"step", k>> /\ x \in Written(p[k])
    <2>1. CASE x \in Written(p[a])
        <3>1. a < a + 1
            OBVIOUS
        <3> QED  BY <1>3, <2>1, <3>1
    <2>2. CASE x \notin Written(p[a])
        <3>1. x \in DOMAIN c /\ new[x] = c[x]
            BY <1>3, <2>2
        <3>2. \A k \in 1..n : k < a => k < a + 1
            OBVIOUS
        <3> QED  BY <3>1, <3>2 DEF Ran
    <2> QED  BY <2>1, <2>2
<1>6. ASSUME NEW i \in 1..n, i < a + 1, KeepsName(N, i)
      PROVE  OutPath(N[i]) \in DOMAIN new /\ new[OutPath(N[i])] = <<"step", i>>
    <2>1. HasOutput(p[i]) /\ OutPath(p[i]) = OutPath(N[i]) /\ p[i].ins # <<>>
        BY <1>1, <1>2, <1>6 DEF KeepsName, EndsBranch, NamesKept
    <2>2. CASE i = a
        BY <1>3, <1>4, <2>1, <2>2
    <2>3. CASE i # a
        <3>1. i < a /\ a > i
            BY <1>6, <2>3
        <3>2. OutPath(N[i]) \in DOMAIN c /\ c[OutPath(N[i])] = <<"step", i>>
            BY <1>6, <3>1 DEF Ran
        <3>3. OutPath(N[i]) \notin Written(p[a])
            <4>1. IsTerminal(p[a]) \/ WritesAsTold(p[a])
                BY <1>2, <1>6, <3>1 DEF KeepsName
            <4>2. CASE IsTerminal(p[a])
                BY <1>4, <4>2
            <4>3. CASE WritesAsTold(p[a])
                <5>1. Written(p[a]) = {OutPath(p[a])} /\ HasOutput(p[a]) /\ HasOutput(N[a])
                    BY <1>2, <1>4, <4>3
                <5>2. OutPath(N[a]) # OutPath(N[i])
                    BY <1>6, <3>1, <5>1 DEF KeepsName, EndsBranch
                <5>3. OutPath(N[i]) \notin mov
                    BY <1>1, <1>6 DEF Fresh, DeclaredBy, KeepsName, EndsBranch
                <5> QED  BY <1>1, <5>1, <5>2, <5>3 DEF NamesKept
            <4> QED  BY <4>1, <4>2, <4>3
        <3> QED  BY <1>3, <3>2, <3>3
    <2> QED  BY <2>2, <2>3
<1>7. ASSUME NEW x \in mov, x \in DOMAIN c, new[x] # c[x]
      PROVE  c[x][1] = "step" /\ ~(WritesAsTold(p[c[x][2]]) /\ WritesAsTold(p[a]))
    <2>1. x \in Written(p[a]) /\ x \notin dk
        BY <1>1, <1>3, <1>7 DEF Fresh
    <2>2. PICK k \in 1..n : k < a /\ c[x] = <<"step", k>> /\ x \in Written(p[k])
        BY <1>7, <2>1 DEF Ran
    <2>3. ASSUME WritesAsTold(p[k]), WritesAsTold(p[a]) PROVE FALSE
        <3>1. x = OutPath(p[k]) /\ x = OutPath(p[a]) /\ HasOutput(p[k]) /\ HasOutput(p[a])
            BY <1>4, <2>1, <2>2, <2>3
        <3>2. k = a
            BY <1>1, <3>1 DEF Fresh
        <3> QED  BY <2>2, <3>2
    <2> QED  BY <2>2, <2>3
<1> QED  BY <1>5, <1>6, <1>7 DEF Ran

LEMMA PlanFinite ==
    ASSUME NEW n \in Nat, NEW p \in [1..n -> Step]
    PROVE  IsFiniteSet(ReadBy(p)) /\ IsFiniteSet(DeclaredBy(p))
<1>1. IsFiniteSet(1..n) /\ DOMAIN p = 1..n
    BY FS_Interval
<1> DEFINE f == [i \in 1..n |-> IF IsTerminal(p[i]) THEN {} ELSE InPaths(p[i])]
           S == {f[i] : i \in DOMAIN f}
           g == [i \in 1..n |-> OutPath(p[i])]
<1>2. ASSUME NEW i \in 1..n PROVE IsFiniteSet(InPaths(p[i]))
    <2> DEFINE s == p[i]
               h == [k \in DOMAIN s.ins |-> InPath(s.ins[k])]
    <2>1. DOMAIN s.ins = 1..Len(s.ins) /\ Len(s.ins) \in Nat
        BY StepParts
    <2>2. IsFiniteSet(DOMAIN h)
        BY <2>1, FS_Interval
    <2>3. InPaths(s) = {h[k] : k \in DOMAIN h}
        BY DEF InPaths
    <2> HIDE DEF h
    <2> QED  BY <2>2, <2>3, ImageFinite
<1>3. \A i \in 1..n : IsFiniteSet(f[i])
    BY <1>2, FS_EmptySet
<1>4. ReadBy(p) = UNION S
    BY <1>1 DEF ReadBy
<1>5. DeclaredBy(p) \subseteq {g[i] : i \in DOMAIN g}
    BY <1>1 DEF DeclaredBy
<1>6. DOMAIN f = 1..n /\ DOMAIN g = 1..n
    OBVIOUS
<1> HIDE DEF f, g
<1>7. IsFiniteSet(S) /\ IsFiniteSet({g[i] : i \in DOMAIN g})
    BY <1>1, <1>6, ImageFinite
<1>8. \A T \in S : IsFiniteSet(T)
    BY <1>3, <1>6
<1> HIDE DEF S
<1>9. IsFiniteSet(UNION S)
    BY <1>7, <1>8, FS_UNION
<1> QED  BY <1>4, <1>5, <1>7, <1>9, FS_Subset

---------------------------------------------------------------------------
\* The inductive invariant of a plan that is rewritten and run.

WalkedTo == IF pc = "walk" THEN at - 1 ELSE Len(asked)

CollisionInv ==
    /\ asked \in Seq(Step) /\ IsFiniteSet(disk)
    /\ pc \in {"legal", "walk", "run", "done"} /\ at \in Nat \ {0}
    /\ IsFiniteSet(reserved) /\ IsFiniteSet(declared)
    /\ pc = "legal" => plan = asked /\ at = 1 /\ moved = {}
    /\ pc \in {"legal", "walk"} => content = [p \in disk |-> <<"disk", p>>]
    /\ pc # "legal" => Rewritten(plan, LegalPlan(asked), declared, moved, disk, WalkedTo)
    /\ pc \in {"run", "done"} => Ran(content, plan, LegalPlan(asked), disk, at)
    /\ pc = "done" => at = Len(asked) + 1

LEMMA CollisionStarts ==
    ASSUME PlansAssumption, DisksAssumption, Init
    PROVE  CollisionInv
<1>1. asked \in Seq(Step) /\ IsFiniteSet(disk)
    BY DEF Init, PlansAssumption, DisksAssumption
<1>2. IsFiniteSet({})
    BY FS_EmptySet
<1> QED  BY <1>1, <1>2 DEF Init, CollisionInv

LEMMA LegalNames ==
    ASSUME PlansAssumption, RespelledAssumption, asked \in Seq(Step)
    PROVE  /\ LegalPlan(asked) \in [Steps -> Step] /\ Len(asked) \in Nat
           /\ DOMAIN LegalPlan(asked) = Steps /\ Len(LegalPlan(asked)) = Len(asked)
<1>1. DOMAIN asked = Steps /\ Len(asked) \in Nat
    BY DEF Steps
<1>2. LegalPlan(asked) \in [Steps -> Step]
    BY <1>1, LegalIs
<1> QED  BY <1>1, <1>2, ListedIsSeq DEF Steps

LEMMA MadeLegal ==
    ASSUME PlansAssumption, RespelledAssumption, CollisionInv, Legal
    PROVE  CollisionInv'
<1>1. /\ asked \in Seq(Step) /\ plan = asked /\ at = 1 /\ moved = {} /\ IsFiniteSet(disk) /\ IsFiniteSet(reserved)
      /\ content = [p \in disk |-> <<"disk", p>>] /\ UNCHANGED <<asked, disk, at, reserved, moved, content>>
      /\ pc' = "walk"
    BY DEF CollisionInv, Legal
<1>2. PICK N : N = LegalPlan(asked)
    OBVIOUS
<1>3. N \in [1..Len(asked) -> Step] /\ Len(asked) \in Nat
    BY <1>1, <1>2, LegalNames DEF Steps
<1>4. plan' = N /\ declared' = DeclaredBy(N)
    BY <1>1, <1>2 DEF Legal
<1>5. Rewritten(N, N, DeclaredBy(N), {}, disk, 0)
    BY <1>3, RewriteStarts
<1>6. IsFiniteSet(declared')
    BY <1>3, <1>4, PlanFinite
<1>7. LegalPlan(asked') = N /\ WalkedTo' = 0
    BY <1>1, <1>2 DEF WalkedTo
<1> QED  BY <1>1, <1>4, <1>5, <1>6, <1>7 DEF CollisionInv

\* Where the walk is, and what its next step leaves to be shown.
LEMMA WalkGoesOn ==
    ASSUME PlansAssumption, RespelledAssumption, CollisionInv, NEW i \in Steps, Walking(i), Advance,
           UNCHANGED <<asked, disk, content>>, IsFiniteSet(reserved'), IsFiniteSet(declared'),
           Rewritten(plan', LegalPlan(asked), declared', moved', disk, i)
    PROVE  CollisionInv'
<1>1. /\ asked \in Seq(Step) /\ pc = "walk" /\ at = i /\ content = [p \in disk |-> <<"disk", p>>] /\ IsFiniteSet(disk)
    BY DEF CollisionInv, Walking
<1>2. PICK n \in Nat : n = Len(asked) /\ i \in 1..n
    BY <1>1 DEF Steps
<1>3. PICK N \in [1..n -> Step] : N = LegalPlan(asked)
    BY <1>1, <1>2, LegalNames DEF Steps
<1>4. LegalPlan(asked') = N /\ Len(asked') = n
    BY <1>2, <1>3
<1>5. CASE i = n
    <2>1. at' = 1 /\ pc' = "run"
        BY <1>1, <1>2, <1>5 DEF Advance
    <2>2. Ran(content, plan', N, disk, 1)
        BY <1>1, RunStarts
    <2>3. WalkedTo' = n
        BY <1>4, <2>1 DEF WalkedTo
    <2> QED  BY <1>1, <1>3, <1>4, <1>5, <2>1, <2>2, <2>3 DEF CollisionInv
<1>6. CASE i # n
    <2>1. at' = i + 1 /\ pc' = "walk" /\ i \in Nat \ {0}
        BY <1>1, <1>2, <1>6 DEF Advance
    <2>2. WalkedTo' = i
        BY <2>1 DEF WalkedTo
    <2> QED  BY <1>1, <1>3, <1>4, <2>1, <2>2 DEF CollisionInv
<1> QED  BY <1>5, <1>6

\* What holds when the walk is at step i.
LEMMA AtStep ==
    ASSUME PlansAssumption, RespelledAssumption, CollisionInv, NEW i \in Steps, Walking(i),
           NEW n, n = Len(asked), NEW N, N = LegalPlan(asked)
    PROVE  /\ n \in Nat /\ N \in [1..n -> Step] /\ i \in 1..n /\ i - 1 \in Nat /\ i - 1 + 1 = i
           /\ Rewritten(plan, N, declared, moved, disk, i - 1)
           /\ plan \in [1..n -> Step] /\ Len(plan) = n
           /\ IsFiniteSet(reserved) /\ IsFiniteSet(declared) /\ IsFiniteSet(disk)
<1>1. asked \in Seq(Step) /\ pc = "walk" /\ at = i /\ Rewritten(plan, N, declared, moved, disk, i - 1)
    BY DEF CollisionInv, Walking, WalkedTo
<1>2. n \in Nat /\ N \in [1..n -> Step] /\ i \in 1..n
    BY <1>1, LegalNames DEF Steps
<1>3. plan \in [1..n -> Step]
    BY <1>1, <1>2 DEF Rewritten, SameShape
<1>4. Len(plan) = n
    BY <1>2, <1>3, ListedIsSeq
<1> QED  BY <1>1, <1>2, <1>3, <1>4 DEF CollisionInv

LEMMA StepPassed ==
    ASSUME PlansAssumption, RespelledAssumption, CollisionInv, NEW i \in Steps, PassStep(i) \/ KeepOutput(i)
    PROVE  CollisionInv'
<1>1. /\ Walking(i) /\ Advance /\ UNCHANGED <<asked, plan, disk, declared, moved, content>>
      /\ HasOutput(plan[i]) => ~Overwrites(plan[i])
      /\ reserved' = reserved \/ reserved' = reserved \cup {OutPath(plan[i])}
    BY DEF PassStep, KeepOutput
<1>2. PICK n, N : n = Len(asked) /\ N = LegalPlan(asked)
    OBVIOUS
<1>3. PICK w : w = i - 1
    OBVIOUS
<1>4. /\ n \in Nat /\ N \in [1..n -> Step] /\ w + 1 \in 1..n /\ w \in Nat /\ w + 1 = i
      /\ Rewritten(plan, N, declared, moved, disk, w) /\ IsFiniteSet(reserved) /\ IsFiniteSet(declared)
    BY <1>1, <1>2, <1>3, AtStep
<1>5. Rewritten(plan, N, declared, moved, disk, i)
    BY <1>1, <1>4, RewritePasses
<1>6. IsFiniteSet(reserved') /\ IsFiniteSet(declared')
    BY <1>1, <1>4, FS_AddElement
<1>7. Rewritten(plan', LegalPlan(asked), declared', moved', disk, i)
    BY <1>1, <1>2, <1>5
<1> QED  BY <1>1, <1>6, <1>7, WalkGoesOn

\* A chosen name is on disk, declared or read nowhere, and stays in its folder.
LEMMA ChosenIs ==
    ASSUME PlansAssumption, RespelledAssumption, CollisionInv, NEW path \in Path, NEW mark \in Part,
           NEW N, N = LegalPlan(asked), NEW chosen, chosen = NextFreeOutput(path, mark)
    PROVE  chosen \in Path /\ chosen.dir = path.dir /\ chosen \notin ReadBy(N) \cup declared \cup disk
<1> DEFINE taken == ReadBy(N) \cup declared \cup reserved \cup disk
<1>1. asked \in Seq(Step) /\ IsFiniteSet(declared) /\ IsFiniteSet(reserved) /\ IsFiniteSet(disk)
    BY DEF CollisionInv
<1>2. N \in [1..Len(asked) -> Step] /\ Len(asked) \in Nat
    BY <1>1, LegalNames DEF Steps
<1>3. IsFiniteSet(ReadBy(N))
    BY <1>2, PlanFinite
<1>4. IsFiniteSet(taken)
    BY <1>1, <1>3, FS_Union
<1>5. chosen = FirstFree(LAMBDA n : [path EXCEPT !.name = Numbered(@, mark, n)], taken)
    BY DEF NextFreeOutput
<1> HIDE DEF taken
<1>6. chosen \notin taken /\ chosen \in Path /\ chosen.dir = path.dir
    BY <1>4, <1>5, FreeCandidate
<1> QED  BY <1>6 DEF taken

LEMMA ProducerMoved ==
    ASSUME PlansAssumption, RespelledAssumption, CollisionInv, NEW i \in Steps, MoveProducer(i)
    PROVE  CollisionInv'
<1>1. PICK path, j, chosen :
        path = OutPath(plan[i]) /\ j = ProducerOf(plan, path, i) /\ chosen = NextFreeOutput(path, "intermediate")
    OBVIOUS
<1>2. /\ Walking(i) /\ Advance /\ UNCHANGED <<asked, disk, content>>
      /\ HasOutput(plan[i]) /\ Overwrites(plan[i]) /\ j # 0
      /\ plan' = ReboundBetween([plan EXCEPT ![j].out = Respell(@, chosen)], j + 1, i, path, chosen)
      /\ reserved' = reserved \cup {chosen, path}
      /\ declared' = declared \cup {chosen}
      /\ moved' = moved \cup {chosen}
    BY <1>1 DEF MoveProducer
<1>3. PICK n, N, w : n = Len(asked) /\ N = LegalPlan(asked) /\ w = i - 1
    OBVIOUS
<1>4. /\ n \in Nat /\ N \in [1..n -> Step] /\ i \in 1..n /\ w \in Nat /\ w + 1 = i
      /\ Rewritten(plan, N, declared, moved, disk, w) /\ plan \in [1..n -> Step] /\ Len(plan) = n
      /\ IsFiniteSet(reserved) /\ IsFiniteSet(declared)
    BY <1>2, <1>3, AtStep
<1>5. path \in Path
    BY <1>1, <1>2, <1>4, StepParts
<1>6. chosen \in Path /\ chosen.dir = path.dir /\ chosen \notin ReadBy(N) \cup declared \cup disk
    BY <1>1, <1>3, <1>5, ChosenIs DEF Part
<1>7. j \in 1..(i - 1) /\ HasOutput(plan[j]) /\ OutPath(plan[j]) = path
    BY <1>1, <1>2, <1>4, ProducerIs
<1>8. PICK lo, hi : lo = j + 1 /\ hi = i
    OBVIOUS
<1>9. j \in 1..n /\ GivesWay(plan, i, j, lo, hi)
    BY <1>4, <1>7, <1>8 DEF GivesWay
<1>10. Rewritten(RenamedAt(plan, j, lo, hi, path, chosen), N, declared \cup {chosen}, moved \cup {chosen}, disk, i)
    BY <1>1, <1>2, <1>4, <1>6, <1>7, <1>9, RewriteMoves DEF PlansAssumption
<1>11. Rewritten(plan', LegalPlan(asked), declared', moved', disk, i)
    BY <1>2, <1>3, <1>8, <1>10 DEF RenamedAt
<1>12. IsFiniteSet(reserved') /\ IsFiniteSet(declared')
    <2>1. reserved' = (reserved \cup {chosen}) \cup {path}
        BY <1>2
    <2>2. IsFiniteSet(reserved \cup {chosen}) /\ IsFiniteSet(declared \cup {chosen})
        BY <1>4, FS_AddElement
    <2>3. IsFiniteSet((reserved \cup {chosen}) \cup {path})
        BY <2>2, FS_AddElement
    <2> QED  BY <1>2, <2>1, <2>2, <2>3
<1> QED  BY <1>2, <1>11, <1>12, WalkGoesOn

LEMMA ConsumerMoved ==
    ASSUME PlansAssumption, RespelledAssumption, CollisionInv, NEW i \in Steps, MoveConsumer(i)
    PROVE  CollisionInv'
<1>1. PICK path, chosen : path = OutPath(plan[i]) /\ chosen = NextFreeOutput(path, "converted")
    OBVIOUS
<1>2. /\ Walking(i) /\ Advance /\ UNCHANGED <<asked, disk, content>>
      /\ HasOutput(plan[i]) /\ Overwrites(plan[i]) /\ ProducerOf(plan, path, i) = 0
      /\ plan' = ReboundBetween([plan EXCEPT ![i].out = Respell(@, chosen)], i + 1, Len(plan), path, chosen)
      /\ reserved' = reserved \cup {chosen}
      /\ declared' = declared \cup {chosen}
      /\ moved' = moved \cup {chosen}
    BY <1>1 DEF MoveConsumer
<1>3. PICK n, N, w : n = Len(asked) /\ N = LegalPlan(asked) /\ w = i - 1
    OBVIOUS
<1>4. /\ n \in Nat /\ N \in [1..n -> Step] /\ i \in 1..n /\ w \in Nat /\ w + 1 = i
      /\ Rewritten(plan, N, declared, moved, disk, w) /\ plan \in [1..n -> Step] /\ Len(plan) = n
      /\ IsFiniteSet(reserved) /\ IsFiniteSet(declared)
    BY <1>2, <1>3, AtStep
<1>5. path \in Path
    BY <1>1, <1>2, <1>4, StepParts
<1>6. chosen \in Path /\ chosen.dir = path.dir /\ chosen \notin ReadBy(N) \cup declared \cup disk
    BY <1>1, <1>3, <1>5, ChosenIs DEF Part
<1>7. \A m \in 1..(i - 1) : ~(HasOutput(plan[m]) /\ OutPath(plan[m]) = path)
    <2>1. \A m \in 1..(i - 1) : HasOutput(plan[m]) /\ OutPath(plan[m]) = path => m <= 0
        BY <1>2, <1>4, ProducerIs
    <2> QED  BY <1>4, <2>1
<1>8. PICK lo, hi : lo = i + 1 /\ hi = Len(plan)
    OBVIOUS
<1>9. GivesWay(plan, i, i, lo, hi)
    <2>1. \A m \in DOMAIN plan : m < i => m \in 1..(i - 1)
        BY <1>4
    <2> QED  BY <1>1, <1>7, <1>8, <2>1 DEF GivesWay
<1>10. Rewritten(RenamedAt(plan, i, lo, hi, path, chosen), N, declared \cup {chosen}, moved \cup {chosen}, disk, i)
    <2>1. /\ HasOutput(plan[w + 1]) /\ Overwrites(plan[w + 1]) /\ path = OutPath(plan[w + 1]) /\ w + 1 \in 1..n
          /\ GivesWay(plan, w + 1, i, lo, hi) /\ HasOutput(plan[i]) /\ OutPath(plan[i]) = path /\ i \in 1..n
        BY <1>1, <1>2, <1>4, <1>9
    <2>2. NoFile \notin Reference
        BY DEF PlansAssumption
    <2>3. Rewritten(RenamedAt(plan, i, lo, hi, path, chosen), N, declared \cup {chosen}, moved \cup {chosen}, disk, w + 1)
        BY <1>4, <1>6, <2>1, <2>2, RewriteMoves
    <2> QED  BY <1>4, <2>3
<1>11. Rewritten(plan', LegalPlan(asked), declared', moved', disk, i)
    BY <1>2, <1>3, <1>8, <1>10 DEF RenamedAt
<1>12. IsFiniteSet(reserved') /\ IsFiniteSet(declared')
    BY <1>2, <1>4, FS_AddElement
<1> QED  BY <1>2, <1>11, <1>12, WalkGoesOn

\* A command that runs replaces no file that was there or that another step
\* names by a chosen name, and leaves the names of the branch ends alone.
LEMMA StepRun ==
    ASSUME PlansAssumption, RespelledAssumption, CollisionInv, NEW i \in Steps, RunStep(i)
    PROVE  /\ CollisionInv'
           /\ \A p \in moved : p \in DOMAIN content /\ content'[p] # content[p] =>
                 content[p][1] = "step" /\ ~(WritesAsTold(plan[content[p][2]]) /\ WritesAsTold(plan[at]))
<1>1. /\ pc = "run" /\ at = i /\ UNCHANGED <<asked, plan, disk, reserved, declared, moved>>
      /\ content' = [p \in DOMAIN content \cup Written(plan[i]) |->
                       IF p \in Written(plan[i]) THEN <<"step", i>> ELSE content[p]]
      /\ at' = i + 1 /\ pc' = IF i = Len(asked) THEN "done" ELSE "run"
    BY DEF RunStep
<1>2. PICK n, N : n = Len(asked) /\ N = LegalPlan(asked)
    OBVIOUS
<1>3. /\ asked \in Seq(Step) /\ Rewritten(plan, N, declared, moved, disk, n) /\ Ran(content, plan, N, disk, i)
      /\ IsFiniteSet(reserved) /\ IsFiniteSet(declared) /\ IsFiniteSet(disk)
    BY <1>1, <1>2 DEF CollisionInv, WalkedTo
<1>4. n \in Nat /\ N \in [1..n -> Step] /\ i \in 1..n
    BY <1>2, <1>3, LegalNames DEF Steps
<1>5. /\ Ran(content', plan, N, disk, i + 1)
      /\ \A p \in moved : p \in DOMAIN content /\ content'[p] # content[p] =>
            content[p][1] = "step" /\ ~(WritesAsTold(plan[content[p][2]]) /\ WritesAsTold(plan[i]))
    <2>1. PICK p, c, new : p = plan /\ c = content /\ new = content'
        OBVIOUS
    <2>2. new = After(c, p, i)
        BY <1>1, <2>1 DEF After
    <2>3. Rewritten(p, N, declared, moved, disk, n) /\ Ran(c, p, N, disk, i)
        BY <1>3, <2>1
    <2>4. /\ Ran(new, p, N, disk, i + 1)
          /\ \A x \in moved : x \in DOMAIN c /\ new[x] # c[x] =>
                c[x][1] = "step" /\ ~(WritesAsTold(p[c[x][2]]) /\ WritesAsTold(p[i]))
        BY <1>4, <2>2, <2>3, RunsOn
    <2> QED  BY <2>1, <2>4
<1>6. LegalPlan(asked') = N /\ Len(asked') = n /\ WalkedTo' = n
    BY <1>1, <1>2 DEF WalkedTo
<1>7. CollisionInv'
    BY <1>1, <1>2, <1>3, <1>4, <1>5, <1>6 DEF CollisionInv
<1> QED  BY <1>1, <1>5, <1>7

LEMMA CollisionStep ==
    ASSUME PlansAssumption, RespelledAssumption, CollisionInv, [Next]_vars
    PROVE  /\ CollisionInv'
           /\ \A p \in moved : p \in DOMAIN content /\ content'[p] # content[p] =>
                 content[p][1] = "step" /\ ~(WritesAsTold(plan[content[p][2]]) /\ WritesAsTold(plan[at]))
<1>1. CASE Legal
    BY <1>1, MadeLegal DEF Legal
<1>2. CASE \E i \in Steps : PassStep(i) \/ KeepOutput(i)
    BY <1>2, StepPassed DEF PassStep, KeepOutput
<1>3. CASE \E i \in Steps : MoveProducer(i)
    BY <1>3, ProducerMoved DEF MoveProducer
<1>4. CASE \E i \in Steps : MoveConsumer(i)
    BY <1>4, ConsumerMoved DEF MoveConsumer
<1>5. CASE \E i \in Steps : RunStep(i)
    BY <1>5, StepRun
<1>6. CASE UNCHANGED vars
    <2>1. UNCHANGED <<asked, plan, disk, pc, at, reserved, declared, moved, content>>
        BY <1>6 DEF vars
    <2>2. LegalPlan(asked') = LegalPlan(asked) /\ WalkedTo' = WalkedTo
        BY <2>1 DEF WalkedTo
    <2> QED  BY <2>1, <2>2 DEF CollisionInv
<1> QED  BY <1>1, <1>2, <1>3, <1>4, <1>5, <1>6 DEF Next

\* What the rewrite knows of a plan at every step, whatever the plan and the
\* files that are there: the inductive invariant of _collisions.py.
THEOREM RewriteInvariant == Spec => []CollisionInv
<1>1. Init => CollisionInv
    BY CollisionStarts, PlansAssumption, DisksAssumption
<1>2. CollisionInv /\ [Next]_vars => CollisionInv'
    BY CollisionStep, PlansAssumption, RespelledAssumption
<1> QED  BY <1>1, <1>2, PTL DEF Spec

\* Whatever the plan and the files that are there, a name that the rewrite
\* chooses destroys no file of the user and no output that another step names
\* (_collisions.py, rebind_colliding_outputs; _engine.py, next_free_output).
THEOREM NothingOverwritten == Spec => FallbackDestroysNothing
<1>1. CollisionInv /\ [Next]_vars =>
        [\A p \in moved : p \in DOMAIN content /\ content'[p] # content[p] =>
            /\ content[p][1] = "step"
            /\ ~(WritesAsTold(plan[content[p][2]]) /\ WritesAsTold(plan[at]))]_vars
    BY CollisionStep, PlansAssumption, RespelledAssumption
<1> QED  BY <1>1, RewriteInvariant, PTL DEF Spec, FallbackDestroysNothing

\* The last step that declares a name which the plan also chains through ends
\* with its work under that name (_collisions.py:35-50).
THEOREM BranchEndsKeepNames == Spec => []NameKeepsBranchEnd
<1>1. ASSUME CollisionInv, pc = "done", NEW N, N = LegalPlan(asked), NEW i \in Steps,
             HasOutput(N[i]), N[i].ins # <<>>,
             ProducerOf(N, OutPath(N[i]), i) # 0,
             \A j \in (i + 1)..Len(N) : IsTerminal(N[j]) \/ WritesAsTold(N[j]),
             ProducerOf(N, OutPath(N[i]), Len(N) + 1) = i
      PROVE  content[OutPath(N[i])] = <<"step", i>>
    <2>1. PICK n : n = Len(asked)
        OBVIOUS
    <2>2. asked \in Seq(Step) /\ Ran(content, plan, N, disk, n + 1)
        BY <1>1, <2>1 DEF CollisionInv
    <2>3. n \in Nat /\ N \in [1..n -> Step] /\ Len(N) = n /\ i \in 1..n /\ DOMAIN N = 1..n
        BY <1>1, <2>1, <2>2, LegalNames, PlansAssumption, RespelledAssumption DEF Steps
    <2>4. PICK j, path : j = ProducerOf(N, path, i) /\ path = OutPath(N[i])
        OBVIOUS
    <2>5. j \in 1..(i - 1) /\ HasOutput(N[j]) /\ OutPath(N[j]) = path
        BY <1>1, <2>3, <2>4, ProducerIs
    <2>6. \A m \in 1..n : HasOutput(N[m]) /\ OutPath(N[m]) = path => m <= i
        <3>1. n + 1 \in Nat /\ n + 1 - 1 = n
            BY <2>3
        <3> QED  BY <1>1, <2>3, <2>4, <3>1, ProducerIs
    <2>7. EndsBranch(N, i)
        <3>1. j \in 1..n /\ j < i
            BY <2>3, <2>5
        <3>2. \A k \in 1..n : k > i => ~(k <= i)
            BY <2>3
        <3> QED  BY <1>1, <2>3, <2>4, <2>5, <2>6, <3>1, <3>2 DEF EndsBranch
    <2>8. KeepsName(N, i)
        <3>1. \A k \in 1..n : k > i => k \in (i + 1)..Len(N)
            BY <2>3
        <3> QED  BY <1>1, <2>3, <2>7, <3>1 DEF KeepsName
    <2>9. i < n + 1
        BY <2>3
    <2> QED  BY <2>2, <2>3, <2>8, <2>9 DEF Ran
<1>2. CollisionInv => NameKeepsBranchEnd
    BY <1>1 DEF NameKeepsBranchEnd
<1> QED  BY <1>2, RewriteInvariant, PTL

---------------------------------------------------------------------------
\* What the plan means, and that the rewrite leaves it so.

LEMMA SameProducer ==
    ASSUME NEW p, NEW q, NEW x, NEW y, NEW m,
           \A t \in 1..(m - 1) : (HasOutput(q[t]) /\ OutPath(q[t]) = y) <=> (HasOutput(p[t]) /\ OutPath(p[t]) = x)
    PROVE  ProducerOf(q, y, m) = ProducerOf(p, x, m)
<1>1. {t \in 1..(m - 1) : HasOutput(q[t]) /\ OutPath(q[t]) = y} = {t \in 1..(m - 1) : HasOutput(p[t]) /\ OutPath(p[t]) = x}
    OBVIOUS
<1> QED  BY <1>1 DEF ProducerOf

LEMMA NearestIs ==
    ASSUME NEW p, NEW path, NEW m \in Nat, NEW j \in 1..(m - 1), HasOutput(p[j]), OutPath(p[j]) = path,
           \A t \in 1..(m - 1) : HasOutput(p[t]) /\ OutPath(p[t]) = path => t <= j
    PROVE  ProducerOf(p, path, m) = j
<1>1. PICK r : r = ProducerOf(p, path, m)
    OBVIOUS
<1>2. /\ r # 0 => r \in 1..(m - 1) /\ HasOutput(p[r]) /\ OutPath(p[r]) = path
      /\ r \in Nat /\ j <= r
    BY <1>1, ProducerIs
<1>3. r <= j
    BY <1>2
<1> QED  BY <1>1, <1>2, <1>3

\* No step between the one that gives way and the last reader declares the path.
Undivided(p, j, hi, path) ==
    \A t \in DOMAIN p : j < t /\ t < hi => ~(HasOutput(p[t]) /\ OutPath(p[t]) = path)

\* Step i is followed by the references that it leaves alone.
Bounds(n, i, j, lo, hi) ==
    /\ j \in 1..n /\ i \in 1..n /\ lo = j + 1 /\ hi \in 1..n /\ j <= i
    /\ hi = n \/ (hi = i /\ j < i)

\* The plan neither writes nor reads the chosen path.
Unused(p, chosen) ==
    \A m \in DOMAIN p : /\ HasOutput(p[m]) => OutPath(p[m]) # chosen
                        /\ ~IsTerminal(p[m]) => chosen \notin InPaths(p[m])

\* The output of step j, which is read by a step that declares its path, is
\* renamed with the references that follow it, and step i gives the reason.
Moves(n, p, q, i, j, lo, hi, path, chosen) ==
    /\ p \in [1..n -> Step] /\ Bounds(n, i, j, lo, hi)
    /\ HasOutput(p[i]) /\ OutPath(p[i]) = path /\ HasOutput(p[j]) /\ OutPath(p[j]) = path
    /\ Undivided(p, j, hi, path) /\ Unused(p, chosen)
    /\ Renamed(p, q, j, lo, hi, path, chosen)
    /\ \A m \in 1..n : IsTerminal(p[m]) => DOMAIN p[m].ins = {}

Alike(p, q) ==
    /\ DOMAIN q = DOMAIN p /\ \A m \in DOMAIN p : DOMAIN q[m].ins = DOMAIN p[m].ins
    /\ \A m \in DOMAIN p : \A k \in DOMAIN p[m].ins : Meaning(q, m, q[m].ins[k]) = Meaning(p, m, p[m].ins[k])

LEMMA MoveMeans ==
    ASSUME NEW n \in Nat, NEW p, NEW q, NEW i, NEW j, NEW lo, NEW hi, NEW path, NEW chosen,
           Moves(n, p, q, i, j, lo, hi, path, chosen)
    PROVE  Alike(p, q)
<1>p. /\ p \in [1..n -> Step] /\ Bounds(n, i, j, lo, hi)
      /\ HasOutput(p[i]) /\ OutPath(p[i]) = path /\ HasOutput(p[j]) /\ OutPath(p[j]) = path
      /\ Undivided(p, j, hi, path) /\ Unused(p, chosen)
      /\ Renamed(p, q, j, lo, hi, path, chosen)
    BY DEF Moves
<1>q. /\ DOMAIN q = DOMAIN p /\ DOMAIN p = 1..n /\ \A m \in DOMAIN p : DOMAIN q[m].ins = DOMAIN p[m].ins
    BY <1>p DEF Renamed
<1> SUFFICES ASSUME NEW m \in 1..n, NEW k \in DOMAIN p[m].ins
             PROVE  Meaning(q, m, q[m].ins[k]) = Meaning(p, m, p[m].ins[k])
    BY <1>q DEF Alike
<1>r. ~IsTerminal(p[m])
    BY DEF Moves
<1> USE <1>p, <1>r
<1>1. PICK x, y : x = InPath(p[m].ins[k]) /\ y = InPath(q[m].ins[k])
    OBVIOUS
<1>2. /\ x \in InPaths(p[m]) /\ x # chosen
      /\ chosen # path /\ \A t \in 1..n : HasOutput(p[t]) => OutPath(p[t]) # chosen
    BY <1>1 DEF InPaths, Unused, Bounds
<1>3. /\ y = IF m \in lo..hi /\ x = path THEN chosen ELSE x
      /\ \A t \in 1..n : /\ HasOutput(q[t]) <=> HasOutput(p[t])
                         /\ OutPath(q[t]) = IF t = j THEN chosen ELSE OutPath(p[t])
    BY <1>1 DEF Renamed
<1>4. /\ i \in Nat /\ j \in Nat /\ hi \in Nat /\ m \in Nat /\ lo = j + 1
      /\ \A t \in 1..(m - 1) : t \in 1..n /\ t < m
    BY DEF Bounds
<1>5. CASE m \in lo..hi /\ x = path
    <2>1. j \in 1..(m - 1) /\ m <= hi
        BY <1>4, <1>5 DEF Bounds
    <2>2. \A t \in 1..(m - 1) : HasOutput(p[t]) /\ OutPath(p[t]) = path => t <= j
        BY <1>4, <2>1 DEF Undivided
    <2>3. ProducerOf(p, path, m) = j
        BY <1>4, <2>1, <2>2, NearestIs
    <2>4. \A t \in 1..(m - 1) : HasOutput(q[t]) /\ OutPath(q[t]) = chosen => t = j
        BY <1>2, <1>3, <1>4
    <2>5. HasOutput(q[j]) /\ OutPath(q[j]) = chosen
        BY <1>3, <1>4, <2>1
    <2>6. ProducerOf(q, chosen, m) = j
        BY <1>4, <2>1, <2>4, <2>5, NearestIs
    <2> QED  BY <1>1, <1>3, <1>5, <2>1, <2>3, <2>6 DEF Meaning
<1>6. CASE x # path \/ m <= j
    <2>1. y = x
        BY <1>3, <1>4, <1>6
    <2>2. \A t \in 1..(m - 1) : (HasOutput(q[t]) /\ OutPath(q[t]) = y) <=> (HasOutput(p[t]) /\ OutPath(p[t]) = x)
        BY <1>2, <1>3, <1>4, <1>6, <2>1
    <2>3. ProducerOf(q, y, m) = ProducerOf(p, x, m)
        BY <2>2, SameProducer
    <2> QED  BY <1>1, <2>1, <2>3 DEF Meaning
<1>7. CASE x = path /\ m > hi /\ hi >= j
    <2>1. y = path /\ hi = i /\ j < i /\ i \in 1..(m - 1)
        BY <1>3, <1>4, <1>7 DEF Bounds
    <2>2. PICK r : r = ProducerOf(p, path, m)
        OBVIOUS
    <2>3. /\ r # 0 => r \in 1..(m - 1) /\ HasOutput(p[r]) /\ OutPath(p[r]) = path
          /\ r \in Nat /\ i <= r
          /\ \A t \in 1..(m - 1) : HasOutput(p[t]) /\ OutPath(p[t]) = path => t <= r
        BY <1>4, <2>1, <2>2, ProducerIs
    <2>4. r \in 1..(m - 1) /\ r # j /\ HasOutput(p[r]) /\ OutPath(p[r]) = path
        BY <1>4, <2>1, <2>3
    <2>5. HasOutput(q[r]) /\ OutPath(q[r]) = path
        BY <1>3, <1>4, <2>4
    <2>6. \A t \in 1..(m - 1) : HasOutput(q[t]) /\ OutPath(q[t]) = path => t <= r
        BY <1>3, <1>4, <2>3
    <2>7. ProducerOf(q, path, m) = r
        BY <1>4, <2>4, <2>5, <2>6, NearestIs
    <2> QED  BY <1>1, <1>7, <2>1, <2>2, <2>7 DEF Meaning
<1>8. m \in lo..hi \/ m <= j \/ (m > hi /\ hi >= j)
    BY <1>4 DEF Bounds
<1> QED  BY <1>5, <1>6, <1>7, <1>8

LEMMA MeantAlike ==
    ASSUME NEW p, NEW q, Alike(p, q)
    PROVE  MeantBy(q) = MeantBy(p)
<1>1. ASSUME NEW m \in DOMAIN p
      PROVE  [k \in DOMAIN q[m].ins |-> Meaning(q, m, q[m].ins[k])] = [k \in DOMAIN p[m].ins |-> Meaning(p, m, p[m].ins[k])]
    BY DEF Alike
<1> QED  BY <1>1 DEF MeantBy, Alike

\* Every step of the plan writes the one file that it names, except for the
\* last, which may leave the name to the engine.
NamesLeft(p, i) ==
    /\ ~IsTerminal(p[i]) /\ p[i].tool \notin SandboxOutputTools /\ ~HasOutput(p[i]) /\ Len(p[i].ins) = 1
    /\ \A j \in DOMAIN p : j > i => IsTerminal(p[j])

FilesTold(p) ==
    \A i \in DOMAIN p : \/ IsTerminal(p[i]) /\ p[i].ins = <<>>
                        \/ WritesAsTold(p[i]) /\ ~IsTerminal(p[i])
                        \/ NamesLeft(p, i)

LEMMA FilesStayTold ==
    ASSUME NEW n \in Nat, NEW p \in [1..n -> Step], NEW q, SameShape(q, p), FilesTold(p)
    PROVE  FilesTold(q)
<1>1. q \in [1..n -> Step]
    BY DEF SameShape
<1>2. ASSUME NEW m \in 1..n
      PROVE  /\ HasOutput(q[m]) <=> HasOutput(p[m])
             /\ WritesAsTold(q[m]) <=> WritesAsTold(p[m])
             /\ IsTerminal(q[m]) <=> IsTerminal(p[m])
             /\ q[m].ins = <<>> <=> p[m].ins = <<>>
             /\ q[m].tool = p[m].tool
             /\ Len(q[m].ins) = 1 <=> Len(p[m].ins) = 1
    <2>1. PICK s \in Step, t \in Step : s = q[m] /\ t = p[m]
        BY <1>1
    <2>2. s.tool = t.tool /\ (HasOutput(s) <=> HasOutput(t)) /\ DOMAIN s.ins = DOMAIN t.ins
        BY <2>1 DEF SameShape
    <2>3. s.ins \in Seq(Reference) /\ t.ins \in Seq(Reference)
        BY StepParts
    <2>4. Len(s.ins) = Len(t.ins)
        BY <2>2, <2>3
    <2> QED  BY <2>1, <2>2, <2>4, SameShapeTold
<1> QED  BY <1>1, <1>2 DEF FilesTold, NamesLeft

\* A step with one command reads its inputs, writes none of them.
LEMMA CommandIs ==
    ASSUME NEW step \in Step, ~IsTerminal(step),
           WritesAsTold(step) \/ (step.tool \notin SandboxOutputTools /\ ~HasOutput(step) /\ Len(step.ins) = 1),
           HasOutput(step) => ~Overwrites(step),
           NEW C, C = Commands(step)
    PROVE  /\ DOMAIN C = 1..1 /\ C[1].ins = [k \in DOMAIN step.ins |-> InPath(step.ins[k])]
           /\ C[1].out \notin InPaths(step)
<1> DEFINE inputs == [k \in DOMAIN step.ins |-> InPath(step.ins[k])]
           targets == [k \in DOMAIN inputs |-> Target(step, inputs[k])]
<1>1. /\ DOMAIN step.ins = 1..Len(step.ins) /\ Len(step.ins) \in Nat
      /\ \A k \in DOMAIN step.ins : InPath(step.ins[k]) \in Path
    BY StepParts
<1>2. CASE step.tool \in SandboxOutputTools
    <2>1. C = <<[ins |-> inputs, out |-> OutPath(step)]>>
        BY <1>2 DEF Commands
    <2>2. OutPath(step) \notin InPaths(step)
        BY <1>2 DEF WritesAsTold, Overwrites
    <2> HIDE DEF inputs
    <2>3. DOMAIN C = 1..1 /\ C[1].ins = inputs /\ C[1].out = OutPath(step)
        BY <2>1
    <2> QED  BY <2>2, <2>3 DEF inputs
<1>3. CASE step.tool \notin SandboxOutputTools
    <2>1. Len(step.ins) = 1 /\ DOMAIN step.ins = 1..1
        BY <1>1, <1>3 DEF WritesAsTold
    <2>2. C = [k \in DOMAIN inputs |-> [ins |-> <<inputs[k]>>, out |-> Placed(inputs, targets)[k]]]
        BY <1>3 DEF Commands
    <2>3. PICK path \in Path : path = InPath(step.ins[1]) /\ InPaths(step) = {path}
        BY <1>1, <2>1 DEF InPaths
    <2>4. inputs = <<path>> /\ DOMAIN inputs = 1..1 /\ inputs[1] = path /\ targets[1] = Target(step, path)
        BY <2>1, <2>3
    <2>5. Len(inputs) = 1 /\ Range(inputs) = {path}
        BY <2>4 DEF Range
    <2> HIDE DEF inputs, targets
    <2>6. DOMAIN C = 1..1 /\ C[1] = [ins |-> <<path>>, out |-> Placed(inputs, targets)[1]]
        BY <2>2, <2>4
    <2>7. Placed(inputs, targets)[1] = Disambiguated(path, Target(step, path), {path})
        <3>1. 1 \in Nat \ {0}
            OBVIOUS
        <3> QED  BY <2>4, <2>5, <3>1, PlacedIs
    <2>8. Target(step, path) # path
        <3>1. Derived(step, path) # path
            <4>1. path.name \in Name /\ path.name.parts \in Seq(Part)
                BY DEF Path, Name
            <4>2. Len(Append(path.name.parts, SuffixOf(step.tool))) = Len(path.name.parts) + 1 /\ Len(path.name.parts) \in Nat
                BY <4>1
            <4>3. Append(path.name.parts, SuffixOf(step.tool)) # path.name.parts
                BY <4>2
            <4>4. Derived(step, path).name.parts = Append(path.name.parts, SuffixOf(step.tool))
                BY <4>1 DEF Derived, Marked, Path, Name
            <4> QED  BY <4>3, <4>4
        <3> QED  BY <3>1 DEF Target
    <2>9. Disambiguated(path, Target(step, path), {path}) = Target(step, path)
        BY <2>8 DEF Disambiguated
    <2>10. C[1].ins = <<path>> /\ C[1].out # path
        BY <2>6, <2>7, <2>8, <2>9
    <2> QED  BY <2>3, <2>4, <2>6, <2>10 DEF inputs
<1> QED  BY <1>2, <1>3

\* What a path holds when the steps before a have run, each as it was told.
Stands(p, a, x) == LET j == ProducerOf(p, x, a) IN IF j = 0 THEN <<"disk", x>> ELSE <<"step", j>>

Holds(c, p, dk, a) ==
    (\A m \in DOMAIN p : m < a => IsTerminal(p[m]) \/ WritesAsTold(p[m])) =>
        /\ \A x \in DOMAIN c : c[x] = Stands(p, a, x)
        /\ dk \subseteq DOMAIN c
        /\ \A m \in DOMAIN p : m < a /\ HasOutput(p[m]) => OutPath(p[m]) \in DOMAIN c

LEMMA HoldsAtFirst ==
    ASSUME NEW n \in Nat, NEW p \in [1..n -> Step], NEW dk
    PROVE  Holds([x \in dk |-> <<"disk", x>>], p, dk, 1)
<1>1. ASSUME NEW x PROVE Stands(p, 1, x) = <<"disk", x>>
    <2>1. PICK j : j = ProducerOf(p, x, 1)
        OBVIOUS
    <2>2. j # 0 => j \in 1..(1 - 1)
        BY <2>1, ProducerIs
    <2>3. j = 0
        BY <2>2
    <2> QED  BY <2>1, <2>3 DEF Stands
<1>2. \A m \in DOMAIN p : ~(m < 1)
    OBVIOUS
<1> QED  BY <1>1, <1>2 DEF Holds

LEMMA HoldsOn ==
    ASSUME NEW n \in Nat, NEW p \in [1..n -> Step], NEW dk, NEW c, NEW a \in 1..n, Holds(c, p, dk, a),
           HasOutput(p[a]) => ~Overwrites(p[a]),
           NEW new, new = After(c, p, a)
    PROVE  Holds(new, p, dk, a + 1)
<1> SUFFICES ASSUME \A m \in 1..n : m < a + 1 => IsTerminal(p[m]) \/ WritesAsTold(p[m])
             PROVE  /\ \A x \in DOMAIN new : new[x] = Stands(p, a + 1, x)
                    /\ dk \subseteq DOMAIN new
                    /\ \A m \in 1..n : m < a + 1 /\ HasOutput(p[m]) => OutPath(p[m]) \in DOMAIN new
    BY DEF Holds
<1>1. /\ a < a + 1 /\ a + 1 \in Nat /\ a \in Nat /\ a + 1 - 1 = a
      /\ \A m \in 1..n : m < a => m < a + 1
      /\ \A m \in 1..n : m < a + 1 <=> m < a \/ m = a
    OBVIOUS
<1>2. /\ \A x \in DOMAIN c : c[x] = Stands(p, a, x)
      /\ dk \subseteq DOMAIN c
      /\ \A m \in 1..n : m < a /\ HasOutput(p[m]) => OutPath(p[m]) \in DOMAIN c
    BY <1>1 DEF Holds
<1>3. /\ DOMAIN new = DOMAIN c \cup Written(p[a])
      /\ \A x \in DOMAIN new : new[x] = IF x \in Written(p[a]) THEN <<"step", a>> ELSE c[x]
    BY DEF After
<1>4. IF HasOutput(p[a]) THEN Written(p[a]) = {OutPath(p[a])} ELSE Written(p[a]) = {}
    <2>1. PICK s \in Step : s = p[a]
        OBVIOUS
    <2>2. HasOutput(s) => ~IsTerminal(s)
        BY DEF HasOutput
    <2>3. WritesAsTold(s) => HasOutput(s)
        BY DEF WritesAsTold
    <2> QED  BY <1>1, <2>1, <2>2, <2>3, WrittenIs
<1>5. ASSUME NEW x \in DOMAIN new PROVE new[x] = Stands(p, a + 1, x)
    <2>1. CASE x \in Written(p[a])
        <3>1. HasOutput(p[a]) /\ OutPath(p[a]) = x
            BY <1>4, <2>1
        <3>2. a \in 1..(a + 1 - 1) /\ \A t \in 1..(a + 1 - 1) : t <= a
            OBVIOUS
        <3>3. ProducerOf(p, x, a + 1) = a
            BY <1>1, <3>1, <3>2, NearestIs
        <3>4. a # 0
            OBVIOUS
        <3> QED  BY <1>3, <2>1, <3>3, <3>4 DEF Stands
    <2>2. CASE x \notin Written(p[a])
        <3>1. PICK b : b = a + 1
            OBVIOUS
        <3>2. {t \in 1..(b - 1) : HasOutput(p[t]) /\ OutPath(p[t]) = x} = {t \in 1..(a - 1) : HasOutput(p[t]) /\ OutPath(p[t]) = x}
            <4>1. \A t \in 1..(b - 1) : t = a \/ t \in 1..(a - 1)
                BY <3>1
            <4>2. \A t \in 1..(a - 1) : t \in 1..(b - 1)
                BY <3>1
            <4>3. ~(HasOutput(p[a]) /\ OutPath(p[a]) = x)
                BY <1>4, <2>2
            <4> QED  BY <4>1, <4>2, <4>3
        <3>3. ProducerOf(p, x, b) = ProducerOf(p, x, a)
            BY <3>2 DEF ProducerOf
        <3> QED  BY <1>2, <1>3, <2>2, <3>1, <3>3 DEF Stands
    <2> QED  BY <2>1, <2>2
<1> QED  BY <1>1, <1>2, <1>3, <1>4, <1>5

\* Every file on disk that the plan means is there.
Available(meant, dk) ==
    \A i \in DOMAIN meant : \A k \in DOMAIN meant[i] : meant[i][k][1] = "disk" => meant[i][k][2] \in dk

LEMMA ReadsAreMeant ==
    ASSUME NEW n \in Nat, plan \in [1..n -> Step], NEW a \in 1..n, Holds(content, plan, disk, a),
           \A m \in 1..n : HasOutput(plan[m]) => ~Overwrites(plan[m]),
           FilesTold(plan), Available(MeantBy(plan), disk)
    PROVE  FlattenSeq([k \in DOMAIN Commands(plan[a]) |->
               LET ins == Commands(plan[a])[k].ins IN [m \in DOMAIN ins |-> ReadAt(a, k, ins[m])]])
           = MeantBy(plan)[a]
<1> DEFINE row(k) == LET ins == Commands(plan[a])[k].ins IN [m \in DOMAIN ins |-> ReadAt(a, k, ins[m])]
           rows == [k \in DOMAIN Commands(plan[a]) |-> row(k)]
<1>1. PICK step \in Step : step = plan[a]
    OBVIOUS
<1>2. MeantBy(plan)[a] = [k \in DOMAIN step.ins |-> Meaning(plan, a, step.ins[k])]
    BY <1>1 DEF MeantBy
<1>3. PICK C : C = Commands(step)
    OBVIOUS
<1>6. DOMAIN MeantBy(plan) = 1..n
    BY DEF MeantBy
<1>4. CASE IsTerminal(step)
    <2>1. step.ins = <<>> /\ C = <<>>
        BY <1>1, <1>3, <1>4 DEF FilesTold, NamesLeft, Commands
    <2>2. rows = <<>>
        BY <1>1, <1>3, <2>1
    <2>3. FlattenSeq(<<>>) = <<>>
        BY DEF FlattenSeq
    <2>4. MeantBy(plan)[a] = <<>>
        BY <1>2, <2>1
    <2> HIDE DEF rows
    <2>5. FlattenSeq(rows) = MeantBy(plan)[a]
        BY <2>2, <2>3, <2>4
    <2> QED  BY <2>5 DEF rows
<1>5. CASE ~IsTerminal(step)
    <2>1. /\ WritesAsTold(step) \/ (step.tool \notin SandboxOutputTools /\ ~HasOutput(step) /\ Len(step.ins) = 1)
          /\ HasOutput(step) => ~Overwrites(step)
        BY <1>1, <1>5 DEF FilesTold, NamesLeft
    <2>2. /\ DOMAIN C = 1..1 /\ C[1].ins = [k \in DOMAIN step.ins |-> InPath(step.ins[k])]
          /\ C[1].out \notin InPaths(step)
        BY <1>3, <1>5, <2>1, CommandIs
    <2>3. \A m \in 1..n : m < a => IsTerminal(plan[m]) \/ WritesAsTold(plan[m])
        BY <1>1, <1>5 DEF FilesTold, NamesLeft
    <2>4. /\ \A x \in DOMAIN content : content[x] = Stands(plan, a, x)
          /\ disk \subseteq DOMAIN content
          /\ \A m \in 1..n : m < a /\ HasOutput(plan[m]) => OutPath(plan[m]) \in DOMAIN content
        BY <2>3 DEF Holds
    <2>5. ASSUME NEW k \in DOMAIN step.ins
          PROVE  ReadAt(a, 1, C[1].ins[k]) = Meaning(plan, a, step.ins[k])
        <3>1. PICK x : x = InPath(step.ins[k])
            OBVIOUS
        <3>2. C[1].ins[k] = x /\ x # C[1].out
            BY <2>2, <3>1 DEF InPaths
        <3>3. ~\E m \in 1..(1 - 1) : Commands(plan[a])[m].out = x
            OBVIOUS
        <3>4. x \in DOMAIN content
            <4>1. PICK j : j = ProducerOf(plan, x, a)
                OBVIOUS
            <4>2. j # 0 => j \in 1..(a - 1) /\ HasOutput(plan[j]) /\ OutPath(plan[j]) = x
                BY <4>1, ProducerIs
            <4>3. CASE j = 0
                <5>1. Meaning(plan, a, step.ins[k]) = <<"disk", x>>
                    BY <3>1, <4>1, <4>3 DEF Meaning
                <5>2. x \in disk
                    BY <1>1, <1>2, <1>6, <5>1 DEF Available
                <5> QED  BY <2>4, <5>2
            <4>4. CASE j # 0
                <5>1. j \in 1..n /\ j < a
                    BY <4>2, <4>4
                <5> QED  BY <2>4, <4>2, <4>4, <5>1
            <4> QED  BY <4>3, <4>4
        <3>5. ReadAt(a, 1, x) = content[x]
            BY <1>1, <1>3, <3>2, <3>3, <3>4 DEF ReadAt
        <3> QED  BY <2>4, <3>1, <3>2, <3>4, <3>5 DEF Stands, Meaning
    <2>6. row(1) = MeantBy(plan)[a]
        <3>1. DOMAIN C[1].ins = DOMAIN step.ins
            BY <2>2
        <3> QED  BY <1>1, <1>2, <1>3, <2>5, <3>1
    <2>7. Len(rows) = 1 /\ rows[1] = row(1)
        <3>1. DOMAIN rows = 1..1
            BY <1>1, <1>3, <2>2
        <3>2. rows \in [1..1 -> {row(1)}]
            BY <3>1
        <3> HIDE DEF rows
        <3>3. Len(rows) = 1
            BY <3>2, ListedIsSeq
        <3> QED  BY <3>1, <3>2, <3>3
    <2> HIDE DEF rows, row
    <2>8. FlattenSeq(rows) = MeantBy(plan)[a]
        BY <2>6, <2>7, FlattenOne
    <2> QED  BY <2>8 DEF rows, row
<1> QED  BY <1>4, <1>5

---------------------------------------------------------------------------
\* The rewritten plan and its run implement the plan that was meant.

\* The plans of which this is true: no name the engine derives is read, no
\* name is given up to the disk and declared again, and a name that is
\* respelled, if there is one, is no other name of the plan.
FlowsAsTold(p) ==
    /\ FilesTold(p)
    /\ ~DeclaredTwice(LegalPlan(p))
    /\ MeantBy(LegalPlan(p)) = MeantBy(p)

FlowInv ==
    /\ asked \in Plans /\ intended = asked
    /\ Available(MeantBy(asked), disk)
    /\ pc # "legal" => MeantBy(plan) = MeantBy(asked)
    /\ pc \in {"run", "done"} => Holds(content, plan, disk, at)

Rows(p, meant, n) ==
    /\ DOMAIN meant = 1..n /\ Len(meant) = n
    /\ \A i \in 1..n : /\ DOMAIN meant[i] = DOMAIN p[i].ins
                       /\ \A k \in DOMAIN p[i].ins : meant[i][k] = Meaning(p, i, p[i].ins[k])

LEMMA MeantIs ==
    ASSUME NEW n \in Nat, NEW p \in [1..n -> Step]
    PROVE  Rows(p, MeantBy(p), n)
<1>1. DOMAIN MeantBy(p) = 1..n /\ MeantBy(p) = [i \in 1..n |-> MeantBy(p)[i]]
    BY DEF MeantBy
<1>2. PICK f, S : f = MeantBy(p) /\ S = {f[i] : i \in 1..n}
    OBVIOUS
<1>3. f \in [1..n -> S]
    BY <1>1, <1>2
<1>4. Len(f) = n
    BY <1>3, ListedIsSeq
<1> QED  BY <1>1, <1>2, <1>4 DEF MeantBy, Rows

LEMMA FlowStarts ==
    ASSUME PlansAssumption, Init
    PROVE  FlowInv /\ Flow!FlowInit
<1>1. PICK n \in Nat : n = Len(asked) /\ asked \in [1..n -> Step]
    BY DEF Init, PlansAssumption
<1>2. /\ DOMAIN MeantBy(asked) = 1..n /\ Len(MeantBy(asked)) = n
      /\ \A i \in 1..n : /\ DOMAIN MeantBy(asked)[i] = DOMAIN asked[i].ins
                         /\ \A k \in DOMAIN asked[i].ins : MeantBy(asked)[i][k] = Meaning(asked, i, asked[i].ins[k])
    <2>1. Rows(asked, MeantBy(asked), n)
        BY <1>1, MeantIs
    <2> QED  BY <2>1 DEF Rows
<1>3. ASSUME NEW i \in 1..n, NEW k \in DOMAIN asked[i].ins, Meaning(asked, i, asked[i].ins[k])[1] = "disk"
      PROVE  Meaning(asked, i, asked[i].ins[k])[2] \in disk
    <2>1. PICK x : x = InPath(asked[i].ins[k]) /\ x \in InPaths(asked[i])
        BY DEF InPaths
    <2>2. ProducerOf(asked, x, i) = 0 /\ Meaning(asked, i, asked[i].ins[k])[2] = x
        BY <1>3, <2>1 DEF Meaning
    <2> QED  BY <1>1, <2>1, <2>2 DEF Init, Steps
<1>4. Available(MeantBy(asked), disk)
    BY <1>2, <1>3 DEF Available
<1>5. asked \in Plans /\ intended = asked /\ pc = "legal" /\ got = [i \in 1..n |-> <<>>]
    BY <1>1 DEF Init, Steps
<1>6. Flow!FlowInit
    BY <1>2, <1>5 DEF Flow!FlowInit
<1> QED  BY <1>4, <1>5, <1>6 DEF FlowInv

\* The plan that the walk leaves is meant as it was.
LEMMA WalkFlows ==
    ASSUME PlansAssumption, RespelledAssumption, FlowInv, CollisionInv, CollisionInv', NEW i \in Steps, Walking(i), Advance,
           UNCHANGED <<asked, disk, content, intended>>, MeantBy(plan)' = MeantBy(plan)
    PROVE  FlowInv'
<1>1. pc = "walk" /\ asked \in Seq(Step) /\ content = [p \in disk |-> <<"disk", p>>] /\ MeantBy(plan)' = MeantBy(asked)
    BY DEF Walking, CollisionInv, FlowInv
<1>2. PICK n, N : n = Len(asked) /\ N = LegalPlan(asked)
    OBVIOUS
<1>3. n \in Nat /\ N \in [1..n -> Step] /\ LegalPlan(asked') = N
    BY <1>1, <1>2, LegalNames DEF Steps
<1>4. pc' \in {"walk", "run"} /\ (pc' = "run" => at' = 1)
    BY <1>1 DEF Advance
<1>5. plan' \in [1..n -> Step]
    BY <1>3, <1>4 DEF CollisionInv, Rewritten, SameShape
<1>6. PICK p, c, dk : p = plan' /\ c = content /\ dk = disk
    OBVIOUS
<1>7. Holds(c, p, dk, 1)
    BY <1>1, <1>3, <1>5, <1>6, HoldsAtFirst
<1>8. pc' = "run" => Holds(content, plan, disk, at)'
    BY <1>4, <1>6, <1>7
<1> QED  BY <1>1, <1>4, <1>8 DEF FlowInv

LEMMA MoveFlows ==
    ASSUME PlansAssumption, RespelledAssumption, \A p \in Plans : FlowsAsTold(p),
           FlowInv, CollisionInv, NEW i \in Steps, MoveProducer(i) \/ MoveConsumer(i)
    PROVE  MeantBy(plan)' = MeantBy(plan)
<1>1. PICK path, r : path = OutPath(plan[i]) /\ r = ProducerOf(plan, path, i)
    OBVIOUS
<1>2. PICK mark, chosen :
        /\ mark \in Part
        /\ chosen = NextFreeOutput(path, mark)
        /\ Walking(i) /\ HasOutput(plan[i]) /\ Overwrites(plan[i])
        /\ \/ /\ r # 0
              /\ plan' = ReboundBetween([plan EXCEPT ![r].out = Respell(@, chosen)], r + 1, i, path, chosen)
           \/ /\ r = 0
              /\ plan' = ReboundBetween([plan EXCEPT ![i].out = Respell(@, chosen)], i + 1, Len(plan), path, chosen)
    <2>1. "converted" \in Part /\ "intermediate" \in Part
        BY DEF Part
    <2>2. CASE MoveProducer(i)
        BY <1>1, <2>1, <2>2 DEF MoveProducer
    <2>3. CASE MoveConsumer(i)
        BY <1>1, <2>1, <2>3 DEF MoveConsumer
    <2> QED  BY <2>2, <2>3
<1>3. PICK n, N, w : n = Len(asked) /\ N = LegalPlan(asked) /\ w = i - 1
    OBVIOUS
<1>4. /\ n \in Nat /\ N \in [1..n -> Step] /\ i \in 1..n /\ w \in Nat /\ w + 1 = i
      /\ Rewritten(plan, N, declared, moved, disk, w) /\ plan \in [1..n -> Step] /\ Len(plan) = n
    BY <1>2, <1>3, AtStep
<1>5. path \in Path
    BY <1>1, <1>2, <1>4, StepParts
<1>6. chosen \in Path /\ chosen.dir = path.dir /\ chosen \notin ReadBy(N) \cup declared \cup disk
    BY <1>2, <1>3, <1>5, ChosenIs
<1>7. /\ r # 0 => r \in 1..(i - 1) /\ HasOutput(plan[r]) /\ OutPath(plan[r]) = path
      /\ \A m \in 1..(i - 1) : HasOutput(plan[m]) /\ OutPath(plan[m]) = path => m <= r
    BY <1>1, <1>4, ProducerIs
<1>8. /\ asked \in Plans /\ MeantBy(plan) = MeantBy(asked) /\ MeantBy(N) = MeantBy(asked)
      /\ ~DeclaredTwice(N) /\ FilesTold(asked)
    BY <1>2, <1>3 DEF FlowInv, FlowsAsTold, Walking
<1>9. r = 0 => \A t \in 1..n : i < t => ~(HasOutput(plan[t]) /\ OutPath(plan[t]) = path)
    <2> SUFFICES ASSUME r = 0, NEW t \in 1..n, i < t, HasOutput(plan[t]), OutPath(plan[t]) = path PROVE FALSE
        OBVIOUS
    <2>1. /\ HasOutput(N[i]) /\ OutPath(N[i]) = path /\ HasOutput(N[t]) /\ OutPath(N[t]) = path
        <3>1. i > w /\ t > w
            BY <1>4
        <3>2. HasOutput(N[i]) /\ HasOutput(N[t])
            BY <1>2, <1>4 DEF Rewritten, SameShape
        <3>3. OutPath(plan[i]) = OutPath(N[i]) /\ OutPath(plan[t]) = OutPath(N[t])
            BY <1>2, <1>4, <3>1 DEF Rewritten, NamesKept
        <3> QED  BY <1>1, <3>2, <3>3
    <2>2. PICK k \in DOMAIN plan[i].ins : InPath(plan[i].ins[k]) = path
        BY <1>1, <1>2 DEF Overwrites, InPaths
    <2>3. Meaning(plan, i, plan[i].ins[k]) = <<"disk", path>>
        BY <1>1, <2>2 DEF Meaning
    <2>4. DOMAIN plan[i].ins = DOMAIN N[i].ins
        BY <1>4 DEF Rewritten, SameShape
    <2>5. Meaning(N, i, N[i].ins[k]) = <<"disk", path>>
        <3>1. Rows(plan, MeantBy(plan), n) /\ Rows(N, MeantBy(N), n)
            BY <1>4, MeantIs
        <3>2. MeantBy(plan) = MeantBy(N)
            BY <1>8
        <3> QED  BY <1>4, <2>2, <2>3, <2>4, <3>1, <3>2 DEF Rows
    <2>6. InPath(N[i].ins[k]) = path /\ ProducerOf(N, path, i) = 0
        BY <2>5 DEF Meaning
    <2>7. path \in InPaths(N[i])
        BY <2>4, <2>6 DEF InPaths
    <2> QED  BY <1>4, <1>8, <2>1, <2>6, <2>7 DEF DeclaredTwice
<1>10. PICK j, lo, hi : /\ lo = j + 1
                        /\ \/ r # 0 /\ j = r /\ hi = i
                           \/ r = 0 /\ j = i /\ hi = n
    OBVIOUS
<1>11. Bounds(n, i, j, lo, hi) /\ HasOutput(plan[j]) /\ OutPath(plan[j]) = path /\ j \notin lo..hi
    BY <1>1, <1>2, <1>4, <1>7, <1>10 DEF Bounds
<1>12. Undivided(plan, j, hi, path)
    <2>1. CASE r # 0
        <3>1. \A t \in 1..n : j < t /\ t < hi => t \in 1..(i - 1) /\ ~(t <= r)
            BY <1>4, <1>7, <1>10, <2>1
        <3> QED  BY <1>4, <1>7, <3>1 DEF Undivided
    <2>2. CASE r = 0
        BY <1>4, <1>9, <1>10, <2>2 DEF Undivided
    <2> QED  BY <2>1, <2>2
<1>13. PICK p, q : p = plan /\ q = plan'
    OBVIOUS
<1>14. Renamed(p, q, j, lo, hi, path, chosen)
    <2>1. q = RenamedAt(p, j, lo, hi, path, chosen)
        BY <1>2, <1>4, <1>10, <1>13 DEF RenamedAt
    <2>2. Renamed(p, RenamedAt(p, j, lo, hi, OutPath(p[j]), chosen), j, lo, hi, OutPath(p[j]), chosen)
        <3>1. chosen.dir = OutPath(p[j]).dir /\ p \in [1..n -> Step] /\ j \in 1..n /\ HasOutput(p[j]) /\ j \notin lo..hi
            BY <1>4, <1>6, <1>11, <1>13 DEF Bounds
        <3> QED  BY <1>6, <3>1, RenameIs DEF PlansAssumption
    <2> QED  BY <1>11, <1>13, <2>1, <2>2
<1>15. Unused(p, chosen)
    BY <1>4, <1>6, <1>13 DEF Rewritten, Accounted, Unused
<1>16. \A m \in 1..n : IsTerminal(p[m]) => DOMAIN p[m].ins = {}
    <2>1. ASSUME NEW m \in 1..n, IsTerminal(p[m]) PROVE DOMAIN p[m].ins = {}
        <3>1. asked \in [1..n -> Step] /\ asked \in Seq(Step) /\ DOMAIN asked = 1..n
            BY <1>3 DEF CollisionInv
        <3>2. DOMAIN p[m].ins = DOMAIN asked[m].ins
            <4>1. Rows(p, MeantBy(p), n) /\ Rows(asked, MeantBy(asked), n)
                BY <1>4, <1>13, <3>1, MeantIs
            <4> QED  BY <1>8, <1>13, <4>1 DEF Rows
        <3>3. IsTerminal(asked[m])
            <4>1. p[m].tool = N[m].tool
                BY <1>4, <1>13 DEF Rewritten, SameShape
            <4>2. N[m].tool = asked[m].tool
                <5>1. PICK s \in Seq(Step) : s = asked
                    BY <3>1
                <5>2. DOMAIN s = 1..n /\ N = LegalPlan(s)
                    BY <1>3, <3>1, <5>1
                <5> QED  BY <5>1, <5>2, LegalIs
            <4> QED  BY <2>1, <4>1, <4>2 DEF IsTerminal
        <3>4. asked[m].ins = <<>>
            BY <1>8, <3>1, <3>3 DEF FilesTold, NamesLeft
        <3> QED  BY <3>2, <3>4
    <2> QED  BY <2>1
<1>17. Moves(n, p, q, i, j, lo, hi, path, chosen)
    BY <1>1, <1>2, <1>4, <1>11, <1>12, <1>13, <1>14, <1>15, <1>16 DEF Moves
<1>18. Alike(p, q)
    <2>1. PICK I : I = i
        OBVIOUS
    <2>2. Moves(n, p, q, I, j, lo, hi, path, chosen)
        BY <1>17, <2>1
    <2> QED  BY <1>4, <2>2, MoveMeans
<1>19. MeantBy(q) = MeantBy(p)
    BY <1>18, MeantAlike
<1>20. MeantBy(plan)' = MeantBy(plan')
    BY DEF MeantBy, Meaning
<1> QED  BY <1>13, <1>19, <1>20

LEMMA LegalFlows ==
    ASSUME \A p \in Plans : FlowsAsTold(p), FlowInv, CollisionInv, Legal, UNCHANGED intended
    PROVE  FlowInv'
<1>1. /\ pc = "legal" /\ plan' = LegalPlan(plan) /\ pc' = "walk" /\ UNCHANGED <<asked, disk, intended>>
      /\ plan = asked
    BY DEF Legal, CollisionInv
<1>2. MeantBy(plan') = MeantBy(asked)
    BY <1>1 DEF FlowInv, FlowsAsTold
<1>3. MeantBy(plan)' = MeantBy(plan')
    BY DEF MeantBy, Meaning
<1> QED  BY <1>1, <1>2, <1>3 DEF FlowInv

LEMMA RunFlows ==
    ASSUME PlansAssumption, RespelledAssumption, \A p \in Plans : FlowsAsTold(p),
           FlowInv, CollisionInv, NEW i \in Steps, RunStep(i), UNCHANGED intended
    PROVE  FlowInv' /\ Flow!RunNext
<1>1. /\ pc = "run" /\ at = i /\ UNCHANGED <<asked, plan, disk, intended>>
      /\ content' = [p \in DOMAIN content \cup Written(plan[i]) |->
                       IF p \in Written(plan[i]) THEN <<"step", i>> ELSE content[p]]
      /\ got' = [got EXCEPT ![i] =
                   FlattenSeq([k \in DOMAIN Commands(plan[i]) |->
                       LET ins == Commands(plan[i])[k].ins IN [m \in DOMAIN ins |-> ReadAt(i, k, ins[m])]])]
      /\ at' = i + 1 /\ pc' \in {"run", "done"}
    BY DEF RunStep
<1>2. PICK n, N : n = Len(asked) /\ N = LegalPlan(asked)
    OBVIOUS
<1>3. /\ asked \in Seq(Step) /\ Rewritten(plan, N, declared, moved, disk, n)
      /\ asked \in Plans /\ intended = asked /\ Available(MeantBy(asked), disk)
      /\ MeantBy(plan) = MeantBy(asked) /\ Holds(content, plan, disk, i)
    BY <1>1, <1>2 DEF CollisionInv, WalkedTo, FlowInv
<1>4. n \in Nat /\ N \in [1..n -> Step] /\ i \in 1..n /\ asked \in [1..n -> Step]
    BY <1>2, <1>3, LegalNames DEF Steps
<1>5. plan \in [1..n -> Step] /\ \A m \in 1..n : HasOutput(plan[m]) => ~Overwrites(plan[m])
    BY <1>3, <1>4 DEF Rewritten, SameShape
<1>6. FilesTold(plan)
    <2>1. PICK a \in Seq(Step) : a = asked
        BY <1>3
    <2>2. SameShape(N, a)
        <3>1. DOMAIN a = 1..n /\ N = LegalPlan(a)
            BY <1>2, <1>4, <2>1
        <3> QED  BY <1>4, <2>1, <3>1, LegalIs DEF SameShape
    <2>3. FilesTold(a)
        BY <1>3, <2>1 DEF FlowsAsTold
    <2>4. FilesTold(N)
        BY <1>4, <2>1, <2>2, <2>3, FilesStayTold
    <2>5. PICK p : p = plan
        OBVIOUS
    <2>6. SameShape(p, N)
        BY <1>3, <2>5 DEF Rewritten
    <2> QED  BY <1>4, <2>4, <2>5, <2>6, FilesStayTold
<1>7. Holds(content, plan, disk, at)'
    <2>1. PICK p, c, new, dk : p = plan /\ c = content /\ new = content' /\ dk = disk
        OBVIOUS
    <2>2. new = After(c, p, i) /\ Holds(c, p, dk, i) /\ p \in [1..n -> Step]
        BY <1>1, <1>3, <1>5, <2>1 DEF After
    <2>3. HasOutput(p[i]) => ~Overwrites(p[i])
        BY <1>4, <1>5, <2>1
    <2>4. Holds(new, p, dk, i + 1)
        BY <1>4, <2>2, <2>3, HoldsOn
    <2> QED  BY <1>1, <2>1, <2>4
<1>8. FlowInv'
    <2>1. MeantBy(plan)' = MeantBy(asked)
        BY <1>1, <1>3 DEF MeantBy, Meaning
    <2> QED  BY <1>1, <1>3, <1>7, <2>1 DEF FlowInv
<1>9. got' = [got EXCEPT ![i] = MeantBy(intended)[i]]
    <2>1. Available(MeantBy(plan), disk)
        BY <1>3
    <2>2. FlattenSeq([k \in DOMAIN Commands(plan[i]) |->
              LET ins == Commands(plan[i])[k].ins IN [m \in DOMAIN ins |-> ReadAt(i, k, ins[m])]])
          = MeantBy(plan)[i]
        BY <1>3, <1>4, <1>5, <1>6, <2>1, ReadsAreMeant
    <2> QED  BY <1>1, <1>3, <2>2
<1>10. /\ Len(MeantBy(intended)) = n
       /\ \A k \in DOMAIN MeantBy(intended)[i] : MeantBy(intended)[i][k][1] = "step" => MeantBy(intended)[i][k][2] < i
    <2>1. Rows(asked, MeantBy(asked), n)
        BY <1>4, MeantIs
    <2>2. ASSUME NEW k \in DOMAIN asked[i].ins, Meaning(asked, i, asked[i].ins[k])[1] = "step"
          PROVE  Meaning(asked, i, asked[i].ins[k])[2] < i
        <3>1. PICK x, j : x = InPath(asked[i].ins[k]) /\ j = ProducerOf(asked, x, i)
            OBVIOUS
        <3>2. j # 0 => j \in 1..(i - 1)
            BY <1>4, <3>1, ProducerIs
        <3>3. j # 0 /\ Meaning(asked, i, asked[i].ins[k])[2] = j
            BY <2>2, <3>1 DEF Meaning
        <3> QED  BY <1>4, <3>2, <3>3
    <2> QED  BY <1>3, <1>4, <2>1, <2>2 DEF Rows
<1>11. Flow!RunNext
    BY <1>1, <1>4, <1>9, <1>10 DEF Flow!RunNext
<1> QED  BY <1>8, <1>11

LEMMA FlowStep ==
    ASSUME PlansAssumption, RespelledAssumption, \A p \in Plans : FlowsAsTold(p),
           FlowInv, CollisionInv, CollisionInv', [Next]_vars
    PROVE  FlowInv' /\ [Flow!RunNext]_Flow!flowVars
<1>1. CASE Next /\ Legal
    <2>1. UNCHANGED <<intended, got>> /\ pc = "legal" /\ pc' = "walk"
        BY <1>1 DEF Next, Legal
    <2> QED  BY <1>1, <2>1, LegalFlows DEF Flow!flowVars
<1>2. ASSUME NEW i \in Steps, UNCHANGED intended, PassStep(i) \/ KeepOutput(i) \/ MoveProducer(i) \/ MoveConsumer(i)
      PROVE  FlowInv' /\ [Flow!RunNext]_Flow!flowVars
    <2>1. Walking(i) /\ Advance /\ UNCHANGED <<asked, disk, content, got, intended>>
        BY <1>2 DEF PassStep, KeepOutput, MoveProducer, MoveConsumer
    <2>2. MeantBy(plan)' = MeantBy(plan)
        <3>1. CASE PassStep(i) \/ KeepOutput(i)
            <4>1. plan' = plan
                BY <3>1 DEF PassStep, KeepOutput
            <4> QED  BY <4>1 DEF MeantBy, Meaning
        <3>2. CASE MoveProducer(i) \/ MoveConsumer(i)
            BY <3>2, MoveFlows
        <3> QED  BY <1>2, <3>1, <3>2
    <2>3. FlowInv'
        BY <2>1, <2>2, WalkFlows
    <2>4. pc = "walk" /\ (pc' = "run" => at' = 1) /\ pc' \in {"walk", "run"}
        BY <2>1 DEF Walking, Advance
    <2> QED  BY <2>1, <2>3, <2>4 DEF Flow!flowVars
<1>3. CASE Next /\ \E i \in Steps : RunStep(i)
    <2>1. UNCHANGED intended
        BY <1>3 DEF Next
    <2> QED  BY <1>3, <2>1, RunFlows
<1>4. CASE UNCHANGED vars
    <2>1. UNCHANGED <<asked, plan, disk, pc, at, content, got, intended>>
        BY <1>4 DEF vars
    <2>2. MeantBy(plan)' = MeantBy(plan) /\ MeantBy(asked)' = MeantBy(asked)
        BY <2>1 DEF MeantBy, Meaning
    <2> QED  BY <2>1, <2>2 DEF FlowInv, Flow!flowVars
<1> QED  BY <1>1, <1>2, <1>3, <1>4 DEF Next

\* The rewritten plan, when it runs, reads in every step what the plan meant
\* before any name was changed (_collisions.py:14-21), whatever the files that
\* are there: the rewrite implements PlanFlow.  It is so of the plans whose
\* steps each write the one file they name (the last may leave it to the
\* engine), which give up no name to the disk that a later step declares, and
\* whose respelled names, if any, are no other names of the plan.
THEOREM RewriteImplementsPlan ==
    ASSUME \A p \in Plans : FlowsAsTold(p)
    PROVE  Spec => ImplementsFlow
<1>1. Init => FlowInv /\ Flow!FlowInit
    BY FlowStarts, PlansAssumption
<1>2. FlowInv /\ CollisionInv /\ CollisionInv' /\ [Next]_vars => FlowInv' /\ [Flow!RunNext]_Flow!flowVars
    BY FlowStep, PlansAssumption, RespelledAssumption
<1> QED  BY <1>1, <1>2, RewriteInvariant, PTL DEF Spec, ImplementsFlow, Flow!FlowSpec
=============================================================================
