------------------------------ MODULE PlanRules ------------------------------
(* knaif/planner.py and the argument gates of knaif/nl_clarify_gate.py, over *)
(* steps [tool, uses, out, fault]: uses are the $variables in the arguments, *)
(* out is the variable the step's result is bound to, and fault is what is   *)
(* wrong with the arguments, if anything:                                    *)
(*   "missing"  a required argument is absent    "extra"   one is unknown    *)
(*   "bad"      a value its schema refuses       "stem"    no such stem      *)
(*   "unnamed"  a file the user did not name     "absent"  no such file      *)
(*   "ghost"    a file name from nowhere         "none"                      *)
EXTENDS Naturals, Sequences, SequencesExt, FiniteSets, Positions

CONSTANTS
    Registry,   \* tool -> [destructive, internal, readonly : BOOLEAN,
                \*          leaves : what the intent expands to, <<>> if nothing]
    NoVar       \* the step binds no variable

\* What an intent expands to uses only what an earlier leaf of it binds.
ASSUME RegistryAssumption ==
    \A tool \in DOMAIN Registry :
        LET leaves == Registry[tool].leaves
        IN  /\ leaves \in Seq(Range(leaves))
            /\ \A k \in DOMAIN leaves : leaves[k].uses \subseteq {leaves[j].out : j \in 1..(k - 1)} \ {NoVar}

Terminal == {"done", "clarify", "reject"}

TerminalStep(step) == step.tool \in Terminal
Known(step) == step.tool \in DOMAIN Registry
Readonly(step) == Known(step) /\ Registry[step.tool].readonly
Destructive(step) == Known(step) /\ Registry[step.tool].destructive

Say(tool) == [tool |-> tool, uses |-> {}, out |-> NoVar, fault |-> "none"]

\* required_args_clarify: before validation, so that a value the user never
\* gave is asked for.  unsupported_args_clarify: after normalisation.
Lacks(plan, fault) ==
    \E i \in DOMAIN plan : ~TerminalStep(plan[i]) /\ Known(plan[i]) /\ plan[i].fault = fault

\* validate_step: an internal tool is never accepted from the model.
ValidStep(step, allowInternal) ==
    /\ Known(step)
    /\ Registry[step.tool].internal => allowInternal
    /\ step.fault \notin {"missing", "extra", "bad"}

AssignedBefore(plan, i) == {plan[j].out : j \in 1..(i - 1)} \ {NoVar}

\* validate_plan: in a plan of several steps a variable is bound before it is used.
ValidPlan(plan, allowInternal) ==
    \A i \in DOMAIN plan :
        /\ ValidStep(plan[i], allowInternal)
        /\ Len(plan) > 1 => plan[i].uses \subseteq AssignedBefore(plan, i)

\* validate_plan of an expanded plan: its leaves stand in order at <<intent, leaf>>.
Places(blocks) == UNION {{<<i, k>> : k \in DOMAIN blocks[i]} : i \in DOMAIN blocks}

Precedes(p, q) == p[1] < q[1] \/ (p[1] = q[1] /\ p[2] < q[2])

BoundBefore(blocks, p) == {blocks[q[1]][q[2]].out : q \in {r \in Places(blocks) : Precedes(r, p)}} \ {NoVar}

ValidLeaves(blocks) ==
    \A p \in Places(blocks) :
        LET leaf == blocks[p[1]][p[2]]
        IN  /\ ValidStep(leaf, TRUE)
            /\ Places(blocks) # {p} => leaf.uses \subseteq BoundBefore(blocks, p)

\* Intent.expand: the intent's own references go into the leaves that forward
\* them, and its variable is bound to the last leaf's result.
Expand(step) ==
    LET leaves == IF Known(step) THEN Registry[step.tool].leaves ELSE <<>>
        Leaf(k) == [tool |-> leaves[k].tool,
                    uses |-> leaves[k].uses \cup (IF leaves[k].forwards THEN step.uses ELSE {}),
                    out  |-> IF k = Len(leaves) /\ step.out # NoVar
                             THEN step.out ELSE leaves[k].out,
                    fault |-> "none"]
    IN  IF leaves = <<>> THEN <<step>> ELSE [k \in DOMAIN leaves |-> Leaf(k)]

\* Mutant: the variables are not looked at.
RedundantUnread(block, i) ==
    /\ Readonly(block[i])
    /\ \E j \in (i + 1)..Len(block) : ~Readonly(block[j])

\* optimize_plan: a read-only step before an action, whose variable no later
\* step uses, is dropped.
Redundant(block, i) ==
    /\ Readonly(block[i])
    /\ \E j \in (i + 1)..Len(block) : ~Readonly(block[j])
    /\ block[i].out = NoVar \/ \A j \in (i + 1)..Len(block) : block[i].out \notin block[j].uses

Kept(block) == InOrder({i \in DOMAIN block : ~Redundant(block, i)})

Optimized(block) == [k \in DOMAIN Kept(block) |-> block[Kept(block)[k]]]

\* Mutant: terminal steps get a clause too.
SummariesOfAll(plan) == [i \in DOMAIN plan |-> i]

\* The clause of each intent that is shown before it runs: all but terminal ones.
Summaries(plan) == InOrder({i \in DOMAIN plan : ~TerminalStep(plan[i])})

\* What the re-planning loop compares: the step without its variable.
Signature(step) == [step EXCEPT !.out = NoVar]

Actionable(plan) == {Signature(plan[i]) : i \in {j \in DOMAIN plan : plan[j].tool # "done"}}
=============================================================================
