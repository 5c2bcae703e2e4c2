------------------------------ MODULE AgentTurn ------------------------------
(* knaif/agent.py: the re-planning loop (run), the model call with its one   *)
(* repair (infer), and the execution of a plan (execute_plan): gates,        *)
(* validation, expansion, preflight, approval, and the leaves in order.      *)
EXTENDS PlanRules

CONSTANTS
    Answers,        \* plans the model may answer with
    Garbage,        \* an answer that does not parse
    MaxSteps        \* turns of the loop

\* A plan is a sequence of steps.
ASSUME AnswersAssumption == \A a \in Answers : a # Garbage /\ a \in Seq(Range(a))

VARIABLES
    dryRun, confirmed, approve,   \* how the agent was called
    unsafe,     \* the request holds an unsafe phrase
    phase,      \* "ask", "repair", "guard", "gates", "intent", "leaf", "over", "raised"
    turn,
    first,      \* the model's first answer of this turn
    payload,    \* the plan infer returns
    blocks,     \* per intent, the leaves left after expansion and optimisation
    bi, li,     \* the intent and the leaf to run
    shown,      \* clauses shown so far (summary_idx)
    approved,   \* intents of this plan whose clause the user was shown
    ctx,        \* variable -> <<intent, leaf>> that bound it
    results,    \* records of this plan
    history,    \* records of the finished plans
    seen,       \* signatures of the steps submitted
    log         \* the leaves that touched the user's files, with turn and intent

call == <<dryRun, confirmed, approve, unsafe>>
exec == <<blocks, bi, li, shown, approved, ctx, results>>
turnVars == <<call, phase, turn, first, payload, exec, history, seen, log>>

---------------------------------------------------------------------------
\* infer.

\* _parse_and_check: "clean", "parse" or "validate".  A missing argument is
\* left to the gate, so it never starts a repair.
Kind(answer) ==
    CASE answer = Garbage -> "parse"
      [] answer # Garbage /\ Lacks(answer, "missing") -> "clean"
      [] answer # Garbage /\ ~Lacks(answer, "missing") /\ ~ValidPlan(answer, FALSE) -> "validate"
      [] OTHER -> "clean"

\* What infer returns for the answer it settled on.
Settle(answer) ==
    IF answer = Garbage
    THEN <<Say("clarify")>>
    ELSE IF \E i \in DOMAIN answer : answer[i].fault = "ghost"
         THEN <<Say("clarify")>>
         ELSE answer

Refuse ==
    /\ phase = "ask" /\ unsafe
    /\ payload' = <<Say("reject")>>
    /\ first' = payload'
    /\ phase' = "guard"
    /\ UNCHANGED <<call, turn, exec, history, seen, log>>

AskModel(answer) ==
    /\ phase = "ask" /\ ~unsafe
    /\ first' = answer
    /\ IF Kind(answer) = "clean"
       THEN phase' = "guard" /\ payload' = Settle(answer)
       ELSE phase' = "repair" /\ UNCHANGED payload
    /\ UNCHANGED <<call, turn, exec, history, seen, log>>

\* One corrective prompt; its answer counts only when it is clean.
Repair(answer) ==
    /\ phase = "repair"
    /\ payload' = Settle(IF Kind(answer) = "clean" THEN answer ELSE first)
    /\ phase' = "guard"
    /\ UNCHANGED <<call, turn, first, exec, history, seen, log>>

---------------------------------------------------------------------------
\* run: the guards of one iteration.

Stale(plan) == Actionable(plan) # {} /\ Actionable(plan) \subseteq seen

Guard ==
    /\ phase = "guard"
    /\ IF payload = <<>> \/ payload[1].tool = "done" \/ Stale(payload)
       THEN phase' = "over" /\ UNCHANGED seen
       ELSE phase' = "gates" /\ seen' = seen \cup Actionable(payload)
    /\ UNCHANGED <<call, turn, first, payload, exec, history, log>>

---------------------------------------------------------------------------
\* execute_plan, up to the first leaf.

Record(tool, status) == [tool |-> tool, status |-> status]

Asking(tool) == Record(tool, "asked")

\* The plan is answered with a question or a refusal.
AskBack(tool) ==
    /\ results' = <<Asking(tool)>>
    /\ history' = history \o results'
    /\ phase' = "over"
    /\ UNCHANGED <<call, turn, first, payload, blocks, bi, li, shown, approved, ctx, seen, log>>

RaiseError ==
    /\ phase' = "raised"
    /\ UNCHANGED <<call, turn, first, payload, exec, history, seen, log>>

Expanded(plan) == [i \in DOMAIN plan |-> Expand(plan[i])]

AnyFault(plan, fault) == \E i \in DOMAIN plan : ~TerminalStep(plan[i]) /\ plan[i].fault = fault

\* Files are looked for only when they will be touched.
PreflightFails(plan) == ~dryRun /\ AnyFault(plan, "absent")

GatesAsk ==
    /\ phase = "gates"
    /\ \/ Lacks(payload, "missing") \/ Lacks(payload, "extra")
       \/ /\ ValidPlan(payload, FALSE)
          /\ \/ AnyFault(payload, "stem") \/ AnyFault(payload, "unnamed")
             \/ ValidLeaves(Expanded(payload)) /\ PreflightFails(payload)
    /\ AskBack("clarify")

GatesRaise ==
    /\ phase = "gates"
    /\ ~Lacks(payload, "missing") /\ ~Lacks(payload, "extra")
    /\ \/ ~ValidPlan(payload, FALSE)
       \/ /\ ~AnyFault(payload, "stem") /\ ~AnyFault(payload, "unnamed")
          /\ ~ValidLeaves(Expanded(payload))
    /\ RaiseError

Accept ==
    /\ phase = "gates"
    /\ ~\E fault \in {"missing", "extra", "stem", "unnamed"} : AnyFault(payload, fault)
    /\ ValidPlan(payload, FALSE)
    /\ ValidLeaves(Expanded(payload))
    /\ ~PreflightFails(payload)
    /\ blocks' = [i \in DOMAIN payload |-> Optimized(Expand(payload[i]))]
    /\ bi' = 1 /\ li' = 1 /\ shown' = 0 /\ approved' = {} /\ ctx' = <<>> /\ results' = <<>>
    /\ phase' = "intent"
    /\ UNCHANGED <<call, turn, first, payload, history, seen, log>>

---------------------------------------------------------------------------
\* execute_plan, one intent at a time.

\* The loop is over: what ran is in the history, and a terminal record ends run.
PlanEnds(records) ==
    /\ history' = history \o records
    /\ IF \/ records # <<>> /\ Last(records).tool \in Terminal
          \/ turn = MaxSteps
       THEN phase' = "over" /\ UNCHANGED turn
       ELSE phase' = "ask" /\ turn' = turn + 1

AllTerminal == \A i \in DOMAIN blocks : \A k \in DOMAIN blocks[i] : TerminalStep(blocks[i][k])

Shows(i) == approve /\ ~AllTerminal /\ ~TerminalStep(payload[i])

\* The clause at summary_idx is shown and the user asked; a refusal ends the plan.
ShowIntent(ok) ==
    /\ phase = "intent" /\ bi <= Len(blocks)
    /\ IF Shows(bi)
       THEN /\ shown' = shown + 1
            /\ approved' = IF ok THEN approved \cup {Summaries(payload)[shown + 1]} ELSE approved
       ELSE ok /\ UNCHANGED <<shown, approved>>
    /\ IF ok
       THEN phase' = "leaf" /\ li' = 1 /\ UNCHANGED <<turn, history>>
       ELSE PlanEnds(results) /\ UNCHANGED li
    /\ UNCHANGED <<call, first, payload, blocks, bi, ctx, results, seen, log>>

AfterLastIntent ==
    /\ phase = "intent" /\ bi > Len(blocks)
    /\ PlanEnds(results)
    /\ UNCHANGED <<call, first, payload, exec, seen, log>>

---------------------------------------------------------------------------
\* _execute_steps.

Leaf == blocks[bi][li]

\* Mutant: only the leaf's own category is looked at.
LeafNeedsConfirmation ==
    /\ ~TerminalStep(Leaf)
    /\ Destructive(Leaf)
    /\ ~dryRun /\ ~confirmed

\* A destructive intent asks for confirmation whatever its leaves are; its own
\* question or refusal performs nothing.
NeedsConfirmation ==
    /\ ~TerminalStep(Leaf)
    /\ Destructive(payload[bi]) \/ Destructive(Leaf)
    /\ ~dryRun /\ ~confirmed

Running == phase = "leaf" /\ li <= Len(blocks[bi])

\* A variable that is not bound, an argument that its value makes invalid, a
\* missing confirmation, or an exception of the handler: nothing is returned.
LeafRaises ==
    /\ Running
    /\ RaiseError

Status(tool) ==
    CASE tool = "wait_for_confirmation" -> {"ok", "declined"}
      [] tool \in {"clarify", "reject"} -> {"asked"}
      [] tool = "done" -> {"ok"}
      [] OTHER -> {"ok", "failed"}

Touches == ~dryRun /\ ~TerminalStep(Leaf) /\ ~Readonly(Leaf)

\* _step_failed, a declined confirmation, clarify or reject.
Stops(status) == status \in {"failed", "declined", "asked"}

RunLeaf(status) ==
    /\ Running
    /\ Leaf.uses \subseteq DOMAIN ctx
    /\ ~NeedsConfirmation
    /\ status \in Status(Leaf.tool)
    /\ ctx' = [v \in DOMAIN ctx \cup ({Leaf.out} \ {NoVar}) |-> IF v = Leaf.out THEN <<bi, li>> ELSE ctx[v]]
    /\ results' = Append(results, Record(Leaf.tool, status))
    /\ log' = IF Touches THEN log \cup {[turn |-> turn, intent |-> payload[bi], leaf |-> Leaf]} ELSE log
    /\ IF Stops(status)
       THEN PlanEnds(results') /\ UNCHANGED <<bi, li>>
       ELSE /\ IF li < Len(blocks[bi])
               THEN phase' = phase /\ li' = li + 1 /\ UNCHANGED bi
               ELSE phase' = "intent" /\ bi' = bi + 1 /\ UNCHANGED li
            /\ UNCHANGED <<turn, history>>
    /\ UNCHANGED <<call, first, payload, blocks, shown, approved, seen>>

Statuses == {"ok", "failed", "declined", "asked"}

TurnInit ==
    /\ dryRun \in BOOLEAN /\ confirmed \in BOOLEAN /\ approve \in BOOLEAN /\ unsafe \in BOOLEAN
    /\ phase = "ask" /\ turn = 1
    /\ first = Garbage /\ payload = <<>>
    /\ blocks = <<>> /\ bi = 1 /\ li = 1 /\ shown = 0 /\ approved = {} /\ ctx = <<>>
    /\ results = <<>> /\ history = <<>> /\ seen = {} /\ log = {}

TurnNext ==
    \/ Refuse
    \/ \E a \in Answers \cup {Garbage} : AskModel(a) \/ Repair(a)
    \/ Guard \/ GatesAsk \/ GatesRaise \/ Accept
    \/ \E ok \in BOOLEAN : ShowIntent(ok)
    \/ AfterLastIntent
    \/ LeafRaises
    \/ \E s \in Statuses : RunLeaf(s)

TurnSpec == TurnInit /\ [][TurnNext]_turnVars

---------------------------------------------------------------------------
TurnTypeOK ==
    /\ phase \in {"ask", "repair", "guard", "gates", "intent", "leaf", "over", "raised"}
    /\ turn \in 1..MaxSteps
    /\ phase \in {"intent", "leaf"} =>
        /\ DOMAIN blocks = DOMAIN payload
        /\ shown <= Len(Summaries(payload))
        /\ approved \subseteq DOMAIN blocks
        /\ Len(results) <= Cardinality(Places(blocks))

\* No leaf of a destructive intent, nor a destructive leaf, touches a file of
\* a call that was not confirmed, even when expansion made it of safe leaves
\* and questions (agent.py:648-657, 795-801).
NothingDestroyedUnconfirmed ==
    \A e \in log : Destructive(e.intent) \/ Destructive(e.leaf) => confirmed

\* With approval on, the intent that runs is the one whose clause was shown.
ApprovedIsRun == phase = "leaf" /\ Shows(bi) => bi \in approved

\* What optimisation dropped is never needed: a plan that has begun to run has
\* every variable its next leaf uses.
NoDanglingVariable ==
    phase = "leaf" /\ results # <<>> => Leaf.uses \subseteq DOMAIN ctx
=============================================================================
