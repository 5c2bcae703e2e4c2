----------------------------- MODULE ConsoleRun -----------------------------
(* knaif/app.py, run_cmd: a plan is previewed to learn what it would         *)
(* replace, the user is asked about each such file, and the plan runs intent *)
(* by intent, leaf by leaf, until it is done, stops or raises.  What a leaf  *)
(* does is the skill's: DocumentRun and MediaRun supply it.  --overwrite,    *)
(* which agrees to everything beforehand, and --dry-run are left out.        *)
EXTENDS Naturals, Sequences, SequencesExt, FiniteSets

CONSTANTS
    Plans,          \* the plans that have passed the gates: sequences of intents
    Folders,        \* what the folder may hold when the run starts
    Settings,       \* what may be installed on the machine
    Calls,          \* the options and the terminal: [confirm, silent, verbose, terminal : BOOLEAN]
    Newcomers,      \* path -> a file somebody else may add there
    Leaves(_),      \* the leaves an intent expands to
    Named(_),       \* the outputs an intent names
    Preflight(_, _),    \* a plan may start in a folder
    Dry(_, _, _, _),    \* what a leaf may return in a preview, given the folder,
                        \* the results of its intent's earlier leaves, and the machine
    Do(_, _, _, _),     \* the same for a real run, with the folder it leaves
    Writes(_),      \* the paths a preview's result says it would write
    ErrorIn(_)      \* the skill renders the result as an error

VARIABLES
    plan, setting, call,
    origin,     \* what the folder held when the run started
    files,      \* path -> what it holds
    phase,      \* "preview", "gate", "check", "intent", "leaf", "over"
    bi, li,     \* the intent and the leaf to run
    bound,      \* results of the current intent's leaves
    results,    \* [intent, tool, result] of every leaf that ran
    found,      \* paths the preview found, then the ones to ask about
    agreed,     \* paths the user agreed to have replaced
    made,       \* paths this run created
    errors,     \* an error has been rendered
    exit        \* exit code, NoExit while running

request == <<plan, setting, call, origin>>
place == <<bi, li, bound>>
vars == <<request, files, phase, place, results, found, agreed, made, errors, exit>>

NoExit == 9

Block == Leaves(plan[bi])
Leaf == Block[li]
PastLast == bi > Len(plan)

\* To the next leaf of the block, or to the next intent, with what came back.
Advance(result) ==
    IF li < Len(Block)
    THEN li' = li + 1 /\ bound' = Append(bound, result) /\ UNCHANGED bi
    ELSE bi' = bi + 1 /\ li' = 1 /\ bound' = <<>>

End(code) == phase' = "over" /\ exit' = code

---------------------------------------------------------------------------
\* _existing_outputs: a preview, and when it raises, what the plan names.

NamedOutputs == UNION {Named(plan[i]) : i \in DOMAIN plan}

ToGate(paths) ==
    /\ phase' = "gate"
    /\ found' = paths \cap DOMAIN files
    /\ bi' = 1 /\ li' = 1 /\ bound' = <<>>

PreviewLeaf ==
    /\ phase = "preview" /\ ~PastLast
    /\ \E o \in Dry(Leaf, files, bound, setting) :
        CASE o.end = "raised" -> ToGate(NamedOutputs)
          [] o.end = "ok"     -> /\ found' = found \cup Writes(o.result)
                                 /\ Advance(o.result)
                                 /\ UNCHANGED phase
          [] OTHER            -> ToGate(found \cup Writes(o.result))
    /\ UNCHANGED <<request, files, results, agreed, made, errors, exit>>

PreviewEnds ==
    /\ phase = "preview" /\ PastLast
    /\ ToGate(found)
    /\ UNCHANGED <<request, files, results, agreed, made, errors, exit>>

---------------------------------------------------------------------------
\* overwrite_gate.

AskReplace(yes) ==
    /\ phase = "gate" /\ found # {} /\ call.terminal
    /\ \E p \in found :
        IF yes
        THEN agreed' = agreed \cup {p} /\ found' = found \ {p} /\ UNCHANGED <<phase, exit>>
        ELSE End(0) /\ UNCHANGED <<agreed, found>>
    /\ UNCHANGED <<request, files, place, results, made, errors>>

\* Nobody to ask: the command stops and names the flag.
NobodyToAsk ==
    /\ phase = "gate" /\ found # {} /\ ~call.terminal
    /\ End(1)
    /\ UNCHANGED <<request, files, place, results, found, agreed, made, errors>>

GateOpen ==
    /\ phase = "gate" /\ found = {}
    /\ phase' = "check"
    /\ UNCHANGED <<request, files, place, results, found, agreed, made, errors, exit>>

---------------------------------------------------------------------------
\* execute_plan.

\* A plan that preflight turns into a question has done nothing.
Check ==
    /\ phase = "check"
    /\ IF Preflight(plan, files) THEN phase' = "intent" /\ UNCHANGED exit ELSE End(0)
    /\ UNCHANGED <<request, files, place, results, found, agreed, made, errors>>

Finish == End(IF errors' THEN 1 ELSE 0)

\* With --confirm each intent is shown and may be declined.
ShowIntent(ok) ==
    /\ phase = "intent" /\ ~PastLast
    /\ call.confirm \/ ok
    /\ UNCHANGED errors
    /\ IF ok THEN phase' = "leaf" /\ UNCHANGED exit ELSE Finish
    /\ UNCHANGED <<request, files, place, results, found, agreed, made>>

PlanDone ==
    /\ phase = "intent" /\ PastLast
    /\ UNCHANGED errors
    /\ Finish
    /\ UNCHANGED <<request, files, place, results, found, agreed, made>>

\* _on_intent_completed: --silent and --verbose return before the items.
Rendered(sub) == ~call.silent /\ ~call.verbose /\ \E k \in DOMAIN sub : ErrorIn(sub[k])

RunLeaf ==
    /\ phase = "leaf"
    /\ \E o \in Do(Leaf, files, bound, setting) :
        /\ files' = o.files
        /\ made' = made \cup (DOMAIN o.files \ DOMAIN files)
        /\ IF o.end = "raised"
           THEN End(1) /\ UNCHANGED <<place, results, errors>>
           ELSE /\ results' = Append(results, [intent |-> bi, leaf |-> li, tool |-> Leaf.tool,
                                               result |-> o.result])
                /\ IF o.end = "ok"
                   THEN /\ Advance(o.result)
                        /\ errors' = (errors \/ (bi' # bi /\ Rendered(Append(bound, o.result))))
                        /\ phase' = (IF bi' # bi THEN "intent" ELSE phase)
                        /\ UNCHANGED exit
                   ELSE /\ errors' = (errors \/ Rendered(Append(bound, o.result)))
                        /\ Finish
                        /\ UNCHANGED place
    /\ UNCHANGED <<request, found, agreed>>

---------------------------------------------------------------------------
\* Another program, or the user, adds a file to the folder.
Put(p) ==
    /\ phase # "over"
    /\ p \notin DOMAIN files
    /\ files' = [q \in DOMAIN files \cup {p} |-> IF q = p THEN Newcomers[p] ELSE files[q]]
    /\ UNCHANGED <<request, phase, place, results, found, agreed, made, errors, exit>>

Init ==
    /\ plan \in Plans /\ setting \in Settings /\ call \in Calls
    /\ origin \in Folders /\ files = origin
    /\ phase = "preview"
    /\ bi = 1 /\ li = 1 /\ bound = <<>> /\ results = <<>>
    /\ found = {} /\ made = {} /\ errors = FALSE /\ exit = NoExit
    /\ agreed = {}

Next ==
    \/ PreviewLeaf \/ PreviewEnds
    \/ \E yes \in BOOLEAN : AskReplace(yes)
    \/ NobodyToAsk \/ GateOpen \/ Check
    \/ \E ok \in BOOLEAN : ShowIntent(ok)
    \/ PlanDone \/ RunLeaf
    \/ \E p \in DOMAIN Newcomers : Put(p)

Spec == Init /\ [][Next]_vars

---------------------------------------------------------------------------
Kept == INSTANCE KeptFolder WITH files <- files, made <- made, agreed <- agreed

\* Whatever the plan, and whoever adds files meanwhile: nothing is deleted, and
\* a file that was there is replaced only after the user said yes to it
\* (app.py:615-620).
FolderIsKept == Kept!KeptSpec
=============================================================================
