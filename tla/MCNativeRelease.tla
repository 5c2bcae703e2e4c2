-------------------------- MODULE MCNativeRelease ---------------------------
(* Three rows: an edit, a second one of the same stratum that the subset     *)
(* may leave out, and one the unsafe-phrase screen must reject.  The second  *)
(* build keeps the first one's inference code and repairs one more answer.   *)
EXTENDS NativeRelease

\* What may happen, chosen at the start: "one board", with everything around
\* it moving, on a machine with one device; or "two runs" over one store on a
\* machine where any process may fall back, with nothing else moving.
VARIABLE scene

Edit == 1
Other == 2
Risky == 3
MCRows == 1..3
MCBuilds == 1..2
MCInference == [b \in MCBuilds |-> "core"]
MCRepairs == [b \in MCBuilds |-> IF b = 1 THEN {} ELSE {Edit}]
MCExpected == <<"plan", "plan", "reject">>
MCTagOf == <<"edit", "edit", "safety">>
MCOrder == <<1, 2, 3>>
MCPercent == [t \in {"edit"} |-> 50]
MCBudget == [t \in {"safety"} |-> 0]
MCFloor == [m \in {"outcome"} |-> 60]
Good == [outcome |-> "plan", score |-> 2]
Fair == [outcome |-> "plan", score |-> 1]
Gap == [outcome |-> "not_implemented", score |-> NoScore]
Failed == [outcome |-> "error", score |-> NoScore]
Refused == [outcome |-> "reject", score |-> NoScore]
MCAnswers == <<{Good, Fair}, {Good, Gap, Failed}, {Refused}>>
MCPythonAnswers == <<{Good, Fair}, {Fair, Failed}, {Refused}>>
Command(m, p, w, l) == [mode |-> m, population |-> p, want |-> w, live |-> l]
Kept == {Edit, Risky}

\* The subset holds every row, so that one edit can be answered worse while
\* another makes up for it.
OneBoard == {
    Command("live", "full", MCRows, {}),
    Command("batch", "full", MCRows, Kept),
    Command("live", "subset", MCRows, {}),
    Command("batch", "subset", MCRows, {Other, Risky}),
    Command("store", "subset", MCRows, {Edit})}

\* A board each, and the board composed of them; the store outlives the first
\* run and the binary that recorded into it.
TwoRuns == {
    Command("live", "full", {Edit}, {}),
    Command("store", "full", MCRows, {Edit}),
    Command("store", "subset", MCRows, {Edit})}
MCCommands == OneBoard \cup TwoRuns

Few == <<{Good, Fair}, {Good}, {Refused}>>
Best == <<Good, Fair, Refused>>

OfRun(commands) == \E c \in commands : \A k \in DOMAIN c : lane[k] = c[k]

OnOneDevice ==
    /\ lane.place # "cpu" /\ "cpu" \notin lane.ran
    /\ \A p \in DOMAIN staging : staging[p].says[2] # "cpu"
    /\ safety.place # "cpu" /\ \A stack \in safety.at : stack[2] # "cpu"
    /\ \A b \in boards : \A r \in DOMAIN b.at : \A stack \in b.at[r] : stack[2] # "cpu"

Within ==
    CASE scene = "one board" ->
            /\ runs <= 1 /\ Cardinality(boards) <= 1
            /\ lane = Idle \/ OfRun(OneBoard)
            /\ OnOneDevice
      [] scene = "two runs" ->
            /\ lane = Idle \/ OfRun(TwoRuns)
            /\ words = [r \in Rows |-> 0] /\ policy = 1 /\ safetyCorpus = {1} /\ safety.failed = {}
            /\ baseline.rows = Best
            /\ \A b \in boards : \A r \in DOMAIN b.rows : b.rows[r] \in Few[r]

MCInit == BenchInit /\ scene \in {"one board", "two runs"} /\ Within
MCNext == Next /\ UNCHANGED scene /\ Within'
MCSpec == MCInit /\ [][MCNext]_<<vars, scene>>
=============================================================================
