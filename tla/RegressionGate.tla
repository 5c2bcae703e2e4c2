--------------------------- MODULE RegressionGate ---------------------------
(* What a finished board is held against (knaif/evalsuite: snapshot.py;      *)
(* cli.py cmd_run --snapshot, cmd_lock, cmd_regression, cmd_run_all_skills,  *)
(* cmd_regression_all_skills, cmd_score_external).  A board is a record of   *)
(* what diff_snapshots compares: who was measured, how, over how many rows,  *)
(* and its metrics; a snapshot is the board it was locked from.  The runs    *)
(* folder holds one board a name, and a later run replaces the earlier.      *)
(* RowBench says how the rows of a board come about.                         *)
EXTENDS Integers, Sequences, SequencesExt, FiniteSets

CONSTANTS
    Skills,         \* the active skills, in the order of a sweep
    Owns,           \* skill -> the verifiers it defines
    Backends,       \* backend -> the public name of its model, or Unnamed
    Unnamed,        \* the configuration names no model
    Undeclared,     \* the board does not say
    Grades,         \* bound: the metrics a run may come to, [outcome, knaif]
    Asked,          \* bound: the verifiers asked for
    Settings,       \* bound: how a run may be set up, [prompt, total]
    Threshold,      \* a metric may drop by so much
    MaxBoards, MaxLocks, MaxPolicy

ExecutingVerifiers == {"success", "honest", "output_diff"}

\* A run that says how it was set up says so; "default" tags the file that is
\* named for no model.
ASSUME GateAssumption ==
    /\ \A b \in DOMAIN Backends : Backends[b] # "default"
    /\ Undeclared \notin Nat \cup ExecutingVerifiers
    /\ \A how \in Settings : how.prompt # Undeclared /\ how.total # Undeclared

VARIABLES
    policy,     \* POLICY_VERSION of the grading code
    saved,      \* <<skill, backend, verifier>> -> the board in the present run folder
    held,       \* <<skill, file>> -> the locked snapshot; file is "default" or a model
    verdict,    \* what a regression check that passed has looked at
    locked,     \* ghost: <<skill, model>> -> the board last locked for that model
    muddled,    \* ghost: skills for which a board of no named model was locked
    made, locks

gateVars == <<policy, saved, held, verdict, locked, muddled, made, locks>>

NoVerdict == [ok |-> FALSE, boards |-> {}, own |-> <<>>]

Metrics == {"outcome", "knaif"}

---------------------------------------------------------------------------
\* Boards.

Put(f, x, y) == [z \in DOMAIN f \cup {x} |-> IF z = x THEN y ELSE f[z]]

\* A verifier the skill does not define grades outcomes only.
Board(skill, backend, verifier, setting, grade) ==
    [skill |-> skill, model |-> Backends[backend], verifier |-> verifier, policy |-> policy,
     prompt |-> setting.prompt, total |-> setting.total, outcome |-> grade.outcome,
     knaif |-> IF verifier \in Owns[skill] THEN grade.knaif ELSE Undeclared]

Save(skill, backend, board) == saved' = Put(saved, <<skill, backend, board.verifier>>, board)

\* cmd_run with --save, of one skill.
Run(skill, backend, verifier, setting, grade) ==
    /\ made < MaxBoards
    /\ Save(skill, backend, Board(skill, backend, verifier, setting, grade))
    /\ made' = made + 1
    /\ UNCHANGED <<policy, held, verdict, locked, muddled, locks>>

\* cmd_score_external: the same file, from an agent that says neither which
\* policy graded it nor which prompt it had.
ScoreExternal(skill, grade) ==
    /\ made < MaxBoards
    /\ saved' = Put(saved, <<skill, "external", "success">>,
                    [skill |-> skill, model |-> Unnamed, verifier |-> "success", policy |-> Undeclared,
                     prompt |-> Undeclared, total |-> 1, outcome |-> grade.outcome,
                     knaif |-> grade.knaif])
    /\ made' = made + 1
    /\ UNCHANGED <<policy, held, verdict, locked, muddled, locks>>

\* cmd_run_all_skills: every skill in turn, for one backend; the sweep may stop
\* part way, and what it has saved stays.  Bound: all skills of it come out
\* alike.
Sweep(backend, verifier, setting, reached, grade) ==
    /\ made < MaxBoards
    /\ LET swept == {<<Skills[i], backend, verifier>> : i \in 1..reached}
       IN  saved' = [name \in DOMAIN saved \cup swept |->
                        IF name \in swept THEN Board(name[1], backend, verifier, setting, grade) ELSE saved[name]]
    /\ made' = made + 1
    /\ UNCHANGED <<policy, held, verdict, locked, muddled, locks>>

\* The next runs go to a run folder of their own.
NewFolder ==
    /\ saved # <<>>
    /\ saved' = <<>>
    /\ UNCHANGED <<policy, held, verdict, locked, muddled, made, locks>>

NewPolicy ==
    /\ policy < MaxPolicy
    /\ policy' = policy + 1
    /\ UNCHANGED <<saved, held, verdict, locked, muddled, made, locks>>

---------------------------------------------------------------------------
\* Snapshots.

\* Mutant: one baseline per skill.
DefaultFile(skill, model) == <<skill, "default">>

\* snapshot_path: the default file serves the model it holds; any other model
\* has a file of its own.
SnapshotFile(skill, model) ==
    LET default == <<skill, "default">>
    IN  IF \/ model = Unnamed
           \/ default \notin DOMAIN held
           \/ held[default].model \in {Unnamed, model}
        THEN default ELSE <<skill, model>>

\* cmd_lock, and run --snapshot on the board it has just made: only a board
\* graded by a verifier that executes, and that the skill owns.
Lock(name) ==
    LET board == saved[name]
        skill == name[1]
    IN  /\ locks < MaxLocks
        /\ board.verifier \in ExecutingVerifiers \cap Owns[skill]
        /\ held' = Put(held, SnapshotFile(skill, board.model), board)
        /\ IF board.model = Unnamed
           THEN muddled' = muddled \cup {skill} /\ UNCHANGED locked
           ELSE locked' = Put(locked, <<skill, board.model>>, board) /\ UNCHANGED muddled
        /\ locks' = locks + 1
        /\ UNCHANGED <<policy, saved, verdict, made>>

---------------------------------------------------------------------------
\* Regression checks.

Identity == {"verifier", "policy", "prompt", "total"}

Agrees(base, current) ==
    \A key \in Identity : base[key] # Undeclared => current[key] = base[key]

\* diff_snapshots: the boards are comparable and no metric dropped too far.
NoRegression(base, current) ==
    /\ Agrees(base, current)
    /\ \A m \in Metrics : base[m] # Undeclared =>
            /\ current[m] # Undeclared
            /\ base[m] - current[m] <= Threshold

\* A check that fails changes nothing; what one that passes has looked at.
Passes(names) ==
    /\ verdict' = [ok |-> TRUE, boards |-> {[skill |-> n[1], board |-> saved[n]] : n \in names},
                   own |-> locked]
    /\ UNCHANGED <<policy, saved, held, locked, muddled, made, locks>>

\* cmd_regression: a board against the baseline of the model it names.
Regression(name) ==
    LET file == SnapshotFile(name[1], saved[name].model)
    IN  /\ file \in DOMAIN held
        /\ NoRegression(held[file], saved[name])
        /\ Passes({name})

\* The boards of a skill that the sweep's gate looks at: those graded by the
\* verifier of the skill's default snapshot.
SweptNames(skill) ==
    {n \in DOMAIN saved : n[1] = skill /\ <<skill, "default">> \in DOMAIN held
                            /\ n[3] = held[<<skill, "default">>].verifier}

\* A skill with a snapshot has a board, unless nothing in the folder was
\* graded by that snapshot's verifier.
Covered(skill) ==
    <<skill, "default">> \in DOMAIN held =>
        \/ SweptNames(skill) # {}
        \/ \A n \in DOMAIN saved : n[3] # held[<<skill, "default">>].verifier

\* cmd_regression_all_skills.
RegressionAllSkills ==
    LET names == UNION {SweptNames(skill) : skill \in Range(Skills)}
        PassesOwn(n) ==
            LET file == SnapshotFile(n[1], saved[n].model)
            IN  file \in DOMAIN held /\ NoRegression(held[file], saved[n])
    IN  /\ \A skill \in Range(Skills) : Covered(skill)
        /\ \A n \in names : PassesOwn(n)
        /\ Passes(names)

---------------------------------------------------------------------------
GateInit ==
    /\ policy = 1
    /\ saved = <<>> /\ held = <<>> /\ verdict = NoVerdict
    /\ locked = <<>> /\ muddled = {}
    /\ made = 0 /\ locks = 0

\* Bound: the story ends with a check, which changes nothing a later step reads.
GateNext ==
    /\ verdict = NoVerdict
    /\ \/ \E b \in DOMAIN Backends, v \in Asked, how \in Settings :
             \/ \E s \in Range(Skills), g \in Grades : Run(s, b, v, how, g)
             \/ \E k \in 1..Len(Skills), g \in Grades : Sweep(b, v, how, k, g)
       \/ \E s \in Range(Skills), g \in Grades : ScoreExternal(s, g)
       \/ NewFolder
       \/ NewPolicy
       \/ \E n \in DOMAIN saved : Lock(n) \/ Regression(n)
       \/ RegressionAllSkills

GateSpec == GateInit /\ [][GateNext]_gateVars

---------------------------------------------------------------------------
\* A board may be held against a locked one when both were graded by the same
\* verifier under the same policy, with the same prompt, over as many rows.
NoWorse(mine, bar) ==
    /\ mine.verifier = bar.verifier /\ mine.policy = bar.policy
    /\ mine.prompt = bar.prompt /\ mine.total = bar.total
    /\ \A m \in Metrics : bar[m] # Undeclared => mine[m] # Undeclared /\ bar[m] - mine[m] <= Threshold

\* A board that passes, of a model that has been locked, is no worse than what
\* was last locked for that model, and was measured the same way: one model's
\* lock never replaces another's bar (snapshot.py:16-28, 107-256).  Locks of
\* boards that name no model are not covered.
PassedOwnBar ==
    verdict.ok =>
        \A checked \in verdict.boards :
            LET key == <<checked.skill, checked.board.model>>
            IN  checked.skill \notin muddled /\ key \in DOMAIN verdict.own =>
                    NoWorse(checked.board, verdict.own[key])
=============================================================================
