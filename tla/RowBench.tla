------------------------------ MODULE RowBench ------------------------------
(* How evalsuite measures the rows of a corpus on one machine (knaif/        *)
(* evalsuite: cli.py cmd_fixtures_regen and cmd_run, provisioning.py,        *)
(* chain.py, runner.py run_corpus, scoring.py).  Fixtures are generated;     *)
(* every executed row gets a copy of them in a directory of its own and its  *)
(* rendered commands run there; the rows are graded into a board; the        *)
(* directories of rows that passed are cleared away.                         *)
(*                                                                           *)
(* A place is [root, at]; a root is the fixture directory or the directory   *)
(* in which a row, or its baseline, runs, and at is [dir, name].  A command  *)
(* is [ins, out], tokens that are places as they were rendered: absolute and *)
(* below the fixture directory by Python, relative in a baseline.  The       *)
(* planner refuses any other.  Rows whose artifact is a plan payload         *)
(* (documents) and two runs in one sandbox are left out.                     *)
EXTENDS Naturals, Sequences, SequencesExt, FiniteSets, TLC

CONSTANTS
    Fixtures,   \* the fixtures the skill defines, each [dir, name]
    Corpus,     \* the rows, in order: [fixture, expects, answers, baseline]
    NoPlan,     \* the model asks or refuses
    MaxRuns, MaxChanges     \* bounds: runs, and changes to recipes and fixtures

\* There are rows; a plan that is executed has commands, a baseline at most one.
ASSUME CorpusAssumption ==
    /\ Corpus \in Seq(Range(Corpus)) /\ Corpus # <<>>
    /\ \A i \in DOMAIN Corpus :
          /\ \A plan \in Corpus[i].answers \ {NoPlan} : plan \in Seq(Range(plan)) /\ plan # <<>>
          /\ Corpus[i].baseline \in Seq(Range(Corpus[i].baseline)) /\ Len(Corpus[i].baseline) <= 1

VARIABLES
    disk,       \* place -> bytes
    recipe,     \* fixture -> version of its generation command
    cache,      \* .cache.json: [cmd, content], fixture -> recipe and fixture -> bytes
    job,        \* the run under way, or Idle
    board,     \* the board of the run that ended last, until the next one starts
    changes, runs

counts == <<changes, runs>>
vars == <<disk, recipe, cache, job, board, counts>>

Idle == <<>>
Broken == <<"broken">>
ByHand == <<"hand">>
Generated(f, v) == <<"generated", f, v>>
Made(contents, out) == <<"made", contents, out>>

Place(root, at) == [root |-> root, at |-> at]
RowDir(r) == <<"row", r>>
BaseDir(r) == <<"base", r>>
Relative == <<"relative", 0>>
Fix == <<"fix", 0>>      \* the fixture directory

Below(root) == {p \in DOMAIN disk : p.root = root}

With(files, p, bytes) == [q \in DOMAIN files \cup {p} |-> IF q = p THEN bytes ELSE files[q]]

Without(files, places) == [p \in DOMAIN files \ places |-> files[p]]

\* fixture_content_hashes: every file below the fixture directory.
Media == [at \in {p.at : p \in Below(Fix)} |-> disk[Place(Fix, at)]]

---------------------------------------------------------------------------
\* Fixtures.

\* verify_fixture_integrity: what was recorded and is missing or has changed.
Problems == {f \in DOMAIN cache.content : f \notin DOMAIN Media \/ Media[f] # cache.content[f]}

EditRecipe(f) ==
    /\ changes < MaxChanges
    /\ recipe' = [recipe EXCEPT ![f] = @ + 1]
    /\ changes' = changes + 1
    /\ UNCHANGED <<disk, cache, job, board, runs>>

Disturbed == IF job = Idle THEN job ELSE [job EXCEPT !.disturbed = TRUE]

\* Something else writes to a fixture, or removes it.
HandEdit(f) ==
    /\ changes < MaxChanges
    /\ disk' \in {With(disk, Place(Fix, f), ByHand), Without(disk, {Place(Fix, f)})}
    /\ job' = Disturbed
    /\ changes' = changes + 1
    /\ UNCHANGED <<recipe, cache, board, runs>>

Cached(f) == f \in DOMAIN cache.cmd /\ cache.cmd[f] = recipe[f] /\ Place(Fix, f) \in DOMAIN disk

\* Mutant: whatever is there is written down.
ContentBlessed(fresh, media) == media

\* The content that is written down: of what this regeneration made, and of
\* the rest what was written down before.
ContentKept(fresh, media) ==
    [f \in {g \in fresh \cup DOMAIN cache.content : g \in DOMAIN media} |->
        IF f \in fresh THEN media[f] ELSE cache.content[f]]

\* A fixture is skipped when its command is the one that made it; the command
\* of another succeeds, fails, or leaves a file half written.
Regenerate(force, made, halved) ==
    LET due   == {f \in Fixtures : force \/ ~Cached(f)}
        media == [f \in made \cup halved \cup DOMAIN Media |->
                     IF f \in made THEN Generated(f, recipe[f]) ELSE IF f \in halved THEN Broken ELSE Media[f]]
    IN  /\ changes < MaxChanges
        /\ made \subseteq due /\ halved \subseteq due \ made
        /\ disk' = [p \in DOMAIN disk \cup {Place(Fix, f) : f \in made \cup halved} |->
                        IF p.root = Fix THEN media[p.at] ELSE disk[p]]
        /\ cache' = [cmd |-> [f \in made |-> recipe[f]] @@ cache.cmd, content |-> ContentKept(made, media)]
        /\ job' = Disturbed
        /\ changes' = changes + 1
        /\ UNCHANGED <<recipe, board, runs>>

---------------------------------------------------------------------------
\* A row's commands.

\* Mutant: paths are left as they were rendered.
Verbatim(token, dir) == IF token.root = Fix THEN token ELSE Place(dir, token.at)

\* resolve_command: every path is taken below the directory it runs in.
Reroot(token, dir) == Place(dir, token.at)

\* Mutant: the fixtures are copied over what is there.
ProvisionedOver(files, dir) ==
    [p \in DOMAIN files \cup {Place(dir, at) : at \in DOMAIN Media} |->
        IF p.root = dir /\ p.at \in DOMAIN Media THEN Media[p.at] ELSE files[p]]

\* provision_row_dir: the directory is emptied and every fixture copied in.
Provisioned(files, dir) ==
    LET kept == {p \in DOMAIN files : p.root # dir}
    IN  [p \in kept \cup {Place(dir, at) : at \in DOMAIN Media} |->
            IF p.root = dir THEN Media[p.at] ELSE files[p]]

\* One command: how it may end and the files it leaves.  ffmpeg refuses to
\* write over its own input; a command that is killed leaves half a file.
CommandEnds(files, cmd, dir) ==
    LET ins == [k \in DOMAIN cmd.ins |-> Reroot(cmd.ins[k], dir)]
        out == Reroot(cmd.out, dir)
        contents == [k \in DOMAIN ins |-> files[ins[k]]]
    IN  IF ~(Range(ins) \subseteq DOMAIN files) \/ out \in Range(ins) \/ Broken \in Range(contents)
        THEN {[ok |-> FALSE, files |-> files]}
        ELSE {[ok |-> TRUE, files |-> With(files, out, Made(contents, cmd.out.at))],
              [ok |-> FALSE, files |-> With(files, out, Broken)]}

---------------------------------------------------------------------------
\* A run (cmd_run, run_corpus).

Executing == {"success", "output_diff"}

StartRun(verifier) ==
    /\ job = Idle /\ runs < MaxRuns
    /\ runs' = runs + 1
    /\ board' = Idle
    /\ job' = [verifier |-> verifier, phase |-> "row", k |-> 0,
               integrity |-> IF verifier \in Executing THEN Problems ELSE {},
               plan |-> NoPlan, saw |-> <<>>, outs |-> <<>>, refs |-> <<>>,
               recorded |-> DOMAIN cache.content, disturbed |-> FALSE]
    /\ UNCHANGED <<disk, recipe, cache, changes>>

Current == Len(job.outs) + 1

NoPlace == [root |-> <<"none", 0>>, at |-> [dir |-> "", name |-> ""]]

\* The row is done.
Record(outcome, artifact, ran, plan, saw) ==
    [job EXCEPT !.phase = IF Current < Len(Corpus) THEN "row"
                          ELSE IF job.verifier = "output_diff" THEN "base" ELSE "score",
                !.k = 1, !.plan = NoPlan, !.saw = <<>>,
                !.outs = Append(@, [outcome |-> outcome, artifact |-> artifact, ran |-> ran,
                                    plan |-> plan, saw |-> saw])]

\* The model answers; what is not executed is recorded, what is gets its copy.
RunRow(answer) ==
    /\ job # Idle /\ job.phase = "row"
    /\ answer \in Corpus[Current].answers
    /\ IF answer = NoPlan
       THEN job' = Record("clarify", NoPlace, FALSE, answer, <<>>) /\ UNCHANGED disk
       ELSE IF job.verifier \notin Executing \/ Corpus[Current].fixture \notin DOMAIN Media
       THEN job' = Record("plan", NoPlace, FALSE, answer, <<>>) /\ UNCHANGED disk
       ELSE /\ disk' = Provisioned(disk, RowDir(Current))
            /\ job' = [job EXCEPT !.phase = "command", !.k = 1, !.plan = answer, !.saw = Media]
    /\ UNCHANGED <<recipe, cache, board, counts>>

\* Planning raised: the row is an error.
RowRaises ==
    /\ job # Idle /\ job.phase = "row"
    /\ job' = Record("error", NoPlace, FALSE, NoPlan, <<>>)
    /\ UNCHANGED <<disk, recipe, cache, board, counts>>

\* The last output of the commands run so far that is there.
LastOutput(files) ==
    LET made == {n \in 1..job.k : Reroot(job.plan[n].out, RowDir(Current)) \in DOMAIN files}
    IN  IF made = {} THEN NoPlace
        ELSE Reroot(job.plan[CHOOSE n \in made : \A m \in made : m <= n].out, RowDir(Current))

\* run_command_chain: the chain halts at the first command that fails, and the
\* row with it.
RunCommand ==
    /\ job # Idle /\ job.phase = "command"
    /\ \E end \in CommandEnds(disk, job.plan[job.k], RowDir(Current)) :
        /\ disk' = end.files
        /\ job' = IF end.ok /\ job.k < Len(job.plan) THEN [job EXCEPT !.k = @ + 1]
                  ELSE Record(IF end.ok THEN "plan" ELSE "error", LastOutput(end.files), TRUE, job.plan, job.saw)
    /\ UNCHANGED <<recipe, cache, board, counts>>

\* The reference of row job.k is settled.
Referred(place, saw) ==
    [job EXCEPT !.refs = Append(@, [place |-> place, saw |-> saw]), !.k = @ + 1,
                !.phase = IF job.k = Len(Corpus) THEN "score" ELSE "base"]

\* _build_baseline_outputs: a row's reference command, in a directory of its own.
RunBaseline ==
    LET row == Corpus[job.k]
        dir == BaseDir(job.k)
    IN  /\ job # Idle /\ job.phase = "base"
        /\ IF row.baseline = <<>> \/ row.fixture \notin DOMAIN Media
           THEN UNCHANGED disk /\ job' = Referred(NoPlace, <<>>)
           ELSE \E end \in CommandEnds(Provisioned(disk, dir), row.baseline[1], dir) :
                    /\ disk' = end.files
                    /\ job' = Referred(IF end.ok THEN Reroot(row.baseline[1].out, dir) ELSE NoPlace, Media)
        /\ UNCHANGED <<recipe, cache, board, counts>>

---------------------------------------------------------------------------
\* The board (score_corpus, score_corpus_output_diff, cmd_run).

Nothing == <<"nothing">>
NoScore == 2

Content(p) == IF p = NoPlace THEN Nothing ELSE disk[p]

\* The grade a row may get: 0 and 1 stand for a verifier that fails something
\* and one that passes everything.
Score(out, ref, grade) ==
    CASE job.verifier = "output_diff" ->
            IF out.artifact # NoPlace /\ ref.place # NoPlace THEN grade ELSE NoScore
      [] job.verifier # "output_diff" /\ out.outcome # "plan" -> NoScore
      [] job.verifier = "success" /\ out.outcome = "plan" -> IF out.artifact = NoPlace THEN 0 ELSE grade
      [] OTHER -> grade

RowOf(i, grade) ==
    LET out == job.outs[i]
        ref == IF job.refs = <<>> THEN [place |-> NoPlace, saw |-> <<>>] ELSE job.refs[i]
    IN  [outcome |-> out.outcome, score |-> Score(out, ref, grade), ran |-> out.ran, plan |-> out.plan,
         saw |-> out.saw, made |-> Content(out.artifact),
         reference |-> Content(ref.place), refsaw |-> ref.saw]

Passed(i, row) == row.outcome = Corpus[i].expects /\ row.score \in {1, NoScore}

\* _reclaim_row_dirs: only a success run clears up, and only what passed.
Reclaimed(rows) ==
    IF job.verifier # "success" THEN disk
    ELSE Without(disk, UNION {Below(RowDir(i)) : i \in {n \in DOMAIN rows : Passed(n, rows[n])}})

FinishRun(grades) ==
    LET rows == [i \in DOMAIN job.outs |-> RowOf(i, grades[i])]
    IN  /\ job # Idle /\ job.phase = "score"
        /\ board' = [verifier |-> job.verifier, rows |-> rows, integrity |-> job.integrity,
                     hashes |-> Media, recorded |-> job.recorded, disturbed |-> job.disturbed]
        /\ disk' = Reclaimed(rows)
        /\ job' = Idle
        /\ UNCHANGED <<recipe, cache, counts>>

---------------------------------------------------------------------------
Verifiers == Executing \cup {"cheap"}

\* A checkout whose fixtures were never generated, or all have been.
Init ==
    /\ \E made \in {{}, Fixtures} :
        LET media == [f \in made |-> Generated(f, 1)]
        IN  /\ disk = [p \in {Place(Fix, f) : f \in made} |-> media[p.at]]
            /\ cache = [cmd |-> [f \in made |-> 1], content |-> media]
    /\ recipe = [f \in Fixtures |-> 1]
    /\ job = Idle /\ board = Idle
    /\ changes = 0 /\ runs = 0

Next ==
    \/ \E f \in Fixtures : EditRecipe(f) \/ HandEdit(f)
    \/ \E force \in BOOLEAN, made, halved \in SUBSET Fixtures : Regenerate(force, made, halved)
    \/ \E v \in Verifiers : StartRun(v)
    \/ \E a \in UNION {Corpus[i].answers : i \in DOMAIN Corpus} : RunRow(a)
    \/ RowRaises \/ RunCommand \/ RunBaseline
    \/ \E grades \in [DOMAIN Corpus -> {0, 1}] : FinishRun(grades)

Spec == Init /\ [][Next]_vars

---------------------------------------------------------------------------
\* What a chain of commands comes to when it is carried out on paper, on the
\* media it was given, with no directories but its own.
PaperStep(files, cmd) ==
    LET ins == [n \in DOMAIN cmd.ins |-> cmd.ins[n].at]
        out == cmd.out.at
    IN  IF Range(ins) \subseteq DOMAIN files /\ out \notin Range(ins)
        THEN With(files, out, Made([n \in DOMAIN ins |-> files[ins[n]]], out))
        ELSE files

OnPaper(cmds, media) ==
    LET after[k \in 0..Len(cmds)] == IF k = 0 THEN media ELSE PaperStep(after[k - 1], cmds[k])
    IN  after[Len(cmds)][Last(cmds).out.at]

\* A run never touches the fixtures every later row is measured on, whatever
\* its commands are told to write (chain.py:73-108, provisioning.py:11-21).
MediaKept == [][changes' = changes => Media' = Media]_vars

\* What a row is graded on was made by this run, by this row's own commands,
\* each of which succeeded, from the fixtures alone: nothing an earlier run
\* left behind, no other row's file and no half-written one stands in for it;
\* and the same holds for the reference (runner.py:233-263, provisioning.py:70).
ArtifactIsEarned ==
    board # Idle => \A i \in DOMAIN board.rows :
        LET row == board.rows[i]
        IN  /\ row.ran /\ row.outcome = "plan" => row.made = OnPaper(row.plan, row.saw)
            /\ row.reference # Nothing => row.reference = OnPaper(Corpus[i].baseline, row.refsaw)

\* A board that reports no drift, and during which nobody wrote to the
\* fixtures, measured every row on media that were generated and are the ones
\* its hashes name (cli.py:790-810, 865-870, 3049-3072).  A fixture whose first
\* generation failed is in no record and is not covered.
KnownMedia ==
    board # Idle /\ board.integrity = {} /\ ~board.disturbed =>
        \A i \in DOMAIN board.rows : board.rows[i].ran =>
            /\ board.rows[i].saw = board.hashes
            /\ \A f \in board.recorded : board.rows[i].saw[f][1] = "generated"
=============================================================================
