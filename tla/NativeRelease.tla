--------------------------- MODULE NativeRelease ----------------------------
(* From a lane run to an accepted cell (knaif/evalsuite/cli.py _cmd_native,  *)
(* _safety_through_the_lane, cmd_compose, cmd_lock, cmd_release_subset and   *)
(* cmd_accept_native; native_lane.py run_native_corpus; compose.py).         *)
(*                                                                           *)
(* Planning is ReplyStore, the bar is AcceptanceBar.  Here the planned rows  *)
(* run in the binary and are graded into a board, boards are composed, the   *)
(* safety corpus runs, and a board is accepted or not, while the corpus, the *)
(* safety corpus, the scoring policy and the binary move on.                 *)
(*                                                                           *)
(* Of a board, at and vouched are the model's own: at says which stack       *)
(* answered each row, vouched that no row was planned in a batch whose cold  *)
(* start does not hold.                                                      *)
EXTENDS ReplyStore, AcceptanceBar

CONSTANTS
    Unsafe,         \* rows the unsafe-phrase screen stops before inference
    Answers,        \* row -> the grades its run can get
    PythonAnswers,  \* row -> the grades the accepted Python run can get
    Earlier,        \* places with a full accepted cell in a release record
    NoVerdict,      \* accept-native has recorded nothing yet
    Slipping,       \* bound: rows of the safety corpus the binary may run
    MaxPolicy,      \* bound: scoring policies
    MaxSafety,      \* bound: rows of the safety corpus
    MaxBoards       \* bound: boards kept under evals/runs

VARIABLES
    policy,     \* POLICY_VERSION, and the bar's
    subset,     \* the committed release_subset.json
    safetyCorpus,
    baseline,   \* the locked snapshot with its source run
    boards,     \* saved boards
    safety,     \* the last saved safety result
    verdict     \* the last L4 entry recorded

benchVars == <<policy, subset, safetyCorpus, baseline, boards, safety, verdict>>
vars == <<words, build, runs, store, recorded, staging, lane,
          policy, subset, safetyCorpus, baseline, boards, safety, verdict>>

\* Bound: the story ends with the first recorded verdict.  Accepting changes
\* nothing that a later run reads.
Open == verdict = NoVerdict
BenchRests == Open /\ UNCHANGED benchVars

AnyOf(options, rows) == {f \in [rows -> UNION {options[r] : r \in rows}] : \A r \in rows : f[r] \in options[r]}

---------------------------------------------------------------------------
\* The rows of a run (run_native_corpus) and its board.

\* Rows that run with the model: all of a live run, the cold-start sample of
\* another.
LiveRows == lane.want \cap (IF lane.mode = "live" THEN Rows ELSE lane.live)

\* The stacks behind a row's answer.
StackOf(r, ran) ==
    CASE r \in Unsafe -> {}
      [] r \in LiveRows \ Unsafe -> {<<Inference[build], ran[r]>>}
      [] r \notin LiveRows \cup Unsafe /\ lane.mode = "batch" -> {<<Inference[build], p>> : p \in lane.ran}
      [] r \notin LiveRows \cup Unsafe /\ lane.mode = "store" -> {store[Namespace][p].says : p \in PromptsOf(r)}

\* batch_live_mismatches and batch_live_unplanned: how a row of the sample
\* ended.
Fates(r) ==
    CASE r \notin lane.want -> {"absent"}
      [] r \in lane.want \cap Unsafe -> {"screened"}
      [] r \in lane.want \ Unsafe -> {"same", "differs", "crashed"}

\* A row whose process crashed has no plan and grades as an error.
Graded(fates) ==
    {g \in AnyOf(Answers, lane.want) :
        \A r \in lane.want \cap DOMAIN fates : fates[r] = "crashed" <=> g[r].outcome = "error"}

\* Mutant: a live row may have run anywhere.
RowsPlacedAnyhow(ran) == TRUE

\* check_placement for every row that loaded the model; a row elsewhere voids
\* the run, which is a Crash here.
RowsPlaced(ran) == \A r \in DOMAIN ran \ Unsafe : PlacedWell(ran[r])

\* The model's own: enough rows were sampled, and each went the same way cold
\* as in the batch.
WarmAndCold(fates) ==
    /\ Cardinality(lane.live \cap lane.want) >= ColdStartMin
    /\ \A r \in lane.live : fates[r] \in {"same", "screened"}

BoardOf(ran, fates, rows) ==
    [population |-> lane.population, words |-> lane.words, rows |-> rows,
     planning |-> IF lane.mode = "live" THEN "live" ELSE "batch",
     sample |-> lane.live, live |-> fates, place |-> lane.place,
     build |-> build, policy |-> policy, composed |-> FALSE,
     at |-> [r \in lane.want |-> StackOf(r, ran)],
     vouched |-> lane.mode = "live" \/ (lane.population = "subset" /\ WarmAndCold(fates))]

Grade ==
    /\ Open
    /\ lane.phase = "ready"
    /\ Cardinality(boards) < MaxBoards
    /\ \E ran \in [LiveRows -> Places], fates \in AnyOf([r \in Rows |-> Fates(r)], lane.live) :
          /\ RowsPlaced(ran)
          /\ \E rows \in Graded(fates) : boards' = boards \cup {BoardOf(ran, fates, rows)}
    /\ lane' = Idle
    /\ UNCHANGED <<words, build, runs, store, recorded, staging,
                   policy, subset, safetyCorpus, baseline, safety, verdict>>

\* What two boards must share to be composed.
Composable(base, new) ==
    /\ base.policy = new.policy
    /\ base.population = new.population
    /\ base.population = "subset" => base.words = new.words /\ DOMAIN base.rows = DOMAIN new.rows
    /\ DOMAIN new.rows \subseteq DOMAIN base.rows

\* compose_cell: base's rows with new's swapped in; where and on what it ran
\* comes from new.  How its rows were planned is not carried over.
Composed(base, new) ==
    [population |-> base.population, words |-> base.words, policy |-> base.policy,
     rows |-> [r \in DOMAIN base.rows |-> IF r \in DOMAIN new.rows THEN new.rows[r] ELSE base.rows[r]],
     planning |-> "live", sample |-> {}, live |-> << >>,
     place |-> new.place, build |-> new.build, composed |-> TRUE,
     at |-> [r \in DOMAIN base.at |-> IF r \in DOMAIN new.at THEN new.at[r] ELSE base.at[r]],
     vouched |-> base.vouched /\ new.vouched]

Compose(base, new) ==
    /\ Open
    /\ base # new
    /\ Composable(base, new)
    /\ Cardinality(boards) < MaxBoards
    /\ boards' = boards \cup {Composed(base, new)}
    /\ UNCHANGED <<words, build, runs, store, recorded, staging, lane,
                   policy, subset, safetyCorpus, baseline, safety, verdict>>

---------------------------------------------------------------------------
\* The safety corpus, the baseline and the subset.

\* Every safety row runs live in the binary; one on another device voids it.
RunSafety(place, ran) ==
    /\ Open
    /\ lane.phase = "idle"
    /\ place = Nowhere \/ ran = place
    /\ \E failed \in SUBSET (safetyCorpus \cap Slipping) :
          safety' = [ran |-> safetyCorpus, failed |-> failed, build |-> build, place |-> place,
                     at |-> {<<Inference[build], ran>>}]
    /\ safety' # safety
    /\ UNCHANGED <<words, build, runs, store, recorded, staging, lane,
                   policy, subset, safetyCorpus, baseline, boards, verdict>>

AddSafetyRow ==
    /\ Open
    /\ Cardinality(safetyCorpus) < MaxSafety
    /\ safetyCorpus' = safetyCorpus \cup {Cardinality(safetyCorpus) + 1}
    /\ UNCHANGED <<words, build, runs, store, recorded, staging, lane,
                   policy, subset, baseline, boards, safety, verdict>>

\* POLICY_VERSION and the bar move in one commit; the baseline may lag.
BumpPolicy ==
    /\ Open
    /\ policy < MaxPolicy
    /\ policy' = policy + 1
    /\ UNCHANGED <<words, build, runs, store, recorded, staging, lane,
                   subset, safetyCorpus, baseline, boards, safety, verdict>>

Stale(doc) == doc.words # words

\* A Python run over the corpus as it stands, locked as the snapshot.
Lock ==
    /\ Open
    /\ Stale(baseline) \/ baseline.policy # policy
    /\ \E rows \in AnyOf(PythonAnswers, Rows) :
          baseline' = [rows |-> rows, words |-> words, policy |-> policy]
    /\ UNCHANGED <<words, build, runs, store, recorded, staging, lane,
                   policy, subset, safetyCorpus, boards, safety, verdict>>

\* `release-subset`
Derive ==
    /\ Open
    /\ Stale(subset)
    /\ subset' = [words |-> words, rows |-> SelectRows]
    /\ UNCHANGED <<words, build, runs, store, recorded, staging, lane,
                   policy, safetyCorpus, baseline, boards, safety, verdict>>

---------------------------------------------------------------------------
\* accept-native

\* _SAFETY_PROVENANCE: what the board names, the safety result names too.
SafetyFits(board) ==
    /\ safety.build = board.build
    /\ board.place # Nowhere => safety.place = board.place

PlanningAllowed(board, population) ==
    board.planning = "batch" => population = "subset" /\ ColdStartHolds(board)

\* load_subset_beside and earlier_platform_cell refuse before anything is
\* graded.
SubsetUsable(board) == ~ Stale(subset) /\ board.place \in Earlier

Passes(board, population) ==
    IF population = "subset"
    THEN SubsetMet(board, baseline, subset, words, safety, safetyCorpus, policy)
    ELSE FullMet(board, baseline, safety, safetyCorpus, policy)

\* What is not refused outright is recorded, met or not.
Accept(board, population) ==
    /\ Open
    /\ population = "full" => board.population # "subset"
    /\ PlanningAllowed(board, population)
    /\ SafetyFits(board)
    /\ population = "subset" => SubsetUsable(board)
    /\ verdict' = [board |-> board, population |-> population, safety |-> safety,
                   passed |-> Passes(board, population), words |-> words,
                   safetyCorpus |-> safetyCorpus, baseline |-> baseline]
    /\ UNCHANGED <<words, build, runs, store, recorded, staging, lane,
                   policy, subset, safetyCorpus, baseline, boards, safety>>

---------------------------------------------------------------------------
BenchInit ==
    /\ Init
    /\ policy = 1
    /\ subset = [words |-> words, rows |-> SelectRows]
    /\ safetyCorpus = {1}
    /\ baseline \in {[rows |-> g, words |-> words, policy |-> 1] : g \in AnyOf(PythonAnswers, Rows)}
    /\ boards = {}
    /\ safety = [ran |-> {}, failed |-> {}, build |-> 1, place |-> Nowhere, at |-> {}]
    /\ verdict = NoVerdict

\* --subset takes the committed rows and refuses a stale file; --only any.
Select(command) ==
    /\ command.population = "subset" => ~ Stale(subset) /\ command.want = subset.rows
    /\ StartRun(command)
    /\ BenchRests

Next ==
    \/ \E r \in Edited : Reword(r) /\ BenchRests
    \/ Freeze /\ BenchRests
    \/ \E command \in Commands : Select(command)
    \/ Plan /\ BenchRests
    \/ Grade
    \/ \E base, new \in boards : Compose(base, new)
    \/ \E place \in Spots, ran \in Places : RunSafety(place, ran)
    \/ AddSafetyRow
    \/ BumpPolicy
    \/ Lock
    \/ Derive
    \/ \E board \in boards, population \in Populations : Accept(board, population)

Spec == BenchInit /\ [][Next]_vars

---------------------------------------------------------------------------
Accepted == verdict # NoVerdict /\ verdict.passed

\* An accepted measured cell that names its place was answered there by its
\* own inference code, the safety half included, although a process may fall
\* back, the store is shared by runs and builds, and runs crash
\* (native_lane.py, check_placement; store.py, namespace).
AcceptedOnOneStack ==
    Accepted /\ verdict.board.place # Nowhere =>
        LET board == verdict.board
            stack == <<Inference[board.build], board.place>>
        IN  /\ ~ board.composed => \A r \in DOMAIN board.at : board.at[r] \subseteq {stack}
            /\ verdict.safety.at = {stack}

\* An accepted subset cell measured exactly today's subset, at the wording
\* that both the binary and Python were graded on (acceptance.py,
\* release_subset.py).
SubsetStandsToday ==
    Accepted /\ verdict.population = "subset" =>
        /\ DOMAIN verdict.board.rows = SelectRows
        /\ \A r \in SelectRows :
              /\ verdict.board.words[r] = verdict.words[r]
              /\ verdict.baseline.words[r] = verdict.words[r]

\* On the subset, no row Python got right is answered worse by an accepted
\* binary, in outcome or in the file (acceptance.py, per-row regression).
NoRowLost ==
    Accepted /\ verdict.population = "subset" =>
        \A r \in SelectRows :
            LET was == verdict.baseline.rows[r]
                now == verdict.board.rows[r]
            IN  was.outcome = Expected[r] =>
                    now.outcome = Expected[r] /\ (was.score \in Scores => now.score >= was.score)

\* An accepted cell's safety half is the safety corpus of the day, whole and
\* refused, on the board's own binary (cli.py, _SAFETY_PROVENANCE).
SafetyBacks ==
    Accepted =>
        /\ verdict.safety.ran = verdict.safetyCorpus
        /\ verdict.safety.failed = {}
        /\ verdict.safety.build = verdict.board.build

\* A measured cell planned in a batch is accepted only on the subset and with
\* a cold start that held row by row (acceptance.py, cold_start_problems).
ColdStartBacks ==
    Accepted /\ ~ verdict.board.composed => verdict.board.vouched

\* What an acceptance rests on beside its rows.
AcceptanceIsBacked == SafetyBacks /\ ColdStartBacks
=============================================================================
