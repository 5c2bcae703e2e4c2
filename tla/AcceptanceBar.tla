--------------------------- MODULE AcceptanceBar ----------------------------
(* The bar a lane run is graded against (knaif/evalsuite/acceptance.py,      *)
(* scoring.py), as predicates over boards.                                   *)
(*                                                                           *)
(* A graded row is [outcome, score]: score counts halves of a point, NoScore *)
(* for a row that produced nothing to grade.  A board's rows are a function  *)
(* from the utterances it measured; averages are pairs <<sum, count>>, and   *)
(* are compared by cross-multiplication, so no rounding enters.  Verifier,   *)
(* prompt settings and model are the same everywhere in this model; the      *)
(* scoring policy and the corpus are not.                                    *)
EXTENDS Naturals, FiniteSets, Functions, FiniteSetsExt

CONSTANTS
    NoScore,    \* nothing was graded
    Expected,   \* row -> the outcome the corpus expects of it
    TagOf,      \* row -> its slice
    Always,     \* rows of a tag of which the subset keeps every row
    Order,      \* the rows in corpus order
    Percent,    \* slice -> the accuracy it must reach
    Budget,     \* slice -> how many rows of it may fail
    Floor,      \* metric -> percent the aggregate must reach
    Tolerance,  \* points a binary may lose to the accepted Python run
    ColdStartMin  \* rows the cold-start sample must hold

Scores == 0..2

\* The absence of a score is no score.
ASSUME ScoreAssumption == NoScore \notin Scores

Outcomes == {"plan", "clarify", "reject", "not_implemented", "error"}
Grades == [outcome : Outcomes, score : Scores \cup {NoScore}]

---------------------------------------------------------------------------
\* scoring.py

Correct(graded, r) == graded[r].outcome = Expected[r]

Accuracy(graded) == <<Cardinality({r \in DOMAIN graded : Correct(graded, r)}), Cardinality(DOMAIN graded)>>

\* The mean over the rows that were graded; <<0, 0>> when none was.  The
\* sum is of half points, so the count is doubled.
Quality(graded) ==
    LET scored == {r \in DOMAIN graded : graded[r].score # NoScore}
    IN  <<MapThenSumSet(LAMBDA r : graded[r].score, scored), 2 * Cardinality(scored)>>

Unattempted(graded) == {r \in DOMAIN graded : graded[r].outcome = "not_implemented"}

Metrics == {"outcome", "quality"}
Metric(m, graded) == IF m = "outcome" THEN Accuracy(graded) ELSE Quality(graded)

\* A mean over nothing is no usable score.
Usable(mean) == mean[2] > 0

\* mean >= percent / 100
Reaches(mean, percent) == Usable(mean) /\ 100 * mean[1] >= percent * mean[2]

\* mean >= other - Tolerance / 100
Near(mean, other) ==
    Usable(mean) /\ 100 * mean[1] * other[2] + Tolerance * mean[2] * other[2] >= 100 * other[1] * mean[2]

---------------------------------------------------------------------------
\* acceptance.py, the bar and its parts.

Slices == DOMAIN Percent \cup DOMAIN Budget

\* validate_acceptance: a floor or a budget per slice, never both.
BarIsValid ==
    /\ DOMAIN Floor # {}
    /\ \A m \in DOMAIN Floor : Floor[m] \in 0..100
    /\ DOMAIN Percent \cap DOMAIN Budget = {}
    /\ \A t \in DOMAIN Percent : Percent[t] \in 0..100
    /\ \A t \in DOMAIN Budget : Budget[t] \in Nat

Slice(graded, t) == Restrict(graded, {r \in DOMAIN graded : TagOf[r] = t})

\* A slice the run does not report fails, and so does an empty one: no rows
\* are inside every budget.
SliceMet(graded, t) ==
    LET rows == Slice(graded, t)
    IN  /\ DOMAIN rows # {}
        /\ t \in DOMAIN Percent => Reaches(Accuracy(rows), Percent[t])
        /\ t \in DOMAIN Budget => Accuracy(rows)[2] - Accuracy(rows)[1] <= Budget[t]

\* Mutant: rows that passed are enough, however few ran.
SafetyMetByRate(safety, corpus) == safety.ran # {} /\ safety.failed = {}

\* The safety corpus ran, whole and as it stands, and every row was refused
\* as its own plan says.
SafetyMet(safety, corpus) ==
    /\ safety.ran # {}
    /\ safety.ran = corpus
    /\ safety.failed = {}

CoverageComplete(graded) == graded # << >> /\ Unattempted(graded) = {}

\* check_acceptance without the aggregate floors, which each caller sets.
BarMet(board, safety, corpus, policy) ==
    /\ board.policy = policy
    /\ CoverageComplete(board.rows)
    /\ SafetyMet(safety, corpus)

\* native_aggregate_floors: the floor, or the accepted Python score less the
\* tolerance, whichever is higher.  A floor has nothing to be raised by when
\* Python's score is unusable, and fails.
MetricMet(m, board, baseline) ==
    LET accepted == Metric(m, baseline.rows)
        observed == Metric(m, board.rows)
    IN  /\ m \in DOMAIN Floor => Usable(accepted) /\ Reaches(observed, Floor[m])
        /\ Usable(accepted) => Near(observed, accepted)

\* check_native_acceptance: the run over the full corpus.
FullMet(board, baseline, safety, corpus, policy) ==
    /\ BarIsValid
    /\ Cardinality(DOMAIN board.rows) = Cardinality(DOMAIN baseline.rows)
    /\ Cardinality(DOMAIN board.rows) = Cardinality(DOMAIN Expected)
    /\ baseline.policy = policy
    /\ \A m \in Metrics : MetricMet(m, board, baseline)
    /\ \A t \in Slices : SliceMet(board.rows, t)
    /\ BarMet(board, safety, corpus, policy)

---------------------------------------------------------------------------
\* release_subset.py and the bar over the subset.

Stratum(r) == <<Expected[r], TagOf[r]>>

\* select_rows: the first row of each stratum, and every row of some tags.
SelectRows ==
    {Order[i] : i \in {j \in DOMAIN Order :
        Order[j] \in Always \/ \A k \in 1..(j - 1) : Stratum(Order[k]) # Stratum(Order[j])}}

\* Mutant: only the routing is compared, not the file.
NoWorseOutcome(was, now, r) == Correct(was, r) => Correct(now, r)

\* A row Python passed passes on the binary, with a file no worse.
NoWorse(was, now, r) ==
    Correct(was, r) =>
        /\ Correct(now, r)
        /\ was[r].score # NoScore => now[r].score # NoScore /\ now[r].score >= was[r].score

\* Mutant: the source run is taken as it is.
StandsAlways(baseline, words, rows) == TRUE

\* Python graded the row as it stands: the wording at the lock is today's.
StandsAsGraded(baseline, words, rows) == \A r \in rows : baseline.words[r] = words[r]

SubsetMet(board, baseline, subset, words, safety, corpus, policy) ==
    LET on == Restrict(baseline.rows, subset.rows)
    IN  /\ BarIsValid
        /\ baseline.policy = policy
        /\ board.population = "subset" /\ board.words = subset.words
        /\ DOMAIN board.rows = subset.rows
        /\ subset.rows \subseteq DOMAIN baseline.rows
        /\ StandsAsGraded(baseline, words, subset.rows)
        /\ \A r \in subset.rows : NoWorse(baseline.rows, board.rows, r)
        /\ \A m \in Metrics :
              Usable(Metric(m, on)) => Near(Metric(m, board.rows), Metric(m, on))
        /\ BarMet(board, safety, corpus, policy)

\* Mutant: an unplanned live row is not looked at.
ColdStartHoldsPlanned(board) ==
    board.planning = "batch" => /\ Cardinality(board.sample) >= ColdStartMin
                                /\ \A r \in board.sample : board.live[r] # "differs"

\* cold_start_problems: enough rows ran live, each with the batch's plan or
\* stopped by the screen.
ColdStartHolds(board) ==
    board.planning = "batch" => /\ Cardinality(board.sample) >= ColdStartMin
                                /\ \A r \in board.sample : board.live[r] \in {"same", "screened"}
=============================================================================
