----------------------------- MODULE ReplyStore -----------------------------
(* The planning half of `evalsuite native` (knaif/evalsuite/cli.py,          *)
(* native_lane.py, store.py): how a lane run gets a plan for every selected  *)
(* row, live, in one batch, or through the committed store of the model's    *)
(* replies.                                                                  *)
(*                                                                           *)
(* A namespace of the store is <<inference fingerprint, place>>: a place is  *)
(* an operating system with a compute backend, Nowhere that the probe did    *)
(* not learn it.  A prompt is <<row, wording, call>>: planning a row asks    *)
(* the model once, and once more when the build's execution code repairs     *)
(* its answer.  Of a reply the model keeps what decides it (says: the        *)
(* inference code and the place it was computed on) and the build that       *)
(* computed it.  Each process chooses the device it runs on anew.            *)
EXTENDS Naturals

CONSTANTS
    Rows,       \* utterances of the corpus
    Builds,     \* packaged binaries, 1..n in order of release
    Places,     \* where a model can run
    Nowhere,    \* the probe did not say
    Inference,  \* build -> its inference fingerprint
    Repairs,    \* build -> the rows whose first answer it repairs
    Edited,     \* bound: the rows that get reworded
    MaxEdits,   \* bound: rewordings of a row
    Commands,   \* bound: the command lines of lane runs
    MaxRuns     \* bound: lane runs

ASSUME PlacesAreKnown == Nowhere \notin Places
ASSUME BoundsAreNumbers == MaxEdits \in Nat /\ MaxRuns \in Nat
ASSUME BuildsAreNumbered == Builds \subseteq Nat \ {0} /\ 1 \in Builds
ASSUME RowsAreDescribed == Edited \subseteq Rows /\ Repairs \in [Builds -> SUBSET Rows]

Modes == {"live", "batch", "store"}
Populations == {"full", "subset"}

\* Something is selected; a live run refuses a live sample.
ASSUME CommandsAreLegal ==
    /\ Commands \subseteq [mode : Modes, population : Populations, want : SUBSET Rows, live : SUBSET Rows]
    /\ \A c \in Commands : c.want # {} /\ (c.mode = "live" => c.live = {})

VARIABLES
    words,      \* the corpus: the wording of each row
    build,      \* the packaged binary under test
    runs,       \* lane runs so far
    store,      \* namespace -> prompt -> reply
    recorded,   \* recorded.jsonl: namespace, prompt, build
    staging,    \* prompt -> reply: the folder a recording batch writes into
    lane        \* the run in progress

storeVars == <<words, build, runs, store, recorded, staging, lane>>

Spots == Places \cup {Nowhere}
Codes == {Inference[b] : b \in Builds}
Namespaces == Codes \X Spots
Wordings == [Rows -> 0..MaxEdits]
FirstPhase == [live |-> "ready", batch |-> "record", store |-> "replay"]
Prompts == Rows \X (0..MaxEdits) \X {"plan", "repair"}
Replies == [says : Codes \X Places, by : Builds]
IsPartial(f, S, T) == DOMAIN f \subseteq S /\ f \in [DOMAIN f -> T]
Phases == {"idle", "replay", "record", "check", "move", "stamp", "again", "ready"}

Empty == [p \in {} |-> p]
Idle == [phase |-> "idle", mode |-> "live", population |-> "full", place |-> Nowhere,
         want |-> {}, live |-> {}, words |-> [r \in Rows |-> 0], misses |-> {}, held |-> {}, ran |-> {}]

\* The model's answer, greedy and deterministic on one stack.
ReplyAt(place) == [says |-> <<Inference[build], place>>, by |-> build]

\* The prompts planning a row asks this build's model, as the run loaded the row.
PromptsOf(r) ==
    {<<r, lane.words[r], call>> : call \in {"plan"} \cup (IF r \in Repairs[build] THEN {"repair"} ELSE {})}
PromptsOfAll(rows) == UNION {PromptsOf(r) : r \in rows}

Namespace == <<Inference[build], lane.place>>
Held == DOMAIN store[Namespace]

\* is_replay_miss: a prompt of the row is not in the namespace.
Misses == {r \in lane.want : ~ PromptsOf(r) \subseteq Held}

\* Replies the namespace holds otherwise than the batch recorded them.
Conflicts == {p \in DOMAIN staging \cap Held : store[Namespace][p].says # staging[p].says}

\* Mutant: the load trace is not read.
AnyPlacement(ran) == TRUE

\* check_placement, skipped when the probe learned nothing.
PlacedWell(ran) == lane.place = Nowhere \/ ran = lane.place

---------------------------------------------------------------------------
Init ==
    /\ words = [r \in Rows |-> 0]
    /\ build = 1
    /\ runs = 0
    /\ store = [n \in Namespaces |-> Empty]
    /\ recorded = {}
    /\ staging = Empty
    /\ lane = Idle

\* A row of the corpus is reworded.
Reword(r) ==
    /\ words[r] < MaxEdits
    /\ words' = [words EXCEPT ![r] = @ + 1]
    /\ UNCHANGED <<build, runs, store, recorded, staging, lane>>

\* The next binary is frozen and unpacked where the lane finds it.
Freeze ==
    /\ lane.phase = "idle"
    /\ build + 1 \in Builds
    /\ build' = build + 1
    /\ UNCHANGED <<words, runs, store, recorded, staging, lane>>

\* The corpus is loaded, one probe process says where it ran the model.  The
\* live sample is a file of its own, not checked against the selection.
StartRun(command) ==
    /\ lane.phase = "idle"
    /\ runs < MaxRuns
    /\ \E place \in Spots :
          lane' = [Idle EXCEPT !.phase = FirstPhase[command.mode], !.mode = command.mode,
                               !.population = command.population, !.want = command.want,
                               !.live = command.live, !.place = place, !.words = words]
    /\ runs' = runs + 1
    /\ UNCHANGED <<words, build, store, recorded, staging>>

FirstReplay ==
    /\ lane.phase = "replay"
    /\ lane' = [lane EXCEPT !.phase = IF Misses = {} THEN "ready" ELSE "record",
                            !.misses = Misses, !.held = Held]
    /\ UNCHANGED <<words, build, runs, store, recorded, staging>>

\* One process plans the misses; every reply it gets is written to staging.
RecordBatch(ran) ==
    /\ lane.phase = "record"
    /\ lane.mode = "store"
    /\ staging' = [p \in PromptsOfAll(lane.misses) |-> ReplyAt(ran)]
    /\ lane' = IF PlacedWell(ran) THEN [lane EXCEPT !.phase = "check"] ELSE Idle
    /\ UNCHANGED <<words, build, runs, store, recorded>>

\* The recording batch dies part of the way, and the run with it.
BatchDies(ran) ==
    /\ lane.phase = "record"
    /\ lane.mode = "store"
    /\ \E written \in SUBSET PromptsOfAll(lane.misses) :
          staging' = [p \in written |-> ReplyAt(ran)]
    /\ lane' = Idle
    /\ UNCHANGED <<words, build, runs, store, recorded>>

\* `plan --batch` without a store: the plans stay with the run.
PlanBatch(ran) ==
    /\ lane.phase = "record"
    /\ lane.mode = "batch"
    /\ lane' = IF PlacedWell(ran) THEN [lane EXCEPT !.phase = "ready", !.ran = {ran}] ELSE Idle
    /\ UNCHANGED <<words, build, runs, store, recorded, staging>>

\* promote_replies looks at every reply before it moves one.
CheckReplies ==
    /\ lane.phase = "check"
    /\ lane' = IF Conflicts = {} THEN [lane EXCEPT !.phase = "move"] ELSE Idle
    /\ UNCHANGED <<words, build, runs, store, recorded, staging>>

\* Mutant: a held reply is moved over as well.
ToMoveAll == DOMAIN staging

ToMove == DOMAIN staging \ Held

MoveReply(p) ==
    /\ lane.phase = "move"
    /\ p \in ToMove
    /\ store' = [store EXCEPT ![Namespace] =
                    [q \in Held \cup {p} |-> IF q = p THEN staging[p] ELSE @[q]]]
    /\ staging' = [q \in DOMAIN staging \ {p} |-> staging[q]]
    /\ UNCHANGED <<words, build, runs, recorded, lane>>

Moved ==
    /\ lane.phase = "move"
    /\ ToMove = {}
    /\ staging' = Empty
    /\ lane' = [lane EXCEPT !.phase = "stamp"]
    /\ UNCHANGED <<words, build, runs, store, recorded>>

NewReplies == Held \ lane.held

\* recorded.jsonl: which build recorded each new reply.
Stamp ==
    /\ lane.phase = "stamp"
    /\ recorded' = recorded \cup {[ns |-> Namespace, prompt |-> p, by |-> build] : p \in NewReplies}
    /\ lane' = [lane EXCEPT !.phase = "again"]
    /\ UNCHANGED <<words, build, runs, store, staging>>

SecondReplay ==
    /\ lane.phase = "again"
    /\ lane' = IF Misses = {} THEN [lane EXCEPT !.phase = "ready"] ELSE Idle
    /\ UNCHANGED <<words, build, runs, store, recorded, staging>>

\* The run ends wherever it is; what is on disk stays.
Crash ==
    /\ lane.phase # "idle"
    /\ lane' = Idle
    /\ UNCHANGED <<words, build, runs, store, recorded, staging>>

Plan ==
    \/ FirstReplay
    \/ \E ran \in Places : RecordBatch(ran) \/ BatchDies(ran) \/ PlanBatch(ran)
    \/ CheckReplies
    \/ \E p \in Prompts : MoveReply(p)
    \/ Moved
    \/ Stamp
    \/ SecondReplay
    \/ Crash

StoreNext ==
    \/ \E r \in Edited : Reword(r)
    \/ Freeze
    \/ \E command \in Commands : StartRun(command)
    \/ Plan

StoreSpec == Init /\ [][StoreNext]_storeVars

---------------------------------------------------------------------------
TypeOK ==
    /\ words \in Wordings
    /\ build \in Builds
    /\ runs \in 0..MaxRuns
    /\ DOMAIN store = Namespaces
    /\ \A n \in Namespaces : IsPartial(store[n], Prompts, Replies)
    /\ recorded \subseteq [ns : Namespaces, prompt : Prompts, by : Builds]
    /\ IsPartial(staging, Prompts, Replies)
    /\ lane \in [phase : Phases, mode : Modes, population : Populations, place : Spots,
                 want : SUBSET Rows, live : SUBSET Rows, words : Wordings, misses : SUBSET Rows, held : SUBSET Prompts, ran : SUBSET Places]

\* A namespace of a known place holds only replies computed there, by a build
\* with its inference code: never one of a process that fell back to another
\* device (native_lane.py, promotion after check_placement).
StoreIsPure ==
    \A n \in Namespaces : n[2] # Nowhere =>
        \A p \in DOMAIN store[n] : store[n][p].says = n

\* Every line of recorded.jsonl names a reply the store holds and the build
\* that computed it, whatever run crashed before it (cli.py, the stamp).
StampsAreTrue ==
    \A s \in recorded :
        s.prompt \in DOMAIN store[s.ns] /\ store[s.ns][s.prompt].by = s.by

\* A reply once in the store is never replaced, also where two devices
\* disagree about it (native_lane.py, promote_replies).
RepliesWrittenOnce ==
    [][\A n \in Namespaces : \A p \in DOMAIN store[n] :
          p \in DOMAIN store'[n] /\ store'[n][p] = store[n][p]]_storeVars
=============================================================================
