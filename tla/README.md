# Models and proofs for knaif

knaif turns a sentence into a validated plan of steps over local tools. A local model proposes the
plan once; deterministic code checks it and runs it. `python/core` is the reference runtime, with
the evaluation suite and the release gate beside it; the native runtime is in Rust (`apps/cli`,
`native/crates`, `skills/*/native`); a skill (`skills/ffmpeg`, `skills/documents`) brings its
intents, its leaves and its corpora. This folder models the parts whose correctness depends on the
order of steps: of several processes, of crashes and time limits, of the steps of one plan that share
files, and of measuring, recording and reusing evidence while the tree it is about moves on.

## Inventory

| Component | State | Operations | Hard behaviour | Correct when |
|---|---|---|---|---|
| start lock (`daemon.rs`, `StartLock`) | `daemon.lock`, one tomb per contender | acquire, take over, drop | contenders that look, move, look again; a dead holder | one holder; a live lock is kept; waits end |
| daemon lifecycle (`daemon.rs`, `main.rs`) | `daemon.json`, the record aside, daemon processes and their models | start, stop, status, connect, serve, retire | the record shared by every process; busy against dead; deadlines; kills | stopped means exited; a failed start leaves nothing; records are not lost; commands and daemons end |
| backend store (`backend_store.rs`) | payload files, stage folder, receipt | install, remove, load decision | a crash between any two steps; upgrades; two installers | a payload marked complete is whole and verified |
| agent loop (`agent.py`) | turn, plan, bound variables, history | infer, repair, gates, validate, expand, approve, run leaves | destructive intents with safe leaves, skipped summaries, failing steps, re-planning | nothing destroyed unconfirmed; what was approved is what runs |
| planner and argument gates (`planner.py`, `nl_clarify_gate.py`) | none | validate, optimise, expand, screen | rules that must agree with each other | see the agent loop |
| chain linking (`agent.py`) | the plan being rewritten | bind later steps to the outputs of earlier ones, refuse invented names | batches, fan-out, names buried in longer words | only named files are read; no step's work is lost |
| output collisions (`ffmpeg/_collisions.py`, `_engine.py`) | reserved, declared and moved paths | rename, rebind, disambiguate, run with `-y` | outputs that overwrite what a later step reads | the rewritten plan is the plan that was meant |
| console run (`app.py`) | folder, results, agreed paths, exit code | preview, ask, preflight, run, render | a preview that sees less than the run; others add files | nothing replaced unasked, nothing deleted |
| documents skill (`skills/documents/python`) | files of a folder | fifteen tools | page ranges, locks, a tool that fails half way | the pages asked for, and reports that are true |
| ffmpeg skill (`skills/ffmpeg/python`) | files of a folder | thirteen tools | cuts, batches, joins, silent inputs, failures inside a batch | the seconds asked for; failures are told |
| native lane and reply store (`native_lane.py`, `store.py`, `cli.py`) | namespaces of replies, stamps, staging, boards | live, batch and stored planning, promotion, run, compose, accept | a process that falls back to another device; crashes in the promotion | a reply is of the stack that names it; an accepted cell was answered there |
| acceptance bar (`acceptance.py`, `scoring.py`, `release_subset.py`) | none | grade a board in full or over the subset | a row's loss hidden in an average; a corpus that moves | a cell that passes lost no row and was measured on today's subset |
| release evidence gate (`gate.py`, `cli.py`) | acceptance record, equivalences, sample folder, frozen releases | measure, record, waive, vouch, freeze, judge | evidence carried over a change of the tree | what counts was measured, or vouched for |
| evaluation bench (`cli.py`, `runner.py`, `provisioning.py`, `chain.py`) | fixtures and their manifest, a directory a row | regenerate, run a row with its chain and baseline, clear up | fixtures shared by all rows; outputs left by an earlier run; caches of hashes | a row is graded on what it made, from media whose hashes the board knows |
| snapshots and regression (`snapshot.py`, `cli.py`) | boards of a run folder, locked baselines | run, sweep, lock, regression over one or all skills | several models over one default file; what a board does not say | a board that passes is no worse than its own model's bar |
| runtime parity (`scripts/parity_check.py`) | rows compared so far, two streams, the run directory | compare a row, read the streams, judge, record | reader threads; partial previews; what counts as the same plan | evidence that passes hides no porting defect |
| daemon wire session, model download, model store, native planner and skills, prompts, terminal output, installers, site | see PROJECT.json | | | not modelled, or one step of another model |

Interaction. A request goes through the agent loop (one model call, one repair), which links the
chain, screens the arguments and hands the plan to the skill's collision policy and to the console,
which previews it, asks, and runs it leaf by leaf. In the native runtime a `knaif` process may borrow
the resident model through `daemon.json`; `start` holds `daemon.lock` while it probes, stops, spawns
and polls; `backend install` writes the folder the model library is loaded from. The evaluation suite
runs the packaged binary over a corpus and keeps the model's replies; the acceptance bar grades the
board; `accept-native` records the verdict with the fingerprint of the tree; and the gate decides, of
any later tree, which of those verdicts still count. Beside it the Python bench executes what the
reference runtime plans and locks the boards as baselines, and the parity check runs both runtimes
over one corpus.

## Modules

Every module says in its header what it models and what a name stands for. Data is abstract: bytes
are named by the release they hash to, a page by which page of which file it was, a second of a clip
by its origin, a reply by the inference code and the place it was computed on. `MC*` modules give the
constants of a run; `*_proofs` modules hold theorems.

```
StartLock <- DaemonLifecycle                      BackendInstall <- BackendHalts
Positions <- PlanRules <- AgentTurn               RowBench
PlanFiles, PlanFlow (abstract) <- OutputCollisions (+ ChainLinks) <- ChainedPlan
Positions, PlanFiles <- DocumentSteps <- DocumentRun --\
Positions, PlanFiles <- MediaSteps    <- MediaRun    ---+-- INSTANCE ConsoleRun     KeptFolder (abstract)
                                         MediaRun <- MediaSeen
ReplyStore + AcceptanceBar <- NativeRelease       EvidenceTree <- EvidenceGate
RegressionGate, ParityCheck <- MCParityCheck
```

**StartLock.** `lpc` is where each starter is in `acquire` or `drop`, `path` the file named
`daemon.lock`, `tomb` the file each contender has moved aside, `written` whether its owner has
written its id, `stale` whether it is older than `LOCK_STALE`. A file is named by its maker. One
action per system call whose order matters; the second look, the link back and the unlink of the tomb
are one step (`Bury`), because the tomb carries the contender's own process id. `GiveUp` is the
150-second deadline.

**DaemonLifecycle.** Extends StartLock. `record` is `daemon.json` (a daemon's number is its token),
`aside` what each process has moved to `daemon.json.<pid>.gone`, `phase` the life of a daemon
process. A client is in the function `op` at the place `at`. An authenticated call is one step of the
daemon that answers, a time-out or another error, which is where the code's two conclusions, busy and
dead, part. `remove_info_if` is two steps, the move and the look. `spent` adds up the longest waits a
start may have had under the lock: only a start that had to stop another daemon may outlast it.

**BackendInstall.** `dir`, `stage` and `part` are the bytes under each name in the folder, the stage
and its `.part` files, `receipt` is `.knaif-backends.yaml`. `Interrupt` is any error return and any
crash: both leave the same files. `Upgrade` changes the binary under the folder, `PlaceByHand` is the
documented manual route, `DropOld` may leave the file (the code ignores the result). `BackendHalts`
adds `halted`, a ghost that remembers which operations have stopped half-way.

**PlanFiles, OutputCollisions, PlanFlow.** A reference is a name (parts and an extension) under the
directories it was written with; a path is a reference resolved against its base. `OutputCollisions`
is the walk of `_collisions.py`: illegal names first, then step by step what is reserved, moved and
rebound, then the commands as the engine builds them (derived and disambiguated names, `-y`). The constants
are bounded only by their types: plans are sequences of `Step`, a disk is finite, respelling keeps a name
a name; a word the program adds to a name (`_`, `converted`, `intermediate`) is a part like any other. `PlanFlow`
is the promise without names: each step reads what the plan meant it to read, the file on disk or the
work of step j. `ImplementsFlow` is the refinement; `intended` is a ghost that keeps the plan from before any renaming.

**ChainLinks, ChainedPlan.** What `infer` does to a proposed plan: `_link_chain_intermediates`,
`_forward_thread_reused_sources`, the guard against invented names; composed with stems, the clarify
gate, collisions, preflight and the run. `OnlyNamedFilesRead` lists what a plan may read (`UserNamed`, an
earlier output) and, beside it, what the gate never asks about (`Ungated`).

**PlanRules, AgentTurn.** The loop of `run`: ask, one repair, the guards of an iteration, the gates
and validations of `execute_plan` in their order, display and approval of each intent, leaves with
confirmation, stops, the re-planning history. What is wrong with a step's arguments is one `fault`.
`Positions` takes chosen positions of a sequence in order, as `optimize_plan` keeps steps and the page
tools keep pages.

**ConsoleRun, KeptFolder.** `run_cmd` from an accepted plan on, parameterised by what a skill's leaf
does in a preview (`Dry`) and in a run (`Do`). Somebody else may add files at any time. `KeptFolder`
is the promise without plans: nothing deleted, and only agreed or own files replaced.

**DocumentSteps, DocumentRun; MediaSteps, MediaRun.** What each leaf of each tool does to a folder,
with its names, refusals, missing programs and half-written outputs. `PagesAsAsked` and `MadeAsAsked`
compare the files with what the plan means on paper, defined in the run modules by meaning alone
(`Makes`, `PictureMeant`), not by the page lists and ffmpeg flags of the code. `MediaSeen` adds to a media
run what its preview saw (`noted`, `shown`) and `sight`, which is lost when the preview ends early, when
somebody takes a name that it showed, or when an inspection finds other than it supposed.

**ReplyStore, AcceptanceBar, NativeRelease.** `ReplyStore` is how a lane run gets its plans: live, in
one batch, or by replay of the store, recording of the missing replies into staging, the check of the
placement, promotion, stamp and second replay, with crashes anywhere. Each process chooses its device
anew. `AcceptanceBar` is the bar over graded rows (averages are compared by cross-multiplication).
`NativeRelease` composes both with scoring, composed boards, the safety corpus and accept-native,
while corpus, policy, safety corpus and binary move on. `BenchImplementsStore` is the refinement.

**EvidenceTree, EvidenceGate.** A fingerprint is a record of the parts the rules tell apart. Trees
are edited and committed; runs are measured, recorded, waived, carried by text or sampled
equivalences, frozen in release records, and judged (`SlotState`, `Derived`) for any set of binaries.
`decided` is a ghost: which verdicts the owner has answered.

**RowBench, RegressionGate.** `RowBench` is a run of the Python bench over rows that share generated
fixtures: each row in a directory of its own, its command chain with inputs looked up in the row
directory first and among the fixtures second, the baseline's command beside it, scoring, clearing up,
and the regeneration of fixtures behind the caches of command and content hashes. `RegressionGate` is
what happens to the boards such runs leave: lock, regression, regression over all skills.

**ParityCheck.** One call of the harness: in command mode it sees of each runtime only what it
printed (`Written`, then `ParseNative` and `ParsePython`), in plan mode the envelopes, and with
`--batch` two streams, each `said` by a program, in its `pipe`, and `got` by a reader thread.
`Compare` is the decision of a row, `L3Verdict` that of the run, `RecordParityRun` the gate's entry.
`SameWork` and `Misported` say what the runtimes did without the harness's normalisation, and the
properties relate the verdict to them.

## Runs

| Run | Properties | Instance |
|---|---|---|
| StartLock_three | MutualExclusion, LiveLockKept, EachWaitEnds | three starters, one mortal at any step |
| Lifecycle_starts | OneLoading, EveryoneEnds | two starters of one model, two daemons, one starter whose calls may break |
| Lifecycle_mixed | StoppedMeansExited, FailedStartLeavesNothing, RecordLostOnlyToNewer | a start, a stop and a plan, two daemons, two settings, everybody but the start mortal |
| Backend_crash | NoForeignBytes, SoundUntilHalted | one process, one payload of three files, two releases, an interruption before any step |
| Chain_run | OnlyNamedFilesRead, ReusedSourcesRead, NameKeepsBranchEnd, ImplementsFlow, FallbackDestroysNothing | every plan of one to three steps over a few names, one of them invented in a folder, for six requests (a file named once, twice, by its stem, inside a longer word, among many); and, without a request, every plan of two or three steps with fan-out, moves and illegal names |
| Turn_loop | NothingDestroyedUnconfirmed, ApprovedIsRun, NoDanglingVariable | plans of at most two steps in every kind, three answers of the model in a turn, every combination of dry run, confirmation and approval |
| Documents_run | PagesAsAsked, LockedStaysLocked, ReportIsTrue, FolderIsKept | 26 plans of one or two intents, three folders, names taken before, meanwhile or not |
| Media_run | MadeAsAsked, FailuresAreTold, FolderIsKeptWhenSeen | 33 plans of one or two intents; silent, broken and long inputs; a full disk |
| Lane_run | SubsetStandsToday, NoRowLost, AcceptanceIsBacked, StoreIsPure, AcceptedOnOneStack, RepliesWrittenOnce | one run in each mode beside one edit of each file it depends on; two runs of two builds over one store and two places |
| Gate_release | CountedWasChecked, SupportedIsEarned | one edit (text, or code of core and handlers), two measured runs, one exception, three sample runs |
| Bench_run | ArtifactIsEarned, KnownMedia, MediaKept | two runs of two rows, two changes of the fixtures |
| Comparisons_run | PassedOwnBar, PortBugsFailL3, DisagreementBounded, AnswersHeard | two scenes: three boards, two locks, two policies, two models, two skills; a shown and a quiet row, ten answers a side, seven ways to call the harness, two streams that may die anywhere |

The bounds are chosen for the shortest story each property can go wrong in. A take-over of a lock
needs a dead holder and two contenders; a lost record needs two daemons and a third party that looks;
mixed bytes need two releases; a row scored too early needs a stream that has ended and is not read out; a name that is moved over another needs a writer, a reader and a third
step; a reply computed elsewhere needs two builds, two places and a second run over the store; a
verdict that outlives its reasons needs a measurement, an edit and a second look. Each property has a
mutant in `PROJECT.json`, a plausible bug in the mapped code that the run then finds, which is the
evidence that the bounds let the bad case happen.

Temporal and action properties beside invariants: `RecordLostOnlyToNewer`, `FallbackDestroysNothing`,
`RepliesWrittenOnce` and `MediaKept` say what no step may do. Three refinements: `ImplementsFlow`
(the rewritten plan, and its run with `-y`, implement PlanFlow), `FolderIsKept` and
`FolderIsKeptWhenSeen` (the console run of each skill implements KeptFolder, the second as long as the
preview saw what the run works on) and `BenchImplementsStore` (NativeRelease implements ReplyStore).

**Fairness.** Only the Rust modules state liveness. Every process that is alive takes its next step
(weak fairness of its own actions: threads and processes are scheduled); `kill` of a child that is
still there eventually works although it may be interrupted (strong fairness of `KillChild`); the file
of a dead starter gets old. Nobody is obliged to die, to start, to stop or to send, and no message or
model load is obliged to succeed. The Python modules are programs that end: they state no liveness,
and `CHECK_DEADLOCK FALSE` stands in their configurations because a run that has ended stops. The
same holds for the lock and the lifecycle, whose commands return.

## Proofs

Eight modules hold the theorems, for every value of the constants. Each follows one pattern: an
inductive invariant made of named parts, a lemma per action, and the step from the invariant to the
property. The assumptions are named where the constants are
declared, so TLC evaluates them in every run.

| Module | Theorem | States | From |
|---|---|---|---|
| NativeProcesses_proofs | TypeCorrect, NoForeignBytesAlone, SoundUntilStopped | StoreTypeOK, NoForeignBytes, SoundUntilHalted | PayloadAssumption, BytesAssumption; the last two under `Sole` |
| NativeRelease_proofs | StoreIsSound, StoreOnlyGains | StoreIsPure, RepliesWrittenOnce | the assumptions of ReplyStore |
| NativeRelease_proofs | BenchImplementsStore, AcceptedCellsAreOfOneStack, AcceptedCellsAreBacked, SubsetCellsStandToday, NoSubsetRowIsLost | the refinement; AcceptedOnOneStack, AcceptanceIsBacked, SubsetStandsToday, NoRowLost | the same, ScoreAssumption |
| DocumentRun_proofs | DocumentsKeepFolder, LockedPagesStayLocked, ReportsStayTrue | FolderIsKept, LockedStaysLocked, ReportIsTrue | PlansAreWhole, PagesAreOwn, NewcomersElsewhere; the last under `CompressesPdfs` |
| DocumentRun_proofs | PagesStayAsAsked | PagesAsAsked | the same three, NewcomersUnread, PlansAreSpelled |
| MediaRun_proofs | MediaKeepsFolder, MediaTellsFailures | FolderIsKeptWhenSeen, FailuresAreTold | PlansAreWhole, FoldersAreFinite |
| Positions_proofs | lemmas only | what a choice of positions in order returns, what flattening a sequence of sequences holds | none |
| AgentTurn_proofs | NothingDestroyed, ApprovedRuns, NothingDangles | NothingDestroyedUnconfirmed, ApprovedIsRun, NoDanglingVariable | RegistryAssumption, AnswersAssumption |
| AgentTurn_proofs | NamedFilesOnly | OnlyNamedFilesRead | no assumption |
| AgentTurn_proofs | RewriteInvariant, NothingOverwritten, BranchEndsKeepNames | the invariant of the rewrite; FallbackDestroysNothing, NameKeepsBranchEnd | PlansAssumption, DisksAssumption, RespelledAssumption |
| AgentTurn_proofs | RewriteImplementsPlan | ImplementsFlow | the same, for plans under `FlowsAsTold` |
| NativeProcesses_proofs | LifecycleTypes, StopIsTrue, FailedStartIsClean, RecordIsKept | TypeOK, StoppedMeansExited, FailedStartLeavesNothing, RecordLostOnlyToNewer | StartersAssumption, LifecycleAssumption; the last under `Faltering = {}` |
| NativeProcesses_proofs | LockIsExclusive, LiveLockIsKept, StartsAreSerialised, AgreedStartsAreShort | MutualExclusion, LiveLockKept, OneLoading | as above; the first three while takeovers do not meet and no live start outlasts LOCK_STALE, the last where all want one daemon |
| Comparisons_proofs | ParityAnswersHeard, ParityPortBugsFailL3, ParityDisagreementBounded, GatePassedOwnBar | AnswersHeard, PortBugsFailL3, DisagreementBounded, PassedOwnBar | ParityAssumption, GateAssumption |
| Comparisons_proofs | FixturesAreKept, BoardsKnowTheirMedia, ArtifactsAreEarned | MediaKept, KnownMedia, ArtifactIsEarned | CorpusAssumption |
| EvidenceGate_proofs | CountedIsChecked, SupportIsEarned | CountedWasChecked, SupportedIsEarned | TreeAssumption; the first under `Prompt` |

**Backend store.** `TypeCorrect` is strengthened with `RcptLists` (a receipt entry lists a published
payload) and `Entered`. `NoForeignBytes` is not inductive: while an install copies, the receipt may
still name the payload it replaces. `Sound` adds what each program place knows of stage, folder and
receipt. `Sole` is one process at a time and manifests that name their release; two installers do mix
their files (see below). `SoundUntilStopped` rests on `HaltInv`, which adds what an operation in its
middle has still to do (`Taking`: the files to drop or unlink are those the receipt listed) and, for
every file of knaif's in the folder, who answers for it: the receipt, or the install that is about to
drop or replace it (`Accounted`).

**Reply store and lane.** `StoreInv` says of the staging namespace, of the replies in memory and of
the log what `StoreIsPure` says of the store, because a promotion makes the first the last; `Staged`
and `Gained` are the facts about one promotion. Each step of the bench plans, as ReplyStore says, or
leaves its variables alone, so this invariant carries over. `ReleaseInv` adds what is true of a board
from the moment it is written until it is accepted: `Planned`, `StoreRun`, `BoardsOnOneStack`,
`BoardsArePlanned`, `BoardsVouched`, `SafetyOnOneStack`, that the subset is the one its own description
selects (`SubsetSelected`), and what acceptance over it has shown (`SubsetShown`).
`ScoreAssumption`: a row that was not scored has no score.

**Console run of the documents skill.** `DocumentsKeepFolder` is the refinement of KeptFolder, from
`PlansAreWhole` (the constants are plans of the skill) and `NewcomersElsewhere` (nobody adds a file at
a name the plan gives its output while it runs; the run shows what happens otherwise to be within what
is agreed). `GateInv` carries it: whatever the rest of the run may replace is found, agreed or made.
The two statements about content need `TruthInv` on top. `GuardedFolder` says of every file, locked or
not, that a page of a document nobody may open (`Locks`: those whose password no step of the plan has)
is only in files with that document's own lock: copies under another name, which a later leaf reads. `LeafIsTold` says that each
leaf holds in `bound` what the earlier leaves of its intent found or did: `run_ocr` copies a document
on the word of an inspection two leaves ago and `verify_output` trusts the page count it was handed,
while others add files between the leaves. `LastIsTrue` is then inductive. `CompressesPdfs` asks that
`compress_pdf` is given a pdf and another name for its output (`skills/documents/prompt.yaml:14`);
the code checks neither, and a compression onto its own source has
nothing left to be compared with.

`PagesStayAsAsked` compares two readings of the plan: the code's, by lists of page numbers, file names
and counters, and `Makes`, which says what an intent means. The lemmas on pages (`ListedAsNamed`,
`KeptAsNamed`, `RotatedAsAsked` to `SplitAsAsked`) show them equal for one leaf and documents and lists
of any length; text is left out, since OCR and conversion may replace it. Over a run `Wanted` is
recursive in the intents and so is no invariant of a run half way. `WorkInv` says instead that some
account `w` fits both: each intent before the current one was to make what it makes of `w` (`IsWork`),
and the folder holds that wherever no later intent replaced it (`InFolder`); files nobody wrote are
as they were or somebody else's. A verification is the step apart: the compression before it has
written already, so its intent counts from there (`AtVerify`, `Upto`), and it must be told of that
very output. At the end of the plan `Wanted` is the only such account (`WantedIsWork`, by the least
intent on which two differ). Once a leaf has failed nothing is claimed: a merge or a split may have
stopped half way. `PlansAreSpelled` asks what the schema asks (a new order is given, a conversion takes
no pages) and that equal labels of a split mean equal parts, without which the property is false (below);
`NewcomersUnread` that nobody adds a file at a name the plan reads.

**Console run of the media skill.** Both theorems assume no more of the constants than that a plan is a
sequence of intents with known tools and listed inputs, and that a folder is finite. What a leaf does
is said leaf by leaf (`LeafIs`, `LeafReally`), and of a batch of any length by a least counterexample over
its commands (`CommandsGrow`, `CommandsRight`). `Base` holds where a run stands and what the leaves
before have returned.

For `MediaKeepsFolder`, `SeenInv` says that the preview has found every name its intents may write
(`SeenOf`, `AllSeen`), that what the user was shown is in the folder only if it is to be asked about,
agreed to or made, and that while `sight` lasts an inspection of the run leads to the names of the preview:
batches that agree in what names depend on (`AllAlike`: the file, whether a sound is there for
extract_audio, whether a picture is there for a change of speed or volume) get the same outputs
(`AlikePaths`). TLC refutes the property when any of the three conditions of `sight` is dropped.

For `MediaTellsFailures`, `ToldInv` says that until an error is rendered each intent that is over has worked
on every file it names or found it silent (`Settled`), and each reported output plays or was sampled over
(`AllPlaying`). An intent is settled at its last leaf by what its earlier leaves returned
(`RealTold`), which `Recorded` finds again among the results. The renderer looks only at the results
of a finished block (`_reporting.py:215-287`), and an inspection that misses a file does not stop the
plan, so the statement hangs on the last leaf alone (`BlockDone`).

**Agent turn.** `TurnInv` ties each place of the loop to what was accepted: between intents
(`AtIntent`) the count of shown clauses is the number of non-terminal intents passed, inside one
(`AtLeaf`) its own clause was agreed to; and every leaf that has run, of the optimised expansion of a
valid plan, has bound its variable. `NothingDangles` needs that the optimiser's removals (`Redundant`, `Kept`) leave a leaf that a
later one reads; validation runs before the removals and is never repeated after them, which is why
this is a theorem and not a guard. `RegistryAssumption` and `AnswersAssumption` say that tools and
answers are shaped as the model declares them.

**Chain and collisions.** `NamedInv` hands from stage to stage what the one before has shown: the guard of
`infer` passed the plan (`~Hallucinated`), stems turned an accepted word into the one file of the listing it
names (`AllVouched`), the clarify gate found nothing under-specified, and nothing that is left is a glob or a
stem. The linking is not looked into, because the guard judges its result; so the theorem holds for linkings
other than the code's, too.

The rewrite and the run are `OutputCollisions` by themselves, for plans of any length over any finite disk, linked or
not. `CollisionInv` says of the plan `p` that the walk has made of the legal plan `N` (`Rewritten`): it has the shape
of `N`; what it reads and writes is spoken for (`Accounted`); no step walked over writes its own input; a
chosen name is not on the disk, not declared by `N` and the output of one step only (`Fresh`); an output has
its own name or a chosen one, and an end of a branch its own (`NamesKept`). For that last part the walk must
know who reads a name it takes away: each name of a step walked over is still declared by one of those, or
no later step reads it (`Followed`), so an end of a branch never gives way for want of a producer. Of the run,
`Ran` says that a file holds what was there, or the work of a step that writes it, and that the branch ends
so far hold their own. The lemmas on names carry it: counting up reaches a free name
(`FreeCandidate`), a respelled name resolves to the path it was chosen as (`RespellIs`), the first output of a batch keeps its place
(`PlacedIs`), and a step that names its one output writes that file and no other (`WrittenIs`).

`RewriteImplementsPlan` maps that onto PlanFlow. `FlowInv` keeps what every reference of the plan means, as `MeantBy`
of the plan before any renaming. A move leaves it as it was (`MoveMeans`): between the output that gives way and the
last reference that follows it nobody else declares the old name (`Undivided`), and nobody writes or reads the new one
(`Unused`). In the run a path holds the work of the nearest earlier step that declares it, or what was on the
disk (`Holds`, `HoldsOn`), and the one command of a step reads just that (`ReadsAreMeant`). The hypothesis `FlowsAsTold`
says what plans this is true of: each step writes the one file it names, or is the last and leaves the name to the engine,
because a derived name is in no plan and a chosen one may fall on it; no name that gives way to the disk is declared
again (`DeclaredTwice`, a case below); and a respelled name is no other name of the plan. Of the 12233 plans of
Chain_run 6728 are such plans, and in 4634 of these an output collides; the run checks the rest, and the linked
chains. With `DisksAssumption` dropped,
`next_free_output` need not end.

**Daemon.** `LifeInv` says of every client what its place entails: one that polls has a child of its
own (`PollsItsChild`), one that reports a stop has seen the process gone (`OnlyStops`), whoever talks
talks to a daemon that has published, and discards the record only of one that is gone
(`TalksToBorn`); of a daemon (`DaemonInv`) that it moves a record aside only while it retires; and that
a record, in place or aside, names a daemon that has published (`RecordInv`). `RecordIsKept` is an
action property: each action that touches `record` is shown to leave the record of a serving daemon
findable or to publish a newer one. Its hypothesis is that of the run: no call breaks on a daemon that
lives. With a call that breaks, the code drops the record of a live daemon (`daemon.rs:717`).

**Start lock.** Of four contenders one may still move a lock that is in use, so `MutualExclusion` has
no proof for any number as it stands. What goes wrong needs two takeovers of one stale lock at once,
and `TakeoversApart` says that none meet. With it `LockInv` is inductive: a holder's file has the name,
only the file of a start that is over grows stale, and only such a file is moved aside. The theorems
are then about any number of starts and deaths at any point, a death between the move and the burial
and an id that could not be written included; three contenders whose takeovers do meet are what
StartLock_three checks. For `OneLoading` `StartInv` adds that a start is inside the lock from its
second probe until it returns, and so while its child is loading. That no live start outlasts
LOCK_STALE is `SlowHolders = FALSE` for the lock, and for the commands the hypothesis `NoneOutlasts`,
which `AgreedStartsAreShort` discharges where all want the same daemon: one call (12 s) before the poll
(120 s) and one after it end within 150 s. A start that has to stop another daemon first can take longer.

**Comparisons.** `Heard` is the conservation law of a stream: what was said is what was got followed
by what is in the pipe, so a row that has been compared was compared on what each side said for it.
`Judging` says that the rows so far bear the status their answers deserve; `Filed` that a recorded run
is a judged one. `PortBugsFailL3` then rests on one lemma
about data, `CanonOfDefaults`: the canonical form of a step is its tool and the values it is carried
out with. `GateInv` keeps, per skill and model, that the file `Default` or the model's own holds what
was last locked for it (`Kept`), unless an unnamed board has been locked (`muddled`).

**Bench.** Everything is said of what a directory holds (`HeldIn`), because every step of a row writes
below one directory. `BenchInv`: what the caches name was generated (`CacheInv`), and a run that nobody
disturbed has shown each of its rows the media that are there now (`MediaKnown`). `EarnedInv` adds that
after each command the row's directory holds what the commands so far make on paper (`OnTheWay`), and
that the artifacts of the rows done before, each in a directory of its own, still hold theirs
(`RowEarned`, `RefEarned`). `Paper` is that recursive function for a plan of any length; that it
exists is proved by a least counterexample (`PaperExists`).

**Release evidence.** `EvidenceInv` ties what is recorded to what was done: an entry of the record to
its run (`RecordInv`), a run to a tree that is nowhere ahead of the present one (`RunsInv`), a Python
stage to a tree that comes before or after that of every run (`SampleInv`), and an equivalence to
builds of its two trees, tested clean or not clean any more (`EntriesInv`). The order of trees
(`Behind`) is what makes `PythonWasChecked` true: a stage that ran on the moved part of today's tree
cannot have run before the measurement, so it saw the parts that have not moved as well.
`CountedIsChecked` is about the documented procedure, `Prompt`: a run is made with a binary of the
present tree and recorded before the tree moves. Nothing in the code enforces it (`cli.py:2350`), and
without it `CountedWasChecked` fails. `SupportIsEarned` needs no procedure.

Only model-checked, and why:

- liveness (`EachWaitEnds`, `EveryoneEnds`) is out of the prover's reach;
- `MutualExclusion`, `LiveLockKept` and `OneLoading` where takeovers meet: true of three contenders and
  false of four (the case is below), so that there is no inductive invariant for any number;
- what a fold or a recursive function computes for all inputs would need induction over data. The
  installed provers cannot instantiate an induction rule with an operator for its hypothesis; a least
  counterexample stands in for it where one number carries the argument (`LeastNumber`, used for
  flattening and for chains of commands), but has to be repeated for every operator. Not attempted are
  the folds that link a plan of any length (`ReusedSourcesRead`, and `ImplementsFlow` of a linked chain or of a
  plan outside `FlowsAsTold`) and what media commands make of their inputs second by second (`MadeAsAsked`).

## Observed while modelling, not run

Cases in which the code does less than a comment or a document says, or in which a property had to be
stated narrower. No run claims them; each is at its line for whoever wants to decide about it.

*Native runtime.*
- The take-over of a stale lock is safe for three contenders; with a fourth, one may still bury a lock
  that was created between its second look and the link (`daemon.rs:863`). The drop reads the lock and
  then unlinks the name (`daemon.rs:894`).
- A daemon that is freeing its model or starts slowly can overlap with the next one (`daemon.rs:430`,
  `902`), and a process paused past the probe's limit is taken for dead (`718`).
- Two installers write back the receipt each has read (`backend_store.rs:312`, `456`), and a file left
  when a drop fails stays beside the next version (`433`); `NoForeignBytes` is about one process.

*Agent loop and skills.*
- An intermediate named with a folder gets that folder a second time (`agent.py:137`), and rebinding may
  pass a newer writer of the same name (`_collisions.py:366`); plans that declare one output twice are
  left out of `ImplementsFlow`.
- A replacement such as `a_converted.mp4` can be the name that the engine derives for another step:
  `next_free_output` knows only names the plan declares or reads (`_engine.py:58-61`). `FallbackDestroysNothing` and
  `NameKeepsBranchEnd` speak of outputs that a step names.
- The guard against invented names takes the output of any step, the reader's own and later ones included
  (`agent.py:1355`), and the clarify gate does not look at a reference with a folder nor at a batch
  request: such a plan may read a name that only it has made up.
- A split names its pieces by its parts with `-` as `_` (`steps.py:180-183`), and `int` reads `1_2` as 12
  (`_engine.py:296`): of the parts `1-2` and `1_2` only the second keeps its file, while the result lists two.
- The dry run names the outputs of two documents steps as if neither existed (`skills/documents/SPEC.md:149`).
- The preview sees no derived name of a step whose inputs do not exist yet (`app.py:318` beside `615`), so
  such an output is replaced unasked. Folder and glob inputs are resolved anew in the run. A preview
  step that fails ends the plan with exit code 0.
  `build_recipes` collects `skipped` and nothing shows it (`steps.py:188`). `--silent` hides an error that
  exits 0 (`app.py:523`, `538`).
- A batch reserves the names of all its inputs in the preview and of the readable ones in the run
  (`steps.py:58-92`): with a broken `junk.mkv` among the inputs, an output named `junk.mkv` replaces it unasked,
  although every input of the batch is said to be taken (`_engine.py:768`). Of a file it cannot read the
  preview supposes whether it has a picture, on which the extension after a change of speed or volume depends.
  A name shown as free that somebody takes meanwhile is replaced, and so is an output by a later sample
  of the same name.
- The platform presets render `scale=max_w:max_h` (`ffmpeg/python/_engine.py:1461`) although
  `youtube.yaml` says that the source's resolution is honoured. `strip_audio` and `adjust_volume` copy the
  video stream into a named `.webm`; `compress_video` keeps its mp4 settings there.

*Evaluation and release.*
- `fixtures regen` skips a changed fixture whose command hash is cached, also after a forced run that
  stopped half way, although `cli.py:809` gives it as the remedy; content hashes are taken after all
  fixtures, so one whose first generation failed is in no record.
- A board of no named model locks the default snapshot and replaces another model's (`snapshot.py:22`
  says it cannot); `PassedOwnBar` leaves such skills out. `regression --all-skills` looks only at boards
  graded by the default snapshot's verifier.
- `seed-baselines` rewrites the corpus whole and can lose a validation saved meanwhile
  (`cli.py:230-306` beside `256`).
- A row run through the artifact runner uses a directory that is not emptied, and an exception leaves
  its outcome at `plan` (`runner.py:264`).
- Recording stamps the tree as it is then, not as it was when the run started (`cli.py:2350`,
  `gate.py:1317`). A composed board forgets how it was planned (`compose.py:124` beside `cli.py:2266`).
  Replies promoted by a run that died are never logged (`docs/RELEASE.md:733`).
- Two sides that answer nothing on every row match on every row, and the run passes, although
  `l3_verdict` refuses a run with nothing to compare (`parity_check.py:924`): `DisagreementBounded` speaks
  of rows with plans. Today's native build says `not_implemented:` on stderr, which
  `_parse_native_body` does not read, so such a row is an error and never "native-not-implemented"
  (`parity_check.py:920`); where the plans agree it is still a port bug. Rows for which Python rendered
  nothing are set aside without a look at the plans. A chain that fails after its first commands
  matches a shorter plan with those commands. Once a run has printed commands its exit status is not
  compared: one that fails after them matches one that succeeds (`parity_check.py:447`).

## Not modelled

- *Native:* the download of models and the model store, the wire session below one answered or failed
  call (nonces, proofs, byte caps, backlog), the native planner, ffmpeg and documents skills, prompts,
  retrieval and skill loading, llama.cpp, terminal output; process ids that are reused and clocks that
  jump.
- *Console:* `--overwrite` and `--dry-run`, an explicit output equal to the own input, leaves cut in the
  middle except where a tool writes two files, listings of injected files.
- *Media:* codecs, sizes and frame rates; image sequences; gif outputs except of a conversion; audio
  outputs of edits; a negative start with a positive end, a thumbnail past the end of the clip, a negative
  start for `extract_audio`, the last ten seconds of a clip shorter than that, frames together with a range.
- *Planner:* parsing of the reply, the coercions of `normalize_plan`, streaming and mock replies.
- *Lane and gate:* several models, the flat layers of before the matrix, shards, the operating system
  apart from the place, unpackaged builds, overrides of the bar per model, two lanes on one sandbox,
  moves between file systems, git plumbing and its pre-registration, the binary hashed after the rows.
- *Bench and comparisons:* rows whose artifact is the plan itself, latency, per-slice tables, reports,
  trends, reviewers and the tools for publishing and for training data; tokenising of command lines, row
  filters and time limits of the parity check.

What is left is either pure computation on text and YAML, which has no order of steps to get wrong,
or numeric code, or a file format, with these exceptions, which come next: `ModelDownload` (the worker
pool over chunks with its sidecar, retries and resume, and the store it installs into), `DaemonSession`
(the exchange below one call), and `MediaRecipes` (codecs against containers through a chain of steps).
Next to be proved: the linking of chains (`ReusedSourcesRead`, `ImplementsFlow` of batches and linked plans) and what
media commands make of their inputs (`MadeAsAsked`).

