---------------------------- MODULE EvidenceGate ----------------------------
(* The release evidence of one skill and one model: knaif/evalsuite/gate.py  *)
(* and the commands of cli.py that write what it reads (accept-native, gate  *)
(* --record-parity / --record-contracts / --release-record, waive,           *)
(* equivalence).  A run is measured on a tree with a binary; its verdict is  *)
(* recorded with the fingerprint of the tree; the gate then says of every    *)
(* layer whether that evidence still counts for the tree and the binaries    *)
(* it is given.                                                              *)
EXTENDS EvidenceTree

CONSTANTS
    Edits,          \* the changes made to the tree, each a set of parts
    MaxEdits, MaxRuns, MaxWaivers, MaxStageRuns,
    Prompt          \* runs are made with a binary of the present tree, and recorded before it moves

VARIABLES
    tree,           \* the checkout
    commits,        \* committed trees, the last one HEAD
    edits,
    runs,           \* saved boards: [slot, tree, binary, unmet, population]
    record,         \* slot -> the entry of the acceptance record, as a set of at most one
    entries,        \* recorded equivalences
    sample,         \* the sample run folder
    current,        \* the release the matrix names
    releases,       \* release -> its frozen record, as a set of at most one
    decided         \* ghost: the runs the owner has waived, with their unmet thresholds

vars == <<tree, commits, edits, runs, record, entries, sample, current, releases, decided>>

HeadTree == Last(commits)

Binary(os, t) == [os |-> os, native |-> t.native]

Trees == Range(commits) \cup {tree}

\* Any committed or present source may have been packaged.
Binaries(os) == {Binary(os, t) : t \in Trees}

\* --native-bin: at most one artifact per operating system, told by its header.
Given == UNION {{g \in [oses -> UNION {Binaries(os) : os \in Oses}] :
                    \A os \in oses : g[os].os = os} : oses \in SUBSET Oses}

---------------------------------------------------------------------------
\* The tree.

Bump(n, part, parts) == IF part \in parts THEN n + 1 ELSE n

Changed(parts) ==
    [native      |-> [code |-> Bump(tree.native.code, "code", parts),
                      text |-> Bump(tree.native.text, "text", parts)],
     bundle      |-> [kept |-> Bump(tree.bundle.kept, "prompts", parts),
                      py   |-> Bump(tree.bundle.py, "handlers", parts)],
     python_core |-> Bump(tree.python_core, "core", parts),
     contracts   |-> [kept     |-> Bump(tree.contracts.kept, "contracts", parts),
                      backends |-> Bump(tree.contracts.backends, "backends", parts)],
     corpus      |-> Bump(tree.corpus, "corpus", parts)]

Edit(parts) ==
    /\ edits < MaxEdits
    /\ edits' = edits + 1
    /\ tree' = Changed(parts)
    /\ UNCHANGED <<commits, runs, record, entries, sample, current, releases, decided>>

Commit ==
    /\ tree # HeadTree
    /\ commits' = Append(commits, tree)
    /\ UNCHANGED <<tree, edits, runs, record, entries, sample, current, releases, decided>>

\* The next minor release has its own matrix, a file under contracts/.
NextRelease ==
    /\ current = "1.2.0" /\ edits < MaxEdits
    /\ current' = "1.3.0"
    /\ edits' = edits + 1
    /\ tree' = Changed({"contracts"})
    /\ commits' = Append(commits, tree')
    /\ UNCHANGED <<runs, record, entries, sample, releases, decided>>

---------------------------------------------------------------------------
\* Measuring and recording.

\* evalsuite native, or a parity run: what is measured is a binary, in a tree.
Measure(slot, bin, unmet, population) ==
    /\ Cardinality(runs) < MaxRuns
    /\ population = "subset" => slot \in Oses /\ \E r \in DOMAIN releases : releases[r] # {}
    /\ slot = "L3" => unmet = {}
    /\ slot \in Oses => bin.os = slot
    /\ Prompt => bin.native = tree.native
    /\ runs' = runs \cup {[slot |-> slot, tree |-> tree, binary |-> bin, unmet |-> unmet,
                           population |-> population]}
    /\ UNCHANGED <<tree, commits, edits, record, entries, sample, current, releases, decided>>

Entry(evidence, bin, run, unmet, population) ==
    [evidence |-> evidence, binary |-> bin, run |-> run, unmet |-> unmet,
     population |-> population, waivers |-> {}]

\* record_layers: the whole entry of a cell is replaced, no other cell is touched.
Recorded(slot, entry) == [record EXCEPT ![slot] = {entry}]

\* earlier_platform_cell: a frozen record with an accepted full-corpus cell.
EarlierPlatform(os) ==
    \E r \in DOMAIN releases : \E f \in releases[r] : \E e \in f.record[os] :
        /\ e.unmet = {} \/ e.waivers # {}
        /\ e.population # "subset"

\* accept-native and record-parity: the entry takes the fingerprint of the tree
\* at the moment of recording, and the binary of the run.
Accept(run) ==
    /\ Prompt => run.tree = tree
    /\ run.population = "subset" => EarlierPlatform(run.slot)
    /\ record' = Recorded(run.slot, Entry(tree, run.binary, run, run.unmet, run.population))
    /\ UNCHANGED <<tree, commits, edits, runs, entries, sample, current, releases, decided>>

\* just check-contracts: L1 and L2 of the tree as it is, after their tests passed.
CheckContracts ==
    /\ record["L1"] = {} \/ \E e \in record["L1"] : e.evidence # tree
    /\ record' = [slot \in Slots |-> IF slot \in {"L1", "L2"}
                                     THEN {Entry(tree, NoBin, "checked", {}, "full")}
                                     ELSE record[slot]]
    /\ UNCHANGED <<tree, commits, edits, runs, entries, sample, current, releases, decided>>

\* waive_cell: only a recorded failing verdict, over quality thresholds only.
Waive(slot) ==
    /\ slot \in CellSlots
    /\ Cardinality(decided) < MaxWaivers
    /\ \E e \in record[slot] :
        /\ e.unmet # {} /\ e.unmet \subseteq Waivable
        /\ record' = [record EXCEPT ![slot] = {[e EXCEPT !.waivers = {Quote(slot, e)}]}]
        /\ decided' = decided \cup {[slot |-> slot, run |-> e.run, unmet |-> e.unmet]}
    /\ UNCHANGED <<tree, commits, edits, runs, entries, sample, current, releases>>

---------------------------------------------------------------------------
\* Equivalences.

Cells == {slot \in CellSlots : record[slot] # {}}

MovedOf(slot) == UNION {Moved(e.evidence, tree) : e \in record[slot]}

\* The stages run in the folder, each counted as often as it was run.
SumLengths(stages) == FoldFunction(LAMBDA outcomes, n : Len(outcomes) + n, 0, stages)

\* One stage of the sample: a binary of the tree, or the Python runtime.  A
\* sample is run after a change to what was measured.
SampleStage(stage, equivalent) ==
    /\ SumLengths(sample.stages) < MaxStageRuns /\ Len(sample.stages[stage]) < 2
    /\ \E slot \in Cells : MovedOf(slot) # {}
    /\ sample' = [sample EXCEPT
            !.stages[stage] = Append(@, equivalent),
            !.tested = IF stage = "python" THEN @
                       ELSE [os \in DOMAIN @ \cup {stage} |-> IF os = stage THEN Binary(os, tree) ELSE @[os]],
            !.pytree = IF stage = "python" THEN {tree} ELSE @]
    /\ UNCHANGED <<tree, commits, edits, runs, record, entries, current, releases, decided>>

\* The fingerprints of *key* the moved cells were measured under.
MeasuredValues(key) ==
    {e.evidence[key] : e \in UNION {record[slot] : slot \in {s \in Cells : key \in MovedOf(s)}}}

\* What is mapped was measured at the commit named, and is committed now.
Describes(from, key) ==
    /\ tree[key] = HeadTree[key]
    /\ MeasuredValues(key) = {from[key]}

EquivalenceOf(kind, from, oses) ==
    [kind |-> kind, from |-> from, to |-> HeadTree,
     maps |-> {"native"} \cup UNION {MovedOf(slot) : slot \in Cells},
     bins |-> [os \in oses |-> [from |-> Binary(os, from), to |-> Binary(os, HeadTree)]]]

\* cmd_equivalence: the change since *from* is text alone, or a code change
\* that the sample run vouches for on every operating system measured.
RecordEquivalence(kind, from, oses) ==
    LET e == EquivalenceOf(kind, from, oses)
        pythonStage == kind = "sampled" /\ VouchesFor(sample, {}, TRUE)
    IN  /\ entries = {}
        /\ from.native # HeadTree.native
        /\ kind = "text" => TextOnly(from, HeadTree)
        /\ e.maps \subseteq Carryable(kind)
        /\ \A key \in e.maps : Describes(from, key)
        /\ \A key \in {"python_core", "contracts"} \cap e.maps : pythonStage
        /\ "contracts" \in e.maps => ContractsChangeAllowed(from, HeadTree)
        /\ "bundle" \in e.maps => BundleChangeAllowed(from, HeadTree, pythonStage)
        /\ kind = "sampled" =>
            /\ Cells \cap Oses \subseteq oses
            /\ \A os \in oses : os \in DOMAIN sample.tested /\ sample.tested[os] = Binary(os, HeadTree)
            /\ Honoured(e, sample)
        /\ entries' = {e}
        /\ UNCHANGED <<tree, commits, edits, runs, record, sample, current, releases, decided>>

---------------------------------------------------------------------------
\* The gate.

HonouredEntries == {e \in entries : Honoured(e, sample)}

\* _current_for_cell, _pick_binary: the binary a slot is judged against.
BinaryFor(slot, entry, given) ==
    IF ~PinsBinary(slot) \/ given = <<>> THEN NoBin
    ELSE IF slot \in Oses
         THEN IF slot \in DOMAIN given THEN given[slot] ELSE NoBin
         ELSE LET rebuilt == {e.bins[os].to : e \in {h \in HonouredEntries :
                                  \E o \in DOMAIN h.bins : h.bins[o].from = entry.binary},
                                              os \in {entry.binary.os} }
              IN  IF entry.binary \in Range(given) THEN entry.binary
                  ELSE IF rebuilt \cap Range(given) # {} THEN CHOOSE b \in rebuilt \cap Range(given) : TRUE
                  ELSE CHOOSE b \in Range(given) : TRUE

\* _layer_state.
EntryState(slot, entry, given) ==
    LET bin == BinaryFor(slot, entry, given)
        carried == \E e \in HonouredEntries : Carries(e, entry, tree, bin)
        drifted == {k \in DependsOn(slot) : entry.evidence[k] # tree[k]}
                        \ (IF carried THEN SampledCarries ELSE {})
    IN  IF \/ drifted # {}
           \/ bin # NoBin /\ entry.binary # bin /\ ~carried
        THEN "stale"
        ELSE IF entry.unmet = {} THEN "valid"
        ELSE IF WaiverHolds(slot, entry) THEN "excepted" ELSE "failing"

SlotState(slot, given) ==
    IF record[slot] = {} THEN "pending"
    ELSE EntryState(slot, CHOOSE e \in record[slot] : TRUE, given)

\* _cells_state: a layer is as good as its worst cell.
LayerState(layer, given) ==
    WorstOf({SlotState(slot, given) : slot \in {s \in Slots : LayerOf(s) = layer}})

Requires(status) ==
    CASE status = "in-progress" -> {}
      [] status = "parity" -> {"L1", "L2", "L3"}
      [] status = "supported" -> {"L1", "L2", "L3", "L4"}

\* evaluate_skill: the strongest status whose layers all hold now.
Derived(given) ==
    LET Backed(status) ==
            \A l \in Requires(status) : LayerState(l, given) \in {"valid", "excepted"}
    IN  CASE Backed("supported") -> "supported"
          [] ~Backed("supported") /\ Backed("parity") -> "parity"
          [] OTHER -> "in-progress"

\* write_release_record: written once, under the release the matrix names or a
\* patch of it that an honoured equivalence carries over.
ReleaseRecord(release) ==
    /\ \/ release = current
       \/ release = "1.2.1" /\ current = "1.2.0" /\ HonouredEntries # {}
    /\ releases[release] = {}
    /\ releases' = [releases EXCEPT ![release] = {[record |-> record, derived |-> Derived(<<>>)]}]
    /\ UNCHANGED <<tree, commits, edits, runs, record, entries, sample, current, decided>>

---------------------------------------------------------------------------
Tree0 == [native |-> [code |-> 0, text |-> 0], bundle |-> [kept |-> 0, py |-> 0],
          python_core |-> 0, contracts |-> [kept |-> 0, backends |-> 0], corpus |-> 0]

Init ==
    /\ tree = Tree0 /\ commits = <<Tree0>> /\ edits = 0
    /\ runs = {} /\ record = [slot \in Slots |-> {}] /\ entries = {}
    /\ sample = [stages |-> [st \in Stages |-> <<>>], tested |-> <<>>, pytree |-> {}]
    /\ current = "1.2.0" /\ releases = [r \in {"1.2.0", "1.2.1", "1.3.0"} |-> {}]
    /\ decided = {}

Verdicts == {{}, {"slice"}, {"safety"}}

Next ==
    \/ \E parts \in Edits : Edit(parts)
    \/ Commit \/ NextRelease
    \/ \E slot \in CellSlots, os \in Oses : \E bin \in Binaries(os), unmet \in Verdicts,
          population \in {"full", "subset"} : Measure(slot, bin, unmet, population)
    \/ \E run \in runs : Accept(run)
    \/ CheckContracts
    \/ \E slot \in CellSlots : Waive(slot)
    \/ \E stage \in Stages, equivalent \in BOOLEAN : SampleStage(stage, equivalent)
    \/ \E kind \in {"text", "sampled"}, from \in Range(commits), oses \in SUBSET Oses \ {{}} :
          RecordEquivalence(kind, from, oses)
    \/ \E r \in DOMAIN releases : ReleaseRecord(r)

Spec == Init /\ [][Next]_vars

---------------------------------------------------------------------------
TypeOK ==
    /\ edits \in 0..MaxEdits
    /\ \A slot \in Slots : \A e \in record[slot] :
        /\ PinsBinary(slot) <=> e.binary # NoBin
        /\ PinsBinary(slot) => e.run \in runs /\ e.run.slot = slot /\ e.binary = e.run.binary
    /\ \A e \in entries : e.maps \subseteq Carryable(e.kind) /\ {e.from, e.to} \subseteq Range(commits)
    /\ DOMAIN sample.tested \subseteq Oses
    /\ \A w \in decided : w.run \in runs

Holds(slot, given) == SlotState(slot, given) \in {"valid", "excepted"}

Accepted(run) ==
    run.unmet = {} \/ [slot |-> run.slot, run |-> run, unmet |-> run.unmet] \in decided

\* Nothing but one clean run of the stage vouches for a change of behaviour.
Sampled(os, bin) ==
    /\ os \in DOMAIN sample.tested /\ sample.tested[os] = bin
    /\ sample.stages[os] = <<TRUE>>

\* A cell that counts, checked against a packaged binary, names a build of the
\* present tree that was measured and accepted, or whose behaviour is that of a
\* measured one: the same code, or a sampled change (gate.py:483-520).
ValidBinaryWasMeasured ==
    \A given \in Given : \A os \in DOMAIN given : Holds(os, given) =>
        /\ given[os].native = tree.native
        /\ \E run \in runs : /\ run.slot = os /\ Accepted(run)
                             /\ \/ run.binary.native.code = given[os].native.code
                                \/ Sampled(os, given[os])

\* Python code that moved since a cell was measured counts only when one clean
\* Python stage ran on exactly the code there is now (gate.py:448-463).
PythonWasChecked ==
    \A slot \in CellSlots : \A e \in record[slot] :
        Holds(slot, <<>>) /\ (e.run.tree.python_core # tree.python_core \/ e.run.tree.bundle # tree.bundle)
        => /\ sample.stages["python"] = <<TRUE>>
           /\ \E t \in sample.pytree : t.bundle = tree.bundle /\ t.python_core = tree.python_core

\* Nothing counts that was not measured on what it is now held against.
CountedWasChecked == ValidBinaryWasMeasured /\ PythonWasChecked

\* `supported` rests on every operating system of the matrix, and a missed
\* threshold on the owner's decision about that very run, never about safety
\* (gate.py:937-941, 983-1000).
SupportedIsEarned ==
    \/ \A os \in Oses : \E e \in record[os] : Accepted(e.run) /\ "safety" \notin e.run.unmet
    \/ \A given \in Given : Derived(given) # "supported"

=============================================================================
