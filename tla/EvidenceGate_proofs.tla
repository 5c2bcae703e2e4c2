------------------------- MODULE EvidenceGate_proofs -------------------------
(* Theorems about the release evidence (EvidenceGate), for any operating     *)
(* systems, any changes to the tree, and any number of runs, recordings,     *)
(* samples and waivers.                                                      *)
EXTENDS EvidenceGate, TLAPS

NativeType == [code : Nat, text : Nat]

TreeType ==
    [native : NativeType, bundle : [kept : Nat, py : Nat], python_core : Nat,
     contracts : [kept : Nat, backends : Nat], corpus : Nat]

BinaryType == [os : Oses, native : NativeType]

\* What no edit takes back: an older tree is nowhere ahead of a newer one.
Behind(s, t) ==
    /\ s.bundle.kept <= t.bundle.kept /\ s.bundle.py <= t.bundle.py
    /\ s.python_core <= t.python_core

\* The fields an entry of the record has.
IsEntry(e) ==
    e = [evidence |-> e.evidence, binary |-> e.binary, run |-> e.run, unmet |-> e.unmet,
         population |-> e.population, waivers |-> e.waivers]

---------------------------------------------------------------------------
\* The parts of the invariant.

TreesInv ==
    /\ tree \in TreeType
    /\ commits \in Seq(TreeType) /\ commits # <<>>

\* A run was made on a tree there was, with a binary of its operating system.
RunsInv ==
    \A r \in runs :
        /\ r.tree \in TreeType /\ Behind(r.tree, tree)
        /\ r.slot \in CellSlots /\ r.binary \in BinaryType
        /\ r.slot \in Oses => r.binary.os = r.slot
        /\ Prompt => r.binary.native = r.tree.native

\* A cell holds one entry, its run's, excepted only by a decision of the owner.
RecordInv ==
    \A slot \in CellSlots : \A e \in record[slot] :
        /\ record[slot] = {e} /\ IsEntry(e)
        /\ e.run \in runs /\ e.run.slot = slot
        /\ e.binary = e.run.binary /\ e.unmet = e.run.unmet
        /\ Prompt => e.evidence = e.run.tree
        /\ e.waivers # {} => [slot |-> slot, run |-> e.run, unmet |-> e.unmet] \in decided

\* The trees the runs and the Python stages were made on come one after another.
SampleInv ==
    /\ sample = [stages |-> sample.stages, tested |-> sample.tested, pytree |-> sample.pytree]
    /\ sample.stages \in [Stages -> Seq(BOOLEAN)]
    /\ \A t \in sample.pytree :
        /\ t \in TreeType /\ Behind(t, tree)
        /\ \A r \in runs : Behind(r.tree, t) \/ Behind(t, r.tree)

\* The binaries an entry names are builds of its trees.  Once a sampled one is
\* recorded, a stage that is still clean was run on the build it names.
EntriesInv ==
    \A e \in entries :
        /\ e.from \in TreeType /\ e.to \in TreeType /\ DOMAIN e.bins \subseteq Oses
        /\ \A os \in DOMAIN e.bins : e.bins[os] = [from |-> Binary(os, e.from), to |-> Binary(os, e.to)]
        /\ e.kind \in {"text", "sampled"}
        /\ e.kind = "text" => TextOnly(e.from, e.to) /\ e.maps \subseteq {"native"}
        /\ e.kind = "sampled" =>
            \A os \in DOMAIN e.bins :
                /\ sample.stages[os] # <<>>
                /\ Clean(sample.stages[os]) => os \in DOMAIN sample.tested /\ sample.tested[os] = e.bins[os].to

\* The inductive invariant.
EvidenceInv ==
    /\ TreesInv /\ RunsInv /\ RecordInv /\ SampleInv /\ EntriesInv
    /\ record = [slot \in Slots |-> record[slot]]

---------------------------------------------------------------------------
\* The operators.

LEMMA SlotsApart ==
    /\ "L1" \notin Oses /\ "L2" \notin Oses /\ "L3" \notin Oses /\ "python" \notin Oses
    /\ CellSlots \subseteq Slots /\ "L1" \notin CellSlots /\ "L2" \notin CellSlots
    /\ \A os \in Oses : LayerOf(os) = "L4" /\ PinsBinary(os) /\ os \in CellSlots /\ os \in Slots /\ os \in Stages
    /\ \A slot \in CellSlots : PinsBinary(slot)
BY TreeAssumption DEF CellSlots, Slots, LayerOf, PinsBinary, CellLayers, Stages

LEMMA BinariesAreBinaries ==
    /\ NoBin \notin BinaryType
    /\ \A os \in Oses : \A t \in TreeType : Binary(os, t) \in BinaryType
BY TreeAssumption DEF BinaryType, NativeType, TreeType, Binary

\* An edit moves every part of the tree on, or leaves it.
LEMMA ChangedMovesOn ==
    ASSUME NEW parts, tree \in TreeType
    PROVE  Changed(parts) \in TreeType /\ Behind(tree, Changed(parts))
<1>1. ASSUME NEW n \in Nat, NEW part
      PROVE  Bump(n, part, parts) \in Nat /\ n <= Bump(n, part, parts)
    BY DEF Bump
<1>2. tree.native.code \in Nat /\ tree.native.text \in Nat /\ tree.bundle.kept \in Nat /\ tree.bundle.py \in Nat
      /\ tree.python_core \in Nat /\ tree.contracts.kept \in Nat /\ tree.contracts.backends \in Nat
      /\ tree.corpus \in Nat
    BY DEF TreeType, NativeType
<1>3. Changed(parts) \in TreeType
    BY <1>1, <1>2 DEF TreeType, NativeType, Changed
<1>4. Behind(tree, Changed(parts))
    BY <1>1, <1>2 DEF Behind, Changed
<1> QED
    BY <1>3, <1>4

LEMMA BehindIsTransitive ==
    ASSUME NEW s \in TreeType, NEW t \in TreeType, NEW u \in TreeType, Behind(s, t), Behind(t, u)
    PROVE  Behind(s, u)
BY DEF TreeType, Behind

LEMMA BehindIsReflexive ==
    ASSUME NEW s \in TreeType
    PROVE  Behind(s, s)
BY DEF TreeType, Behind

LEMMA CommittedTrees ==
    ASSUME TreesInv
    PROVE  /\ HeadTree \in TreeType /\ Range(commits) \subseteq TreeType /\ Trees \subseteq TreeType
           /\ \A os \in Oses : Binaries(os) \subseteq BinaryType
<1>1. commits[Len(commits)] \in TreeType /\ \A i \in DOMAIN commits : commits[i] \in TreeType
    BY DEF TreesInv
<1>2. Range(commits) \subseteq TreeType
    BY <1>1 DEF Range
<1>3. HeadTree \in TreeType
    BY <1>1 DEF HeadTree, Last
<1> QED
    BY <1>2, <1>3, BinariesAreBinaries DEF TreesInv, Trees, Binaries

LEMMA CleanAppend ==
    ASSUME NEW s \in Seq(BOOLEAN), NEW x \in BOOLEAN, s # <<>>
    PROVE  ~ Clean(Append(s, x)) /\ Append(s, x) # <<>>
<1> DEFINE t == Append(s, x)
<1>1. Len(t) = Len(s) + 1 /\ Len(s) \in Nat /\ Len(s) # 0
    OBVIOUS
<1>2. Len(<<TRUE>>) = 1 /\ Len(<<>>) = 0
    OBVIOUS
<1> HIDE DEF t
<1>3. Len(t) # 1 /\ Len(t) # 0
    BY <1>1
<1>4. t # <<TRUE>> /\ t # <<>>
    BY <1>2, <1>3
<1> QED
    BY <1>4 DEF Clean, t

\* A layer counts only when each of its cells does.
LEMMA WorstOfCounts ==
    ASSUME NEW states, states \subseteq {"failing", "stale", "pending", "excepted", "valid"},
           WorstOf(states) \in {"valid", "excepted"}, states # {}
    PROVE  states \subseteq {"valid", "excepted"}
<1> DEFINE P(i) == i \in DOMAIN Severity /\ Severity[i] \in states
                   /\ \A j \in 1..(i - 1) : Severity[j] \notin states
           least == CHOOSE i \in DOMAIN Severity : Severity[i] \in states
                                                   /\ \A j \in 1..(i - 1) : Severity[j] \notin states
<1>1. /\ DOMAIN Severity = 1..5 /\ Severity[1] = "failing" /\ Severity[2] = "stale"
      /\ Severity[3] = "pending" /\ Severity[4] = "excepted" /\ Severity[5] = "valid"
    BY DEF Severity
<1>2. \E i \in 1..5 : P(i)
    <2>1. CASE "failing" \in states
        BY <1>1, <2>1
    <2>2. CASE "failing" \notin states /\ "stale" \in states
        <3>1. P(2)
            BY <1>1, <2>2
        <3> QED  BY <3>1
    <2>3. CASE "failing" \notin states /\ "stale" \notin states /\ "pending" \in states
        <3>1. \A j \in 1..(3 - 1) : j = 1 \/ j = 2
            OBVIOUS
        <3>2. P(3)
            BY <1>1, <2>3, <3>1
        <3> QED  BY <3>2
    <2>4. CASE "failing" \notin states /\ "stale" \notin states /\ "pending" \notin states /\ "excepted" \in states
        <3>1. \A j \in 1..(4 - 1) : j = 1 \/ j = 2 \/ j = 3
            OBVIOUS
        <3>2. P(4)
            BY <1>1, <2>4, <3>1
        <3> QED  BY <3>2
    <2>5. CASE states = {"valid"}
        <3>1. \A j \in 1..(5 - 1) : j = 1 \/ j = 2 \/ j = 3 \/ j = 4
            OBVIOUS
        <3>2. P(5)
            BY <1>1, <2>5, <3>1
        <3> QED  BY <3>2
    <2> QED
        BY <2>1, <2>2, <2>3, <2>4, <2>5
<1>3. P(least) /\ WorstOf(states) = Severity[least]
    BY <1>1, <1>2 DEF WorstOf
<1> HIDE DEF least
<1>4. least = 4 \/ least = 5
    BY <1>1, <1>3
<1>5. 1 \in 1..(least - 1) /\ 2 \in 1..(least - 1) /\ 3 \in 1..(least - 1)
    BY <1>4
<1> QED
    BY <1>1, <1>3, <1>5

---------------------------------------------------------------------------
\* The initial states and the steps.

LEMMA InitEvidence == Init => EvidenceInv
<1> SUFFICES ASSUME Init PROVE EvidenceInv
    OBVIOUS
<1>1. TreesInv
    BY DEF Init, TreesInv, TreeType, NativeType, Tree0
<1>2. RunsInv /\ EntriesInv /\ record = [slot \in Slots |-> record[slot]]
    BY DEF Init, RunsInv, EntriesInv
<1>3. RecordInv
    BY SlotsApart DEF Init, RecordInv
<1>4. SampleInv
    BY DEF Init, SampleInv
<1> QED
    BY <1>1, <1>2, <1>3, <1>4 DEF EvidenceInv

\* The parts that stand when the tree moves on and nothing else but the commits does.
LEMMA TreeMovesOn ==
    ASSUME EvidenceInv, TreesInv', Behind(tree, tree'),
           UNCHANGED <<runs, record, entries, sample, decided>>
    PROVE  EvidenceInv'
<1> USE DEF EvidenceInv
<1>0. tree \in TreeType /\ tree' \in TreeType
    BY DEF TreesInv
<1>1. RunsInv'
    <2> SUFFICES ASSUME NEW r \in runs PROVE Behind(r.tree, tree')
        BY DEF RunsInv
    <2>1. r.tree \in TreeType /\ Behind(r.tree, tree)
        BY DEF RunsInv
    <2> QED
        BY <1>0, <2>1, BehindIsTransitive
<1>2. RecordInv' /\ EntriesInv' /\ (record = [slot \in Slots |-> record[slot]])'
    BY DEF RecordInv, EntriesInv
<1>3. SampleInv'
    <2> SUFFICES ASSUME NEW t \in sample.pytree PROVE Behind(t, tree')
        BY DEF SampleInv
    <2>1. t \in TreeType /\ Behind(t, tree)
        BY DEF SampleInv
    <2> QED
        BY <1>0, <2>1, BehindIsTransitive
<1> QED
    BY <1>1, <1>2, <1>3

LEMMA EditKeeps ==
    ASSUME EvidenceInv, NEW parts, Edit(parts)
    PROVE  EvidenceInv'
<1>1. tree' \in TreeType /\ Behind(tree, tree')
    BY ChangedMovesOn DEF Edit, EvidenceInv, TreesInv
<1>2. TreesInv' /\ UNCHANGED <<runs, record, entries, sample, decided>>
    BY <1>1 DEF Edit, EvidenceInv, TreesInv
<1> QED
    BY <1>1, <1>2, TreeMovesOn

LEMMA CommitKeeps ==
    ASSUME EvidenceInv, Commit
    PROVE  EvidenceInv'
<1>1. tree' = tree /\ tree \in TreeType /\ Behind(tree, tree')
    BY BehindIsReflexive DEF Commit, EvidenceInv, TreesInv
<1>2. commits' \in Seq(TreeType) /\ commits' # <<>>
    BY DEF Commit, EvidenceInv, TreesInv
<1>3. UNCHANGED <<runs, record, entries, sample, decided>>
    BY DEF Commit
<1> QED
    BY <1>1, <1>2, <1>3, TreeMovesOn DEF TreesInv

LEMMA NextReleaseKeeps ==
    ASSUME EvidenceInv, NextRelease
    PROVE  EvidenceInv'
<1>1. tree' \in TreeType /\ Behind(tree, tree')
    BY ChangedMovesOn DEF NextRelease, EvidenceInv, TreesInv
<1>2. commits' \in Seq(TreeType) /\ commits' # <<>>
    BY <1>1 DEF NextRelease, EvidenceInv, TreesInv
<1>3. UNCHANGED <<runs, record, entries, sample, decided>>
    BY DEF NextRelease
<1> QED
    BY <1>1, <1>2, <1>3, TreeMovesOn DEF TreesInv

\* A run is of the present tree, so it is behind nothing, and every earlier
\* Python stage is behind it.
LEMMA MeasureKeeps ==
    ASSUME EvidenceInv, NEW slot \in CellSlots, NEW os \in Oses, NEW bin \in Binaries(os),
           NEW unmet, NEW population, Measure(slot, bin, unmet, population)
    PROVE  EvidenceInv'
<1> USE DEF EvidenceInv
<1> DEFINE new == [slot |-> slot, tree |-> tree, binary |-> bin, unmet |-> unmet, population |-> population]
<1>0. /\ runs' = runs \cup {new} /\ tree \in TreeType
      /\ UNCHANGED <<tree, commits, record, entries, sample, decided>>
    BY DEF Measure, TreesInv
<1>1. bin \in BinaryType /\ (slot \in Oses => bin.os = slot) /\ (Prompt => bin.native = tree.native)
    BY CommittedTrees DEF Measure
<1>2. new.slot = slot /\ new.tree = tree /\ new.binary = bin
    OBVIOUS
<1> HIDE DEF new
<1>3. TreesInv' /\ EntriesInv' /\ (record = [s \in Slots |-> record[s]])'
    BY <1>0 DEF TreesInv, EntriesInv
<1>4. RunsInv'
    BY <1>0, <1>1, <1>2, BehindIsReflexive DEF RunsInv
<1>5. RecordInv'
    BY <1>0 DEF RecordInv
<1>6. SampleInv'
    BY <1>0, <1>2 DEF SampleInv
<1> QED
    BY <1>3, <1>4, <1>5, <1>6

LEMMA AcceptKeeps ==
    ASSUME EvidenceInv, NEW run \in runs, Accept(run)
    PROVE  EvidenceInv'
<1> USE DEF EvidenceInv
<1> DEFINE entry == Entry(tree, run.binary, run, run.unmet, run.population)
<1>0. /\ record' = [record EXCEPT ![run.slot] = {entry}]
      /\ UNCHANGED <<tree, commits, runs, entries, sample, decided>>
      /\ Prompt => run.tree = tree
    BY DEF Accept, Recorded
<1>1. /\ IsEntry(entry)
      /\ entry.run = run /\ entry.binary = run.binary /\ entry.unmet = run.unmet
      /\ entry.evidence = tree /\ entry.waivers = {}
    BY DEF Entry, IsEntry
<1>2. run.slot \in CellSlots /\ run.slot \in Slots
    BY SlotsApart DEF RunsInv
<1> HIDE DEF entry
<1>3. TreesInv' /\ RunsInv' /\ EntriesInv' /\ SampleInv'
    BY <1>0 DEF TreesInv, RunsInv, EntriesInv, SampleInv
<1>4. record' = [slot \in Slots |-> IF slot = run.slot THEN {entry} ELSE record[slot]]
    BY <1>0
<1>5. (record = [slot \in Slots |-> record[slot]])'
    BY <1>4
<1>6. RecordInv'
    <2> SUFFICES ASSUME NEW slot \in CellSlots, NEW e \in record'[slot]
                 PROVE  /\ record'[slot] = {e}
                        /\ IsEntry(e)
                        /\ e.run \in runs' /\ e.run.slot = slot
                        /\ e.binary = e.run.binary /\ e.unmet = e.run.unmet
                        /\ Prompt => e.evidence = e.run.tree
                        /\ e.waivers # {} => [slot |-> slot, run |-> e.run, unmet |-> e.unmet] \in decided'
        BY DEF RecordInv
    <2>1. slot \in Slots
        BY SlotsApart
    <2>2. CASE slot = run.slot
        <3>1. record'[slot] = {entry} /\ e = entry
            BY <1>4, <2>1, <2>2
        <3> QED
            BY <1>0, <1>1, <2>2, <3>1
    <2>3. CASE slot # run.slot
        <3>1. record'[slot] = record[slot]
            BY <1>4, <2>1, <2>3
        <3>2. runs' = runs /\ decided' = decided
            BY <1>0
        <3> QED
            BY <3>1, <3>2 DEF RecordInv
    <2> QED
        BY <2>2, <2>3
<1> QED
    BY <1>3, <1>5, <1>6

LEMMA CheckContractsKeeps ==
    ASSUME EvidenceInv, CheckContracts
    PROVE  EvidenceInv'
<1> USE DEF EvidenceInv
<1> DEFINE checked == {Entry(tree, NoBin, "checked", {}, "full")}
<1>1. /\ record' = [slot \in Slots |-> IF slot \in {"L1", "L2"} THEN checked ELSE record[slot]]
      /\ UNCHANGED <<tree, commits, runs, entries, sample, decided>>
    BY DEF CheckContracts
<1> HIDE DEF checked
<1>2. TreesInv' /\ RunsInv' /\ EntriesInv' /\ SampleInv' /\ (record = [slot \in Slots |-> record[slot]])'
    BY <1>1 DEF TreesInv, RunsInv, EntriesInv, SampleInv
<1>3. \A slot \in CellSlots : record'[slot] = record[slot]
    BY <1>1, SlotsApart
<1>4. RecordInv'
    <2> SUFFICES ASSUME NEW slot \in CellSlots, NEW e \in record'[slot]
                 PROVE  /\ record'[slot] = {e}
                        /\ IsEntry(e)
                        /\ e.run \in runs' /\ e.run.slot = slot
                        /\ e.binary = e.run.binary /\ e.unmet = e.run.unmet
                        /\ Prompt => e.evidence = e.run.tree
                        /\ e.waivers # {} => [slot |-> slot, run |-> e.run, unmet |-> e.unmet] \in decided'
        BY DEF RecordInv
    <2>1. record'[slot] = record[slot] /\ runs' = runs /\ decided' = decided
        BY <1>1, <1>3
    <2> QED
        BY <2>1 DEF RecordInv
<1> QED
    BY <1>2, <1>4

LEMMA WaiveKeeps ==
    ASSUME EvidenceInv, NEW slot \in CellSlots, Waive(slot)
    PROVE  EvidenceInv'
<1> USE DEF EvidenceInv
<1>1. PICK e \in record[slot] :
        /\ record' = [record EXCEPT ![slot] = {[e EXCEPT !.waivers = {Quote(slot, e)}]}]
        /\ decided' = decided \cup {[slot |-> slot, run |-> e.run, unmet |-> e.unmet]}
    BY DEF Waive
<1>2. UNCHANGED <<tree, commits, runs, entries, sample>>
    BY DEF Waive
<1> DEFINE w == [e EXCEPT !.waivers = {Quote(slot, e)}]
<1>3. /\ IsEntry(e)
      /\ e.run \in runs /\ e.run.slot = slot /\ e.binary = e.run.binary /\ e.unmet = e.run.unmet
      /\ Prompt => e.evidence = e.run.tree
    BY DEF RecordInv
<1>4. IsEntry(w) /\ w.run = e.run /\ w.binary = e.binary /\ w.unmet = e.unmet /\ w.evidence = e.evidence
    BY <1>3 DEF IsEntry
<1>5. slot \in Slots
    BY SlotsApart
<1> HIDE DEF w
<1>6. record' = [s \in Slots |-> IF s = slot THEN {w} ELSE record[s]]
    BY <1>1 DEF w
<1>7. TreesInv' /\ RunsInv' /\ EntriesInv' /\ SampleInv' /\ (record = [s \in Slots |-> record[s]])'
    BY <1>2, <1>6 DEF TreesInv, RunsInv, EntriesInv, SampleInv
<1>8. RecordInv'
    <2> SUFFICES ASSUME NEW s \in CellSlots, NEW x \in record'[s]
                 PROVE  /\ record'[s] = {x}
                        /\ IsEntry(x)
                        /\ x.run \in runs' /\ x.run.slot = s
                        /\ x.binary = x.run.binary /\ x.unmet = x.run.unmet
                        /\ Prompt => x.evidence = x.run.tree
                        /\ x.waivers # {} => [slot |-> s, run |-> x.run, unmet |-> x.unmet] \in decided'
        BY DEF RecordInv
    <2>1. s \in Slots
        BY SlotsApart
    <2>2. CASE s = slot
        <3>1. record'[s] = {w} /\ x = w
            BY <1>6, <2>1, <2>2
        <3> QED
            BY <1>1, <1>2, <1>3, <1>4, <2>2, <3>1
    <2>3. CASE s # slot
        <3>1. record'[s] = record[s]
            BY <1>6, <2>1, <2>3
        <3> QED
            BY <1>1, <1>2, <3>1 DEF RecordInv
    <2> QED
        BY <2>2, <2>3
<1> QED
    BY <1>7, <1>8

\* A stage run on the recorded build is run again on another tree at the price
\* of its being clean.
LEMMA SampleStageKeeps ==
    ASSUME EvidenceInv, NEW stage \in Stages, NEW equivalent \in BOOLEAN, SampleStage(stage, equivalent)
    PROVE  EvidenceInv'
<1> USE DEF EvidenceInv
<1> DEFINE ran == Append(sample.stages[stage], equivalent)
<1>0. UNCHANGED <<tree, commits, runs, record, entries, decided>>
    BY DEF SampleStage
<1>1. /\ sample' = [stages |-> sample'.stages, tested |-> sample'.tested, pytree |-> sample'.pytree]
      /\ sample'.stages = [sample.stages EXCEPT ![stage] = ran]
      /\ sample'.tested = IF stage = "python" THEN sample.tested
                          ELSE [os \in DOMAIN sample.tested \cup {stage} |->
                                   IF os = stage THEN Binary(os, tree) ELSE sample.tested[os]]
      /\ sample'.pytree = IF stage = "python" THEN {tree} ELSE sample.pytree
    BY DEF SampleStage, SampleInv
<1>2. sample.stages \in [Stages -> Seq(BOOLEAN)] /\ sample.stages[stage] \in Seq(BOOLEAN)
      /\ ran \in Seq(BOOLEAN)
    BY DEF SampleInv
<1>3. sample.stages[stage] # <<>> => ~ Clean(ran) /\ ran # <<>>
    BY <1>2, CleanAppend
<1> HIDE DEF ran
<1>4. /\ sample'.stages \in [Stages -> Seq(BOOLEAN)]
      /\ sample'.stages[stage] = ran
      /\ \A st \in Stages \ {stage} : sample'.stages[st] = sample.stages[st]
    BY <1>1, <1>2
<1>5. TreesInv' /\ RunsInv' /\ (record = [slot \in Slots |-> record[slot]])'
    BY <1>0 DEF TreesInv, RunsInv
<1>6. RecordInv'
    <2> SUFFICES ASSUME NEW slot \in CellSlots, NEW e \in record'[slot]
                 PROVE  /\ record'[slot] = {e}
                        /\ IsEntry(e)
                        /\ e.run \in runs' /\ e.run.slot = slot
                        /\ e.binary = e.run.binary /\ e.unmet = e.run.unmet
                        /\ Prompt => e.evidence = e.run.tree
                        /\ e.waivers # {} => [slot |-> slot, run |-> e.run, unmet |-> e.unmet] \in decided'
        BY DEF RecordInv
    <2> QED
        BY <1>0 DEF RecordInv
<1>7. SampleInv'
    <2>1. ASSUME NEW t \in sample'.pytree
          PROVE  t \in TreeType /\ Behind(t, tree) /\ \A r \in runs : Behind(r.tree, t) \/ Behind(t, r.tree)
        <3>1. CASE t = tree
            BY <3>1, BehindIsReflexive DEF TreesInv, RunsInv
        <3>2. CASE t \in sample.pytree
            BY <3>2 DEF SampleInv
        <3> QED
            BY <1>1, <3>1, <3>2
    <2> QED
        BY <1>0, <1>1, <1>4, <2>1 DEF SampleInv
<1>8. EntriesInv'
    <2>1. ASSUME NEW e \in entries, e.kind = "sampled", NEW os \in DOMAIN e.bins
          PROVE  /\ sample'.stages[os] # <<>>
                 /\ Clean(sample'.stages[os]) =>
                        os \in DOMAIN sample'.tested /\ sample'.tested[os] = e.bins[os].to
        <3>1. /\ os \in Oses /\ os \in Stages /\ sample.stages[os] # <<>>
              /\ Clean(sample.stages[os]) => os \in DOMAIN sample.tested /\ sample.tested[os] = e.bins[os].to
            BY <2>1, SlotsApart DEF EntriesInv
        <3>2. CASE os = stage
            BY <1>3, <1>4, <3>1, <3>2
        <3>3. CASE os # stage
            <4>1. sample'.stages[os] = sample.stages[os]
                BY <1>4, <3>1, <3>3
            <4>2. os \in DOMAIN sample.tested =>
                    os \in DOMAIN sample'.tested /\ sample'.tested[os] = sample.tested[os]
                BY <1>1, <3>3
            <4> QED
                BY <3>1, <4>1, <4>2
        <3> QED
            BY <3>2, <3>3
    <2> QED
        BY <1>0, <2>1 DEF EntriesInv
<1> QED
    BY <1>5, <1>6, <1>7, <1>8

\* What an equivalence is recorded with: a text change maps the sources alone,
\* and a sampled one was tested clean on every build it names.
LEMMA RecordEquivalenceKeeps ==
    ASSUME EvidenceInv, NEW kind \in {"text", "sampled"}, NEW from \in Range(commits),
           NEW oses \in SUBSET Oses, RecordEquivalence(kind, from, oses)
    PROVE  EvidenceInv'
<1> USE DEF EvidenceInv
<1> DEFINE e == EquivalenceOf(kind, from, oses)
<1>0. entries' = {e} /\ UNCHANGED <<tree, commits, runs, record, sample, decided>>
    BY DEF RecordEquivalence
<1>1. /\ e.kind = kind /\ e.from = from /\ e.to = HeadTree /\ DOMAIN e.bins = oses
      /\ \A os \in oses : e.bins[os] = [from |-> Binary(os, e.from), to |-> Binary(os, e.to)]
    BY DEF EquivalenceOf
<1>2. /\ kind = "text" => TextOnly(from, HeadTree)
      /\ e.maps \subseteq Carryable(kind)
      /\ kind = "sampled" =>
            /\ \A os \in oses : os \in DOMAIN sample.tested /\ sample.tested[os] = Binary(os, HeadTree)
            /\ Honoured(e, sample)
    BY DEF RecordEquivalence
<1>3. from \in TreeType /\ HeadTree \in TreeType
    BY CommittedTrees
<1> HIDE DEF e
<1>4. ASSUME kind = "sampled", NEW os \in DOMAIN e.bins
      PROVE  /\ sample.stages[os] # <<>>
             /\ os \in DOMAIN sample.tested /\ sample.tested[os] = e.bins[os].to
    <2>1. Clean(sample.stages[os])
        BY <1>1, <1>2, <1>4 DEF Honoured, VouchesFor
    <2>2. <<TRUE>> # <<>>
        OBVIOUS
    <2>3. e.bins[os] = [from |-> Binary(os, e.from), to |-> Binary(os, HeadTree)]
        BY <1>1, <1>4
    <2> QED
        BY <1>1, <1>2, <1>4, <2>1, <2>2, <2>3 DEF Clean
<1>5. EntriesInv'
    <2> SUFFICES ASSUME NEW x \in entries'
                 PROVE  /\ x.from \in TreeType /\ x.to \in TreeType /\ DOMAIN x.bins \subseteq Oses
                        /\ \A os \in DOMAIN x.bins :
                               x.bins[os] = [from |-> Binary(os, x.from), to |-> Binary(os, x.to)]
                        /\ x.kind \in {"text", "sampled"}
                        /\ x.kind = "text" => TextOnly(x.from, x.to) /\ x.maps \subseteq {"native"}
                        /\ x.kind = "sampled" =>
                            \A os \in DOMAIN x.bins :
                                /\ sample.stages[os] # <<>>
                                /\ Clean(sample.stages[os]) =>
                                       os \in DOMAIN sample.tested /\ sample.tested[os] = x.bins[os].to
        BY <1>0 DEF EntriesInv
    <2>1. x = e
        BY <1>0
    <2>2. kind = "text" => e.maps \subseteq {"native"}
        BY <1>2 DEF Carryable
    <2> QED
        BY <1>1, <1>2, <1>3, <1>4, <2>1, <2>2
<1>6. TreesInv' /\ RunsInv' /\ SampleInv' /\ (record = [slot \in Slots |-> record[slot]])'
    BY <1>0 DEF TreesInv, RunsInv, SampleInv
<1>7. RecordInv'
    <2> SUFFICES ASSUME NEW slot \in CellSlots, NEW x \in record'[slot]
                 PROVE  /\ record'[slot] = {x}
                        /\ IsEntry(x)
                        /\ x.run \in runs' /\ x.run.slot = slot
                        /\ x.binary = x.run.binary /\ x.unmet = x.run.unmet
                        /\ Prompt => x.evidence = x.run.tree
                        /\ x.waivers # {} => [slot |-> slot, run |-> x.run, unmet |-> x.unmet] \in decided'
        BY DEF RecordInv
    <2> QED
        BY <1>0 DEF RecordInv
<1> QED
    BY <1>5, <1>6, <1>7

\* Freezing a release, and a step of nothing, leave all the invariant reads.
LEMMA NothingReadKeeps ==
    ASSUME EvidenceInv, UNCHANGED <<tree, commits, runs, record, entries, sample, decided>>
    PROVE  EvidenceInv'
<1>1. TreesInv /\ tree \in TreeType
    BY DEF EvidenceInv, TreesInv
<1> QED
    BY <1>1, BehindIsReflexive, TreeMovesOn DEF EvidenceInv, TreesInv

LEMMA NextEvidence == EvidenceInv /\ [Next]_vars => EvidenceInv'
<1> SUFFICES ASSUME EvidenceInv, [Next]_vars PROVE EvidenceInv'
    OBVIOUS
<1>1. CASE \E parts \in Edits : Edit(parts)
    BY <1>1, EditKeeps
<1>2. CASE Commit
    BY <1>2, CommitKeeps
<1>3. CASE NextRelease
    BY <1>3, NextReleaseKeeps
<1>4. CASE \E slot \in CellSlots, os \in Oses : \E bin \in Binaries(os), unmet \in Verdicts,
              population \in {"full", "subset"} : Measure(slot, bin, unmet, population)
    BY <1>4, MeasureKeeps
<1>5. CASE \E run \in runs : Accept(run)
    BY <1>5, AcceptKeeps
<1>6. CASE CheckContracts
    BY <1>6, CheckContractsKeeps
<1>7. CASE \E slot \in CellSlots : Waive(slot)
    BY <1>7, WaiveKeeps
<1>8. CASE \E stage \in Stages, equivalent \in BOOLEAN : SampleStage(stage, equivalent)
    BY <1>8, SampleStageKeeps
<1>9. CASE \E kind \in {"text", "sampled"}, from \in Range(commits), oses \in SUBSET Oses \ {{}} :
              RecordEquivalence(kind, from, oses)
    BY <1>9, RecordEquivalenceKeeps
<1>10. CASE \E r \in DOMAIN releases : ReleaseRecord(r)
    BY <1>10, NothingReadKeeps DEF ReleaseRecord
<1>11. CASE UNCHANGED vars
    BY <1>11, NothingReadKeeps DEF vars
<1> QED
    BY <1>1, <1>2, <1>3, <1>4, <1>5, <1>6, <1>7, <1>8, <1>9, <1>10, <1>11 DEF Next

\* The inductive invariant holds of every behaviour: what was measured, recorded
\* and vouched for stays tied to the trees and binaries it was done with.
THEOREM EvidenceInvariant == Spec => []EvidenceInv
<1>1. Init => EvidenceInv
    BY InitEvidence
<1>2. EvidenceInv /\ [Next]_vars => EvidenceInv'
    BY NextEvidence
<1> QED
    BY <1>1, <1>2, PTL DEF Spec

---------------------------------------------------------------------------
\* What it takes to count.

GivenBinary(given) == \A os \in DOMAIN given : os \in Oses /\ given[os] \in BinaryType /\ given[os].os = os

LEMMA GivenAreBinaries ==
    ASSUME EvidenceInv, NEW given \in Given
    PROVE  GivenBinary(given)
<1>1. PICK oses \in SUBSET Oses : /\ given \in [oses -> UNION {Binaries(os) : os \in Oses}]
                                  /\ \A os \in oses : given[os].os = os
    BY DEF Given
<1>2. ASSUME NEW os \in oses PROVE given[os] \in BinaryType
    BY <1>1, CommittedTrees DEF EvidenceInv
<1> QED
    BY <1>1, <1>2 DEF GivenBinary

CarriedBy(entry, bin) == \E e \in HonouredEntries : Carries(e, entry, tree, bin)

\* An entry that counts has neither drifted nor lost its binary, and met its bar
\* or was excepted.
LEMMA CountedEntry ==
    ASSUME NEW slot, NEW entry, NEW given, EntryState(slot, entry, given) \in {"valid", "excepted"}
    PROVE  /\ \A k \in DependsOn(slot) :
                 entry.evidence[k] # tree[k] =>
                     k \in SampledCarries /\ CarriedBy(entry, BinaryFor(slot, entry, given))
           /\ BinaryFor(slot, entry, given) \in {NoBin, entry.binary}
                 \/ CarriedBy(entry, BinaryFor(slot, entry, given))
           /\ entry.unmet = {} \/ WaiverHolds(slot, entry)
<1> DEFINE bin == BinaryFor(slot, entry, given)
           carried == CarriedBy(entry, bin)
           drifted == {k \in DependsOn(slot) : entry.evidence[k] # tree[k]}
                          \ (IF carried THEN SampledCarries ELSE {})
<1>1. EntryState(slot, entry, given) =
          IF drifted # {} \/ (bin # NoBin /\ entry.binary # bin /\ ~carried) THEN "stale"
          ELSE IF entry.unmet = {} THEN "valid"
          ELSE IF WaiverHolds(slot, entry) THEN "excepted" ELSE "failing"
    BY DEF EntryState, CarriedBy
<1>2. drifted = {} /\ ~(bin # NoBin /\ entry.binary # bin /\ ~carried)
      /\ (entry.unmet = {} \/ WaiverHolds(slot, entry))
    <2> HIDE DEF drifted, bin, carried
    <2> QED
        BY <1>1
<1>3. \A k \in DependsOn(slot) : entry.evidence[k] # tree[k] => k \in SampledCarries /\ carried
    <2> HIDE DEF bin, carried
    <2> QED
        BY <1>2
<1> QED
    BY <1>2, <1>3

LEMMA CountedSlot ==
    ASSUME EvidenceInv, NEW slot \in CellSlots, NEW given, SlotState(slot, given) \in {"valid", "excepted"}
    PROVE  \E e \in record[slot] : record[slot] = {e} /\ EntryState(slot, e, given) \in {"valid", "excepted"}
<1> DEFINE e == CHOOSE x \in record[slot] : TRUE
<1>1. record[slot] # {}
    BY DEF SlotState
<1>2. e \in record[slot]
    BY <1>1
<1>3. record[slot] = {e}
    BY <1>2 DEF EvidenceInv, RecordInv
<1>4. SlotState(slot, given) = EntryState(slot, e, given)
    BY <1>1 DEF SlotState
<1> QED
    BY <1>2, <1>3, <1>4

\* What counts was accepted: it met the bar, or the owner decided on that run.
LEMMA CountedIsAccepted ==
    ASSUME EvidenceInv, NEW slot \in CellSlots, NEW e \in record[slot],
           e.unmet = {} \/ WaiverHolds(slot, e)
    PROVE  Accepted(e.run) /\ "safety" \notin e.run.unmet
<1>1. /\ e.run.slot = slot /\ e.unmet = e.run.unmet
      /\ e.waivers # {} => [slot |-> slot, run |-> e.run, unmet |-> e.unmet] \in decided
    BY DEF EvidenceInv, RecordInv
<1>2. CASE e.unmet = {}
    BY <1>1, <1>2 DEF Accepted
<1>3. CASE WaiverHolds(slot, e)
    <2>1. e.waivers # {} /\ e.unmet \subseteq Waivable
        BY <1>3 DEF WaiverHolds
    <2>2. "safety" \notin e.unmet
        BY <2>1 DEF Waivable
    <2> QED
        BY <1>1, <2>1, <2>2 DEF Accepted
<1> QED
    BY <1>2, <1>3

LEMMA FiveStates ==
    ASSUME NEW slot, NEW given
    PROVE  SlotState(slot, given) \in {"failing", "stale", "pending", "excepted", "valid"}
<1>1. ASSUME NEW e PROVE EntryState(slot, e, given) \in {"failing", "stale", "excepted", "valid"}
    BY DEF EntryState
<1> QED
    BY <1>1 DEF SlotState

LEMMA EarnedSupport ==
    ASSUME EvidenceInv
    PROVE  SupportedIsEarned
<1> SUFFICES ASSUME NEW given \in Given, Derived(given) = "supported", NEW os \in Oses
             PROVE  \E e \in record[os] : Accepted(e.run) /\ "safety" \notin e.run.unmet
    BY DEF SupportedIsEarned
<1>1. \A l \in Requires("supported") : LayerState(l, given) \in {"valid", "excepted"}
    BY DEF Derived
<1>2. LayerState("L4", given) \in {"valid", "excepted"}
    BY <1>1 DEF Requires
<1> DEFINE states == {SlotState(slot, given) : slot \in {s \in Slots : LayerOf(s) = "L4"}}
<1>3. WorstOf(states) \in {"valid", "excepted"}
    BY <1>2 DEF LayerState
<1>4. states \subseteq {"failing", "stale", "pending", "excepted", "valid"}
    BY FiveStates
<1>5. SlotState(os, given) \in states
    BY SlotsApart
<1> HIDE DEF states
<1>6. SlotState(os, given) \in {"valid", "excepted"}
    BY <1>3, <1>4, <1>5, WorstOfCounts
<1>7. PICK e \in record[os] : EntryState(os, e, given) \in {"valid", "excepted"}
    BY <1>6, CountedSlot, SlotsApart
<1>8. e.unmet = {} \/ WaiverHolds(os, e)
    BY <1>7, CountedEntry
<1> QED
    BY <1>7, <1>8, CountedIsAccepted, SlotsApart

---------------------------------------------------------------------------
\* A binary that counts.

LEMMA CountedBinary ==
    ASSUME EvidenceInv, Prompt, NEW given \in Given, NEW os \in DOMAIN given, Holds(os, given)
    PROVE  /\ given[os].native = tree.native
           /\ \E run \in runs : /\ run.slot = os /\ Accepted(run)
                                /\ \/ run.binary.native.code = given[os].native.code
                                   \/ Sampled(os, given[os])
<1> DEFINE bin == given[os]
<1>1. os \in Oses /\ bin \in BinaryType /\ bin.os = os /\ bin # NoBin
    BY GivenAreBinaries, BinariesAreBinaries DEF GivenBinary
<1>2. os \in CellSlots /\ PinsBinary(os)
    BY <1>1, SlotsApart
<1>3. PICK e \in record[os] : EntryState(os, e, given) \in {"valid", "excepted"}
    BY <1>2, CountedSlot DEF Holds
<1>4. BinaryFor(os, e, given) = bin
    <2>1. given # <<>>
        <3>1. DOMAIN <<>> = {}
            OBVIOUS
        <3> QED
            BY <3>1
    <2> QED
        BY <1>1, <1>2, <2>1 DEF BinaryFor
<1> HIDE DEF bin
<1>5. /\ e.evidence["native"] # tree["native"] => CarriedBy(e, bin)
      /\ e.binary = bin \/ CarriedBy(e, bin)
      /\ e.unmet = {} \/ WaiverHolds(os, e)
    <2>1. "native" \in DependsOn(os)
        BY DEF DependsOn
    <2> QED
        BY <1>1, <1>3, <1>4, <2>1, CountedEntry
<1>6. /\ e.run \in runs /\ e.run.slot = os /\ e.binary = e.run.binary /\ e.evidence = e.run.tree
      /\ e.run.binary.native = e.run.tree.native /\ Accepted(e.run) /\ e.binary # NoBin
    <2>1. /\ e.run \in runs /\ e.run.slot = os /\ e.binary = e.run.binary
          /\ Prompt => e.evidence = e.run.tree
        BY <1>2, <1>3 DEF EvidenceInv, RecordInv
    <2>2. e.run.binary \in BinaryType /\ (Prompt => e.run.binary.native = e.run.tree.native)
        BY <2>1 DEF EvidenceInv, RunsInv
    <2>3. Accepted(e.run)
        BY <1>2, <1>3, <1>5, CountedIsAccepted
    <2> QED
        BY <2>1, <2>2, <2>3, BinariesAreBinaries
<1>7. CASE ~CarriedBy(e, bin)
    BY <1>5, <1>6, <1>7 DEF bin
<1>8. CASE CarriedBy(e, bin)
    <2>1. PICK x \in HonouredEntries : Carries(x, e, tree, bin)
        BY <1>8 DEF CarriedBy
    <2>2. x.from.native = e.evidence.native /\ x.to.native = tree.native
        BY <2>1 DEF Carries, SampledCarries, Maps
    <2>3. PICK o \in DOMAIN x.bins : x.bins[o] = [from |-> e.binary, to |-> bin]
        BY <1>1, <1>6, <2>1 DEF Carries
    <2>4. /\ x \in entries /\ Honoured(x, sample)
          /\ x.bins[o] = [from |-> Binary(o, x.from), to |-> Binary(o, x.to)]
        BY <2>1 DEF HonouredEntries, EvidenceInv, EntriesInv
    <2>5. bin = Binary(o, x.to)
        BY <2>3, <2>4
    <2>6. o = os /\ bin.native = tree.native
        BY <1>1, <2>2, <2>5 DEF Binary
    <2>7. CASE x.kind = "text"
        <3>1. x.from.native.code = x.to.native.code
            BY <2>4, <2>7 DEF EvidenceInv, EntriesInv, TextOnly
        <3> QED
            BY <1>6, <2>2, <2>6, <3>1 DEF bin
    <2>8. CASE x.kind = "sampled"
        <3>1. Clean(sample.stages[os])
            BY <2>4, <2>6, <2>8 DEF Honoured, VouchesFor
        <3>2. os \in DOMAIN sample.tested /\ sample.tested[os] = x.bins[os].to
            BY <2>4, <2>6, <2>8, <3>1 DEF EvidenceInv, EntriesInv
        <3>3. x.bins[os].to = bin
            BY <2>3, <2>6
        <3> QED
            BY <1>6, <2>6, <3>1, <3>2, <3>3 DEF Sampled, Clean, bin
    <2> QED
        BY <2>4, <2>7, <2>8 DEF EvidenceInv, EntriesInv
<1> QED
    BY <1>7, <1>8

---------------------------------------------------------------------------
\* Python code that moved.

LEMMA NeverAhead ==
    ASSUME NEW r \in TreeType, NEW t \in TreeType, NEW u \in TreeType,
           Behind(r, u), Behind(t, u), Behind(r, t) \/ Behind(t, r),
           t.bundle = u.bundle \/ r.bundle = u.bundle,
           t.python_core = u.python_core \/ r.python_core = u.python_core,
           \/ r.python_core # u.python_core /\ t.python_core = u.python_core
           \/ r.bundle # u.bundle /\ t.bundle = u.bundle
    PROVE  t.bundle = u.bundle /\ t.python_core = u.python_core
<1>1. \A s \in TreeType : /\ s.bundle \in [kept : Nat, py : Nat] /\ s.python_core \in Nat
                          /\ s.bundle.kept \in Nat /\ s.bundle.py \in Nat
    BY DEF TreeType
<1>2. \A b, c \in [kept : Nat, py : Nat] : b.kept = c.kept /\ b.py = c.py => b = c
    OBVIOUS
<1>3. r.bundle # u.bundle => r.bundle.kept < u.bundle.kept \/ r.bundle.py < u.bundle.py
    BY <1>1, <1>2 DEF Behind
<1>4. Behind(r, t)
    BY <1>1, <1>3 DEF Behind
<1>5. r.bundle = u.bundle => t.bundle.kept = u.bundle.kept /\ t.bundle.py = u.bundle.py
    BY <1>1, <1>4 DEF Behind
<1>6. r.python_core = u.python_core => t.python_core = u.python_core
    BY <1>1, <1>4 DEF Behind
<1> QED
    BY <1>1, <1>2, <1>5, <1>6

LEMMA CountedPython ==
    ASSUME EvidenceInv, Prompt, NEW slot \in CellSlots, NEW e \in record[slot], Holds(slot, <<>>),
           e.run.tree.python_core # tree.python_core \/ e.run.tree.bundle # tree.bundle
    PROVE  /\ sample.stages["python"] = <<TRUE>>
           /\ \E t \in sample.pytree : t.bundle = tree.bundle /\ t.python_core = tree.python_core
<1> DEFINE r == e.run.tree
<1>1. EntryState(slot, e, <<>>) \in {"valid", "excepted"}
    BY CountedSlot DEF Holds
<1>2. e.run \in runs /\ e.evidence = r /\ r \in TreeType /\ Behind(r, tree) /\ tree \in TreeType
    BY DEF EvidenceInv, RecordInv, RunsInv, TreesInv
<1>3. BinaryFor(slot, e, <<>>) = NoBin
    BY DEF BinaryFor
<1>4. CarriedBy(e, NoBin)
    <2>1. {"python_core", "bundle"} \subseteq DependsOn(slot)
        BY DEF DependsOn
    <2>2. e.evidence["python_core"] # tree["python_core"] \/ e.evidence["bundle"] # tree["bundle"]
        BY <1>2
    <2> QED
        BY <1>1, <1>3, <2>1, <2>2, CountedEntry
<1> HIDE DEF r
<1>5. PICK x \in HonouredEntries : Carries(x, e, tree, NoBin)
    BY <1>4 DEF CarriedBy
<1>6. \A k \in {"python_core", "bundle"} : Maps(x, k, r, tree)
    BY <1>2, <1>5 DEF Carries, SampledCarries
<1>7. /\ r.python_core # tree.python_core => "python_core" \in x.maps /\ x.to.python_core = tree.python_core
      /\ r.bundle # tree.bundle =>
            "bundle" \in x.maps /\ x.from.bundle = r.bundle /\ x.to.bundle = tree.bundle
    BY <1>6 DEF Maps
<1>8. x \in entries /\ Honoured(x, sample) /\ x.kind = "sampled"
    <2>1. x \in entries /\ Honoured(x, sample)
        BY <1>5 DEF HonouredEntries
    <2>2. x.kind \in {"text", "sampled"} /\ (x.kind = "text" => x.maps \subseteq {"native"})
        BY <2>1 DEF EvidenceInv, EntriesInv
    <2> QED
        BY <1>7, <2>1, <2>2 DEF r
<1>9. NeedsPython(x)
    <2>1. CASE r.python_core # tree.python_core
        BY <1>7, <2>1 DEF NeedsPython
    <2>2. CASE r.bundle # tree.bundle
        <3>1. "bundle" \in x.maps /\ x.from.bundle = r.bundle /\ x.to.bundle = tree.bundle
              /\ r.bundle.kept = tree.bundle.kept
            BY <1>7, <1>8, <2>2 DEF Honoured
        <3>2. r.bundle \in [kept : Nat, py : Nat] /\ tree.bundle \in [kept : Nat, py : Nat]
            BY <1>2 DEF TreeType
        <3>3. r.bundle.py # tree.bundle.py
            BY <2>2, <3>1, <3>2
        <3> QED
            BY <3>1, <3>3 DEF NeedsPython
    <2> QED
        BY <2>1, <2>2 DEF r
<1>10. PICK t \in sample.pytree : \A k \in x.maps \ {"native"} : t[k] = x.to[k]
    BY <1>8, <1>9 DEF Honoured
<1>11. sample.stages["python"] = <<TRUE>>
    BY <1>8, <1>9 DEF Honoured, VouchesFor, Clean
<1>12. /\ r.python_core # tree.python_core => t.python_core = tree.python_core
       /\ r.bundle # tree.bundle => t.bundle = tree.bundle
    BY <1>7, <1>10
<1>13. t \in TreeType /\ Behind(t, tree) /\ (Behind(r, t) \/ Behind(t, r))
    BY <1>2 DEF EvidenceInv, SampleInv, r
<1>14. t.bundle = tree.bundle /\ t.python_core = tree.python_core
    BY <1>2, <1>12, <1>13, NeverAhead DEF r
<1> QED
    BY <1>11, <1>14

---------------------------------------------------------------------------
\* Under the documented procedure, a run is made with a binary of the present
\* tree and recorded before the tree moves: then no cell of the gate counts for
\* a binary nobody measured, or for Python code nobody ran, whatever is edited,
\* recorded, sampled and carried over in between (gate.py:448-520).
THEOREM CountedIsChecked == ASSUME Prompt PROVE Spec => []CountedWasChecked
<1>1. ASSUME EvidenceInv PROVE CountedWasChecked
    <2>1. ValidBinaryWasMeasured
        BY <1>1, CountedBinary DEF ValidBinaryWasMeasured
    <2>2. PythonWasChecked
        BY <1>1, CountedPython DEF PythonWasChecked
    <2> QED
        BY <2>1, <2>2 DEF CountedWasChecked
<1> QED
    BY <1>1, EvidenceInvariant, PTL

\* `supported` is never derived without an entry of every operating system that
\* met its bar, or whose very run the owner excepted, and never over a missed
\* safety threshold (gate.py:937-941, 983-1000): however runs are made.
THEOREM SupportIsEarned == Spec => []SupportedIsEarned
<1>1. EvidenceInv => SupportedIsEarned
    BY EarnedSupport
<1> QED
    BY <1>1, EvidenceInvariant, PTL
=============================================================================
