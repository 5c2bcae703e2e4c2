---------------------------- MODULE EvidenceTree ----------------------------
(* The values knaif/evalsuite/gate.py and cli.py (cmd_equivalence) compare:  *)
(* fingerprints of the checkout, packaged binaries, acceptance entries, and  *)
(* equivalences between a measured build and a rebuild of it.                *)
(*                                                                           *)
(* A fingerprint is a record: native [code, text], bundle [kept, py],        *)
(* python_core, contracts [kept, backends], corpus.  The parts of a          *)
(* value are what the rules about a change tell apart: text of the native    *)
(* sources, Python modules of the bundle, the backend manifests.  corpus     *)
(* stands for every fingerprint nothing may carry (corpus, safety corpus,    *)
(* verifier, grading, settings, policy, model).  A binary is [os, native].   *)
EXTENDS Naturals, FiniteSets, Sequences, SequencesExt, Functions

CONSTANTS
    Oses,       \* operating systems with a full entry in the matrix
    NoBin       \* the record pins no binary

\* An operating system is no layer and no stage, and no binary is none.
ASSUME TreeAssumption ==
    /\ Oses \cap {"L1", "L2", "L3", "python"} = {}
    /\ NoBin \notin [os : Oses, native : [code : Nat, text : Nat]]

CellLayers == {"L3", "L4"}
Slots == {"L1", "L2", "L3"} \cup Oses
LayerOf(slot) == IF slot \in Oses THEN "L4" ELSE slot
CellSlots == {"L3"} \cup Oses

DependsOn(slot) ==
    {"contracts", "python_core", "bundle", "native"}
        \cup (IF LayerOf(slot) \in CellLayers THEN {"corpus"} ELSE {})

PinsBinary(slot) == LayerOf(slot) \in CellLayers

Moved(old, new) == {k \in DOMAIN new : old[k] # new[k]}

---------------------------------------------------------------------------
\* Which changes an equivalence may describe.

TextOnly(old, new) == old.native.code = new.native.code /\ old.native # new.native

BundleChangeAllowed(old, new, pythonStage) ==
    /\ old.bundle.kept = new.bundle.kept
    /\ old.bundle.py # new.bundle.py => pythonStage

ContractsChangeAllowed(old, new) ==
    old.contracts.kept = new.contracts.kept /\ old.contracts # new.contracts

SampledCarries == {"native", "bundle", "python_core", "contracts"}

Carryable(kind) == IF kind = "sampled" THEN SampledCarries ELSE {"native"}

---------------------------------------------------------------------------
\* A sample run folder: the outcomes of each stage in the order it was run,
\* the binaries tested, the tree the Python stage recorded, and whether the
\* rules were committed before the results.

Stages == Oses \cup {"python"}

\* Mutant: the last ending of a stage decides.
CleanAtLast(outcomes) == outcomes # <<>> /\ Last(outcomes)

\* sample_run_problems: one START, one DONE and one verdict, equivalent; a
\* second run of a stage in one folder is no clean run.
Clean(outcomes) == outcomes = <<TRUE>>

VouchesFor(sample, oses, pythonStage) ==
    \A st \in oses \cup (IF pythonStage THEN {"python"} ELSE {}) : Clean(sample.stages[st])

---------------------------------------------------------------------------
\* Equivalences: [kind, from, to (the committed trees), maps (fingerprints it
\* maps), bins (os -> [from, to])].

NeedsPython(e) ==
    \/ e.maps \cap {"python_core", "contracts"} # {}
    \/ "bundle" \in e.maps /\ e.from.bundle.py # e.to.bundle.py

\* load_equivalences: a sampled entry is checked again at every read.
Honoured(e, sample) ==
    e.kind = "sampled" =>
        /\ "bundle" \in e.maps => e.from.bundle.kept = e.to.bundle.kept
        /\ "contracts" \in e.maps => ContractsChangeAllowed(e.from, e.to)
        /\ VouchesFor(sample, DOMAIN e.bins, NeedsPython(e))
        /\ NeedsPython(e) =>
            \E t \in sample.pytree : \A k \in e.maps \ {"native"} : t[k] = e.to[k]

Maps(e, key, recorded, current) ==
    recorded[key] # current[key] =>
        key \in e.maps /\ e.from[key] = recorded[key] /\ e.to[key] = current[key]

\* Mutant: only the sources are looked at.
CarriesSource(e, entry, current, bin) ==
    /\ entry.evidence.native # current.native
    /\ \A k \in SampledCarries : Maps(e, k, entry.evidence, current)

\* _carrying_entry: one entry maps the recorded sources and the recorded binary
\* to the present ones.
Carries(e, entry, current, bin) ==
    /\ entry.evidence.native # current.native
    /\ \A k \in SampledCarries : Maps(e, k, entry.evidence, current)
    /\ bin # NoBin /\ entry.binary # NoBin =>
        \E os \in DOMAIN e.bins : e.bins[os] = [from |-> entry.binary, to |-> bin]

---------------------------------------------------------------------------
\* Verdicts.

\* Mutant: the owner may except anything.
WaivableAll == {"aggregate", "slice", "safety"}

\* WAIVABLE_KINDS: an owner exception is for quality thresholds.
Waivable == {"aggregate", "slice"}

\* An owner exception quotes the verdict it answers: cell, run and evidence.
Quote(slot, entry) == [cell |-> slot, run |-> entry.run, evidence |-> entry.evidence,
                       waives |-> entry.unmet]

WaiverHolds(slot, entry) ==
    /\ entry.unmet # {} /\ entry.unmet \subseteq Waivable
    /\ entry.waivers = {Quote(slot, entry)}

\* The least of the states decides for the layer.
Severity == <<"failing", "stale", "pending", "excepted", "valid">>

WorstOf(states) == Severity[CHOOSE i \in DOMAIN Severity :
                                /\ Severity[i] \in states
                                /\ \A j \in 1..(i - 1) : Severity[j] \notin states]
=============================================================================
