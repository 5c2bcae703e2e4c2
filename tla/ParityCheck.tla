---------------------------- MODULE ParityCheck ----------------------------
(* The comparison of the two runtimes (scripts/parity_check.py) and the      *)
(* record the gate makes of it (evalsuite/gate.py record_from_parity_run).   *)
(* Each runtime is given the same utterances and answers with a plan, the    *)
(* commands it rendered before it stopped, and how it ended; the harness     *)
(* sees only what it printed.  In command mode a row is two calls of the     *)
(* CLIs; in plan mode it may also be a line of two streams that two reader   *)
(* threads fill while the rows are compared.                                 *)
(*                                                                           *)
(* A path is [abs, dir, name], dir a sequence of folders.  A command is      *)
(* [src, opts, out].  A step is [tool, args].  An answer is                  *)
(* [plan, cmds, end], where end is "done", "asks", "refuses", "fails",       *)
(* "unbuilt" (native lacks the tool) or "previews" (Python's dry run stops   *)
(* at a confirmation that native does not have).                             *)
EXTENDS Naturals, Sequences, SequencesExt, FiniteSets, TLC

CONSTANTS
    Rows,           \* the corpus: a sequence of [quiet]; a quiet row's skill renders no command line
    Declared,       \* tool -> its declared defaults
    Cwd,            \* the folder both runtimes ran in
    NativeAnswers,  \* bound: row -> what native may answer
    PythonAnswers,  \* bound: row -> what Python may answer
    Calls,          \* bound: how the harness is called
    Retired,        \* a labelled run of the retired bar, as it lies on disk
    NoRun

\* What an answer is made of, and how it may end.
Ends == {"done", "asks", "refuses", "fails", "unbuilt", "previews"}

IsAnswer(a) ==
    /\ a.end \in Ends
    /\ a.cmds \in Seq(Range(a.cmds)) /\ a.plan \in Seq(Range(a.plan))
    /\ \A i \in DOMAIN a.plan : DOMAIN a.plan[i] = {"tool", "args"}

\* Native has no confirmation to stop at, and a quiet skill no command line; a
\* run of the retired bar says nothing about port bugs.
ASSUME ParityAssumption ==
    /\ Len(Rows) \in Nat
    /\ \A i \in 1..Len(Rows) :
        /\ \A a \in NativeAnswers[i] : IsAnswer(a) /\ a.end # "previews"
        /\ \A a \in PythonAnswers[i] : IsAnswer(a)
        /\ Rows[i].quiet => \A a \in NativeAnswers[i] \cup PythonAnswers[i] : a.cmds = <<>>
    /\ Calls \subseteq [mode : {"command", "plan"}, batch : BOOLEAN, older : BOOLEAN, llama : BOOLEAN,
                         weights : {"same", "other", "unregistered"},
                         bound : [of : Nat, in : Nat], label : BOOLEAN]
    /\ ~Retired.judged

VARIABLES
    call,       \* the call under way, or NoRun
    results,    \* its rows so far
    stream,     \* plan --batch: side -> [said, pipe, got, alive, done]
    report,     \* the run directory a labelled call has left, or NoRun
    record      \* what the gate holds for L3, or NoRun

parityVars == <<call, results, stream, report, record>>

Sides == {"native", "python"}

Silent == [s \in Sides |-> [said |-> <<>>, pipe |-> <<>>, got |-> <<>>, alive |-> FALSE, done |-> TRUE]]

---------------------------------------------------------------------------
\* What stands for the same thing on both sides: a path, wherever it is
\* written from; a step with its defaults filled in.

PathKeys == {"input", "output"}

Resolved(p) == [dir |-> IF p.abs THEN p.dir ELSE Cwd \o p.dir, name |-> p.name]

CanonCommands(cmds) ==
    [i \in DOMAIN cmds |-> [cmds[i] EXCEPT !.src = Resolved(@), !.out = Resolved(@)]]

CanonStep(s) ==
    [s EXCEPT !.args = [k \in DOMAIN @ |-> IF k \in PathKeys THEN Resolved(@[k]) ELSE @[k]]]

CanonPlan(p) == [i \in DOMAIN p |-> CanonStep(p[i])]

WithDefaults(s) ==
    LET defaults == Declared[s.tool]
    IN  [s EXCEPT !.args = [k \in DOMAIN s.args \cup DOMAIN defaults |->
                               IF k \in DOMAIN s.args THEN s.args[k] ELSE defaults[k]]]

\* The relation before 2026-09-10: shared arguments agree and the others name no file.
SharedArguments(s) == [s EXCEPT !.args = [k \in DOMAIN @ \cap PathKeys |-> @[k]]]

PlanEquivOnShared(p, q) ==
    /\ Len(p) = Len(q)
    /\ \A i \in DOMAIN p : /\ p[i].tool = q[i].tool
                           /\ CanonStep(SharedArguments(p[i])) = CanonStep(SharedArguments(q[i]))

PlanEquivModuloDefaults(p, q) ==
    /\ Len(p) = Len(q)
    /\ \A i \in DOMAIN p : CanonStep(WithDefaults(p[i])) = CanonStep(WithDefaults(q[i]))

PlansEquivalent(p, q) == CanonPlan(p) = CanonPlan(q) \/ PlanEquivModuloDefaults(p, q)

---------------------------------------------------------------------------
\* What an answer prints under --dry-run.  An older native build dumps no plan
\* and says on stdout what it has not built; today's says it on stderr.

Tells == [done |-> "none", asks |-> "clarify", refuses |-> "reject", fails |-> "none",
          unbuilt |-> "none", previews |-> "nothing"]

Written(a, quiet, older) ==
    [cmds |-> IF quiet THEN <<>> ELSE a.cmds,
     notice |-> IF older /\ a.end = "unbuilt" THEN "not_implemented" ELSE Tells[a.end],
     plan |-> IF older THEN <<>> ELSE a.plan,
     failed |-> a.end \in {"fails", "unbuilt"}]

\* A run that exited non-zero with no other outcome failed.
Failed(kind, w) == IF kind = "none" /\ w.failed THEN "error" ELSE kind

Shown(kind, cmds, w, partial) ==
    [kind |-> kind, cmds |-> cmds, plan |-> <<>>, dumped |-> w.plan, partial |-> partial]

ParseNative(w) ==
    LET kind == IF w.cmds # <<>> THEN "commands" ELSE w.notice
    IN  Shown(Failed(kind, w), w.cmds, w, FALSE)

ParsePython(w) ==
    LET kind == IF w.cmds # <<>> THEN "commands"
                ELSE IF w.notice = "nothing" THEN "rendered-none" ELSE w.notice
    IN  Shown(Failed(kind, w), w.cmds, w, w.cmds # <<>> /\ w.notice = "nothing")

Controls == {"clarify", "reject"}

\* The envelope `plan` prints: an error is an empty plan.
ParsePlan(p) ==
    [kind |-> IF p = <<>> THEN "none" ELSE IF p[1].tool \in Controls THEN p[1].tool ELSE "plan",
     cmds |-> <<>>, plan |-> p, dumped |-> <<>>, partial |-> FALSE]

---------------------------------------------------------------------------
\* One row.

Key(o) ==
    CASE o.kind = "commands" -> <<o.kind, CanonCommands(o.cmds)>>
      [] o.kind = "plan"     -> <<o.kind, CanonPlan(o.plan)>>
      [] OTHER               -> <<o.kind, <<>>>>

SameKey(n, p) == n.kind = p.kind /\ Key(n) = Key(p)

BothDumped(n, p) == n.dumped # <<>> /\ p.dumped # <<>>

SamePlan(n, p) == BothDumped(n, p) /\ PlansEquivalent(n.dumped, p.dumped)

\* The commands of the steps both sides rendered.
SameStart(n, p) ==
    LET both == 1..(IF Len(n.cmds) < Len(p.cmds) THEN Len(n.cmds) ELSE Len(p.cmds))
    IN  \A i \in both : CanonCommands(n.cmds)[i] = CanonCommands(p.cmds)[i]

\* One side rendered part of its plan only.
StatusOfPart(n, p) ==
    IF ~SamePlan(n, p) THEN "mismatch"
    ELSE IF SameStart(n, p) THEN "not-comparable" ELSE "port-bug"

\* As it was until 2026-09-28: a defect only where both rendered commands.
DifferenceOfCommands(n, p) ==
    IF SamePlan(n, p) /\ n.kind = "commands" /\ p.kind = "commands" THEN "port-bug"
    ELSE IF {n.kind, p.kind} \subseteq Controls THEN "decline-divergence" ELSE "mismatch"

\* The same plan and another outcome is a porting defect; two refusals of
\* different kinds are a softer disagreement.
StatusOfDifference(n, p) ==
    IF SamePlan(n, p) THEN "port-bug"
    ELSE IF {n.kind, p.kind} \subseteq Controls THEN "decline-divergence" ELSE "mismatch"

\* Neither side shows what it did: only the dumped plans can tell.
SilentlyApart(n, p) ==
    n.kind = "none" /\ p.kind = "none" /\ BothDumped(n, p) /\ ~SamePlan(n, p)

Compare(n, p) ==
    IF n.kind = "not_implemented" THEN "native-not-implemented"
    ELSE IF p.kind = "rendered-none" THEN "not-comparable"
    ELSE IF n.kind = "plan" /\ p.kind = "plan" /\ ~SameKey(n, p)
         THEN IF PlanEquivModuloDefaults(n.plan, p.plan) THEN "match" ELSE "mismatch"
    ELSE IF p.partial THEN StatusOfPart(n, p)
    ELSE IF SilentlyApart(n, p) THEN "mismatch"
    ELSE IF SameKey(n, p) THEN "match" ELSE StatusOfDifference(n, p)

---------------------------------------------------------------------------
\* The verdict: no port bug, nothing unbuilt, and disagreement over the rows
\* that count within a bound written before the run.  A bound is [of, in].

Counted(rs, buckets) == Cardinality({i \in DOMAIN rs : rs[i].status \in buckets})

Gated(rs) == Len(rs) - Counted(rs, {"not-comparable"})

L3Verdict(rs, bound) ==
    /\ Gated(rs) > 0
    /\ Counted(rs, {"port-bug", "native-not-implemented"}) = 0
    /\ Counted(rs, {"mismatch", "decline-divergence"}) * bound.in <= bound.of * Gated(rs)

---------------------------------------------------------------------------
\* A call of the harness.  It is refused before any inference when it could
\* only mislead; a label makes it evidence, and asks for the bound first.

Unstated == [of |-> 0, in |-> 0]
Strict == [of |-> 0, in |-> 1]

Refused(s) ==
    \/ s.label /\ s.bound = Unstated
    \/ ~s.llama \/ s.weights = "other"
    \/ s.batch /\ s.mode # "plan"

StartCall(s) ==
    /\ call = NoRun /\ report = NoRun /\ ~Refused(s)
    /\ call' = [s EXCEPT !.bound = IF @ = Unstated THEN Strict ELSE @]
    /\ stream' = [x \in Sides |-> [said |-> <<>>, pipe |-> <<>>, got |-> <<>>,
                                   alive |-> s.batch, done |-> ~s.batch]]
    /\ UNCHANGED <<results, report, record>>

NextRow == Len(results) + 1

Outcomes(a, b, quiet) ==
    IF call.mode = "plan" THEN [n |-> ParsePlan(a.plan), p |-> ParsePlan(b.plan)]
    ELSE [n |-> ParseNative(Written(a, quiet, call.older)),
          p |-> ParsePython(Written(b, quiet, FALSE))]

Handle(row, a, b) ==
    LET out == Outcomes(a, b, Rows[row].quiet)
    IN  results' = Append(results, [native |-> a, python |-> b, quiet |-> Rows[row].quiet,
                                    status |-> Compare(out.n, out.p)])

\* Two calls of the CLIs, one after the other.
CompareRow(a, b) ==
    /\ call # NoRun /\ ~call.batch /\ NextRow <= Len(Rows)
    /\ Handle(NextRow, a, b)
    /\ UNCHANGED <<call, stream, report, record>>

---------------------------------------------------------------------------
\* plan --batch on both sides at once.  Each prints one envelope a line of its
\* input, in order, and may die at any point.

Streaming(s) == call # NoRun /\ call.batch /\ stream[s].alive

Say(s, plan) ==
    /\ Streaming(s) /\ Len(stream[s].said) < Len(Rows)
    /\ stream' = [stream EXCEPT ![s].said = Append(@, plan), ![s].pipe = Append(@, plan)]
    /\ UNCHANGED <<call, results, report, record>>

\* It has said everything, or dies.
Stop(s) ==
    /\ Streaming(s)
    /\ stream' = [stream EXCEPT ![s].alive = FALSE]
    /\ UNCHANGED <<call, results, report, record>>

\* reader: one line, then the next; the end of the pipe last of all.
ReadLine(s) ==
    /\ stream[s].pipe # <<>>
    /\ stream' = [stream EXCEPT ![s].got = Append(@, Head(stream[s].pipe)), ![s].pipe = Tail(@)]
    /\ UNCHANGED <<call, results, report, record>>

AtExit(st) == ~st.alive

AtEnd(st) == ~st.alive /\ st.pipe = <<>>

CloseReader(s) ==
    /\ ~stream[s].done /\ AtEnd(stream[s])
    /\ stream' = [stream EXCEPT ![s].done = TRUE]
    /\ UNCHANGED <<call, results, report, record>>

\* The rows are compared while the readers go on: a row waits for both sides,
\* or for the end of the side that has not answered it.
YieldRow ==
    /\ call # NoRun /\ call.batch /\ NextRow <= Len(Rows)
    /\ \A s \in Sides : Len(stream[s].got) >= NextRow \/ stream[s].done
    /\ LET heard == [s \in Sides |->
               [plan |-> IF Len(stream[s].got) >= NextRow THEN stream[s].got[NextRow] ELSE <<>>,
                cmds |-> <<>>, end |-> "done"]]
       IN  Handle(NextRow, heard["native"], heard["python"])
    /\ UNCHANGED <<call, stream, report, record>>

\* The summary, and for evidence the run directory with its meta.json.
FinishCall ==
    /\ call # NoRun /\ Len(results) = Len(Rows)
    /\ \A s \in Sides : ~stream[s].alive
    /\ report' = IF call.label
                 THEN [judged |-> TRUE, passed |-> L3Verdict(results, call.bound),
                       call |-> call, rows |-> results]
                 ELSE report
    /\ call' = NoRun /\ results' = <<>> /\ stream' = Silent
    /\ UNCHANGED record

\* gate --record-parity: a run of the retired bar never counted port bugs.
RecordParityRun ==
    /\ report # NoRun /\ record = NoRun
    /\ record' = [passed |-> report.judged /\ report.passed, run |-> report]
    /\ UNCHANGED <<call, results, stream, report>>

ParityInit ==
    /\ call = NoRun /\ results = <<>> /\ stream = Silent
    /\ report \in {NoRun, Retired} /\ record = NoRun

ParityNext ==
    \/ \E s \in Calls : StartCall(s)
    \/ \E i \in DOMAIN Rows : i = NextRow /\ \E a \in NativeAnswers[i], b \in PythonAnswers[i] : CompareRow(a, b)
    \/ \E i \in DOMAIN Rows :
          \/ \E a \in NativeAnswers[i] : i = Len(stream["native"].said) + 1 /\ Say("native", a.plan)
          \/ \E b \in PythonAnswers[i] : i = Len(stream["python"].said) + 1 /\ Say("python", b.plan)
    \/ \E s \in Sides : Stop(s) \/ ReadLine(s) \/ CloseReader(s)
    \/ YieldRow
    \/ FinishCall
    \/ RecordParityRun

ParitySpec == ParityInit /\ [][ParityNext]_parityVars

---------------------------------------------------------------------------
\* What a plan asks for: of every step its tool, and of every argument the
\* value it will be carried out with.

Given(s, k) ==
    IF k \in DOMAIN s.args
    THEN <<IF k \in PathKeys THEN Resolved(s.args[k]) ELSE s.args[k]>>
    ELSE IF k \in DOMAIN Declared[s.tool]
         THEN <<IF k \in PathKeys THEN Resolved(Declared[s.tool][k]) ELSE Declared[s.tool][k]>>
         ELSE <<>>

SameWork(p, q) ==
    /\ Len(p) = Len(q)
    /\ \A i \in DOMAIN p :
        /\ p[i].tool = q[i].tool
        /\ \A k \in DOMAIN p[i].args \cup DOMAIN q[i].args \cup DOMAIN Declared[p[i].tool] :
                Given(p[i], k) = Given(q[i], k)

Ended(a) == IF a.end = "unbuilt" THEN "fails" ELSE a.end

SameCommands(r) == r.quiet \/ CanonCommands(r.native.cmds) = CanonCommands(r.python.cmds)

\* Both runtimes are those of today and both planned.
Planned(run, r) ==
    (run.call.mode = "command" => ~run.call.older) /\ r.native.plan # <<>> /\ r.python.plan # <<>>

\* One plan, two effects, as far as both carried it out.  Beside commands that
\* agree, how a run ended is not looked at.
Misported(r) ==
    IF r.python.end = "previews"
    THEN \E i \in DOMAIN r.native.cmds \cap DOMAIN r.python.cmds :
             CanonCommands(r.native.cmds)[i] # CanonCommands(r.python.cmds)[i]
    ELSE \/ ~SameCommands(r)
         \/ r.native.cmds = <<>> /\ Ended(r.native) # Ended(r.python)

\* Evidence that passed in command mode holds no row on which the runtimes had
\* the same plan and did something else, or did nothing and ended otherwise,
\* whichever bar the run was judged by (parity_check.py l3_verdict and compare, gate.py:1299-1303).
PortBugsFailL3 ==
    record # NoRun /\ record.passed /\ record.run.call.mode = "command" =>
        \A i \in DOMAIN record.run.rows :
            LET r == record.run.rows[i]
            IN  Planned(record.run, r) /\ SameWork(r.native.plan, r.python.plan) => ~Misported(r)

\* Two plans that ask for different work, where that can be seen: in plan mode
\* unless both decline alike; in command mode by the commands, by how it ended
\* where there are none, or by the plans alone where a skill shows nothing.
Apart(run, r) ==
    LET n == r.native
        p == r.python
    IN  /\ Planned(run, r) /\ ~SameWork(n.plan, p.plan)
        /\ IF run.call.mode = "plan" THEN ~(n.plan[1].tool = p.plan[1].tool /\ p.plan[1].tool \in Controls)
           ELSE IF r.quiet THEN n.end = "done" /\ p.end = "done"
           ELSE IF p.end = "previews" THEN p.cmds # <<>>
           ELSE IF n.cmds = <<>> /\ p.cmds = <<>> THEN Ended(n) # Ended(p)
           ELSE ~SameCommands(r)

\* Evidence that passed holds no more such rows than the bound that was written
\* before the run allows (parity_check.py:923, 1204).
DisagreementBounded ==
    record # NoRun /\ record.passed =>
        Cardinality({i \in DOMAIN record.run.rows : Apart(record.run, record.run.rows[i])})
            * record.run.call.bound.in <= record.run.call.bound.of * Gated(record.run.rows)

\* A row of two streams is compared on what each side answered to it, and is
\* scored as missing only when that side never did (parity_check.py:707-727).
AnswersHeard ==
    call # NoRun /\ call.batch =>
        \A i \in DOMAIN results, s \in Sides :
            LET st == stream[s]
            IN  results[i][s].plan = IF i <= Len(st.said) THEN st.said[i] ELSE <<>>
===========================================================================
