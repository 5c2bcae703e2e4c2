------------------------- MODULE Comparisons_proofs -------------------------
(* Theorems about what the reference runtime is measured by: native against  *)
(* Python (ParityCheck), a board against a locked one (RegressionGate), and  *)
(* the bench that makes the boards (RowBench).                               *)
EXTENDS RegressionGate, ParityCheck, RowBench, Positions_proofs, FiniteSetTheorems, SequenceTheorems, TLAPS

---------------------------------------------------------------------------
\* What stands for the same thing.

IsStep(s) == DOMAIN s = {"tool", "args"}

\* The arguments a step is carried out with, and the value of each.
Settled(s) == DOMAIN s.args \cup DOMAIN Declared[s.tool]

Value(s, k) ==
    LET v == IF k \in DOMAIN s.args THEN s.args[k] ELSE Declared[s.tool][k]
    IN  IF k \in PathKeys THEN Resolved(v) ELSE v

\* The canonical form of a step is its tool and those values.
LEMMA CanonOfDefaults ==
    ASSUME NEW s, IsStep(s)
    PROVE  LET c == CanonStep(WithDefaults(s))
           IN  /\ DOMAIN c = {"tool", "args"}
               /\ c.tool = s.tool
               /\ c.args = [k \in Settled(s) |-> Value(s, k)]
<1> DEFINE w == WithDefaults(s)
<1>1. /\ DOMAIN w = {"tool", "args"} /\ w.tool = s.tool
      /\ w.args = [k \in Settled(s) |-> IF k \in DOMAIN s.args THEN s.args[k] ELSE Declared[s.tool][k]]
    BY DEF IsStep, WithDefaults, Settled
<1> HIDE DEF w
<1>3. /\ DOMAIN CanonStep(w) = {"tool", "args"}
      /\ CanonStep(w).tool = s.tool
      /\ CanonStep(w).args = [k \in DOMAIN w.args |-> IF k \in PathKeys THEN Resolved(w.args[k]) ELSE w.args[k]]
    BY <1>1 DEF CanonStep
<1>4. CanonStep(w).args = [k \in Settled(s) |-> Value(s, k)]
    BY <1>1, <1>3 DEF Value
<1> QED  BY <1>3, <1>4 DEF w

\* The value a property speaks of is the one a step is carried out with.
LEMMA GivenIsValue ==
    ASSUME NEW s, NEW k
    PROVE  Given(s, k) = IF k \in Settled(s) THEN <<Value(s, k)>> ELSE <<>>
BY DEF Given, Settled, Value

\* Two steps have one canonical form just when they have one tool and every
\* argument has one value.
LEMMA StepsAgree ==
    ASSUME NEW s, NEW t, IsStep(s), IsStep(t)
    PROVE  CanonStep(WithDefaults(s)) = CanonStep(WithDefaults(t))
           <=> /\ s.tool = t.tool
               /\ \A k \in DOMAIN s.args \cup DOMAIN t.args \cup DOMAIN Declared[s.tool] : Given(s, k) = Given(t, k)
<1> DEFINE c == CanonStep(WithDefaults(s))
           d == CanonStep(WithDefaults(t))
           keys == DOMAIN s.args \cup DOMAIN t.args \cup DOMAIN Declared[s.tool]
<1>1. /\ DOMAIN c = {"tool", "args"} /\ DOMAIN d = {"tool", "args"}
      /\ c.tool = s.tool /\ d.tool = t.tool
      /\ c.args = [k \in Settled(s) |-> Value(s, k)]
      /\ d.args = [k \in Settled(t) |-> Value(t, k)]
    BY CanonOfDefaults
<1>2. ASSUME c = d PROVE s.tool = t.tool /\ \A k \in keys : Given(s, k) = Given(t, k)
    <2>1. s.tool = t.tool /\ Settled(s) = Settled(t) /\ \A k \in Settled(s) : Value(s, k) = Value(t, k)
        BY <1>1, <1>2
    <2> QED  BY <2>1, GivenIsValue
<1>3. ASSUME s.tool = t.tool, \A k \in keys : Given(s, k) = Given(t, k) PROVE c = d
    <2>1. Settled(s) \cup Settled(t) = keys
        BY <1>3 DEF Settled
    <2>2. \A k \in keys : /\ k \in Settled(s) <=> k \in Settled(t)
                          /\ k \in Settled(s) => Value(s, k) = Value(t, k)
        <3> TAKE k \in keys
        <3>1. (IF k \in Settled(s) THEN <<Value(s, k)>> ELSE <<>>) = (IF k \in Settled(t) THEN <<Value(t, k)>> ELSE <<>>)
            BY <1>3, GivenIsValue
        <3> QED  BY <3>1
    <2>3. Settled(s) = Settled(t)
        BY <2>1, <2>2
    <2>4. c.args = d.args
        BY <1>1, <2>2, <2>3, <2>1
    <2>5. c = [x \in DOMAIN c |-> c[x]] /\ d = [x \in DOMAIN d |-> d[x]]
        BY DEF CanonStep
    <2> QED  BY <1>1, <1>3, <2>4, <2>5
<1> QED  BY <1>2, <1>3

LEMMA SameInterval ==
    ASSUME NEW m \in Nat, NEW n \in Nat, 1..m = 1..n
    PROVE  m = n
<1>1. (m >= 1 => m \in 1..n) /\ (n >= 1 => n \in 1..m)
    OBVIOUS
<1> QED  BY <1>1

\* A plan is the work of an answer.
IsPlan(p) ==
    /\ p \in Seq(Range(p))
    /\ \A i \in DOMAIN p : IsStep(p[i])

\* Two plans ask for the same work just when the harness takes them for
\* equivalent, whatever their paths, defaults and arguments.
LEMMA WorkIsEquivalence ==
    ASSUME NEW p, NEW q, IsPlan(p), IsPlan(q)
    PROVE  /\ PlanEquivModuloDefaults(p, q) <=> SameWork(p, q)
           /\ PlansEquivalent(p, q) <=> SameWork(p, q)
<1>1. DOMAIN p = 1..Len(p) /\ DOMAIN q = 1..Len(q) /\ Len(p) \in Nat /\ Len(q) \in Nat
    BY DEF IsPlan
<1>2. PlanEquivModuloDefaults(p, q) <=> SameWork(p, q)
    BY <1>1, StepsAgree DEF IsPlan, PlanEquivModuloDefaults, SameWork
<1>3. CanonPlan(p) = CanonPlan(q) => SameWork(p, q)
    <2> SUFFICES ASSUME CanonPlan(p) = CanonPlan(q) PROVE SameWork(p, q)
        OBVIOUS
    <2>1. DOMAIN p = DOMAIN q /\ \A i \in DOMAIN p : CanonStep(p[i]) = CanonStep(q[i])
        BY DEF CanonPlan
    <2>2. Len(p) = Len(q)
        BY <1>1, <2>1, SameInterval
    <2>3. ASSUME NEW i \in DOMAIN p
          PROVE  /\ p[i].tool = q[i].tool
                 /\ \A k \in DOMAIN p[i].args \cup DOMAIN q[i].args \cup DOMAIN Declared[p[i].tool] :
                        Given(p[i], k) = Given(q[i], k)
        <3>1. IsStep(p[i]) /\ IsStep(q[i]) /\ CanonStep(p[i]) = CanonStep(q[i])
            BY <2>1, <2>3 DEF IsPlan
        <3>2. /\ CanonStep(p[i]).tool = p[i].tool /\ CanonStep(q[i]).tool = q[i].tool
              /\ CanonStep(p[i]).args = [k \in DOMAIN p[i].args |-> IF k \in PathKeys THEN Resolved(p[i].args[k]) ELSE p[i].args[k]]
              /\ CanonStep(q[i]).args = [k \in DOMAIN q[i].args |-> IF k \in PathKeys THEN Resolved(q[i].args[k]) ELSE q[i].args[k]]
            BY <3>1 DEF IsStep, CanonStep
        <3>3. p[i].tool = q[i].tool /\ DOMAIN p[i].args = DOMAIN q[i].args
            BY <3>1, <3>2
        <3>4. \A k \in DOMAIN p[i].args : (IF k \in PathKeys THEN Resolved(p[i].args[k]) ELSE p[i].args[k])
                                            = (IF k \in PathKeys THEN Resolved(q[i].args[k]) ELSE q[i].args[k])
            BY <3>1, <3>2, <3>3
        <3> QED  BY <3>3, <3>4 DEF Given
    <2> QED  BY <2>2, <2>3 DEF SameWork
<1> QED  BY <1>2, <1>3 DEF PlansEquivalent

---------------------------------------------------------------------------
\* What a row is judged on.

AllAnswers == UNION {NativeAnswers[i] \cup PythonAnswers[i] : i \in 1..Len(Rows)}

Plans == {a.plan : a \in AllAnswers} \cup {<<>>}

Statuses == {"match", "mismatch", "port-bug", "decline-divergence", "not-comparable", "native-not-implemented"}

Answers == AllAnswers \cup [plan : Plans, cmds : {<<>>}, end : {"done"}]

RowRecords ==
    [native : Answers, python : Answers, quiet : {Rows[i].quiet : i \in 1..Len(Rows)}, status : Statuses]

CallRecords ==
    [mode : {"command", "plan"}, batch : BOOLEAN, older : BOOLEAN, llama : BOOLEAN,
     weights : {"same", "other", "unregistered"}, bound : [of : Nat, in : Nat], label : BOOLEAN]

\* The status the call c gives two answers.
JudgedBy(c, a, b, quiet) ==
    IF c.mode = "plan" THEN Compare(ParsePlan(a.plan), ParsePlan(b.plan))
    ELSE Compare(ParseNative(Written(a, quiet, c.older)), ParsePython(Written(b, quiet, FALSE)))

LEMMA CompareIsStatus ==
    ASSUME NEW n, NEW p
    PROVE  Compare(n, p) \in Statuses
BY DEF Compare, Statuses, StatusOfPart, StatusOfDifference

\* An answer whose plan and commands the harness can read.
Fair(a) == IsAnswer(a) /\ IsPlan(a.plan)

LEMMA AnswersAreFair ==
    ASSUME NEW i \in 1..Len(Rows), NEW a \in NativeAnswers[i] \cup PythonAnswers[i]
    PROVE  Fair(a) /\ a.plan \in Plans
<1>1. IsAnswer(a)
    BY ParityAssumption
<1>2. Fair(a)
    BY <1>1 DEF Fair, IsAnswer, IsPlan, IsStep
<1>3. a \in AllAnswers
    BY DEF AllAnswers
<1> QED  BY <1>2, <1>3 DEF Plans

LEMMA TellsOf ==
    /\ Tells["done"] = "none" /\ Tells["asks"] = "clarify" /\ Tells["refuses"] = "reject"
    /\ Tells["fails"] = "none" /\ Tells["unbuilt"] = "none" /\ Tells["previews"] = "nothing"
BY DEF Tells

\* What the harness makes of an answer native gives today, in command mode.
LEMMA NativeSeen ==
    ASSUME NEW a, NEW quiet, Fair(a), a.end # "previews", quiet => a.cmds = <<>>
    PROVE  LET n == ParseNative(Written(a, quiet, FALSE))
           IN  /\ n.kind = IF a.cmds # <<>> THEN "commands"
                           ELSE CASE a.end = "done" -> "none" [] a.end = "asks" -> "clarify"
                                  [] a.end = "refuses" -> "reject" [] OTHER -> "error"
               /\ n.cmds = a.cmds /\ n.dumped = a.plan
<1>1. a.end \in {"done", "asks", "refuses", "fails", "unbuilt"}
    BY DEF Fair, IsAnswer, Ends
<1>2. Tells[a.end] = CASE a.end = "asks" -> "clarify" [] a.end = "refuses" -> "reject" [] OTHER -> "none"
    BY <1>1, TellsOf
<1> QED  BY <1>1, <1>2 DEF Written, ParseNative, Failed, Shown

\* What it makes of Python's: part of the plan, when a dry run stopped at a
\* confirmation after a first command.
LEMMA PythonSeen ==
    ASSUME NEW b, NEW quiet, Fair(b), quiet => b.cmds = <<>>
    PROVE  LET p == ParsePython(Written(b, quiet, FALSE))
           IN  /\ p.kind = IF b.cmds # <<>> THEN "commands"
                           ELSE CASE b.end = "done" -> "none" [] b.end = "asks" -> "clarify"
                                  [] b.end = "refuses" -> "reject" [] b.end = "previews" -> "rendered-none"
                                  [] OTHER -> "error"
               /\ p.cmds = b.cmds /\ p.dumped = b.plan
               /\ p.partial <=> b.cmds # <<>> /\ b.end = "previews"
<1>1. b.end \in {"done", "asks", "refuses", "fails", "unbuilt", "previews"}
    BY DEF Fair, IsAnswer, Ends
<1>2. Tells[b.end] = CASE b.end = "asks" -> "clarify" [] b.end = "refuses" -> "reject"
                       [] b.end = "previews" -> "nothing" [] OTHER -> "none"
    BY <1>1, TellsOf
<1> QED  BY <1>1, <1>2 DEF Written, ParsePython, Failed, Shown

\* Two outcomes have different keys when their kinds differ, or both are
\* commands that stand for different work.
LEMMA KeysDiffer ==
    ASSUME NEW n, NEW p,
           n.kind # p.kind \/ (n.kind = "commands" /\ CanonCommands(n.cmds) # CanonCommands(p.cmds))
    PROVE  ~SameKey(n, p)
BY DEF SameKey, Key

\* One plan and two effects is called a porting defect.
LEMMA PortBugSeen ==
    ASSUME NEW r, NEW c, c.mode = "command", ~c.older, Fair(r.native), Fair(r.python), r.native.end # "previews",
           r.quiet => r.native.cmds = <<>> /\ r.python.cmds = <<>>,
           r.native.plan # <<>>, r.python.plan # <<>>,
           SameWork(r.native.plan, r.python.plan), Misported(r)
    PROVE  JudgedBy(c, r.native, r.python, r.quiet) = "port-bug"
<1> DEFINE n == ParseNative(Written(r.native, r.quiet, FALSE))
           p == ParsePython(Written(r.python, r.quiet, FALSE))
<1>0. JudgedBy(c, r.native, r.python, r.quiet) = Compare(n, p)
    BY DEF JudgedBy, Written
<1>1. /\ n.kind = IF r.native.cmds # <<>> THEN "commands"
                  ELSE CASE r.native.end = "done" -> "none" [] r.native.end = "asks" -> "clarify"
                         [] r.native.end = "refuses" -> "reject" [] OTHER -> "error"
      /\ n.cmds = r.native.cmds /\ n.dumped = r.native.plan
    BY NativeSeen
<1>2. /\ p.kind = IF r.python.cmds # <<>> THEN "commands"
                  ELSE CASE r.python.end = "done" -> "none" [] r.python.end = "asks" -> "clarify"
                         [] r.python.end = "refuses" -> "reject" [] r.python.end = "previews" -> "rendered-none"
                         [] OTHER -> "error"
      /\ p.cmds = r.python.cmds /\ p.dumped = r.python.plan
      /\ p.partial <=> r.python.cmds # <<>> /\ r.python.end = "previews"
    BY PythonSeen
<1>3. /\ r.native.end \in {"done", "asks", "refuses", "fails", "unbuilt"}
      /\ r.python.end \in {"done", "asks", "refuses", "fails", "unbuilt", "previews"}
      /\ DOMAIN r.native.cmds = 1..Len(r.native.cmds) /\ Len(r.native.cmds) \in Nat
      /\ DOMAIN r.python.cmds = 1..Len(r.python.cmds) /\ Len(r.python.cmds) \in Nat
      /\ r.native.cmds = <<>> <=> Len(r.native.cmds) = 0
      /\ r.python.cmds = <<>> <=> Len(r.python.cmds) = 0
    BY DEF Fair, IsAnswer, Ends
<1> HIDE DEF n, p
<1>4. SamePlan(n, p)
    BY <1>1, <1>2, WorkIsEquivalence DEF SamePlan, BothDumped, Fair
<1>5. n.kind # "not_implemented" /\ n.kind # "plan"
    BY <1>1
<1>6. CASE r.python.end = "previews"
    <2>1. PICK i \in DOMAIN r.native.cmds \cap DOMAIN r.python.cmds :
              CanonCommands(r.native.cmds)[i] # CanonCommands(r.python.cmds)[i]
        BY <1>6 DEF Misported
    <2>2. r.python.cmds # <<>>
        BY <2>1, <1>3
    <2>3. ~SameStart(n, p)
        BY <2>1, <1>1, <1>2, <1>3 DEF SameStart
    <2>4. p.partial /\ p.kind # "rendered-none"
        BY <1>2, <1>6, <2>2
    <2> QED  BY <1>0, <1>4, <1>5, <2>3, <2>4 DEF Compare, StatusOfPart
<1>7. CASE r.python.end # "previews"
    <2>1. ~p.partial /\ p.kind # "rendered-none"
        BY <1>2, <1>7
    <2>2. CASE r.native.cmds = <<>> /\ Ended(r.native) # Ended(r.python)
        <3>1. n.kind # p.kind
            BY <2>2, <1>1, <1>2, <1>3, <1>7 DEF Ended
        <3> QED  BY <3>1, KeysDiffer, <1>0, <1>4, <1>5, <2>1 DEF Compare, StatusOfDifference, SilentlyApart
    <2>3. CASE ~SameCommands(r)
        <3>1. CanonCommands(r.native.cmds) # CanonCommands(r.python.cmds)
            BY <2>3 DEF SameCommands
        <3>2. r.native.cmds # <<>> \/ r.python.cmds # <<>>
            BY <3>1
        <3>3. n.kind # p.kind \/ (n.kind = "commands" /\ CanonCommands(n.cmds) # CanonCommands(p.cmds))
            BY <3>1, <3>2, <1>1, <1>2, <1>3
        <3> QED  BY <3>3, KeysDiffer, <1>0, <1>4, <1>5, <2>1 DEF Compare, StatusOfDifference, SilentlyApart
    <2> QED  BY <2>2, <2>3, <1>7 DEF Misported
<1> QED  BY <1>6, <1>7

\* Two plans that ask for different work, where that can be seen, are counted as
\* a disagreement or as something worse.
LEMMA ApartSeen ==
    ASSUME NEW r, NEW run, Fair(r.native), Fair(r.python), run.call.mode \in {"command", "plan"},
           run.call.mode = "command" => /\ r.native.end # "previews"
                                        /\ r.quiet => r.native.cmds = <<>> /\ r.python.cmds = <<>>,
           Apart(run, r)
    PROVE  JudgedBy(run.call, r.native, r.python, r.quiet) \in {"mismatch", "decline-divergence"}
<1>0. ~SameWork(r.native.plan, r.python.plan)
    BY DEF Apart
<1>1. CASE run.call.mode = "plan"
    <2> DEFINE n == ParsePlan(r.native.plan)
               p == ParsePlan(r.python.plan)
    <2>0. JudgedBy(run.call, r.native, r.python, r.quiet) = Compare(n, p)
        BY <1>1 DEF JudgedBy
    <2>1. /\ n.kind = IF r.native.plan[1].tool \in Controls THEN r.native.plan[1].tool ELSE "plan"
          /\ p.kind = IF r.python.plan[1].tool \in Controls THEN r.python.plan[1].tool ELSE "plan"
          /\ n.plan = r.native.plan /\ p.plan = r.python.plan
          /\ n.dumped = <<>> /\ p.dumped = <<>> /\ ~p.partial
        BY DEF ParsePlan, Apart, Planned
    <2>2. n.kind \in {"clarify", "reject", "plan"} /\ p.kind \in {"clarify", "reject", "plan"}
        BY <2>1 DEF Controls
    <2> HIDE DEF n, p
    <2>3. ~PlansEquivalent(n.plan, p.plan)
        BY <2>1, <1>0, WorkIsEquivalence DEF Fair
    <2>4. ~SamePlan(n, p)
        BY <2>1 DEF SamePlan, BothDumped
    <2>5. CASE n.kind = "plan" /\ p.kind = "plan"
        <3>1. ~SameKey(n, p)
            <4> SUFFICES ASSUME SameKey(n, p) PROVE FALSE
                OBVIOUS
            <4>1. <<n.kind, CanonPlan(n.plan)>> = <<p.kind, CanonPlan(p.plan)>>
                BY <2>5 DEF SameKey, Key
            <4> QED  BY <4>1, <2>3 DEF PlansEquivalent
        <3> QED  BY <2>0, <2>3, <2>5, <3>1 DEF Compare, PlansEquivalent
    <2>6. CASE n.kind # p.kind
        <3>1. ~SameKey(n, p)
            BY <2>6 DEF SameKey
        <3> QED  BY <2>0, <2>1, <2>2, <2>4, <2>6, <3>1 DEF Compare, SilentlyApart, StatusOfDifference
    <2>7. n.kind = p.kind => n.kind = "plan"
        BY <1>1, <2>1, <2>2 DEF Apart, Controls
    <2> QED  BY <2>5, <2>6, <2>7
<1>2. CASE run.call.mode = "command"
    <2> DEFINE n == ParseNative(Written(r.native, r.quiet, FALSE))
               p == ParsePython(Written(r.python, r.quiet, FALSE))
    <2>0. JudgedBy(run.call, r.native, r.python, r.quiet) = Compare(n, p)
        BY <1>2 DEF JudgedBy, Written, Apart, Planned
    <2>1. /\ n.kind = IF r.native.cmds # <<>> THEN "commands"
                      ELSE CASE r.native.end = "done" -> "none" [] r.native.end = "asks" -> "clarify"
                             [] r.native.end = "refuses" -> "reject" [] OTHER -> "error"
          /\ n.cmds = r.native.cmds /\ n.dumped = r.native.plan
        BY <1>2, NativeSeen
    <2>2. /\ p.kind = IF r.python.cmds # <<>> THEN "commands"
                      ELSE CASE r.python.end = "done" -> "none" [] r.python.end = "asks" -> "clarify"
                             [] r.python.end = "refuses" -> "reject" [] r.python.end = "previews" -> "rendered-none"
                             [] OTHER -> "error"
          /\ p.cmds = r.python.cmds /\ p.dumped = r.python.plan
          /\ p.partial <=> r.python.cmds # <<>> /\ r.python.end = "previews"
        BY <1>2, PythonSeen
    <2>3. /\ r.native.end \in {"done", "asks", "refuses", "fails", "unbuilt"}
          /\ r.python.end \in {"done", "asks", "refuses", "fails", "unbuilt", "previews"}
          /\ r.native.plan # <<>> /\ r.python.plan # <<>>
        BY <1>2 DEF Fair, IsAnswer, Ends, Apart, Planned
    <2> HIDE DEF n, p
    <2>4. ~SamePlan(n, p) /\ BothDumped(n, p)
        BY <2>1, <2>2, <2>3, <1>0, WorkIsEquivalence DEF SamePlan, BothDumped, Fair
    <2>5. n.kind # "not_implemented" /\ n.kind # "plan"
        BY <2>1
    <2>6. CASE r.quiet
        <3>1. r.native.end = "done" /\ r.python.end = "done" /\ r.native.cmds = <<>> /\ r.python.cmds = <<>>
            BY <1>2, <2>6 DEF Apart
        <3> QED  BY <2>0, <2>1, <2>2, <2>4, <3>1 DEF Compare, SilentlyApart
    <2>7. CASE ~r.quiet /\ r.python.end = "previews"
        <3>1. p.partial /\ p.kind # "rendered-none"
            BY <1>2, <2>2, <2>7 DEF Apart
        <3> QED  BY <2>0, <2>4, <2>5, <3>1 DEF Compare, StatusOfPart
    <2>8. CASE ~r.quiet /\ r.python.end # "previews"
        <3>1. ~p.partial /\ p.kind # "rendered-none"
            BY <2>2, <2>8
        <3>2. n.kind # p.kind \/ (n.kind = "commands" /\ CanonCommands(n.cmds) # CanonCommands(p.cmds))
            <4>1. CASE r.native.cmds = <<>> /\ r.python.cmds = <<>>
                <5>1. Ended(r.native) # Ended(r.python)
                    BY <1>2, <2>8, <4>1 DEF Apart
                <5> QED  BY <5>1, <4>1, <2>1, <2>2, <2>3, <2>8 DEF Ended
            <4>2. CASE ~(r.native.cmds = <<>> /\ r.python.cmds = <<>>)
                <5>1. CanonCommands(r.native.cmds) # CanonCommands(r.python.cmds)
                    BY <1>2, <2>8, <4>2 DEF Apart, SameCommands
                <5> QED  BY <5>1, <4>2, <2>1, <2>2, <2>3
            <4> QED  BY <4>1, <4>2
        <3> QED  BY <3>2, KeysDiffer, <2>0, <2>4, <2>5, <3>1 DEF Compare, StatusOfDifference, SilentlyApart
    <2> QED  BY <2>6, <2>7, <2>8
<1> QED  BY <1>1, <1>2

---------------------------------------------------------------------------
\* What the rows of a run are, and the invariant of the harness.

\* Row i of a run called as c was judged on two answers to utterance i: any the
\* runtimes give in command mode, and in plan mode what was heard of them.
JudgedRow(c, r, i) ==
    /\ r.quiet = Rows[i].quiet
    /\ r.status = JudgedBy(c, r.native, r.python, r.quiet)
    /\ Fair(r.native) /\ Fair(r.python)
    /\ c.mode = "command" => r.native \in NativeAnswers[i] /\ r.python \in PythonAnswers[i]

JudgedRows(c, rs) ==
    /\ c \in CallRecords
    /\ rs \in Seq(RowRecords) /\ Len(rs) <= Len(Rows)
    /\ \A i \in 1..Len(rs) : JudgedRow(c, rs[i], i)

JudgedRun(run) ==
    /\ run.judged /\ JudgedRows(run.call, run.rows)
    /\ run.passed => L3Verdict(run.rows, run.call.bound)

StreamRecords ==
    [said : Seq(Plans), pipe : Seq(Plans), got : Seq(Plans), alive : BOOLEAN, done : BOOLEAN]

\* A line printed is heard or still in the pipe, and a reader that has left has
\* heard all of them.
Flows(said, got, pipe) ==
    /\ Len(said) = Len(got) + Len(pipe) /\ Len(said) <= Len(Rows)
    /\ \A i \in 1..Len(got) : said[i] = got[i]
    /\ \A i \in 1..Len(pipe) : said[Len(got) + i] = pipe[i]

Piped(st) ==
    /\ Flows(st.said, st.got, st.pipe)
    /\ st.done => ~st.alive /\ st.pipe = <<>>

\* What a row of two streams is compared on, side by side.
HeardOf(st, plan, i) ==
    IF i <= Len(st.got) THEN plan = st.got[i] ELSE st.done /\ plan = <<>>

Heard ==
    /\ stream \in [Sides -> StreamRecords]
    /\ \A s \in Sides : Piped(stream[s])
    /\ call = NoRun => results = <<>>
    /\ call # NoRun /\ call.batch =>
        \A i \in 1..Len(results) : /\ HeardOf(stream["native"], results[i].native.plan, i)
                                   /\ HeardOf(stream["python"], results[i].python.plan, i)

Judging ==
    /\ results \in Seq(RowRecords)
    /\ call # NoRun => JudgedRows(call, results) /\ (call.batch => call.mode = "plan")

Filed ==
    /\ report # NoRun /\ report.judged => JudgedRun(report)
    /\ record # NoRun /\ record.passed => JudgedRun(record.run) /\ record.run.passed

ParityInv == Heard /\ Judging /\ Filed

LEMMA PlansAreFair ==
    ASSUME NEW plan \in Plans, NEW a, a = [plan |-> plan, cmds |-> <<>>, end |-> "done"]
    PROVE  Fair(a) /\ a \in Answers
<1>1. IsPlan(plan)
    <2>1. CASE plan = <<>>
        BY <2>1 DEF IsPlan
    <2>2. CASE plan # <<>>
        <3>1. PICK x \in AllAnswers : plan = x.plan
            BY <2>2 DEF Plans
        <3>2. PICK i \in 1..Len(Rows) : x \in NativeAnswers[i] \cup PythonAnswers[i]
            BY DEF AllAnswers
        <3> QED  BY <3>1, <3>2, AnswersAreFair DEF Fair
    <2> QED  BY <2>1, <2>2
<1>2. IsAnswer(a)
    BY <1>1 DEF IsAnswer, IsPlan, IsStep, Ends
<1>3. a \in Answers
    BY DEF Answers
<1>4. a.plan = plan
    OBVIOUS
<1> QED  BY <1>1, <1>2, <1>3, <1>4 DEF Fair

\* A line more, in the pipe; a line less in it, heard.
LEMMA FlowsOn ==
    ASSUME NEW said \in Seq(Plans), NEW got \in Seq(Plans), NEW pipe \in Seq(Plans), Flows(said, got, pipe)
    PROVE  /\ \A plan \in Plans : Len(said) < Len(Rows) => Flows(Append(said, plan), got, Append(pipe, plan))
           /\ pipe # <<>> => Flows(said, Append(got, Head(pipe)), Tail(pipe))
<1>0. Len(said) \in Nat /\ Len(got) \in Nat /\ Len(pipe) \in Nat /\ Len(Rows) \in Nat
    BY ParityAssumption
<1>1. ASSUME NEW plan \in Plans, Len(said) < Len(Rows)
      PROVE  Flows(Append(said, plan), got, Append(pipe, plan))
    <2> DEFINE more == Append(said, plan)
               rest == Append(pipe, plan)
    <2>1. /\ Len(more) = Len(said) + 1 /\ more[Len(said) + 1] = plan
          /\ \A i \in 1..Len(said) : more[i] = said[i]
          /\ Len(rest) = Len(pipe) + 1 /\ rest[Len(pipe) + 1] = plan
          /\ \A i \in 1..Len(pipe) : rest[i] = pipe[i]
        BY AppendProperties
    <2> HIDE DEF more, rest
    <2>2. Len(more) = Len(got) + Len(rest) /\ Len(more) <= Len(Rows)
        BY <1>0, <1>1, <2>1 DEF Flows
    <2>3. ASSUME NEW i \in 1..Len(got) PROVE more[i] = got[i]
        <3>1. i \in 1..Len(said)
            BY <1>0 DEF Flows
        <3> QED  BY <3>1, <2>1 DEF Flows
    <2>4. ASSUME NEW i \in 1..Len(rest) PROVE more[Len(got) + i] = rest[i]
        <3>1. CASE i \in 1..Len(pipe)
            <4>1. Len(got) + i \in 1..Len(said)
                BY <1>0, <3>1 DEF Flows
            <4> QED  BY <3>1, <4>1, <2>1 DEF Flows
        <3>2. CASE i = Len(pipe) + 1
            <4>1. Len(got) + i = Len(said) + 1
                BY <1>0, <3>2 DEF Flows
            <4> QED  BY <3>2, <4>1, <2>1
        <3> QED  BY <3>1, <3>2, <2>1, <1>0
    <2>5. Flows(more, got, rest)
        BY <2>2, <2>3, <2>4 DEF Flows
    <2> QED  BY <2>5 DEF more, rest
<1>2. ASSUME pipe # <<>>
      PROVE  Flows(said, Append(got, Head(pipe)), Tail(pipe))
    <2>1. /\ Head(pipe) = pipe[1] /\ pipe[1] \in Plans /\ Len(pipe) >= 1
          /\ Tail(pipe) \in Seq(Plans) /\ Len(Tail(pipe)) = Len(pipe) - 1
          /\ \A i \in 1..Len(Tail(pipe)) : Tail(pipe)[i] = pipe[i + 1]
        BY <1>2, EmptySeq, HeadTailProperties
    <2> DEFINE more == Append(got, Head(pipe))
               rest == Tail(pipe)
    <2>2. /\ more \in Seq(Plans) /\ Len(more) = Len(got) + 1
          /\ \A i \in 1..Len(got) : more[i] = got[i]
          /\ more[Len(got) + 1] = pipe[1]
        BY <2>1, AppendProperties
    <2> HIDE DEF more, rest
    <2>3. Len(said) = Len(more) + Len(rest) /\ Len(said) <= Len(Rows)
        BY <1>0, <2>1, <2>2 DEF Flows, rest
    <2>4. ASSUME NEW i \in 1..Len(more) PROVE said[i] = more[i]
        <3>1. CASE i \in 1..Len(got)
            BY <3>1, <2>2 DEF Flows
        <3>2. CASE i = Len(got) + 1
            <4>1. 1 \in 1..Len(pipe)
                BY <1>0, <2>1
            <4> QED  BY <3>2, <4>1, <2>2 DEF Flows
        <3> QED  BY <3>1, <3>2, <2>2, <1>0
    <2>5. ASSUME NEW i \in 1..Len(rest) PROVE said[Len(more) + i] = rest[i]
        <3>1. rest[i] = pipe[i + 1] /\ i + 1 \in 1..Len(pipe) /\ Len(more) + i = Len(got) + (i + 1)
            BY <1>0, <2>1, <2>2 DEF rest
        <3>2. said[Len(got) + (i + 1)] = pipe[i + 1]
            BY <3>1 DEF Flows
        <3> QED  BY <3>1, <3>2
    <2>6. Flows(said, more, rest)
        BY <2>3, <2>4, <2>5 DEF Flows
    <2> QED  BY <2>6 DEF more, rest
<1> QED  BY <1>1, <1>2

LEMMA FlowsHeard ==
    ASSUME NEW said \in Seq(Plans), NEW got \in Seq(Plans), NEW pipe \in Seq(Plans), Flows(said, got, pipe)
    PROVE  /\ \A i \in Nat \ {0} : i <= Len(got) => i <= Len(said) /\ said[i] = got[i]
           /\ pipe = <<>> => Len(said) = Len(got)
BY DEF Flows

LEMMA RowsCounted == Len(Rows) \in Nat
BY ParityAssumption

LEMMA HeardInit == ParityInit => ParityInv
<1> SUFFICES ASSUME ParityInit PROVE ParityInv
    OBVIOUS
<1>1. Heard
    <2>1. \A s \in Sides : stream[s] = [said |-> <<>>, pipe |-> <<>>, got |-> <<>>, alive |-> FALSE, done |-> TRUE]
        BY DEF ParityInit, Silent
    <2>2. stream \in [Sides -> StreamRecords]
        BY DEF ParityInit, Silent, StreamRecords
    <2>3. \A s \in Sides : Piped(stream[s])
        <3> SUFFICES ASSUME NEW s \in Sides PROVE Piped(stream[s])
            OBVIOUS
        <3>1. /\ Len(stream[s].said) = 0 /\ Len(stream[s].got) = 0 /\ Len(stream[s].pipe) = 0
              /\ ~stream[s].alive /\ stream[s].pipe = <<>>
            BY <2>1
        <3> QED  BY <3>1, RowsCounted DEF Piped, Flows
    <2> QED  BY <2>2, <2>3 DEF ParityInit, Heard
<1>2. Judging
    BY DEF ParityInit, Judging
<1>3. Filed
    BY ParityAssumption DEF ParityInit, Filed
<1> QED  BY <1>1, <1>2, <1>3 DEF ParityInv

\* A stream that becomes another: what was heard stays heard, and a reader that
\* has left hears no more.
Becomes(s, new) == stream' = [stream EXCEPT ![s] = new]

Carries(old, new) ==
    /\ Len(old.got) <= Len(new.got)
    /\ \A i \in 1..Len(old.got) : new.got[i] = old.got[i]
    /\ old.done => new.done /\ Len(new.got) = Len(old.got)

\* A side that prints a line, dies, is read or is left for good: its own
\* stream, and nothing heard of either side is unheard.
LEMMA StreamSteps ==
    ASSUME Heard, NEW s \in Sides,
           \/ \E plan \in Plans : Say(s, plan)
           \/ Stop(s) \/ ReadLine(s) \/ CloseReader(s)
    PROVE  Heard'
<1>1. /\ stream \in [Sides -> StreamRecords] /\ stream[s] \in StreamRecords
      /\ Piped(stream[s])
      /\ UNCHANGED <<call, results, report, record>>
    BY DEF Heard, Say, Stop, ReadLine, CloseReader
<1>2. ASSUME NEW new, new \in StreamRecords, Becomes(s, new), Piped(new), Carries(stream[s], new)
      PROVE  Heard'
    <2>1. stream' \in [Sides -> StreamRecords] /\ \A x \in Sides : Piped(stream'[x])
        BY <1>2, <1>1 DEF Heard, Becomes
    <2>2. ASSUME NEW x \in Sides, NEW i \in Nat \ {0}, NEW plan, HeardOf(stream[x], plan, i)
          PROVE  HeardOf(stream'[x], plan, i)
        <3>1. CASE x # s
            BY <2>2, <3>1, <1>1, <1>2 DEF Becomes
        <3>2. CASE x = s
            <4>1. stream'[x] = new
                BY <3>2, <1>1, <1>2 DEF Becomes
            <4>2. Len(new.got) \in Nat /\ Len(stream[s].got) \in Nat
                BY <1>1, <1>2 DEF StreamRecords
            <4> QED  BY <2>2, <3>2, <4>1, <4>2, <1>2 DEF HeardOf, Carries
        <3> QED  BY <3>1, <3>2
    <2>3. "native" \in Sides /\ "python" \in Sides
        BY DEF Sides
    <2>4. \A i \in 1..Len(results) : i \in Nat \ {0}
        OBVIOUS
    <2> QED  BY <2>1, <2>2, <2>3, <2>4, <1>1 DEF Heard
<1>3. CASE \E plan \in Plans : Say(s, plan)
    <2>1. PICK plan \in Plans : Say(s, plan)
        BY <1>3
    <2> DEFINE new == [stream[s] EXCEPT !.said = Append(@, plan), !.pipe = Append(@, plan)]
    <2>2. Becomes(s, new)
        BY <2>1, <1>1 DEF Becomes, Say, StreamRecords
    <2>3. new \in StreamRecords
        BY <1>1, AppendProperties DEF StreamRecords
    <2>4. /\ new.said = Append(stream[s].said, plan) /\ new.pipe = Append(stream[s].pipe, plan)
          /\ new.got = stream[s].got /\ new.alive = stream[s].alive /\ new.done = stream[s].done
          /\ stream[s].alive /\ Len(stream[s].said) < Len(Rows)
        BY <2>1, <1>1 DEF Say, Streaming, StreamRecords
    <2>5. /\ stream[s].said \in Seq(Plans) /\ stream[s].pipe \in Seq(Plans) /\ stream[s].got \in Seq(Plans)
        BY <1>1 DEF StreamRecords
    <2> HIDE DEF new
    <2>6. Piped(new)
        BY <2>4, <2>5, <1>1, FlowsOn DEF Piped
    <2>7. Carries(stream[s], new)
        BY <2>4, <2>5 DEF Carries
    <2> QED  BY <1>2, <2>2, <2>3, <2>6, <2>7
<1>4. CASE Stop(s)
    <2> DEFINE new == [stream[s] EXCEPT !.alive = FALSE]
    <2>1. Becomes(s, new) /\ new \in StreamRecords /\ new.got = stream[s].got /\ new.done = stream[s].done
        BY <1>4, <1>1 DEF Becomes, Stop, StreamRecords
    <2>2. Piped(new)
        BY <1>1 DEF Piped, StreamRecords
    <2>3. stream[s].got \in Seq(Plans)
        BY <1>1 DEF StreamRecords
    <2> HIDE DEF new
    <2>4. Carries(stream[s], new)
        BY <2>1, <2>3 DEF Carries
    <2> QED  BY <1>2, <2>1, <2>2, <2>4
<1>5. CASE ReadLine(s)
    <2> DEFINE new == [stream[s] EXCEPT !.got = Append(@, Head(stream[s].pipe)), !.pipe = Tail(@)]
    <2>1. Becomes(s, new)
        BY <1>5, <1>1 DEF Becomes, ReadLine, StreamRecords
    <2>2. /\ stream[s].said \in Seq(Plans) /\ stream[s].pipe \in Seq(Plans) /\ stream[s].got \in Seq(Plans)
          /\ stream[s].pipe # <<>>
        BY <1>5, <1>1 DEF ReadLine, StreamRecords
    <2>3. new \in StreamRecords
        BY <1>1, <2>2, HeadTailProperties, AppendProperties DEF StreamRecords
    <2>4. /\ new.said = stream[s].said /\ new.pipe = Tail(stream[s].pipe)
          /\ new.got = Append(stream[s].got, Head(stream[s].pipe)) /\ new.alive = stream[s].alive /\ new.done = stream[s].done
        BY <1>1 DEF StreamRecords
    <2> HIDE DEF new
    <2>6. ~stream[s].done
        BY <2>2, <1>1 DEF Piped
    <2>5. Piped(new)
        BY <2>2, <2>4, <2>6, <1>1, FlowsOn DEF Piped
    <2>7. Carries(stream[s], new)
        BY <2>2, <2>4, <2>6, AppendProperties, HeadTailProperties DEF Carries
    <2> QED  BY <1>2, <2>1, <2>3, <2>5, <2>7
<1>6. CASE CloseReader(s)
    <2> DEFINE new == [stream[s] EXCEPT !.done = TRUE]
    <2>1. Becomes(s, new) /\ new \in StreamRecords /\ new.got = stream[s].got /\ new.done = TRUE
        BY <1>6, <1>1 DEF Becomes, CloseReader, StreamRecords
    <2>2. Piped(new)
        BY <1>6, <1>1 DEF CloseReader, AtEnd, Piped, StreamRecords
    <2>3. stream[s].got \in Seq(Plans)
        BY <1>1 DEF StreamRecords
    <2> HIDE DEF new
    <2>4. Carries(stream[s], new)
        BY <2>1, <2>3 DEF Carries
    <2> QED  BY <1>2, <2>1, <2>2, <2>4
<1> QED  BY <1>3, <1>4, <1>5, <1>6

\* A row more, judged on what the two sides answered.
LEMMA RowHandled ==
    ASSUME NEW c, c = call, NEW rs, rs = results, JudgedRows(c, rs), NextRow <= Len(Rows), NEW a \in Answers, NEW b \in Answers,
           Fair(a), Fair(b), Handle(NextRow, a, b),
           c.mode = "command" => a \in NativeAnswers[NextRow] /\ b \in PythonAnswers[NextRow]
    PROVE  /\ JudgedRows(c, results') /\ Len(results') = Len(rs) + 1
           /\ \A i \in 1..Len(rs) : results'[i] = rs[i]
           /\ results'[Len(rs) + 1].native = a /\ results'[Len(rs) + 1].python = b
<1> DEFINE quiet == Rows[NextRow].quiet
           r == [native |-> a, python |-> b, quiet |-> quiet, status |-> JudgedBy(c, a, b, quiet)]
<1>1. rs \in Seq(RowRecords) /\ Len(rs) \in Nat /\ NextRow = Len(rs) + 1 /\ Len(Rows) \in Nat
    BY RowsCounted DEF JudgedRows, NextRow
<1>2. results' = Append(rs, r)
    BY DEF Handle, Outcomes, JudgedBy
<1>3. r \in RowRecords
    <2>1. JudgedBy(c, a, b, quiet) \in Statuses
        BY CompareIsStatus DEF JudgedBy
    <2>2. quiet \in {Rows[i].quiet : i \in 1..Len(Rows)}
        BY <1>1
    <2> QED  BY <2>1, <2>2 DEF RowRecords
<1>4. JudgedRow(c, r, NextRow)
    BY DEF JudgedRow
<1>5. r.native = a /\ r.python = b
    OBVIOUS
<1> HIDE DEF r
<1>6. /\ results' \in Seq(RowRecords) /\ Len(results') = Len(rs) + 1
      /\ \A i \in 1..Len(rs) : results'[i] = rs[i]
      /\ results'[Len(rs) + 1] = r
    BY <1>1, <1>2, <1>3, AppendProperties
<1>7. \A i \in 1..Len(results') : JudgedRow(c, results'[i], i)
    <2> TAKE i \in 1..Len(results')
    <2>1. CASE i \in 1..Len(rs)
        BY <2>1, <1>6 DEF JudgedRows
    <2>2. CASE i = NextRow
        BY <2>2, <1>1, <1>4, <1>6
    <2> QED  BY <2>1, <2>2, <1>1, <1>6
<1>8. JudgedRows(c, results')
    BY <1>1, <1>6, <1>7 DEF JudgedRows
<1> QED  BY <1>5, <1>6, <1>8

\* A call starts with no row, its bound written down.
LEMMA CallStarts ==
    ASSUME ParityInv, NEW s \in Calls, StartCall(s)
    PROVE  ParityInv'
<1>1. call = NoRun /\ results = <<>> /\ UNCHANGED <<results, report, record>> /\ ~Refused(s)
    BY DEF ParityInv, Heard, StartCall
<1>2. s \in CallRecords
    BY ParityAssumption DEF CallRecords
<1>3. call' \in CallRecords /\ call'.batch = s.batch /\ call'.mode = s.mode
    BY <1>2 DEF StartCall, CallRecords, Unstated, Strict
<1>4. JudgedRows(call', results')
    BY <1>1, <1>3, RowsCounted DEF JudgedRows
<1>5. Judging'
    BY <1>1, <1>2, <1>3, <1>4 DEF Judging, JudgedRows, Refused, CallRecords
<1>6. Heard'
    <2>1. \A x \in Sides : stream'[x] = [said |-> <<>>, pipe |-> <<>>, got |-> <<>>, alive |-> s.batch, done |-> ~s.batch]
        BY DEF StartCall
    <2>2. stream' \in [Sides -> StreamRecords]
        BY <1>2 DEF StartCall, StreamRecords, CallRecords
    <2>3. \A x \in Sides : Piped(stream'[x])
        <3> SUFFICES ASSUME NEW x \in Sides PROVE Piped(stream'[x])
            OBVIOUS
        <3>1. /\ Len(stream'[x].said) = 0 /\ Len(stream'[x].got) = 0 /\ Len(stream'[x].pipe) = 0
              /\ stream'[x].pipe = <<>>
            BY <2>1
        <3>2. stream'[x].alive = s.batch /\ stream'[x].done = ~s.batch
            BY <2>1
        <3>3. stream'[x].done => ~stream'[x].alive
            BY <3>2
        <3> QED  BY <3>1, <3>3, RowsCounted DEF Piped, Flows
    <2>4. 1..Len(results') = {}
        BY <1>1
    <2> QED  BY <1>1, <2>2, <2>3, <2>4 DEF Heard
<1>7. Filed'
    BY <1>1 DEF ParityInv, Filed
<1> QED  BY <1>5, <1>6, <1>7 DEF ParityInv

\* Two calls of the CLIs.
LEMMA RowCompared ==
    ASSUME ParityInv, NEW i \in 1..Len(Rows), i = NextRow,
           NEW a \in NativeAnswers[i], NEW b \in PythonAnswers[i], CompareRow(a, b)
    PROVE  ParityInv'
<1>1. call # NoRun /\ ~call.batch /\ JudgedRows(call, results) /\ Handle(NextRow, a, b)
      /\ UNCHANGED <<call, stream, report, record>>
    BY DEF ParityInv, Judging, CompareRow
<1>2. Fair(a) /\ Fair(b) /\ a \in Answers /\ b \in Answers
    BY AnswersAreFair DEF Answers, AllAnswers
<1>3. NextRow <= Len(Rows)
    BY RowsCounted
<1>4. JudgedRows(call, results')
    BY <1>1, <1>2, <1>3, RowHandled
<1>5. Judging'
    BY <1>1, <1>4 DEF Judging, JudgedRows
<1>6. Heard'
    BY <1>1 DEF ParityInv, Heard
<1>7. Filed'
    BY <1>1 DEF ParityInv, Filed
<1> QED  BY <1>5, <1>6, <1>7 DEF ParityInv

\* A row of two streams: both sides have answered it, or will not.
LEMMA RowYielded ==
    ASSUME ParityInv, YieldRow
    PROVE  ParityInv'
<1> DEFINE line(s) == IF Len(stream[s].got) >= NextRow THEN stream[s].got[NextRow] ELSE <<>>
           heard(s) == [plan |-> line(s), cmds |-> <<>>, end |-> "done"]
           a == heard("native")
           b == heard("python")
<1>1. /\ call # NoRun /\ call.batch /\ JudgedRows(call, results) /\ NextRow <= Len(Rows)
      /\ UNCHANGED <<call, stream, report, record>>
      /\ call.mode = "plan"
    BY DEF ParityInv, Judging, YieldRow
<1>2. Handle(NextRow, a, b)
    BY DEF YieldRow, Sides
<1>3. NextRow \in Nat \ {0} /\ Len(results) \in Nat /\ NextRow = Len(results) + 1
    BY <1>1 DEF JudgedRows, NextRow
<1>4. ASSUME NEW s \in Sides PROVE line(s) \in Plans /\ HeardOf(stream[s], line(s), NextRow)
    <2>1. stream[s].got \in Seq(Plans)
        BY DEF ParityInv, Heard, StreamRecords
    <2>2. Len(stream[s].got) \in Nat /\ (Len(stream[s].got) >= NextRow \/ stream[s].done)
        BY <2>1 DEF YieldRow
    <2>3. CASE Len(stream[s].got) >= NextRow
        BY <2>1, <2>2, <2>3, <1>3 DEF HeardOf
    <2>4. CASE ~(Len(stream[s].got) >= NextRow)
        <3>1. line(s) = <<>> /\ <<>> \in Plans
            BY <2>4 DEF Plans
        <3> HIDE DEF line
        <3> QED  BY <2>2, <2>4, <1>3, <3>1 DEF HeardOf
    <2> QED  BY <2>3, <2>4
<1> HIDE DEF line
<1>5. "native" \in Sides /\ "python" \in Sides
    BY DEF Sides
<1>6. Fair(a) /\ a \in Answers /\ Fair(b) /\ b \in Answers
    BY <1>4, <1>5, PlansAreFair
<1>7. a.plan = line("native") /\ b.plan = line("python")
    OBVIOUS
<1> HIDE DEF a, b
<1>8. /\ JudgedRows(call, results') /\ Len(results') = Len(results) + 1
      /\ \A i \in 1..Len(results) : results'[i] = results[i]
      /\ results'[Len(results) + 1].native = a /\ results'[Len(results) + 1].python = b
    BY <1>1, <1>2, <1>6, RowHandled
<1>9. Judging'
    BY <1>1, <1>8 DEF Judging, JudgedRows
<1>10. Heard'
    <2>1. ASSUME NEW i \in 1..Len(results')
          PROVE  /\ HeardOf(stream["native"], results'[i].native.plan, i)
                 /\ HeardOf(stream["python"], results'[i].python.plan, i)
        <3>1. CASE i \in 1..Len(results)
            BY <3>1, <1>1, <1>8 DEF ParityInv, Heard
        <3>2. CASE i = NextRow
            BY <3>2, <1>3, <1>4, <1>5, <1>7, <1>8
        <3> QED  BY <3>1, <3>2, <1>3, <1>8
    <2> QED  BY <2>1, <1>1 DEF ParityInv, Heard
<1>11. Filed'
    BY <1>1 DEF ParityInv, Filed
<1> QED  BY <1>9, <1>10, <1>11 DEF ParityInv

\* The run directory, and the record the gate makes of it.
LEMMA RunFiled ==
    ASSUME ParityInv, FinishCall \/ RecordParityRun
    PROVE  ParityInv'
<1>1. CASE FinishCall
    <2>1. call # NoRun /\ JudgedRows(call, results) /\ call' = NoRun /\ results' = <<>> /\ stream' = Silent /\ record' = record
        BY <1>1 DEF ParityInv, Judging, FinishCall
    <2>2. Judging'
        BY <2>1 DEF Judging
    <2>3. Heard'
        <3>1. \A s \in Sides : stream'[s] = [said |-> <<>>, pipe |-> <<>>, got |-> <<>>, alive |-> FALSE, done |-> TRUE]
            BY <2>1 DEF Silent
        <3>2. stream' \in [Sides -> StreamRecords]
            BY <2>1 DEF Silent, StreamRecords
        <3>3. \A s \in Sides : Piped(stream'[s])
            <4> SUFFICES ASSUME NEW s \in Sides PROVE Piped(stream'[s])
                OBVIOUS
            <4>1. /\ Len(stream'[s].said) = 0 /\ Len(stream'[s].got) = 0 /\ Len(stream'[s].pipe) = 0
                  /\ ~stream'[s].alive /\ stream'[s].pipe = <<>>
                BY <3>1
            <4> QED  BY <4>1, RowsCounted DEF Piped, Flows
        <3> QED  BY <2>1, <3>2, <3>3 DEF Heard
    <2>4. Filed'
        <3>1. CASE call.label
            <4> DEFINE run == [judged |-> TRUE, passed |-> L3Verdict(results, call.bound), call |-> call, rows |-> results]
            <4>1. report' = run
                BY <1>1, <3>1 DEF FinishCall
            <4>2. JudgedRun(run)
                BY <2>1 DEF JudgedRun
            <4> HIDE DEF run
            <4> QED  BY <4>1, <4>2, <2>1 DEF ParityInv, Filed
        <3>2. CASE ~call.label
            BY <1>1, <3>2, <2>1 DEF FinishCall, ParityInv, Filed
        <3> QED  BY <3>1, <3>2
    <2> QED  BY <2>2, <2>3, <2>4 DEF ParityInv
<1>2. CASE RecordParityRun
    <2>1. UNCHANGED <<call, results, stream, report>> /\ report # NoRun
          /\ record' = [passed |-> report.judged /\ report.passed, run |-> report]
        BY <1>2 DEF RecordParityRun
    <2>2. record'.passed = (report.judged /\ report.passed) /\ record'.run = report
        BY <2>1
    <2>3. Filed'
        BY <2>1, <2>2 DEF ParityInv, Filed
    <2>4. Judging' /\ Heard'
        BY <2>1 DEF ParityInv, Judging, Heard
    <2> QED  BY <2>3, <2>4 DEF ParityInv
<1> QED  BY <1>1, <1>2

LEMMA ParityStep == ParityInv /\ [ParityNext]_parityVars => ParityInv'
<1> SUFFICES ASSUME ParityInv, [ParityNext]_parityVars PROVE ParityInv'
    OBVIOUS
<1>0. DOMAIN Rows = 1..Len(Rows)
    BY ParityAssumption
<1>1. CASE \E s \in Calls : StartCall(s)
    BY <1>1, CallStarts
<1>2. CASE \E i \in DOMAIN Rows : i = NextRow /\ \E a \in NativeAnswers[i], b \in PythonAnswers[i] : CompareRow(a, b)
    BY <1>0, <1>2, RowCompared
<1>3. ASSUME NEW s \in Sides, \/ \E plan \in Plans : Say(s, plan)
                              \/ Stop(s) \/ ReadLine(s) \/ CloseReader(s)
      PROVE  ParityInv'
    <2>1. UNCHANGED <<call, results, report, record>>
        BY <1>3 DEF Say, Stop, ReadLine, CloseReader
    <2>2. Heard'
        BY <1>3, StreamSteps DEF ParityInv
    <2>3. Judging' /\ Filed'
        BY <2>1 DEF ParityInv, Judging, Filed
    <2> QED  BY <2>2, <2>3 DEF ParityInv
<1>4. CASE \E i \in DOMAIN Rows :
              \/ \E a \in NativeAnswers[i] : i = Len(stream["native"].said) + 1 /\ Say("native", a.plan)
              \/ \E b \in PythonAnswers[i] : i = Len(stream["python"].said) + 1 /\ Say("python", b.plan)
    <2>1. PICK i \in 1..Len(Rows) : \/ \E a \in NativeAnswers[i] : Say("native", a.plan)
                                    \/ \E b \in PythonAnswers[i] : Say("python", b.plan)
        BY <1>0, <1>4
    <2>2. "native" \in Sides /\ "python" \in Sides
        BY DEF Sides
    <2>3. \/ \E plan \in Plans : Say("native", plan)
          \/ \E plan \in Plans : Say("python", plan)
        BY <2>1, AnswersAreFair
    <2> QED  BY <1>3, <2>2, <2>3
<1>5. CASE \E s \in Sides : Stop(s) \/ ReadLine(s) \/ CloseReader(s)
    BY <1>3, <1>5
<1>6. CASE YieldRow
    BY <1>6, RowYielded
<1>7. CASE FinishCall \/ RecordParityRun
    BY <1>7, RunFiled
<1>8. CASE UNCHANGED parityVars
    BY <1>8 DEF parityVars, ParityInv, Heard, Judging, Filed
<1> QED  BY <1>1, <1>2, <1>4, <1>5, <1>6, <1>7, <1>8 DEF ParityNext

LEMMA ParityInvariant == ParitySpec => []ParityInv
<1> QED  BY HeardInit, ParityStep, PTL DEF ParitySpec

\* A row of two streams is compared on what each side answered to it, and is
\* scored as missing only when that side never did, however the two sides, their
\* readers and the comparison interleave (parity_check.py:707-727).
THEOREM ParityAnswersHeard == ParitySpec => []AnswersHeard
<1>1. ParityInv => AnswersHeard
    <2> SUFFICES ASSUME ParityInv, call # NoRun, call.batch, NEW i \in 1..Len(results), NEW s \in Sides
                 PROVE  LET st == stream[s]
                        IN  results[i][s].plan = IF i <= Len(st.said) THEN st.said[i] ELSE <<>>
        BY DEF AnswersHeard, ParityInv, Judging
    <2> DEFINE st == stream[s]
    <2>1. i \in 1..Len(results) /\ Len(results) \in Nat
        BY DEF ParityInv, Judging
    <2>2. st.said \in Seq(Plans) /\ st.got \in Seq(Plans) /\ st.pipe \in Seq(Plans) /\ Piped(st)
        BY DEF ParityInv, Heard, StreamRecords
    <2>3. HeardOf(st, results[i][s].plan, i)
        BY <2>1 DEF ParityInv, Heard, Sides
    <2> HIDE DEF st
    <2>4. i \in Nat \ {0} /\ Len(st.said) \in Nat /\ Len(st.got) \in Nat
        BY <2>1, <2>2
    <2>5. i <= Len(st.got) => i <= Len(st.said) /\ st.said[i] = st.got[i]
        BY <2>2, <2>4, FlowsHeard DEF Piped
    <2>6. ASSUME i <= Len(st.got) PROVE results[i][s].plan = IF i <= Len(st.said) THEN st.said[i] ELSE <<>>
        BY <2>3, <2>5, <2>6 DEF HeardOf
    <2>7. ASSUME ~(i <= Len(st.got)) PROVE results[i][s].plan = IF i <= Len(st.said) THEN st.said[i] ELSE <<>>
        <3>1. st.done /\ results[i][s].plan = <<>>
            BY <2>3, <2>7 DEF HeardOf
        <3>2. Len(st.said) = Len(st.got)
            BY <3>1, <2>2, FlowsHeard DEF Piped
        <3> QED  BY <3>1, <3>2, <2>7
    <2> QED  BY <2>6, <2>7 DEF st
<1> QED  BY <1>1, ParityInvariant, PTL

\* What a verdict counts, of rows that were judged.
LEMMA CountsAreNumbers ==
    ASSUME NEW rs \in Seq(RowRecords), NEW buckets
    PROVE  /\ IsFiniteSet({i \in DOMAIN rs : rs[i].status \in buckets})
           /\ Counted(rs, buckets) \in Nat
           /\ Counted(rs, buckets) = 0 => \A i \in DOMAIN rs : rs[i].status \notin buckets
<1>1. IsFiniteSet(DOMAIN rs)
    <2>1. DOMAIN rs = 1..Len(rs) /\ 1 \in Int /\ Len(rs) \in Int
        OBVIOUS
    <2> QED  BY <2>1, FS_Interval
<1>2. IsFiniteSet({i \in DOMAIN rs : rs[i].status \in buckets})
    BY <1>1, FS_Subset
<1> QED  BY <1>2, FS_CardinalityType, FS_EmptySet DEF Counted

\* A row of a run that passed is neither a porting defect nor unbuilt.
LEMMA PassedRows ==
    ASSUME NEW run, JudgedRun(run), run.passed, NEW i \in DOMAIN run.rows
    PROVE  /\ run.rows[i].status \notin {"port-bug", "native-not-implemented"}
           /\ i \in 1..Len(Rows) /\ JudgedRow(run.call, run.rows[i], i)
           /\ run.rows[i].quiet /\ run.call.mode = "command" =>
                  run.rows[i].native.cmds = <<>> /\ run.rows[i].python.cmds = <<>>
           /\ run.call.mode = "command" => run.rows[i].native.end # "previews"
<1>1. run.rows \in Seq(RowRecords) /\ Len(run.rows) <= Len(Rows) /\ L3Verdict(run.rows, run.call.bound)
      /\ \A k \in 1..Len(run.rows) : JudgedRow(run.call, run.rows[k], k)
    BY DEF JudgedRun, JudgedRows
<1>2. i \in 1..Len(run.rows) /\ i \in 1..Len(Rows) /\ JudgedRow(run.call, run.rows[i], i)
    BY <1>1, RowsCounted
<1>3. run.rows[i].status \notin {"port-bug", "native-not-implemented"}
    BY <1>1, CountsAreNumbers DEF L3Verdict
<1> QED  BY <1>2, <1>3, ParityAssumption DEF JudgedRow

\* Evidence that passed in command mode holds no row on which the runtimes had
\* the same plan and did something else: for every corpus, whatever either
\* runtime answers, and however the harness was called
\* (parity_check.py l3_verdict and compare, gate.py:1299-1303).
THEOREM ParityPortBugsFailL3 == ParitySpec => []PortBugsFailL3
<1>1. ParityInv => PortBugsFailL3
    <2> SUFFICES ASSUME ParityInv, record # NoRun, record.passed, record.run.call.mode = "command",
                        NEW i \in DOMAIN record.run.rows,
                        Planned(record.run, record.run.rows[i]),
                        SameWork(record.run.rows[i].native.plan, record.run.rows[i].python.plan)
                 PROVE  ~Misported(record.run.rows[i])
        BY DEF PortBugsFailL3
    <2> DEFINE r == record.run.rows[i]
    <2>1. JudgedRun(record.run) /\ record.run.passed
        BY DEF ParityInv, Filed
    <2>2. /\ r.status \notin {"port-bug", "native-not-implemented"}
          /\ JudgedRow(record.run.call, r, i)
          /\ r.quiet => r.native.cmds = <<>> /\ r.python.cmds = <<>>
          /\ r.native.end # "previews"
        BY <2>1, PassedRows
    <2>3. ~record.run.call.older /\ r.native.plan # <<>> /\ r.python.plan # <<>>
        BY DEF Planned
    <2>4. Misported(r) => JudgedBy(record.run.call, r.native, r.python, r.quiet) = "port-bug"
        BY <2>2, <2>3, PortBugSeen DEF JudgedRow
    <2> QED  BY <2>2, <2>4 DEF JudgedRow
<1> QED  BY <1>1, ParityInvariant, PTL

LEMMA TimesMonotone ==
    ASSUME NEW a \in Nat, NEW b \in Nat, NEW k \in Nat, NEW c \in Int, a <= b, b * k <= c
    PROVE  a * k <= c
<1>1. a * k <= b * k /\ a * k \in Int /\ b * k \in Int
    OBVIOUS
<1> QED  BY <1>1

\* Evidence that passed holds no more rows of plainly different work than the
\* bound that was written before the run allows (parity_check.py:923, 1204).
THEOREM ParityDisagreementBounded == ParitySpec => []DisagreementBounded
<1>1. ParityInv => DisagreementBounded
    <2> DEFINE run == record.run
               apart == {i \in DOMAIN run.rows : Apart(run, run.rows[i])}
               told == {i \in DOMAIN run.rows : run.rows[i].status \in {"mismatch", "decline-divergence"}}
    <2> SUFFICES ASSUME ParityInv, record # NoRun, record.passed
                 PROVE  Cardinality(apart) * run.call.bound.in <= run.call.bound.of * Gated(run.rows)
        BY DEF DisagreementBounded
    <2>1. JudgedRun(run) /\ run.passed
        BY DEF ParityInv, Filed
    <2>2. /\ run.call \in CallRecords /\ run.call.mode \in {"command", "plan"} /\ run.call.bound.in \in Nat
          /\ run.rows \in Seq(RowRecords) /\ L3Verdict(run.rows, run.call.bound)
        BY <2>1 DEF JudgedRun, JudgedRows, CallRecords
    <2>3. apart \subseteq told
        <3> SUFFICES ASSUME NEW i \in DOMAIN run.rows, Apart(run, run.rows[i])
                     PROVE  run.rows[i].status \in {"mismatch", "decline-divergence"}
            OBVIOUS
        <3>1. /\ JudgedRow(run.call, run.rows[i], i)
              /\ run.call.mode = "command" => /\ run.rows[i].native.end # "previews"
                                              /\ run.rows[i].quiet => run.rows[i].native.cmds = <<>> /\ run.rows[i].python.cmds = <<>>
            BY <2>1, PassedRows
        <3> HIDE DEF run
        <3>2. JudgedBy(run.call, run.rows[i].native, run.rows[i].python, run.rows[i].quiet) \in {"mismatch", "decline-divergence"}
            BY <3>1, <2>2, ApartSeen DEF JudgedRow
        <3> QED  BY <3>1, <3>2 DEF JudgedRow
    <2>4. IsFiniteSet(told) /\ Cardinality(told) = Counted(run.rows, {"mismatch", "decline-divergence"})
        BY <2>2, CountsAreNumbers DEF Counted
    <2>5. Cardinality(apart) \in Nat /\ Cardinality(told) \in Nat /\ Cardinality(apart) <= Cardinality(told)
        BY <2>3, <2>4, FS_Subset, FS_CardinalityType
    <2>6. Cardinality(told) * run.call.bound.in <= run.call.bound.of * Gated(run.rows)
        BY <2>2, <2>4 DEF L3Verdict
    <2>7. run.call.bound.of * Gated(run.rows) \in Int
        <3>1. run.call.bound.of \in Nat
            BY <2>2 DEF CallRecords
        <3>2. Gated(run.rows) \in Int
            <4> HIDE DEF run
            <4>1. run.rows \in Seq(RowRecords)
                BY <2>2
            <4>2. Len(run.rows) \in Int
                BY <4>1
            <4>3. Counted(run.rows, {"not-comparable"}) \in Nat
                BY <4>1, CountsAreNumbers
            <4> QED  BY <4>2, <4>3 DEF Gated
        <3> QED  BY <3>1, <3>2
    <2> HIDE DEF run, apart, told
    <2>8. Cardinality(apart) * run.call.bound.in <= run.call.bound.of * Gated(run.rows)
        BY <2>2, <2>5, <2>6, <2>7, TimesMonotone
    <2> QED  BY <2>8 DEF run, apart
<1> QED  BY <1>1, ParityInvariant, PTL

---------------------------------------------------------------------------
\* A board against a locked one (RegressionGate).  A skill for which no board of
\* an unnamed model was ever locked keeps one file a model: the default file,
\* or one of its own once the default file holds another's.

Default(skill) == <<skill, "default">>

\* The board last locked for a model of the skill is where a check looks for it.
Kept(skill, model) ==
    /\ Default(skill) \in DOMAIN held /\ model # Unnamed /\ model # "default"
    /\ LET file == IF held[Default(skill)].model = model THEN Default(skill) ELSE <<skill, model>>
       IN  file \in DOMAIN held /\ held[file] = locked[<<skill, model>>]

\* A board of a named model says how it was measured.
Said(fresh) ==
    fresh.model # Unnamed =>
        /\ fresh.model # "default"
        /\ \A key \in Identity \ {"verifier"} : fresh[key] # Undeclared

GateInv ==
    /\ policy \in Nat
    /\ \A name \in DOMAIN saved : Said(saved[name])
    /\ \A key \in DOMAIN locked : key = <<key[1], key[2]>> /\ \A id \in Identity : locked[key][id] # Undeclared
    /\ \A skill, model : <<skill, model>> \in DOMAIN locked /\ skill \notin muddled => Kept(skill, model)
    /\ \A skill : skill \notin muddled /\ Default(skill) \in DOMAIN held => held[Default(skill)].model # Unnamed
    /\ verdict.ok \in BOOLEAN
    /\ PassedOwnBar

LEMMA BoardsAreSaid ==
    ASSUME policy \in Nat, NEW skill, NEW b \in DOMAIN Backends, NEW verifier, NEW how \in Settings, NEW grade
    PROVE  Said(Board(skill, b, verifier, how, grade))
BY GateAssumption DEF Said, Board, Identity

\* Boards made and saved: nothing is locked or checked.
LEMMA BoardsMade ==
    ASSUME GateInv, UNCHANGED <<held, verdict, locked, muddled>>, policy' \in Nat,
           \A name \in DOMAIN saved' : Said(saved'[name])
    PROVE  GateInv'
BY DEF GateInv, Kept, PassedOwnBar

LEMMA BoardLocked ==
    ASSUME GateInv, NEW name \in DOMAIN saved, Lock(name)
    PROVE  GateInv'
<1> DEFINE fresh == saved[name]
           skill == name[1]
           file == SnapshotFile(skill, fresh.model)
<1>1. /\ held' = Put(held, file, fresh)
      /\ UNCHANGED <<policy, saved, verdict>> /\ fresh.verifier \in ExecutingVerifiers /\ Said(fresh)
      /\ fresh.model = Unnamed => muddled' = muddled \cup {skill} /\ locked' = locked
      /\ fresh.model # Unnamed => locked' = Put(locked, <<skill, fresh.model>>, fresh) /\ muddled' = muddled
    BY DEF Lock, GateInv
<1>2. DOMAIN held' = DOMAIN held \cup {file} /\ held'[file] = fresh
      /\ \A f \in DOMAIN held : f # file => held'[f] = held[f]
    BY <1>1 DEF Put
<1>3. file = Default(skill) \/ (file = <<skill, fresh.model>> /\ fresh.model # Unnamed /\ Default(skill) \in DOMAIN held
                                   /\ held[Default(skill)].model # fresh.model)
    BY DEF SnapshotFile, Default
<1>4. \A other : other # skill => /\ Default(other) # file
                                  /\ \A model : <<other, model>> # file
    BY <1>3 DEF Default
<1> HIDE DEF file, fresh, skill
<1>5. /\ policy' \in Nat /\ \A n \in DOMAIN saved' : Said(saved'[n])
      /\ verdict'.ok \in BOOLEAN /\ PassedOwnBar'
    BY <1>1 DEF GateInv, PassedOwnBar
<1>6. CASE fresh.model = Unnamed
    <2>1. \A other, model : <<other, model>> \in DOMAIN locked' /\ other \notin muddled' => Kept(other, model)'
        <3> SUFFICES ASSUME NEW other, NEW model, <<other, model>> \in DOMAIN locked, other \notin muddled, other # skill
                     PROVE  Kept(other, model)'
            BY <1>1, <1>6
        <3> QED  BY <1>1, <1>2, <1>4, <1>6 DEF GateInv, Kept
    <2>2. \A other : other \notin muddled' /\ Default(other) \in DOMAIN held' => held'[Default(other)].model # Unnamed
        BY <1>1, <1>2, <1>4, <1>6 DEF GateInv
    <2> QED  BY <1>1, <1>5, <1>6, <2>1, <2>2 DEF GateInv
<1>7. CASE fresh.model # Unnamed
    <2> DEFINE mine == <<skill, fresh.model>>
    <2>1. /\ DOMAIN locked' = DOMAIN locked \cup {mine} /\ locked'[mine] = fresh
          /\ \A key \in DOMAIN locked : key # mine => locked'[key] = locked[key]
          /\ muddled' = muddled
        BY <1>1, <1>7 DEF Put
    <2>2. \A id \in Identity : fresh[id] # Undeclared
        BY <1>1, <1>7, GateAssumption DEF Said, Identity
    <2>3. \A key \in DOMAIN locked' : key = <<key[1], key[2]>> /\ \A id \in Identity : locked'[key][id] # Undeclared
        BY <2>1, <2>2 DEF GateInv
    <2>4. Default(skill) \in DOMAIN held'
        BY <1>2, <1>3
    <2>5. skill \notin muddled /\ Default(skill) \in DOMAIN held =>
              held'[Default(skill)].model = held[Default(skill)].model
        <3> SUFFICES ASSUME skill \notin muddled, Default(skill) \in DOMAIN held
                     PROVE  held'[Default(skill)].model = held[Default(skill)].model
            OBVIOUS
        <3>1. held[Default(skill)].model # Unnamed
            BY DEF GateInv
        <3>2. file = IF held[Default(skill)].model = fresh.model THEN Default(skill) ELSE <<skill, fresh.model>>
            BY <1>7, <3>1 DEF file, SnapshotFile, Default
        <3>3. <<skill, fresh.model>> # Default(skill)
            BY <1>1, <1>7 DEF Said, Default
        <3> QED  BY <1>2, <3>2, <3>3
    <2>6. skill \notin muddled /\ Default(skill) \notin DOMAIN held => held'[Default(skill)].model = fresh.model
        BY <1>2, <1>3, <2>4
    <2>7. \A other : other \notin muddled' /\ Default(other) \in DOMAIN held' => held'[Default(other)].model # Unnamed
        BY <1>1, <1>2, <1>4, <1>7, <2>1, <2>5, <2>6 DEF GateInv
    <2>8. ASSUME NEW other, NEW model, <<other, model>> \in DOMAIN locked', other \notin muddled'
          PROVE  Kept(other, model)'
        <3>1. CASE other # skill
            BY <3>1, <2>8, <2>1, <1>2, <1>4 DEF GateInv, Kept
        <3>2. CASE other = skill /\ model = fresh.model
            <4>1. model # Unnamed /\ model # "default" /\ locked'[<<other, model>>] = fresh
                BY <1>1, <1>7, <2>1, <3>2 DEF Said
            <4>2. file = IF held'[Default(skill)].model = model THEN Default(skill) ELSE <<skill, model>>
                BY <1>2, <1>3, <2>1, <2>5, <2>8, <3>2 DEF file, SnapshotFile, Default
            <4> QED  BY <4>1, <4>2, <1>2, <2>4, <3>2 DEF Kept
        <3>3. CASE other = skill /\ model # fresh.model
            <4>1. <<skill, model>> \in DOMAIN locked /\ Kept(skill, model) /\ locked'[<<skill, model>>] = locked[<<skill, model>>]
                BY <2>8, <2>1, <3>3 DEF GateInv
            <4>2. held'[Default(skill)].model = held[Default(skill)].model /\ Default(skill) \in DOMAIN held
                BY <4>1, <2>5, <2>8, <2>1, <3>3 DEF Kept
            <4>3. file # <<skill, model>>
                BY <1>3, <3>3, <4>1 DEF Default, Kept
            <4>4. held[Default(skill)].model = model => file # Default(skill)
                BY <1>2, <4>2, <3>3
            <4> QED  BY <4>1, <4>2, <4>3, <4>4, <1>2, <3>3 DEF Kept
        <3> QED  BY <3>1, <3>2, <3>3
    <2> QED  BY <1>5, <2>3, <2>7, <2>8 DEF GateInv
<1> QED  BY <1>6, <1>7

\* A check that passes has held each board against what was locked for its model.
LEMMA ChecksPass ==
    ASSUME GateInv, NEW names, names \subseteq DOMAIN saved, Passes(names),
           \A n \in names : LET file == SnapshotFile(n[1], saved[n].model)
                            IN  file \in DOMAIN held /\ NoRegression(held[file], saved[n])
    PROVE  GateInv'
<1>1. /\ verdict' = [ok |-> TRUE, boards |-> {[skill |-> n[1], board |-> saved[n]] : n \in names}, own |-> locked]
      /\ UNCHANGED <<policy, saved, held, locked, muddled>>
    BY DEF Passes
<1>2. ASSUME NEW n \in names, n[1] \notin muddled, <<n[1], saved[n].model>> \in DOMAIN locked
      PROVE  NoWorse(saved[n], locked[<<n[1], saved[n].model>>])
    <2> DEFINE model == saved[n].model
               bar == locked[<<n[1], model>>]
               file == SnapshotFile(n[1], model)
    <2>1. Kept(n[1], model) /\ \A id \in Identity : bar[id] # Undeclared
        BY <1>2 DEF GateInv
    <2>2. held[file] = bar
        BY <1>2, <2>1 DEF Kept, SnapshotFile, Default, GateInv
    <2>3. NoRegression(bar, saved[n])
        BY <2>2
    <2> QED  BY <2>1, <2>3 DEF NoRegression, Agrees, NoWorse, Identity
<1>3. PassedOwnBar'
    <2> SUFFICES ASSUME NEW checked \in verdict'.boards, checked.skill \notin muddled,
                        <<checked.skill, checked.board.model>> \in DOMAIN locked
                 PROVE  NoWorse(checked.board, locked[<<checked.skill, checked.board.model>>])
        BY <1>1 DEF PassedOwnBar
    <2>1. PICK n \in names : checked = [skill |-> n[1], board |-> saved[n]]
        BY <1>1
    <2> QED  BY <1>2, <2>1
<1> QED  BY <1>1, <1>3 DEF GateInv, Kept

LEMMA GateStep == GateInv /\ [GateNext]_gateVars => GateInv'
<1> SUFFICES ASSUME GateInv, [GateNext]_gateVars PROVE GateInv'
    OBVIOUS
<1>0. policy \in Nat /\ \A name \in DOMAIN saved : Said(saved[name])
    BY DEF GateInv
<1>1. ASSUME NEW b \in DOMAIN Backends, NEW v \in Asked, NEW how \in Settings, NEW s \in Range(Skills), NEW g \in Grades,
             Run(s, b, v, how, g)
      PROVE  GateInv'
    <2>1. UNCHANGED <<policy, held, verdict, locked, muddled>>
          /\ saved' = Put(saved, <<s, b, Board(s, b, v, how, g).verifier>>, Board(s, b, v, how, g))
        BY <1>1 DEF Run, Save
    <2>2. \A name \in DOMAIN saved' : Said(saved'[name])
        BY <2>1, <1>0, BoardsAreSaid DEF Put
    <2> QED  BY <1>0, <2>1, <2>2, BoardsMade
<1>2. ASSUME NEW b \in DOMAIN Backends, NEW v \in Asked, NEW how \in Settings, NEW k \in 1..Len(Skills), NEW g \in Grades,
             Sweep(b, v, how, k, g)
      PROVE  GateInv'
    <2>1. UNCHANGED <<policy, held, verdict, locked, muddled>>
        BY <1>2 DEF Sweep
    <2>2. \A name \in DOMAIN saved' : \/ name \in DOMAIN saved /\ saved'[name] = saved[name]
                                      \/ saved'[name] = Board(name[1], b, v, how, g)
        BY <1>2 DEF Sweep
    <2>3. \A name \in DOMAIN saved' : Said(saved'[name])
        BY <2>2, <1>0, BoardsAreSaid
    <2> QED  BY <1>0, <2>1, <2>3, BoardsMade
<1>3. ASSUME NEW s \in Range(Skills), NEW g \in Grades, ScoreExternal(s, g)
      PROVE  GateInv'
    <2> DEFINE fresh == [skill |-> s, model |-> Unnamed, verifier |-> "success", policy |-> Undeclared,
                         prompt |-> Undeclared, total |-> 1, outcome |-> g.outcome, knaif |-> g.knaif]
    <2>1. UNCHANGED <<policy, held, verdict, locked, muddled>> /\ saved' = Put(saved, <<s, "external", "success">>, fresh)
        BY <1>3 DEF ScoreExternal
    <2>2. Said(fresh)
        BY DEF Said
    <2> HIDE DEF fresh
    <2>3. \A name \in DOMAIN saved' : Said(saved'[name])
        BY <2>1, <2>2, <1>0 DEF Put
    <2> QED  BY <1>0, <2>1, <2>3, BoardsMade
<1>4. CASE NewFolder
    BY <1>0, <1>4, BoardsMade DEF NewFolder
<1>5. CASE NewPolicy
    <2>1. policy' \in Nat
        BY <1>0, <1>5 DEF NewPolicy
    <2> QED  BY <1>0, <1>5, <2>1, BoardsMade DEF NewPolicy
<1>6. ASSUME NEW n \in DOMAIN saved, Lock(n) PROVE GateInv'
    BY <1>6, BoardLocked
<1>7. ASSUME NEW n \in DOMAIN saved, Regression(n) PROVE GateInv'
    <2>1. {n} \subseteq DOMAIN saved /\ Passes({n})
          /\ \A x \in {n} : LET file == SnapshotFile(x[1], saved[x].model)
                            IN  file \in DOMAIN held /\ NoRegression(held[file], saved[x])
        BY <1>7 DEF Regression
    <2> QED  BY <2>1, ChecksPass
<1>8. CASE RegressionAllSkills
    <2> DEFINE names == UNION {SweptNames(skill) : skill \in Range(Skills)}
    <2>1. names \subseteq DOMAIN saved
        BY DEF SweptNames
    <2>2. Passes(names)
          /\ \A n \in names : LET file == SnapshotFile(n[1], saved[n].model)
                              IN  file \in DOMAIN held /\ NoRegression(held[file], saved[n])
        BY <1>8 DEF RegressionAllSkills
    <2> HIDE DEF names
    <2> QED  BY <2>1, <2>2, ChecksPass
<1>9. CASE UNCHANGED gateVars
    BY <1>9 DEF gateVars, GateInv, Kept, PassedOwnBar
<1> QED  BY <1>1, <1>2, <1>3, <1>4, <1>5, <1>6, <1>7, <1>8, <1>9 DEF GateNext

\* A board that passes, of a model that has been locked, is no worse than what
\* was last locked for that model, and was measured the same way: one model's
\* lock never replaces another's bar, for any skills, models, verifiers and
\* order of runs, locks and checks (snapshot.py:16-28, 107-256).
THEOREM GatePassedOwnBar == GateSpec => []PassedOwnBar
<1>1. GateInit => GateInv
    BY DEF GateInit, GateInv, NoVerdict, PassedOwnBar
<1>2. GateInv => PassedOwnBar
    BY DEF GateInv
<1> QED  BY <1>1, <1>2, GateStep, PTL DEF GateSpec

---------------------------------------------------------------------------
\* What the bench measures on.

Placed(had) == \A p \in DOMAIN had : p = Place(p.root, p.at)

\* What a directory holds.
HeldIn(had, root) ==
    [at \in {p.at : p \in {q \in DOMAIN had : q.root = root}} |-> had[Place(root, at)]]

LEMMA MediaIsHeld == Media = HeldIn(disk, Fix)
  BY DEF Media, HeldIn, Below

LEMMA HeldAt ==
    ASSUME NEW had, Placed(had), NEW root
    PROVE  /\ DOMAIN HeldIn(had, root) = {p.at : p \in {q \in DOMAIN had : q.root = root}}
           /\ \A at : at \in DOMAIN HeldIn(had, root) <=> Place(root, at) \in DOMAIN had
<1>1. DOMAIN HeldIn(had, root) = {p.at : p \in {q \in DOMAIN had : q.root = root}}
  BY DEF HeldIn
<1>2. ASSUME NEW at, at \in DOMAIN HeldIn(had, root) PROVE Place(root, at) \in DOMAIN had
  <2>1. PICK p \in {q \in DOMAIN had : q.root = root} : at = p.at
    BY <1>1, <1>2
  <2> QED BY <2>1 DEF Placed
<1>3. ASSUME NEW at, Place(root, at) \in DOMAIN had PROVE at \in DOMAIN HeldIn(had, root)
  <2>1. Place(root, at).root = root /\ Place(root, at).at = at
    BY DEF Place
  <2> QED BY <1>1, <1>3, <2>1
<1> QED BY <1>1, <1>2, <1>3

\* A directory that holds files at ats, and the bytes each of them has.
LEMMA HeldIs ==
    ASSUME NEW had, Placed(had), NEW root, NEW ats,
           \A at : Place(root, at) \in DOMAIN had <=> at \in ats
    PROVE  HeldIn(had, root) = [at \in ats |-> had[Place(root, at)]]
<1>1. \A at : at \in DOMAIN HeldIn(had, root) <=> at \in ats
  BY HeldAt
<1>2. DOMAIN HeldIn(had, root) = ats
  BY <1>1
<1> QED BY <1>2 DEF HeldIn

\* Two folders that agree below a directory hold the same there.
LEMMA HeldAlike ==
    ASSUME NEW had, NEW new, Placed(had), Placed(new), NEW root,
           \A at : /\ Place(root, at) \in DOMAIN new <=> Place(root, at) \in DOMAIN had
                   /\ Place(root, at) \in DOMAIN had => new[Place(root, at)] = had[Place(root, at)]
    PROVE  HeldIn(new, root) = HeldIn(had, root)
<1> DEFINE d == DOMAIN HeldIn(had, root)
<1>1. \A at : Place(root, at) \in DOMAIN had <=> at \in d
  BY HeldAt
<1> HIDE DEF d
<1>2. \A at : Place(root, at) \in DOMAIN new <=> at \in d
  BY <1>1
<1>3. HeldIn(had, root) = [at \in d |-> had[Place(root, at)]]
  BY <1>1, HeldIs
<1>4. HeldIn(new, root) = [at \in d |-> new[Place(root, at)]]
  BY <1>2, HeldIs
<1>5. \A at \in d : new[Place(root, at)] = had[Place(root, at)]
  BY <1>1
<1> QED BY <1>3, <1>4, <1>5

LEMMA PlacesDiffer ==
    ASSUME NEW root, NEW dir, root # dir, NEW a, NEW b
    PROVE  Place(root, a) # Place(dir, b)
<1>1. Place(root, a).root = root /\ Place(dir, b).root = dir
  BY DEF Place
<1> QED BY <1>1

\* A file that is written below one directory leaves the others alone.
LEMMA WrittenBelow ==
    ASSUME NEW had, Placed(had), NEW dir, NEW at, NEW bytes
    PROVE  LET new == With(had, Place(dir, at), bytes)
           IN  /\ Placed(new)
               /\ HeldIn(new, dir) = With(HeldIn(had, dir), at, bytes)
               /\ \A root : root # dir => HeldIn(new, root) = HeldIn(had, root)
<1> DEFINE new == With(had, Place(dir, at), bytes)
<1>1. /\ DOMAIN new = DOMAIN had \cup {Place(dir, at)}
      /\ new[Place(dir, at)] = bytes
      /\ \A q \in DOMAIN had : q # Place(dir, at) => new[q] = had[q]
  BY DEF With
<1> HIDE DEF new
<1>2. Placed(new)
  <2>1. Place(dir, at) = Place(Place(dir, at).root, Place(dir, at).at)
    BY DEF Place
  <2> QED BY <1>1, <2>1 DEF Placed
<1>3. ASSUME NEW root, root # dir PROVE HeldIn(new, root) = HeldIn(had, root)
  <2>1. \A a : Place(root, a) # Place(dir, at)
    BY <1>3, PlacesDiffer
  <2> QED BY <1>1, <1>2, <2>1, HeldAlike
<1>4. HeldIn(new, dir) = With(HeldIn(had, dir), at, bytes)
  <2>1. \A a : Place(dir, a) = Place(dir, at) <=> a = at
    <3>1. \A a : Place(dir, a).at = a
      BY DEF Place
    <3> QED BY <3>1
  <2> DEFINE d == DOMAIN HeldIn(had, dir) \cup {at}
  <2>2. \A a : Place(dir, a) \in DOMAIN new <=> a \in d
    BY <1>1, <2>1, HeldAt
  <2>3. \A a \in d : new[Place(dir, a)] = IF a = at THEN bytes ELSE HeldIn(had, dir)[a]
    <3> SUFFICES ASSUME NEW a \in d PROVE new[Place(dir, a)] = IF a = at THEN bytes ELSE HeldIn(had, dir)[a]
      OBVIOUS
    <3>1. CASE a = at
      BY <1>1, <3>1
    <3>2. CASE a # at
      <4>1. a \in DOMAIN HeldIn(had, dir) /\ Place(dir, a) # Place(dir, at)
        BY <3>2, <2>1
      <4>2. Place(dir, a) \in DOMAIN had /\ HeldIn(had, dir)[a] = had[Place(dir, a)]
        BY <4>1, HeldAt DEF HeldIn
      <4> QED BY <1>1, <3>2, <4>1, <4>2
    <3> QED BY <3>1, <3>2
  <2>4. HeldIn(new, dir) = [a \in d |-> new[Place(dir, a)]]
    <3> HIDE DEF d
    <3> QED BY <1>2, <2>2, HeldIs
  <2>5. HeldIn(new, dir) = [a \in d |-> IF a = at THEN bytes ELSE HeldIn(had, dir)[a]]
    BY <2>3, <2>4
  <2> QED BY <2>5 DEF With
<1> QED BY <1>2, <1>3, <1>4 DEF new

\* A provisioned directory holds the fixtures and nothing else.
LEMMA ProvisionedBelow ==
    ASSUME Placed(disk), NEW dir, dir # Fix
    PROVE  LET new == Provisioned(disk, dir)
           IN  /\ Placed(new)
               /\ HeldIn(new, dir) = Media
               /\ \A root : root # dir => HeldIn(new, root) = HeldIn(disk, root)
<1> DEFINE new == Provisioned(disk, dir)
<1>1. /\ DOMAIN new = {p \in DOMAIN disk : p.root # dir} \cup {Place(dir, at) : at \in DOMAIN Media}
      /\ \A p \in DOMAIN new : new[p] = IF p.root = dir THEN Media[p.at] ELSE disk[p]
  BY DEF Provisioned
<1> HIDE DEF new
<1>2. \A root, at : Place(root, at).root = root /\ Place(root, at).at = at
  BY DEF Place
<1>3. Placed(new)
  BY <1>1, <1>2 DEF Placed
<1>4. ASSUME NEW root, root # dir PROVE HeldIn(new, root) = HeldIn(disk, root)
  <2>1. \A at : /\ Place(root, at) \in DOMAIN new <=> Place(root, at) \in DOMAIN disk
                /\ Place(root, at) \in DOMAIN disk => new[Place(root, at)] = disk[Place(root, at)]
    BY <1>1, <1>2, <1>4
  <2> QED BY <1>3, <2>1, HeldAlike
<1>5. HeldIn(new, dir) = Media
  <2>1. \A at : Place(dir, at) \in DOMAIN new <=> at \in DOMAIN Media
    BY <1>1, <1>2
  <2>3. \A at \in DOMAIN Media : new[Place(dir, at)] = Media[at]
    BY <1>1, <1>2, <2>1
  <2>4. HeldIn(new, dir) = [at \in DOMAIN Media |-> new[Place(dir, at)]]
    BY <1>3, <2>1, HeldIs
  <2>5. HeldIn(new, dir) = [at \in DOMAIN Media |-> Media[at]]
    BY <2>3, <2>4
  <2>6. Media = [at \in DOMAIN Media |-> Media[at]]
    BY DEF Media
  <2> QED BY <2>5, <2>6
<1> QED BY <1>3, <1>4, <1>5 DEF new

\* A command writes below the directory it runs in.
LEMMA CommandBelow ==
    ASSUME NEW had, Placed(had), NEW cmd, NEW dir, NEW end \in CommandEnds(had, cmd, dir)
    PROVE  /\ Placed(end.files)
           /\ \A root : root # dir => HeldIn(end.files, root) = HeldIn(had, root)
<1>1. \/ end.files = had
      \/ \E bytes : end.files = With(had, Place(dir, cmd.out.at), bytes)
  BY DEF CommandEnds, Reroot
<1> QED BY <1>1, WrittenBelow

LEMMA DirsDiffer ==
    ASSUME NEW i, NEW j
    PROVE  /\ RowDir(i) # Fix /\ BaseDir(i) # Fix /\ RowDir(i) # BaseDir(j)
           /\ i # j => RowDir(i) # RowDir(j) /\ BaseDir(i) # BaseDir(j)
  BY DEF RowDir, BaseDir, Fix

---------------------------------------------------------------------------
\* The media a run measures on.

JobFields == {"verifier", "phase", "k", "integrity", "plan", "saw", "outs", "refs", "recorded", "disturbed"}

\* What the caches hold was generated.
CacheInv == \A f \in DOMAIN cache.content : cache.content[f][1] = "generated"

\* A run nobody disturbed has worked on the media that are there now.
OnMedia(seen) == job.verifier \in Executing /\ (~job.disturbed => seen = Media)

MediaKnown ==
    /\ DOMAIN job = JobFields
    /\ job.outs \in Seq(Range(job.outs))
    /\ job.phase = "command" => OnMedia(job.saw)
    /\ \A i \in DOMAIN job.outs : job.outs[i].ran => OnMedia(job.outs[i].saw)
    /\ job.verifier \in Executing /\ job.integrity = {} /\ ~job.disturbed =>
          \A f \in job.recorded : f \in DOMAIN Media /\ Media[f][1] = "generated"

BenchInv ==
    /\ Placed(disk)
    /\ CacheInv
    /\ job # Idle => MediaKnown
    /\ KnownMedia

LEMMA BenchInit == Init => BenchInv
<1> SUFFICES ASSUME Init PROVE BenchInv
  OBVIOUS
<1>1. PICK remade \in {{}, Fixtures} :
          LET media == [f \in remade |-> Generated(f, 1)]
          IN  /\ disk = [p \in {Place(Fix, f) : f \in remade} |-> media[p.at]]
              /\ cache = [cmd |-> [f \in remade |-> 1], content |-> media]
  BY DEF Init
<1>2. Placed(disk)
  <2>1. \A f : Place(Fix, f) = Place(Place(Fix, f).root, Place(Fix, f).at)
    BY DEF Place
  <2> QED BY <1>1, <2>1 DEF Placed
<1>3. CacheInv
  BY <1>1 DEF CacheInv, Generated
<1> QED BY <1>2, <1>3 DEF Init, BenchInv, KnownMedia

\* What a step of the bench leaves as it is.
LEMMA MediaSame ==
    ASSUME BenchInv, Media' = Media, Placed(disk)', UNCHANGED cache,
           job # Idle => /\ DOMAIN job' = JobFields
                         /\ job'.outs \in Seq(Range(job'.outs))
                         /\ job'.verifier = job.verifier /\ job'.disturbed = job.disturbed
                         /\ job'.integrity = job.integrity /\ job'.recorded = job.recorded
                         /\ job'.phase = "command" => OnMedia(job'.saw)
                         /\ \A i \in DOMAIN job'.outs : job'.outs[i].ran => OnMedia(job'.outs[i].saw),
           job = Idle => job' = job,
           UNCHANGED board
    PROVE  BenchInv'
<1>1. CacheInv' /\ KnownMedia'
  BY DEF BenchInv, CacheInv, KnownMedia
<1>2. job' # Idle => MediaKnown'
  BY DEF BenchInv, MediaKnown, OnMedia
<1> QED BY <1>1, <1>2 DEF BenchInv

LEMMA AppendRange ==
    ASSUME NEW outs, outs \in Seq(Range(outs)), NEW row
    PROVE  LET new == Append(outs, row)
           IN  /\ new \in Seq(Range(new)) /\ Len(new) = Len(outs) + 1 /\ DOMAIN new = 1..(Len(outs) + 1)
               /\ DOMAIN outs = 1..Len(outs) /\ Len(outs) \in Nat
               /\ new[Len(outs) + 1] = row
               /\ \A i \in DOMAIN outs : new[i] = outs[i]
<1> DEFINE new == Append(outs, row)
<1> DEFINE S == Range(outs) \cup {row}
<1>1. outs \in Seq(S) /\ row \in S
  OBVIOUS
<1>2. new \in Seq(S) /\ Len(new) = Len(outs) + 1 /\ Len(outs) \in Nat
  BY <1>1
<1> HIDE DEF S
<1>3. /\ DOMAIN outs = 1..Len(outs)
      /\ new[Len(outs) + 1] = row /\ \A i \in 1..Len(outs) : new[i] = outs[i]
  BY <1>1
<1> HIDE DEF new
<1>4. DOMAIN new = 1..(Len(outs) + 1) /\ new \in [1..Len(new) -> S]
  BY <1>2
<1>5. \A i \in DOMAIN new : new[i] \in Range(new)
  BY DEF Range
<1>6. new \in [1..Len(new) -> Range(new)]
  BY <1>2, <1>4, <1>5
<1>7. new \in Seq(Range(new))
  BY <1>2, <1>6
<1> QED BY <1>2, <1>3, <1>4, <1>7 DEF new

LEMMA RecordIs ==
    ASSUME DOMAIN job = JobFields, NEW outcome, NEW artifact, NEW ran, NEW answer, NEW seen,
           job' = Record(outcome, artifact, ran, answer, seen)
    PROVE  /\ DOMAIN job' = JobFields
           /\ job'.verifier = job.verifier /\ job'.disturbed = job.disturbed
           /\ job'.integrity = job.integrity /\ job'.recorded = job.recorded
           /\ job'.refs = job.refs /\ job'.k = 1
           /\ job'.phase = IF Current < Len(Corpus) THEN "row"
                           ELSE IF job.verifier = "output_diff" THEN "base" ELSE "score"
           /\ job'.outs = Append(job.outs, [outcome |-> outcome, artifact |-> artifact, ran |-> ran,
                                            plan |-> answer, saw |-> seen])
  BY DEF Record, JobFields

\* A row that is done saw the media if it ran at all.
LEMMA RecordKeeps ==
    ASSUME BenchInv, job # Idle, Media' = Media, Placed(disk)', UNCHANGED <<cache, board>>,
           NEW outcome, NEW artifact, NEW ran, NEW answer, NEW seen, ran => OnMedia(seen),
           job' = Record(outcome, artifact, ran, answer, seen)
    PROVE  BenchInv'
<1>1. MediaKnown
  BY DEF BenchInv
<1> DEFINE row == [outcome |-> outcome, artifact |-> artifact, ran |-> ran, plan |-> answer, saw |-> seen]
<1>2. /\ DOMAIN job' = JobFields
      /\ job'.verifier = job.verifier /\ job'.disturbed = job.disturbed
      /\ job'.integrity = job.integrity /\ job'.recorded = job.recorded
      /\ job'.phase # "command" /\ job'.outs = Append(job.outs, row)
  BY <1>1, RecordIs DEF MediaKnown
<1>3. row.ran = ran /\ row.saw = seen
  OBVIOUS
<1> HIDE DEF row
<1> DEFINE outs == job.outs
<1>4. outs \in Seq(Range(outs)) /\ \A i \in DOMAIN outs : outs[i].ran => OnMedia(outs[i].saw)
  BY <1>1 DEF MediaKnown
<1> HIDE DEF outs
<1>5. /\ Append(outs, row) \in Seq(Range(Append(outs, row)))
      /\ \A i \in DOMAIN Append(outs, row) : (i \in DOMAIN outs /\ Append(outs, row)[i] = outs[i]) \/ Append(outs, row)[i] = row
  BY <1>4, AppendRange
<1>6. \A i \in DOMAIN Append(outs, row) : Append(outs, row)[i].ran => OnMedia(Append(outs, row)[i].saw)
  BY <1>3, <1>4, <1>5
<1>7. /\ job'.outs \in Seq(Range(job'.outs))
      /\ \A i \in DOMAIN job'.outs : job'.outs[i].ran => OnMedia(job'.outs[i].saw)
  BY <1>2, <1>5, <1>6 DEF outs
<1> QED BY <1>2, <1>7, MediaSame

\* Whoever writes to the fixtures has disturbed the run.
LEMMA DisturbedKeeps ==
    ASSUME BenchInv, Placed(disk)', CacheInv', job' = Disturbed, UNCHANGED board
    PROVE  BenchInv'
<1>1. KnownMedia'
  BY DEF BenchInv, KnownMedia
<1>2. ASSUME job' # Idle PROVE MediaKnown'
  <2>1. job # Idle /\ job' = [job EXCEPT !.disturbed = TRUE]
    BY <1>2 DEF Disturbed
  <2>2. MediaKnown
    BY <2>1 DEF BenchInv
  <2>3. /\ DOMAIN job' = JobFields /\ job'.disturbed
        /\ job'.outs = job.outs /\ job'.phase = job.phase /\ job'.verifier = job.verifier
    BY <2>1, <2>2 DEF MediaKnown, JobFields
  <2> QED BY <2>2, <2>3 DEF MediaKnown, OnMedia
<1> QED BY <1>1, <1>2 DEF BenchInv

LEMMA HandEditKeeps ==
    ASSUME BenchInv, NEW f, HandEdit(f)
    PROVE  BenchInv' /\ \A root : root # Fix => HeldIn(disk', root) = HeldIn(disk, root)
<1>1. Placed(disk)
  BY DEF BenchInv
<1>2. CASE disk' = With(disk, Place(Fix, f), ByHand)
  BY <1>1, <1>2, WrittenBelow, DisturbedKeeps DEF HandEdit, BenchInv, CacheInv
<1>3. CASE disk' = Without(disk, {Place(Fix, f)})
  <2>1. DOMAIN disk' = DOMAIN disk \ {Place(Fix, f)} /\ \A p \in DOMAIN disk' : disk'[p] = disk[p]
    BY <1>3 DEF Without
  <2>2. Placed(disk')
    BY <1>1, <2>1 DEF Placed
  <2>3. ASSUME NEW root, root # Fix PROVE HeldIn(disk', root) = HeldIn(disk, root)
    <3>1. \A at : Place(root, at) # Place(Fix, f)
      BY <2>3, PlacesDiffer
    <3> QED BY <1>1, <2>1, <2>2, <3>1, HeldAlike
  <2> QED BY <2>2, <2>3, DisturbedKeeps DEF HandEdit, BenchInv, CacheInv
<1> QED BY <1>2, <1>3 DEF HandEdit

LEMMA RegenerateKeeps ==
    ASSUME BenchInv, NEW force, NEW remade, NEW halved, Regenerate(force, remade, halved)
    PROVE  BenchInv' /\ \A root : root # Fix => HeldIn(disk', root) = HeldIn(disk, root)
<1> DEFINE media == [f \in remade \cup halved \cup DOMAIN Media |->
                        IF f \in remade THEN Generated(f, recipe[f]) ELSE IF f \in halved THEN Broken ELSE Media[f]]
<1>1. /\ DOMAIN disk' = DOMAIN disk \cup {Place(Fix, f) : f \in remade \cup halved}
      /\ \A p \in DOMAIN disk' : p.root # Fix => disk'[p] = disk[p]
      /\ cache'.content = ContentKept(remade, media)
      /\ job' = Disturbed /\ UNCHANGED board
  BY DEF Regenerate
<1>2. \A f \in remade : media[f] = Generated(f, recipe[f])
  OBVIOUS
<1> HIDE DEF media
<1>3. \A root, at : Place(root, at).root = root /\ Place(root, at).at = at
  BY DEF Place
<1>4. Placed(disk) /\ CacheInv
  BY DEF BenchInv
<1>5. Placed(disk')
  BY <1>1, <1>3, <1>4 DEF Placed
<1>6. CacheInv'
  <2> SUFFICES ASSUME NEW f \in DOMAIN cache'.content PROVE cache'.content[f][1] = "generated"
    BY DEF CacheInv
  <2>1. /\ f \in remade \cup DOMAIN cache.content
        /\ cache'.content[f] = IF f \in remade THEN media[f] ELSE cache.content[f]
    BY <1>1 DEF ContentKept
  <2> QED BY <2>1, <1>2, <1>4 DEF CacheInv, Generated
<1>7. ASSUME NEW root, root # Fix PROVE HeldIn(disk', root) = HeldIn(disk, root)
  <2>1. \A at : /\ Place(root, at) \in DOMAIN disk' <=> Place(root, at) \in DOMAIN disk
                /\ Place(root, at) \in DOMAIN disk => disk'[Place(root, at)] = disk[Place(root, at)]
    BY <1>1, <1>3, <1>7
  <2> QED BY <1>4, <1>5, <2>1, HeldAlike
<1> QED BY <1>1, <1>5, <1>6, <1>7, DisturbedKeeps

LEMMA StartKeeps ==
    ASSUME BenchInv, NEW verifier, StartRun(verifier)
    PROVE  BenchInv'
<1>1. /\ job'.verifier = verifier /\ job'.phase = "row" /\ job'.outs = <<>> /\ ~job'.disturbed
      /\ job'.recorded = DOMAIN cache.content /\ DOMAIN job' = JobFields
      /\ job'.integrity = IF verifier \in Executing THEN Problems ELSE {}
      /\ UNCHANGED <<disk, cache>> /\ board' = Idle
  BY DEF StartRun, JobFields
<1>2. Media' = Media
  BY <1>1 DEF Media, Below
<1>3. Placed(disk)' /\ CacheInv' /\ CacheInv
  BY <1>1 DEF BenchInv, CacheInv
<1>4. job'.integrity = {} /\ verifier \in Executing =>
          \A f \in DOMAIN cache.content : f \in DOMAIN Media /\ Media[f][1] = "generated"
  BY <1>1, <1>3 DEF Problems, CacheInv
<1>5. <<>> \in Seq(Range(<<>>)) /\ DOMAIN <<>> = {}
  OBVIOUS
<1>6. MediaKnown'
  BY <1>1, <1>2, <1>4, <1>5 DEF MediaKnown
<1> QED BY <1>1, <1>3, <1>6 DEF BenchInv, KnownMedia

LEMMA RowKeeps ==
    ASSUME BenchInv, NEW answer, RunRow(answer)
    PROVE  BenchInv' /\ Media' = Media /\ \A root : root # RowDir(Current) => HeldIn(disk', root) = HeldIn(disk, root)
<1>1. job # Idle /\ MediaKnown /\ Placed(disk) /\ UNCHANGED <<cache, board>>
  BY DEF RunRow, BenchInv
<1>2. CASE UNCHANGED disk /\ \E outcome : job' = Record(outcome, NoPlace, FALSE, answer, <<>>)
  <2>1. Media' = Media /\ Placed(disk)'
    BY <1>1, <1>2 DEF Media, Below
  <2>2. PICK outcome : job' = Record(outcome, NoPlace, FALSE, answer, <<>>)
    BY <1>2
  <2> QED BY <1>1, <1>2, <2>1, <2>2, RecordKeeps
<1>3. CASE /\ job.verifier \in Executing
           /\ disk' = Provisioned(disk, RowDir(Current))
           /\ job' = [job EXCEPT !.phase = "command", !.k = 1, !.plan = answer, !.saw = Media]
  <2>1. Placed(disk') /\ \A root : root # RowDir(Current) => HeldIn(disk', root) = HeldIn(disk, root)
    BY <1>1, <1>3, ProvisionedBelow, DirsDiffer
  <2>2. Media' = Media
    <3>1. Media' = HeldIn(disk', Fix)
      BY DEF Media, HeldIn, Below
    <3> QED BY <2>1, <3>1, MediaIsHeld, DirsDiffer
  <2>3. /\ DOMAIN job' = JobFields /\ job'.outs = job.outs /\ job'.saw = Media
        /\ job'.verifier = job.verifier /\ job'.disturbed = job.disturbed
        /\ job'.integrity = job.integrity /\ job'.recorded = job.recorded
    BY <1>1, <1>3 DEF MediaKnown, JobFields
  <2>4. OnMedia(job'.saw)
    BY <1>3, <2>3 DEF OnMedia
  <2>5. BenchInv'
    BY <1>1, <2>1, <2>2, <2>3, <2>4, MediaSame DEF MediaKnown
  <2> QED BY <2>1, <2>2, <2>5
<1> QED BY <1>2, <1>3 DEF RunRow

LEMMA RaiseKeeps ==
    ASSUME BenchInv, RowRaises
    PROVE  BenchInv' /\ Media' = Media
<1>1. Media' = Media /\ Placed(disk)'
  BY DEF RowRaises, Media, Below, BenchInv
<1> QED BY <1>1, RecordKeeps DEF RowRaises

LEMMA CommandKeeps ==
    ASSUME BenchInv, RunCommand
    PROVE  BenchInv' /\ Media' = Media /\ \A root : root # RowDir(Current) => HeldIn(disk', root) = HeldIn(disk, root)
<1>1. job # Idle /\ MediaKnown /\ Placed(disk) /\ UNCHANGED <<cache, board>> /\ job.phase = "command"
  BY DEF RunCommand, BenchInv
<1>2. PICK end \in CommandEnds(disk, job.plan[job.k], RowDir(Current)) :
          /\ disk' = end.files
          /\ job' = IF end.ok /\ job.k < Len(job.plan) THEN [job EXCEPT !.k = @ + 1]
                    ELSE Record(IF end.ok THEN "plan" ELSE "error", LastOutput(end.files), TRUE, job.plan, job.saw)
  BY DEF RunCommand
<1>3. Placed(disk') /\ \A root : root # RowDir(Current) => HeldIn(disk', root) = HeldIn(disk, root)
  BY <1>1, <1>2, CommandBelow
<1>4. Media' = Media
  <2>1. Media' = HeldIn(disk', Fix)
    BY DEF Media, HeldIn, Below
  <2> QED BY <1>3, <2>1, MediaIsHeld, DirsDiffer
<1>5. OnMedia(job.saw)
  BY <1>1 DEF MediaKnown
<1>6. CASE job' = [job EXCEPT !.k = @ + 1]
  <2>1. /\ DOMAIN job' = JobFields /\ job'.outs = job.outs /\ job'.saw = job.saw
        /\ job'.verifier = job.verifier /\ job'.disturbed = job.disturbed
        /\ job'.integrity = job.integrity /\ job'.recorded = job.recorded
    BY <1>1, <1>6 DEF MediaKnown, JobFields
  <2>2. BenchInv'
    BY <1>1, <1>3, <1>4, <1>5, <2>1, MediaSame DEF MediaKnown
  <2> QED BY <1>3, <1>4, <2>2
<1>7. CASE job' = Record(IF end.ok THEN "plan" ELSE "error", LastOutput(end.files), TRUE, job.plan, job.saw)
  BY <1>1, <1>3, <1>4, <1>5, <1>7, RecordKeeps
<1> QED BY <1>2, <1>6, <1>7

LEMMA ReferredIs ==
    ASSUME DOMAIN job = JobFields, NEW place, NEW seen, job' = Referred(place, seen)
    PROVE  /\ DOMAIN job' = JobFields /\ job'.outs = job.outs
           /\ job'.verifier = job.verifier /\ job'.disturbed = job.disturbed
           /\ job'.integrity = job.integrity /\ job'.recorded = job.recorded
           /\ job'.refs = Append(job.refs, [place |-> place, saw |-> seen])
           /\ job'.k = job.k + 1
           /\ job'.phase = IF job.k = Len(Corpus) THEN "score" ELSE "base"
  BY DEF Referred, JobFields

LEMMA BaselineKeeps ==
    ASSUME BenchInv, RunBaseline
    PROVE  BenchInv' /\ Media' = Media /\ \A root : root # BaseDir(job.k) => HeldIn(disk', root) = HeldIn(disk, root)
<1> DEFINE dir == BaseDir(job.k)
<1>1. job # Idle /\ MediaKnown /\ Placed(disk) /\ UNCHANGED <<cache, board>>
  BY DEF RunBaseline, BenchInv
<1>2. PICK place, seen : job' = Referred(place, seen)
  BY DEF RunBaseline
<1>3. Placed(disk') /\ \A root : root # dir => HeldIn(disk', root) = HeldIn(disk, root)
  <2>1. CASE UNCHANGED disk
    BY <1>1, <2>1
  <2>2. CASE \E cmd : \E end \in CommandEnds(Provisioned(disk, dir), cmd, dir) : disk' = end.files
    <3> DEFINE had == Provisioned(disk, dir)
    <3>1. Placed(had) /\ \A root : root # dir => HeldIn(had, root) = HeldIn(disk, root)
      BY <1>1, ProvisionedBelow, DirsDiffer
    <3> HIDE DEF had
    <3>2. PICK cmd : \E end \in CommandEnds(had, cmd, dir) : disk' = end.files
      BY <2>2 DEF had
    <3> HIDE DEF dir
    <3> QED BY <3>1, <3>2, CommandBelow
  <2> QED BY <2>1, <2>2 DEF RunBaseline
<1>4. Media' = Media
  <2>1. Media' = HeldIn(disk', Fix)
    BY DEF Media, HeldIn, Below
  <2> QED BY <1>3, <2>1, MediaIsHeld, DirsDiffer
<1>5. job'.phase # "command" /\ DOMAIN job = JobFields
  BY <1>1, <1>2, ReferredIs DEF MediaKnown
<1>6. BenchInv'
  BY <1>1, <1>2, <1>3, <1>4, <1>5, ReferredIs, MediaSame DEF MediaKnown
<1> QED BY <1>3, <1>4, <1>6

LEMMA FinishKeeps ==
    ASSUME BenchInv, NEW grades, FinishRun(grades)
    PROVE  BenchInv' /\ Media' = Media
<1>1. job # Idle /\ MediaKnown /\ Placed(disk) /\ UNCHANGED cache /\ job' = Idle /\ CacheInv
  BY DEF FinishRun, BenchInv
<1> DEFINE rows == [i \in DOMAIN job.outs |-> RowOf(i, grades[i])]
<1>2. /\ disk' = Reclaimed(rows)
      /\ board'.rows = rows /\ board'.integrity = job.integrity /\ board'.hashes = Media
      /\ board'.recorded = job.recorded /\ board'.disturbed = job.disturbed
  BY DEF FinishRun
<1>3. /\ DOMAIN rows = DOMAIN job.outs
      /\ \A i \in DOMAIN job.outs : rows[i].ran = job.outs[i].ran /\ rows[i].saw = job.outs[i].saw
  BY DEF RowOf
<1> HIDE DEF rows
<1>4. Placed(disk') /\ HeldIn(disk', Fix) = HeldIn(disk, Fix)
  <2>1. CASE disk' = disk
    BY <1>1, <2>1
  <2>2. CASE \E S : disk' = Without(disk, UNION {Below(RowDir(i)) : i \in S})
    <3>1. PICK S : disk' = Without(disk, UNION {Below(RowDir(i)) : i \in S})
      BY <2>2
    <3>2. /\ DOMAIN disk' = DOMAIN disk \ UNION {Below(RowDir(i)) : i \in S}
          /\ \A p \in DOMAIN disk' : disk'[p] = disk[p]
      BY <3>1 DEF Without
    <3>3. \A at : Place(Fix, at) \notin UNION {Below(RowDir(i)) : i \in S}
      BY DirsDiffer DEF Below, Place
    <3>4. Placed(disk')
      BY <1>1, <3>2 DEF Placed
    <3> QED BY <1>1, <3>2, <3>3, <3>4, HeldAlike
  <2> QED BY <1>2, <2>1, <2>2 DEF Reclaimed
<1>5. Media' = Media
  <2>1. Media' = HeldIn(disk', Fix)
    BY DEF Media, HeldIn, Below
  <2> QED BY <1>4, <2>1, MediaIsHeld
<1>6. KnownMedia'
  <2> SUFFICES ASSUME board'.integrity = {}, ~board'.disturbed,
                      NEW i \in DOMAIN board'.rows, board'.rows[i].ran
               PROVE  /\ board'.rows[i].saw = board'.hashes
                      /\ \A f \in board'.recorded : board'.rows[i].saw[f][1] = "generated"
    BY DEF KnownMedia
  <2>1. i \in DOMAIN job.outs /\ job.outs[i].ran /\ board'.rows[i].saw = job.outs[i].saw
    BY <1>2, <1>3
  <2>2. job.verifier \in Executing /\ job.outs[i].saw = Media
    BY <1>1, <1>2, <2>1 DEF MediaKnown, OnMedia
  <2>3. \A f \in job.recorded : Media[f][1] = "generated"
    BY <1>1, <1>2, <2>2 DEF MediaKnown
  <2> QED BY <1>2, <2>1, <2>2, <2>3
<1> QED BY <1>1, <1>4, <1>5, <1>6 DEF BenchInv, CacheInv

LEMMA BenchStep ==
    ASSUME BenchInv, changes \in Nat, [Next]_vars
    PROVE  BenchInv' /\ (changes' = changes => Media' = Media)
<1>1. CASE UNCHANGED vars
  BY <1>1 DEF vars, BenchInv, Placed, CacheInv, MediaKnown, OnMedia, KnownMedia, Media, Below
<1>2. CASE \E f \in Fixtures : EditRecipe(f)
  <2>1. UNCHANGED <<disk, cache, job, board>>
    BY <1>2 DEF EditRecipe
  <2> QED BY <2>1 DEF BenchInv, Placed, CacheInv, MediaKnown, OnMedia, KnownMedia, Media, Below
<1>3. CASE \E f \in Fixtures : HandEdit(f)
  BY <1>3, HandEditKeeps DEF HandEdit
<1>4. CASE \E force \in BOOLEAN, remade, halved \in SUBSET Fixtures : Regenerate(force, remade, halved)
  <2>1. PICK force, remade, halved : Regenerate(force, remade, halved)
    BY <1>4
  <2>2. changes' = changes + 1
    BY <2>1 DEF Regenerate
  <2> QED BY <2>1, <2>2, RegenerateKeeps
<1>5. CASE \E v \in Verifiers : StartRun(v)
  <2>1. UNCHANGED disk
    BY <1>5 DEF StartRun
  <2> QED BY <1>5, <2>1, StartKeeps DEF Media, Below
<1>6. CASE \E a \in UNION {Corpus[i].answers : i \in DOMAIN Corpus} : RunRow(a)
  BY <1>6, RowKeeps
<1>7. CASE RowRaises
  BY <1>7, RaiseKeeps
<1>8. CASE RunCommand
  BY <1>8, CommandKeeps
<1>9. CASE RunBaseline
  BY <1>9, BaselineKeeps
<1>10. CASE \E grades \in [DOMAIN Corpus -> {0, 1}] : FinishRun(grades)
  BY <1>10, FinishKeeps
<1> QED BY <1>1, <1>2, <1>3, <1>4, <1>5, <1>6, <1>7, <1>8, <1>9, <1>10 DEF Next

LEMMA ChangesCounted == changes \in Nat /\ [Next]_vars => changes' \in Nat
<1>1. ASSUME changes \in Nat, [Next]_vars PROVE changes' \in Nat
  <2>1. changes' = changes \/ changes' = changes + 1
    BY <1>1 DEF Next, vars, counts, EditRecipe, HandEdit, Regenerate, StartRun, RunRow, RowRaises, RunCommand,
                RunBaseline, FinishRun
  <2> QED BY <1>1, <2>1
<1> QED BY <1>1

BenchCounted == BenchInv /\ changes \in Nat

LEMMA BenchInvariant == Spec => []BenchCounted
<1>1. Init => BenchCounted
  <2>1. Init => changes = 0
    BY DEF Init
  <2> QED BY <2>1, BenchInit DEF BenchCounted
<1>2. BenchCounted /\ [Next]_vars => BenchCounted'
  BY BenchStep, ChangesCounted DEF BenchCounted
<1> QED BY <1>1, <1>2, PTL DEF Spec

\* A run never touches the fixtures every later row is measured on, whatever
\* its commands are told to write (chain.py:73-108, provisioning.py:11-21).
THEOREM FixturesAreKept == Spec => MediaKept
<1>1. BenchCounted /\ [Next]_vars => [changes' = changes => Media' = Media]_vars
  BY BenchStep DEF BenchCounted
<1> QED BY <1>1, BenchInvariant, PTL DEF Spec, MediaKept

\* A board that reports no drift, and during which nobody wrote to the
\* fixtures, measured every row on media that were generated and that its
\* hashes name, however runs, regenerations and edits follow one another
\* (cli.py:790-810, 865-870, 3049-3072).
THEOREM BoardsKnowTheirMedia == Spec => []KnownMedia
<1>1. BenchCounted => KnownMedia
  BY DEF BenchCounted, BenchInv
<1> QED BY <1>1, BenchInvariant, PTL

---------------------------------------------------------------------------
\* A chain of commands, on paper and in a directory.

Papers(g, cmds, media, n) ==
    g[0] = media /\ \A k \in 1..n : g[k] = PaperStep(g[k - 1], cmds[k])

IsPaper(f, cmds, media) ==
    f = [k \in 0..Len(cmds) |-> IF k = 0 THEN media ELSE PaperStep(f[k - 1], cmds[k])]

LEMMA PaperExists ==
    ASSUME NEW cmds, Len(cmds) \in Nat, NEW media
    PROVE  \E f : IsPaper(f, cmds, media)
<1> DEFINE N == Len(cmds)
           T == {n \in 0..N : ~\E f : Papers(f, cmds, media, n)}
<1>1. T = {}
  <2>1. SUFFICES ASSUME T # {} PROVE FALSE
    OBVIOUS
  <2>2. T \in SUBSET Nat
    OBVIOUS
  <2>3. PICK n \in T : \A m \in T : n <= m
    <3> HIDE DEF T
    <3> QED BY <2>1, <2>2, LeastNumber
  <2>4. n \in 0..N /\ ~\E f : Papers(f, cmds, media, n)
    OBVIOUS
  <2>5. n # 0
    <3> DEFINE f == [k \in {0} |-> media]
    <3>1. f[0] = media
      OBVIOUS
    <3> HIDE DEF f
    <3>2. Papers(f, cmds, media, 0)
      BY <3>1 DEF Papers
    <3> QED BY <2>4, <3>2
  <2>6. PICK f : Papers(f, cmds, media, n - 1)
    <3>1. n - 1 \in 0..N /\ n - 1 \notin T
      BY <2>3, <2>4, <2>5
    <3> QED BY <3>1
  <2> DEFINE h == [k \in 0..n |-> IF k = n THEN PaperStep(f[n - 1], cmds[n]) ELSE f[k]]
  <2>7. \A k \in 0..n : h[k] = IF k = n THEN PaperStep(f[n - 1], cmds[n]) ELSE f[k]
    OBVIOUS
  <2> HIDE DEF h
  <2>8. h[0] = media
    BY <2>4, <2>5, <2>6, <2>7 DEF Papers
  <2>9. ASSUME NEW k \in 1..n PROVE h[k] = PaperStep(h[k - 1], cmds[k])
    <3>1. k - 1 \in 0..n /\ k - 1 # n /\ h[k - 1] = f[k - 1]
      BY <2>4, <2>7
    <3>2. CASE k = n
      BY <2>4, <2>7, <3>1, <3>2
    <3>3. CASE k # n
      <4>1. k \in 1..(n - 1) /\ h[k] = f[k]
        BY <2>4, <2>7, <3>3
      <4> QED BY <2>6, <3>1, <4>1 DEF Papers
    <3> QED BY <3>2, <3>3
  <2>10. Papers(h, cmds, media, n)
    BY <2>8, <2>9 DEF Papers
  <2> QED BY <2>4, <2>10
<1>2. PICK f : Papers(f, cmds, media, N)
  BY <1>1
<1> DEFINE g == [k \in 0..N |-> f[k]]
<1>3. \A k \in 0..N : g[k] = f[k] /\ (k # 0 => g[k - 1] = f[k - 1])
  OBVIOUS
<1>4. g = [k \in 0..N |-> g[k]]
  OBVIOUS
<1> HIDE DEF g
<1>5. ASSUME NEW k \in 0..N PROVE g[k] = IF k = 0 THEN media ELSE PaperStep(g[k - 1], cmds[k])
  <2>1. CASE k = 0
    BY <1>2, <1>3, <2>1 DEF Papers
  <2>2. CASE k # 0
    <3>1. k \in 1..N
      BY <2>2
    <3> QED BY <1>2, <1>3, <2>2, <3>1 DEF Papers
  <2> QED BY <2>1, <2>2
<1>6. g = [k \in 0..N |-> IF k = 0 THEN media ELSE PaperStep(g[k - 1], cmds[k])]
  BY <1>4, <1>5, Zenon
<1>7. IsPaper(g, cmds, media)
  BY <1>6 DEF IsPaper
<1> QED BY <1>7

\* What the media have become after each command.
Paper(cmds, media) == CHOOSE f : IsPaper(f, cmds, media)

LEMMA PaperIs ==
    ASSUME NEW cmds, Len(cmds) \in Nat, NEW media
    PROVE  /\ OnPaper(cmds, media) = Paper(cmds, media)[Len(cmds)][Last(cmds).out.at]
           /\ Papers(Paper(cmds, media), cmds, media, Len(cmds))
<1> DEFINE g == Paper(cmds, media)
<1>1. OnPaper(cmds, media) = g[Len(cmds)][Last(cmds).out.at]
  BY DEF Paper, OnPaper, IsPaper
<1>2. IsPaper(g, cmds, media)
  BY PaperExists DEF Paper
<1> HIDE DEF g
<1>3. Papers(g, cmds, media, Len(cmds))
  <2>1. g[0] = media
    BY <1>2 DEF IsPaper
  <2>2. ASSUME NEW k \in 1..Len(cmds) PROVE g[k] = PaperStep(g[k - 1], cmds[k])
    <3>1. k \in 0..Len(cmds) /\ k # 0
      OBVIOUS
    <3> QED BY <1>2, <3>1 DEF IsPaper
  <2> QED BY <2>1, <2>2 DEF Papers
<1> QED BY <1>1, <1>3 DEF g

\* p is a file below root with these bytes.
HoldsIn(had, p, root, bytes) ==
    \E at \in DOMAIN HeldIn(had, root) : p = Place(root, at) /\ HeldIn(had, root)[at] = bytes

\* A command that succeeds has done in its directory what it does on paper.
LEMMA CommandOnPaper ==
    ASSUME NEW had, Placed(had), NEW cmd, NEW dir, NEW end \in CommandEnds(had, cmd, dir), end.ok
    PROVE  LET done == PaperStep(HeldIn(had, dir), cmd)
           IN  /\ HeldIn(end.files, dir) = done
               /\ cmd.out.at \in DOMAIN done
               /\ HoldsIn(end.files, Reroot(cmd.out, dir), dir, done[cmd.out.at])
               /\ Reroot(cmd.out, dir) \in DOMAIN end.files
<1> DEFINE ins == [k \in DOMAIN cmd.ins |-> Reroot(cmd.ins[k], dir)]
           out == Reroot(cmd.out, dir)
           contents == [k \in DOMAIN ins |-> had[ins[k]]]
           ats == [n \in DOMAIN cmd.ins |-> cmd.ins[n].at]
           here == HeldIn(had, dir)
           done == PaperStep(here, cmd)
<1>1. /\ Range(ins) \subseteq DOMAIN had /\ out \notin Range(ins)
      /\ end.files = With(had, out, Made(contents, cmd.out.at))
  BY DEF CommandEnds
<1>2. out = Place(dir, cmd.out.at) /\ \A k \in DOMAIN cmd.ins : ins[k] = Place(dir, ats[k])
  BY DEF Reroot
<1>3. DOMAIN ins = DOMAIN cmd.ins /\ DOMAIN ats = DOMAIN cmd.ins
  OBVIOUS
<1> HIDE DEF ins, ats
<1>4. \A k \in DOMAIN cmd.ins : Place(dir, ats[k]) \in DOMAIN had /\ Place(dir, ats[k]) # out
  BY <1>1, <1>2, <1>3 DEF Range
<1>5. \A k \in DOMAIN cmd.ins : ats[k] \in DOMAIN here /\ here[ats[k]] = had[Place(dir, ats[k])]
  <2>1. \A at : Place(dir, at) \in DOMAIN had => at \in DOMAIN here
    BY HeldAt
  <2> QED BY <1>4, <2>1 DEF HeldIn
<1>6. Range(ats) \subseteq DOMAIN here /\ cmd.out.at \notin Range(ats)
  BY <1>2, <1>3, <1>4, <1>5 DEF Range
<1>7. [n \in DOMAIN ats |-> here[ats[n]]] = contents
  BY <1>2, <1>3, <1>5
<1> HIDE DEF here, contents
<1>8. done = With(here, cmd.out.at, Made(contents, cmd.out.at))
  BY <1>6, <1>7 DEF PaperStep, ats
<1>9. HeldIn(end.files, dir) = done
  BY <1>1, <1>2, <1>8, WrittenBelow DEF here
<1>10. cmd.out.at \in DOMAIN done /\ out \in DOMAIN end.files
  BY <1>1, <1>8 DEF With
<1> HIDE DEF done
<1>11. HoldsIn(end.files, out, dir, done[cmd.out.at])
  BY <1>2, <1>9, <1>10 DEF HoldsIn
<1> QED BY <1>9, <1>10, <1>11 DEF done, here

---------------------------------------------------------------------------
\* What a row is graded on.

RowEarned(had, i, out) ==
    out.ran /\ out.outcome = "plan" => HoldsIn(had, out.artifact, RowDir(i), OnPaper(out.plan, out.saw))

RefEarned(had, i, ref) ==
    ref.place # NoPlace => HoldsIn(had, ref.place, BaseDir(i), OnPaper(Corpus[i].baseline, ref.saw))

\* The commands run so far have done here what they do on paper.
OnTheWay(had, dir) ==
    /\ job.plan \in Seq(Range(job.plan)) /\ job.k \in 1..Len(job.plan)
    /\ HeldIn(had, dir) = Paper(job.plan, job.saw)[job.k - 1]

\* How far the run has come.
Progress ==
    /\ job.phase \in {"row", "command", "base", "score"}
    /\ job.phase \in {"row", "command"} => Len(job.outs) < Len(Corpus) /\ job.refs = <<>>
    /\ job.phase = "base" =>
          Len(job.outs) = Len(Corpus) /\ job.k = Len(job.refs) + 1 /\ job.k <= Len(Corpus)
    /\ job.phase = "score" =>
          job.refs = <<>> \/ Len(job.refs) = Len(job.outs)

JobEarned ==
    /\ job.refs \in Seq(Range(job.refs))
    /\ Progress
    /\ job.phase = "command" => OnTheWay(disk, RowDir(Current))
    /\ \A i \in DOMAIN job.outs : RowEarned(disk, i, job.outs[i])
    /\ \A i \in DOMAIN job.refs : RefEarned(disk, i, job.refs[i])

EarnedInv ==
    /\ BenchInv
    /\ job # Idle => JobEarned
    /\ ArtifactIsEarned

LEMMA HoldsStill ==
    ASSUME NEW had, NEW new, NEW root, HeldIn(new, root) = HeldIn(had, root)
    PROVE  \A p, bytes : HoldsIn(had, p, root, bytes) => HoldsIn(new, p, root, bytes)
  BY DEF HoldsIn

\* What the rows and the references before hold is still there.
LEMMA EarnedStill ==
    ASSUME NEW had, NEW new, NEW outs, NEW refs,
           \A i \in DOMAIN outs : RowEarned(had, i, outs[i]),
           \A i \in DOMAIN refs : RefEarned(had, i, refs[i]),
           \A i \in DOMAIN outs : HeldIn(new, RowDir(i)) = HeldIn(had, RowDir(i)),
           \A i \in DOMAIN refs : HeldIn(new, BaseDir(i)) = HeldIn(had, BaseDir(i))
    PROVE  /\ \A i \in DOMAIN outs : RowEarned(new, i, outs[i])
           /\ \A i \in DOMAIN refs : RefEarned(new, i, refs[i])
<1>1. ASSUME NEW i \in DOMAIN outs PROVE RowEarned(new, i, outs[i])
  <2>1. HeldIn(new, RowDir(i)) = HeldIn(had, RowDir(i)) /\ RowEarned(had, i, outs[i])
    OBVIOUS
  <2> QED BY <2>1, HoldsStill DEF RowEarned
<1>2. ASSUME NEW i \in DOMAIN refs PROVE RefEarned(new, i, refs[i])
  <2>1. HeldIn(new, BaseDir(i)) = HeldIn(had, BaseDir(i)) /\ RefEarned(had, i, refs[i])
    OBVIOUS
  <2> QED BY <2>1, HoldsStill DEF RefEarned
<1> QED BY <1>1, <1>2

LEMMA CorpusIs ==
    Len(Corpus) \in Nat /\ Len(Corpus) >= 1 /\ DOMAIN Corpus = 1..Len(Corpus)
<1>1. Corpus \in Seq(Range(Corpus)) /\ Corpus # <<>>
  BY CorpusAssumption
<1> QED BY <1>1

\* A row that is done is added to those before it.
LEMMA EarnedRecord ==
    ASSUME BenchInv, job # Idle, JobEarned, job.phase \in {"row", "command"},
           NEW outcome, NEW artifact, NEW ran, NEW answer, NEW seen,
           job' = Record(outcome, artifact, ran, answer, seen),
           \A root : root # RowDir(Current) => HeldIn(disk', root) = HeldIn(disk, root),
           ran /\ outcome = "plan" => HoldsIn(disk', artifact, RowDir(Current), OnPaper(answer, seen))
    PROVE  JobEarned'
<1> DEFINE row == [outcome |-> outcome, artifact |-> artifact, ran |-> ran, plan |-> answer, saw |-> seen]
           outs == job.outs
           new == Append(outs, row)
<1>1. /\ DOMAIN job = JobFields /\ outs \in Seq(Range(outs))
      /\ \A i \in DOMAIN outs : RowEarned(disk, i, outs[i])
      /\ job.refs = <<>> /\ Len(outs) < Len(Corpus)
  BY DEF BenchInv, MediaKnown, JobEarned, Progress
<1>2. /\ job'.refs = <<>> /\ job'.k = 1 /\ job'.outs = new
      /\ job'.phase = IF Current < Len(Corpus) THEN "row"
                      ELSE IF job.verifier = "output_diff" THEN "base" ELSE "score"
  BY <1>1, RecordIs
<1>3. row.ran = ran /\ row.outcome = outcome /\ row.artifact = artifact /\ row.plan = answer /\ row.saw = seen
  OBVIOUS
<1> HIDE DEF row
<1>4. /\ Len(new) = Len(outs) + 1 /\ DOMAIN new = 1..(Len(outs) + 1)
      /\ DOMAIN outs = 1..Len(outs) /\ Len(outs) \in Nat
      /\ new[Len(outs) + 1] = row /\ \A i \in DOMAIN outs : new[i] = outs[i]
  BY <1>1, AppendRange
<1>5. Current = Len(outs) + 1
  BY DEF Current
<1> HIDE DEF outs, new
<1>6. \A i \in DOMAIN outs : RowEarned(disk', i, outs[i])
  <2>1. \A i \in DOMAIN outs : HeldIn(disk', RowDir(i)) = HeldIn(disk, RowDir(i))
    <3> SUFFICES ASSUME NEW i \in DOMAIN outs PROVE HeldIn(disk', RowDir(i)) = HeldIn(disk, RowDir(i))
      OBVIOUS
    <3>1. i # Current
      BY <1>4, <1>5
    <3>2. RowDir(i) # RowDir(Current)
      BY <3>1, DirsDiffer
    <3> QED BY <3>2
  <2>2. DOMAIN <<>> = {}
    OBVIOUS
  <2> QED BY <1>1, <2>1, <2>2, EarnedStill
<1>7. RowEarned(disk', Current, row)
  BY <1>3 DEF RowEarned
<1>8. \A i \in DOMAIN new : RowEarned(disk', i, new[i])
  <2> SUFFICES ASSUME NEW i \in DOMAIN new PROVE RowEarned(disk', i, new[i])
    OBVIOUS
  <2>1. CASE i \in DOMAIN outs
    BY <1>4, <1>6, <2>1
  <2>2. CASE i \notin DOMAIN outs
    <3>1. i = Current
      BY <1>4, <1>5, <2>2
    <3> QED BY <1>4, <1>5, <1>7, <3>1
  <2> QED BY <2>1, <2>2
<1>9. DOMAIN job'.refs = {} /\ job'.refs \in Seq(Range(job'.refs)) /\ Len(job'.refs) = 0
  BY <1>2
<1>10. Progress'
  <2>1. /\ Len(job'.outs) = Len(outs) + 1 /\ Len(outs) \in Nat /\ Len(outs) < Len(Corpus)
        /\ Len(Corpus) \in Nat /\ Len(Corpus) >= 1
        /\ job'.k = 1 /\ job'.refs = <<>> /\ Len(job'.refs) = 0
    BY <1>1, <1>2, <1>4, <1>9, CorpusIs
  <2>2. job'.phase = IF Len(outs) + 1 < Len(Corpus) THEN "row"
                     ELSE IF job.verifier = "output_diff" THEN "base" ELSE "score"
    BY <1>2, <1>5
  <2> QED BY <2>1, <2>2 DEF Progress
<1>11. job'.phase # "command"
  BY <1>2
<1>12. \A i \in DOMAIN job'.outs : RowEarned(disk', i, job'.outs[i])
  BY <1>2, <1>8
<1> QED BY <1>9, <1>10, <1>11, <1>12 DEF JobEarned, RowEarned, RefEarned, HoldsIn

\* Whoever leaves the directories and the run alone changes nothing here.
LEMMA EarnedAside ==
    ASSUME EarnedInv, BenchInv', UNCHANGED board, job' = job \/ job' = Disturbed,
           \A root : root # Fix => HeldIn(disk', root) = HeldIn(disk, root)
    PROVE  EarnedInv'
<1>1. ArtifactIsEarned'
  BY DEF EarnedInv, ArtifactIsEarned
<1>2. ASSUME job' # Idle PROVE JobEarned'
  <2>1. job # Idle
    BY <1>2 DEF Disturbed
  <2>2. JobEarned /\ DOMAIN job = JobFields
    BY <2>1 DEF EarnedInv, BenchInv, MediaKnown
  <2>3. /\ job'.refs = job.refs /\ job'.outs = job.outs /\ job'.phase = job.phase
        /\ job'.k = job.k /\ job'.plan = job.plan /\ job'.saw = job.saw
    BY <2>1, <2>2 DEF Disturbed, JobFields
  <2>4. Progress' /\ Current' = Current
    BY <2>2, <2>3 DEF JobEarned, Progress, Current
  <2>5. job.phase = "command" => OnTheWay(disk, RowDir(Current))'
    BY <2>2, <2>3, <2>4, DirsDiffer DEF JobEarned, OnTheWay
  <2> DEFINE outs == job.outs
             refs == job.refs
  <2>6. /\ \A i \in DOMAIN outs : HeldIn(disk', RowDir(i)) = HeldIn(disk, RowDir(i))
        /\ \A i \in DOMAIN refs : HeldIn(disk', BaseDir(i)) = HeldIn(disk, BaseDir(i))
    BY DirsDiffer
  <2>7. /\ \A i \in DOMAIN outs : RowEarned(disk, i, outs[i])
        /\ \A i \in DOMAIN refs : RefEarned(disk, i, refs[i])
    BY <2>2 DEF JobEarned
  <2> HIDE DEF outs, refs
  <2>8. /\ \A i \in DOMAIN outs : RowEarned(disk', i, outs[i])
        /\ \A i \in DOMAIN refs : RefEarned(disk', i, refs[i])
    BY <2>6, <2>7, EarnedStill
  <2>9. job'.outs = outs /\ job'.refs = refs
    BY <2>3 DEF outs, refs
  <2> QED BY <2>2, <2>3, <2>4, <2>5, <2>8, <2>9 DEF JobEarned, OnTheWay, RowEarned, RefEarned, HoldsIn
<1> QED BY <1>1, <1>2 DEF EarnedInv

LEMMA EarnedStart ==
    ASSUME EarnedInv, NEW verifier, StartRun(verifier)
    PROVE  EarnedInv'
<1>1. BenchInv'
  BY StartKeeps DEF EarnedInv
<1>2. job'.phase = "row" /\ job'.outs = <<>> /\ job'.refs = <<>> /\ board' = Idle
  BY DEF StartRun
<1>3. DOMAIN <<>> = {} /\ <<>> \in Seq(Range(<<>>)) /\ Len(<<>>) = 0
  OBVIOUS
<1>4. JobEarned'
  BY <1>2, <1>3, CorpusIs DEF JobEarned, Progress
<1> QED BY <1>1, <1>2, <1>4 DEF EarnedInv, ArtifactIsEarned

LEMMA EarnedRow ==
    ASSUME EarnedInv, NEW answer, RunRow(answer)
    PROVE  EarnedInv'
<1>1. /\ BenchInv' /\ Media' = Media
      /\ \A root : root # RowDir(Current) => HeldIn(disk', root) = HeldIn(disk, root)
  BY RowKeeps DEF EarnedInv
<1>2. job # Idle /\ job.phase = "row" /\ JobEarned /\ BenchInv /\ UNCHANGED board
  BY DEF RunRow, EarnedInv
<1>3. ArtifactIsEarned'
  BY <1>2 DEF EarnedInv, ArtifactIsEarned
<1>4. CASE \E outcome : job' = Record(outcome, NoPlace, FALSE, answer, <<>>)
  <2>1. PICK outcome : job' = Record(outcome, NoPlace, FALSE, answer, <<>>)
    BY <1>4
  <2>2. JobEarned'
    BY <1>1, <1>2, <2>1, EarnedRecord
  <2> QED BY <1>1, <1>3, <2>2 DEF EarnedInv
<1>5. CASE /\ answer # NoPlan
           /\ disk' = Provisioned(disk, RowDir(Current))
           /\ job' = [job EXCEPT !.phase = "command", !.k = 1, !.plan = answer, !.saw = Media]
  <2>1. DOMAIN job = JobFields /\ Placed(disk)
    BY <1>2 DEF BenchInv, MediaKnown
  <2>2. /\ job'.refs = job.refs /\ job'.outs = job.outs /\ job'.phase = "command"
        /\ job'.k = 1 /\ job'.plan = answer /\ job'.saw = Media
    BY <1>5, <2>1 DEF JobFields
  <2>3. Current' = Current /\ Progress'
    BY <1>2, <2>2 DEF JobEarned, Progress, Current
  <2>4. answer \in Seq(Range(answer)) /\ Len(answer) \in Nat /\ 1 \in 1..Len(answer)
    <3>1. Len(job.outs) < Len(Corpus) /\ Len(job.outs) \in Nat
      BY <1>2 DEF JobEarned, Progress, BenchInv, MediaKnown
    <3>2. Current \in DOMAIN Corpus
      BY <3>1, CorpusIs DEF Current
    <3>3. answer \in Corpus[Current].answers \ {NoPlan}
      BY <1>5 DEF RunRow
    <3>4. answer \in Seq(Range(answer)) /\ answer # <<>>
      BY <3>2, <3>3, CorpusAssumption
    <3> QED BY <3>4
  <2>5. HeldIn(disk', RowDir(Current)) = Media
    BY <1>5, <2>1, ProvisionedBelow, DirsDiffer
  <2>6. Paper(answer, Media)[0] = Media
    BY <2>4, PaperIs DEF Papers
  <2>7. OnTheWay(disk, RowDir(Current))'
    BY <2>2, <2>3, <2>4, <2>5, <2>6 DEF OnTheWay
  <2> DEFINE outs == job.outs
             refs == job.refs
  <2>8. \A i \in DOMAIN outs : HeldIn(disk', RowDir(i)) = HeldIn(disk, RowDir(i))
    <3>1. \A i \in DOMAIN outs : i # Current
      BY <1>2 DEF Current, BenchInv, MediaKnown
    <3> QED BY <1>1, <3>1, DirsDiffer
  <2>9. /\ \A i \in DOMAIN outs : RowEarned(disk, i, outs[i])
        /\ refs = <<>>
    BY <1>2 DEF JobEarned, Progress
  <2> HIDE DEF outs, refs
  <2>10. \A i \in DOMAIN outs : RowEarned(disk', i, outs[i])
    <3>1. DOMAIN <<>> = {}
      OBVIOUS
    <3> QED BY <2>8, <2>9, <3>1, EarnedStill
  <2>11. job'.outs = outs /\ job'.refs = <<>> /\ DOMAIN job'.refs = {} /\ job'.refs \in Seq(Range(job'.refs))
    BY <2>2, <2>9 DEF outs, refs
  <2>12. JobEarned'
    BY <2>3, <2>7, <2>10, <2>11 DEF JobEarned, OnTheWay, RowEarned, RefEarned, HoldsIn
  <2> QED BY <1>1, <1>3, <2>12 DEF EarnedInv
<1> QED BY <1>4, <1>5 DEF RunRow

LEMMA EarnedRaise ==
    ASSUME EarnedInv, RowRaises
    PROVE  EarnedInv'
<1>1. BenchInv'
  BY RaiseKeeps DEF EarnedInv
<1>2. job # Idle /\ job.phase = "row" /\ JobEarned /\ BenchInv /\ UNCHANGED <<board, disk>>
  BY DEF RowRaises, EarnedInv
<1>3. JobEarned'
  BY <1>2, EarnedRecord DEF RowRaises
<1> QED BY <1>1, <1>2, <1>3 DEF EarnedInv, ArtifactIsEarned

\* The last output that is there is that of the last command, once it has run.
LEMMA LastIsThere ==
    ASSUME NEW had, job.k \in Nat \ {0}, Reroot(job.plan[job.k].out, RowDir(Current)) \in DOMAIN had
    PROVE  LastOutput(had) = Reroot(job.plan[job.k].out, RowDir(Current))
<1> DEFINE built == {n \in 1..job.k : Reroot(job.plan[n].out, RowDir(Current)) \in DOMAIN had}
           IsLast(n) == \A m \in built : m <= n
<1>1. built # {} /\ job.k \in built /\ built \subseteq 1..job.k
  OBVIOUS
<1>2. LastOutput(had) = Reroot(job.plan[CHOOSE n \in built : IsLast(n)].out, RowDir(Current))
  BY <1>1 DEF LastOutput
<1> HIDE DEF built
<1>3. IsLast(job.k) /\ \A n \in built : IsLast(n) => n = job.k
  BY <1>1
<1> HIDE DEF IsLast
<1>4. (CHOOSE n \in built : IsLast(n)) = job.k
  BY <1>1, <1>3
<1> QED BY <1>2, <1>4

LEMMA EarnedCommand ==
    ASSUME EarnedInv, RunCommand
    PROVE  EarnedInv'
<1> DEFINE dir == RowDir(Current)
           cmds == job.plan
           media == job.saw
           k == job.k
           paper == Paper(cmds, media)
<1>1. /\ BenchInv' /\ Media' = Media
      /\ \A root : root # dir => HeldIn(disk', root) = HeldIn(disk, root)
  BY CommandKeeps DEF EarnedInv
<1>2. job # Idle /\ job.phase = "command" /\ JobEarned /\ BenchInv /\ UNCHANGED board
  BY DEF RunCommand, EarnedInv
<1>3. ArtifactIsEarned'
  BY <1>2 DEF EarnedInv, ArtifactIsEarned
<1>4. PICK end \in CommandEnds(disk, cmds[k], dir) :
          /\ disk' = end.files
          /\ job' = IF end.ok /\ k < Len(cmds) THEN [job EXCEPT !.k = @ + 1]
                    ELSE Record(IF end.ok THEN "plan" ELSE "error", LastOutput(end.files), TRUE, cmds, media)
  BY DEF RunCommand
<1>5. /\ cmds \in Seq(Range(cmds)) /\ Len(cmds) \in Nat /\ k \in 1..Len(cmds)
      /\ HeldIn(disk, dir) = paper[k - 1]
  BY <1>2 DEF JobEarned, OnTheWay
<1>6. OnPaper(cmds, media) = paper[Len(cmds)][Last(cmds).out.at] /\ Papers(paper, cmds, media, Len(cmds))
  BY <1>5, PaperIs
<1>7. paper[k] = PaperStep(paper[k - 1], cmds[k])
  BY <1>5, <1>6 DEF Papers
<1>8. Placed(disk) /\ DOMAIN job = JobFields
  BY <1>2 DEF BenchInv, MediaKnown
<1>9. end.ok => /\ HeldIn(disk', dir) = paper[k]
                /\ HoldsIn(disk', Reroot(cmds[k].out, dir), dir, paper[k][cmds[k].out.at])
                /\ Reroot(cmds[k].out, dir) \in DOMAIN disk'
  <2> HIDE DEF dir, cmds, k, paper
  <2> SUFFICES ASSUME end.ok
               PROVE  /\ HeldIn(disk', dir) = paper[k]
                      /\ HoldsIn(disk', Reroot(cmds[k].out, dir), dir, paper[k][cmds[k].out.at])
                      /\ Reroot(cmds[k].out, dir) \in DOMAIN disk'
    OBVIOUS
  <2>1. PaperStep(HeldIn(disk, dir), cmds[k]) = paper[k]
    BY <1>5, <1>7
  <2> QED BY <1>4, <1>8, <2>1, CommandOnPaper
<1>10. CASE end.ok /\ k < Len(cmds)
  <2>1. job' = [job EXCEPT !.k = @ + 1]
    BY <1>4, <1>10
  <2>2. /\ job'.refs = job.refs /\ job'.outs = job.outs /\ job'.phase = "command"
        /\ job'.k = k + 1 /\ job'.plan = cmds /\ job'.saw = media
    BY <1>2, <1>8, <2>1 DEF JobFields
  <2>3. Current' = Current /\ Progress'
    BY <1>2, <2>2 DEF JobEarned, Progress, Current
  <2>4. OnTheWay(disk, RowDir(Current))'
    <3>1. k + 1 \in 1..Len(cmds) /\ (k + 1) - 1 = k
      BY <1>5, <1>10
    <3> QED BY <1>5, <1>9, <1>10, <2>2, <2>3, <3>1 DEF OnTheWay
  <2> DEFINE outs == job.outs
             refs == job.refs
  <2>5. \A i \in DOMAIN outs : HeldIn(disk', RowDir(i)) = HeldIn(disk, RowDir(i))
    <3>1. \A i \in DOMAIN outs : i # Current
      BY <1>2 DEF Current, BenchInv, MediaKnown
    <3> QED BY <1>1, <3>1, DirsDiffer
  <2>6. (\A i \in DOMAIN outs : RowEarned(disk, i, outs[i])) /\ refs = <<>>
    BY <1>2 DEF JobEarned, Progress
  <2> HIDE DEF outs, refs
  <2>7. \A i \in DOMAIN outs : RowEarned(disk', i, outs[i])
    <3>1. DOMAIN <<>> = {}
      OBVIOUS
    <3> QED BY <2>5, <2>6, <3>1, EarnedStill
  <2>8. job'.outs = outs /\ job'.refs = <<>> /\ DOMAIN job'.refs = {} /\ job'.refs \in Seq(Range(job'.refs))
    BY <2>2, <2>6 DEF outs, refs
  <2>9. JobEarned'
    BY <2>3, <2>4, <2>7, <2>8 DEF JobEarned, OnTheWay, RowEarned, RefEarned, HoldsIn
  <2> QED BY <1>1, <1>3, <2>9 DEF EarnedInv
<1>11. CASE ~(end.ok /\ k < Len(cmds))
  <2> DEFINE outcome == IF end.ok THEN "plan" ELSE "error"
             artifact == LastOutput(end.files)
  <2>1. job' = Record(outcome, artifact, TRUE, cmds, media)
    BY <1>4, <1>11
  <2>2. outcome = "plan" => HoldsIn(disk', artifact, RowDir(Current), OnPaper(cmds, media))
    <3> SUFFICES ASSUME end.ok PROVE HoldsIn(disk', artifact, RowDir(Current), OnPaper(cmds, media))
      OBVIOUS
    <3>1. k = Len(cmds) /\ k \in Nat \ {0}
      BY <1>5, <1>11
    <3>2. Last(cmds) = cmds[k]
      BY <3>1 DEF Last
    <3>3. artifact = Reroot(cmds[k].out, RowDir(Current))
      BY <1>4, <1>9, <3>1, LastIsThere
    <3> QED BY <1>6, <1>9, <3>1, <3>2, <3>3
  <2> HIDE DEF outcome, artifact
  <2>3. JobEarned'
    BY <1>1, <1>2, <2>1, <2>2, EarnedRecord
  <2> QED BY <1>1, <1>3, <2>3 DEF EarnedInv
<1> QED BY <1>10, <1>11

LEMMA EarnedBaseline ==
    ASSUME EarnedInv, RunBaseline
    PROVE  EarnedInv'
<1> DEFINE dir == BaseDir(job.k)
           base == Corpus[job.k].baseline
<1>1. /\ BenchInv' /\ Media' = Media
      /\ \A root : root # dir => HeldIn(disk', root) = HeldIn(disk, root)
  BY BaselineKeeps DEF EarnedInv
<1>2. job # Idle /\ job.phase = "base" /\ JobEarned /\ BenchInv /\ UNCHANGED board
  BY DEF RunBaseline, EarnedInv
<1>3. ArtifactIsEarned'
  BY <1>2 DEF EarnedInv, ArtifactIsEarned
<1>4. /\ Placed(disk) /\ DOMAIN job = JobFields
      /\ Len(job.outs) = Len(Corpus) /\ job.k = Len(job.refs) + 1 /\ job.k <= Len(Corpus)
      /\ job.refs \in Seq(Range(job.refs)) /\ Len(job.refs) \in Nat
  BY <1>2 DEF BenchInv, MediaKnown, JobEarned, Progress
<1>5. PICK place, seen :
          /\ job' = Referred(place, seen)
          /\ place # NoPlace => HoldsIn(disk', place, dir, OnPaper(base, seen))
  <2>1. CASE job' = Referred(NoPlace, <<>>)
    BY <2>1
  <2>2. CASE /\ base # <<>>
             /\ \E end \in CommandEnds(Provisioned(disk, dir), base[1], dir) :
                    /\ disk' = end.files
                    /\ job' = Referred(IF end.ok THEN Reroot(base[1].out, dir) ELSE NoPlace, Media)
    <3> DEFINE had == Provisioned(disk, dir)
    <3>1. PICK end \in CommandEnds(had, base[1], dir) :
              /\ disk' = end.files
              /\ job' = Referred(IF end.ok THEN Reroot(base[1].out, dir) ELSE NoPlace, Media)
      BY <2>2
    <3>2. Placed(had) /\ HeldIn(had, dir) = Media
      BY <1>4, ProvisionedBelow, DirsDiffer
    <3>3. base \in Seq(Range(base)) /\ Len(base) = 1
      <4>1. base \in Seq(Range(base)) /\ Len(base) <= 1
        BY <1>4, CorpusAssumption, CorpusIs
      <4>2. base # <<>>
        BY <2>2
      <4> HIDE DEF base
      <4>3. Len(base) \in Nat /\ Len(base) # 0
        BY <4>1, <4>2
      <4>4. \A n \in Nat : n # 0 /\ n <= 1 => n = 1
        OBVIOUS
      <4> QED BY <4>1, <4>3, <4>4, Zenon
    <3> HIDE DEF had, dir, base
    <3> DEFINE paper == Paper(base, Media)
    <3>4. OnPaper(base, Media) = paper[1][Last(base).out.at] /\ Papers(paper, base, Media, 1)
      <4>1. Len(base) \in Nat
        BY <3>3
      <4>2. /\ OnPaper(base, Media) = paper[Len(base)][Last(base).out.at]
            /\ Papers(paper, base, Media, Len(base))
        BY <4>1, PaperIs
      <4> QED BY <3>3, <4>2
    <3> HIDE DEF paper
    <3>5. Last(base) = base[1] /\ paper[1] = PaperStep(Media, base[1])
      <4>1. Last(base) = base[1]
        BY <3>3 DEF Last
      <4>2. 1 \in 1..1 /\ 1 - 1 = 0
        OBVIOUS
      <4>3. paper[0] = Media /\ paper[1] = PaperStep(paper[1 - 1], base[1])
        BY <3>4, <4>2 DEF Papers
      <4> QED BY <4>1, <4>2, <4>3
    <3>6. CASE end.ok
      <4>1. HoldsIn(disk', Reroot(base[1].out, dir), dir, PaperStep(HeldIn(had, dir), base[1])[base[1].out.at])
        BY <3>1, <3>2, <3>6, CommandOnPaper
      <4> QED BY <3>1, <3>2, <3>4, <3>5, <3>6, <4>1
    <3>7. CASE ~end.ok
      BY <3>1, <3>7
    <3> QED BY <3>6, <3>7
  <2> QED BY <2>1, <2>2 DEF RunBaseline
<1> DEFINE ref == [place |-> place, saw |-> seen]
           outs == job.outs
           refs == job.refs
           new == Append(refs, ref)
<1>6. /\ job'.outs = outs /\ job'.refs = new /\ job'.k = job.k + 1
      /\ job'.phase = IF job.k = Len(Corpus) THEN "score" ELSE "base"
  BY <1>4, <1>5, ReferredIs
<1>7. ref.place = place /\ ref.saw = seen
  OBVIOUS
<1> HIDE DEF ref
<1>8. /\ new \in Seq(Range(new)) /\ Len(new) = Len(refs) + 1 /\ DOMAIN new = 1..(Len(refs) + 1)
      /\ DOMAIN refs = 1..Len(refs) /\ Len(refs) \in Nat
      /\ new[Len(refs) + 1] = ref /\ \A i \in DOMAIN refs : new[i] = refs[i]
  BY <1>4, AppendRange
<1> HIDE DEF new
<1>9. Progress'
  <2>1. /\ Len(job'.outs) = Len(Corpus) /\ Len(job'.refs) = job.k /\ job.k \in Nat /\ job.k <= Len(Corpus)
        /\ job'.k = job.k + 1 /\ Len(Corpus) \in Nat
    <3>1. Len(job'.outs) = Len(Corpus) /\ job'.k = job.k + 1
      BY <1>4, <1>6
    <3>2. Len(job'.refs) = Len(refs) + 1
      BY <1>6, <1>8
    <3>3. Len(refs) \in Nat /\ job.k = Len(refs) + 1
      BY <1>4, <1>8
    <3> HIDE DEF refs
    <3> QED BY <1>4, <3>1, <3>2, <3>3, CorpusIs
  <2> QED BY <1>6, <2>1 DEF Progress
<1>10. /\ \A i \in DOMAIN outs : HeldIn(disk', RowDir(i)) = HeldIn(disk, RowDir(i))
       /\ \A i \in DOMAIN refs : HeldIn(disk', BaseDir(i)) = HeldIn(disk, BaseDir(i))
  <2>1. \A i \in DOMAIN refs : i # job.k
    BY <1>4, <1>8
  <2> QED BY <1>1, <2>1, DirsDiffer
<1>11. /\ \A i \in DOMAIN outs : RowEarned(disk, i, outs[i])
       /\ \A i \in DOMAIN refs : RefEarned(disk, i, refs[i])
  BY <1>2 DEF JobEarned
<1>12. job.k = Len(refs) + 1 /\ RefEarned(disk', job.k, ref)
  BY <1>4, <1>5, <1>7 DEF RefEarned
<1> HIDE DEF outs, refs
<1>13. /\ \A i \in DOMAIN outs : RowEarned(disk', i, outs[i])
       /\ \A i \in DOMAIN refs : RefEarned(disk', i, refs[i])
  BY <1>10, <1>11, EarnedStill
<1>14. \A i \in DOMAIN new : RefEarned(disk', i, new[i])
  <2> SUFFICES ASSUME NEW i \in DOMAIN new PROVE RefEarned(disk', i, new[i])
    OBVIOUS
  <2>1. CASE i \in DOMAIN refs
    BY <1>8, <1>13, <2>1
  <2>2. CASE i \notin DOMAIN refs
    <3>1. i = job.k
      BY <1>8, <1>12, <2>2
    <3> QED BY <1>8, <1>12, <3>1
  <2> QED BY <2>1, <2>2
<1>15. JobEarned'
  BY <1>6, <1>8, <1>9, <1>13, <1>14 DEF JobEarned, RowEarned, RefEarned, HoldsIn
<1> QED BY <1>1, <1>3, <1>15 DEF EarnedInv

\* A board shows what its rows hold.
LEMMA ContentHeld ==
    ASSUME NEW p, NEW root, root # NoPlace.root, NEW bytes, HoldsIn(disk, p, root, bytes)
    PROVE  p # NoPlace /\ Content(p) = bytes
<1>1. PICK at \in DOMAIN HeldIn(disk, root) : p = Place(root, at) /\ HeldIn(disk, root)[at] = bytes
  BY DEF HoldsIn
<1>2. p.root = root /\ disk[p] = bytes
  BY <1>1 DEF HeldIn, Place
<1> QED BY <1>2 DEF Content

LEMMA EarnedFinish ==
    ASSUME EarnedInv, NEW grades, FinishRun(grades)
    PROVE  EarnedInv'
<1>1. BenchInv' /\ job' = Idle
  BY FinishKeeps DEF EarnedInv, FinishRun
<1>2. job # Idle /\ job.phase = "score" /\ JobEarned
  BY DEF FinishRun, EarnedInv
<1>3. /\ DOMAIN board'.rows = DOMAIN job.outs
      /\ \A i \in DOMAIN job.outs : board'.rows[i] = RowOf(i, grades[i])
  BY DEF FinishRun
<1>4. \A i : RowDir(i) # NoPlace.root /\ BaseDir(i) # NoPlace.root
  BY DEF RowDir, BaseDir, NoPlace
<1>5. ArtifactIsEarned'
  <2> SUFFICES ASSUME NEW i \in DOMAIN board'.rows
               PROVE  LET row == board'.rows[i]
                      IN  /\ row.ran /\ row.outcome = "plan" => row.made = OnPaper(row.plan, row.saw)
                          /\ row.reference # Nothing => row.reference = OnPaper(Corpus[i].baseline, row.refsaw)
    BY DEF ArtifactIsEarned
  <2> DEFINE row == board'.rows[i]
             out == job.outs[i]
             ref == IF job.refs = <<>> THEN [place |-> NoPlace, saw |-> <<>>] ELSE job.refs[i]
  <2>1. /\ i \in DOMAIN job.outs
        /\ row.ran = out.ran /\ row.outcome = out.outcome /\ row.plan = out.plan /\ row.saw = out.saw
        /\ row.made = Content(out.artifact) /\ row.reference = Content(ref.place) /\ row.refsaw = ref.saw
    <3>1. i \in DOMAIN job.outs /\ row = RowOf(i, grades[i])
      BY <1>3
    <3> HIDE DEF row
    <3> QED BY <3>1 DEF RowOf
  <2>2. RowEarned(disk, i, out)
    BY <1>2, <2>1 DEF JobEarned
  <2>3. RefEarned(disk, i, ref)
    <3>1. CASE job.refs = <<>>
      BY <3>1 DEF RefEarned
    <3>2. CASE job.refs # <<>>
      <4>1. DOMAIN job.refs = DOMAIN job.outs
        <5>1. Len(job.refs) = Len(job.outs) /\ job.refs \in Seq(Range(job.refs))
          BY <1>2, <3>2 DEF JobEarned, Progress
        <5>2. job.outs \in Seq(Range(job.outs))
          BY <1>2 DEF EarnedInv, BenchInv, MediaKnown
        <5> QED BY <5>1, <5>2
      <4> QED BY <1>2, <2>1, <3>2, <4>1 DEF JobEarned
    <3> QED BY <3>1, <3>2
  <2> HIDE DEF row, out, ref
  <2>4. out.ran /\ out.outcome = "plan" => Content(out.artifact) = OnPaper(out.plan, out.saw)
    BY <1>4, <2>2, ContentHeld DEF RowEarned
  <2>5. Content(ref.place) # Nothing => Content(ref.place) = OnPaper(Corpus[i].baseline, ref.saw)
    <3>1. CASE ref.place = NoPlace
      BY <3>1 DEF Content
    <3>2. CASE ref.place # NoPlace
      BY <1>4, <2>3, <3>2, ContentHeld DEF RefEarned
    <3> QED BY <3>1, <3>2
  <2>6. /\ row.ran /\ row.outcome = "plan" => row.made = OnPaper(row.plan, row.saw)
        /\ row.reference # Nothing => row.reference = OnPaper(Corpus[i].baseline, row.refsaw)
    BY <2>1, <2>4, <2>5
  <2> QED BY <2>6 DEF row
<1> QED BY <1>1, <1>5 DEF EarnedInv

LEMMA EarnedStep == EarnedInv /\ [Next]_vars => EarnedInv'
<1> SUFFICES ASSUME EarnedInv, [Next]_vars PROVE EarnedInv'
  OBVIOUS
<1>1. CASE UNCHANGED <<disk, cache, job, board>>
  BY <1>1 DEF EarnedInv, BenchInv, Placed, CacheInv, MediaKnown, OnMedia, KnownMedia, Media, Below, JobEarned,
              Progress, Current, OnTheWay, RowEarned, RefEarned, ArtifactIsEarned
<1>2. CASE \E f \in Fixtures : EditRecipe(f)
  BY <1>1, <1>2 DEF EditRecipe
<1>3. CASE \E f \in Fixtures : HandEdit(f)
  <2>1. PICK f : HandEdit(f)
    BY <1>3
  <2>2. UNCHANGED board /\ job' = Disturbed
    BY <2>1 DEF HandEdit
  <2> QED BY <2>1, <2>2, HandEditKeeps, EarnedAside DEF EarnedInv
<1>4. CASE \E force \in BOOLEAN, remade, halved \in SUBSET Fixtures : Regenerate(force, remade, halved)
  <2>1. PICK force, remade, halved : Regenerate(force, remade, halved)
    BY <1>4
  <2>2. UNCHANGED board /\ job' = Disturbed
    BY <2>1 DEF Regenerate
  <2> QED BY <2>1, <2>2, RegenerateKeeps, EarnedAside DEF EarnedInv
<1>5. CASE \E v \in Verifiers : StartRun(v)
  BY <1>5, EarnedStart
<1>6. CASE \E a \in UNION {Corpus[i].answers : i \in DOMAIN Corpus} : RunRow(a)
  BY <1>6, EarnedRow
<1>7. CASE RowRaises
  BY <1>7, EarnedRaise
<1>8. CASE RunCommand
  BY <1>8, EarnedCommand
<1>9. CASE RunBaseline
  BY <1>9, EarnedBaseline
<1>10. CASE \E grades \in [DOMAIN Corpus -> {0, 1}] : FinishRun(grades)
  BY <1>10, EarnedFinish
<1>11. CASE UNCHANGED vars
  BY <1>1, <1>11 DEF vars
<1> QED BY <1>2, <1>3, <1>4, <1>5, <1>6, <1>7, <1>8, <1>9, <1>10, <1>11 DEF Next

\* What a row is graded on was made by this run, by this row's own commands,
\* each of which succeeded, from the fixtures alone, and so was its reference,
\* for any corpus, plans that write where they like, runs before it and edits of
\* the fixtures meanwhile (runner.py:233-263, provisioning.py:70).
THEOREM ArtifactsAreEarned == Spec => []ArtifactIsEarned
<1>1. Init => EarnedInv
  BY BenchInit DEF Init, EarnedInv, ArtifactIsEarned
<1>2. EarnedInv => ArtifactIsEarned
  BY DEF EarnedInv
<1> QED BY <1>1, <1>2, EarnedStep, PTL DEF Spec
=============================================================================
