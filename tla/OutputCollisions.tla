-------------------------- MODULE OutputCollisions --------------------------
(* skills/ffmpeg/python/_collisions.py: outputs of a plan that would         *)
(* overwrite what the plan reads are renamed, later references are rebound,  *)
(* and the plan runs.  Every ffmpeg command carries -y: a command whose      *)
(* output is one of its inputs destroys it.                                  *)
EXTENDS PlanFiles

CONSTANTS
    Plans,      \* the plans the model may propose: sequences of [tool, ins, out]
    Disks,      \* the sets of paths that may exist when the plan starts
    Respelled   \* an illegal stem -> the stem _legal_output_path makes of it

\* What names are put together from: the words of a plan, and the marks that
\* the program adds to them.
Part == STRING \cup {"converted", "intermediate", "_"}
Name == [parts : Seq(Part), ext : STRING]
Reference == [abs : BOOLEAN, dir : Seq(STRING), name : Name]
Step == [tool : STRING, ins : Seq(Reference), out : Reference \cup {NoFile}]

ASSUME PlansAssumption == Plans \subseteq Seq(Step) /\ NoFile \notin Reference
ASSUME DisksAssumption == \A d \in Disks : IsFiniteSet(d)
ASSUME RespelledAssumption == \A part \in DOMAIN Respelled : Respelled[part] \in Part

VARIABLES
    asked,      \* the plan as proposed
    plan,       \* the plan as rewritten so far
    disk,       \* the files that were there before the plan
    pc,         \* "legal", "walk", "run", "done"
    at,         \* the step the walk or the run is at
    reserved,   \* paths the walk has spoken for
    declared,   \* every path the plan declares it writes, moved names added
    moved,      \* the paths chosen as replacements
    content,    \* path -> what it holds: <<"disk", path>> or <<"step", i>>
    got,        \* what step i read: a sequence of contents
    intended    \* the plan before any renaming: what it says is what is meant

vars == <<asked, plan, disk, pc, at, reserved, declared, moved, content, got, intended>>

Steps == 1..Len(asked)

---------------------------------------------------------------------------
\* Resolving references.  The sandbox is the root of every path.

SandboxOutputTools == {"concat_video"}

InPath(ref) == Under(<<>>, ref)

InPaths(step) == {InPath(step.ins[k]) : k \in DOMAIN step.ins}

OutputBase(step) ==
    IF step.tool \in SandboxOutputTools \/ 1 \notin DOMAIN step.ins
    THEN <<>>
    ELSE InPath(step.ins[1]).dir

HasOutput(step) == ~IsTerminal(step) /\ step.out # NoFile

OutPath(step) == Under(OutputBase(step), step.out)

\* A chosen path written back in the shape of the reference it replaces.
Respell(ref, chosen) ==
    [abs |-> ref.abs, dir |-> IF ref.abs THEN chosen.dir ELSE ref.dir, name |-> chosen.name]

\* The step's references that denote a path, written as the chosen one.
Rebound(step, path, chosen) ==
    IF IsTerminal(step)
    THEN step
    ELSE [step EXCEPT !.ins = [k \in DOMAIN step.ins |->
            IF InPath(step.ins[k]) = path THEN Respell(step.ins[k], chosen) ELSE step.ins[k]]]

\* Mutant: the step that overwrote the file is left out.
ReboundShort(p, lo, hi, path, chosen) ==
    [i \in DOMAIN p |-> IF i \in lo..(hi - 1) THEN Rebound(p[i], path, chosen) ELSE p[i]]

ReboundBetween(p, lo, hi, path, chosen) ==
    [i \in DOMAIN p |-> IF i \in lo..hi THEN Rebound(p[i], path, chosen) ELSE p[i]]

---------------------------------------------------------------------------
\* _bind_legal_output_names: an output the filesystem rejects is respelled,
\* and the later references written the same way with it.

LegalRef(ref) ==
    [ref EXCEPT !.name.parts =
        [k \in DOMAIN @ |-> IF @[k] \in DOMAIN Respelled THEN Respelled[@[k]] ELSE @[k]]]

WrittenBefore(p, j, ref) == \E i \in 1..(j - 1) : HasOutput(p[i]) /\ p[i].out = ref

LegalPlan(p) ==
    [j \in DOMAIN p |->
        [tool |-> p[j].tool,
         ins  |-> [k \in DOMAIN p[j].ins |->
                     IF ~IsTerminal(p[j]) /\ WrittenBefore(p, j, p[j].ins[k])
                     THEN LegalRef(p[j].ins[k]) ELSE p[j].ins[k]],
         out  |-> IF HasOutput(p[j]) THEN LegalRef(p[j].out) ELSE p[j].out]]

---------------------------------------------------------------------------
\* rebind_colliding_outputs.

ReadBy(p) == UNION {IF IsTerminal(p[i]) THEN {} ELSE InPaths(p[i]) : i \in DOMAIN p}
DeclaredBy(p) == {OutPath(p[i]) : i \in {j \in DOMAIN p : HasOutput(p[j])}}

\* The nearest earlier step that declares it writes the path; 0 if none does.
ProducerOf(p, path, before) ==
    Max({0} \cup {j \in 1..(before - 1) : HasOutput(p[j]) /\ OutPath(p[j]) = path})

\* Mutant: only what was already walked over is spoken for.
NextFreeSoFar(path, mark) ==
    FirstFree(LAMBDA n : [path EXCEPT !.name = Numbered(@, mark, n)],
              ReadBy(LegalPlan(asked)) \cup reserved \cup disk)

\* The set the plan reads is taken before the walk and not updated by it; a
\* path is also not free when it exists.
NextFreeOutput(path, mark) ==
    FirstFree(LAMBDA n : [path EXCEPT !.name = Numbered(@, mark, n)],
              ReadBy(LegalPlan(asked)) \cup declared \cup reserved \cup disk)

Legal ==
    /\ pc = "legal"
    /\ plan' = LegalPlan(plan)
    /\ declared' = DeclaredBy(LegalPlan(plan))
    /\ pc' = "walk"
    /\ UNCHANGED <<asked, disk, at, reserved, moved, content, got>>

Walking(i) == pc = "walk" /\ i = at /\ i \in Steps

Advance == /\ at' = IF at = Len(asked) THEN 1 ELSE at + 1
           /\ pc' = IF at = Len(asked) THEN "run" ELSE pc

\* A terminal step, or one that lets the engine derive its output.
PassStep(i) ==
    /\ Walking(i)
    /\ ~HasOutput(plan[i])
    /\ Advance
    /\ UNCHANGED <<asked, plan, disk, reserved, declared, moved, content, got>>

Overwrites(step) == OutPath(step) \in InPaths(step)

\* The output is not one of the step's own inputs.
KeepOutput(i) ==
    /\ Walking(i)
    /\ HasOutput(plan[i])
    /\ ~Overwrites(plan[i])
    /\ reserved' = reserved \cup {OutPath(plan[i])}
    /\ Advance
    /\ UNCHANGED <<asked, plan, disk, declared, moved, content, got>>

\* Mutant: the step that would overwrite the intermediate gives way to it.
MoveLater(i) ==
    /\ Walking(i)
    /\ HasOutput(plan[i])
    /\ Overwrites(plan[i])
    /\ LET path   == OutPath(plan[i])
           chosen == NextFreeOutput(path, "intermediate")
       IN  /\ ProducerOf(plan, path, i) # 0
           /\ plan' = ReboundBetween([plan EXCEPT ![i].out = Respell(@, chosen)],
                                     i + 1, Len(plan), path, chosen)
           /\ reserved' = reserved \cup {chosen, path}
           /\ declared' = declared \cup {chosen}
           /\ moved' = moved \cup {chosen}
    /\ Advance
    /\ UNCHANGED <<asked, disk, content, got>>

\* The file that would be overwritten is an intermediate: its producer's
\* output moves, and the references up to and including this step with it.
MoveProducer(i) ==
    /\ Walking(i)
    /\ HasOutput(plan[i])
    /\ Overwrites(plan[i])
    /\ LET path   == OutPath(plan[i])
           j      == ProducerOf(plan, path, i)
           chosen == NextFreeOutput(path, "intermediate")
       IN  /\ j # 0
           /\ plan' = ReboundBetween([plan EXCEPT ![j].out = Respell(@, chosen)],
                                     j + 1, i, path, chosen)
           /\ reserved' = reserved \cup {chosen, path}
           /\ declared' = declared \cup {chosen}
           /\ moved' = moved \cup {chosen}
    /\ Advance
    /\ UNCHANGED <<asked, disk, content, got>>

\* The file was on disk: this step's output moves, later references follow.
MoveConsumer(i) ==
    /\ Walking(i)
    /\ HasOutput(plan[i])
    /\ Overwrites(plan[i])
    /\ LET path   == OutPath(plan[i])
           chosen == NextFreeOutput(path, "converted")
       IN  /\ ProducerOf(plan, path, i) = 0
           /\ plan' = ReboundBetween([plan EXCEPT ![i].out = Respell(@, chosen)],
                                     i + 1, Len(plan), path, chosen)
           /\ reserved' = reserved \cup {chosen}
           /\ declared' = declared \cup {chosen}
           /\ moved' = moved \cup {chosen}
    /\ Advance
    /\ UNCHANGED <<asked, disk, content, got>>

---------------------------------------------------------------------------
\* The commands a step renders: one per file (_build_one_recipe, then
\* disambiguate_outputs), or one for all (RunConcatStep).

SuffixOf(tool) == IF tool = "trim_video" THEN "trimmed" ELSE "converted"

Derived(step, path) == [path EXCEPT !.name = Marked(@, SuffixOf(step.tool))]

Target(step, path) ==
    LET out == Under(path.dir, step.out)
    IN  IF step.out = NoFile \/ out = path THEN Derived(step, path) ELSE out

Commands(step) ==
    LET inputs == [k \in DOMAIN step.ins |-> InPath(step.ins[k])]
        outs   == Placed(inputs, [k \in DOMAIN inputs |-> Target(step, inputs[k])])
    IN  IF IsTerminal(step) THEN <<>>
        ELSE IF step.tool \in SandboxOutputTools
        THEN <<[ins |-> inputs, out |-> OutPath(step)]>>
        ELSE [k \in DOMAIN inputs |-> [ins |-> <<inputs[k]>>, out |-> outs[k]]]

Written(step) == {Commands(step)[k].out : k \in DOMAIN Commands(step)}

\* The k-th command of step i reads a file.  ffmpeg truncates the output, then
\* reads: an input that is the output, or is not there, is lost.
ReadAt(i, k, path) ==
    CASE path = Commands(plan[i])[k].out -> <<"lost", path>>
      [] path # Commands(plan[i])[k].out /\ \E m \in 1..(k - 1) : Commands(plan[i])[m].out = path -> <<"step", i>>
      [] OTHER -> IF path \in DOMAIN content THEN content[path] ELSE <<"lost", path>>

RunStep(i) ==
    /\ pc = "run" /\ i = at /\ i \in Steps
    /\ content' = [p \in DOMAIN content \cup Written(plan[i]) |->
                    IF p \in Written(plan[i]) THEN <<"step", i>> ELSE content[p]]
    /\ got' = [got EXCEPT ![i] =
                FlattenSeq([k \in DOMAIN Commands(plan[i]) |->
                    LET ins == Commands(plan[i])[k].ins IN [m \in DOMAIN ins |-> ReadAt(i, k, ins[m])]])]
    /\ at' = i + 1
    /\ pc' = IF i = Len(asked) THEN "done" ELSE "run"
    /\ UNCHANGED <<asked, plan, disk, reserved, declared, moved>>

Init ==
    /\ asked \in Plans
    /\ disk \in Disks
    /\ plan = asked
    /\ pc = "legal"
    /\ at = 1
    /\ reserved = {} /\ declared = {} /\ moved = {}
    /\ content = [p \in disk |-> <<"disk", p>>]
    /\ got = [i \in Steps |-> <<>>]
    /\ intended = asked
    \* preflight: what a step reads is there or an earlier step declares it
    /\ \A i \in Steps : \A p \in InPaths(asked[i]) : p \in disk \/ ProducerOf(asked, p, i) # 0

Next ==
    /\ \/ Legal
       \/ \E i \in Steps : PassStep(i) \/ KeepOutput(i) \/ MoveProducer(i) \/ MoveConsumer(i)
       \/ \E i \in Steps : RunStep(i)
    /\ UNCHANGED intended

Spec == Init /\ [][Next]_vars

---------------------------------------------------------------------------
TypeOK ==
    /\ pc \in {"legal", "walk", "run", "done"}
    /\ at \in 1..(Len(asked) + 1)
    /\ Len(plan) = Len(asked) /\ DOMAIN got = Steps
    /\ \A i \in Steps : plan[i].tool = asked[i].tool /\ Len(plan[i].ins) = Len(asked[i].ins)
    /\ moved \subseteq declared

\* What a reference of a plan means: a name an earlier step declares binds to
\* what that step wrote, any other to the file on disk (_collisions.py:14-21).
Meaning(p, i, ref) ==
    LET j == ProducerOf(p, InPath(ref), i)
    IN  IF j = 0 THEN <<"disk", InPath(ref)>> ELSE <<"step", j>>

MeantBy(p) == [i \in DOMAIN p |-> [k \in DOMAIN p[i].ins |-> Meaning(p, i, p[i].ins[k])]]

\* The rewritten plan, and its run, implement the plan that was meant: every
\* step runs once, in order, and reads what its references stand for, or
\* nothing runs (_collisions.py:14-21).
Flow == INSTANCE PlanFlow WITH
    meant <- MeantBy(intended),
    next  <- IF pc \in {"run", "done"} THEN at ELSE 1,
    reads <- got

ImplementsFlow == Flow!FlowSpec

\* A step gives way to a file on disk before a later step declares its name:
\* what the plan reads under that name is then taken for the later step's.
DeclaredTwice(p) ==
    \E i, j \in DOMAIN p :
        /\ i < j /\ HasOutput(p[i]) /\ HasOutput(p[j])
        /\ OutPath(p[i]) \in InPaths(p[i]) /\ ProducerOf(p, OutPath(p[i]), i) = 0
        /\ OutPath(p[j]) = OutPath(p[i])

\* The step writes the one file it names, and none that the engine derives.
WritesAsTold(step) == HasOutput(step) /\ (step.tool \in SandboxOutputTools \/ Len(step.ins) = 1)

\* The last step that declares a name the plan also chains through is the one
\* whose work ends up under it (_collisions.py:35-50): of two steps that put
\* the user's name on their output, the intermediate one gives it up.  A later
\* name that the engine derives may still fall on it.
NameKeepsBranchEnd ==
    pc = "done" =>
        LET named == LegalPlan(asked) IN
        \A i \in Steps :
            (/\ HasOutput(named[i]) /\ named[i].ins # <<>>
             /\ ProducerOf(named, OutPath(named[i]), i) # 0
             /\ \A j \in (i + 1)..Len(named) : IsTerminal(named[j]) \/ WritesAsTold(named[j])
             /\ ProducerOf(named, OutPath(named[i]), Len(named) + 1) = i)
            => content[OutPath(named[i])] = <<"step", i>>

\* A name chosen as a replacement is free when it is written: no file that
\* was there and no output another step names is destroyed (_engine.py:58-61).
\* A name the engine derives for a step is in no plan, and can be chosen.
FallbackDestroysNothing ==
    [][\A p \in moved : p \in DOMAIN content /\ content'[p] # content[p] =>
          /\ content[p][1] = "step"
          /\ ~(WritesAsTold(plan[content[p][2]]) /\ WritesAsTold(plan[at]))]_vars
=============================================================================
