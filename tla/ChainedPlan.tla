----------------------------- MODULE ChainedPlan -----------------------------
(* One request of the ffmpeg skill from the model's answer to the files it   *)
(* leaves: infer links the chain (ChainLinks), execute_plan resolves stems,  *)
(* asks when a file was not named, lets the skill move colliding outputs     *)
(* (OutputCollisions), checks that the inputs exist, and runs the commands.  *)
EXTENDS OutputCollisions, ChainLinks

CONSTANT Requests      \* what the user may say

VARIABLES
    said,       \* the request
    proposed,   \* the plan as the model wrote it
    stage       \* "infer", "stems", "gate", "rewrite", "preflight", "run", "asked_back"

chainVars == <<said, proposed, stage>>

\* The sandbox's own listing: its files, not those of its folders.
Listing == {p.name : p \in {q \in disk : q.dir = <<>>}}

Ask == stage' = "asked_back" /\ UNCHANGED <<said, proposed, vars>>

Infer ==
    /\ stage = "infer"
    /\ LET linked == Linked(proposed, said) IN
       IF Hallucinated(linked, said, Listing)
       THEN Ask
       ELSE /\ asked' = linked /\ plan' = linked
            /\ stage' = "stems"
            /\ UNCHANGED <<said, proposed, disk, pc, at, reserved, declared, moved, content, got>>

---------------------------------------------------------------------------
\* resolve_stems: a word that looks like a stem becomes the one file it names.

IsStem(ref) == ~IsFile(ref) /\ ~HasDir(ref) /\ ~IsGlob(ref) /\ IsStemCandidate(ref.name.parts)

StemMatches(ref) == {n \in Listing : n.parts = ref.name.parts}

ResolveStem(ref) ==
    IF IsStem(ref) /\ StemMatches(ref) # {} THEN Bare(CHOOSE n \in StemMatches(ref) : TRUE) ELSE ref

ResolvedStems(p) ==
    [i \in DOMAIN p |->
        [tool |-> p[i].tool, ins |-> [k \in DOMAIN p[i].ins |-> ResolveStem(p[i].ins[k])], out |-> p[i].out]]

ResolveStems ==
    /\ stage = "stems"
    /\ IF \E i \in DOMAIN asked : \E r \in Range(asked[i].ins) :
             IsStem(r) /\ Cardinality(StemMatches(r)) # 1
       THEN Ask
       ELSE /\ asked' = ResolvedStems(asked) /\ plan' = asked'
            /\ stage' = "gate"
            /\ UNCHANGED <<said, proposed, disk, pc, at, reserved, declared, moved, content, got>>

---------------------------------------------------------------------------
\* nl_clarify_gate, no file listing injected: each input of a request that is
\* not about many files was written out, named by its stem, or made earlier.

WrittenOut(u, ref) == \E m \in Range(u.mentions) : m.name = ref.name

Concrete(u, ref) ==
    \/ WrittenOut(u, ref)
    \/ IsStemCandidate(ref.name.parts) /\ StemWithin(u, ref.name.parts)

\* Mutant: the output of any step, the reader's own included, counts as made.
UnderSpecifiedAnywhere(p, u) ==
    /\ ~u.batch
    /\ \E i \in DOMAIN p : \E r \in Range(p[i].ins) :
          /\ ~IsGlob(r) /\ ~HasDir(r)
          /\ \A j \in DOMAIN p : p[j].out # r
          /\ ~Concrete(u, r)

UnderSpecified(p, u) ==
    /\ ~u.batch
    /\ \E i \in DOMAIN p : \E r \in Range(p[i].ins) :
          /\ ~IsGlob(r) /\ ~HasDir(r)
          /\ \A j \in 1..(i - 1) : p[j].out # r
          /\ ~Concrete(u, r)

ClarifyGate ==
    /\ stage = "gate"
    /\ IF UnderSpecified(asked, said)
       THEN Ask
       ELSE stage' = "rewrite" /\ UNCHANGED <<said, proposed, vars>>

---------------------------------------------------------------------------
\* The skill's rewrite.  A glob is expanded against the disk when its step
\* runs, which is not modelled: such a plan stays at this stage.

Rewrite ==
    /\ stage = "rewrite"
    /\ \A i \in DOMAIN asked : \A r \in Range(asked[i].ins) : ~IsGlob(r) /\ IsFile(r)
    /\ \/ Legal
       \/ \E i \in Steps : PassStep(i) \/ KeepOutput(i) \/ MoveProducer(i) \/ MoveConsumer(i)
    /\ stage' = IF pc' = "run" THEN "preflight" ELSE stage
    /\ UNCHANGED <<said, proposed>>

\* _preflight_inputs: a file name an earlier step declares as its output, in
\* whatever directory, is not looked for.
PlannedBefore(i) == {plan[j].out.name : j \in {k \in 1..(i - 1) : plan[k].out # NoFile}}

Missing(i) == {r \in Range(plan[i].ins) : r.name \notin PlannedBefore(i) /\ InPath(r) \notin disk}

Preflight ==
    /\ stage = "preflight"
    /\ IF \E i \in DOMAIN plan : ~IsTerminal(plan[i]) /\ Missing(i) # {}
       THEN Ask
       ELSE stage' = "run" /\ UNCHANGED <<said, proposed, vars>>

Execute ==
    /\ stage = "run"
    /\ \E i \in Steps : RunStep(i)
    /\ UNCHANGED chainVars

ChainInit ==
    /\ said \in Requests
    /\ proposed \in Plans
    /\ disk \in Disks
    /\ stage = "infer"
    /\ asked = proposed /\ plan = proposed
    /\ pc = "legal" /\ at = 1
    /\ reserved = {} /\ declared = {} /\ moved = {}
    /\ content = [p \in disk |-> <<"disk", p>>]
    /\ got = [i \in DOMAIN proposed |-> <<>>]
    /\ intended = ResolvedStems(Linked(proposed, said))

ChainNext ==
    /\ Infer \/ ResolveStems \/ ClarifyGate \/ Rewrite \/ Preflight \/ Execute
    /\ UNCHANGED intended

ChainSpec == ChainInit /\ [][ChainNext]_<<vars, chainVars>>

---------------------------------------------------------------------------
ChainTypeOK ==
    /\ stage \in {"infer", "stems", "gate", "rewrite", "preflight", "run", "asked_back"}
    /\ stage \in {"preflight", "run"} => pc \in {"run", "done"}
    /\ pc = "done" => stage = "run"
    /\ Len(asked) = Len(proposed) /\ Len(plan) = Len(asked)

UserNamed(r) == Within(said, r) \/ (StemWithin(said, r.name.parts) /\ r.name \in Listing)

\* The gate asks about none of these, and the guard against invented names
\* takes the output of any step, the reader's own included.
Ungated(r) == HasDir(r) \/ said.batch \/ StemWithin(said, r.name.parts)

\* A plan that is run reads nothing the user did not name: each input was in
\* the request, was named by its stem and is there, or is the output of an
\* earlier step (agent.py:1358-1367).  Past the gate there is only a name
\* that some step writes and, among many files, a stem of one that is there.
OnlyNamedFilesRead ==
    stage = "run" =>
        \A i \in DOMAIN asked : \A r \in Range(asked[i].ins) :
            \/ IsTerminal(asked[i])
            \/ UserNamed(r)
            \/ \E j \in 1..(i - 1) : asked[j].out = r
            \/ Ungated(r) /\ \E j \in DOMAIN asked : asked[j].out = r
            \/ said.batch /\ IsStemCandidate(r.name.parts) /\ r.name \in Listing

\* What is in a file, and every step whose work went into it.
WorkIn(item) ==
    LET Into[n \in 0..Len(asked)] ==
            {n} \cup UNION {Into[got[n][k][2]] :
                            k \in {m \in DOMAIN got[n] : n # 0 /\ got[n][m][1] = "step"}}
    IN  IF item[1] = "step" THEN Into[item[2]] ELSE {}

\* Both steps of the proposal name this one file, the first makes a file of
\* the same kind of it, and the user named it once at most.
Continues(i, j) ==
    /\ i < j
    /\ ~IsTerminal(proposed[i]) /\ proposed[i].tool \in OutputCapable
    /\ Len(proposed[i].ins) = 1 /\ ~IsGlob(proposed[i].ins[1]) /\ IsFile(proposed[i].ins[1])
    /\ proposed[i].out # NoFile => ~OtherKind(proposed[i].ins[1], proposed[i].out)
    /\ proposed[j].ins = proposed[i].ins
    /\ MentionCount(said, proposed[i].ins[1].name) <= 1

\* When a plan has run, a step that names the source of an earlier step again
\* has read a file with that step's work in it, so that no step of a chain is
\* lost; but a file that the user named twice and no step writes is read as it
\* is on disk by every step that named it (agent.py:1254-1258).
ReusedSourcesRead ==
    stage = "run" /\ pc = "done" =>
        /\ \A i, j \in Steps : Continues(i, j) => \E k \in DOMAIN got[j] : i \in WorkIn(got[j][k])
        /\ \A i \in Steps : \A k \in DOMAIN proposed[i].ins :
              LET r == proposed[i].ins[k] IN
              (/\ MentionCount(said, r.name) > 1
               /\ \A j \in Steps : HasOutput(proposed[j]) => OutPath(proposed[j]) # InPath(r))
              => got[i][k] = <<"disk", InPath(r)>>
=============================================================================
