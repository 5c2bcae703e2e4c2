----------------------------- MODULE ChainLinks -----------------------------
(* knaif/agent.py: what infer does to a plan the model proposed.  The later  *)
(* steps of a chain are bound to what the earlier ones produce, and a file   *)
(* name the user never gave is refused.                                      *)
(* A request is [mentions, buried, stems, batch]: the file references in it  *)
(* in order, the names inside longer words, the bare words, and whether it   *)
(* has a word like "all".                                                    *)
EXTENDS PlanFiles

CONSTANTS
    OutputCapable,  \* tools that take an output argument
    Kinds,          \* extension -> kind of file, for the extensions the skill lists
    Structured      \* stems with an underscore, a hyphen or a digit in them

IsGlob(ref) == "*" \in Range(ref.name.parts)
IsFile(ref) == ref.name.ext # ""
HasDir(ref) == ref.abs \/ ref.dir # <<>>

MentionCount(u, name) == Len(SelectSeq(u.mentions, LAMBDA m : m.name = name))

\* The reference as written is a substring of the request.
Within(u, ref) ==
    \E m \in Range(u.mentions) :
        m = ref \/ (~HasDir(ref) /\ (m.name = ref.name \/ ref.name \in u.buried))

IsStemCandidate(parts) == Len(parts) > 1 \/ parts \in Structured

StemWithin(u, parts) == parts \in u.stems \/ \E m \in Range(u.mentions) : m.name.parts = parts

NamedByStem(u, ref, listing) ==
    IsStemCandidate(ref.name.parts) /\ StemWithin(u, ref.name.parts) /\ ref.name \in listing

SetOut(p, i, ref) == [p EXCEPT ![i].out = ref]

---------------------------------------------------------------------------
\* _link_chain_intermediates: an intermediate nobody declares becomes the
\* output of the nearest earlier step that has none.

FilesOf(step) == SelectSeq(step.ins, LAMBDA r : IsFile(r) \/ IsGlob(r))

\* One output cannot name what many inputs, or a glob, turn into.
TakesOutput(step) ==
    /\ ~IsTerminal(step)
    /\ step.tool \in OutputCapable
    /\ step.out = NoFile
    /\ Len(FilesOf(step)) <= 1
    /\ \A r \in Range(step.ins) : ~IsGlob(r)

Undeclared(u, ref, produced) ==
    IsFile(ref) /\ ~IsGlob(ref) /\ ~HasDir(ref) /\ ref \notin produced /\ ~Within(u, ref)

LinkRef(acc, u, i, ref) ==
    LET prev == Max({0} \cup {j \in 1..(i - 1) : TakesOutput(acc.plan[j])})
    IN  IF Undeclared(u, ref, acc.produced) /\ prev # 0
        THEN [plan |-> SetOut(acc.plan, prev, ref), produced |-> acc.produced \cup {ref}]
        ELSE acc

LinkStep(acc, u, i) ==
    IF IsTerminal(acc.plan[i])
    THEN acc
    ELSE LET linked == FoldLeft(LAMBDA a, r : LinkRef(a, u, i, r), acc, acc.plan[i].ins)
         IN  [linked EXCEPT !.produced = @ \cup ({linked.plan[i].out} \ {NoFile})]

LinkIntermediates(p, u) ==
    FoldLeft(LAMBDA acc, i : LinkStep(acc, u, i),
             [plan |-> p, produced |-> {}], [i \in DOMAIN p |-> i]).plan

---------------------------------------------------------------------------
\* _forward_thread_reused_sources: a later step that names the source of an
\* earlier one reads what that one made of it.

Sources(step) == SelectSeq(step.ins, LAMBDA r : IsFile(r) /\ ~IsGlob(r))

\* The directory is kept: clip -> clip-chained, clip-chained2, ...
IntermediateName(ref, taken) ==
    LET Nth(n) == Marked(ref.name, IF n = 1 THEN "chained" ELSE "chained" \o ToString(n))
    IN  [ref EXCEPT !.name = FirstFree(Nth, taken)]

OtherKind(a, b) ==
    /\ a.name.ext \in DOMAIN Kinds /\ b.name.ext \in DOMAIN Kinds
    /\ Kinds[a.name.ext] # Kinds[b.name.ext]

ReadsName(step, name) ==
    ~IsTerminal(step) /\ \E r \in Range(step.ins) : IsFile(r) /\ r.name = name

\* Mutant: only the very next step is repointed.
RepointNext(p, i, name, out) ==
    [j \in DOMAIN p |->
        IF j = i + 1 /\ ~IsTerminal(p[j])
        THEN [p[j] EXCEPT !.ins =
                [k \in DOMAIN @ |-> IF IsFile(@[k]) /\ @[k].name = name THEN out ELSE @[k]]]
        ELSE p[j]]

RepointAfter(p, i, name, out) ==
    [j \in DOMAIN p |->
        IF j > i /\ ~IsTerminal(p[j])
        THEN [p[j] EXCEPT !.ins =
                [k \in DOMAIN @ |-> IF IsFile(@[k]) /\ @[k].name = name THEN out ELSE @[k]]]
        ELSE p[j]]

\* The user repeated the name: later references to it are theirs.
SaidAgain(u, name) == MentionCount(u, name) > 1

ThreadStep(acc, u, i) ==
    LET step == acc.plan[i]
        src  == Sources(step)[1]
        mint == IntermediateName(src, acc.taken)
        skip == \/ IsTerminal(step) \/ step.tool \notin OutputCapable
                \/ Len(Sources(step)) # 1
                \/ SaidAgain(u, src.name)
                \/ \A j \in (i + 1)..Len(acc.plan) : ~ReadsName(acc.plan[j], src.name)
                \/ step.out # NoFile /\ OtherKind(src, step.out)
    IN  IF skip THEN acc
        ELSE IF step.out # NoFile
        THEN [acc EXCEPT !.plan = RepointAfter(@, i, src.name, step.out)]
        ELSE [plan  |-> RepointAfter(SetOut(acc.plan, i, mint), i, src.name, mint),
              taken |-> acc.taken \cup {mint.name}]

ThreadSources(p, u) ==
    FoldLeft(LAMBDA acc, i : ThreadStep(acc, u, i),
             [plan |-> p, taken |-> {p[i].out.name : i \in {j \in DOMAIN p : p[j].out # NoFile}}],
             [i \in DOMAIN p |-> i]).plan

Linked(p, u) == ThreadSources(LinkIntermediates(p, u), u)

---------------------------------------------------------------------------
\* _hallucinated_filename: inputs that are neither in the request, nor named
\* by their stem and there, nor the output of a step of the plan.

OutputsOf(p) == {p[i].out : i \in DOMAIN p} \ {NoFile}

Hallucinated(p, u, listing) ==
    \E i \in DOMAIN p :
        /\ ~IsTerminal(p[i])
        /\ \E r \in Range(p[i].ins) :
              /\ ~IsGlob(r) /\ IsFile(r)
              /\ r \notin OutputsOf(p)
              /\ ~Within(u, r)
              /\ ~NamedByStem(u, r, listing)
=============================================================================
