---------------------------- MODULE MCChainedPlan ----------------------------
(* Plans of one to three steps, either proposed for a request, or alone as   *)
(* they come to the rewrite, where more shapes of a plan are tried.          *)
EXTENDS ChainedPlan

N(stem, ext) == [parts |-> <<stem>>, ext |-> ext]
A == Bare(N("a", "mp4"))
B == Bare(N("b", "mp4"))
E == [abs |-> TRUE, dir |-> <<"d">>, name |-> N("e", "mp4")]   \* never named
S == Bare(N("clip_4k", ""))
SFile == Bare(N("clip_4k", "mp4"))
Thumb == Bare(N("t", "jpg"))
All == Bare(N("*", "mp4"))
InD(ref) == [ref EXCEPT !.dir = <<"d">>]

Do(tool, ins, out) == [tool |-> tool, ins |-> ins, out |-> out]
Says(mentions, stems, batch) ==
    [mentions |-> mentions, buried |-> {}, stems |-> stems, batch |-> batch]

MCOutputCapable == {"trim_video", "convert_video", "create_thumbnail", "concat_video"}
MCKinds == ("mp4" :> "video") @@ ("jpg" :> "image")
MCStructured == {<<"clip_4k">>}
MCSpelled == [s \in {"c:1"} |-> "c-1"]

\* The file named once, twice, by its stem, not at all, or among many.
MCRequests ==
    {Says(<<A>>, {}, FALSE), Says(<<A, A>>, {}, FALSE), Says(<<A, B>>, {}, FALSE), Says(<<A>>, {}, TRUE),
     Says(<<A>>, {<<"clip_4k">>}, FALSE), [Says(<<B>>, {}, FALSE) EXCEPT !.buried = {A.name}]}

ChainDisks == {{InPath(A), InPath(B)}, {InPath(A), InPath(B), InPath(SFile), InPath(E)}}

Edits(ins, outs) == {Do("trim_video", <<r>>, o) : r \in ins, o \in outs}
ChainSteps == Edits({A, B}, {NoFile, A, B})
             \cup Edits({S, SFile}, {NoFile})
             \cup {Do("trim_video", <<E>>, E), Do("create_thumbnail", <<A>>, Thumb), Do("concat_video", <<A, B>>, B),
                   Do("convert_video", <<All>>, NoFile), Do("done", <<>>, NoFile)}
AllChains == UNION {[1..n -> ChainSteps] : n \in 1..3}


AC == Bare(Marked(A.name, "converted"))
C == Bare(N("c:1", "mp4"))     \* the filesystem rejects it
Refs == {A, B, InD(A)}
AloneSteps ==
    {Do("convert_video", <<r>>, o) : r, o \in Refs}
      \cup {Do("trim_video", <<r>>, o) : r \in {A, B}, o \in {NoFile, AC}}
      \cup {Do("convert_video", <<A, B>>, o) : o \in {A, B}}
      \cup {Do("concat_video", <<A, r>>, o) : r \in {B, InD(A)}, o \in {A, B}}
      \cup {Do("convert_video", <<A>>, NoFile), Do("trim_video", <<A>>, C), Do("convert_video", <<C>>, C), Do("done", <<>>, NoFile)}
AllAlone == UNION {[1..n -> AloneSteps] : n \in 2..3}

AloneDisks == {{InPath(A)}, {InPath(A), InPath(B), InPath(InD(A))}, {InPath(A), InPath(AC), InPath(InD(A))}}

\* Left out are the plans of which ImplementsFlow is not true (DeclaredTwice).
ChainPlans == {p \in AllChains : \A u \in MCRequests : ~DeclaredTwice(Linked(p, u))}
AlonePlans == {p \in AllAlone : ~DeclaredTwice(p)}
MCPlans == ChainPlans \cup AlonePlans
MCDisks == ChainDisks \cup AloneDisks

MCInit ==
    \/ proposed \in ChainPlans /\ disk \in ChainDisks /\ ChainInit
    \/ /\ asked \in AlonePlans /\ disk \in AloneDisks /\ Init
       /\ said = CHOOSE u \in Requests : TRUE
       /\ proposed = asked
       /\ stage = "alone"

MCNext == ChainNext \/ (stage = "alone" /\ Next /\ UNCHANGED chainVars)
MCSpec == MCInit /\ [][MCNext]_<<vars, chainVars>>
=============================================================================
