---------------------------- MODULE MCParityCheck ---------------------------
(* Two comparisons of measurements, one scene each: boards against snapshots *)
(* (two skills, one of which defines the verifier of output files, two       *)
(* models, and an agent that names none; a grade is good, or too low in one  *)
(* metric), and native against Python over a shown and a quiet row.          *)
EXTENDS RegressionGate, ParityCheck
CONSTANTS m1, m2

MCSkills == <<"documents", "ffmpeg">>
MCOwns == [documents |-> {"cheap", "success"}, ffmpeg |-> {"cheap", "success", "output_diff"}]
MCBackends == [one |-> m1, two |-> m2]
MCGrades == {[outcome |-> 2, knaif |-> 2], [outcome |-> 2, knaif |-> 0]}
MCSettings == {[prompt |-> "selected", total |-> 1], [prompt |-> "static", total |-> 2]}

MCCwd == <<"w">>
Here(n) == [abs |-> FALSE, dir |-> <<>>, name |-> n]
There(n) == [abs |-> TRUE, dir |-> <<"w">>, name |-> n]
Elsewhere(n) == [abs |-> TRUE, dir |-> <<"v">>, name |-> n]

MCDeclared == [join |-> [output |-> Here("joined")], shrink |-> <<>>, clarify |-> <<>>]

Join(in) == [tool |-> "join", args |-> [input |-> in]]
JoinTo(in, out) == [tool |-> "join", args |-> [input |-> in, output |-> out]]
Shrink(in, q) == [tool |-> "shrink", args |-> [input |-> in, quality |-> q]]
ShrinkPlain(in) == [tool |-> "shrink", args |-> [input |-> in]]
Clarify == [tool |-> "clarify", args |-> <<>>]

Cmd(in, o, out) == [src |-> in, opts |-> o, out |-> out]
Joining(in) == Cmd(in, "join", Here("joined"))
Shrinking(in, q) == Cmd(in, q, Here("small"))

Answer(p, c, e) == [plan |-> p, cmds |-> c, end |-> e]

\* Native writes relative paths and Python absolute ones; a default may be
\* filled in; a clip may be another of that name; commands may be ported wrong.
NativeShown ==
    {Answer(<<Join(Here("a"))>>, <<Joining(Here("a"))>>, "done"),
     Answer(<<Join(Here("a"))>>, <<Shrinking(Here("a"), "low")>>, "done"),
     Answer(<<Join(Here("a"))>>, <<>>, "asks"),
     Answer(<<Join(Here("a"))>>, <<>>, "unbuilt"),
     Answer(<<Join(Here("a")), Shrink(Here("joined"), "low")>>,
            <<Joining(Here("a")), Shrinking(Here("joined"), "low")>>, "done"),
     Answer(<<Join(Here("a")), Shrink(Here("joined"), "low")>>,
            <<Joining(Here("a")), Shrinking(Here("joined"), "high")>>, "done"),
     Answer(<<Join(Here("a")), Shrink(Here("joined"), "low")>>, <<Joining(Here("a"))>>, "fails"),
     Answer(<<Shrink(Here("a"), "low")>>, <<Shrinking(Here("a"), "low")>>, "done"),
     Answer(<<Clarify>>, <<>>, "asks"),
     Answer(<<>>, <<>>, "fails")}

PythonShown ==
    {Answer(<<JoinTo(There("a"), Here("joined"))>>, <<Joining(There("a"))>>, "done"),
     Answer(<<Join(There("a"))>>, <<>>, "refuses"),
     Answer(<<Join(Elsewhere("a"))>>, <<Joining(Elsewhere("a"))>>, "done"),
     Answer(<<Join(There("a")), Shrink(There("joined"), "low")>>,
            <<Joining(There("a")), Shrinking(There("joined"), "low")>>, "done"),
     Answer(<<Join(There("a")), Shrink(There("joined"), "low")>>, <<Joining(There("a"))>>, "previews"),
     Answer(<<Join(There("a")), Shrink(There("joined"), "low")>>, <<Joining(There("a"))>>, "fails"),
     Answer(<<Join(There("a"))>>, <<>>, "previews"),
     Answer(<<ShrinkPlain(There("a"))>>, <<Shrinking(There("a"), "high")>>, "done"),
     Answer(<<Clarify>>, <<>>, "asks"),
     Answer(<<>>, <<>>, "fails")}

Quietly(as) == {[a EXCEPT !.cmds = <<>>] : a \in {b \in as : b.end # "previews"}}

MCRows == <<[quiet |-> FALSE], [quiet |-> TRUE]>>
MCNative == <<NativeShown, Quietly(NativeShown)>>
MCPython == <<PythonShown, Quietly(PythonShown)>>

Harness(mode, batch, older, llama, weights, bound, label) ==
    [mode |-> mode, batch |-> batch, older |-> older, llama |-> llama, weights |-> weights,
     bound |-> bound, label |-> label]

Half == [of |-> 1, in |-> 2]
MCCalls ==
    {Harness("command", FALSE, older, TRUE, "same", b, TRUE) : older \in BOOLEAN, b \in {Strict, Half}}
    \cup {Harness("plan", batch, FALSE, TRUE, "unregistered", Half, TRUE) : batch \in BOOLEAN}
    \cup {Harness("plan", FALSE, FALSE, TRUE, "same", Unstated, label) : label \in BOOLEAN}

MCRetired ==
    [judged |-> FALSE, passed |-> TRUE, call |-> Harness("command", FALSE, FALSE, TRUE, "same", Strict, TRUE),
     rows |-> <<[native |-> Answer(<<Join(Here("a"))>>, <<Shrinking(Here("a"), "low")>>, "done"),
                 python |-> Answer(<<Join(There("a"))>>, <<Joining(There("a"))>>, "done"),
                 quiet |-> FALSE, status |-> "match"]>>]

VARIABLE scene

MCInit ==
    /\ scene \in {"boards", "runtimes"} /\ GateInit /\ ParityInit
    /\ scene = "boards" => report = NoRun

MCNext ==
    \/ scene = "boards" /\ GateNext /\ UNCHANGED <<parityVars, scene>>
    \/ scene = "runtimes" /\ ParityNext /\ UNCHANGED <<gateVars, scene>>

MCSpec == MCInit /\ [][MCNext]_<<gateVars, parityVars, scene>>
=============================================================================
