----------------------------- MODULE MCRowBench -----------------------------
EXTENDS RowBench

Clip == [dir |-> "", name |-> "clip"]
InDir == [dir |-> "d", name |-> "clip"]
Temp == [dir |-> "", name |-> "temp"]

Abs(at) == Place(Fix, at)
Rel(at) == Place(Relative, at)

Cmd(ins, out) == [ins |-> ins, out |-> out]

MCFixtures == {Clip, InDir}

\* Plans that write beside, over and into the fixtures' names, chains, a plan
\* that reads what only an earlier run made, and a command that reads its output.
MCCorpus ==
    <<[fixture |-> Clip, expects |-> "plan", baseline |-> <<Cmd(<<Rel(Clip)>>, Rel(InDir))>>,
       answers |-> {<<Cmd(<<Abs(Clip)>>, Abs(Temp)), Cmd(<<Abs(Temp)>>, Abs(InDir))>>,
                    <<Cmd(<<Abs(Temp)>>, Abs(InDir))>>,
                    <<Cmd(<<Abs(InDir)>>, Abs(Clip))>>}],
      [fixture |-> InDir, expects |-> "plan", baseline |-> <<>>,
       answers |-> {NoPlan, <<Cmd(<<Abs(Clip)>>, Abs(Clip))>>}]>>
=============================================================================
