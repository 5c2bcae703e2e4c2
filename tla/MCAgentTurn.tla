----------------------------- MODULE MCAgentTurn -----------------------------
EXTENDS AgentTurn, TLC

Tool(destructive, internal, readonly, leaves) ==
    [destructive |-> destructive, internal |-> internal, readonly |-> readonly, leaves |-> leaves]
T(tool, uses, out, forwards) == [tool |-> tool, uses |-> uses, out |-> out, forwards |-> forwards]

MCRegistry ==
    ("strip" :> Tool(TRUE, FALSE, FALSE,
        <<T("probe", {}, "p", TRUE), T("look", {}, NoVar, FALSE), T("run", {"p"}, "r", FALSE),
          T("report", {"r"}, NoVar, FALSE)>>)) @@
    ("fit" :> Tool(TRUE, FALSE, FALSE,
        <<T("clarify", {}, NoVar, FALSE), T("run", {}, NoVar, FALSE)>>)) @@
    ("trim" :> Tool(FALSE, FALSE, FALSE,
        <<T("probe", {}, "p", TRUE), T("wait_for_confirmation", {}, NoVar, FALSE),
          T("run", {"p"}, "r", FALSE)>>)) @@
    ("move" :> Tool(TRUE, FALSE, FALSE, <<>>)) @@
    ("find" :> Tool(FALSE, FALSE, TRUE, <<>>)) @@
    ("probe" :> Tool(FALSE, TRUE, TRUE, <<>>)) @@
    ("look" :> Tool(FALSE, TRUE, TRUE, <<>>)) @@
    ("run" :> Tool(FALSE, TRUE, FALSE, <<>>)) @@
    ("report" :> Tool(FALSE, TRUE, TRUE, <<>>)) @@
    [t \in Terminal |-> Tool(FALSE, FALSE, FALSE, <<>>)] @@
    ("wait_for_confirmation" :> Tool(FALSE, TRUE, FALSE, <<>>))

S(tool, uses, out) == [tool |-> tool, uses |-> uses, out |-> out, fault |-> "none"]
F(tool, fault) == [S(tool, {}, NoVar) EXCEPT !.fault = fault]

MCAnswers ==
    {<<>>, <<S("done", {}, NoVar)>>, <<S("strip", {}, NoVar)>>, <<S("fit", {}, NoVar)>>,
     <<S("run", {}, NoVar)>>, <<S("move", {"x"}, NoVar)>>,
     <<S("find", {}, "x"), S("move", {"x"}, NoVar)>>,
     <<S("trim", {}, "x"), S("move", {"x"}, NoVar)>>,
     <<S("find", {}, NoVar), S("done", {}, NoVar), S("trim", {}, NoVar)>>,
     <<S("trim", {"p"}, NoVar), S("find", {}, NoVar)>>,
     <<S("move", {}, NoVar), F("trim", "bad")>>, <<F("quit", "none")>>}
        \cup {<<F("trim", f)>> : f \in {"missing", "extra", "bad", "stem", "unnamed", "absent", "ghost"}}
=============================================================================
