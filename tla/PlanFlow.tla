------------------------------ MODULE PlanFlow ------------------------------
(* What a plan of file operations promises, with no file names in it: its    *)
(* steps run once each and in order, and each reads exactly what             *)
(* the plan meant it to read, a file that was there or the work of an        *)
(* earlier step.  OutputCollisions renames files under this promise.         *)
EXTENDS Naturals, Sequences

VARIABLES
    meant,  \* per step, what its inputs stand for: <<"disk", path>> or <<"step", j>>
    next,   \* the step to run
    reads   \* per step, what it has read

flowVars == <<meant, next, reads>>

FlowInit ==
    /\ next = 1
    /\ reads = [i \in 1..Len(meant) |-> <<>>]

RunNext ==
    /\ next \in 1..Len(meant)
    /\ \A k \in DOMAIN meant[next] : meant[next][k][1] = "step" => meant[next][k][2] < next
    /\ reads' = [reads EXCEPT ![next] = meant[next]]
    /\ next' = next + 1
    /\ UNCHANGED meant

FlowSpec == FlowInit /\ [][RunNext]_flowVars
=============================================================================
