-------------------------- MODULE MCDaemonLifecycle --------------------------
EXTENDS DaemonLifecycle

CONSTANTS a, b, r, s, x, y

WantsSame == [c \in Starters \cup Runners |-> x]
WantsDiffer == [c \in Starters \cup Runners |-> IF c = b THEN y ELSE x]
=============================================================================
