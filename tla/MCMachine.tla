------------------------------- MODULE MCMachine -------------------------------
(* The machine with one benchmark and with two.                              *)
EXTENDS Machine

CONSTANTS a, b

OneList == {<<a>>}
TwoList == {<<a, b>>}

\* A kill command for each benchmark, and one for all of them.
OwnKill == [c \in Commands |-> {c}]
KillAll == [c \in Commands |-> Commands]
===============================================================================
