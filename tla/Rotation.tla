------------------------------- MODULE Rotation -------------------------------
(***************************************************************************)
(* What a command factory promises its machine: the n configurations of    *)
(* the JSON files are served in a fixed cyclic order, and the next one is  *)
(* taken only when the execution window of the present one is over.        *)
(***************************************************************************)
EXTENDS Naturals

VARIABLES
    n,         \* number of configurations, fixed once the files are loaded
    position,  \* index in 1..n of the configuration being served
    due        \* the execution window of that configuration is over

vars == <<n, position, due>>

Init ==
    /\ n \in Nat \ {0}
    /\ position = n
    /\ due = FALSE

WindowOver ==
    /\ due' = TRUE
    /\ UNCHANGED <<n, position>>

Advance ==
    /\ due
    /\ position' = IF position = 1 THEN n ELSE position - 1
    /\ due' = FALSE
    /\ UNCHANGED n

Next == WindowOver \/ Advance

Spec == Init /\ [][Next]_vars
===============================================================================
