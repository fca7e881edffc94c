----------------------------- MODULE MCFileReceiver -----------------------------
(* Three boards that send files of one name: the first as announced, the     *)
(* second fewer units than announced, the third more, with SEP in its first. *)
EXTENDS FileReceiver

CONSTANTS a, b, c, f

OneName == [d \in Clients |-> f]
Sizes == [d \in Clients |-> IF d = a THEN 3 ELSE 2]
Sendable == [d \in Clients |-> IF d = b THEN 1 ELSE 3]
InThird == [d \in Clients |-> IF d = c THEN {1} ELSE {}]
===============================================================================
