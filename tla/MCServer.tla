------------------------------- MODULE MCServer -------------------------------
(* Two machines, of which an end may find the second started and not listed;  *)
(* the screen has room for one message of one thread.                         *)
EXTENDS Server
===============================================================================
