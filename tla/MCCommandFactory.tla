--------------------------- MODULE MCCommandFactory ---------------------------
(* The factory on every list of at most MaxList of the given commands.       *)
EXTENDS CommandFactory

CONSTANT MaxList

MCCommandLists == SeqOf(Commands, MaxList) \ {<<>>}
===============================================================================
