---------------------------- MODULE CommandFactory ----------------------------
(***************************************************************************)
(* server/command_factory.py: the configurations of one machine, read from *)
(* its JSON files, and the choice of the one to run.  A configuration is   *)
(* an element of Commands; what its exec, killcmd, codename and header     *)
(* strings hold is left out.  The clock is abstracted to timedOut: whether *)
(* the window of the current configuration is over, what                   *)
(* is_command_window_timed_out computes from its start_timestamp.          *)
(***************************************************************************)
EXTENDS Naturals, SequencesExt

CONSTANTS
    Commands,     \* the configurations that JSON files may hold
    CommandLists  \* the lists a machine's JSON files may amount to

\* The constructor pops from the filled queue: an empty list is an IndexError
\* there and no factory exists.
ASSUME CommandListsAssumption ==
    /\ CommandLists \subseteq Seq(Commands)
    /\ <<>> \notin CommandLists

VARIABLES
    jsonDataList,    \* __json_data_list
    cmdQueue,        \* __cmd_queue, whose right end is the end of the sequence
    currentCommand,  \* __current_command
    timedOut         \* is_command_window_timed_out

factoryVars == <<jsonDataList, cmdQueue, currentCommand, timedOut>>

-------------------------------------------------------------------------------

\* __init__: fill the queue, pop the first command and stamp it.
FactoryInit ==
    /\ jsonDataList \in CommandLists
    /\ cmdQueue = Front(jsonDataList)
    /\ currentCommand = Last(jsonDataList)
    /\ timedOut = FALSE

RefilledEarly == IF Len(cmdQueue) <= 1 THEN cmdQueue \o jsonDataList ELSE cmdQueue  \* mutant

\* __check_and_refill_the_queue
Refilled == IF cmdQueue = <<>> THEN jsonDataList ELSE cmdQueue

\* An hour has gone by since the current command was stamped.
WindowElapses ==
    /\ ~timedOut
    /\ timedOut' = TRUE
    /\ UNCHANGED <<jsonDataList, cmdQueue, currentCommand>>

GetCommandsAnyTime ==  \* mutant
    /\ cmdQueue' = Front(Refilled)
    /\ currentCommand' = Last(Refilled)
    /\ timedOut' = FALSE
    /\ UNCHANGED jsonDataList
GetCommandsAliased ==  \* mutant: the queue it refills is the list itself
    /\ IF timedOut
       THEN /\ cmdQueue' = Front(Refilled)
            /\ currentCommand' = Last(Refilled)
            /\ timedOut' = FALSE
            /\ jsonDataList' = IF cmdQueue = <<>> THEN Front(Refilled) ELSE jsonDataList
       ELSE /\ cmdQueue' = Refilled
            /\ UNCHANGED <<currentCommand, timedOut, jsonDataList>>
GetCommandsUnpopped ==  \* mutant
    /\ cmdQueue' = Refilled
    /\ currentCommand' = Last(Refilled)
    /\ timedOut' = FALSE
    /\ UNCHANGED jsonDataList

\* get_commands_and_test_info: the queue is refilled whether or not a command
\* is then taken from it, and the command popped is stamped at once.
GetCommands ==
    /\ IF timedOut
       THEN /\ cmdQueue' = Front(Refilled)
            /\ currentCommand' = Last(Refilled)
            /\ timedOut' = FALSE
       ELSE /\ cmdQueue' = Refilled
            /\ UNCHANGED <<currentCommand, timedOut>>
    /\ UNCHANGED jsonDataList

FactoryNext == WindowElapses \/ GetCommands

FactorySpec == FactoryInit /\ [][FactoryNext]_factoryVars

-------------------------------------------------------------------------------

FactoryTypeOK ==
    /\ jsonDataList \in CommandLists
    /\ cmdQueue \in Seq(Commands)
    /\ currentCommand \in Commands
    /\ timedOut \in BOOLEAN

\* Where in the list the current command stands.  The queue is what precedes
\* it, or the whole list again when a refill came before the next pop.
Served == IF Len(cmdQueue) = Len(jsonDataList) THEN 1 ELSE Len(cmdQueue) + 1

\* Nothing is lost or served twice: the current command and what waits in the
\* queue always account for a prefix of the list the JSON files gave, however
\* refills and pops alternate (command_factory.py:31-36,54-59).
QueueAccountsForList ==
    /\ Len(cmdQueue) \in 0..Len(jsonDataList)
    /\ \A i \in 1..Len(cmdQueue) : cmdQueue[i] = jsonDataList[i]
    /\ currentCommand = jsonDataList[Served]

\* The factory implements the cyclic rotation: the configuration changes only
\* when its window is over, and then to its neighbour in the list.
Cycle == INSTANCE Rotation
             WITH n <- Len(jsonDataList), position <- Served, due <- timedOut
ImplementsRotation == Cycle!Spec

\* No configuration is starved: if expired windows keep being noticed by a
\* request for commands, every configuration of the list is served for ever.
EveryCommandServed ==
    []<><<timedOut /\ GetCommands>>_factoryVars
        => \A c \in Commands :
               []<>(c \in Range(jsonDataList) => currentCommand = c)
===============================================================================
