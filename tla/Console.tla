-------------------------------- MODULE Console --------------------------------
(***************************************************************************)
(* server/print_manager.py and logger_formatter.py: the records of all     *)
(* threads go to the log file and, with --enable_curses, to a queue that   *)
(* the thread of the display empties and draws from, a hundred times a     *)
(* second.                                                                 *)
(***************************************************************************)
EXTENDS Integers, Sequences, FiniteSets

LOCAL INSTANCE FiniteSetsExt

CONSTANTS
    Loggers,      \* the threads that log
    Rows,         \* of the screen
    MaxLines      \* the lines one message takes

ASSUME ConsoleAssumption == Rows \in Nat /\ MaxLines \in Nat

VARIABLES
    records,      \* how many there have been
    printing,     \* _PRINTING_QUEUE: whose record, whether it has a time, its lines
    shown,        \* __current_print_dict: the lines of the last message of each thread
    display,      \* where the thread of the display is
    displayStop   \* its __stop_event

consoleVars == <<records, printing, shown, display, displayStop>>


ConsoleInit ==
    /\ records = 0 /\ printing = <<>> /\ shown = <<>>
    /\ display = "absent" /\ displayStop = FALSE

Displayed == display # "absent"

\* The handler of the file comes first and formats what it writes, which gives
\* the record its time: of level info, not debug.
Logs(thread) ==
    /\ Displayed
    /\ records' = records + 1
    /\ \E level \in {"debug", "info"}, lines \in 1 .. MaxLines :
           printing' = Append(printing, [from |-> thread, timed |-> level # "debug", lines |-> lines])
    /\ UNCHANGED <<shown, display, displayStop>>

DisplayStarts ==
    /\ display' = "look"
    /\ UNCHANGED <<records, printing, shown, displayStop>>

\* The stop event is looked at between two drawings only.
DisplayLooks ==
    /\ display = "look"
    /\ display' = IF displayStop THEN "ended" ELSE "take"
    /\ UNCHANGED <<records, printing, shown, displayStop>>

\* A record without a time raises.
DisplayTakes ==
    /\ display = "take" /\ printing # <<>>
    /\ printing' = Tail(printing)
    /\ IF Head(printing).timed
       THEN /\ shown' = [t \in DOMAIN shown \cup {Head(printing).from} |->
                            IF t = Head(printing).from THEN Head(printing).lines ELSE shown[t]]
            /\ UNCHANGED display
       ELSE display' = "raised" /\ UNCHANGED shown
    /\ UNCHANGED <<records, displayStop>>

\* For each thread its name, its lines and two empty rows, from the second row on.
LastRow == MapThenSumSet(LAMBDA t : shown[t] + 3, DOMAIN shown) - 2

\* mutant: it draws when there was something to print.
NothingToTake == printing = <<>> /\ shown # <<>>

PrintingEmpty == printing = <<>>

\* Below the screen, addstr raises.
DisplayDraws ==
    /\ display = "take" /\ PrintingEmpty
    /\ display' = IF LastRow < Rows THEN "look" ELSE "raised"
    /\ UNCHANGED <<records, printing, shown, displayStop>>

DisplaySteps == DisplayLooks \/ DisplayTakes \/ DisplayDraws
===============================================================================
