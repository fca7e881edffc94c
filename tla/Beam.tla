---------------------------------- MODULE Beam ---------------------------------
(***************************************************************************)
(* rasp/: the shutter of the beam.  The command monitor opens and closes   *)
(* it for an operator, the heartbeat monitor closes it when the heartbeats *)
(* of the experiment stop, the beam controller they share has a lock, and  *)
(* the master starts and stops them, and with them the transfer monitor    *)
(* (see FileReceiver), of which nothing here depends on before its stop,   *)
(* and after it only on whether it is in a transfer that has to end.  Time *)
(* is discrete: a step of the heartbeat monitor may come up to MaxLag      *)
(* ticks after it can be made, be it for the scheduler or for the lock.    *)
(***************************************************************************)
EXTENDS Naturals, Sequences

CONSTANTS
    RealRasp,   \* REAL_RASP: gpiozero drives the pin
    Timeout,    \* heartbeat_timeout, in ticks
    MaxLag,
    Beats,      \* datagrams that come to the heartbeat port, among AllBeats
    Orders,     \* datagrams that come to the command port, among AllOrders
    Room        \* datagrams a receive buffer holds: the rest are lost

AllBeats == {"HEARTBEAT", "other"}
AllOrders == {"OPEN BEAM", "CLOSE BEAM", "SHUTDOWN BOARD", "other"}

ASSUME BeamAssumption ==
    /\ RealRasp \in BOOLEAN
    /\ Timeout \in Nat \ {0} /\ MaxLag \in Nat /\ Room \in Nat \ {0}
    /\ Beats \subseteq AllBeats /\ Orders \subseteq AllOrders

VARIABLES
    hbPc, cmdPc, transferPc, masterPc,  \* control points of the threads
    hbSock, cmdSock,        \* the sockets: datagrams received, not yet read
    hbStop, cmdStop, transferStop,      \* _stop_signal of each monitor
    beamLock,               \* who holds _beam_lock
    pin,                    \* the LED pin is high: the beam is on
    beamOpen,               \* _beam_open
    waited,                 \* ticks since select was called
    age,                    \* ticks since last_heartbeat was taken
    late,                   \* ticks the heartbeat monitor is behind
    quiet                   \* ticks since a heartbeat came in

sockets == <<hbSock, cmdSock>>
stops == <<masterPc, hbStop, cmdStop, transferStop, transferPc>>
controller == <<beamLock, pin, beamOpen>>
clocks == <<waited, age, late, quiet>>
vars == <<hbPc, cmdPc, sockets, stops, controller, clocks>>

Watching == {"watch", "watch_select"}
Selecting == {"first_select", "watch_select"}
HbPoints == Watching \cup Selecting \cup {"top", "first", "close", "closing", "ended", "dead"}
CmdPoints == {"top", "select", "OPEN BEAM", "opening", "CLOSE BEAM", "closing",
              "SHUTDOWN BOARD", "ended", "dead"}
Over == {"ended", "dead"}

\* A heartbeat read a tick late may be older than the code can see: what waits
\* in the buffer, and each point passed on the way to it, may add a lag.
SilenceLimit == Timeout + MaxLag * (6 * Room + 2)

Init ==
    /\ hbPc = "top" /\ cmdPc = "top" /\ transferPc = "running" /\ masterPc = "running"
    /\ hbSock = <<>> /\ cmdSock = <<>>
    /\ hbStop = FALSE /\ cmdStop = FALSE /\ transferStop = FALSE
    /\ beamLock = "free" /\ pin = FALSE /\ beamOpen = FALSE
    /\ waited = 0 /\ age = 0 /\ late = 0 /\ quiet = 0

-------------------------------------------------------------------------------
(* HeartbeatMonitor                                                          *)

\* The monitor moves, and is on time again.
HbGoto(point) == hbPc' = point /\ late' = 0

HbTop ==
    /\ hbPc = "top"
    /\ HbGoto(IF hbStop THEN "ended" ELSE "first")
    /\ UNCHANGED <<cmdPc, sockets, stops, controller, waited, age, quiet>>

\* mutant: the loops do not look at the stop signal.
HbSelectRegardless ==
    /\ hbPc \in {"first", "watch"}
    /\ HbGoto(IF hbPc = "first" THEN "first_select" ELSE "watch_select") /\ waited' = 0
    /\ UNCHANGED <<cmdPc, sockets, stops, controller, age, quiet>>

\* Both loops of monitor_heartbeat look at the stop signal before each wait,
\* and monitor_heartbeat returns when it is set.
HbSelect ==
    /\ hbPc \in {"first", "watch"}
    /\ IF hbStop THEN HbGoto("close") /\ UNCHANGED waited
       ELSE HbGoto(IF hbPc = "first" THEN "first_select" ELSE "watch_select") /\ waited' = 0
    /\ UNCHANGED <<cmdPc, sockets, stops, controller, age, quiet>>

\* wait_for_heartbeat while none has come: anything but a heartbeat is ignored.
FirstHeartbeat ==
    /\ hbPc = "first_select"
    /\ \/ /\ hbSock # <<>>
          /\ hbSock' = Tail(hbSock)
          /\ IF Head(hbSock) = "HEARTBEAT" THEN HbGoto("watch") /\ age' = 0
             ELSE HbGoto("first") /\ UNCHANGED age
       \/ /\ hbSock = <<>> /\ waited >= Timeout
          /\ HbGoto("first")
          /\ UNCHANGED <<hbSock, age>>
    /\ UNCHANGED <<cmdPc, cmdSock, stops, controller, waited, quiet>>

\* mutant: another message is ignored, as before the first heartbeat.
UnheardUnlessOther(reason) == IF reason = "other" THEN "watch" ELSE "close"

\* mutant: a timeout is ignored, as before the first heartbeat.
UnheardUnlessTimeout(reason) == IF reason = "timeout" THEN "watch" ELSE "close"

\* Where the monitoring stage goes without a heartbeat in time: it returns.
Unheard(reason) == "close"

\* wait_for_heartbeat in the monitoring stage: a heartbeat in time goes on,
\* a late one, anything else and a timeout end the stage.
NextHeartbeat ==
    /\ hbPc = "watch_select"
    /\ \/ /\ hbSock # <<>>
          /\ hbSock' = Tail(hbSock)
          /\ IF Head(hbSock) # "HEARTBEAT" THEN HbGoto(Unheard("other")) /\ UNCHANGED age
             ELSE IF age > Timeout THEN HbGoto(Unheard("late")) /\ UNCHANGED age
             ELSE HbGoto("watch") /\ age' = 0
       \/ /\ hbSock = <<>> /\ waited >= Timeout
          /\ HbGoto(Unheard("timeout"))
          /\ UNCHANGED <<hbSock, age>>
    /\ UNCHANGED <<cmdPc, cmdSock, stops, controller, waited, quiet>>

\* mutant: without the lock.
HbClosesUnlocked ==
    /\ hbPc = "close"
    /\ IF RealRasp THEN HbGoto("closing") /\ beamLock' = "heartbeat" /\ pin' = FALSE
       ELSE HbGoto("dead") /\ UNCHANGED <<beamLock, pin>>
    /\ UNCHANGED <<cmdPc, sockets, stops, beamOpen, waited, age, quiet>>

\* close_beam, with the lock: the pin first, then the log and the flag.  The
\* LED that stands in for the pin has no off: the exception frees the lock and
\* ends the thread.
HbCloses ==
    /\ hbPc = "close"
    /\ beamLock = "free"
    /\ IF RealRasp THEN HbGoto("closing") /\ beamLock' = "heartbeat" /\ pin' = FALSE
       ELSE HbGoto("dead") /\ UNCHANGED <<beamLock, pin>>
    /\ UNCHANGED <<cmdPc, sockets, stops, beamOpen, waited, age, quiet>>

HbClosed ==
    /\ hbPc = "closing"
    /\ HbGoto("top") /\ beamOpen' = FALSE /\ beamLock' = "free"
    /\ UNCHANGED <<cmdPc, sockets, stops, pin, waited, age, quiet>>

Heartbeat == HbTop \/ HbSelect \/ FirstHeartbeat \/ NextHeartbeat \/ HbCloses \/ HbClosed

-------------------------------------------------------------------------------
(* CommandMonitor                                                            *)

CmdTop ==
    /\ cmdPc = "top"
    /\ cmdPc' = IF cmdStop THEN "ended" ELSE "select"
    /\ UNCHANGED <<hbPc, sockets, stops, controller, clocks>>

\* mutant: a datagram that is no command is returned as one.
CommandAny(data) == data

\* A datagram that is no command has the outcome of a timeout.
CommandIn(data) == IF data = "other" THEN "top" ELSE data

\* monitor_command
MonitorCommand ==
    /\ cmdPc = "select"
    /\ \/ cmdSock # <<>> /\ cmdSock' = Tail(cmdSock)
          /\ cmdPc' = CommandIn(Head(cmdSock))
       \/ cmdSock = <<>> /\ cmdPc' = "top" /\ UNCHANGED cmdSock
    /\ UNCHANGED <<hbPc, hbSock, stops, controller, clocks>>

\* open_beam and close_beam, with the lock.
CmdDrives ==
    /\ cmdPc \in {"OPEN BEAM", "CLOSE BEAM"}
    /\ beamLock = "free"
    /\ IF ~RealRasp THEN cmdPc' = "dead" /\ UNCHANGED <<beamLock, pin>>
       ELSE /\ cmdPc' = IF cmdPc = "OPEN BEAM" THEN "opening" ELSE "closing"
            /\ pin' = (cmdPc = "OPEN BEAM")
            /\ beamLock' = "command"
    /\ UNCHANGED <<hbPc, sockets, stops, beamOpen, clocks>>

CmdDriven ==
    /\ cmdPc \in {"opening", "closing"}
    /\ cmdPc' = "top" /\ beamOpen' = (cmdPc = "opening") /\ beamLock' = "free"
    /\ UNCHANGED <<hbPc, sockets, stops, pin, clocks>>

\* Master.shutdown_board calls _select_command_on_switch without the power
\* controller, which is an argument it requires: a TypeError.
ShutdownBoard ==
    /\ cmdPc = "SHUTDOWN BOARD"
    /\ cmdPc' = "dead"
    /\ UNCHANGED <<hbPc, sockets, stops, controller, clocks>>

Command == CmdTop \/ MonitorCommand \/ CmdDrives \/ CmdDriven \/ ShutdownBoard

-------------------------------------------------------------------------------
(* The transfer monitor, of which a board that connects decides              *)

TransferGoto(point) ==
    /\ transferStop
    /\ transferPc' = point
    /\ UNCHANGED <<hbPc, cmdPc, masterPc, hbStop, cmdStop, transferStop, sockets, controller, clocks>>

\* The signal finds it in a transfer, or a board connects before accept times out.
TransferAccepts == transferPc = "running" /\ TransferGoto("receiving")

\* The signal is looked at when accept has timed out, and after a transfer, if
\* no exception ends the thread.
TransferTimesOut == transferPc = "running" /\ TransferGoto("over")
TransferEnds == transferPc = "receiving" /\ TransferGoto("over")

Transfer == TransferAccepts \/ TransferTimesOut \/ TransferEnds

-------------------------------------------------------------------------------
(* Master.stop, the senders of the datagrams, and time                       *)

\* The monitors are told to stop one after the other, then joined.
MasterStops ==
    /\ \/ /\ masterPc = "running" /\ masterPc' = "stopping"
          /\ hbStop' = TRUE /\ UNCHANGED <<cmdStop, transferStop>>
       \/ /\ masterPc = "stopping" /\ masterPc' = "stopping transfer"
          /\ cmdStop' = TRUE /\ UNCHANGED <<hbStop, transferStop>>
       \/ /\ masterPc = "stopping transfer" /\ masterPc' = "joining"
          /\ transferStop' = TRUE /\ UNCHANGED <<hbStop, cmdStop>>
       \/ /\ masterPc = "joining" /\ {hbPc, cmdPc} \subseteq Over /\ transferPc = "over"
          /\ masterPc' = "joined" /\ UNCHANGED <<hbStop, cmdStop, transferStop>>
    /\ UNCHANGED <<hbPc, cmdPc, transferPc, sockets, controller, clocks>>

\* Datagrams for a monitor that is over, and the time then, are left out: nothing
\* depends on them.
BeatArrives ==
    /\ hbPc \notin Over /\ Len(hbSock) < Room
    /\ \E beat \in Beats :
           hbSock' = Append(hbSock, beat) /\ quiet' = IF beat = "HEARTBEAT" THEN 0 ELSE quiet
    /\ UNCHANGED <<hbPc, cmdPc, cmdSock, stops, controller, waited, age, late>>

OrderArrives ==
    /\ cmdPc \notin Over /\ Len(cmdSock) < Room
    /\ \E order \in Orders : cmdSock' = Append(cmdSock, order)
    /\ UNCHANGED <<hbPc, cmdPc, hbSock, stops, controller, clocks>>

\* The heartbeat monitor has something to do.
HbDue ==
    /\ hbPc \notin Over
    /\ hbPc \in Selecting => hbSock # <<>> \/ waited >= Timeout

\* A clock runs to a limit beyond which nothing depends on it.
UpTo(limit, clock) == IF clock < limit THEN clock + 1 ELSE clock

Tick ==
    /\ hbPc \notin Over
    /\ HbDue => late < MaxLag
    /\ late' = IF HbDue THEN late + 1 ELSE 0
    /\ waited' = UpTo(Timeout, waited)
    /\ age' = UpTo(Timeout + 1, age)
    /\ quiet' = UpTo(SilenceLimit + 1, quiet)
    /\ UNCHANGED <<hbPc, cmdPc, sockets, stops, controller>>

\* The master has joined all.
Quiet == masterPc = "joined" /\ UNCHANGED vars

Next ==
    \/ Heartbeat \/ Command \/ Transfer \/ MasterStops
    \/ BeatArrives \/ OrderArrives \/ Tick \/ Quiet

SafeSpec == Init /\ [][Next]_vars

\* The threads are scheduled, the master goes on once it began to stop, and
\* time passes.  Neither monitor is promised the lock against the other, and no
\* board is promised to connect or to end what it sends.
Fairness ==
    /\ WF_vars(Heartbeat) /\ WF_vars(Command) /\ WF_vars(TransferTimesOut) /\ WF_vars(Tick)
    /\ WF_vars(masterPc # "running" /\ MasterStops)

Spec == SafeSpec /\ Fairness

-------------------------------------------------------------------------------

BeamTypeOK ==
    /\ hbPc \in HbPoints /\ cmdPc \in CmdPoints
    /\ transferPc \in {"running", "receiving", "over"}
    /\ masterPc \in {"running", "stopping", "stopping transfer", "joining", "joined"}
    /\ hbSock \in Seq(AllBeats) /\ Len(hbSock) <= Room
    /\ cmdSock \in Seq(AllOrders) /\ Len(cmdSock) <= Room
    /\ hbStop \in BOOLEAN /\ cmdStop \in BOOLEAN /\ transferStop \in BOOLEAN
    /\ beamLock \in {"free", "heartbeat", "command"}
    /\ pin \in BOOLEAN /\ beamOpen \in BOOLEAN
    /\ waited \in 0..Timeout /\ age \in 0..Timeout + 1
    /\ late \in 0..MaxLag /\ quiet \in 0..SilenceLimit + 1

\* What the controller reports as the state of the beam is the state of its
\* pin, whenever no monitor is in the middle of changing it, however opens and
\* closes of the two threads interleave (beam_controller.py:40-73).
FlagTellsPin == beamLock = "free" => beamOpen = pin

\* A monitor that is watching has had a heartbeat sent to it within its
\* timeout, up to the lag of the thread: neither what is left in the buffer nor
\* datagrams that are no heartbeats keep it watching (heartbeat_monitor.py:117-141,149-157).
WatchingMeansRecent == hbPc \in Watching => quiet <= SilenceLimit

\* When the heartbeats stop, the monitor that watches them turns the beam off,
\* unless the operator goes on for ever and keeps the lock busy
\* (heartbeat_monitor.py:65-70,117-141).
SilenceClosesBeam ==
    \/ hbPc \in Watching ~> (hbPc = "closing" /\ ~pin)
    \/ []<><<BeatArrives>>_vars
    \/ []<><<OrderArrives>>_vars

\* Master.stop joins monitors that end, from whatever they are waiting for, and
\* the lock does not make them wait for each other; only a board that never ends
\* its transfer, in which the signal is not looked at and recv has no timeout,
\* keeps it from returning (master.py:115-127, file_receiver.py:66,103,137).
StopJoins == (masterPc = "stopping" ~> masterPc = "joined") \/ <>[](transferPc = "receiving")
===============================================================================
