-------------------------------- MODULE Machine --------------------------------
(***************************************************************************)
(* server/machine.py: the thread that watches one Device Under Test (DUT). *)
(* It launches the benchmarks over Telnet, logs the datagrams they send,   *)
(* and when none comes for max_timeout_time it restarts the application,   *)
(* then the operating system, then the power.  The thread is a control     *)
(* point pc; between any two of its steps the DUT runs and sends, the      *)
(* window of the benchmark elapses, the power monitor trips, the server    *)
(* stops the thread.  A wait ends whenever the code lets it end.           *)
(***************************************************************************)
EXTENDS CommandFactory

CONSTANTS
    MaxTelnetTries,   \* __MAX_TELNET_TRIES
    MaxHardReboots,   \* __MAX_SEQUENTIALLY_HARD_REBOOTS
    MaxAppReboots,    \* __MAX_SEQUENTIALLY_SOFT_APP_REBOOTS
    MaxOsReboots,     \* __MAX_SEQUENTIALLY_SOFT_OS_REBOOTS
    DisableOsReboot,  \* __disable_os_soft_reboot
    Kills,            \* the applications that the killcmd of a command stops
    Kinds,            \* the kinds of datagram the applications send
    SocketRoom,       \* datagrams the receive buffer holds: the rest are lost
    Faults,           \* the faults of the surroundings, among AllFaults
    NoLog             \* None: no DUTLogging object has been made yet

AllFaults == {
    "garbled",  \* a datagram with a wrong ECC byte or that is not ASCII
    "silent",   \* Telnet reports success for a command that had no effect
    "disk",     \* a log file cannot be created, appended to or closed
    "switch",   \* a power command fails, or raises as the PSU's does
    "trip"}     \* the power monitor turns the supply off

ASSUME MachineAssumption ==
    /\ MaxTelnetTries \in Nat \ {0} /\ MaxAppReboots \in Nat \ {0}
    /\ MaxHardReboots \in Nat /\ MaxOsReboots \in Nat
    /\ DisableOsReboot \in BOOLEAN
    /\ Kills \in [Commands -> SUBSET Commands]
    /\ \A c \in Commands : c \in Kills[c]
    /\ Kinds \subseteq {"#IT", "#INF"}
    /\ SocketRoom \in Nat \ {0}
    /\ Faults \subseteq AllFaults

INSTANCE DutLogging

ASSUME NoLogAssumption == NoLog \notin Log

VARIABLES
    \* the thread
    pc,                  \* its control point
    endStatus,           \* previous_log_end_status of the soft app reboot
    tries,               \* try_i, the Telnet sessions that failed
    stopEvent,           \* __stop_event
    softAppRebootCount, softOsRebootCount, hardRebootCount,
    dutLogging,          \* __dut_logging_obj
    closedLog,           \* the log it last replaced
    \* its surroundings
    powered,             \* the DUT has power
    running,             \* the applications alive on it
    socket,              \* __messages_socket: datagrams received, not yet read
    \* history, read by the properties only
    restarts,            \* soft app reboots since the last #IT or power cycle
    lateLogins           \* Telnet logins begun after the stop event

counters == <<softAppRebootCount, softOsRebootCount, hardRebootCount>>
logs == <<dutLogging, closedLog>>
dut == <<powered, running, socket>>
history == <<restarts, lateLogins>>
vars == <<pc, endStatus, tries, stopEvent, counters, logs, factoryVars, dut, history>>

Datagram == [from : Commands, kind : {"#IT", "#INF", "garbled"}]

\* Control points, by the method they belong to.
Booting == {"boot", "ping"}                         \* __wait_for_booting
Launching == {"try", "login", "run", "swap_logs"}   \* __soft_app_reboot
Ended == {"done", "crashed"}                        \* run is over
Points == {"turn_on", "soft_app", "loop", "recvfrom", "os", "os_login", "hard", "off", "on"}
          \cup Booting \cup Launching \cup Ended

\* The server creates the socket before the thread runs, the supply keeps the
\* state it had, and a benchmark of an earlier session may still be running.
Init ==
    /\ FactoryInit
    /\ pc = "turn_on" /\ endStatus = "None" /\ tries = 0 /\ stopEvent = FALSE
    /\ softAppRebootCount = 0 /\ softOsRebootCount = 0 /\ hardRebootCount = 0
    /\ dutLogging = NoLog /\ closedLog = NoLog
    /\ powered \in BOOLEAN
    /\ running \in {{}} \cup {{c} : c \in IF powered THEN Commands ELSE {}}
    /\ socket = <<>>
    /\ restarts = 0 /\ lateLogins = 0

Goto(point) == pc' = point /\ UNCHANGED <<endStatus, tries>>

\* The caller gives the status that ends the present log.
GotoSoftApp(status) == pc' = "soft_app" /\ endStatus' = status /\ UNCHANGED tries

\* Another Telnet session is being opened.
LoginBegun == lateLogins' = IF stopEvent THEN lateLogins + 1 ELSE lateLogins

-------------------------------------------------------------------------------
(* turn_machine_on, and the waits for the DUT to boot                        *)

\* A failure is logged and the thread goes on; the commands of a power supply
\* that does not answer raise, and the thread is over.
TurnOn ==
    /\ pc = "turn_on"
    /\ \/ powered' = TRUE /\ Goto("boot")
       \/ "switch" \in Faults /\ UNCHANGED powered /\ (Goto("boot") \/ Goto("crashed"))
    /\ UNCHANGED <<stopEvent, counters, logs, factoryVars, running, socket, history>>

AppCountKept == softAppRebootCount  \* mutant

AppCountBooted == IF endStatus = "None" THEN softAppRebootCount ELSE 0

OsCountOnlyReset == IF endStatus = "HARD_REBOOT" THEN 0 ELSE softOsRebootCount  \* mutant

OsCountBooted ==
    CASE endStatus = "SOFT_OS_REBOOT" -> softOsRebootCount + 1
      [] endStatus = "HARD_REBOOT" -> 0
      [] endStatus = "None" -> softOsRebootCount

\* No caller looks at how the wait ended: it resets its counters and starts
\* the application.
BootDone ==
    /\ Goto("soft_app")
    /\ softAppRebootCount' = AppCountBooted
    /\ softOsRebootCount' = OsCountBooted
    /\ UNCHANGED hardRebootCount

\* The stop event is set, or boot_waiting_time is over.
BootExpires ==
    /\ pc = "boot"
    /\ BootDone
    /\ UNCHANGED <<stopEvent, logs, factoryVars, dut, history>>

BootGoesOn ==
    /\ pc = "boot"
    /\ ~stopEvent
    /\ Goto("ping")
    /\ UNCHANGED <<stopEvent, counters, logs, factoryVars, dut, history>>

\* The ping, and the trial login that follows when it is answered.
Ping ==
    /\ pc = "ping"
    /\ \/ Goto("boot") /\ (LoginBegun \/ UNCHANGED lateLogins) /\ UNCHANGED counters
       \/ powered /\ LoginBegun /\ BootDone
    /\ UNCHANGED <<stopEvent, logs, factoryVars, dut, restarts>>

-------------------------------------------------------------------------------
(* __soft_app_reboot: kill the application and start the one to run          *)

\* An error is returned: only the timeout branch of run goes on from there.
AppRebootFails ==
    /\ pc' = IF endStatus = "SOFT_APP_REBOOT" THEN "os" ELSE "loop"
    /\ tries' = 0
    /\ UNCHANGED endStatus

NextTry == pc' = "try" /\ tries' = tries + 1 /\ UNCHANGED endStatus

\* EHOSTUNREACH and RuntimeError abandon the reboot, any other OSError and
\* EOFError only the session.
SessionLost == AppRebootFails \/ NextTry

\* The early returns, the "INCORRECT CONFIGURATION" that raises, and the
\* choice of the command, made once for all the tries.
SoftApp ==
    /\ pc = "soft_app"
    /\ \/ stopEvent /\ AppRebootFails /\ UNCHANGED factoryVars
       \/ /\ ~stopEvent
          /\ IF endStatus = "None" /\ dutLogging # NoLog
             THEN Goto("crashed") /\ UNCHANGED factoryVars
             ELSE IF softAppRebootCount >= MaxAppReboots
             THEN AppRebootFails /\ UNCHANGED factoryVars
             ELSE Goto("try") /\ GetCommands
    /\ UNCHANGED <<stopEvent, counters, logs, dut, history>>

TryWhateverStops ==  \* mutant
    /\ pc = "try"
    /\ IF tries = MaxTelnetTries THEN AppRebootFails ELSE Goto("login")
    /\ UNCHANGED <<stopEvent, counters, logs, factoryVars, dut, history>>

Try ==
    /\ pc = "try"
    /\ IF stopEvent \/ tries = MaxTelnetTries THEN AppRebootFails ELSE Goto("login")
    /\ UNCHANGED <<stopEvent, counters, logs, factoryVars, dut, history>>

KillOmitted == UNCHANGED running  \* mutant

KillSent == running' = running \ Kills[currentCommand]

\* The login, then the kill command.  What is written to a session may have
\* been executed even if the session is then lost.
LoginAndKill ==
    /\ pc = "login"
    /\ LoginBegun
    /\ \/ powered /\ KillSent /\ (Goto("run") \/ SessionLost)
       \/ UNCHANGED running /\ SessionLost
       \/ "silent" \in Faults /\ powered /\ UNCHANGED running /\ Goto("run")
    /\ UNCHANGED <<stopEvent, counters, logs, factoryVars, powered, socket, restarts>>

\* The command line, written without an error to a DUT that lost its power too.
SendRun ==
    /\ pc = "run"
    /\ \/ powered /\ running' = running \cup {currentCommand} /\ (Goto("swap_logs") \/ SessionLost)
       \/ UNCHANGED running /\ SessionLost
       \/ /\ ~powered \/ "silent" \in Faults
          /\ UNCHANGED running /\ Goto("swap_logs")
    /\ UNCHANGED <<stopEvent, counters, logs, factoryVars, powered, socket, history>>

RetiredUnended == IF dutLogging = NoLog THEN NoLog ELSE Deleted(dutLogging)  \* mutant

Retired == IF dutLogging = NoLog THEN NoLog ELSE Deleted(Finished(dutLogging, endStatus))

\* The log of the last launch is ended and deleted, a new one takes its place,
\* and the reboot is counted and returns SUCCESS.
SwapLogs ==
    /\ pc = "swap_logs"
    /\ closedLog' = Retired
    /\ dutLogging' = Opened(currentCommand)
    /\ softAppRebootCount' = softAppRebootCount + 1
    /\ pc' = "loop" /\ tries' = 0
    /\ restarts' = restarts + 1
    /\ UNCHANGED <<endStatus, stopEvent, softOsRebootCount, hardRebootCount, factoryVars, dut,
                   lateLogins>>

\* The disk refuses the END line: to the code an OSError like a lost session's.
SwapLogsFails ==
    /\ pc = "swap_logs" /\ "disk" \in Faults
    /\ dutLogging # NoLog
    /\ dutLogging.file = "open"
    /\ dutLogging' \in {dutLogging, Torn(dutLogging)}
    /\ NextTry
    /\ UNCHANGED <<stopEvent, counters, closedLog, factoryVars, dut, history>>

-------------------------------------------------------------------------------
(* run: the loop over the datagrams                                          *)

LoopWhateverStops ==  \* mutant
    /\ pc = "loop"
    /\ Goto("recvfrom")
    /\ UNCHANGED <<stopEvent, counters, logs, factoryVars, dut, history>>

Loop ==
    /\ pc = "loop"
    /\ Goto(IF stopEvent THEN "done" ELSE "recvfrom")
    /\ UNCHANGED <<stopEvent, counters, logs, factoryVars, dut, history>>

\* Good data ends the sequence of app and hard reboots.
GoodData ==
    /\ softAppRebootCount' = 0 /\ hardRebootCount' = 0
    /\ restarts' = 0
    /\ UNCHANGED softOsRebootCount

AfterMessageStatusLost == IF timedOut THEN GotoSoftApp("None") ELSE Goto("loop")  \* mutant

\* An expired window calls for another benchmark.
AfterMessage == IF timedOut THEN GotoSoftApp("NORMAL_END") ELSE Goto("loop")

\* A datagram is logged and looked at.
HandleMessage ==
    /\ pc = "recvfrom"
    /\ socket # <<>> /\ Head(socket).kind # "garbled"
    /\ dutLogging # NoLog
    /\ \/ dutLogging' = Created(dutLogging)
       \/ "disk" \in Faults /\ dutLogging.file # "open" /\ UNCHANGED dutLogging
    /\ IF Head(socket).kind = "#IT" THEN GoodData ELSE UNCHANGED <<counters, restarts>>
    /\ AfterMessage
    /\ socket' = Tail(socket)
    /\ UNCHANGED <<stopEvent, closedLog, factoryVars, powered, running, lateLogins>>

\* The handler raises: no launch has succeeded yet and there is no log to call;
\* the datagram cannot be decoded; or the disk refuses the line.
DieOnMessage ==
    /\ pc = "recvfrom"
    /\ socket # <<>>
    /\ \/ dutLogging = NoLog /\ UNCHANGED dutLogging
       \/ /\ dutLogging # NoLog /\ Head(socket).kind = "garbled"
          /\ dutLogging' \in {dutLogging, Created(dutLogging)}
       \/ dutLogging # NoLog /\ "disk" \in Faults /\ dutLogging' = Created(dutLogging)
    /\ Goto("crashed")
    /\ socket' = Tail(socket)
    /\ UNCHANGED <<stopEvent, counters, closedLog, factoryVars, powered, running, history>>

\* Nothing came for max_timeout_time.
ReceiveTimesOut ==
    /\ pc = "recvfrom"
    /\ socket = <<>>
    /\ GotoSoftApp("SOFT_APP_REBOOT")
    /\ UNCHANGED <<stopEvent, counters, logs, factoryVars, dut, history>>

-------------------------------------------------------------------------------
(* __soft_os_reboot                                                          *)

OsRebootRefusedLate ==  \* mutant
    stopEvent \/ DisableOsReboot \/ softOsRebootCount > MaxOsReboots

\* The early returns.
OsRebootRefused == stopEvent \/ DisableOsReboot \/ softOsRebootCount >= MaxOsReboots

OsEntry ==
    /\ pc = "os"
    /\ Goto(IF OsRebootRefused THEN "hard" ELSE "os_login")
    /\ UNCHANGED <<stopEvent, counters, logs, factoryVars, dut, history>>

\* The one session that sends "sudo /sbin/reboot".  The thread then waits for
\* the DUT to boot, or any exception leaves it to the hard reboot.
OsReboot ==
    /\ pc = "os_login"
    /\ LoginBegun
    /\ (powered /\ running' = {}) \/ UNCHANGED running
    /\ \/ /\ powered
          /\ running' = {} \/ "silent" \in Faults
          /\ pc' = "boot" /\ endStatus' = "SOFT_OS_REBOOT"
          /\ UNCHANGED tries
       \/ Goto("hard")
    /\ UNCHANGED <<stopEvent, counters, logs, factoryVars, powered, socket, restarts>>

-------------------------------------------------------------------------------
(* __hard_reboot, and reboot_machine of server/reboot_machine.py             *)

NextHardCountNoReset == hardRebootCount + 1  \* mutant

\* One reboot too many in sequence begins a new sequence, after a long rest.
NextHardCount == IF hardRebootCount > MaxHardReboots THEN 0 ELSE hardRebootCount + 1

HardEntry ==
    /\ pc = "hard"
    /\ IF stopEvent
       THEN GotoSoftApp("HARD_REBOOT") /\ UNCHANGED hardRebootCount
       ELSE /\ Goto("off")
            /\ hardRebootCount' = NextHardCount
    /\ UNCHANGED <<stopEvent, softAppRebootCount, softOsRebootCount, logs, factoryVars, dut, history>>

\* The OFF command.  Its outcome is only reported, unless it raises.
SwitchOff ==
    /\ pc = "off"
    /\ \/ powered' = FALSE /\ running' = {} /\ Goto("on")
       \/ "switch" \in Faults /\ UNCHANGED <<powered, running>> /\ (Goto("on") \/ Goto("crashed"))
    /\ restarts' = 0
    /\ UNCHANGED <<stopEvent, counters, logs, factoryVars, socket, lateLogins>>

PowerReturnsUnlessStopped ==  \* mutant
    IF stopEvent THEN UNCHANGED powered ELSE powered' = TRUE

\* The rest between the commands, which the stop event cuts short, and the ON
\* command, sent in any case.
PowerReturns == powered' = TRUE \/ ("switch" \in Faults /\ UNCHANGED powered)

SwitchOn ==
    /\ pc = "on"
    /\ \/ PowerReturns /\ pc' = "boot" /\ endStatus' = "HARD_REBOOT" /\ UNCHANGED tries
       \/ "switch" \in Faults /\ UNCHANGED powered /\ Goto("crashed")
    /\ UNCHANGED <<stopEvent, counters, logs, factoryVars, running, socket, history>>

-------------------------------------------------------------------------------
(* The surroundings                                                          *)

thread == <<pc, endStatus, tries, counters, logs, history>>

\* An application sends a datagram; a full buffer drops it, which is no step.
AppSends ==
    /\ Len(socket) < SocketRoom
    /\ \E a \in running, kind \in Kinds \cup (Faults \cap {"garbled"}) :
           socket' = Append(socket, [from |-> a, kind |-> kind])
    /\ UNCHANGED <<thread, stopEvent, factoryVars, powered, running>>

\* An application ends, crashes or hangs for good.
AppDies ==
    /\ \E a \in running : running' = running \ {a}
    /\ UNCHANGED <<thread, stopEvent, factoryVars, powered, socket>>

\* PowerMonitor.shutoff_device, unknown to the thread.
PowerTrips ==
    /\ "trip" \in Faults
    /\ powered /\ powered' = FALSE /\ running' = {}
    /\ UNCHANGED <<thread, stopEvent, factoryVars, socket>>

TimePasses == WindowElapses /\ UNCHANGED <<thread, stopEvent, dut>>

\* stop, called by the server.
Stop ==
    /\ ~stopEvent
    /\ stopEvent' = TRUE
    /\ UNCHANGED <<thread, factoryVars, dut>>

-------------------------------------------------------------------------------

Thread ==
    \/ TurnOn \/ BootExpires \/ BootGoesOn \/ Ping
    \/ SoftApp \/ Try \/ LoginAndKill \/ SendRun \/ SwapLogs \/ SwapLogsFails
    \/ Loop \/ HandleMessage \/ DieOnMessage \/ ReceiveTimesOut
    \/ OsEntry \/ OsReboot \/ HardEntry \/ SwitchOff \/ SwitchOn

Surroundings == AppSends \/ AppDies \/ PowerTrips \/ TimePasses \/ Stop

\* run has returned, and what remains of the DUT may be quiet for good.
Over == pc \in Ended /\ UNCHANGED vars

Next == Thread \/ Surroundings \/ Over

SafeSpec == Init /\ [][Next]_vars

\* The thread is scheduled, every wait of it has a timeout, and the loop of
\* __wait_for_booting compares the clock with a fixed end: however often a
\* ping comes first, the end is reached.
Fairness == WF_vars(Thread) /\ SF_vars(BootExpires)

Spec == SafeSpec /\ Fairness

-------------------------------------------------------------------------------
(* What the thread keeps true                                                *)

\* The counters stay within the maxima the class declares, but for the count of
\* hard reboots, which a sequence leaves at one more (machine.py:335-340).
MachineTypeOK ==
    /\ FactoryTypeOK
    /\ pc \in Points
    /\ endStatus \in {"None"} \cup ServerEnds
    /\ tries \in 0..MaxTelnetTries
    /\ stopEvent \in BOOLEAN
    /\ softAppRebootCount \in 0..MaxAppReboots
    /\ softOsRebootCount \in 0..MaxOsReboots
    /\ hardRebootCount \in 0..MaxHardReboots + 1
    /\ dutLogging \in Log \cup {NoLog} /\ closedLog \in Log \cup {NoLog}
    /\ powered \in BOOLEAN
    /\ running \subseteq Commands
    /\ socket \in Seq(Datagram)
    /\ restarts \in Nat /\ lateLogins \in Nat

\* An application that crashes again and again before its first iteration is
\* restarted only so often: by then the power of the DUT has been cycled.  The
\* bound comes from two counters that different reboots advance and reset
\* (machine.py:205,294,316-317,362-363).
RestartBudget == restarts <= MaxAppReboots * (MaxOsReboots + 1)

\* The stop event is looked at before each session and not during one: of all
\* the sessions of all the reboots, one at most begins after it is set
\* (machine.py:197,218,262,288).
LateLoginBound == lateLogins <= 1

\* A benchmark that is replaced leaves a log closed by the reason it was
\* replaced for, never by the UNKNOWN of an object that was just dropped nor by
\* a None (machine.py:237-240, dut_logging.py:83-96).
EveryLogEnded ==
    closedLog # NoLog =>
        closedLog.file = "absent" \/ (closedLog.file = "ended" /\ closedLog.end \in ServerEnds)

\* No interruption of a power cycle, by the stop event above all, leaves the
\* DUT without power once the thread receives again or is done
\* (reboot_machine.py:194-202).
NeverLeftOff == pc \in {"loop", "recvfrom", "done"} => powered

\* When the surroundings behave, the one thing that kills the thread is a
\* datagram that comes before the first launch has succeeded
\* (machine.py:132,200-203).
CrashIsEarly == pc = "crashed" => dutLogging = NoLog

\* The kill command of a benchmark stops them all: then no two of them are ever
\* alive on the DUT, whatever sessions break half way (machine.py:221-231).
OneApp == Cardinality(running) <= 1

\* "Benchmark exceeded the command execution window, executing another one now",
\* and the launch is to "kill and start an app" (machine.py:154,192): when the log
\* of an expired benchmark is about to be replaced by that of another one, the
\* expired one is no longer alive on the DUT.
ExpiredIsKilled ==
    /\ pc = "swap_logs" /\ endStatus = "NORMAL_END"
    /\ dutLogging # NoLog /\ dutLogging.test # currentCommand
    => dutLogging.test \notin running

\* A silent DUT is power cycled sooner or later, however its applications, its
\* operating system and its Telnet server fail: the thread receives for ever,
\* cycles the power for ever or has ended (machine.py:156-168).
WatchdogNeverGivesUp ==
    \/ []<><<HandleMessage>>_vars
    \/ []<><<SwitchOff>>_vars
    \/ <>(pc \in Ended)

\* A stopped thread ends, so that the join of the server returns, from any
\* point of any reboot (machine.py:129,197,218,262,288,331).
StopTerminates == stopEvent ~> pc \in Ended

\* No more applications are started until good data come.
KeepsDut == timedOut /\ softAppRebootCount = MaxAppReboots

\* Once the window of a benchmark is over another one is taken, from any point
\* of any reboot and however these fail.  One benchmark only keeps the DUT: one
\* launched by the last app reboot there was, that sends for ever but nothing
\* that is an iteration; the restart it calls for is refused, and nobody looks
\* at the refusal (machine.py:146,152-168,205-207).
WindowEnforced ==
    \/ timedOut ~> (~timedOut \/ pc \in Ended)
    \/ <>[]KeepsDut /\ []<><<HandleMessage>>_vars

===============================================================================
