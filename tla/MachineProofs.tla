----------------------------- MODULE MachineProofs -----------------------------
(***************************************************************************)
(* Proofs about Machine, for any maxima, any commands and any room in the  *)
(* receive buffer.  The invariants are inductive in groups, one for each   *)
(* concern, and a group rests on those before it:                          *)
(*   factoryVars   the machine steps its factory only as FactorySpec does  *)
(*   ThreadInv     the counters, and what they bound, in every surrounding *)
(*   DutTypeOK     the rest of the types                                   *)
(*   LogInv        every log is ended, if the disk works                   *)
(*   PowerInv      the DUT is left powered, if the power commands work     *)
(*   CrashInv      what the thread dies of, when nothing fails             *)
(*   AppInv        no two applications, when each kill stops them all      *)
(***************************************************************************)
EXTENDS Machine, CommandFactoryProofs, FiniteSetTheorems

-------------------------------------------------------------------------------
(* The factory inside the machine                                            *)

LEMMA FactoryStepInMachine ==
    ASSUME [Next]_vars
    PROVE  [FactoryNext]_factoryVars
<1>1. CASE SoftApp
    BY <1>1 DEF SoftApp, FactoryNext
<1>2. CASE TimePasses
    BY <1>2 DEF TimePasses, FactoryNext
<1>3. CASE UNCHANGED factoryVars
    BY <1>3
<1>4. [Next]_vars => SoftApp \/ TimePasses \/ UNCHANGED factoryVars
    BY DEF Next, Thread, Surroundings, Over, vars,
           TurnOn, BootExpires, BootGoesOn, Ping, Try, LoginAndKill, SendRun, SwapLogs,
           SwapLogsFails, Loop, HandleMessage, DieOnMessage, ReceiveTimesOut, OsEntry,
           OsReboot, HardEntry, SwitchOff, SwitchOn, AppSends, AppDies, PowerTrips, Stop
<1> QED BY <1>1, <1>2, <1>3, <1>4

\* The machine asks its factory for commands only in ways the factory allows,
\* so all that is proved of the factory holds inside it (machine.py:152,214).
THEOREM MachineImplementsFactory == SafeSpec => FactorySpec
<1>1. Init => FactoryInit
    BY DEF Init
<1> QED BY <1>1, FactoryStepInMachine, PTL DEF SafeSpec, FactorySpec

\* A DUT runs the benchmarks of its JSON files in a fixed cyclic order, and no
\* reboot of it moves to the next before the window of the present one is over
\* (machine.py:152-155,214, command_factory.py:38-59).
THEOREM MachineImplementsRotation == SafeSpec => ImplementsRotation
    BY MachineImplementsFactory, FactoryImplementsRotation, PTL

-------------------------------------------------------------------------------
(* The counters of the thread                                                *)

ThreadTypeOK ==
    /\ pc \in Points
    /\ endStatus \in {"None"} \cup ServerEnds
    /\ tries \in 0..MaxTelnetTries
    /\ stopEvent \in BOOLEAN
    /\ softAppRebootCount \in 0..MaxAppReboots
    /\ softOsRebootCount \in 0..MaxOsReboots
    /\ hardRebootCount \in 0..MaxHardReboots + 1
    /\ restarts \in Nat /\ lateLogins \in Nat

\* What each point has already checked.
Control ==
    /\ pc = "turn_on" => endStatus = "None"
    /\ pc \in Booting => endStatus \in {"None", "SOFT_OS_REBOOT", "HARD_REBOOT"}
    /\ pc \in Launching => softAppRebootCount < MaxAppReboots
    /\ pc \in Launching \ {"try"} => tries < MaxTelnetTries
    /\ pc = "os_login" \/ (pc \in Booting /\ endStatus = "SOFT_OS_REBOOT")
           => softOsRebootCount < MaxOsReboots

\* An OS reboot trades the app reboots counted so far for one of its own.
Budget ==
    /\ restarts <= MaxAppReboots * softOsRebootCount + softAppRebootCount
    /\ pc = "on" \/ (pc \in Booting /\ endStatus = "HARD_REBOOT") => restarts = 0

\* A session that begins after the stop event passed its check before it.
Late ==
    /\ ~stopEvent => lateLogins = 0
    /\ pc \in {"ping", "login", "os_login"} => lateLogins = 0
    /\ lateLogins <= 1

ThreadInv == ThreadTypeOK /\ Control /\ Budget /\ Late

LEMMA ThreadInit == Init => ThreadInv
<1> SUFFICES ASSUME Init PROVE ThreadInv
    OBVIOUS
<1>1. /\ pc = "turn_on" /\ endStatus = "None" /\ tries = 0 /\ stopEvent = FALSE
      /\ softAppRebootCount = 0 /\ softOsRebootCount = 0 /\ hardRebootCount = 0
      /\ restarts = 0 /\ lateLogins = 0
    BY Zenon DEF Init
<1>2. ThreadTypeOK
    <2>1. pc \in Points /\ stopEvent \in BOOLEAN
        BY <1>1 DEF Points
    <2>2. 0 \in 0..MaxTelnetTries /\ 0 \in 0..MaxAppReboots
        BY MachineAssumption
    <2>3. 0 \in 0..MaxOsReboots /\ 0 \in 0..MaxHardReboots + 1
        BY MachineAssumption
    <2> QED BY <1>1, <2>1, <2>2, <2>3 DEF ThreadTypeOK
<1>3. Control /\ Late
    BY <1>1 DEF Control, Late, Booting, Launching
<1>4. Budget
    BY <1>1, MachineAssumption DEF Budget, Booting
<1> QED BY <1>2, <1>3, <1>4 DEF ThreadInv

LEMMA ThreadStep ==
    ASSUME ThreadInv, [Next]_vars
    PROVE  ThreadInv'
<1> USE MachineAssumption
    DEF ThreadInv, ThreadTypeOK, Control, Budget, Late, Points, Booting, Launching, Ended,
        ServerEnds, Goto, GotoSoftApp, counters, history
<1>1. CASE TurnOn
    BY <1>1 DEF TurnOn
<1>2. CASE BootExpires
    BY <1>2 DEF BootExpires, BootDone, AppCountBooted, OsCountBooted
<1>3. CASE BootGoesOn
    BY <1>3 DEF BootGoesOn
<1>4. CASE Ping
    BY <1>4 DEF Ping, LoginBegun, BootDone, AppCountBooted, OsCountBooted
<1>5. CASE SoftApp
    BY <1>5 DEF SoftApp, AppRebootFails
<1>6. CASE Try
    BY <1>6 DEF Try, AppRebootFails
<1>7. CASE LoginAndKill
    BY <1>7 DEF LoginAndKill, LoginBegun, SessionLost, AppRebootFails, NextTry
<1>8. CASE SendRun
    BY <1>8 DEF SendRun, SessionLost, AppRebootFails, NextTry
<1>9. CASE SwapLogs
    BY <1>9 DEF SwapLogs
<1>10. CASE SwapLogsFails
    BY <1>10 DEF SwapLogsFails, NextTry
<1>11. CASE Loop
    BY <1>11 DEF Loop
<1>12. CASE HandleMessage
    BY <1>12 DEF HandleMessage, GoodData, AfterMessage
<1>13. CASE DieOnMessage
    BY <1>13 DEF DieOnMessage
<1>14. CASE ReceiveTimesOut
    BY <1>14 DEF ReceiveTimesOut
<1>15. CASE OsEntry
    BY <1>15 DEF OsEntry, OsRebootRefused
<1>16. CASE OsReboot
    BY <1>16 DEF OsReboot, LoginBegun
<1>17. CASE HardEntry
    BY <1>17 DEF HardEntry, NextHardCount
<1>18. CASE SwitchOff
    BY <1>18 DEF SwitchOff
<1>19. CASE SwitchOn
    BY <1>19 DEF SwitchOn
<1>20. CASE Surroundings \/ Over \/ UNCHANGED vars
    BY <1>20 DEF Surroundings, AppSends, AppDies, PowerTrips, TimePasses, Stop, Over, vars, thread
<1> QED
    BY <1>1, <1>2, <1>3, <1>4, <1>5, <1>6, <1>7, <1>8, <1>9, <1>10, <1>11, <1>12, <1>13,
       <1>14, <1>15, <1>16, <1>17, <1>18, <1>19, <1>20 DEF Next, Thread

LEMMA ThreadInvariant == SafeSpec => []ThreadInv
<1>1. ThreadInv /\ [Next]_vars => ThreadInv'
    BY ThreadStep
<1> QED BY ThreadInit, <1>1, PTL DEF SafeSpec

\* However its applications crash, a DUT is restarted at most so often without
\* an iteration before its power is cycled (machine.py:205,294,316-317,362-363).
THEOREM RestartsAreBounded == SafeSpec => []RestartBudget
<1>1. ThreadInv => RestartBudget
    <2> SUFFICES ASSUME ThreadInv PROVE RestartBudget
        OBVIOUS
    <2>1. MaxAppReboots * softOsRebootCount <= MaxAppReboots * MaxOsReboots
        BY MachineAssumption DEF ThreadInv, ThreadTypeOK
    <2> QED BY <2>1, MachineAssumption DEF ThreadInv, ThreadTypeOK, Budget, RestartBudget
<1> QED BY <1>1, ThreadInvariant, PTL

\* A stopped thread begins one more Telnet session at most
\* (machine.py:197,218,262,288).
THEOREM LateLoginsAreBounded == SafeSpec => []LateLoginBound
<1>1. ThreadInv => LateLoginBound
    BY DEF ThreadInv, Late, LateLoginBound
<1> QED BY <1>1, ThreadInvariant, PTL

-------------------------------------------------------------------------------
(* The logs, the DUT and its socket                                          *)

DutTypeOK ==
    /\ dutLogging \in Log \cup {NoLog} /\ closedLog \in Log \cup {NoLog}
    /\ powered \in BOOLEAN
    /\ running \subseteq Commands
    /\ socket \in Seq(Datagram)

LEMMA LogOperators ==
    /\ \A c \in Commands : Opened(c) \in Log
    /\ \A log \in Log : Created(log) \in Log /\ Torn(log) \in Log
    /\ \A log \in Log, status \in EndStatus \cup {"None"} :
           Finished(log, status) \in Log /\ Deleted(log) \in Log
    BY DEF Opened, Created, Torn, Finished, Deleted, Log, EndStatus, ServerEnds

LEMMA RunningAtFirst ==
    ASSUME Init
    PROVE  running = {} \/ \E c \in Commands : running = {c}
<1>1. running = {} \/ running \in {{c} : c \in IF powered THEN Commands ELSE {}}
    BY Zenon DEF Init
<1> QED BY <1>1

LEMMA DutInit == Init => DutTypeOK
<1> SUFFICES ASSUME Init PROVE DutTypeOK
    OBVIOUS
<1>1. running \subseteq Commands
    BY RunningAtFirst
<1>2. /\ dutLogging = NoLog /\ closedLog = NoLog /\ powered \in BOOLEAN
      /\ socket = <<>>
    BY Zenon DEF Init
<1>3. socket \in Seq(Datagram)
    BY <1>2
<1> QED BY <1>1, <1>2, <1>3 DEF DutTypeOK

LEMMA DutStep ==
    ASSUME FactoryTypeOK, ThreadTypeOK, DutTypeOK, [Next]_vars
    PROVE  DutTypeOK'
<1> USE DEF DutTypeOK, logs, dut, history
<1>1. CASE UNCHANGED <<logs, dut>>
    BY <1>1
<1>2. CASE TurnOn
    BY <1>2 DEF TurnOn
<1>3. CASE LoginAndKill
    BY <1>3 DEF LoginAndKill, KillSent
<1>4. CASE SendRun
    BY <1>4 DEF SendRun, FactoryTypeOK
<1>5. CASE SwapLogs
    <2>1. Retired \in Log \cup {NoLog}
        BY LogOperators DEF Retired, ThreadTypeOK, EndStatus
    <2>2. Opened(currentCommand) \in Log
        BY LogOperators DEF FactoryTypeOK
    <2> QED BY <1>5, <2>1, <2>2 DEF SwapLogs
<1>6. CASE SwapLogsFails
    BY <1>6, LogOperators DEF SwapLogsFails
<1>7. CASE HandleMessage
    <2>1. socket' \in Seq(Datagram)
        BY <1>7 DEF HandleMessage
    <2>2. dutLogging' \in Log \cup {NoLog}
        BY <1>7, LogOperators DEF HandleMessage, GoodData
    <2> QED BY <1>7, <2>1, <2>2 DEF HandleMessage
<1>8. CASE DieOnMessage
    <2>1. socket' \in Seq(Datagram)
        BY <1>8 DEF DieOnMessage
    <2>2. dutLogging' \in Log \cup {NoLog}
        BY <1>8, LogOperators DEF DieOnMessage
    <2> QED BY <1>8, <2>1, <2>2 DEF DieOnMessage
<1>9. CASE OsReboot
    BY <1>9 DEF OsReboot
<1>10. CASE SwitchOff
    BY <1>10 DEF SwitchOff
<1>11. CASE SwitchOn
    BY <1>11 DEF SwitchOn, PowerReturns
<1>12. CASE AppSends
    <2>1. PICK a \in running, kind \in Kinds \cup (Faults \cap {"garbled"}) :
              socket' = Append(socket, [from |-> a, kind |-> kind])
        BY <1>12 DEF AppSends
    <2>2. [from |-> a, kind |-> kind] \in Datagram
        BY MachineAssumption DEF Datagram
    <2> QED BY <1>12, <2>1, <2>2 DEF AppSends, thread
<1>13. CASE AppDies \/ PowerTrips
    BY <1>13 DEF AppDies, PowerTrips, thread
<1>14. [Next]_vars =>
           \/ TurnOn \/ LoginAndKill \/ SendRun \/ SwapLogs \/ SwapLogsFails
           \/ HandleMessage \/ DieOnMessage \/ OsReboot \/ SwitchOff \/ SwitchOn
           \/ AppSends \/ AppDies \/ PowerTrips
           \/ UNCHANGED <<logs, dut>>
    BY DEF Next, Thread, Surroundings, Over, vars, thread, BootExpires, BootGoesOn, Ping,
           SoftApp, Try, Loop, ReceiveTimesOut, OsEntry, HardEntry, TimePasses, Stop
<1> QED
    BY <1>1, <1>2, <1>3, <1>4, <1>5, <1>6, <1>7, <1>8, <1>9, <1>10, <1>11, <1>12, <1>13, <1>14

LEMMA DutInvariant == SafeSpec => []DutTypeOK
<1>1. FactoryTypeOK /\ ThreadInv /\ DutTypeOK /\ [Next]_vars => DutTypeOK'
    BY DutStep DEF ThreadInv
<1> QED
    BY DutInit, <1>1, ThreadInvariant, MachineImplementsFactory, FactoryTypeCorrect, PTL
       DEF SafeSpec

\* Every counter stays within the maxima of the class and every log, datagram
\* and application is of the machine's own configurations (machine.py:29-48).
THEOREM MachineTypeCorrect == SafeSpec => []MachineTypeOK
<1>1. FactoryTypeOK /\ ThreadInv /\ DutTypeOK => MachineTypeOK
    BY DEF ThreadInv, ThreadTypeOK, DutTypeOK, MachineTypeOK
<1> QED
    BY <1>1, DutInvariant, ThreadInvariant, MachineImplementsFactory, FactoryTypeCorrect, PTL

-------------------------------------------------------------------------------
(* With a disk that works, every log is ended                                *)

\* No status is given only while there is no log, and a log that is replaced
\* was waiting for its END line.
LogInv ==
    /\ dutLogging # NoLog => dutLogging.file \in {"absent", "open"}
    /\ pc \in Booting \cup Launching \cup {"turn_on", "soft_app"} /\ endStatus = "None"
           => dutLogging = NoLog
    /\ EveryLogEnded

LEMMA LogStep ==
    ASSUME "disk" \notin Faults, ThreadInv, DutTypeOK, LogInv, [Next]_vars
    PROVE  LogInv'
<1> USE DEF LogInv, EveryLogEnded, Booting, Launching, Goto, GotoSoftApp, logs
<1>1. CASE SwapLogs
    <2>1. Opened(currentCommand).file = "absent" /\ pc' = "loop"
        BY <1>1 DEF SwapLogs, Opened
    <2>2. CASE dutLogging = NoLog
        BY <1>1, <2>1, <2>2 DEF SwapLogs, Retired
    <2>3. CASE dutLogging # NoLog /\ dutLogging.file = "open"
        <3>1. endStatus \in ServerEnds
            BY <1>1, <2>3 DEF SwapLogs, ThreadInv, ThreadTypeOK
        <3>2. dutLogging \in Log
            BY <2>3 DEF DutTypeOK
        <3>3. /\ Finished(dutLogging, endStatus).file = "ended"
              /\ Finished(dutLogging, endStatus).end = endStatus
            BY <2>3, <3>2 DEF Finished, Log
        <3>4. closedLog' = Finished(dutLogging, endStatus)
            <4>1. closedLog' = Deleted(Finished(dutLogging, endStatus))
                BY <1>1, <2>3 DEF SwapLogs, Retired
            <4>2. Deleted(Finished(dutLogging, endStatus)) = Finished(dutLogging, endStatus)
                BY <3>3 DEF Deleted, Finished
            <4> QED BY <4>1, <4>2
        <3> QED BY <1>1, <2>1, <3>1, <3>3, <3>4 DEF SwapLogs
    <2>4. CASE dutLogging # NoLog /\ dutLogging.file = "absent"
        <3>1. closedLog' = dutLogging
            BY <1>1, <2>4 DEF SwapLogs, Retired, Deleted, Finished
        <3> QED BY <1>1, <2>1, <2>4, <3>1 DEF SwapLogs
    <2> QED BY <2>2, <2>3, <2>4
<1>2. CASE HandleMessage
    <2>1. dutLogging # NoLog => Created(dutLogging).file = "open"
        BY DEF Created, DutTypeOK, Log
    <2> QED BY <1>2, <2>1 DEF HandleMessage, AfterMessage
<1>3. CASE DieOnMessage
    <2>1. dutLogging # NoLog => Created(dutLogging).file = "open"
        BY DEF Created, DutTypeOK, Log
    <2> QED BY <1>3, <2>1 DEF DieOnMessage
<1>4. CASE SwapLogsFails
    BY <1>4 DEF SwapLogsFails
<1>5. CASE UNCHANGED logs /\ pc' \notin Booting \cup Launching \cup {"soft_app", "turn_on"}
    BY <1>5
<1>6. CASE UNCHANGED logs /\ endStatus' # "None"
    BY <1>6
<1>7. CASE /\ UNCHANGED <<logs, endStatus>>
           /\ pc \in Booting \cup Launching \cup {"soft_app", "turn_on"}
    BY <1>7
<1>8. [Next]_vars =>
           \/ SwapLogs \/ HandleMessage \/ DieOnMessage \/ SwapLogsFails
           \/ /\ UNCHANGED logs
              /\ \/ pc' \notin Booting \cup Launching \cup {"soft_app", "turn_on"}
                 \/ endStatus' # "None"
                 \/ UNCHANGED endStatus /\ pc \in Booting \cup Launching \cup {"soft_app", "turn_on"}
                 \/ UNCHANGED <<pc, endStatus>>
    BY DEF Next, Thread, Surroundings, Over, vars, thread, TurnOn, BootExpires, BootGoesOn,
           BootDone, Ping, SoftApp, Try, LoginAndKill, SendRun, SessionLost, NextTry,
           AppRebootFails, Loop, ReceiveTimesOut, OsEntry, OsReboot, HardEntry, SwitchOff,
           SwitchOn, AppSends, AppDies, PowerTrips, TimePasses, Stop
<1>9. CASE UNCHANGED <<logs, pc, endStatus>>
    BY <1>9
<1> QED BY <1>1, <1>2, <1>3, <1>4, <1>5, <1>6, <1>7, <1>8, <1>9 DEF logs

\* A log is closed by the reason it was replaced for, as long as the disk takes
\* its END line (machine.py:237-240, dut_logging.py:83-96).
THEOREM LogsAreEnded == ASSUME "disk" \notin Faults PROVE SafeSpec => []EveryLogEnded
<1>1. Init => LogInv
    BY Zenon DEF Init, LogInv, EveryLogEnded
<1>2. ThreadInv /\ DutTypeOK /\ LogInv /\ [Next]_vars => LogInv'
    BY LogStep
<1>3. LogInv => EveryLogEnded
    BY DEF LogInv
<1> QED BY <1>1, <1>2, <1>3, ThreadInvariant, DutInvariant, PTL DEF SafeSpec

-------------------------------------------------------------------------------
(* With power commands that work, the DUT is left powered                    *)

PowerInv == pc \notin {"turn_on", "on"} => powered

\* The power monitor and the failures of the power commands apart, an interrupted
\* or abandoned reboot never leaves the DUT off (reboot_machine.py:194-202).
THEOREM DutIsNeverLeftOff ==
    ASSUME "switch" \notin Faults, "trip" \notin Faults
    PROVE  SafeSpec => []NeverLeftOff
<1>1. Init => PowerInv
    BY Zenon DEF Init, PowerInv
<1>2. ThreadInv /\ PowerInv /\ [Next]_vars => PowerInv'
    <2> SUFFICES ASSUME ThreadInv, PowerInv, [Next]_vars PROVE PowerInv'
        OBVIOUS
    <2> USE DEF PowerInv, Goto, GotoSoftApp, dut
    <2>1. CASE TurnOn
        BY <2>1 DEF TurnOn
    <2>2. CASE SwitchOff
        BY <2>2 DEF SwitchOff
    <2>3. CASE SwitchOn
        BY <2>3 DEF SwitchOn, PowerReturns
    <2>4. CASE UNCHANGED powered /\ (pc' \notin {"turn_on", "on"} => pc \notin {"turn_on", "on"})
        BY <2>4
    <2>5. TurnOn \/ SwitchOff \/ SwitchOn
          \/ (UNCHANGED powered /\ (pc' \notin {"turn_on", "on"} => pc \notin {"turn_on", "on"}))
        BY DEF Next, Thread, Surroundings, Over, vars, thread, BootExpires, BootGoesOn,
               BootDone, Ping, SoftApp, Try, LoginAndKill, SendRun, SessionLost, NextTry,
               AppRebootFails, SwapLogs, SwapLogsFails, Loop, HandleMessage, AfterMessage,
               DieOnMessage, ReceiveTimesOut, OsEntry, OsReboot, HardEntry, AppSends, AppDies,
               PowerTrips, TimePasses, Stop
    <2> QED BY <2>1, <2>2, <2>3, <2>4, <2>5
<1>3. PowerInv => NeverLeftOff
    BY DEF PowerInv, NeverLeftOff
<1> QED BY <1>1, <1>2, <1>3, ThreadInvariant, PTL DEF SafeSpec

-------------------------------------------------------------------------------
(* With surroundings that behave, what the thread dies of                    *)

CrashInv ==
    /\ \A i \in 1..Len(socket) : socket[i].kind # "garbled"
    /\ CrashIsEarly

LEMMA CrashStep ==
    ASSUME Faults = {}, DutTypeOK, LogInv, CrashInv, [Next]_vars
    PROVE  CrashInv'
<1> USE DEF CrashInv, CrashIsEarly, Goto, GotoSoftApp, logs, dut
<1>1. CASE SoftApp
    BY <1>1 DEF SoftApp, LogInv, AppRebootFails
<1>2. CASE HandleMessage
    <2>1. \A i \in 1..Len(Tail(socket)) : Tail(socket)[i] = socket[i + 1] /\ i + 1 \in 1..Len(socket)
        BY <1>2 DEF DutTypeOK, HandleMessage
    <2> QED BY <1>2, <2>1 DEF HandleMessage, AfterMessage
<1>3. CASE DieOnMessage
    <2>1. \A i \in 1..Len(Tail(socket)) : Tail(socket)[i] = socket[i + 1] /\ i + 1 \in 1..Len(socket)
        BY <1>3 DEF DutTypeOK, DieOnMessage
    <2>2. Head(socket) = socket[1] /\ 1 \in 1..Len(socket)
        BY <1>3 DEF DutTypeOK, DieOnMessage
    <2> QED BY <1>3, <2>1, <2>2 DEF DieOnMessage
<1>4. CASE AppSends
    <2>1. PICK a \in running, kind \in Kinds : socket' = Append(socket, [from |-> a, kind |-> kind])
        BY <1>4 DEF AppSends
    <2>2. [from |-> a, kind |-> kind].kind # "garbled"
        BY MachineAssumption
    <2>3. \A i \in 1..Len(socket') :
              socket'[i] = IF i = Len(socket) + 1 THEN [from |-> a, kind |-> kind] ELSE socket[i]
        BY <2>1 DEF DutTypeOK
    <2>4. Len(socket') = Len(socket) + 1
        BY <2>1 DEF DutTypeOK
    <2>5. UNCHANGED <<pc, dutLogging>>
        BY <1>4 DEF AppSends, thread
    <2>6. \A i \in 1..Len(socket) + 1 : i = Len(socket) + 1 \/ i \in 1..Len(socket)
        BY DEF DutTypeOK
    <2> QED BY <2>2, <2>3, <2>4, <2>5, <2>6
<1>5. CASE UNCHANGED socket /\ pc' # "crashed"
    BY <1>5
<1>6. CASE UNCHANGED <<socket, pc, dutLogging>>
    BY <1>6
<1>7. \/ SoftApp \/ HandleMessage \/ DieOnMessage \/ AppSends
      \/ UNCHANGED socket /\ (pc' # "crashed" \/ UNCHANGED <<pc, dutLogging>>)
    BY DEF Next, Thread, Surroundings, Over, vars, thread, TurnOn, BootExpires, BootGoesOn,
           BootDone, Ping, Try, LoginAndKill, SendRun, SessionLost, NextTry, AppRebootFails,
           SwapLogs, SwapLogsFails, Loop, ReceiveTimesOut, OsEntry, OsReboot, HardEntry,
           SwitchOff, SwitchOn, AppDies, PowerTrips, TimePasses, Stop
<1> QED BY <1>1, <1>2, <1>3, <1>4, <1>5, <1>6, <1>7

\* When nothing around it fails, the thread dies of a datagram that arrives
\* before its first launch, and of nothing else (machine.py:132,200-203).
THEOREM CrashesAreEarly == ASSUME Faults = {} PROVE SafeSpec => []CrashIsEarly
<1>1. Init => LogInv /\ CrashInv
    <2> SUFFICES ASSUME Init PROVE LogInv /\ CrashInv
        OBVIOUS
    <2>1. socket = <<>> /\ pc = "turn_on" /\ dutLogging = NoLog /\ closedLog = NoLog
        BY Zenon DEF Init
    <2> QED BY <2>1 DEF LogInv, EveryLogEnded, CrashInv, CrashIsEarly
<1>2. ThreadInv /\ DutTypeOK /\ LogInv /\ [Next]_vars => LogInv'
    BY LogStep
<1>3. DutTypeOK /\ LogInv /\ CrashInv /\ [Next]_vars => CrashInv'
    BY CrashStep
<1>4. CrashInv => CrashIsEarly
    BY DEF CrashInv
<1> QED BY <1>1, <1>2, <1>3, <1>4, ThreadInvariant, DutInvariant, PTL DEF SafeSpec

-------------------------------------------------------------------------------
(* With a kill that stops every application, no two of them are alive        *)

AppInv ==
    /\ running = {} \/ \E c \in Commands : running = {c}
    /\ pc = "run" => running = {}

\* When each kill command stops every benchmark and Telnet does what it reports,
\* at most one application is alive, wherever sessions and reboots break
\* (machine.py:221-231).
THEOREM AtMostOneApp ==
    ASSUME \A c \in Commands : Kills[c] = Commands, "silent" \notin Faults
    PROVE  SafeSpec => []OneApp
<1>1. Init => AppInv
    <2> SUFFICES ASSUME Init PROVE AppInv
        OBVIOUS
    <2>1. pc = "turn_on"
        BY Zenon DEF Init
    <2> QED BY <2>1, RunningAtFirst DEF AppInv
<1>2. FactoryTypeOK /\ DutTypeOK /\ AppInv /\ [Next]_vars => AppInv'
    <2> SUFFICES ASSUME FactoryTypeOK, DutTypeOK, AppInv, [Next]_vars PROVE AppInv'
        OBVIOUS
    <2> USE DEF AppInv, Goto, GotoSoftApp, dut
    <2>1. CASE LoginAndKill
        <3>1. running \ Kills[currentCommand] = {}
            BY DEF DutTypeOK, FactoryTypeOK
        <3> QED BY <2>1, <3>1 DEF LoginAndKill, KillSent, SessionLost, AppRebootFails, NextTry
    <2>2. CASE SendRun
        <3>1. running = {} /\ currentCommand \in Commands
            BY <2>2 DEF SendRun, FactoryTypeOK
        <3>2. pc' # "run"
            BY <2>2 DEF SendRun, SessionLost, AppRebootFails, NextTry
        <3>3. running' = {} \/ running' = {currentCommand}
            BY <2>2, <3>1 DEF SendRun
        <3> QED BY <3>1, <3>2, <3>3
    <2>3. CASE AppDies
        BY <2>3 DEF AppDies, thread
    <2>4. CASE running' \in {running, {}} /\ (pc' = "run" => pc = "run")
        BY <2>4
    <2>5. LoginAndKill \/ SendRun \/ AppDies
          \/ (running' \in {running, {}} /\ (pc' = "run" => pc = "run"))
        BY DEF Next, Thread, Surroundings, Over, vars, thread, TurnOn, BootExpires, BootGoesOn,
               BootDone, Ping, SoftApp, Try, SessionLost, NextTry, AppRebootFails, SwapLogs,
               SwapLogsFails, Loop, HandleMessage, AfterMessage, DieOnMessage, ReceiveTimesOut,
               OsEntry, OsReboot, HardEntry, SwitchOff, SwitchOn, AppSends, PowerTrips,
               TimePasses, Stop
    <2> QED BY <2>1, <2>2, <2>3, <2>4, <2>5
<1>3. AppInv => OneApp
    <2>1. Cardinality({}) = 0
        BY FS_EmptySet
    <2>2. \A c \in Commands : Cardinality({c}) = 1
        BY FS_Singleton
    <2> QED BY <2>1, <2>2 DEF AppInv, OneApp
<1> QED
    BY <1>1, <1>2, <1>3, DutInvariant, MachineImplementsFactory, FactoryTypeCorrect, PTL
       DEF SafeSpec
===============================================================================
