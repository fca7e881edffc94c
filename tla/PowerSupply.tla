------------------------------ MODULE PowerSupply ------------------------------
(***************************************************************************)
(* The threads that share the power supply: the machines, which command it *)
(* through reboot_machine.py, one at a time; the power monitor, which cuts *)
(* its output when a limit is exceeded; and whoever ends the server, which *)
(* is the main thread on an interrupt and every thread that dies of an     *)
(* exception.                                                              *)
(***************************************************************************)
EXTENDS SupplyLink

CONSTANTS
    Machines,
    Monitor, Main,
    MaxInterrupts   \* how often Control-C is pressed

ASSUME SupplyAssumption ==
    /\ Callers = Machines \cup {Monitor, Main}
    /\ Monitor \notin Machines \cup {Main} /\ Main \notin Machines
    /\ MaxInterrupts \in Nat

VARIABLES
    pc,
    globalLock,     \* who holds __GLOBAL_LOCK
    monitorStop,    \* _stop_signal of the monitor
    stopped,        \* machines told to stop
    tripped,        \* limits the measurement at hand exceeds, not yet acted upon
    interrupts,
    resting,        \* machines whose rest has known no power so far
    rested          \* the output has been off for a whole rest

control == <<globalLock, monitorStop, stopped, tripped, interrupts>>
rests == <<resting, rested>>
vars == <<linkVars, pc, control, rests>>

MachineCalls == {"turn on", "switch off", "switch on"}
MonitorCalls == {"poll", "seize", "cut"}
EndPoints == {"stop monitor", "release", "close", "stop machines", "join"}
Over == {"ended", "exited", "aborted"}

\* What a thread asks of the supply at the points where it does.
AskAt(point) ==
    CASE point \in {"turn on", "switch on"} -> "output on"
      [] point \in {"switch off", "cut"} -> "output off"
      [] point = "poll" -> "actual"
      [] point = "seize" -> "remote on"
      [] point = "release" -> "remote off"

Init ==
    /\ LinkInit
    /\ pc = [t \in Callers |-> CASE t = Main -> "up" [] t = Monitor -> "poll"
                                 [] OTHER -> "turn on"]
    /\ globalLock = NoOne /\ monitorStop = FALSE /\ stopped = {}
    /\ tripped = 0 /\ interrupts = 0
    /\ resting = {} /\ rested = TRUE

Goto(t, point) == pc' = [pc EXCEPT ![t] = point]

Back(t) == stage[t] \in {"returned", "raised"}

\* An exception ends a thread by way of the exception hook of the server.
NextOr(t, point) == IF stage[t] = "raised" THEN "stop monitor" ELSE point

-------------------------------------------------------------------------------
(* The machines                                                              *)

\* _select_command_on_switch: one machine at a time, until it has its answer.
MachineCommands(m) ==
    /\ pc[m] \in MachineCalls /\ globalLock = NoOne
    /\ Call(m, AskAt(pc[m]))
    /\ globalLock' = m
    /\ UNCHANGED <<transferLock, line, supply, failures, pc, monitorStop, stopped, tripped, interrupts, rests>>

\* Whether the supply obeyed changes the log only: run and reboot_machine go on.
MachineCommanded(m) ==
    /\ pc[m] \in MachineCalls /\ Back(m)
    /\ Return(m)
    /\ globalLock' = NoOne
    /\ Goto(m, NextOr(m, IF pc[m] = "switch off" THEN "rest" ELSE "run"))
    /\ resting' = IF pc[m] = "switch off" /\ ~output THEN resting \cup {m} ELSE resting
    /\ UNCHANGED <<transferLock, line, supply, failures, monitorStop, stopped, tripped, interrupts, rested>>

\* mutant: the wait is not made.
MachineRestsNot(m) ==
    /\ pc[m] = "rest"
    /\ Goto(m, "switch on")
    /\ resting' = resting \ {m}
    /\ UNCHANGED <<linkVars, control, rested>>

\* The rest of reboot_machine is a wait on the stop event of the machine.
MachineRests(m) ==
    /\ pc[m] = "rest"
    /\ Goto(m, "switch on")
    /\ \/ rested' = (rested \/ m \in resting)
       \/ m \in stopped /\ UNCHANGED rested
    /\ resting' = resting \ {m}
    /\ UNCHANGED <<linkVars, control>>

\* The loop of run, down to what it does with the supply.  A datagram that cannot
\* be handled, a disk that is full or a log that is not there yet raise in it.
MachineRuns(m) ==
    /\ pc[m] = "run"
    /\ \/ Goto(m, IF m \in stopped THEN "ended" ELSE "switch off")
       \/ Goto(m, "stop monitor")
    /\ UNCHANGED <<linkVars, control, rests>>

Machine(m) ==
    MachineCommands(m) \/ MachineCommanded(m) \/ MachineRests(m) \/ MachineRuns(m)

-------------------------------------------------------------------------------
(* The monitor                                                               *)

MonitorAsks ==
    /\ pc[Monitor] \in MonitorCalls
    /\ IF pc[Monitor] = "poll" /\ monitorStop
       THEN Goto(Monitor, "ended") /\ stage[Monitor] = "idle" /\ UNCHANGED transfers
       ELSE Call(Monitor, AskAt(pc[Monitor])) /\ UNCHANGED pc
    /\ UNCHANGED <<transferLock, line, supply, failures, control, rests>>

\* mutant: both limits have to be exceeded.
TripsOfBoth(limits) == IF limits = 2 THEN 1 ELSE 0

\* A shutoff for each limit the measurement exceeds.
Trips(limits) == limits

\* get_current_stats: an answer to another telegram is too short to be read.
MonitorMeasures ==
    /\ pc[Monitor] = "poll" /\ Back(Monitor)
    /\ Return(Monitor)
    /\ IF stage[Monitor] = "returned" /\ answer[Monitor].ask = "actual"
       THEN Goto(Monitor, "check") /\ tripped' = Trips(answer[Monitor].excess)
       ELSE Goto(Monitor, "stop monitor") /\ UNCHANGED tripped
    /\ UNCHANGED <<transferLock, line, supply, failures, globalLock, monitorStop, stopped, interrupts, rests>>

MonitorChecks ==
    /\ pc[Monitor] = "check"
    /\ Goto(Monitor, IF tripped > 0 THEN "seize" ELSE "poll")
    /\ UNCHANGED <<linkVars, control, rests>>

\* shutoff_device: remote control first, then the output off.  What the supply
\* answers to either is not looked at.
MonitorShutsOff ==
    /\ pc[Monitor] \in {"seize", "cut"} /\ Back(Monitor)
    /\ Return(Monitor)
    /\ Goto(Monitor, NextOr(Monitor, IF pc[Monitor] = "seize" THEN "cut" ELSE "check"))
    /\ tripped' = IF pc[Monitor] = "cut" THEN tripped - 1 ELSE tripped
    /\ UNCHANGED <<transferLock, line, supply, failures, globalLock, monitorStop, stopped, interrupts, rests>>

Monitors == MonitorAsks \/ MonitorMeasures \/ MonitorChecks \/ MonitorShutsOff

-------------------------------------------------------------------------------
(* The end of the server                                                     *)

\* __ctrlc_handler, run by the main thread wherever it is, even in the handler:
\* what the interrupted call holds it goes on holding, as the handler ends the
\* process and never goes back.
Interrupt ==
    /\ interrupts < MaxInterrupts /\ pc[Main] \notin Over
    /\ interrupts' = interrupts + 1
    /\ Goto(Main, "stop monitor")
    /\ stage' = [stage EXCEPT ![Main] = "idle"]
    /\ ask' = [ask EXCEPT ![Main] = "actual"]
    /\ answer' = [answer EXCEPT ![Main] = Unanswered(Main)]
    /\ UNCHANGED <<transferLock, line, supply, failures, globalLock, monitorStop, stopped, tripped, rests>>

\* __end_daemon_machines, run by whoever ends the server.
EndMonitor(t) ==
    /\ pc[t] = "stop monitor"
    /\ monitorStop' = TRUE /\ Goto(t, "release")
    /\ UNCHANGED <<linkVars, globalLock, stopped, tripped, interrupts, rests>>

EndReleases(t) ==
    /\ pc[t] = "release"
    /\ Call(t, AskAt(pc[t]))
    /\ UNCHANGED <<transferLock, line, supply, failures, pc, control, rests>>

\* mutant: the port is closed, and then the machines are not stopped.
AfterReleaseReturns(t) == IF stage[t] = "raised" THEN "aborted" ELSE "exited"

\* An exception of the shutdown leaves the function, which then stops no machine.
AfterRelease(t) == IF stage[t] = "raised" THEN "aborted" ELSE "close"

EndReleased(t) ==
    /\ pc[t] = "release" /\ Back(t)
    /\ Return(t)
    /\ Goto(t, AfterRelease(t))
    /\ UNCHANGED <<transferLock, line, supply, failures, control, rests>>

EndCloses(t) ==
    /\ pc[t] = "close"
    /\ Close /\ Goto(t, "stop machines")
    /\ UNCHANGED <<control, rests>>

\* mutant: the machines are joined before they are told to stop.
EndMachinesJoined(t) ==
    /\ pc[t] = "stop machines" /\ \A m \in Machines \ {t} : pc[m] \in Over
    /\ stopped' = Machines /\ Goto(t, "join")
    /\ UNCHANGED <<linkVars, globalLock, monitorStop, tripped, interrupts, rests>>

EndMachines(t) ==
    /\ pc[t] = "stop machines"
    /\ stopped' = Machines /\ Goto(t, "join")
    /\ UNCHANGED <<linkVars, globalLock, monitorStop, tripped, interrupts, rests>>

\* The machines are joined for a second each at most; then the thread is over,
\* and with the main thread the process.
EndJoins(t) ==
    /\ pc[t] = "join"
    /\ Goto(t, "exited")
    /\ UNCHANGED <<linkVars, control, rests>>

End(t) ==
    \/ EndMonitor(t) \/ EndReleases(t) \/ EndReleased(t)
    \/ EndCloses(t) \/ EndMachines(t) \/ EndJoins(t)

-------------------------------------------------------------------------------

\* The end of the main thread is the end of the process.
Exited == pc[Main] \in Over

Transfers(t) == Transfer(t) /\ UNCHANGED <<pc, control, rests>>

\* The supply, whose output ends every rest when it goes on or off.
Supplies ==
    /\ SupplyAnswers
    /\ IF output' = output THEN UNCHANGED rests ELSE resting' = {} /\ rested' = FALSE
    /\ UNCHANGED <<pc, control>>

Loads == LoadChanges /\ UNCHANGED <<pc, control, rests>>

Next ==
    \/ Supplies \/ Loads
    \/ /\ ~Exited
       /\ \/ \E m \in Machines : Machine(m)
          \/ Monitors \/ Interrupt
          \/ \E t \in Callers : Transfers(t) \/ End(t)

SafeSpec == Init /\ [][Next]_vars

\* The threads are scheduled and the supply answers.  The lock of the link comes
\* to every thread that goes on asking for it, because those that take it again
\* and again leave it free in between: the monitor sleeps after each poll, the
\* machines wait for seconds after each command.
Fairness ==
    /\ WF_vars(Supplies)
    /\ WF_vars(~Exited /\ Monitors)
    /\ \A m \in Machines : WF_vars(~Exited /\ (MachineCommanded(m) \/ MachineRests(m)))
    /\ \A t \in Callers :
           /\ WF_vars(~Exited /\ End(t))
           /\ SF_vars(~Exited /\ Send(t) /\ UNCHANGED <<pc, control, rests>>)
           /\ WF_vars(~Exited /\ Read(t) /\ UNCHANGED <<pc, control, rests>>)

Spec == SafeSpec /\ Fairness

-------------------------------------------------------------------------------

SupplyTypeOK ==
    /\ LinkTypeOK
    /\ \A m \in Machines :
           pc[m] \in MachineCalls \cup {"rest", "run"} \cup EndPoints \cup Over
    /\ pc[Monitor] \in MonitorCalls \cup {"check"} \cup EndPoints \cup Over
    /\ pc[Main] \in {"up"} \cup EndPoints \cup Over
    /\ globalLock \in Machines \cup {NoOne}
    /\ monitorStop \in BOOLEAN /\ stopped \subseteq Machines
    /\ tripped \in 0..2 /\ interrupts \in 0..MaxInterrupts
    /\ resting \subseteq Machines /\ rested \in BOOLEAN

\* "How many seconds the machine must be OFF before turn ON again"
\* (reboot_machine.py:187): whatever the monitor cuts and whenever the server
\* ends, a power cycle gives the DUT power only after a whole rest without.
RestKept ==
    [][\A m \in Machines :
           ~output /\ output' /\ Head(asked).to = m /\ pc[m] = "switch on" => rested]_vars

\* The telegram that releases the supply failed on an open port.  Its exception
\* leaves the end of the server, that has stopped no machine by then, and the
\* supply may be without remote control (server.py:41-44).
EndFailed(t) == portOpen /\ pc[t] = "aborted"

\* A measurement above a limit is followed by an output that is off, unless the
\* server ends first, or tries to: the release of an end that fails may come
\* between the two telegrams of a shutoff, and the supply then denies the second
\* (power_monitor.py:78-99).
TripCutsPower ==
    pc[Monitor] = "poll" /\ stage[Monitor] = "returned" /\ answer[Monitor].excess > 0
        ~> ~output \/ ~portOpen \/ Exited \/ \E t \in Callers : EndFailed(t)

\* "KeyboardInterrupt detected, exiting gracefully!" (server.py:84): an interrupt
\* ends the process.
InterruptExits == pc[Main] # "up" ~> Exited

\* The globals of the server are there "to stop all the threads when an exception
\* is raised" (server.py:27): when a thread ends the server, the machines are
\* told to stop, however many threads end it at once, unless its release of the
\* supply fails.
ErrorStopsMachines ==
    \A t \in Callers :
        pc[t] = "stop monitor" ~> stopped = Machines \/ Exited \/ EndFailed(t)
===============================================================================
