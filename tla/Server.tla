--------------------------------- MODULE Server ---------------------------------
(***************************************************************************)
(* server.py: the start of the server by its main thread, which ends in a  *)
(* wait for the other threads, and its end, by whichever thread dies of an *)
(* exception, by the main thread when the start fails, or by the handler   *)
(* of Control-C, which runs in the main thread wherever that is.  What the *)
(* threads do for their living is in the other modules; here they run, may *)
(* die, and end when they are told to.                                     *)
(***************************************************************************)
EXTENDS Console

CONSTANTS
    N,            \* machines that are enabled in the configuration, started in order
    Main, Command, Power, Display,
    Daemons,      \* the other threads of Master
    NoThread,
    MaxEvents     \* exceptions of threads, Control-C, failed telegrams and records

Machines == 1 .. N
Services == {Command, Power, Display} \cup Daemons
Threads == {Main} \cup Services \cup Machines

ASSUME ServerAssumption ==
    /\ N \in Nat /\ MaxEvents \in Nat
    /\ Loggers \subseteq Threads
    /\ NoThread \notin Threads /\ Services \cap Machines = {}
    /\ Main \notin {Command, Power, Display} /\ Command \notin {Power, Display} /\ Power # Display
    /\ Main \notin Machines \cup Daemons /\ {Command, Power, Display} \cap Daemons = {}

VARIABLES
    pc,
    base,         \* what an exception of the handler surfaces in: the try, its except, or the wait
    handling,     \* whether main is in the handler of Control-C
    next,         \* the machine main is at
    listed,       \* MACHINE_LIST, of which the machines 1 .. listed are
    controller,   \* power_controller: none, made, and published as PWR_CTRL
    portOpen,
    linkHeld,     \* the thread in a transfer of shutdown
    monitorStop,
    stopped,      \* machines told to stop
    at,           \* where the loops of an end sequence are
    deaths, interrupts, failures,
    ended,        \* history: an end sequence has begun
    missed        \* history: one of them found PWR_CTRL not set

world == <<portOpen, linkHeld, monitorStop, stopped>>
events == deaths + interrupts + failures + records
counts == <<deaths, interrupts, failures, ended, missed>>
vars == <<pc, base, handling, next, listed, controller, world, at, counts, consoleVars>>

StartPoints == {"display", "master", "controller", "publish", "monitor", "create", "start", "append"}
EndPoints == {"end", "stop monitor", "release", "releasing", "close", "stop machines",
              "join machines", "stop display", "join display", "again"}

Init ==
    /\ pc = [t \in Threads |-> IF t = Main THEN "display" ELSE "absent"]
    /\ base = "try" /\ handling = FALSE /\ next = 1 /\ listed = 0 /\ controller = "none"
    /\ portOpen = FALSE /\ linkHeld = NoThread /\ monitorStop = FALSE /\ stopped = {}
    /\ at = [t \in Threads |-> 1]
    /\ deaths = 0 /\ interrupts = 0 /\ failures = 0 /\ ended = FALSE /\ missed = FALSE
    /\ ConsoleInit

Over == pc[Main] = "over"
Alive(t) == pc[t] \notin {"absent", "dead"}
Goto(t, point) == pc' = [pc EXCEPT ![t] = point]

-------------------------------------------------------------------------------
(* The start                                                                 *)

\* The except branch of main.
Fails ==
    /\ Goto(Main, "end") /\ base' = "except" /\ handling' = FALSE /\ ended' = TRUE
    /\ at' = [at EXCEPT ![Main] = 1]
    /\ UNCHANGED <<next, listed, controller, world, deaths, interrupts, failures, missed>>

StartDisplay ==
    /\ pc[Main] = "display"
    /\ \/ DisplayStarts /\ pc' = [pc EXCEPT ![Main] = "master", ![Display] = "running"]
       \/ Goto(Main, "master") /\ UNCHANGED consoleVars
    /\ UNCHANGED <<base, handling, next, listed, controller, world, at, counts>>

\* The three sockets are bound before a thread is started.
MakeMaster ==
    /\ pc[Main] = "master"
    /\ \/ /\ pc' = [t \in Threads |-> IF t = Main THEN "controller"
                                     ELSE IF t \in {Command} \cup Daemons THEN "running" ELSE pc[t]]
          /\ UNCHANGED <<base, handling, next, listed, controller, world, at, counts>>
       \/ Fails
    /\ UNCHANGED consoleVars

\* A controller that is not made closes its port: see SupplyDriver.
MakeController ==
    /\ pc[Main] = "controller"
    /\ \/ /\ Goto(Main, "publish") /\ controller' = "made" /\ portOpen' = TRUE
          /\ UNCHANGED <<base, handling, next, listed, linkHeld, monitorStop, stopped, at, counts>>
       \/ Fails
    /\ UNCHANGED consoleVars

\* mutant: the monitor is left to the machines.
PublishOnly ==
    /\ pc[Main] = "publish"
    /\ Goto(Main, "create") /\ controller' = "published"
    /\ UNCHANGED <<base, handling, next, listed, world, at, counts, consoleVars>>

Publish ==
    /\ pc[Main] = "publish"
    /\ Goto(Main, "monitor") /\ controller' = "published"
    /\ UNCHANGED <<base, handling, next, listed, world, at, counts, consoleVars>>

StartMonitor ==
    /\ pc[Main] = "monitor"
    /\ pc' = [pc EXCEPT ![Main] = "create", ![Power] = "running"]
    /\ UNCHANGED <<base, handling, next, listed, controller, world, at, counts, consoleVars>>

\* The constructor reads the configuration of the machine and binds its socket.
CreateMachine ==
    /\ pc[Main] = "create"
    /\ \/ /\ IF next > N THEN Goto(Main, "waiting") /\ base' = "waiting"
                         ELSE Goto(Main, "start") /\ UNCHANGED base
          /\ UNCHANGED <<handling, next, listed, controller, world, at, counts>>
       \/ next <= N /\ Fails
    /\ UNCHANGED consoleVars

\* mutant: the machine is left to the next one to list.
StartNext ==
    /\ pc[Main] = "start"
    /\ pc' = [pc EXCEPT ![Main] = "create", ![next] = "running"]
    /\ listed' = next - 1 /\ next' = next + 1
    /\ UNCHANGED <<base, handling, controller, world, at, counts, consoleVars>>

StartMachine ==
    /\ pc[Main] = "start"
    /\ pc' = [pc EXCEPT ![Main] = "append", ![next] = "running"]
    /\ UNCHANGED <<base, handling, next, listed, controller, world, at, counts, consoleVars>>

AppendMachine ==
    /\ pc[Main] = "append"
    /\ Goto(Main, "create") /\ listed' = next /\ next' = next + 1
    /\ UNCHANGED <<base, handling, controller, world, at, counts, consoleVars>>

\* Done: the interpreter waits for the threads that are no daemons.
Wait ==
    /\ pc[Main] = "waiting"
    /\ ~Alive(Command) /\ \A m \in Machines : ~Alive(m)
    /\ Goto(Main, "over")
    /\ UNCHANGED <<base, handling, next, listed, controller, world, at, counts, consoleVars>>

Start ==
    \/ StartDisplay \/ MakeMaster \/ MakeController \/ Publish \/ StartMonitor
    \/ CreateMachine \/ StartMachine \/ AppendMachine \/ Wait

-------------------------------------------------------------------------------
(* The threads                                                               *)

\* An exception reaches the hook, which is the thread's last act.
Dies(t) ==
    /\ Goto(t, "end") /\ ended' = TRUE
    /\ UNCHANGED <<base, handling, next, listed, controller, world, at, interrupts, failures, missed>>

Die(t) ==
    /\ t \in (Services \ {Display}) \cup Machines
    /\ pc[t] = "running" /\ events < MaxEvents /\ deaths' = deaths + 1
    /\ Dies(t) /\ UNCHANGED consoleVars

\* The machines and the monitor of the supply end when they are told to.
Ends(t) ==
    /\ pc[t] = "running"
    /\ t \in stopped \/ (t = Power /\ monitorStop)
    /\ Goto(t, "dead")
    /\ UNCHANGED <<base, handling, next, listed, controller, world, at, counts, consoleVars>>

RunDisplay ==
    /\ pc[Display] = "running"
    /\ \/ DisplaySteps /\ UNCHANGED <<pc, base, handling, next, listed, controller, world, at, counts>>
       \/ display = "raised" /\ Dies(Display) /\ UNCHANGED <<deaths, consoleVars>>
       \/ /\ display = "ended" /\ Goto(Display, "dead")
          /\ UNCHANGED <<base, handling, next, listed, controller, world, at, counts, consoleVars>>

LogsRecord(t) ==
    /\ t \in Loggers /\ Alive(t)
    /\ events < MaxEvents /\ Logs(t)
    /\ UNCHANGED <<pc, base, handling, next, listed, controller, world, at, counts>>

-------------------------------------------------------------------------------
(* The end: __end_daemon_machines                                            *)

\* What the interrupted call holds it holds for ever, as the handler does not
\* go back to it.
Interrupt ==
    /\ events < MaxEvents /\ interrupts' = interrupts + 1
    /\ Goto(Main, "end") /\ handling' = TRUE /\ ended' = TRUE
    /\ at' = [at EXCEPT ![Main] = 1]
    /\ UNCHANGED <<base, next, listed, controller, world, deaths, failures, missed, consoleVars>>

\* Where a thread goes from its end sequence; main ends the process in the wait only.
Leaving(t) ==
    IF t # Main THEN "dead" ELSE IF handling /\ base = "waiting" THEN "over" ELSE "waiting"

\* An exception of the shutdown leaves the end sequence.  That of the handler
\* surfaces where main was, which in the wait ends the process.
Raises(t) ==
    IF t = Main /\ handling /\ base = "try"
    THEN /\ pc' = [pc EXCEPT ![Main] = "end"] /\ base' = "except" /\ handling' = FALSE
         /\ at' = [at EXCEPT ![Main] = 1] /\ ended' = TRUE
    ELSE /\ Goto(t, Leaving(t))
         /\ IF t = Main THEN base' = "waiting" /\ handling' = FALSE ELSE UNCHANGED <<base, handling>>
         /\ UNCHANGED <<at, ended>>

\* The sys.exit of the hook is ignored, and that of main surfaces where it was.
\* After the except branch the controller is shut down again.
Returns(t) ==
    /\ Goto(t, IF t = Main /\ ~handling /\ controller # "none" THEN "again" ELSE Leaving(t))
    /\ IF t = Main /\ (handling \/ controller = "none")
       THEN base' = "waiting" /\ handling' = FALSE ELSE UNCHANGED <<base, handling>>

EndBegins(t) ==
    /\ pc[t] = "end"
    /\ IF controller = "published" THEN Goto(t, "stop monitor") /\ UNCHANGED missed
                                   ELSE Goto(t, "stop machines") /\ missed' = TRUE
    /\ UNCHANGED <<base, handling, next, listed, controller, world, at, deaths, interrupts,
                   failures, ended, consoleVars>>

EndMonitor(t) ==
    /\ pc[t] = "stop monitor"
    /\ Goto(t, "release") /\ monitorStop' = TRUE
    /\ UNCHANGED <<base, handling, next, listed, controller, portOpen, linkHeld, stopped, at,
                   counts, consoleVars>>

EndReleases(t) ==
    /\ pc[t] = "release" /\ linkHeld = NoThread
    /\ Goto(t, "releasing") /\ linkHeld' = t
    /\ UNCHANGED <<base, handling, next, listed, controller, portOpen, monitorStop, stopped, at,
                   counts, consoleVars>>

\* On a port that is closed, or closed meanwhile, it raises.
EndReleased(t) ==
    /\ pc[t] = "releasing" /\ linkHeld' = NoThread
    /\ \/ portOpen /\ Goto(t, "close") /\ UNCHANGED <<base, handling, at, ended, failures>>
       \/ ~portOpen /\ Raises(t) /\ UNCHANGED failures
       \/ portOpen /\ events < MaxEvents /\ failures' = failures + 1 /\ Raises(t)
    /\ UNCHANGED <<next, listed, controller, portOpen, monitorStop, stopped, deaths, interrupts,
                   missed, consoleVars>>

\* mutant: the port is left open.
EndClosesNot(t) ==
    /\ pc[t] = "close"
    /\ Goto(t, "stop machines")
    /\ UNCHANGED <<base, handling, next, listed, controller, world, at, counts, consoleVars>>

EndCloses(t) ==
    /\ pc[t] = "close"
    /\ Goto(t, "stop machines") /\ portOpen' = FALSE
    /\ UNCHANGED <<base, handling, next, listed, controller, linkHeld, monitorStop, stopped, at,
                   counts, consoleVars>>

InList(t) == at[t] <= listed

\* The list may grow while it is gone through.
EndMachines(t) ==
    /\ pc[t] = "stop machines"
    /\ IF InList(t)
       THEN stopped' = stopped \cup {at[t]} /\ at' = [at EXCEPT ![t] = @ + 1] /\ UNCHANGED pc
       ELSE Goto(t, "join machines") /\ at' = [at EXCEPT ![t] = 1] /\ UNCHANGED stopped
    /\ UNCHANGED <<base, handling, next, listed, controller, portOpen, linkHeld, monitorStop,
                   counts, consoleVars>>

\* mutant: the join has no timeout.
JoinsForever(t, m) == m = t \/ ~Alive(m)

\* Whether the machine is over or the second is.
Joins(t, m) == TRUE

EndJoins(t) ==
    /\ pc[t] = "join machines"
    /\ IF InList(t)
       THEN Joins(t, at[t]) /\ at' = [at EXCEPT ![t] = @ + 1] /\ UNCHANGED <<pc, base, handling>>
       ELSE /\ UNCHANGED at
            /\ IF Displayed THEN Goto(t, "stop display") /\ UNCHANGED <<base, handling>> ELSE Returns(t)
    /\ UNCHANGED <<next, listed, controller, world, counts, consoleVars>>

EndDisplay(t) ==
    /\ pc[t] = "stop display"
    /\ Goto(t, "join display") /\ displayStop' = TRUE
    /\ UNCHANGED <<base, handling, next, listed, controller, world, at, counts,
                   records, printing, shown, display>>

\* The display, which cannot join itself, goes on.
EndJoinsDisplay(t) ==
    /\ pc[t] = "join display"
    /\ t = Display \/ ~Alive(Display)
    /\ Returns(t)
    /\ UNCHANGED <<next, listed, controller, world, at, counts, consoleVars>>

\* The second shutdown raises on the closed port, so that main ends of an
\* exception and not of its sys.exit.
EndsAgain ==
    /\ pc[Main] = "again" /\ linkHeld = NoThread
    /\ Goto(Main, "waiting") /\ base' = "waiting"
    /\ UNCHANGED <<handling, next, listed, controller, world, at, counts, consoleVars>>

End(t) ==
    \/ EndBegins(t) \/ EndMonitor(t) \/ EndReleases(t) \/ EndReleased(t) \/ EndCloses(t)
    \/ EndMachines(t) \/ EndJoins(t) \/ EndDisplay(t) \/ EndJoinsDisplay(t)
    \/ t = Main /\ EndsAgain

-------------------------------------------------------------------------------

Next ==
    /\ ~Over
    /\ \/ Start \/ Interrupt \/ RunDisplay
       \/ \E t \in Threads : Die(t) \/ Ends(t) \/ End(t) \/ LogsRecord(t)

SafeSpec == Init /\ [][Next]_vars

\* The threads are scheduled, and nothing a start or an end waits for but the
\* lock of the link and the display is without a timeout.
Fairness ==
    /\ WF_vars(~Over /\ Start) /\ WF_vars(~Over /\ RunDisplay)
    /\ WF_vars(~Over /\ \E t \in Threads : End(t) \/ Ends(t))

Spec == SafeSpec /\ Fairness

-------------------------------------------------------------------------------

Started == {m \in Machines : pc[m] # "absent"}

\* The main thread was interrupted in a transfer, whose lock it never gives back.
LinkLost == linkHeld = Main /\ pc[Main] # "releasing"

\* "General end for all machines" (server.py:36): when the main thread has gone
\* through its list, every machine that was started is told to stop, but for the
\* one that an interrupt found between its start and its entry in the list.
SweepMissesOne ==
    pc[Main] \in {"join machines", "stop display", "join display", "again"}
        => Cardinality(Started \ stopped) <= IF interrupts = 0 THEN 0 ELSE 1

\* No machine runs, and commands the supply, without the monitor that cuts it at
\* its limits, until the end of the server begins (server.py:177-189).
RunsMonitored ==
    ~ended /\ Started # {} => pc[Power] = "running" /\ controller = "published" /\ portOpen

\* However the process ends, some end sequence has closed the port of the supply
\* (power_controller.py:160), unless a telegram failed before it did or an end
\* came before PWR_CTRL was set (server.py:39, 177).  That the supply is then out
\* of remote control is not said: the monitor may have taken it again.
LeavesPortClosed == Over /\ failures = 0 /\ ~missed => ~portOpen

\* Threads that end the server at once, and join each other and the display, do
\* not wait for each other for ever (server.py:46-57).
EndersFinish ==
    (\E t \in Threads : pc[t] \in EndPoints)
        ~> (\A t \in Threads : pc[t] \notin EndPoints) \/ Over \/ LinkLost

\* Control-C ends a server that has started: sys.exit(130) does not wait for the
\* threads there (server.py:87).
InterruptWhenUpEnds ==
    handling /\ base = "waiting" ~> Over \/ LinkLost

\* "KeyboardInterrupt detected, exiting gracefully!" (server.py:84).
InterruptEnds == interrupts > 0 ~> Over
===============================================================================
