# A verification of the radiation setup

The repository is a server that keeps devices under test (DUTs) running
benchmarks in a particle beam, and the programs around it. The modules of this
directory model its parts in TLA+. TLC checks them on small instances and TLAPS
proves the theorems of the `*Proofs` modules for every value of the constants.
`PROJECT.json` is the index: components, runs, mutants, the lines each definition
models, findings, hazards and theorems.

Nothing in the code is tested by a test: `utils/test_scripts.py` builds objects by
hand. The properties come from what the code, its comments and its messages
promise, and from what an experiment needs: that a hung DUT is always restarted,
that what runs and what is logged is what the configuration says, that the beam
is closed when nobody answers, that the supply is cut at its limits, and that the
server can be stopped.

## The parts of the system

| Part | Source | State | Operations | Hard behaviour |
|---|---|---|---|---|
| Command factory | `server/command_factory.py` | the list of configurations, the queue, the current one, its start | refill, pop, window expired | a request refills whether or not it pops; a launch fails after the pop |
| DUT log | `server/dut_logging.py` | file name, end status | create, append, end, delete | the file is made by the first message; the END line can be lost with the close |
| Machine | `server/machine.py`, `server/error_codes.py` | a thread; three counters, stop event, log, socket | receive, app reboot, OS reboot, power cycle, stop | the DUT sends, crashes and reboots on its own; Telnet sessions break half way; stop comes at any point; counters are reset by different levels |
| Reboot | `server/reboot_machine.py` | one global lock | OFF, rest, ON over a Lindy or common switch or a supply | the rest is made without the lock, and stop ends it |
| Heartbeat monitor | `rasp/heartbeat_monitor.py` | a thread; socket, time of the last heartbeat, stop | wait for the first, watch, close the beam | a heartbeat races a timeout; old datagrams wait in the buffer |
| Command monitor | `rasp/command_monitor.py` | a thread; socket, stop | open, close, shut the board down | the other client of the beam controller |
| Beam controller | `rasp/beam_controller.py` | lock, LED pin, flag | open, close | the flag is set after the pin |
| Master | `rasp/master.py` | its monitors | start, stop, join, shutdown | stops and joins in an order |
| File receiver | `rasp/file_receiver.py` | a thread; socket, stop | accept, header, body | the body ends early |
| Link to the supply | `psu_control/ps2000.py`, `power_stats.py` | serial port, transfer lock | transfer, close | late, lost, garbled answers; a close under a transfer |
| Driver of the supply | `psu_control/ps2000.py`, `power_controller.py` | nominal values | construct, check and decode a telegram; set and get; initialise | two bytes of checksum; scaling by one of two nominal values; a start that fails half way |
| Power controller and monitor | `psu_control/power_controller.py`, `power_monitor.py` | a thread; limits, stop | poll, shut off, release | shares the link with the machines; is not joined |
| Server | `server.py` | global lists of machines and controllers | start, interrupt, exception hook, end | any thread may run its end; the handler interrupts itself |
| Console | `server/print_manager.py`, `server/logger_formatter.py` | queue of records, lines | log, draw | a curses thread that an end sequence waits for |
| Utilities | the rest of `utils/` | none shared | numerical and profiling helpers | none |

How they interact. The server makes a *power controller* and gives it to every
*machine*. A machine owns a *command factory*, and one *log* for each launch; it
commands the DUT over Telnet, listens to its datagrams and calls the *reboot*
functions, which take a global lock and call a switch or the power controller.
The *power monitor* is one more thread over the same *link*. On an interrupt the
main thread, and on an exception whichever thread dies, run the end of the server:
shut the power controller down, stop the machines and join each for a second. The
*master* starts the heartbeat, command and transfer monitors beside all that;
the first two share the *beam controller*.

What makes each correct:

- *Factory*: no configuration lost, doubled or starved; the next one only when
  the window of the present one is over.
- *Log*: each launch has one log, closed by a reason.
- *Machine*: a bounded number of restarts before the power is cycled; a silent DUT
  is always restarted; the DUT is left powered; one benchmark at a time; a stopped
  thread ends, with one more session at most.
- *Beam*: the flag tells the pin; a silent experiment closes the beam; stop joins.
- *File receiver*: a file that is saved is what a board sent, whole; it ends when told
  to, if no board leaves a transfer unfinished.
- *Link*: each thread gets the answer to its own telegram, and frees the lock.
- *Driver*: a damaged answer is never returned; a setting reads back; a controller
  that could not be made gives the supply back.
- *Supply*: a power cycle rests in the dark; a limit exceeded cuts the output.
- *Server*: no machine runs without the monitor of its supply; an end stops every
  machine, closes the port and does not wait for ever; an interrupt ends the
  process; the death of a thread stops the machines.

## The modules

They stand in the order they were written in, the most important first.

**`Rotation`** is the abstract specification of a factory: a position that goes
around a list when a flag says the window is over. **`CommandFactory`** is
`command_factory.py`: `cmdQueue` is the deque (its right end last), `GetCommands`
is `get_commands_and_test_info` with the refill it always makes, `timedOut` stands
for the comparison of the clock with the start of the window. The refinement
mapping reads the position off the length of the queue (`Served`), which is the
subtle part: after a refill without a pop the queue holds the whole list *and* the
current command.

**`DutLogging`** holds the life of a log as operators on a record: `Opened`,
`Created`, `Finished`, `Torn`, `Deleted`.

**`Machine`** EXTENDS the factory and instantiates the log. `pc` follows the calls
of `run`: *turn_on*; *boot*/*ping* (`__wait_for_booting`); *soft_app*, *try*,
*login*, *run*, *swap_logs* (`__soft_app_reboot`); *loop*/*recvfrom*; *os*/*os_login*
(`__soft_os_reboot`); *hard*/*off*/*on* (`__hard_reboot` and `reboot_machine`). An
action is what happens between two points where the surroundings can be seen: a
datagram read, a session opened, a command sent, a wait. The return address of
`__soft_app_reboot` is its status argument (`endStatus`): only the caller with
`SOFT_APP_REBOOT` looks at the result and goes on to the OS reboot. The surroundings
are actions of their own: a benchmark sends or dies, the power monitor trips, the
window elapses, `stop` is called. `Faults` says which of five faults may happen:
`garbled` datagrams, a `silent` Telnet (`read_until` returns what it has when its
timeout expires, so that a refused login looks like one that worked: the first open
issue of the repository's README), a `disk` that refuses writes, a power `switch`
that fails, and a `trip`. `restarts` and `lateLogins` are history, read by
properties only.

**`Beam`** is `rasp/` over discrete time. The heartbeat and command monitors are control
points; `hbSock` and `cmdSock` are their sockets; `beamLock`, `pin` and `beamOpen` the
controller; `masterPc` the sequence of `Master.stop`, which stops and joins the transfer
monitor too. Of that one `transferPc` says only whether it waits in `accept`, is in a
transfer, which a board may leave unfinished, or is over, since nothing in `Beam` depends
on it before it is told to stop. `Tick` lets time
pass: `waited` is the time in `select`, `age` the time since `last_heartbeat`, `late`
how long the monitor is behind what it could do, which `MaxLag` bounds at each
point. `quiet`, the true time since a heartbeat came, is history.

**`SupplyLink`** is the driver of the supply: `Send` and `Read` are the halves of
`_transfer`, between which the lock is held and the supply answers; a telegram is
what it asks and by whom, an answer what it answers and whether it is whole (the
checksum). An answer is read whole or not at all. The supply, the line and the load
are modelled from how the driver uses them.

**`PowerSupply`** EXTENDS it with the threads that call it: `Machine*` is what a
machine does to the supply (ON at the start, then OFF, rest, ON again), under
`__GLOBAL_LOCK`, and it may die of any exception of its loop (`MachineRuns`), be it a
datagram that cannot be handled or a full disk; `Monitor*` is the loop of the power monitor, with one shutoff for
each limit exceeded; `End*` is `__end_daemon_machines`, run by the main thread on an
interrupt and by a thread that dies through the exception hook. `resting` and `rested`
are history: which machines have been in the dark since their OFF, and whether such a
rest was completed. The process ends with the main thread's handler: what a thread was
doing then is cut.

**`FileReceiver`** is `rasp/file_receiver.py`. `pc` is the point of the thread (the
top of `run`, `accept`, the first `recv`, the loop of `recv` and `write`); `backlog`,
`link`, `sent` and `taken` are what the operating system holds: boards that connect to a
queue that may be full, segments, a close, a broken connection. A byte is a unit that
tells which board sent it and where it stood in its file, so that a saved file of the
wrong board, or with a gap, can be told from a right one. A header is two units cut by
separators, a file may hold a separator too, and what comes in the first chunk behind
the header is the start of the file.

**`Telegram`** and **`SupplyDriver`** are the driver byte by byte: the delimiter, the
checksum and the scaling as operators, and as actions the calls of
`PowerController.__init__`, `init_device`, `shutdown` and the getters and setters. One
thread makes one call at a time, each sent and answered in one step: what other threads
do in between is in `SupplyLink`. An answer may be damaged in one byte, lost, refused,
or read together with a late one; `last` and `asked` are history.

**`Console`** and **`Server`** are `print_manager.py` and `server.py`. `pc[Main]` follows
`main` from the display over the master, the controller and its monitor to each machine
(made, started, then listed), and the interpreter's wait for the threads that are no
daemons. Every other thread runs, may die of an exception (`Die`) and then runs
`__end_daemon_machines` (`End*`), several at once; `at` is where the loops of each are.
`Interrupt` is the handler of Control-C, which comes at any point of the main thread,
in an end sequence too; `base` says where an exception of the handler surfaces (in the
`try` of `main`, in its `except`, or in the wait, where it ends the process). `missed`
and `ended` are history. The last telegram of the controller holds the link (`linkHeld`),
and a handler that interrupts it never gives it back. What the end of the server does
to a machine in the middle of a power cycle is in `PowerSupply`, which has the same
sequence with the machines and the monitor in detail, and no start.

**`MCCommandFactory`**, **`MCMachine`**, **`MCFileReceiver`** and **`MCSupplyDriver`** give
TLC the lists, files and values that a `.cfg` cannot write; `MCServer` only names the
instance.
A definition marked *mutant* beside another is the same definition with a plausible
bug; no specification uses it. `PROJECT.json` says which property each one breaks.

## The runs

Symmetry is used nowhere: a list of configurations, or a thread named by its role,
tells the values apart.

| Run | Asks | Bounds |
|---|---|---|
| `factory_rotation` | type, `QueueAccountsForList`, the refinement of `Rotation`, `EveryCommandServed` | every list of up to 4 of 3 configurations, with repetitions: more than one round of refills and all queue lengths |
| `machine_benchmarks` | type, `EveryLogEnded`, `OneApp`, `NeverLeftOff`, `CrashIsEarly` | two benchmarks, kill commands that stop both; 2 app reboots, 1 OS reboot, 1 hard reboot, 2 sessions: each counter reaches its maximum while the others are at 0 and at theirs |
| `machine_faults` | `RestartBudget`, `LateLoginBound`, `WatchdogNeverGivesUp`, `StopTerminates`, `WindowEnforced` | all five faults, at any time and as often as they like, datagrams that are iterations and ones that are not, one benchmark: the restart at the end of a window is made, or refused at the maximum of app reboots |
| `beam` | type, `FlagTellsPin`, `WatchingMeansRecent`, `SilenceClosesBeam`, `StopJoins` | a timeout of 1 tick, a lag of 1, a datagram in each buffer, every kind of datagram: late and early heartbeats, old ones in the buffer, and orders, in every order; stop at any time, before or in a transfer that ends or does not |
| `file_receiver` | type, `SavedFilesAreWhole`, `StopEnds` | three boards, one file name, a queue of one, chunks of three units, all four faults: one board sends what it announced, one less, one more with a separator in its first chunk, and any of them may fall silent; with one connection served, one waits and one is refused |
| `supply_rest` | type, `OwnAnswer`, `RestKept`, `LinkIsFreed` | one machine, the monitor and the main thread; two telegrams lost or garbled; both limits |
| `supply_end` | `TripCutsPower`, `InterruptExits`, `ErrorStopsMachines` | one telegram lost, one interrupt, one limit, a machine that dies at any pass of its loop |
| `driver` | `DamageIsSeen`, `SettingsReadBack`, `OcpErrsLow`, `FailedInitReleases`, `OnOnlyWhenSet` | supplies of 42 V, 10 A and of 8 V, 60 A, settings that are negative, small and above the nominal voltage, one fault; a byte off by its lowest and by its highest bit |
| `server` | `SweepMissesOne`, `RunsMonitored`, `LeavesPortClosed`, `EndersFinish`, `InterruptWhenUpEnds` | two machines, with and without a display whose screen has room for one message; any two of a thread that dies, Control-C, a failed telegram, a record; a start that fails at any step |
| `machine_kill`, `supply_shared`, `server_interrupt` | one property each, which the code does not keep | see *Findings* |

Why these bounds are enough. The counters of a machine interact only by being
compared with their maxima and reset; with maxima of 1 and 2 every comparison is
made below, at and above its limit, and `RestartsAreBounded` covers all others.
`SocketRoom = 1` still separates a datagram that comes before a restart and is read
after it. In the beam a timeout of 1 separates *in time* (0 and 1) and *late* (2).
`SilenceLimit` allows a lag at each point passed and for each datagram in the buffer;
it is a bound, not a value reached (with a room of 1 the worst case is
`Timeout + 7 * MaxLag`). The link carries one telegram at a time, so three threads
make all the contention there is. A chunk of three units holds a header and one unit of
the file, so that a file takes one chunk or several and its last one may be short. The
two supplies put each nominal value on either side of the other. Two machines are the
one an end finds in the list and the one it does not; two events are an end and what
disturbs it (another end, a second Control-C, a failed telegram).

`CHECK_DEADLOCK FALSE` appears in the runs of the supply, of the driver and of the
server, where the process really ends. A file receiver that is over is not one: boards
may go on, and the step `Quiet` stands for the thread that is no more.

What the runs do not say. `WindowEnforced` excepts the one case in which an expired
benchmark keeps the DUT: it was launched by the last app reboot there was, and sends for
ever but no iteration; see the dropped result under *Findings*. `OneApp` holds when each
kill command stops every benchmark; `machine_kill` has one for each. `RestKept` is checked
without interrupts: once the end of the server has released remote control, a machine's
OFF is refused by the supply, and a cut of the monitor that comes after it begins no
rest the machine knows of. `OwnAnswer` is about a supply that answers within the timeout
of the port: `SupplyLink` has answers that come later (the fault `late`), and with them it
does not hold, since the port is not flushed. `TripCutsPower` and `ErrorStopsMachines`
except an end of the server whose release of the supply fails (`EndFailed`), whatever it
was that began the end: its exception leaves the sequence before a machine is stopped, and
if it comes between the two telegrams of a shutoff the supply, without remote control,
denies the cut. `SavedFilesAreWhole` says nothing of the file at hand when the receiver
dies, which stays cut. `LeavesPortClosed` excepts a telegram that fails and an end that
comes before the controller is published; it is about the port and not about remote
control, which the monitor that nobody joins may take back before the port is closed. The
beam is checked with the LED of the board (`RealRasp`); with the stand-in of this commit
both monitors die of the first close.

## Fairness

- *Factory*: none. `EveryCommandServed` states its own premise, that expired windows keep
  being noticed by a request; the machine gives it in `WindowEnforced`.
- *Machine*: weak fairness of the thread: it is scheduled and every wait has a
  timeout. Strong fairness of `BootExpires`, since `__wait_for_booting` compares the
  clock with a fixed end and leaves its loop however often a ping comes first. The DUT,
  the window and `stop` are promised nothing. A switch that never answers (the request
  to the Lindy switch has no timeout) is outside the model.
- *Beam*: weak fairness of both monitors, of time, and of `Master.stop` once begun; of
  the transfer monitor only that its `accept` times out. None of the lock:
  `threading.Lock` is not fair, so `SilenceClosesBeam` excepts an operator that sends
  orders for ever, and a sender of beats for ever. None of a board: `StopJoins` excepts
  one that never ends a transfer.
- *File receiver*: weak fairness of the thread only, whose `accept` has a timeout. The
  accepted connection has none, and the boards and the network are promised nothing: in
  `StopEnds` a board that leaves out the rest of what it announced, silent or closed
  (`Starved`), is the one excuse of a stopped receiver that does not end.
- *Supply*: weak fairness of each thread and of the supply, and strong fairness of
  `Send`: the lock of the link comes to every thread that goes on asking, because those
  that take it again and again leave it free in between (the monitor sleeps after each
  poll, `power_monitor.py:112`; a machine waits for seconds after each command).
  `MaxFailures` bounds the telegrams that fail, without which nothing would be promised.
- *Server*: weak fairness of the start, of the display and of the threads that end the
  server or are told to end. The lock of the link and the join of the display are the
  only waits without a timeout. No thread is promised to die.

## What is proved

| Theorem | Says | Assumes | Rests on |
|---|---|---|---|
| `FactoryTypeCorrect`, `QueueAlwaysAccounts` | the type and `QueueAccountsForList` | lists not empty | `FactoryInv`, their conjunction |
| `FactoryImplementsRotation` | the factory implements `Rotation` | lists not empty | `FactoryInv`, and a lemma for each operation: a pop moves the position by one, a refill does not move it |
| `MachineImplementsFactory`, `MachineImplementsRotation` | every step of a machine is a step of its factory or leaves it alone, so that no failed launch or reboot moves the rotation | lists not empty | the step lemma, then the theorem on the factory |
| `RestartsAreBounded` | `restarts <= MaxAppReboots * (MaxOsReboots + 1)` | the types of the maxima | `ThreadInv` |
| `LateLoginsAreBounded` | one session at most after `stop` | the same | `ThreadInv` |
| `MachineTypeCorrect` | `MachineTypeOK` | the same | `ThreadInv`, `DutTypeOK`, `FactoryTypeCorrect` |
| `LogsAreEnded` | `EveryLogEnded` | no `disk` fault | `LogInv` |
| `DutIsNeverLeftOff` | `NeverLeftOff` | no `switch`, no `trip` | `PowerInv` |
| `CrashesAreEarly` | `CrashIsEarly` | no fault | `LogInv`, `CrashInv` |
| `AtMostOneApp` | `OneApp` | each kill stops all, no `silent` | `AppInv` |
| `BeamTypeCorrect`, `FlagAlwaysTellsPin` | the type and `FlagTellsPin` | `BeamAssumption` | the type; `LockInv` |
| `WatchingIsRecent` | `WatchingMeansRecent`, for any timeout, lag and room of the buffer | `BeamAssumption` | `BeamTypeOK`, `RecentInv` |
| `ReceiverTypeCorrect`, `SavedFilesAreAlwaysWhole` | the type and `SavedFilesAreWhole`, for any boards, files and faults | `ReceiverAssumption` | the type; `ContentInv` |
| `AnswersArePaired` | `OwnAnswer`, of any number of threads that ask anything | no `late` answer | `LinkInv` |
| `SupplyTypeCorrect`, `SupplyAnswersArePaired` | the type and `OwnAnswer` of the machines, the monitor and those that end the server, interrupts included | no `late` answer | `LinkInv`, `PointsInv`, `ControlInv` |
| `LoneMachineRests` | `RestKept` of a machine that is alone, whatever the monitor cuts and whatever telegrams fail | no `late` answer, one machine, no Control-C | `RestInv` |
| `SupplyImplementsLink` | `LinkSpec`: what the machines, the monitor and those that end the server do to the link is what any threads may do to it, with late answers too | one Control-C at most | `PointsInv`, `MainAsksNothing`, and a lemma that maps each step |
| `DamageIsFound` | one changed byte in a telegram of any length and content makes the checksum differ | nothing | the lemmas on `Sums` |
| `DamageIsAlwaysSeen`, `SettingsAlwaysReadBack`, `OcpAlwaysErrsLow` | `DamageIsSeen`, `SettingsReadBack`, `OcpErrsLow`, for any nominal values up to 255, any settings and any change of a byte | `DriverAssumption` | `DriverInv` |
| `FailedInitAlwaysReleases`, `OutputIsOnWhenSet` | `FailedInitReleases`, `OnOnlyWhenSet` | the same, and `SettingsFit`: the initial settings are within the nominal values | `DriverInv`, `ConstructorInv` |
| `MachinesAreMonitored` | `RunsMonitored`, for any number of machines and events | `ServerAssumption` | `Types`, `StartInv`, `MonitoredInv` |
| `EndMissesOneMachine` | `SweepMissesOne` | the same | `Types`, `StartInv`, `SweepInv` |
| `PortIsClosed` | `LeavesPortClosed` | the same | `Types`, `StartInv`, `ClosingInv` |

The arguments in short.

*Machine.* `RestartBudget` is not inductive: it speaks of one history counter, while three
reboots move two others. `Budget` in `ThreadInv` says that the restarts since good data
are at most `MaxAppReboots` for each OS reboot counted, plus the app reboots counted
now: an OS reboot resets one and advances the other, a power cycle resets all. It needs
`Control`, what each control point has checked already (inside a launch the app count
is below its maximum, inside an OS reboot the OS count is), since the checks and the
increments are many steps apart. `Late` says that a thread past its check of the stop
event has used none of its one late session. `LogInv` adds to `EveryLogEnded` that the
log at hand is not ended twice and that a launch without a status happens only while
there is no log. `PowerInv` is that the DUT is off only between OFF and ON. `CrashInv` is
that no garbled datagram waits in the socket. `AppInv` is that nothing runs between the
kill and the launch.

*Beam.* `LockInv` says that the thread inside `open_beam` or `close_beam` holds the lock
and has driven the pin its way. `RecentInv` bounds `quiet`, the true time since a
heartbeat came, while the monitor watches. The hard part is a heartbeat that waits in the
buffer while the monitor is busy and makes it watch later: `BufferRecent` says that the
datagram at place *i* of the buffer came while those before it were read, six points for
each, with a lag at each point; `OnTime` says that a monitor with nothing to read has no
lag.

*File receiver.* `ContentInv` adds to `SavedFilesAreWhole` what holds of the file at hand:
it is what its board sent from the first byte to `received`. No recv but those of the
header and the body takes from a stream, and the next file is opened after the last one
is closed.

*Supply.* `LinkInv` says that the thread that reads holds the lock and that the line and
the buffer together carry at most one telegram, of that thread. It is inductive for the
threads of `PowerSupply` because all they do to the link are its own operations
(`LinkKept` cites the lemma of each) but for the interrupt, which leaves a transfer in the
middle, the telegram on the line and the lock taken for ever (`InterruptKeeps`).
`RestKept` needs four more: a transfer is the one its thread is at (`AskInv`), so that a
telegram tells the point of its sender; the machines are told to stop after the port is
closed (`PortInv`), so that a rest cut short by stop is followed by no power; remote
control is only given away by a thread that is ending the server (`RemoteInv`), so that
an OFF the supply refuses means that the monitor is gone; and `DarkAt`: from the OFF that
was obeyed to the ON, either the output is off and has been since, or it is on and nobody
is left to switch it.

`SupplyImplementsLink` needs no `LinkInv`. Its one hard step is the interrupt, which is
no operation of the link: the first one finds the main thread asking nothing
(`MainAsksNothing`), and so is a stutter; a second one may find it in the middle of a
transfer.

*Driver.* The checksum is about sequences of any length. `Sums` is the sum after each
byte, a recursive function; what holds of it is proved by `Inductive`, that a set with 0
and with the successor of each of its members has all numbers, which follows from the
least number outside it. One changed byte changes every sum from its place on by its own
difference, or it is one of the two bytes of the checksum (`DamageIsFound`); a late answer
in front adds its sum, which is not 0 as it begins with a delimiter (`LateIsFound`). The
scaling is arithmetic: a division that is rounded errs by half a step at most
(`RoundedIsNear`). `DriverInv` makes this inductive: the words of the supply are `Word` of
what it was last asked and obeyed (`AskedInv`), the answer at hand is damaged or the word
of its object (`LastInv`), and nothing is set before the nominal values are known
(`KnownInv`). `ConstructorInv` says where in the constructor the port is open, that what
was sent in vain was followed by the release, and that the supply has obeyed what the
constructor is past. It needs `SettingsFit`: the supply refuses what is above its nominal
values, and the code does not look at what comes of it
(`power_controller.py:123-127`).

*Server.* `Types` are the points of each thread. `StartInv` ties the point of the main
thread to the controller and to the machines that are started: those in the list, and one
more between a start and its entry, where only an interrupt can leave it. `MonitoredInv`
says how far the start is, until an end begins. `SweepInv` says that an end of the main
thread that is at place *i* has stopped all before it; the list grows under other
threads' ends, not under its own. `ClosingInv` says that a thread past `close` has left
the port closed, and that the command monitor, without whose end the process does not
end, dies no other way.

The assumptions on constants are the `ASSUME`s of the modules; TLC evaluates each of
them in a run. An assumption on `Faults`, on the number of machines or of interrupts, or on
the initial settings is in the statement of the theorem.

What is model-checked only is all liveness (`EveryCommandServed`,
`WatchdogNeverGivesUp`, `StopTerminates`, `WindowEnforced`, `SilenceClosesBeam`,
`StopJoins`, `StopEnds`, `LinkIsFreed`, `TripCutsPower`,
`InterruptExits`, `ErrorStopsMachines`, `EndersFinish`, `InterruptWhenUpEnds`), which is
out of the prover's reach under fairness. Every invariant and every action property of
the runs that pass is stated by a theorem.

## Findings

Each of the first three is shown by the trace of a run.

- `machine_kill`: the kill command is taken from the factory after the rotation
  (`server/machine.py:214-223`), so it is that of the benchmark about to start: a window
  expires, the factory rotates, and the benchmark whose log is replaced is still alive.
- `supply_shared`: a machine rests without the lock, and the supply is one for all
  machines: another powers it during the rest.
- `server_interrupt`: Control-C during the start ends the main thread only. Nobody stops
  the command monitor of the local `Master`, which is no daemon (`server.py:142`).

Seen while modelling, and in the models where they belong, without a run of their own:

- At the end of a window the machine drops the result of the restart
  (`server/machine.py:155`). A benchmark launched by the last app reboot there was, that
  sends datagrams but no iteration, keeps the DUT: `KeepsDut` in `WindowEnforced`.
- The port is not flushed before a telegram (`ps2000.py:138`): a late answer is taken for
  that of the next one, of whichever thread.
- The end of the server shuts the controller down before it stops the machines
  (`server.py:41`); when that raises, on a failed telegram or because another thread has
  closed the port already, the sequence is left and no machine is stopped by it:
  `EndFailed` in `ErrorStopsMachines` and `TripCutsPower`.
- `_set_control` compares the first byte of the data of an answer with the object of its
  header (`ps2000.py:284-288`), so that it is never true, and `psu_switch` reports every
  command as failed (`reboot_machine.py:109`). The status reaches the log only.
- A query that the supply refuses answers with a verdict, which is read as the integer
  that was asked for.
- The threshold of the current is scaled by the nominal voltage and read back by the
  nominal current (`ps2000.py:250-256`). `OcpErrsLow` says when that is on the safe side.
- The driver is made outside the `try` whose `except` gives the supply back
  (`power_controller.py:69`).
- The display dies of a record that no handler has given a time, and of more lines than
  the screen has (`print_manager.py:53,65-71`), and so ends the server.
- A file shorter than announced whose board has closed its connection is waited for
  without end (`file_receiver.py:136`), and so is a board that falls silent: `Starved` in
  `StopEnds`, and the join of `Master.stop` in `StopJoins`.
- A separator in the first chunk of a file ends the receiver (`file_receiver.py:104`).
- The queue is called a FIFO and is popped from the end it is filled at: the last
  configuration is served first (`command_factory.py:25,58`). `Rotation` goes backwards.
- The count of hard reboots is compared with `>` before it is incremented, and so
  reaches one more than its maximum (`machine.py:335`); `MachineTypeOK` says so.
- Good data resets the counts of app and hard reboots and not that of OS reboots
  (`machine.py:143-147`).
- A power cycle whose launch fails leaves the log open, and it is later closed by
  another reason (`machine.py:236-240`).
- The stand-in for the LED has no `on` and no `off` (`beam_controller.py:14-19,62`), and
  `Master.shutdown_board` lacks an argument (`master.py:141`).
- A second interrupt during the first one's telegram waits for a lock that its own
  thread holds (`ps2000.py:128`, `server.py:79-87`): `LinkLost`.
- The power monitor is stopped and not joined: a shutoff under way takes the supply back
  into remote control after its release.
- An order to open the beam is obeyed whether or not heartbeats are watched.

## What is not modelled

- The text of logs, headers and messages; dates; the strings of a configuration.
- The bytes of a file, which are units told apart by their origin; the objects of the
  supply that are strings, and the decoding of `get_actual`, which `SupplyLink` takes as
  the limits that are exceeded.
- What the console draws, but for the lines that do not fit.
- `utils/`: numerical code, profilers and the binding of the log helper. There is no
  shared state and no step of two actors in it. `logging_utils.py` prints a message.
- The insides of the Lindy and common switches: a command succeeds, fails or raises.
- The configuration files: their intervals and maxima are the constants of the modules.
- Negative timeouts of the monitors of the board, with which `select` would wait for ever:
  the server configures none (`server.py:145-151`).

## Plan

What could still be added, the most useful first.

1. A refinement for the logs: which benchmark a line belongs to when datagrams wait in
   the socket over a restart.
2. `Beam` and `FileReceiver` composed under `Master.stop`, whose joins have an order.
3. `RestKept` with interrupts, for the rests that begin before the end of the server;
   and `Server` with the machines of `PowerSupply` in place of threads that only run.
