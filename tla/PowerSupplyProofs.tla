--------------------------- MODULE PowerSupplyProofs ---------------------------
(***************************************************************************)
(* The threads that share the supply, for any load and any number of       *)
(* telegrams that are lost or garbled.  What the threads do to the link    *)
(* keeps its invariant, so that they get the answers to their own          *)
(* telegrams here too, for any number of machines and of interrupts; but   *)
(* for a second interrupt they are threads of the link; and a machine that *)
(* is alone gets its power back after a whole rest without.                *)
(***************************************************************************)
EXTENDS PowerSupply, SupplyLinkProofs

Points == MachineCalls \cup {"rest", "run"} \cup MonitorCalls \cup {"check", "up"} \cup EndPoints \cup Over

MachinePoints == MachineCalls \cup {"rest", "run"} \cup EndPoints \cup Over
MonitorPoints == MonitorCalls \cup {"check"} \cup EndPoints \cup Over
MainPoints == {"up"} \cup EndPoints \cup Over

PointsInv ==
    /\ pc \in [Callers -> Points]
    /\ \A m \in Machines : pc[m] \in MachinePoints
    /\ pc[Monitor] \in MonitorPoints
    /\ pc[Main] \in MainPoints

\* A shutoff is under way for a limit that is exceeded.
ControlInv ==
    /\ globalLock \in Machines \cup {NoOne}
    /\ monitorStop \in BOOLEAN /\ stopped \subseteq Machines
    /\ tripped \in 0..2 /\ (pc[Monitor] \in {"seize", "cut"} => tripped > 0)
    /\ interrupts \in 0..MaxInterrupts
    /\ resting \subseteq Machines /\ rested \in BOOLEAN

-------------------------------------------------------------------------------
(* The link                                                                  *)

LEMMA CallersDiffer ==
    /\ Main \in Callers /\ Monitor \in Callers /\ Machines \subseteq Callers
    /\ Main # Monitor /\ Main \notin Machines /\ Monitor \notin Machines
    /\ \A t \in Callers : t \in Machines \/ t = Monitor \/ t = Main
BY SupplyAssumption DEF SupplyAssumption

LEMMA AsksAt ==
    ASSUME NEW point \in MachineCalls \cup MonitorCalls \cup {"release"}
    PROVE  AskAt(point) \in Asks
BY DEF MachineCalls, MonitorCalls, AskAt, Asks, Switching

\* The telegram of a handler that interrupts another stays on the line, with the lock.
LEMMA InterruptKeeps == LinkInv /\ Interrupt => LinkInv'
<1> SUFFICES ASSUME LinkInv, Interrupt PROVE LinkInv'
  OBVIOUS
<1> USE DEF LinkInv, LinkShape, line, supply
<1>0. /\ stage' = [stage EXCEPT ![Main] = "idle"]
      /\ ask' = [ask EXCEPT ![Main] = "actual"]
      /\ answer' = [answer EXCEPT ![Main] = Unanswered(Main)]
      /\ UNCHANGED <<transferLock, asked, buffer, portOpen, remote, output, excess, failures>>
  BY DEF Interrupt
<1>1. LinkShape'
  <2>1. "actual" \in Asks /\ "idle" \in Stages /\ Main \in Callers
    BY CallersDiffer DEF Asks, Stages
  <2>2. Unanswered(Main) \in Answers
    BY <2>1 DEF Answers, Unanswered
  <2> QED
    BY <1>0, <2>1, <2>2
<1>2. Holding'
  BY <1>0 DEF Holding
<1>3. LinePaired'
  <2> SUFFICES ASSUME NEW message, Belongs(message), message.to \in Callers PROVE Belongs(message)'
    BY <1>0, Senders DEF LinePaired
  <2> QED
    BY <1>0 DEF Belongs
<1>4. OwnAnswer'
  BY <1>0 DEF OwnAnswer
<1> QED
  BY <1>1, <1>2, <1>3, <1>4

LEMMA LinkKept ==
    ASSUME "late" \notin Faults, LinkInv, [Next]_vars
    PROVE  LinkInv'
<1> DEFINE Rest == UNCHANGED <<transferLock, line, supply, failures>>
<1>1. ASSUME NEW t \in Callers, NEW a \in Asks, Call(t, a), Rest PROVE LinkInv'
  BY <1>1, CallKeeps
<1>2. ASSUME NEW t \in Callers, Return(t), Rest PROVE LinkInv'
  BY <1>2, ReturnKeeps
<1>3. CASE Supplies \/ Loads
  BY <1>3, AnswersKeep, LoadKeeps DEF Supplies, Loads
<1>4. ASSUME NEW m \in Machines, Machine(m) PROVE LinkInv'
  <2>1. CASE MachineCommands(m)
    <3>1. Rest /\ pc[m] \in MachineCalls /\ Call(m, AskAt(pc[m])) /\ m \in Callers
      BY <2>1, CallersDiffer DEF MachineCommands
    <3> QED
      BY <1>1, <3>1, AsksAt
  <2>2. CASE MachineCommanded(m)
    <3>1. Rest /\ Return(m) /\ m \in Callers
      BY <2>2, CallersDiffer DEF MachineCommanded
    <3> QED
      BY <1>2, <3>1
  <2>3. CASE MachineRests(m) \/ MachineRuns(m)
    BY <2>3, LinkStutters DEF MachineRests, MachineRuns
  <2> QED
    BY <1>4, <2>1, <2>2, <2>3 DEF Machine
<1>5. CASE Monitors
  <2>0. Monitor \in Callers
    BY CallersDiffer
  <2>1. CASE MonitorAsks
    <3>1. CASE UNCHANGED transfers
      <4>1. UNCHANGED linkVars
        BY <2>1, <3>1 DEF MonitorAsks, linkVars
      <4> QED
        BY <4>1, LinkStutters
    <3>2. CASE Call(Monitor, AskAt(pc[Monitor]))
      <4>1. Rest /\ pc[Monitor] \in MonitorCalls
        BY <2>1 DEF MonitorAsks
      <4> QED
        BY <1>1, <2>0, <3>2, <4>1, AsksAt
    <3> QED
      BY <2>1, <3>1, <3>2 DEF MonitorAsks
  <2>2. CASE MonitorMeasures
    BY <1>2, <2>0, <2>2 DEF MonitorMeasures
  <2>3. CASE MonitorChecks
    BY <2>3, LinkStutters DEF MonitorChecks
  <2>4. CASE MonitorShutsOff
    BY <1>2, <2>0, <2>4 DEF MonitorShutsOff
  <2> QED
    BY <1>5, <2>1, <2>2, <2>3, <2>4 DEF Monitors
<1>6. CASE Interrupt
  BY <1>6, InterruptKeeps
<1>7. ASSUME NEW t \in Callers, Transfers(t) PROVE LinkInv'
  BY <1>7, SendKeeps, ReadKeeps DEF Transfers, Transfer
<1>8. ASSUME NEW t \in Callers, End(t) PROVE LinkInv'
  <2>1. CASE EndReleases(t)
    <3>1. Rest /\ Call(t, AskAt("release"))
      BY <2>1 DEF EndReleases
    <3> QED
      BY <1>1, <3>1, AsksAt
  <2>2. CASE EndReleased(t)
    BY <1>2, <2>2 DEF EndReleased
  <2>3. CASE EndCloses(t)
    BY <2>3, CloseKeeps DEF EndCloses
  <2>4. CASE EndMonitor(t) \/ EndMachines(t) \/ EndJoins(t)
    BY <2>4, LinkStutters DEF EndMonitor, EndMachines, EndJoins
  <2> QED
    BY <1>8, <2>1, <2>2, <2>3, <2>4 DEF End
<1>9. CASE UNCHANGED vars
  BY <1>9, LinkStutters DEF vars
<1> QED
  BY <1>3, <1>4, <1>5, <1>6, <1>7, <1>8, <1>9 DEF Next

-------------------------------------------------------------------------------
(* Control                                                                   *)

LEMMA PointsKept ==
    ASSUME PointsInv, [Next]_vars
    PROVE  PointsInv'
<1> USE DEF PointsInv
<1>1. ASSUME NEW m \in Machines, NEW p \in MachinePoints, Goto(m, p) PROVE PointsInv'
  <2>1. p \in Points /\ m \in Callers /\ m # Monitor /\ m # Main
    BY CallersDiffer DEF Points, MachinePoints
  <2> QED
    BY <1>1, <2>1, CallersDiffer DEF Goto
<1>2. ASSUME NEW p \in MonitorPoints, Goto(Monitor, p) PROVE PointsInv'
  <2>1. p \in Points
    BY DEF Points, MonitorPoints
  <2> QED
    BY <1>2, <2>1, CallersDiffer DEF Goto
<1>3. ASSUME NEW t \in Callers, NEW p \in EndPoints \cup Over, Goto(t, p) PROVE PointsInv'
  <2>1. p \in Points /\ p \in MachinePoints /\ p \in MonitorPoints /\ p \in MainPoints
    BY DEF Points, MachinePoints, MonitorPoints, MainPoints
  <2> QED
    BY <1>3, <2>1, CallersDiffer DEF Goto
<1>4. CASE UNCHANGED pc
  BY <1>4
<1>5. ASSUME NEW m \in Machines, Machine(m) PROVE PointsInv'
  <2>1. CASE MachineCommands(m)
    BY <1>4, <2>1 DEF MachineCommands
  <2>2. CASE MachineCommanded(m)
    <3>1. PICK p \in {"rest", "run", "stop monitor"} : Goto(m, p)
      BY <2>2 DEF MachineCommanded, NextOr
    <3>2. p \in MachinePoints
      BY <3>1 DEF MachinePoints, EndPoints
    <3> QED
      BY <1>1, <3>1, <3>2
  <2>3. CASE MachineRests(m)
    <3>1. Goto(m, "switch on") /\ "switch on" \in MachinePoints
      BY <2>3 DEF MachineRests, MachinePoints, MachineCalls
    <3> QED
      BY <1>1, <3>1
  <2>4. CASE MachineRuns(m)
    <3>1. PICK p \in {"ended", "switch off", "stop monitor"} : Goto(m, p)
      BY <2>4 DEF MachineRuns
    <3>2. p \in MachinePoints
      BY <3>1 DEF MachinePoints, MachineCalls, EndPoints, Over
    <3> QED
      BY <1>1, <3>1, <3>2
  <2> QED
    BY <1>5, <2>1, <2>2, <2>3, <2>4 DEF Machine
<1>6. CASE Monitors
  <2>1. PICK p \in {"ended", "check", "stop monitor", "seize", "poll", "cut"} : Goto(Monitor, p) \/ UNCHANGED pc
    BY <1>6 DEF Monitors, MonitorAsks, MonitorMeasures, MonitorChecks, MonitorShutsOff, NextOr
  <2>2. p \in MonitorPoints
    BY <2>1 DEF MonitorPoints, MonitorCalls, EndPoints, Over
  <2> QED
    BY <1>2, <1>4, <2>1, <2>2
<1>7. CASE Interrupt
  <2>1. Goto(Main, "stop monitor") /\ "stop monitor" \in EndPoints /\ Main \in Callers
    BY <1>7, CallersDiffer DEF Interrupt, EndPoints
  <2> QED
    BY <1>3, <2>1
<1>8. ASSUME NEW t \in Callers, End(t) PROVE PointsInv'
  <2>1. PICK p \in {"release", "aborted", "close", "stop machines", "join", "exited"} : Goto(t, p) \/ UNCHANGED pc
    BY <1>8 DEF End, EndMonitor, EndReleases, EndReleased, AfterRelease, EndCloses, EndMachines, EndJoins
  <2>2. p \in EndPoints \cup Over
    BY <2>1 DEF EndPoints, Over
  <2> QED
    BY <1>3, <1>4, <2>1, <2>2
<1>9. CASE Supplies \/ Loads \/ \E t \in Callers : Transfers(t)
  BY <1>4, <1>9 DEF Supplies, Loads, Transfers
<1>10. CASE UNCHANGED vars
  BY <1>4, <1>10 DEF vars
<1> QED
  BY <1>5, <1>6, <1>7, <1>8, <1>9, <1>10 DEF Next

LEMMA ControlKept ==
    ASSUME LinkInv, PointsInv, ControlInv, [Next]_vars
    PROVE  ControlInv'
<1>0. /\ globalLock \in Machines \cup {NoOne} /\ monitorStop \in BOOLEAN /\ stopped \subseteq Machines
      /\ tripped \in 0..2 /\ (pc[Monitor] \in {"seize", "cut"} => tripped > 0)
      /\ interrupts \in 0..MaxInterrupts /\ resting \subseteq Machines /\ rested \in BOOLEAN
  BY DEF ControlInv
<1>1. ASSUME NEW t \in Callers, t # Monitor, NEW p, Goto(t, p) PROVE pc'[Monitor] = pc[Monitor]
  BY <1>1, CallersDiffer DEF Goto, PointsInv
<1>2. ASSUME UNCHANGED tripped, pc'[Monitor] = pc[Monitor] \/ pc'[Monitor] \notin {"seize", "cut"}
      PROVE  tripped' \in 0..2 /\ (pc'[Monitor] \in {"seize", "cut"} => tripped' > 0)
  BY <1>0, <1>2
<1>3. ASSUME NEW m \in Machines, Machine(m) PROVE ControlInv'
  <2>1. m \in Callers /\ m # Monitor
    BY CallersDiffer
  <2>2. pc'[Monitor] = pc[Monitor]
    BY <1>1, <1>3, <2>1 DEF Machine, MachineCommands, MachineCommanded, MachineRests, MachineRuns
  <2>3. UNCHANGED <<monitorStop, stopped, tripped, interrupts>>
    BY <1>3 DEF Machine, MachineCommands, MachineCommanded, MachineRests, MachineRuns, control
  <2>4. globalLock' \in {globalLock, m, NoOne}
    BY <1>3 DEF Machine, MachineCommands, MachineCommanded, MachineRests, MachineRuns, control
  <2>5. resting' \subseteq resting \cup {m} /\ rested' \in BOOLEAN
    BY <1>0, <1>3 DEF Machine, MachineCommands, MachineCommanded, MachineRests, MachineRuns, rests
  <2> QED
    BY <1>0, <1>2, <2>2, <2>3, <2>4, <2>5 DEF ControlInv
<1>4. CASE Monitors
  <2>1. UNCHANGED <<globalLock, monitorStop, stopped, interrupts, resting, rested>>
    BY <1>4 DEF Monitors, MonitorAsks, MonitorMeasures, MonitorChecks, MonitorShutsOff, control, rests
  <2>2. ASSUME NEW p, Goto(Monitor, p) PROVE pc'[Monitor] = p
    BY <2>2, CallersDiffer DEF Goto, PointsInv
  <2>3. tripped' \in 0..2 /\ (pc'[Monitor] \in {"seize", "cut"} => tripped' > 0)
    <3>1. CASE MonitorAsks
      <4>1. UNCHANGED tripped /\ (Goto(Monitor, "ended") \/ UNCHANGED pc)
        BY <3>1 DEF MonitorAsks, control
      <4>2. pc'[Monitor] = "ended" \/ pc'[Monitor] = pc[Monitor]
        BY <2>2, <4>1
      <4> QED
        BY <1>2, <4>1, <4>2
    <3>2. CASE MonitorMeasures
      <4>1. Goto(Monitor, "check") \/ Goto(Monitor, "stop monitor")
        BY <3>2 DEF MonitorMeasures
      <4>2. pc'[Monitor] \notin {"seize", "cut"}
        BY <2>2, <4>1
      <4>3. tripped' = answer[Monitor].excess \/ tripped' = tripped
        BY <3>2 DEF MonitorMeasures, Trips
      <4>4. answer[Monitor].excess \in 0..2
        BY CallersDiffer DEF LinkInv, LinkShape, Answers
      <4> QED
        BY <1>0, <4>2, <4>3, <4>4
    <3>3. CASE MonitorChecks
      <4>1. UNCHANGED tripped /\ Goto(Monitor, IF tripped > 0 THEN "seize" ELSE "poll")
        BY <3>3 DEF MonitorChecks, control
      <4>2. pc'[Monitor] = IF tripped > 0 THEN "seize" ELSE "poll"
        BY <2>2, <4>1
      <4> QED
        BY <1>0, <4>1, <4>2
    <3>4. CASE MonitorShutsOff
      <4>1. CASE pc[Monitor] = "cut"
        <5>1. tripped' = tripped - 1 /\ (Goto(Monitor, "check") \/ Goto(Monitor, "stop monitor"))
          BY <3>4, <4>1 DEF MonitorShutsOff, NextOr
        <5>2. pc'[Monitor] \notin {"seize", "cut"}
          BY <2>2, <5>1
        <5>3. tripped > 0 /\ tripped \in 0..2
          BY <1>0, <4>1
        <5>4. tripped' \in 0..2
          <6>1. tripped' = tripped - 1
            BY <5>1
          <6>2. tripped - 1 \in 0..2
            BY <5>3
          <6> QED
            BY <6>1, <6>2
        <5> QED
          BY <5>2, <5>4
      <4>2. CASE pc[Monitor] = "seize"
        <5>1. UNCHANGED tripped
          BY <3>4, <4>2 DEF MonitorShutsOff
        <5> QED
          BY <1>0, <4>2, <5>1
      <4> QED
        BY <3>4, <4>1, <4>2 DEF MonitorShutsOff
    <3> QED
      BY <1>4, <3>1, <3>2, <3>3, <3>4 DEF Monitors
  <2> QED
    BY <1>0, <2>1, <2>3 DEF ControlInv
<1>5. CASE Interrupt
  <2>1. /\ UNCHANGED <<globalLock, monitorStop, stopped, tripped, resting, rested>>
        /\ pc'[Monitor] = pc[Monitor]
    BY <1>1, <1>5, CallersDiffer DEF Interrupt, rests
  <2>2. interrupts' \in 0..MaxInterrupts
    <3>1. interrupts < MaxInterrupts /\ interrupts' = interrupts + 1
      BY <1>5 DEF Interrupt
    <3> QED
      BY <1>0, <3>1, SupplyAssumption DEF SupplyAssumption
  <2> QED
    BY <1>0, <1>2, <2>1, <2>2 DEF ControlInv
<1>6. ASSUME NEW t \in Callers, End(t) PROVE ControlInv'
  <2>1. UNCHANGED <<globalLock, tripped, interrupts, resting, rested>>
    BY <1>6 DEF End, EndMonitor, EndReleases, EndReleased, EndCloses, EndMachines, EndJoins, control, rests
  <2>2. monitorStop' \in {monitorStop, TRUE} /\ stopped' \in {stopped, Machines}
    BY <1>6 DEF End, EndMonitor, EndReleases, EndReleased, EndCloses, EndMachines, EndJoins, control
  <2>3. PICK p \in {"release", "aborted", "close", "stop machines", "join", "exited"} : Goto(t, p) \/ UNCHANGED pc
    BY <1>6 DEF End, EndMonitor, EndReleases, EndReleased, AfterRelease, EndCloses, EndMachines, EndJoins
  <2>4. pc'[Monitor] = pc[Monitor] \/ pc'[Monitor] = p
    BY <1>1, <2>3, CallersDiffer DEF Goto, PointsInv
  <2>5. tripped' \in 0..2 /\ (pc'[Monitor] \in {"seize", "cut"} => tripped' > 0)
    BY <1>2, <2>1, <2>3, <2>4
  <2> QED
    BY <1>0, <2>1, <2>2, <2>5 DEF ControlInv
<1>7. CASE Supplies
  <2>1. UNCHANGED <<pc, globalLock, monitorStop, stopped, tripped, interrupts>>
    BY <1>7 DEF Supplies, control
  <2>2. resting' \in {resting, {}} /\ rested' \in {rested, FALSE}
    BY <1>7 DEF Supplies, rests
  <2> QED
    BY <1>0, <2>1, <2>2 DEF ControlInv
<1>8. CASE Loads \/ (\E t \in Callers : Transfers(t)) \/ UNCHANGED vars
  <2>1. UNCHANGED <<pc, globalLock, monitorStop, stopped, tripped, interrupts, resting, rested>>
    BY <1>8 DEF Loads, Transfers, vars, control, rests
  <2> QED
    BY <1>0, <2>1 DEF ControlInv
<1> QED
  BY <1>3, <1>4, <1>5, <1>6, <1>7, <1>8 DEF Next

LEMMA SupplyInitial == Init => LinkInv /\ PointsInv /\ ControlInv
<1> SUFFICES ASSUME Init PROVE LinkInv /\ PointsInv /\ ControlInv
  OBVIOUS
<1>1. LinkInv
  BY LinkInitial DEF Init
<1>2. PointsInv
  <2>1. /\ "up" \in Points /\ "poll" \in Points /\ "turn on" \in Points
        /\ "turn on" \in MachinePoints /\ "poll" \in MonitorPoints /\ "up" \in MainPoints
    BY DEF Points, MachinePoints, MonitorPoints, MainPoints, MachineCalls, MonitorCalls
  <2>2. pc = [t \in Callers |-> CASE t = Main -> "up" [] t = Monitor -> "poll" [] OTHER -> "turn on"]
    BY DEF Init
  <2>3. pc[Main] = "up" /\ pc[Monitor] = "poll" /\ \A m \in Machines : pc[m] = "turn on"
    BY <2>2, CallersDiffer
  <2>4. \A t \in Callers : pc[t] \in Points
    BY <2>1, <2>3, CallersDiffer
  <2>5. pc \in [Callers -> Points]
    BY <2>2, <2>4
  <2> QED
    BY <2>1, <2>3, <2>5 DEF PointsInv
<1>3. ControlInv
  <2>1. pc[Monitor] = "poll"
    BY CallersDiffer DEF Init
  <2>2. 0 \in 0..2 /\ 0 \in 0..MaxInterrupts
    BY SupplyAssumption DEF SupplyAssumption
  <2>3. /\ globalLock = NoOne /\ monitorStop = FALSE /\ stopped = {}
        /\ tripped = 0 /\ interrupts = 0 /\ resting = {} /\ rested = TRUE
    BY DEF Init
  <2> QED
    BY <2>1, <2>2, <2>3 DEF ControlInv
<1> QED
  BY <1>1, <1>2, <1>3

\* Each thread stays at its own points, the global lock is that of a machine, and
\* no shutoff is made for a limit that is not exceeded.
THEOREM SupplyTypeCorrect ==
    ASSUME "late" \notin Faults
    PROVE  SafeSpec => []SupplyTypeOK
<1>1. LinkInv /\ PointsInv /\ ControlInv /\ [Next]_vars => (LinkInv /\ PointsInv /\ ControlInv)'
  BY LinkKept, PointsKept, ControlKept
<1>2. LinkInv /\ PointsInv /\ ControlInv => SupplyTypeOK
  <2> SUFFICES ASSUME LinkInv, PointsInv, ControlInv PROVE SupplyTypeOK
    OBVIOUS
  <2>1. LinkTypeOK
    <3>1. Len(asked) \in Nat /\ Len(buffer) \in Nat /\ Len(asked) + Len(buffer) <= 1
      BY DEF LinkInv, LinkShape
    <3>2. Len(asked) <= Behind + 1 /\ Len(buffer) <= Behind + 1
      BY <3>1, LinkAssumption DEF LinkAssumption
    <3> QED
      BY <3>2 DEF LinkInv, LinkShape, LinkTypeOK, Telegrams
  <2> QED
    BY <2>1 DEF SupplyTypeOK, PointsInv, ControlInv, MachinePoints, MonitorPoints, MainPoints
<1> QED
  BY SupplyInitial, <1>1, <1>2, PTL DEF SafeSpec

\* Among the machines, the monitor and those that end the server, interrupted in a
\* transfer or not, every thread gets the answer to its own telegram
\* (ps2000.py:116-164).
THEOREM SupplyAnswersArePaired ==
    ASSUME "late" \notin Faults
    PROVE  SafeSpec => []OwnAnswer
<1>1. LinkInv /\ PointsInv /\ ControlInv /\ [Next]_vars => (LinkInv /\ PointsInv /\ ControlInv)'
  BY LinkKept, PointsKept, ControlKept
<1>2. LinkInv => OwnAnswer
  BY DEF LinkInv
<1> QED
  BY SupplyInitial, <1>1, <1>2, PTL DEF SafeSpec

-------------------------------------------------------------------------------
(* The threads of the server are threads of the link                         *)

AreFunctions ==
    /\ stage = [t \in Callers |-> stage[t]]
    /\ ask = [t \in Callers |-> ask[t]]
    /\ answer = [t \in Callers |-> answer[t]]

\* Until it is interrupted the main thread asks nothing.
MainAsksNothing ==
    /\ interrupts \in Nat
    /\ interrupts = 0 =>
           /\ pc[Main] = "up" /\ stage[Main] = "idle"
           /\ ask[Main] = "actual" /\ answer[Main] = Unanswered(Main)

\* Whatever a thread does to the link is an operation of the link, but for an
\* interrupt in the middle of one.
LEMMA LinkStepInSupply ==
    ASSUME [Next]_vars, ~Interrupt \/ UNCHANGED linkVars
    PROVE  [LinkNext]_linkVars
<1> DEFINE Rest == UNCHANGED <<transferLock, line, supply, failures>>
<1>1. ASSUME NEW t \in Callers, NEW a \in Asks, Call(t, a), Rest PROVE LinkNext
  BY <1>1 DEF LinkNext
<1>2. ASSUME NEW t \in Callers, Return(t), Rest PROVE LinkNext
  BY <1>2 DEF LinkNext
<1>3. CASE UNCHANGED linkVars
  BY <1>3
<1>4. ASSUME NEW m \in Machines, Machine(m) PROVE [LinkNext]_linkVars
  <2>0. m \in Callers
    BY CallersDiffer
  <2>1. CASE MachineCommands(m)
    <3>1. Rest /\ pc[m] \in MachineCalls /\ Call(m, AskAt(pc[m]))
      BY <2>1 DEF MachineCommands
    <3> QED
      BY <1>1, <2>0, <3>1, AsksAt
  <2>2. CASE MachineCommanded(m)
    BY <1>2, <2>0, <2>2 DEF MachineCommanded
  <2>3. CASE MachineRests(m) \/ MachineRuns(m)
    BY <1>3, <2>3 DEF MachineRests, MachineRuns
  <2> QED
    BY <1>4, <2>1, <2>2, <2>3 DEF Machine
<1>5. CASE Monitors
  <2>0. Monitor \in Callers
    BY CallersDiffer
  <2>1. CASE MonitorAsks
    <3>1. CASE UNCHANGED transfers
      <4>1. UNCHANGED linkVars
        BY <2>1, <3>1 DEF MonitorAsks, linkVars
      <4> QED
        BY <1>3, <4>1
    <3>2. CASE Call(Monitor, AskAt(pc[Monitor]))
      <4>1. Rest /\ pc[Monitor] \in MonitorCalls
        BY <2>1 DEF MonitorAsks
      <4> QED
        BY <1>1, <2>0, <3>2, <4>1, AsksAt
    <3> QED
      BY <2>1, <3>1, <3>2 DEF MonitorAsks
  <2>2. CASE MonitorMeasures
    BY <1>2, <2>0, <2>2 DEF MonitorMeasures
  <2>3. CASE MonitorChecks
    BY <1>3, <2>3 DEF MonitorChecks
  <2>4. CASE MonitorShutsOff
    BY <1>2, <2>0, <2>4 DEF MonitorShutsOff
  <2> QED
    BY <1>5, <2>1, <2>2, <2>3, <2>4 DEF Monitors
<1>6. ASSUME NEW t \in Callers, End(t) PROVE [LinkNext]_linkVars
  <2>1. CASE EndReleases(t)
    <3>1. Rest /\ Call(t, AskAt("release"))
      BY <2>1 DEF EndReleases
    <3> QED
      BY <1>1, <3>1, AsksAt
  <2>2. CASE EndReleased(t)
    BY <1>2, <2>2 DEF EndReleased
  <2>3. CASE EndCloses(t)
    BY <2>3 DEF EndCloses, LinkNext
  <2>4. CASE EndMonitor(t) \/ EndMachines(t) \/ EndJoins(t)
    BY <1>3, <2>4 DEF EndMonitor, EndMachines, EndJoins
  <2> QED
    BY <1>6, <2>1, <2>2, <2>3, <2>4 DEF End
<1>7. CASE Supplies \/ Loads \/ \E t \in Callers : Transfers(t)
  BY <1>7 DEF Supplies, Loads, Transfers, LinkNext
<1>8. CASE UNCHANGED vars
  BY <1>3, <1>8 DEF vars
<1> QED
  BY <1>3, <1>4, <1>5, <1>6, <1>7, <1>8 DEF Next

LEMMA FunctionsKept ==
    ASSUME AreFunctions, [LinkNext]_linkVars
    PROVE  AreFunctions'
<1>1. CASE UNCHANGED transfers
  BY <1>1, Zenon DEF AreFunctions, transfers
<1>2. ASSUME NEW t \in Callers, NEW a \in Asks, Call(t, a) PROVE AreFunctions'
  BY <1>2 DEF Call, AreFunctions
<1>3. ASSUME NEW t \in Callers, Return(t) PROVE AreFunctions'
  BY <1>3 DEF Return, AreFunctions
<1>4. ASSUME NEW t \in Callers, Send(t) PROVE AreFunctions'
  <2>1. /\ stage' = [stage EXCEPT ![t] = "read"] \/ stage' = [stage EXCEPT ![t] = "raised"]
        /\ UNCHANGED <<ask, answer>>
    BY <1>4 DEF Send
  <2> QED
    BY <2>1 DEF AreFunctions
<1>5. ASSUME NEW t \in Callers, Read(t) PROVE AreFunctions'
  <2>1. /\ stage' = [stage EXCEPT ![t] = "returned"] \/ stage' = [stage EXCEPT ![t] = "raised"]
        /\ answer' = [answer EXCEPT ![t] = buffer[1]] \/ UNCHANGED answer
        /\ UNCHANGED ask
    BY <1>5 DEF Read
  <2> QED
    BY <2>1 DEF AreFunctions
<1>6. CASE Close \/ SupplyAnswers \/ LoadChanges
  BY <1>1, <1>6 DEF Close, SupplyAnswers, LoadChanges
<1> QED
  BY <1>1, <1>2, <1>3, <1>4, <1>5, <1>6 DEF LinkNext, Transfer, linkVars

\* The first interrupt finds the main thread waiting for the end.
LEMMA FirstInterrupt ==
    ASSUME MaxInterrupts <= 1, AreFunctions, MainAsksNothing, Interrupt
    PROVE  UNCHANGED linkVars
<1>1. interrupts = 0
  <2>1. interrupts \in Nat /\ interrupts < MaxInterrupts /\ MaxInterrupts \in Nat
    BY SupplyAssumption DEF SupplyAssumption, MainAsksNothing, Interrupt
  <2> QED
    BY <2>1
<1>2. stage[Main] = "idle" /\ ask[Main] = "actual" /\ answer[Main] = Unanswered(Main)
  BY <1>1 DEF MainAsksNothing
<1>3. UNCHANGED transfers
  BY <1>2, CallersDiffer DEF Interrupt, AreFunctions, transfers
<1> QED
  BY <1>3 DEF Interrupt, linkVars, line, supply

LEMMA MainAsksNothingKept ==
    ASSUME PointsInv, AreFunctions, MainAsksNothing, [Next]_vars
    PROVE  MainAsksNothing'
<1> DEFINE Waits == /\ pc[Main] = "up" /\ stage[Main] = "idle"
                    /\ ask[Main] = "actual" /\ answer[Main] = Unanswered(Main)
<1>1. ASSUME NEW t \in Callers, t # Main, NEW p, Goto(t, p) PROVE pc'[Main] = pc[Main]
  BY <1>1, CallersDiffer DEF Goto, PointsInv
<1>2. ASSUME NEW t \in Callers, t # Main, Return(t) \/ Send(t) \/ Read(t) \/ \E a : Call(t, a)
      PROVE  stage'[Main] = stage[Main] /\ ask'[Main] = ask[Main] /\ answer'[Main] = answer[Main]
  BY <1>2, CallersDiffer DEF Call, Return, Send, Read, AreFunctions
<1>3. ASSUME Waits, pc'[Main] = pc[Main],
             UNCHANGED interrupts, stage'[Main] = stage[Main], ask'[Main] = ask[Main], answer'[Main] = answer[Main]
      PROVE  MainAsksNothing'
  BY <1>3 DEF MainAsksNothing, Unanswered
<1>4. CASE Interrupt
  <2>1. interrupts' = interrupts + 1 /\ interrupts \in Nat
    BY <1>4, SupplyAssumption DEF Interrupt, MainAsksNothing, SupplyAssumption
  <2>2. interrupts' # 0 /\ interrupts' \in Nat
    BY <2>1
  <2> QED
    BY <2>2 DEF MainAsksNothing
<1>5. UNCHANGED interrupts \/ Interrupt
  BY DEF Next, Supplies, Loads, Machine, MachineCommands, MachineCommanded, MachineRests, MachineRuns,
         Monitors, MonitorAsks, MonitorMeasures, MonitorChecks, MonitorShutsOff, Transfers, End,
         EndMonitor, EndReleases, EndReleased, EndCloses, EndMachines, EndJoins, control, vars
<1>6. CASE Waits /\ ~Interrupt
  <2>1. ASSUME NEW m \in Machines, Machine(m) PROVE MainAsksNothing'
    <3>1. m \in Callers /\ m # Main
      BY CallersDiffer
    <3>2. pc'[Main] = pc[Main]
      BY <1>1, <2>1, <3>1 DEF Machine, MachineCommands, MachineCommanded, MachineRests, MachineRuns
    <3>3. (\E a : Call(m, a)) \/ Return(m) \/ UNCHANGED <<stage, ask, answer>>
      BY <2>1 DEF Machine, MachineCommands, MachineCommanded, MachineRests, MachineRuns, linkVars, transfers
    <3> QED
      BY <1>2, <1>3, <1>5, <1>6, <3>1, <3>2, <3>3
  <2>2. CASE Monitors
    <3>1. Monitor \in Callers /\ Monitor # Main
      BY CallersDiffer
    <3>2. pc'[Main] = pc[Main]
      BY <1>1, <2>2, <3>1 DEF Monitors, MonitorAsks, MonitorMeasures, MonitorChecks, MonitorShutsOff
    <3>3. (\E a : Call(Monitor, a)) \/ Return(Monitor) \/ UNCHANGED <<stage, ask, answer>>
      BY <2>2 DEF Monitors, MonitorAsks, MonitorMeasures, MonitorChecks, MonitorShutsOff, linkVars, transfers
    <3> QED
      BY <1>2, <1>3, <1>5, <1>6, <3>1, <3>2, <3>3
  <2>3. ASSUME NEW t \in Callers, End(t) PROVE MainAsksNothing'
    <3>1. t # Main
      BY <1>6, <2>3 DEF End, EndMonitor, EndReleases, EndReleased, EndCloses, EndMachines, EndJoins
    <3>2. pc'[Main] = pc[Main]
      BY <1>1, <2>3, <3>1 DEF End, EndMonitor, EndReleases, EndReleased, EndCloses, EndMachines, EndJoins
    <3>3. (\E a : Call(t, a)) \/ Return(t) \/ UNCHANGED <<stage, ask, answer>>
      BY <2>3 DEF End, EndMonitor, EndReleases, EndReleased, EndCloses, EndMachines, EndJoins, Close,
                  linkVars, transfers
    <3> QED
      BY <1>2, <1>3, <1>5, <1>6, <3>1, <3>2, <3>3
  <2>4. ASSUME NEW t \in Callers, Transfers(t) PROVE MainAsksNothing'
    <3>1. t # Main
      BY <1>6, <2>4 DEF Transfers, Transfer, Send, Read
    <3> QED
      BY <1>2, <1>3, <1>5, <1>6, <2>4, <3>1 DEF Transfers, Transfer
  <2>5. CASE Supplies \/ Loads \/ UNCHANGED vars
    <3>1. UNCHANGED <<pc, stage, ask, answer>>
      BY <2>5 DEF Supplies, Loads, SupplyAnswers, LoadChanges, vars, linkVars, transfers
    <3> QED
      BY <1>3, <1>5, <1>6, <3>1
  <2> QED
    BY <1>6, <2>1, <2>2, <2>3, <2>4, <2>5 DEF Next
<1>7. CASE interrupts # 0 /\ ~Interrupt
  BY <1>5, <1>7 DEF MainAsksNothing
<1> QED
  BY <1>4, <1>6, <1>7 DEF MainAsksNothing

\* The machines, the monitor and those that end the server use the driver as the
\* link lets any threads use it, with answers that are late, lost or garbled, and an
\* interrupt included: all that holds of the link holds of them (reboot_machine.py,
\* power_monitor.py, server.py:27-50).  A second interrupt may leave a transfer in
\* the middle, which no thread of the link does.
THEOREM SupplyImplementsLink ==
    ASSUME MaxInterrupts <= 1
    PROVE  SafeSpec => LinkSpec
<1> DEFINE Inv == PointsInv /\ AreFunctions /\ MainAsksNothing
<1>1. Init => Inv /\ LinkInit
  <2> SUFFICES ASSUME Init PROVE Inv /\ LinkInit
    OBVIOUS
  <2>1. LinkInit
    BY DEF Init
  <2>2. PointsInv
    BY SupplyInitial
  <2>3. AreFunctions
    BY <2>1 DEF LinkInit, AreFunctions
  <2>4. MainAsksNothing
    BY <2>1, CallersDiffer DEF Init, LinkInit, MainAsksNothing
  <2> QED
    BY <2>1, <2>2, <2>3, <2>4
<1>2. Inv /\ [Next]_vars => Inv' /\ [LinkNext]_linkVars
  <2> SUFFICES ASSUME Inv, [Next]_vars PROVE Inv' /\ [LinkNext]_linkVars
    OBVIOUS
  <2>1. [LinkNext]_linkVars
    BY LinkStepInSupply, FirstInterrupt
  <2> QED
    BY <2>1, PointsKept, FunctionsKept, MainAsksNothingKept
<1> QED
  BY <1>1, <1>2, PTL DEF SafeSpec, LinkSpec

-------------------------------------------------------------------------------
(* The rest of a power cycle                                                 *)

CallPoints == MachineCalls \cup MonitorCalls \cup {"release"}
Gone(t) == pc[t] \in EndPoints \cup Over

\* A transfer is one that its thread is at, and the holder of the lock reads.
AskInv ==
    /\ \A t \in Callers : stage[t] # "idle" => pc[t] \in CallPoints /\ ask[t] = AskAt(pc[t])
    /\ transferLock # NoOne => stage[transferLock] = "read"

\* The machines are told to stop after the port is closed.
PortInv ==
    /\ \A t \in Callers : pc[t] \in {"stop machines", "join"} => ~portOpen
    /\ stopped # {} => ~portOpen

\* Without Control-C main goes on waiting.
MainUp == pc[Main] = "up" /\ interrupts = 0

LEMMA MainStaysUp ==
    ASSUME MaxInterrupts = 0, PointsInv, MainUp, [Next]_vars
    PROVE  MainUp'
<1>1. ~Interrupt
  BY DEF Interrupt, MainUp
<1>2. ASSUME NEW t \in Callers, t # Main, NEW p, Goto(t, p) PROVE pc'[Main] = pc[Main]
  BY <1>2, CallersDiffer DEF Goto, PointsInv
<1>3. ASSUME NEW m \in Machines, Machine(m) PROVE MainUp'
  <2>1. m \in Callers /\ m # Main
    BY CallersDiffer
  <2> QED
    BY <1>2, <1>3, <2>1
    DEF Machine, MachineCommands, MachineCommanded, MachineRests, MachineRuns, control, MainUp
<1>4. CASE Monitors
  <2>1. Monitor \in Callers /\ Monitor # Main
    BY CallersDiffer
  <2> QED
    BY <1>2, <1>4, <2>1
    DEF Monitors, MonitorAsks, MonitorMeasures, MonitorChecks, MonitorShutsOff, control, MainUp
<1>5. ASSUME NEW t \in Callers, End(t) PROVE MainUp'
  <2>1. t # Main
    BY <1>5 DEF End, EndMonitor, EndReleases, EndReleased, EndCloses, EndMachines, EndJoins, MainUp
  <2> QED
    BY <1>2, <1>5, <2>1
    DEF End, EndMonitor, EndReleases, EndReleased, EndCloses, EndMachines, EndJoins, control, MainUp
<1>6. CASE Supplies \/ Loads \/ (\E t \in Callers : Transfers(t)) \/ UNCHANGED vars
  BY <1>6 DEF Supplies, Loads, Transfers, vars, control, MainUp
<1> QED
  BY <1>1, <1>3, <1>4, <1>5, <1>6 DEF Next

LEMMA GoneStays ==
    ASSUME PointsInv, [Next]_vars, NEW u \in Callers, Gone(u)
    PROVE  Gone(u)'
<1>0. /\ pc \in [Callers -> Points] /\ pc[u] \in EndPoints \cup Over
      /\ pc[u] \notin MachineCalls \cup MonitorCalls \cup {"rest", "run", "check"}
  BY DEF PointsInv, Gone, EndPoints, Over, MachineCalls, MonitorCalls
<1>1. ASSUME NEW t \in Callers, NEW p, Goto(t, p), t # u \/ p \in EndPoints \cup Over PROVE Gone(u)'
  BY <1>0, <1>1 DEF Goto, Gone
<1>2. CASE UNCHANGED pc
  BY <1>0, <1>2 DEF Gone
<1>3. ASSUME NEW m \in Machines, Machine(m) PROVE Gone(u)'
  <2>1. m # u /\ m \in Callers
    BY <1>0, <1>3, CallersDiffer DEF Machine, MachineCommands, MachineCommanded, MachineRests, MachineRuns
  <2> QED
    BY <1>1, <1>2, <1>3, <2>1 DEF Machine, MachineCommands, MachineCommanded, MachineRests, MachineRuns
<1>4. CASE Monitors
  <2>1. Monitor # u /\ Monitor \in Callers
    BY <1>0, <1>4, CallersDiffer
    DEF Monitors, MonitorAsks, MonitorMeasures, MonitorChecks, MonitorShutsOff, MonitorCalls
  <2> QED
    BY <1>1, <1>2, <1>4, <2>1 DEF Monitors, MonitorAsks, MonitorMeasures, MonitorChecks, MonitorShutsOff
<1>5. CASE Interrupt
  <2>1. Goto(Main, "stop monitor") /\ "stop monitor" \in EndPoints /\ Main \in Callers
    BY <1>5, CallersDiffer DEF Interrupt, EndPoints
  <2> QED
    BY <1>1, <2>1
<1>6. ASSUME NEW t \in Callers, End(t) PROVE Gone(u)'
  <2>1. PICK p \in {"release", "aborted", "close", "stop machines", "join", "exited"} : Goto(t, p) \/ UNCHANGED pc
    BY <1>6 DEF End, EndMonitor, EndReleases, EndReleased, AfterRelease, EndCloses, EndMachines, EndJoins
  <2>2. p \in EndPoints \cup Over
    BY <2>1 DEF EndPoints, Over
  <2> QED
    BY <1>1, <1>2, <2>1, <2>2
<1>7. CASE Supplies \/ Loads \/ (\E t \in Callers : Transfers(t)) \/ UNCHANGED vars
  BY <1>2, <1>7 DEF Supplies, Loads, Transfers, vars
<1> QED
  BY <1>3, <1>4, <1>5, <1>6, <1>7 DEF Next

LEMMA AsksKept ==
    ASSUME LinkInv, PointsInv, AskInv, MaxInterrupts = 0, MainUp, [Next]_vars
    PROVE  AskInv'
<1>0. /\ pc \in [Callers -> Points] /\ stage \in [Callers -> Stages] /\ ask \in [Callers -> Asks]
      /\ transferLock \in Callers \cup {NoOne} /\ NoOne \notin Callers
      /\ \A t \in Callers : stage[t] # "idle" => pc[t] \in CallPoints /\ ask[t] = AskAt(pc[t])
      /\ transferLock # NoOne => stage[transferLock] = "read"
  BY LinkAssumption DEF LinkInv, LinkShape, PointsInv, AskInv, LinkAssumption
<1>1. ASSUME NEW t \in Callers, pc[t] \in CallPoints, Call(t, AskAt(pc[t])), UNCHANGED <<pc, transferLock>>
      PROVE  AskInv'
  BY <1>0, <1>1 DEF Call, AskInv
<1>2. ASSUME NEW t \in Callers, NEW p, Return(t), Goto(t, p), UNCHANGED transferLock
      PROVE  AskInv'
  BY <1>0, <1>2 DEF Return, Goto, AskInv
<1>3. ASSUME NEW t \in Callers, NEW p, stage[t] = "idle", Goto(t, p), UNCHANGED <<transfers, transferLock>>
      PROVE  AskInv'
  BY <1>0, <1>3 DEF Goto, AskInv, transfers
<1>4. ASSUME UNCHANGED <<pc, transfers, transferLock>> PROVE AskInv'
  BY <1>0, <1>4 DEF AskInv, transfers
<1>5. ASSUME NEW t \in Callers, pc[t] \in {"rest", "run", "check", "stop monitor", "close", "stop machines", "join"}
      PROVE  stage[t] = "idle"
  BY <1>0, <1>5 DEF CallPoints, MachineCalls, MonitorCalls
<1>6. ASSUME NEW m \in Machines, Machine(m) PROVE AskInv'
  <2>0. m \in Callers
    BY CallersDiffer
  <2>1. CASE MachineCommands(m)
    BY <1>1, <2>0, <2>1 DEF MachineCommands, CallPoints
  <2>2. CASE MachineCommanded(m)
    BY <1>2, <2>0, <2>2 DEF MachineCommanded
  <2>3. CASE MachineRests(m) \/ MachineRuns(m)
    <3>1. stage[m] = "idle"
      BY <1>5, <2>0, <2>3 DEF MachineRests, MachineRuns
    <3> QED
      BY <1>3, <2>0, <2>3, <3>1 DEF MachineRests, MachineRuns, linkVars
  <2> QED
    BY <1>6, <2>1, <2>2, <2>3 DEF Machine
<1>7. CASE Monitors
  <2>0. Monitor \in Callers
    BY CallersDiffer
  <2>1. CASE MonitorAsks
    <3>1. UNCHANGED transferLock /\ pc[Monitor] \in CallPoints
      BY <2>1 DEF MonitorAsks, CallPoints
    <3>2. \/ Goto(Monitor, "ended") /\ stage[Monitor] = "idle" /\ UNCHANGED transfers
          \/ Call(Monitor, AskAt(pc[Monitor])) /\ UNCHANGED pc
      BY <2>1 DEF MonitorAsks
    <3> QED
      BY <1>1, <1>3, <2>0, <3>1, <3>2
  <2>2. CASE MonitorMeasures \/ MonitorShutsOff
    BY <1>2, <2>0, <2>2 DEF MonitorMeasures, MonitorShutsOff
  <2>3. CASE MonitorChecks
    BY <1>3, <1>5, <2>0, <2>3 DEF MonitorChecks, linkVars
  <2> QED
    BY <1>7, <2>1, <2>2, <2>3 DEF Monitors
<1>8. ~Interrupt
  BY DEF Interrupt, MainUp
<1>9. ASSUME NEW t \in Callers, Transfers(t) PROVE AskInv'
  <2>0. UNCHANGED <<pc, ask>> /\ (Send(t) \/ Read(t))
    BY <1>9 DEF Transfers, Transfer, Send, Read
  <2>1. CASE Send(t)
    <3>1. /\ stage[t] = "lock"
          /\ \/ stage' = [stage EXCEPT ![t] = "read"] /\ transferLock' = t
             \/ stage' = [stage EXCEPT ![t] = "raised"] /\ UNCHANGED transferLock
          /\ transferLock = NoOne
      BY <2>1 DEF Send
    <3> QED
      BY <1>0, <2>0, <3>1 DEF AskInv
  <2>2. CASE Read(t)
    <3>1. /\ stage[t] = "read" /\ transferLock' = NoOne
          /\ \/ stage' = [stage EXCEPT ![t] = "returned"]
             \/ stage' = [stage EXCEPT ![t] = "raised"]
      BY <2>2 DEF Read, Freed
    <3> QED
      BY <1>0, <2>0, <3>1 DEF AskInv
  <2> QED
    BY <2>0, <2>1, <2>2
<1>10. ASSUME NEW t \in Callers, End(t) PROVE AskInv'
  <2>1. CASE EndReleases(t)
    BY <1>1, <2>1 DEF EndReleases, CallPoints
  <2>2. CASE EndReleased(t)
    BY <1>2, <2>2 DEF EndReleased
  <2>3. CASE EndCloses(t)
    BY <1>3, <1>5, <2>3 DEF EndCloses, Close
  <2>4. CASE EndMonitor(t) \/ EndMachines(t) \/ EndJoins(t)
    <3>1. stage[t] = "idle"
      BY <1>5, <2>4 DEF EndMonitor, EndMachines, EndJoins
    <3> QED
      BY <1>3, <2>4, <3>1 DEF EndMonitor, EndMachines, EndJoins, linkVars
  <2> QED
    BY <1>10, <2>1, <2>2, <2>3, <2>4 DEF End
<1>11. CASE Supplies \/ Loads \/ UNCHANGED vars
  BY <1>4, <1>11 DEF Supplies, SupplyAnswers, Loads, LoadChanges, vars, linkVars
<1> QED
  BY <1>6, <1>7, <1>8, <1>9, <1>10, <1>11 DEF Next

LEMMA PortsKept ==
    ASSUME PointsInv, PortInv, [Next]_vars
    PROVE  PortInv'
<1>0. /\ pc \in [Callers -> Points]
      /\ \A t \in Callers : pc[t] \in {"stop machines", "join"} => ~portOpen
      /\ stopped # {} => ~portOpen
  BY DEF PointsInv, PortInv
<1>1. ASSUME NEW t \in Callers, NEW p, Goto(t, p),
             p \notin {"stop machines", "join"} \/ ~portOpen, UNCHANGED <<portOpen, stopped>>
      PROVE  PortInv'
  BY <1>0, <1>1 DEF Goto, PortInv
<1>2. ASSUME UNCHANGED <<pc, portOpen, stopped>> PROVE PortInv'
  BY <1>0, <1>2 DEF PortInv
<1>3. ASSUME NEW m \in Machines, Machine(m) PROVE PortInv'
  <2>1. UNCHANGED <<portOpen, stopped>> /\ m \in Callers
    BY <1>3, CallersDiffer
    DEF Machine, MachineCommands, MachineCommanded, MachineRests, MachineRuns, control, line, linkVars
  <2>2. PICK p \in {"rest", "run", "stop monitor", "switch on", "switch off", "ended"} :
            Goto(m, p) \/ UNCHANGED pc
    BY <1>3 DEF Machine, MachineCommands, MachineCommanded, MachineRests, MachineRuns, NextOr
  <2> QED
    BY <1>1, <1>2, <2>1, <2>2
<1>4. CASE Monitors
  <2>1. UNCHANGED <<portOpen, stopped>> /\ Monitor \in Callers
    BY <1>4, CallersDiffer
    DEF Monitors, MonitorAsks, MonitorMeasures, MonitorChecks, MonitorShutsOff, control, line, linkVars
  <2>2. PICK p \in {"ended", "check", "stop monitor", "seize", "poll", "cut"} : Goto(Monitor, p) \/ UNCHANGED pc
    BY <1>4 DEF Monitors, MonitorAsks, MonitorMeasures, MonitorChecks, MonitorShutsOff, NextOr
  <2> QED
    BY <1>1, <1>2, <2>1, <2>2
<1>5. CASE Interrupt
  <2>1. Goto(Main, "stop monitor") /\ Main \in Callers /\ UNCHANGED <<portOpen, stopped>>
    BY <1>5, CallersDiffer DEF Interrupt, line
  <2> QED
    BY <1>1, <2>1
<1>6. ASSUME NEW t \in Callers, End(t) PROVE PortInv'
  <2>1. CASE EndMonitor(t) \/ EndReleases(t) \/ EndReleased(t)
    <3>1. UNCHANGED <<portOpen, stopped>>
      BY <2>1 DEF EndMonitor, EndReleases, EndReleased, linkVars, line, control
    <3>2. PICK p \in {"release", "aborted", "close"} : Goto(t, p) \/ UNCHANGED pc
      BY <2>1 DEF EndMonitor, EndReleases, EndReleased, AfterRelease
    <3> QED
      BY <1>1, <1>2, <3>1, <3>2
  <2>2. CASE EndCloses(t)
    BY <2>2 DEF EndCloses, Close, PortInv
  <2>3. CASE EndMachines(t)
    <3>1. ~portOpen /\ UNCHANGED portOpen
      BY <1>0, <2>3 DEF EndMachines, linkVars, line
    <3> QED
      BY <3>1 DEF PortInv
  <2>4. CASE EndJoins(t)
    <3>1. Goto(t, "exited") /\ UNCHANGED <<portOpen, stopped>>
      BY <2>4 DEF EndJoins, linkVars, line, control
    <3> QED
      BY <1>1, <3>1
  <2> QED
    BY <1>6, <2>1, <2>2, <2>3, <2>4 DEF End
<1>7. CASE Supplies \/ Loads \/ (\E t \in Callers : Transfers(t)) \/ UNCHANGED vars
  <2>1. UNCHANGED <<pc, portOpen, stopped>>
    BY <1>7 DEF Supplies, SupplyAnswers, Loads, LoadChanges, Transfers, Transfer, Send, Read,
                vars, linkVars, line, control
  <2> QED
    BY <1>2, <2>1
<1> QED
  BY <1>3, <1>4, <1>5, <1>6, <1>7 DEF Next

\* A telegram that the supply has not answered is that of a thread that reads.
LEMMA InFlight ==
    ASSUME LinkInv, AskInv, asked # <<>>
    PROVE  /\ Head(asked).to \in Callers /\ stage[Head(asked).to] = "read"
           /\ Head(asked).ask = AskAt(pc[Head(asked).to]) /\ pc[Head(asked).to] \in CallPoints
           /\ transferLock = Head(asked).to /\ buffer = <<>> /\ Tail(asked) = <<>>
<1>1. asked[1] \in Telegrams /\ Head(asked) = asked[1] /\ buffer = <<>> /\ Tail(asked) = <<>>
  BY OneOnTheLine DEF LinkInv
<1>2. Belongs(asked[1])
  BY DEF LinkInv, LinePaired
<1>3. Head(asked).to \in Callers /\ transferLock = Head(asked).to
  BY <1>1, <1>2 DEF Telegrams, Belongs
<1>4. stage[Head(asked).to] = "read"
  BY <1>3, LinkAssumption DEF AskInv, LinkAssumption
<1>5. Head(asked).ask = ask[Head(asked).to]
  BY <1>1, <1>2, <1>4 DEF Belongs
<1> QED
  BY <1>1, <1>3, <1>4, <1>5 DEF AskInv

LEMMA WhoAsks ==
    ASSUME NEW point \in CallPoints
    PROVE  /\ AskAt(point) = "remote off" <=> point = "release"
           /\ AskAt(point) = "output off" <=> point \in {"switch off", "cut"}
           /\ AskAt(point) = "output on" <=> point \in {"turn on", "switch on"}
BY DEF CallPoints, MachineCalls, MonitorCalls, AskAt

\* What becomes of the supply, by whose telegram.
LEMMA SupplyObeys ==
    ASSUME LinkInv, AskInv, SupplyAnswers
    PROVE  LET t == Head(asked).to IN
           /\ t \in Callers /\ stage[t] = "read" /\ pc[t] \in CallPoints /\ transferLock = t
           /\ asked' = <<>> /\ buffer = <<>>
           /\ remote /\ ~remote' => pc[t] = "release"
           /\ output' # output =>
                  \/ ~output' /\ pc[t] \in {"switch off", "cut"}
                  \/ output' /\ pc[t] \in {"turn on", "switch on"}
           /\ buffer' # <<>> /\ pc[t] = "switch off" => ~remote \/ ~output'
<1> DEFINE t == Head(asked).to
<1>1. asked # <<>> /\ asked' = Tail(asked)
  BY DEF SupplyAnswers
<1>2. /\ t \in Callers /\ stage[t] = "read" /\ Head(asked).ask = AskAt(pc[t]) /\ pc[t] \in CallPoints
      /\ transferLock = t /\ buffer = <<>> /\ asked' = <<>>
  BY <1>1, InFlight
<1>3. Executes(Head(asked).ask) \/ (UNCHANGED supply /\ UNCHANGED buffer)
  BY DEF SupplyAnswers
<1>4. CASE Executes(Head(asked).ask)
  <2>1. remote' = IF Head(asked).ask \in {"remote on", "remote off"} THEN Head(asked).ask = "remote on" ELSE remote
    BY <1>4 DEF Executes
  <2>2. output' = IF Head(asked).ask \in Switching /\ remote THEN Head(asked).ask = "output on" ELSE output
    BY <1>4 DEF Executes
  <2>3. remote /\ ~remote' => Head(asked).ask = "remote off"
    BY <2>1
  <2>4. remote \in BOOLEAN /\ output \in BOOLEAN
    BY DEF LinkInv, LinkShape
  <2>5. output' # output =>
            \/ ~output' /\ Head(asked).ask = "output off"
            \/ output' /\ Head(asked).ask = "output on"
    BY <2>2, <2>4 DEF Switching
  <2>6. Head(asked).ask = "output off" => ~remote \/ ~output'
    BY <2>2, <2>4 DEF Switching
  <2> QED
    BY <1>2, <2>3, <2>5, <2>6, WhoAsks
<1>5. CASE UNCHANGED supply /\ UNCHANGED buffer
  BY <1>2, <1>5 DEF supply
<1> QED
  BY <1>3, <1>4, <1>5

\* Only those that end the server give the remote control away.
RemoteInv == ~remote => Gone(Monitor) \/ \A m \in Machines : Gone(m)

LEMMA RemoteKept ==
    ASSUME \A x, y \in Machines : x = y,
           LinkInv, PointsInv, AskInv, MainUp, RemoteInv, [Next]_vars
    PROVE  RemoteInv'
<1>1. CASE ~remote
  <2>1. CASE Gone(Monitor)
    BY <2>1, GoneStays, CallersDiffer DEF RemoteInv
  <2>2. CASE \A m \in Machines : Gone(m)
    <3>1. ASSUME NEW m \in Machines PROVE Gone(m)'
      <4>1. m \in Callers /\ Gone(m)
        BY <2>2, CallersDiffer
      <4> QED
        BY <4>1, GoneStays
    <3> QED
      BY <3>1 DEF RemoteInv
  <2> QED
    BY <1>1, <2>1, <2>2 DEF RemoteInv
<1>2. CASE remote /\ ~remote'
  <2>1. SupplyAnswers
    BY <1>2 DEF Next, Supplies, Loads, LoadChanges, Machine, MachineCommands, MachineCommanded,
       MachineRests, MachineRuns, Monitors, MonitorAsks, MonitorMeasures, MonitorChecks,
       MonitorShutsOff, Interrupt, Transfers, Transfer, Send, Read, End, EndMonitor, EndReleases,
       EndReleased, EndCloses, Close, EndMachines, EndJoins, vars, linkVars, supply
  <2>2. UNCHANGED pc
    BY <1>2 DEF Next, Supplies, Loads, LoadChanges, Machine, MachineCommands, MachineCommanded,
       MachineRests, MachineRuns, Monitors, MonitorAsks, MonitorMeasures, MonitorChecks,
       MonitorShutsOff, Interrupt, Transfers, Transfer, Send, Read, End, EndMonitor, EndReleases,
       EndReleased, EndCloses, Close, EndMachines, EndJoins, vars, linkVars, supply
  <2>3. PICK t \in Callers : pc[t] = "release"
    BY <1>2, <2>1, SupplyObeys
  <2>4. Gone(t)'
    BY <2>2, <2>3 DEF Gone, EndPoints
  <2>5. t \in Machines \/ t = Monitor
    BY <2>3, CallersDiffer DEF MainUp
  <2> QED
    BY <2>4, <2>5 DEF RemoteInv
<1>3. CASE remote'
  BY <1>3 DEF RemoteInv
<1> QED
  BY <1>1, <1>2, <1>3
-------------------------------------------------------------------------------

\* m is at the switch off, and the supply has obeyed.
Obeyed(m) ==
    /\ pc[m] = "switch off"
    /\ stage[m] = "returned" \/ (stage[m] = "read" /\ buffer # <<>>)

\* m is at the switch on, and the supply has yet to obey.
Pending(m) ==
    /\ pc[m] = "switch on"
    /\ stage[m] \in {"idle", "lock"} \/ (stage[m] = "read" /\ asked # <<>>)

\* From the switch off to the switch on there is no power, unless the monitor is
\* gone: then the remote control may be too, and the output goes neither on nor off.
DarkAt(m) ==
    /\ Obeyed(m) /\ output => Gone(Monitor)
    /\ pc[m] = "rest" => (~output /\ m \in resting) \/ (output /\ Gone(Monitor))
    /\ Pending(m) => \/ ~output /\ rested
                     \/ output /\ Gone(Monitor)
                     \/ ~portOpen /\ stage[m] # "read"

LEMMA DarkKept ==
    ASSUME MaxInterrupts = 0, \A x, y \in Machines : x = y,
           LinkInv, PointsInv, AskInv, PortInv, RemoteInv, MainUp, [Next]_vars,
           NEW m \in Machines, DarkAt(m)
    PROVE  DarkAt(m)'
<1>0. /\ m \in Callers /\ m # Monitor /\ Monitor \in Callers
      /\ \A t \in Callers : t = m \/ t = Monitor \/ t = Main
  BY CallersDiffer
<1>1. pc \in [Callers -> Points] /\ stage \in [Callers -> Stages]
  BY DEF PointsInv, LinkInv, LinkShape
<1>2. Gone(Monitor) => Gone(Monitor)'
  BY <1>0, GoneStays
<1>3. \* Elsewhere there is nothing to show.
      ASSUME pc'[m] \notin {"switch off", "rest", "switch on"} PROVE DarkAt(m)'
  BY <1>3 DEF DarkAt, Obeyed, Pending
<1>4. \* What others do.
      ASSUME pc'[m] = pc[m], stage'[m] = stage[m], UNCHANGED <<output, portOpen, resting, rested>>,
             stage[m] # "read" \/ UNCHANGED <<asked, buffer>>
      PROVE  DarkAt(m)'
  BY <1>2, <1>4 DEF DarkAt, Obeyed, Pending
<1>5. CASE Machine(m)
  <2>1. CASE MachineCommands(m)
    <3>1. /\ stage[m] = "idle" /\ stage'[m] = "lock"
          /\ UNCHANGED <<pc, asked, buffer, output, portOpen, resting, rested>>
      BY <1>0, <1>1, <2>1 DEF MachineCommands, Call, line, supply, rests
    <3> QED
      BY <1>2, <3>1 DEF DarkAt, Obeyed, Pending
  <2>2. CASE MachineCommanded(m)
    <3>1. pc'[m] = NextOr(m, IF pc[m] = "switch off" THEN "rest" ELSE "run") /\ pc'[Monitor] = pc[Monitor]
      BY <1>0, <1>1, <2>2 DEF MachineCommanded, Goto
    <3>2. CASE stage[m] = "raised" \/ pc[m] # "switch off"
      BY <1>3, <3>1, <3>2 DEF NextOr
    <3>3. CASE stage[m] = "returned" /\ pc[m] = "switch off"
      <4>1. pc'[m] = "rest"
        BY <3>1, <3>3 DEF NextOr
      <4>2. Obeyed(m) /\ (output => Gone(Monitor))
        BY <3>3 DEF DarkAt, Obeyed
      <4>3. UNCHANGED output /\ resting' = IF ~output THEN resting \cup {m} ELSE resting
        BY <2>2, <3>3 DEF MachineCommanded, supply
      <4>4. output \in BOOLEAN
        BY DEF LinkInv, LinkShape
      <4> QED
        BY <1>2, <4>1, <4>2, <4>3, <4>4 DEF DarkAt, Obeyed, Pending
    <3> QED
      BY <2>2, <3>2, <3>3 DEF MachineCommanded, Back
  <2>3. CASE MachineRests(m)
    <3>1. pc[m] = "rest" /\ pc'[m] = "switch on" /\ UNCHANGED <<stage, output, portOpen>>
      BY <1>0, <1>1, <2>3 DEF MachineRests, Goto, linkVars, transfers, line, supply
    <3>2. stage[m] = "idle"
      BY <1>0, <3>1 DEF AskInv, CallPoints, MachineCalls, MonitorCalls
    <3>3. rested' = (rested \/ m \in resting) \/ (m \in stopped /\ UNCHANGED rested)
      BY <2>3 DEF MachineRests
    <3>4. (~output /\ m \in resting) \/ (output /\ Gone(Monitor))
      BY <3>1 DEF DarkAt
    <3>5. \/ ~output' /\ rested'
          \/ output' /\ Gone(Monitor)'
          \/ ~portOpen' /\ stage'[m] # "read"
      <4>1. CASE output /\ Gone(Monitor)
        BY <1>2, <3>1, <4>1
      <4>2. CASE ~output /\ m \in resting /\ m \in stopped
        BY <3>1, <3>2, <4>2 DEF PortInv
      <4>3. CASE ~output /\ m \in resting /\ rested' = (rested \/ m \in resting)
        BY <3>1, <4>3
      <4> QED
        BY <3>3, <3>4, <4>1, <4>2, <4>3
    <3> QED
      BY <3>1, <3>5 DEF DarkAt, Obeyed, Pending
  <2>4. CASE MachineRuns(m)
    <3>1. pc[m] = "run" /\ pc'[m] \in {"ended", "switch off", "stop monitor"} /\ UNCHANGED stage
      BY <1>0, <1>1, <2>4 DEF MachineRuns, Goto, linkVars, transfers
    <3>2. stage[m] = "idle"
      BY <1>0, <3>1 DEF AskInv, CallPoints, MachineCalls, MonitorCalls
    <3> QED
      BY <3>1, <3>2 DEF DarkAt, Obeyed, Pending
  <2> QED
    BY <1>5, <2>1, <2>2, <2>3, <2>4 DEF Machine
<1>6. CASE Monitors
  <2>1. UNCHANGED <<asked, buffer, output, portOpen, resting, rested>>
    BY <1>6 DEF Monitors, MonitorAsks, MonitorMeasures, MonitorChecks, MonitorShutsOff,
                linkVars, line, supply, rests
  <2>2. pc'[m] = pc[m]
    BY <1>0, <1>1, <1>6 DEF Monitors, MonitorAsks, MonitorMeasures, MonitorChecks, MonitorShutsOff, Goto
  <2>3. stage'[m] = stage[m]
    BY <1>0, <1>1, <1>6 DEF Monitors, MonitorAsks, MonitorMeasures, MonitorChecks, MonitorShutsOff,
                            Call, Return, linkVars, transfers
  <2> QED
    BY <1>4, <2>1, <2>2, <2>3
<1>7. ~Interrupt
  BY DEF Interrupt, MainUp
<1>8. ASSUME NEW t \in Callers, Transfers(t) PROVE DarkAt(m)'
  <2>0. UNCHANGED <<pc, output, portOpen, resting, rested>> /\ (Send(t) \/ Read(t))
    BY <1>8 DEF Transfers, Transfer, Send, Read, supply, rests
  <2>1. CASE Send(t)
    <3>1. stage[t] = "lock" /\ transferLock = NoOne /\ buffer' = buffer
      BY <2>1 DEF Send
    <3>2. stage[m] # "read"
      BY <1>0, <3>1, LinkAssumption DEF LinkInv, Holding, LinkAssumption
    <3>3. CASE t = m
      <4>1. buffer = <<>>
        <5>1. ASSUME buffer # <<>> PROVE buffer[1].to \in Callers /\ transferLock = buffer[1].to
          BY <5>1, OneOnTheLine DEF LinkInv, LinePaired, Belongs, Answers
        <5> QED
          BY <3>1, <5>1, LinkAssumption DEF LinkAssumption
      <4>2. \/ portOpen /\ stage'[m] = "read"
            \/ stage'[m] = "raised"
        BY <1>0, <1>1, <2>1, <3>3 DEF Send
      <4> QED
        BY <1>2, <2>0, <3>1, <3>3, <4>1, <4>2 DEF DarkAt, Obeyed, Pending
    <3>4. CASE t # m
      <4>1. stage'[m] = stage[m]
        BY <1>0, <1>1, <2>1, <3>4 DEF Send
      <4> QED
        BY <1>4, <2>0, <3>2, <4>1
    <3> QED
      BY <3>3, <3>4
  <2>2. CASE Read(t)
    <3>1. stage[t] = "read" /\ transferLock = t
      BY <2>2 DEF Read, LinkInv, Holding
    <3>2. CASE t = m
      <4>1. stage'[m] \in {"returned", "raised"} /\ (stage'[m] = "returned" => Acceptable(buffer))
        BY <1>0, <1>1, <2>2, <3>2 DEF Read
      <4>2. Acceptable(buffer) => buffer # <<>>
        BY DEF Acceptable
      <4> QED
        BY <1>2, <2>0, <3>1, <3>2, <4>1, <4>2 DEF DarkAt, Obeyed, Pending
    <3>3. CASE t # m
      <4>1. stage'[m] = stage[m]
        BY <1>0, <1>1, <2>2, <3>3 DEF Read
      <4>2. stage[m] # "read"
        BY <1>0, <3>1, <3>3 DEF LinkInv, Holding
      <4> QED
        BY <1>4, <2>0, <4>1, <4>2
    <3> QED
      BY <3>2, <3>3
  <2> QED
    BY <2>0, <2>1, <2>2
<1>9. ASSUME NEW t \in Callers, End(t) PROVE DarkAt(m)'
  <2>0. pc[t] \in EndPoints /\ t # Main
    BY <1>9 DEF End, EndMonitor, EndReleases, EndReleased, EndCloses, EndMachines, EndJoins, EndPoints, MainUp
  <2>1. CASE t = m
    <3>1. Gone(m)'
      BY <1>0, <1>9, <2>0, <2>1, GoneStays DEF Gone
    <3>2. pc'[m] \notin {"switch off", "rest", "switch on"}
      BY <3>1 DEF Gone, EndPoints, Over
    <3> QED
      BY <1>3, <3>2
  <2>2. CASE t # m
    <3>1. pc'[m] = pc[m] /\ UNCHANGED <<output, resting, rested>>
      BY <1>0, <1>1, <1>9, <2>2 DEF End, EndMonitor, EndReleases, EndReleased, EndCloses, Close,
                                     EndMachines, EndJoins, Goto, linkVars, supply, rests
    <3>2. stage'[m] = stage[m]
      BY <1>0, <1>1, <1>9, <2>2 DEF End, EndMonitor, EndReleases, EndReleased, EndCloses, Close,
                                     EndMachines, EndJoins, Call, Return, linkVars, transfers
    <3>3. \/ UNCHANGED <<portOpen, asked, buffer>>
          \/ ~portOpen' /\ asked' = asked /\ buffer' = <<>>
      BY <1>9 DEF End, EndMonitor, EndReleases, EndReleased, EndCloses, Close,
                  EndMachines, EndJoins, linkVars, line
    <3>4. CASE UNCHANGED <<portOpen, asked, buffer>>
      BY <1>4, <3>1, <3>2, <3>4
    <3>5. CASE ~portOpen' /\ asked' = asked /\ buffer' = <<>>
      <4>1. (Obeyed(m))' => Obeyed(m)
        BY <3>1, <3>2, <3>5 DEF Obeyed
      <4>2. (Pending(m))' <=> Pending(m)
        BY <3>1, <3>2, <3>5 DEF Pending
      <4> QED
        BY <1>2, <3>1, <3>2, <3>5, <4>1, <4>2 DEF DarkAt
    <3> QED
      BY <3>3, <3>4, <3>5
  <2> QED
    BY <2>1, <2>2
<1>10. CASE Supplies
  <2> DEFINE t == Head(asked).to
  <2>1. /\ t \in Callers /\ stage[t] = "read" /\ pc[t] \in CallPoints /\ transferLock = t
        /\ asked' = <<>> /\ buffer = <<>>
        /\ output' # output =>
               \/ ~output' /\ pc[t] \in {"switch off", "cut"}
               \/ output' /\ pc[t] \in {"turn on", "switch on"}
        /\ buffer' # <<>> /\ pc[t] = "switch off" => ~remote \/ ~output'
    BY <1>10, SupplyObeys DEF Supplies
  <2>2. UNCHANGED <<pc, stage, portOpen>> /\ (output' = output => UNCHANGED <<resting, rested>>)
    BY <1>10 DEF Supplies, SupplyAnswers, transfers, rests
  <2>3. stage[m] = "read" => t = m
    BY <1>0, <2>1 DEF LinkInv, Holding
  <2>4. output \in BOOLEAN /\ output' \in BOOLEAN
    <3>1. LinkShape /\ [Next]_vars
      BY DEF LinkInv
    <3>2. SupplyAnswers => LinkInv'
      BY AnswersKeep
    <3> QED
      BY <1>10, <3>1, <3>2 DEF LinkInv, LinkShape, Supplies
  <2>5. \* The telegram of another can only be that of the monitor, which is not gone.
        t # m /\ output' # output => ~Gone(Monitor) /\ ~output' /\ output
    <3> SUFFICES ASSUME t # m, output' # output PROVE ~Gone(Monitor) /\ ~output' /\ output
      OBVIOUS
    <3>1. t = Monitor
      <4>1. pc[t] # "up"
        BY <2>1 DEF CallPoints, MachineCalls, MonitorCalls
      <4> QED
        BY <1>0, <2>1, <4>1 DEF MainUp
    <3>2. pc[Monitor] \in MonitorPoints
      BY DEF PointsInv
    <3>3. pc[Monitor] = "cut" /\ ~output'
      BY <2>1, <3>1, <3>2 DEF MonitorPoints, MonitorCalls, EndPoints, Over
    <3> QED
      BY <2>4, <3>3 DEF Gone, EndPoints, Over
  <2>6. (Obeyed(m))' /\ output' => Gone(Monitor)'
    <3>1. CASE stage[m] = "returned" /\ pc[m] = "switch off"
      <4>1. t # m
        BY <2>1, <3>1
      <4> QED
        BY <1>2, <2>4, <2>5, <3>1, <4>1 DEF DarkAt, Obeyed
    <3>2. CASE stage[m] = "read" /\ buffer' # <<>> /\ pc[m] = "switch off"
      <4>1. t = m /\ (~remote \/ ~output')
        BY <2>1, <2>3, <3>2
      <4>2. ~Gone(m)
        BY <3>2 DEF Gone, EndPoints, Over
      <4> QED
        BY <1>2, <4>1, <4>2 DEF RemoteInv
    <3> QED
      BY <2>2, <3>1, <3>2 DEF Obeyed
  <2>7. pc'[m] = "rest" => (~output' /\ m \in resting') \/ (output' /\ Gone(Monitor)')
    <3> SUFFICES ASSUME pc[m] = "rest" PROVE (~output' /\ m \in resting') \/ (output' /\ Gone(Monitor)')
      BY <2>2
    <3>1. t # m
      BY <2>1 DEF CallPoints, MachineCalls, MonitorCalls
    <3> QED
      BY <1>2, <2>2, <2>4, <2>5, <3>1 DEF DarkAt
  <2>8. (Pending(m))' => \/ ~output' /\ rested'
                         \/ output' /\ Gone(Monitor)'
                         \/ ~portOpen' /\ stage'[m] # "read"
    <3> SUFFICES ASSUME pc[m] = "switch on", stage[m] \in {"idle", "lock"}
                 PROVE  \/ ~output' /\ rested'
                        \/ output' /\ Gone(Monitor)'
                        \/ ~portOpen' /\ stage'[m] # "read"
      BY <2>1, <2>2 DEF Pending
    <3>1. t # m /\ Pending(m)
      BY <2>1 DEF Pending
    <3> QED
      BY <1>2, <2>2, <2>4, <2>5, <3>1 DEF DarkAt
  <2> QED
    BY <2>6, <2>7, <2>8 DEF DarkAt
<1>11. CASE Loads \/ UNCHANGED vars
  <2>1. UNCHANGED <<pc, stage, asked, buffer, output, portOpen, resting, rested>>
    BY <1>11 DEF Loads, LoadChanges, vars, linkVars, transfers, line, supply, rests
  <2> QED
    BY <1>4, <2>1
<1>12. ASSUME NEW x \in Machines, Machine(x) PROVE DarkAt(m)'
  <2>1. x = m
    OBVIOUS
  <2> QED
    BY <1>5, <1>12, <2>1
<1> QED
  BY <1>6, <1>7, <1>8, <1>9, <1>10, <1>11, <1>12 DEF Next

RestInv ==
    /\ LinkInv /\ PointsInv /\ AskInv /\ PortInv /\ RemoteInv /\ MainUp
    /\ \A m \in Machines : DarkAt(m)

\* Of one machine, with no answer that comes late and no Control-C: whatever the
\* monitor cuts, whatever is lost or garbled and whichever thread dies, the DUT
\* gets its power back after a whole rest without (reboot_machine.py:95-105, 187).
THEOREM LoneMachineRests ==
    ASSUME "late" \notin Faults, MaxInterrupts = 0, \A x, y \in Machines : x = y
    PROVE  SafeSpec => RestKept
<1>1. Init => RestInv
  <2> SUFFICES ASSUME Init PROVE RestInv
    OBVIOUS
  <2>1. LinkInv /\ PointsInv
    BY SupplyInitial
  <2>2. /\ stage = [t \in Callers |-> "idle"] /\ transferLock = NoOne /\ portOpen = TRUE /\ remote = TRUE
        /\ pc = [t \in Callers |-> CASE t = Main -> "up" [] t = Monitor -> "poll" [] OTHER -> "turn on"]
        /\ interrupts = 0 /\ stopped = {}
    BY DEF Init, LinkInit
  <2>3. pc[Main] = "up" /\ pc[Monitor] = "poll" /\ \A m \in Machines : pc[m] = "turn on"
    BY <2>2, CallersDiffer
  <2>4. AskInv /\ RemoteInv /\ MainUp
    BY <2>2, <2>3 DEF AskInv, RemoteInv, MainUp
  <2>5. PortInv
    BY <2>2, <2>3, CallersDiffer DEF PortInv
  <2>6. \A m \in Machines : DarkAt(m)
    BY <2>3 DEF DarkAt, Obeyed, Pending
  <2> QED
    BY <2>1, <2>4, <2>5, <2>6 DEF RestInv
<1>2. RestInv /\ [Next]_vars => RestInv'
  BY LinkKept, PointsKept, AsksKept, PortsKept, RemoteKept, MainStaysUp, DarkKept DEF RestInv
<1>3. RestInv /\ [Next]_vars =>
          [\A m \in Machines :
               ~output /\ output' /\ Head(asked).to = m /\ pc[m] = "switch on" => rested]_vars
  <2> SUFFICES ASSUME RestInv, [Next]_vars, NEW m \in Machines,
                      ~output, output', Head(asked).to = m, pc[m] = "switch on"
               PROVE  rested
    OBVIOUS
  <2>1. SupplyAnswers
    BY DEF Next, Supplies, Loads, LoadChanges, Machine, MachineCommands, MachineCommanded,
       MachineRests, MachineRuns, Monitors, MonitorAsks, MonitorMeasures, MonitorChecks,
       MonitorShutsOff, Interrupt, Transfers, Transfer, Send, Read, End, EndMonitor, EndReleases,
       EndReleased, EndCloses, Close, EndMachines, EndJoins, vars, linkVars, supply
  <2>2. stage[m] = "read" /\ asked # <<>>
    BY <2>1, SupplyObeys DEF RestInv, SupplyAnswers
  <2>3. Pending(m)
    BY <2>2 DEF Pending
  <2> QED
    BY <2>2, <2>3 DEF RestInv, DarkAt
<1> QED
  BY <1>1, <1>2, <1>3, PTL DEF SafeSpec, RestKept
===============================================================================
