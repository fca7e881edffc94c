------------------------------ MODULE ServerProofs ------------------------------
(***************************************************************************)
(* The start and the end of the server, for any number of machines and any *)
(* threads of Master: a machine that runs is monitored, the end misses one *)
(* machine at most, and the port of the supply is left closed.              *)
(***************************************************************************)
EXTENDS Server, FiniteSetTheorems, TLAPS

Points == StartPoints \cup EndPoints \cup {"absent", "running", "dead", "waiting", "over"}
MainPoints == StartPoints \cup EndPoints \cup {"waiting", "over"}

Types ==
    /\ pc \in [Threads -> Points] /\ pc[Main] \in MainPoints
    /\ at \in [Threads -> Nat \ {0}]
    /\ next \in Nat \ {0} /\ listed \in 0 .. N
    /\ pc[Main] \in {"start", "append"} => next \in Machines
    /\ stopped \in SUBSET Machines
    /\ interrupts \in Nat /\ failures \in Nat

-------------------------------------------------------------------------------
(* Steps                                                                     *)

LEMMA ThreadsDiffer ==
    /\ Main \in Threads /\ Command \in Threads /\ Power \in Threads /\ Display \in Threads
    /\ Main \notin {Command, Power, Display} /\ Command # Power /\ Command # Display /\ Power # Display
    /\ Main \notin Machines /\ Machines \subseteq Threads
    /\ \A m \in Machines : m \notin {Main, Command, Power, Display} /\ m \notin Daemons
    /\ \A d \in Daemons : d \in Threads /\ d \notin {Main, Command, Power, Display}
BY ServerAssumption DEF ServerAssumption, Threads, Services

LEMMA GotoMoves ==
    ASSUME pc \in [Threads -> Points], NEW t \in Threads, NEW point \in Points, Goto(t, point)
    PROVE  /\ pc' \in [Threads -> Points] /\ pc'[t] = point
           /\ \A u \in Threads : u # t => pc'[u] = pc[u]
BY DEF Goto

LEMMA PlaceMoves ==
    ASSUME at \in [Threads -> Nat \ {0}], NEW t \in Threads, at' = [at EXCEPT ![t] = @ + 1]
    PROVE  /\ at' \in [Threads -> Nat \ {0}] /\ at'[t] = at[t] + 1
           /\ \A u \in Threads : u # t => at'[u] = at[u]
<1>1. at[t] + 1 \in Nat \ {0}
  <2>1. at[t] \in Nat
    OBVIOUS
  <2> QED
    BY <2>1
<1> QED
  BY <1>1

LEMMA PlaceResets ==
    ASSUME at \in [Threads -> Nat \ {0}], NEW t \in Threads, at' = [at EXCEPT ![t] = 1]
    PROVE  /\ at' \in [Threads -> Nat \ {0}] /\ at'[t] = 1
           /\ \A u \in Threads : u # t => at'[u] = at[u]
OBVIOUS

LEMMA LeavingPoints ==
    ASSUME NEW t \in Threads
    PROVE  /\ Leaving(t) \in Points
           /\ IF t = Main THEN Leaving(t) \in {"over", "waiting"} ELSE Leaving(t) = "dead"
BY DEF Leaving, Points

LEMMA RaisesMoves ==
    ASSUME pc \in [Threads -> Points], at \in [Threads -> Nat \ {0}], NEW t \in Threads, Raises(t)
    PROVE  /\ pc' \in [Threads -> Points]
           /\ IF t = Main THEN pc'[t] \in {"end", "over", "waiting"} ELSE pc'[t] = "dead"
           /\ \A u \in Threads : u # t => pc'[u] = pc[u]
           /\ at' \in [Threads -> Nat \ {0}] /\ \A u \in Threads : u # t => at'[u] = at[u]
           /\ t = Main /\ pc'[t] = "end" => at'[t] = 1
           /\ ended' \in {ended, TRUE}
<1>1. CASE t = Main /\ handling /\ base = "try"
  <2>1. /\ pc' = [pc EXCEPT ![Main] = "end"]
        /\ at' = [at EXCEPT ![Main] = 1] /\ ended' = TRUE
    BY <1>1 DEF Raises
  <2>2. "end" \in Points
    BY DEF Points, EndPoints
  <2>3. /\ pc' \in [Threads -> Points] /\ pc'[t] = "end"
        /\ \A u \in Threads : u # t => pc'[u] = pc[u]
    BY <1>1, <2>1, <2>2
  <2>4. /\ at' \in [Threads -> Nat \ {0}] /\ at'[t] = 1
        /\ \A u \in Threads : u # t => at'[u] = at[u]
    BY <1>1, <2>1, PlaceResets
  <2> QED
    BY <1>1, <2>1, <2>3, <2>4
<1>2. CASE ~(t = Main /\ handling /\ base = "try")
  <2>1. Goto(t, Leaving(t)) /\ at' = at /\ ended' = ended
    BY <1>2 DEF Raises
  <2>2. /\ pc' \in [Threads -> Points] /\ pc'[t] = Leaving(t)
        /\ \A u \in Threads : u # t => pc'[u] = pc[u]
    BY <2>1, GotoMoves, LeavingPoints
  <2>3. Leaving(t) # "end"
    BY DEF Leaving
  <2> QED
    BY <2>1, <2>2, <2>3, LeavingPoints
<1> QED
  BY <1>1, <1>2

LEMMA ReturnsMoves ==
    ASSUME pc \in [Threads -> Points], NEW t \in Threads, Returns(t)
    PROVE  /\ pc' \in [Threads -> Points]
           /\ IF t = Main THEN pc'[t] \in {"over", "again", "waiting"} ELSE pc'[t] = "dead"
           /\ \A u \in Threads : u # t => pc'[u] = pc[u]
<1>1. CASE t = Main /\ ~handling /\ controller # "none"
  <2>1. Goto(t, "again")
    BY <1>1 DEF Returns
  <2> QED
    BY <1>1, <2>1, GotoMoves DEF Points, EndPoints
<1>2. CASE ~(t = Main /\ ~handling /\ controller # "none")
  <2>1. Goto(t, Leaving(t))
    BY <1>2 DEF Returns
  <2> QED
    BY <2>1, GotoMoves, LeavingPoints
<1> QED
  BY <1>1, <1>2

\* What a step of an end sequence changes.
LEMMA EndStep ==
    ASSUME Types, NEW t \in Threads, End(t)
    PROVE  /\ pc[t] \in EndPoints
           /\ pc' \in [Threads -> Points]
           /\ pc'[t] \in EndPoints \cup (IF t = Main THEN {"over", "waiting"} ELSE {"dead"})
           /\ \A u \in Threads : u # t => pc'[u] = pc[u]
           /\ at' \in [Threads -> Nat \ {0}] /\ \A u \in Threads : u # t => at'[u] = at[u]
           /\ stopped \subseteq stopped' /\ stopped' \in SUBSET Machines
           /\ UNCHANGED <<next, listed, controller, interrupts>>
           /\ failures' \in Nat /\ failures' >= failures
           /\ ended' \in {ended, TRUE} /\ missed' \in {missed, TRUE}
<1> DEFINE Counts == /\ UNCHANGED <<next, listed, controller, interrupts>>
                     /\ ended' \in {ended, TRUE} /\ missed' \in {missed, TRUE}
                     /\ failures' \in Nat /\ failures' >= failures
           Places == at' \in [Threads -> Nat \ {0}] /\ \A u \in Threads : u # t => at'[u] = at[u]
           Told == stopped \subseteq stopped' /\ stopped' \in SUBSET Machines
           Moves == /\ pc[t] \in EndPoints
                    /\ pc' \in [Threads -> Points]
                    /\ pc'[t] \in EndPoints \cup (IF t = Main THEN {"over", "waiting"} ELSE {"dead"})
                    /\ \A u \in Threads : u # t => pc'[u] = pc[u]
<1> SUFFICES Counts /\ Places /\ Told /\ Moves
  OBVIOUS
<1>0. /\ pc \in [Threads -> Points] /\ at \in [Threads -> Nat \ {0}] /\ listed \in 0 .. N
      /\ stopped \in SUBSET Machines /\ failures \in Nat
  BY DEF Types
<1>1. ASSUME NEW p \in EndPoints, pc[t] \in EndPoints, Goto(t, p) PROVE Moves
  BY <1>0, <1>1, GotoMoves DEF Points
<1>12. ASSUME UNCHANGED <<next, listed, controller, interrupts, failures>>,
              ended' \in {ended, TRUE}, missed' \in {missed, TRUE}
       PROVE  Counts
  <2>1. failures' \in Nat /\ failures' >= failures
    BY <1>0, <1>12
  <2> QED
    BY <1>12, <2>1
<1>13. UNCHANGED at => Places
  BY <1>0
<1>14. UNCHANGED stopped => Told
  BY <1>0
<1> HIDE DEF Counts, Places, Told
<1>2. CASE EndBegins(t)
  <2>1. Counts /\ Places /\ Told
    BY <1>12, <1>13, <1>14, <1>2 DEF EndBegins, world
  <2> QED
    BY <1>1, <1>2, <2>1 DEF EndBegins, EndPoints
<1>3. CASE EndMonitor(t)
  <2>1. Counts /\ Places /\ Told
    BY <1>12, <1>13, <1>14, <1>3 DEF EndMonitor, counts
  <2> QED
    BY <1>1, <1>3, <2>1 DEF EndMonitor, EndPoints
<1>4. CASE EndReleases(t)
  <2>1. Counts /\ Places /\ Told
    BY <1>12, <1>13, <1>14, <1>4 DEF EndReleases, counts
  <2> QED
    BY <1>1, <1>4, <2>1 DEF EndReleases, EndPoints
<1>5. CASE EndReleased(t)
  <2>1. /\ UNCHANGED <<next, listed, controller, stopped, interrupts, missed>>
        /\ pc[t] = "releasing"
        /\ failures' = failures \/ failures' = failures + 1
    BY <1>5 DEF EndReleased
  <2>2. /\ failures' \in Nat /\ failures' >= failures
    BY <1>0, <2>1
  <2>3. CASE Goto(t, "close") /\ UNCHANGED <<at, ended>>
    <3>1. Counts
      BY <2>1, <2>2, <2>3 DEF Counts
    <3> QED
      BY <1>1, <1>13, <1>14, <2>1, <2>3, <3>1 DEF EndPoints
  <2>4. CASE Raises(t)
    <3>1. Counts /\ Places
      BY <1>0, <2>1, <2>2, <2>4, RaisesMoves DEF Counts, Places
    <3> QED
      BY <1>0, <1>14, <2>1, <2>4, <3>1, RaisesMoves DEF EndPoints
  <2> QED
    BY <1>5, <2>3, <2>4 DEF EndReleased
<1>6. CASE EndCloses(t)
  <2>1. Counts /\ Places /\ Told
    BY <1>12, <1>13, <1>14, <1>6 DEF EndCloses, counts
  <2> QED
    BY <1>1, <1>6, <2>1 DEF EndCloses, EndPoints
<1>7. CASE EndMachines(t)
  <2>1. Counts /\ pc[t] = "stop machines"
    BY <1>7, <1>12 DEF EndMachines, counts
  <2>2. CASE InList(t)
    <3>1. stopped' = stopped \cup {at[t]} /\ at' = [at EXCEPT ![t] = @ + 1] /\ UNCHANGED pc
      BY <1>7, <2>2 DEF EndMachines
    <3>2. at[t] \in Machines
      BY <1>0, <2>2, ServerAssumption DEF InList, Machines, ServerAssumption
    <3>3. Moves
      BY <1>0, <2>1, <3>1 DEF EndPoints
    <3>4. Places
      BY <1>0, <3>1, PlaceMoves DEF Places
    <3>5. Told
      <4>1. stopped \in SUBSET Machines /\ stopped' = stopped \cup {at[t]}
        BY <1>0, <3>1
      <4> QED
        BY <3>2, <4>1 DEF Told
    <3> QED
      BY <2>1, <3>3, <3>4, <3>5
  <2>3. CASE ~InList(t)
    <3>1. Goto(t, "join machines") /\ at' = [at EXCEPT ![t] = 1] /\ UNCHANGED stopped
      BY <1>7, <2>3 DEF EndMachines
    <3>2. Places
      BY <1>0, <3>1, PlaceResets DEF Places
    <3> QED
      BY <1>1, <1>14, <2>1, <3>1, <3>2 DEF EndPoints
  <2> QED
    BY <2>2, <2>3
<1>8. CASE EndJoins(t)
  <2>1. Counts /\ Told /\ pc[t] = "join machines"
    BY <1>8, <1>12, <1>14 DEF EndJoins, counts, world
  <2>2. CASE InList(t)
    <3>1. at' = [at EXCEPT ![t] = @ + 1] /\ UNCHANGED pc
      BY <1>8, <2>2 DEF EndJoins
    <3>2. Places
      BY <1>0, <3>1, PlaceMoves DEF Places
    <3> QED
      BY <1>0, <2>1, <3>1, <3>2 DEF EndPoints
  <2>3. CASE ~InList(t)
    <3>1. (Goto(t, "stop display") \/ Returns(t)) /\ Places
      BY <1>8, <1>13, <2>3 DEF EndJoins
    <3>2. CASE Goto(t, "stop display")
      BY <1>1, <2>1, <3>1, <3>2 DEF EndPoints
    <3>3. CASE Returns(t)
      BY <1>0, <2>1, <3>1, <3>3, ReturnsMoves DEF EndPoints
    <3> QED
      BY <3>1, <3>2, <3>3
  <2> QED
    BY <2>2, <2>3
<1>9. CASE EndDisplay(t)
  <2>1. Counts /\ Places /\ Told
    BY <1>12, <1>13, <1>14, <1>9 DEF EndDisplay, counts, world
  <2> QED
    BY <1>1, <1>9, <2>1 DEF EndDisplay, EndPoints
<1>10. CASE EndJoinsDisplay(t)
  <2>1. Counts /\ Places /\ Told
    BY <1>12, <1>13, <1>14, <1>10 DEF EndJoinsDisplay, counts, world
  <2> QED
    BY <1>0, <1>10, <2>1, ReturnsMoves DEF EndJoinsDisplay, EndPoints
<1>11. CASE t = Main /\ EndsAgain
  <2>1. Counts /\ Places /\ Told
    BY <1>12, <1>13, <1>14, <1>11 DEF EndsAgain, counts, world
  <2> QED
    BY <1>0, <1>11, <2>1, GotoMoves DEF EndsAgain, EndPoints, Points
<1> QED
  BY <1>2, <1>3, <1>4, <1>5, <1>6, <1>7, <1>8, <1>9, <1>10, <1>11 DEF End

\* What the threads do between their start and their end.
Runs(t) == Die(t) \/ Ends(t) \/ LogsRecord(t) \/ (t = Display /\ RunDisplay)

LEMMA RunStep ==
    ASSUME Types, NEW t \in Threads, Runs(t)
    PROVE  /\ \/ UNCHANGED pc
              \/ /\ t # Main /\ pc[t] = "running"
                 /\ pc' \in [Threads -> Points]
                 /\ \A u \in Threads : u # t => pc'[u] = pc[u]
                 /\ \/ pc'[t] = "end" /\ ended' = TRUE
                    \/ pc'[t] = "dead" /\ (t \in stopped \/ (t = Power /\ monitorStop) \/ t = Display)
           /\ UNCHANGED <<next, listed, controller, portOpen, monitorStop, stopped, at, interrupts,
                          failures, missed>>
           /\ ended' \in {ended, TRUE}
<1>0. pc \in [Threads -> Points] /\ stopped \in SUBSET Machines /\ pc[Main] # "running"
  BY DEF Types, MainPoints, StartPoints, EndPoints
<1>1. ASSUME pc[t] = "running" PROVE t # Main
  BY <1>0, <1>1
<1>2. ASSUME Dies(t) PROVE
          /\ pc' \in [Threads -> Points] /\ pc'[t] = "end"
          /\ \A u \in Threads : u # t => pc'[u] = pc[u]
          /\ ended' = TRUE
          /\ UNCHANGED <<next, listed, controller, portOpen, monitorStop, stopped, at, interrupts,
                         failures, missed>>
  <2>1. "end" \in Points
    BY DEF Points, EndPoints
  <2> QED
    BY <1>0, <1>2, <2>1, GotoMoves DEF Dies, world
<1>3. ASSUME Goto(t, "dead") PROVE
          /\ pc' \in [Threads -> Points] /\ pc'[t] = "dead"
          /\ \A u \in Threads : u # t => pc'[u] = pc[u]
  <2>1. "dead" \in Points
    BY DEF Points
  <2> QED
    BY <1>0, <1>3, <2>1, GotoMoves
<1>4. CASE Die(t)
  BY <1>1, <1>2, <1>4 DEF Die
<1>5. CASE Ends(t)
  <2>1. /\ UNCHANGED <<next, listed, controller, portOpen, monitorStop, stopped, at, interrupts,
                       failures, missed, ended>>
        /\ pc[t] = "running" /\ Goto(t, "dead")
        /\ t \in stopped \/ (t = Power /\ monitorStop)
    BY <1>5 DEF Ends, world, counts
  <2> QED
    BY <1>1, <1>3, <2>1
<1>6. CASE LogsRecord(t)
  BY <1>6 DEF LogsRecord, world, counts
<1>7. CASE t = Display /\ RunDisplay
  <2>0. pc[t] = "running"
    BY <1>7 DEF RunDisplay
  <2>1. CASE DisplaySteps /\ UNCHANGED <<pc, base, handling, next, listed, controller, world, at, counts>>
    BY <2>1 DEF world, counts
  <2>2. CASE Dies(Display)
    BY <1>1, <1>2, <1>7, <2>0, <2>2
  <2>3. CASE /\ Goto(Display, "dead")
             /\ UNCHANGED <<base, handling, next, listed, controller, world, at, counts, consoleVars>>
    <3>1. /\ UNCHANGED <<next, listed, controller, portOpen, monitorStop, stopped, at, interrupts,
                         failures, missed, ended>>
      BY <2>3 DEF world, counts
    <3> QED
      BY <1>1, <1>3, <1>7, <2>0, <2>3, <3>1
  <2> QED
    BY <1>7, <2>1, <2>2, <2>3 DEF RunDisplay
<1> QED
  BY <1>4, <1>5, <1>6, <1>7 DEF Runs

\* A failure of the start, and Control-C.
LEMMA FailStep ==
    ASSUME Types, Fails \/ Interrupt
    PROVE  /\ pc' \in [Threads -> Points] /\ pc'[Main] = "end"
           /\ \A u \in Threads : u # Main => pc'[u] = pc[u]
           /\ at' \in [Threads -> Nat \ {0}] /\ at'[Main] = 1
           /\ UNCHANGED <<next, listed, controller, portOpen, monitorStop, stopped, failures, missed>>
           /\ ended' = TRUE
           /\ \/ Interrupt /\ interrupts' = interrupts + 1
              \/ Fails /\ UNCHANGED interrupts
<1>1. /\ Goto(Main, "end") /\ at' = [at EXCEPT ![Main] = 1] /\ ended' = TRUE
      /\ UNCHANGED <<next, listed, controller, portOpen, monitorStop, stopped, failures, missed>>
      /\ \/ Interrupt /\ interrupts' = interrupts + 1
         \/ Fails /\ UNCHANGED interrupts
  <2>1. CASE Fails
    BY <2>1 DEF Fails, world
  <2>2. CASE Interrupt
    BY <2>2 DEF Interrupt, world
  <2> QED
    BY <2>1, <2>2
<1>2. "end" \in Points
  BY DEF Points, EndPoints
<1> QED
  BY <1>1, <1>2, GotoMoves, PlaceResets, ThreadsDiffer DEF Types

\* A step of the start that does not fail.
Begins ==
    \/ StartDisplay \/ Publish \/ StartMonitor \/ StartMachine \/ AppendMachine \/ Wait
    \/ ~Fails /\ (MakeMaster \/ MakeController \/ CreateMachine)

LEMMA NextCases ==
    ASSUME Types, Next
    PROVE  \/ Begins
           \/ Fails /\ pc[Main] \in {"master", "controller", "create"}
           \/ Interrupt
           \/ \E t \in Threads : Runs(t) \/ End(t)
<1>1. CASE Start
  <2>1. /\ MakeMaster => pc[Main] = "master"
        /\ MakeController => pc[Main] = "controller"
        /\ CreateMachine => pc[Main] = "create"
    BY DEF MakeMaster, MakeController, CreateMachine
  <2>2. CASE Fails
    BY <1>1, <2>1, <2>2 DEF Start, Begins
  <2>3. CASE ~Fails
    BY <1>1, <2>3 DEF Start, Begins
  <2> QED
    BY <2>2, <2>3
<1>2. CASE RunDisplay
  BY <1>2, ThreadsDiffer DEF Runs
<1>3. ASSUME NEW t \in Threads, Die(t) \/ Ends(t) \/ End(t) \/ LogsRecord(t)
      PROVE  Runs(t) \/ End(t)
  BY <1>3 DEF Runs
<1> QED
  BY <1>1, <1>2, <1>3 DEF Next

LEMMA BeginStep ==
    ASSUME Types, Begins
    PROVE  /\ UNCHANGED <<at, stopped, monitorStop, interrupts, failures, ended, missed>>
           /\ pc' \in [Threads -> Points]
           /\ \A t \in Threads : t # Main => pc'[t] \in {pc[t], "running"}
           /\ \A m \in Machines : pc'[m] = IF pc[Main] = "start" /\ m = next THEN "running" ELSE pc[m]
           /\ pc'[Command] = IF pc[Main] = "master" THEN "running" ELSE pc[Command]
           /\ pc'[Power] = IF pc[Main] = "monitor" THEN "running" ELSE pc[Power]
           /\ \/ /\ \/ pc[Main] = "display" /\ pc'[Main] = "master"
                    \/ pc[Main] = "master" /\ pc'[Main] = "controller"
                    \/ pc[Main] = "monitor" /\ pc'[Main] = "create"
                    \/ pc[Main] = "create" /\ pc'[Main] = "waiting"
                    \/ pc[Main] = "create" /\ pc'[Main] = "start" /\ next <= N
                    \/ pc[Main] = "start" /\ pc'[Main] = "append"
                    \/ pc[Main] = "waiting" /\ pc'[Main] = "over" /\ ~Alive(Command)
                 /\ UNCHANGED <<next, listed, controller, portOpen>>
              \/ /\ pc[Main] = "controller" /\ pc'[Main] = "publish"
                 /\ controller' = "made" /\ portOpen' /\ UNCHANGED <<next, listed>>
              \/ /\ pc[Main] = "publish" /\ pc'[Main] = "monitor"
                 /\ controller' = "published" /\ UNCHANGED <<next, listed, portOpen>>
              \/ /\ pc[Main] = "append" /\ pc'[Main] = "create"
                 /\ listed' = next /\ next' = next + 1 /\ UNCHANGED <<controller, portOpen>>
<1>0. /\ pc \in [Threads -> Points] /\ \A p \in StartPoints : p \in Points
      /\ "waiting" \in Points /\ "over" \in Points /\ "running" \in Points
  BY DEF Types, Points
<1>1. ASSUME NEW p \in StartPoints \cup {"waiting", "over"}, Goto(Main, p), pc[Main] \notin {"start", "master", "monitor"}
      PROVE  /\ pc' \in [Threads -> Points] /\ pc'[Main] = p
             /\ \A t \in Threads : t # Main => pc'[t] = pc[t]
             /\ \A m \in Machines : pc'[m] = IF pc[Main] = "start" /\ m = next THEN "running" ELSE pc[m]
             /\ pc'[Command] = IF pc[Main] = "master" THEN "running" ELSE pc[Command]
             /\ pc'[Power] = IF pc[Main] = "monitor" THEN "running" ELSE pc[Power]
  <2>1. /\ pc' \in [Threads -> Points] /\ pc'[Main] = p
        /\ \A t \in Threads : t # Main => pc'[t] = pc[t]
    BY <1>0, <1>1, GotoMoves, ThreadsDiffer
  <2> QED
    BY <1>1, <2>1, ThreadsDiffer
<1>2. CASE StartDisplay
  <2>1. /\ UNCHANGED <<next, listed, controller, portOpen, at, stopped, monitorStop, interrupts,
                       failures, ended, missed>>
        /\ pc[Main] = "display"
        /\ \/ pc' = [pc EXCEPT ![Main] = "master", ![Display] = "running"]
           \/ Goto(Main, "master")
    BY <1>2 DEF StartDisplay, world, counts
  <2>2. "master" \in StartPoints
    BY DEF StartPoints
  <2>3. CASE pc' = [pc EXCEPT ![Main] = "master", ![Display] = "running"]
    BY <1>0, <2>1, <2>2, <2>3, ThreadsDiffer
  <2>4. CASE Goto(Main, "master")
    BY <1>1, <2>1, <2>2, <2>4
  <2> QED
    BY <2>1, <2>3, <2>4
<1>3. CASE ~Fails /\ MakeMaster
  <2>1. /\ UNCHANGED <<next, listed, controller, portOpen, at, stopped, monitorStop, interrupts,
                       failures, ended, missed>>
        /\ pc[Main] = "master"
        /\ pc' = [t \in Threads |-> IF t = Main THEN "controller"
                                   ELSE IF t \in {Command} \cup Daemons THEN "running" ELSE pc[t]]
    BY <1>3 DEF MakeMaster, world, counts
  <2>2. "controller" \in StartPoints
    BY DEF StartPoints
  <2> QED
    BY <1>0, <2>1, <2>2, ThreadsDiffer
<1>4. CASE ~Fails /\ MakeController
  <2>1. /\ UNCHANGED <<next, listed, at, stopped, monitorStop, interrupts, failures, ended, missed>>
        /\ pc[Main] = "controller" /\ Goto(Main, "publish")
        /\ controller' = "made" /\ portOpen' = TRUE
    BY <1>4 DEF MakeController, counts
  <2>2. "publish" \in StartPoints
    BY DEF StartPoints
  <2> QED
    BY <1>1, <2>1, <2>2
<1>5. CASE Publish
  <2>1. /\ UNCHANGED <<next, listed, portOpen, at, stopped, monitorStop, interrupts, failures,
                       ended, missed>>
        /\ pc[Main] = "publish" /\ Goto(Main, "monitor") /\ controller' = "published"
    BY <1>5 DEF Publish, world, counts
  <2>2. "monitor" \in StartPoints
    BY DEF StartPoints
  <2> QED
    BY <1>1, <2>1, <2>2
<1>6. CASE StartMonitor
  <2>1. /\ UNCHANGED <<next, listed, controller, portOpen, at, stopped, monitorStop, interrupts,
                       failures, ended, missed>>
        /\ pc[Main] = "monitor" /\ pc' = [pc EXCEPT ![Main] = "create", ![Power] = "running"]
    BY <1>6 DEF StartMonitor, world, counts
  <2>2. "create" \in StartPoints
    BY DEF StartPoints
  <2> QED
    BY <1>0, <2>1, <2>2, ThreadsDiffer
<1>7. CASE ~Fails /\ CreateMachine
  <2>1. /\ UNCHANGED <<next, listed, controller, portOpen, at, stopped, monitorStop, interrupts,
                       failures, ended, missed>>
        /\ pc[Main] = "create"
        /\ IF next > N THEN Goto(Main, "waiting") ELSE Goto(Main, "start")
    BY <1>7 DEF CreateMachine, world, counts
  <2>3. ~(next > N) => next <= N
    BY ServerAssumption DEF Types, ServerAssumption
  <2>2. "start" \in StartPoints
    BY DEF StartPoints
  <2> QED
    BY <1>1, <2>1, <2>2, <2>3
<1>8. CASE StartMachine
  <2>1. /\ UNCHANGED <<next, listed, controller, portOpen, at, stopped, monitorStop, interrupts,
                       failures, ended, missed>>
        /\ pc[Main] = "start" /\ pc' = [pc EXCEPT ![Main] = "append", ![next] = "running"]
    BY <1>8 DEF StartMachine, world, counts
  <2>2. "append" \in StartPoints /\ next \in Machines
    BY <2>1 DEF StartPoints, Types
  <2>3. next \in Threads /\ next \notin {Main, Command, Power, Display}
    BY <2>2, ThreadsDiffer
  <2>4. /\ pc' \in [Threads -> Points] /\ pc'[Main] = "append" /\ pc'[next] = "running"
        /\ \A t \in Threads : t # Main /\ t # next => pc'[t] = pc[t]
    BY <1>0, <2>1, <2>2, <2>3, ThreadsDiffer
  <2>5. \A m \in Machines : pc'[m] = IF m = next THEN "running" ELSE pc[m]
    BY <2>4, ThreadsDiffer
  <2>6. pc'[Command] = pc[Command] /\ pc'[Power] = pc[Power]
    BY <2>3, <2>4, ThreadsDiffer
  <2> QED
    BY <2>1, <2>4, <2>5, <2>6
<1>9. CASE AppendMachine
  <2>1. /\ UNCHANGED <<controller, portOpen, at, stopped, monitorStop, interrupts, failures,
                       ended, missed>>
        /\ pc[Main] = "append" /\ Goto(Main, "create")
        /\ listed' = next /\ next' = next + 1
    BY <1>9 DEF AppendMachine, world, counts
  <2>2. "create" \in StartPoints
    BY DEF StartPoints
  <2> QED
    BY <1>1, <2>1, <2>2
<1>10. CASE Wait
  <2>1. /\ UNCHANGED <<next, listed, controller, portOpen, at, stopped, monitorStop, interrupts,
                       failures, ended, missed>>
        /\ pc[Main] = "waiting" /\ Goto(Main, "over") /\ ~Alive(Command)
    BY <1>10 DEF Wait, world, counts
  <2> QED
    BY <1>1, <2>1
<1> QED
  BY <1>2, <1>3, <1>4, <1>5, <1>6, <1>7, <1>8, <1>9, <1>10 DEF Begins

-------------------------------------------------------------------------------
(* Types                                                                     *)

LEMMA TypesInit == Init => Types
<1> SUFFICES ASSUME Init PROVE Types
  OBVIOUS
<1>1. "display" \in Points /\ "absent" \in Points /\ "display" \in MainPoints
  BY DEF Points, MainPoints, StartPoints
<1>2. pc \in [Threads -> Points] /\ pc[Main] = "display"
  BY <1>1, ThreadsDiffer DEF Init
<1>3. 0 \in 0 .. N
  BY ServerAssumption DEF ServerAssumption
<1>4. at \in [Threads -> Nat \ {0}]
  BY DEF Init
<1>5. /\ next \in Nat \ {0} /\ listed \in 0 .. N /\ interrupts \in Nat /\ failures \in Nat
  BY <1>3 DEF Init
<1> QED
  BY <1>1, <1>2, <1>4, <1>5 DEF Init, Types

LEMMA TypesStep == Types /\ [Next]_vars => Types'
<1> SUFFICES ASSUME Types, [Next]_vars PROVE Types'
  OBVIOUS
<1>0. /\ pc \in [Threads -> Points] /\ pc[Main] \in MainPoints
      /\ at \in [Threads -> Nat \ {0}]
      /\ next \in Nat \ {0} /\ listed \in 0 .. N
      /\ pc[Main] \in {"start", "append"} => next \in Machines
      /\ stopped \in SUBSET Machines
      /\ interrupts \in Nat /\ failures \in Nat
  BY DEF Types
<1>1. CASE Begins
  <2>1. /\ UNCHANGED <<at, stopped, interrupts, failures>> /\ pc' \in [Threads -> Points]
    BY <1>1, BeginStep
  <2>2. pc'[Main] \in MainPoints
    BY <1>1, BeginStep DEF MainPoints, StartPoints
  <2>3. next' \in Nat \ {0} /\ listed' \in 0 .. N
    <3>1. \/ UNCHANGED <<next, listed>>
          \/ pc[Main] = "append" /\ listed' = next /\ next' = next + 1
      BY <1>1, BeginStep
    <3> QED
      BY <1>0, <3>1, ServerAssumption DEF Machines, ServerAssumption
  <2>4. pc'[Main] \in {"start", "append"} => next' \in Machines
    <3>1. \/ pc'[Main] \notin {"start", "append"}
          \/ pc[Main] = "start" /\ UNCHANGED next
          \/ pc[Main] = "create" /\ next <= N /\ UNCHANGED next
      BY <1>1, BeginStep
    <3>2. ASSUME pc[Main] = "create" /\ next <= N PROVE next \in Machines
      BY <1>0, <3>2, ServerAssumption DEF Machines, ServerAssumption
    <3> QED
      BY <1>0, <3>1, <3>2
  <2> QED
    BY <1>0, <2>1, <2>2, <2>3, <2>4 DEF Types
<1>2. CASE Fails \/ Interrupt
  <2>1. /\ pc' \in [Threads -> Points] /\ pc'[Main] = "end"
        /\ at' \in [Threads -> Nat \ {0}]
        /\ UNCHANGED <<next, listed, stopped, failures>>
        /\ interrupts' \in {interrupts, interrupts + 1}
    BY <1>2, FailStep
  <2>2. "end" \in MainPoints /\ "end" \notin {"start", "append"}
    BY DEF MainPoints, EndPoints
  <2>3. interrupts' \in Nat
    BY <1>0, <2>1
  <2> QED
    BY <1>0, <2>1, <2>2, <2>3 DEF Types
<1>3. ASSUME NEW t \in Threads, Runs(t) PROVE Types'
  <2>1. /\ pc' \in [Threads -> Points] /\ pc'[Main] = pc[Main]
        /\ UNCHANGED <<next, listed, stopped, at, interrupts, failures>>
    BY <1>0, <1>3, RunStep, ThreadsDiffer
  <2> QED
    BY <1>0, <2>1 DEF Types
<1>4. ASSUME NEW t \in Threads, End(t) PROVE Types'
  <2>1. /\ pc' \in [Threads -> Points] /\ at' \in [Threads -> Nat \ {0}]
        /\ stopped' \in SUBSET Machines /\ failures' \in Nat
        /\ UNCHANGED <<next, listed, interrupts>>
    BY <1>4, EndStep
  <2>2. pc'[Main] = pc[Main] \/ pc'[Main] \in EndPoints \cup {"over", "waiting"}
    BY <1>4, EndStep, ThreadsDiffer
  <2>3. pc'[Main] \in MainPoints /\ (pc'[Main] \in {"start", "append"} => pc[Main] = pc'[Main])
    BY <1>0, <2>2 DEF MainPoints, EndPoints
  <2> QED
    BY <1>0, <2>1, <2>3 DEF Types
<1>5. CASE UNCHANGED vars
  BY <1>0, <1>5 DEF vars, counts, world, Types
<1> QED
  BY <1>1, <1>2, <1>3, <1>4, <1>5, NextCases

-------------------------------------------------------------------------------
(* The start                                                                 *)

\* Of the machines, the first so many at most have been started.
StartedTo(k) == \A m \in Machines : pc[m] # "absent" => m <= k

StartInv ==
    /\ pc[Main] \in {"display", "master", "controller"} => controller = "none"
    /\ pc[Main] = "publish" => controller = "made"
    /\ pc[Main] \in {"monitor", "create", "start", "append"} => controller = "published"
    /\ pc[Main] \in StartPoints => next = listed + 1
    /\ pc[Main] \in StartPoints \ {"append"} => StartedTo(listed)
    /\ pc[Main] \in StartPoints \ {"create", "start", "append"} => listed = 0
    /\ pc[Main] = "append" => StartedTo(listed + 1)
    /\ pc[Main] \notin StartPoints => StartedTo(listed) \/ (interrupts > 0 /\ StartedTo(listed + 1))
    /\ controller # "none" \/ pc[Main] \in StartPoints \ {"display", "master"} => pc[Command] # "absent"

LEMMA StartInit == Init => StartInv
<1> SUFFICES ASSUME Init PROVE StartInv
  OBVIOUS
<1>1. pc[Main] = "display" /\ \A m \in Machines : pc[m] = "absent"
  BY ThreadsDiffer DEF Init
<1>2. /\ controller = "none" /\ next = 1 /\ listed = 0
  BY DEF Init
<1>3. StartedTo(listed) /\ next = listed + 1
  BY <1>1, <1>2 DEF StartedTo
<1>4. "display" \in StartPoints
  BY DEF StartPoints
<1> QED
  BY <1>1, <1>2, <1>3, <1>4 DEF StartInv

\* A machine that has not been started is started by main only.
LEMMA StartedSame ==
    ASSUME Types, Next, ~Begins, NEW k, StartedTo(k)
    PROVE  StartedTo(k)'
<1>1. \A m \in Machines : pc[m] = "absent" => pc'[m] = "absent"
  <2>1. CASE Fails \/ Interrupt
    BY <2>1, FailStep, ThreadsDiffer
  <2>2. ASSUME NEW t \in Threads, Runs(t) PROVE \A m \in Machines : pc[m] = "absent" => pc'[m] = "absent"
    BY <2>2, RunStep, ThreadsDiffer
  <2>3. ASSUME NEW t \in Threads, End(t) PROVE \A m \in Machines : pc[m] = "absent" => pc'[m] = "absent"
    BY <2>3, EndStep, ThreadsDiffer DEF EndPoints
  <2> QED
    BY <2>1, <2>2, <2>3, NextCases
<1> QED
  BY <1>1 DEF StartedTo

LEMMA OtherStep ==
    ASSUME Types, Next, ~Begins
    PROVE  /\ UNCHANGED <<next, listed, controller>>
           /\ \A t \in Threads : pc[t] # "absent" => pc'[t] # "absent"
           /\ \/ pc'[Main] = pc[Main] /\ UNCHANGED interrupts
              \/ /\ pc[Main] \in {"master", "controller", "create"} /\ pc'[Main] = "end"
                 /\ UNCHANGED interrupts
              \/ pc'[Main] = "end" /\ interrupts' = interrupts + 1
              \/ /\ pc[Main] \in EndPoints /\ pc'[Main] \in EndPoints \cup {"over", "waiting"}
                 /\ UNCHANGED interrupts
<1>1. CASE Fails /\ pc[Main] \in {"master", "controller", "create"}
  <2>1. \A t \in Threads : pc[t] # "absent" => pc'[t] # "absent"
    BY <1>1, FailStep
  <2>2. UNCHANGED <<next, listed, controller>> /\ pc'[Main] = "end"
    BY <1>1, FailStep
  <2>3. interrupts' \in {interrupts, interrupts + 1}
    BY <1>1, FailStep
  <2> QED
    BY <1>1, <2>1, <2>2, <2>3
<1>2. CASE Interrupt
  <2>1. \A t \in Threads : pc[t] # "absent" => pc'[t] # "absent"
    BY <1>2, FailStep
  <2>2. UNCHANGED <<next, listed, controller>> /\ pc'[Main] = "end"
    BY <1>2, FailStep
  <2>3. interrupts' = interrupts + 1
    BY <1>2 DEF Interrupt
  <2> QED
    BY <2>1, <2>2, <2>3
<1>3. ASSUME NEW t \in Threads, Runs(t)
      PROVE  /\ UNCHANGED <<next, listed, controller, interrupts>> /\ pc'[Main] = pc[Main]
             /\ \A u \in Threads : pc[u] # "absent" => pc'[u] # "absent"
  BY <1>3, RunStep, ThreadsDiffer
<1>4. ASSUME NEW t \in Threads, End(t)
      PROVE  /\ UNCHANGED <<next, listed, controller, interrupts>>
             /\ \A u \in Threads : pc[u] # "absent" => pc'[u] # "absent"
             /\ \/ pc'[Main] = pc[Main]
                \/ pc[Main] \in EndPoints /\ pc'[Main] \in EndPoints \cup {"over", "waiting"}
  <2>1. /\ UNCHANGED <<next, listed, controller, interrupts>> /\ pc[t] \in EndPoints
        /\ pc'[t] \in EndPoints \cup (IF t = Main THEN {"over", "waiting"} ELSE {"dead"})
        /\ \A u \in Threads : u # t => pc'[u] = pc[u]
    BY <1>4, EndStep
  <2>2. pc'[t] # "absent"
    BY <2>1 DEF EndPoints
  <2> QED
    BY <2>1, <2>2, ThreadsDiffer
<1> QED
  BY <1>1, <1>2, <1>3, <1>4, NextCases

LEMMA StartStep == Types /\ StartInv /\ [Next]_vars => StartInv'
<1> SUFFICES ASSUME Types, StartInv, [Next]_vars PROVE StartInv'
  OBVIOUS
<1>0. /\ next \in Nat \ {0} /\ listed \in Nat /\ interrupts \in Nat
      /\ pc[Main] \in MainPoints
  BY ServerAssumption DEF Types, ServerAssumption
<1>1. CASE Begins
  <2>1. /\ pc[Main] \in StartPoints \cup {"waiting"}
        /\ pc'[Main] \in StartPoints \cup {"waiting", "over"}
    BY <1>1, BeginStep DEF StartPoints
  <2>2. ASSUME NEW k, StartedTo(k), pc[Main] # "start" PROVE StartedTo(k)'
    <3>1. \A m \in Machines : pc'[m] = pc[m]
      BY <1>1, <2>2, BeginStep
    <3> QED
      BY <2>2, <3>1 DEF StartedTo
  <2>3. ASSUME pc[Main] = "start", StartedTo(listed) PROVE StartedTo(listed + 1)'
    <3>1. /\ \A m \in Machines : pc'[m] = IF m = next THEN "running" ELSE pc[m]
          /\ UNCHANGED <<listed>>
      BY <1>1, <2>3, BeginStep
    <3>2. next = listed + 1
      BY <2>3 DEF StartInv, StartPoints
    <3>3. ASSUME NEW m \in Machines, pc'[m] # "absent" PROVE m <= listed + 1
      <4>1. m \in Int /\ (m = listed + 1 \/ m <= listed)
        BY <2>3, <3>1, <3>2, <3>3 DEF StartedTo, Machines
      <4> QED
        BY <1>0, <4>1
    <3> QED
      BY <3>1, <3>3 DEF StartedTo
  <2>4. /\ pc'[Main] \in {"display", "master", "controller"} => controller' = "none"
        /\ pc'[Main] = "publish" => controller' = "made"
        /\ pc'[Main] \in {"monitor", "create", "start", "append"} => controller' = "published"
    BY <1>1, BeginStep DEF StartInv
  <2>5. controller' # "none" \/ pc'[Main] \in StartPoints \ {"display", "master"} => pc'[Command] # "absent"
    <3>1. CASE pc[Main] = "master"
      BY <1>1, <3>1, BeginStep
    <3>2. CASE pc[Main] \in StartPoints \ {"display", "master"}
      BY <1>1, <3>2, BeginStep DEF StartInv, StartPoints
    <3>3. CASE pc[Main] = "display"
      BY <1>1, <3>3, BeginStep DEF StartInv, StartPoints
    <3>4. CASE pc[Main] = "waiting"
      BY <1>1, <3>4, BeginStep DEF StartInv, StartPoints
    <3> QED
      BY <2>1, <3>1, <3>2, <3>3, <3>4
  <2> DEFINE Places == /\ pc[Main] \in StartPoints => next = listed + 1
                       /\ pc[Main] \in StartPoints \ {"append"} => StartedTo(listed)
                       /\ pc[Main] \in StartPoints \ {"create", "start", "append"} => listed = 0
                       /\ pc[Main] = "append" => StartedTo(listed + 1)
                       /\ pc[Main] \notin StartPoints =>
                              StartedTo(listed) \/ (interrupts > 0 /\ StartedTo(listed + 1))
  <2>6. Places'
    <3>0. Places /\ UNCHANGED interrupts
      BY <1>1, BeginStep DEF StartInv
    <3>1. CASE pc[Main] = "start"
      <4>1. pc'[Main] = "append" /\ UNCHANGED <<next, listed>>
        BY <1>1, <3>1, BeginStep
      <4>2. next = listed + 1 /\ StartedTo(listed)
        BY <3>0, <3>1 DEF StartPoints
      <4>3. StartedTo(listed + 1)'
        BY <2>3, <3>1, <4>2
      <4> QED
        BY <4>1, <4>2, <4>3 DEF StartPoints
    <3>2. CASE pc[Main] = "append"
      <4>1. pc'[Main] = "create" /\ listed' = next /\ next' = next + 1
        BY <1>1, <3>2, BeginStep
      <4>2. next = listed + 1 /\ StartedTo(listed + 1)
        BY <3>0, <3>2 DEF StartPoints
      <4>3. StartedTo(next)
        BY <4>2
      <4>4. StartedTo(listed)'
        BY <2>2, <3>2, <4>1, <4>3 DEF StartedTo
      <4> QED
        BY <4>1, <4>4 DEF StartPoints
    <3>3. CASE pc[Main] \notin {"start", "append"}
      <4>1. UNCHANGED <<next, listed>> /\ pc'[Main] # "append"
        BY <1>1, <3>3, BeginStep
      <4>2. pc[Main] \in StartPoints => StartedTo(listed)'
        BY <2>2, <3>0, <3>3, <4>1 DEF StartedTo
      <4>3. StartedTo(listed) => StartedTo(listed)'
        BY <2>2, <3>3, <4>1 DEF StartedTo
      <4>4. StartedTo(listed + 1) => StartedTo(listed + 1)'
        BY <2>2, <3>3, <4>1 DEF StartedTo
      <4>5. /\ pc'[Main] \in StartPoints => pc[Main] \in StartPoints
            /\ pc'[Main] \in StartPoints \ {"create", "start", "append"} =>
                   pc[Main] \in StartPoints \ {"create", "start", "append"}
        BY <1>1, BeginStep DEF StartPoints
      <4> QED
        BY <3>0, <4>1, <4>2, <4>3, <4>4, <4>5
    <3> QED
      BY <3>1, <3>2, <3>3
  <2> QED
    BY <2>4, <2>5, <2>6 DEF StartInv
<1>2. CASE Next /\ ~Begins
  <2>1. UNCHANGED <<next, listed, controller>>
    BY <1>2, OtherStep
  <2>2. ASSUME NEW k, StartedTo(k) PROVE StartedTo(k)'
    BY <1>2, <2>2, StartedSame
  <2>3. /\ StartedTo(listed) => StartedTo(listed)'
        /\ StartedTo(listed + 1) => StartedTo(listed + 1)'
    BY <2>1, <2>2 DEF StartedTo
  <2>4. pc[Command] # "absent" => pc'[Command] # "absent"
    BY <1>2, OtherStep, ThreadsDiffer
  <2>5. CASE pc'[Main] = pc[Main] /\ UNCHANGED interrupts
    BY <2>1, <2>3, <2>4, <2>5 DEF StartInv
  <2>6. CASE /\ pc[Main] \in {"master", "controller", "create"} /\ pc'[Main] = "end"
             /\ UNCHANGED interrupts
    BY <2>1, <2>3, <2>4, <2>6 DEF StartInv, StartPoints
  <2>7. CASE pc'[Main] = "end" /\ interrupts' = interrupts + 1
    <3>1. StartedTo(listed) \/ StartedTo(listed + 1)
      BY DEF StartInv
    <3>2. interrupts' > 0
      BY <1>0, <2>7
    <3> QED
      BY <2>1, <2>3, <2>4, <2>7, <3>1, <3>2 DEF StartInv, StartPoints
  <2>8. CASE /\ pc[Main] \in EndPoints /\ pc'[Main] \in EndPoints \cup {"over", "waiting"}
             /\ UNCHANGED interrupts
    <3>1. pc[Main] \notin StartPoints /\ pc'[Main] \notin StartPoints
      BY <2>8 DEF StartPoints, EndPoints
    <3>2. pc'[Main] \notin {"display", "master", "controller", "publish", "monitor", "create", "start", "append"}
      BY <3>1 DEF StartPoints
    <3> QED
      BY <2>1, <2>3, <2>4, <2>8, <3>1, <3>2 DEF StartInv
  <2> QED
    BY <1>2, <2>5, <2>6, <2>7, <2>8, OtherStep
<1>3. CASE UNCHANGED vars
  <2>1. UNCHANGED <<pc, controller, next, listed, interrupts>>
    BY <1>3 DEF vars, counts
  <2> QED
    BY <2>1 DEF StartInv, StartedTo
<1> QED
  BY <1>1, <1>2, <1>3

-------------------------------------------------------------------------------
(* Machines are monitored                                                    *)

MonitoredInv == ~ended =>
    /\ pc[Main] \in StartPoints \cup {"waiting", "over"}
    /\ \A t \in Threads : pc[t] \notin EndPoints
    /\ ~monitorStop /\ stopped = {}
    /\ pc[Main] \in {"publish", "monitor", "create", "start", "append", "waiting", "over"} => portOpen
    /\ pc[Main] \in {"monitor", "create", "start", "append", "waiting", "over"} => controller = "published"
    /\ pc[Main] \in {"create", "start", "append", "waiting", "over"} => pc[Power] = "running"

LEMMA MonitoredInit == Init => MonitoredInv
<1> SUFFICES ASSUME Init PROVE MonitoredInv
  OBVIOUS
<1>1. pc[Main] = "display" /\ \A t \in Threads : pc[t] \in {"display", "absent"}
  BY ThreadsDiffer DEF Init
<1>2. ~monitorStop /\ stopped = {}
  BY DEF Init
<1> QED
  BY <1>1, <1>2 DEF MonitoredInv, StartPoints, EndPoints

LEMMA MonitoredStep == Types /\ MonitoredInv /\ [Next]_vars => MonitoredInv'
<1> SUFFICES ASSUME Types, MonitoredInv, [Next]_vars, ~ended' PROVE MonitoredInv'
  BY DEF MonitoredInv
<1>1. CASE ended
  <2>1. CASE Begins
    BY <1>1, <2>1, BeginStep
  <2>2. CASE Fails \/ Interrupt
    BY <1>1, <2>2, FailStep
  <2>3. ASSUME NEW t \in Threads, Runs(t) PROVE FALSE
    <3>1. ended' \in {ended, TRUE}
      BY <2>3, RunStep
    <3> QED
      BY <1>1, <3>1
  <2>4. ASSUME NEW t \in Threads, End(t) PROVE FALSE
    <3>1. ended' \in {ended, TRUE}
      BY <2>4, EndStep
    <3> QED
      BY <1>1, <3>1
  <2>5. CASE UNCHANGED vars
    BY <1>1, <2>5 DEF vars, counts
  <2> QED
    BY <2>1, <2>2, <2>3, <2>4, <2>5, NextCases
<1>2. CASE ~ended
  <2>0. /\ pc[Main] \in StartPoints \cup {"waiting", "over"}
        /\ \A t \in Threads : pc[t] \notin EndPoints
        /\ ~monitorStop /\ stopped = {}
        /\ pc[Main] \in {"publish", "monitor", "create", "start", "append", "waiting", "over"} => portOpen
        /\ pc[Main] \in {"monitor", "create", "start", "append", "waiting", "over"} => controller = "published"
        /\ pc[Main] \in {"create", "start", "append", "waiting", "over"} => pc[Power] = "running"
    BY <1>2 DEF MonitoredInv
  <2>1. CASE Begins
    <3>1. UNCHANGED <<stopped, monitorStop>>
      BY <2>1, BeginStep
    <3>2. \A t \in Threads : t # Main => pc'[t] \notin EndPoints
      BY <2>0, <2>1, BeginStep DEF EndPoints
    <3>3. pc'[Main] \in StartPoints \cup {"waiting", "over"} /\ pc'[Main] \notin EndPoints
      BY <2>1, BeginStep DEF StartPoints, EndPoints
    <3>4. pc'[Main] \in {"publish", "monitor", "create", "start", "append", "waiting", "over"} => portOpen'
      BY <2>0, <2>1, BeginStep
    <3>5. pc'[Main] \in {"monitor", "create", "start", "append", "waiting", "over"} => controller' = "published"
      BY <2>0, <2>1, BeginStep
    <3>6. pc'[Main] \in {"create", "start", "append", "waiting", "over"} => pc'[Power] = "running"
      BY <2>0, <2>1, BeginStep
    <3> QED
      BY <2>0, <3>1, <3>2, <3>3, <3>4, <3>5, <3>6 DEF MonitoredInv
  <2>2. CASE Fails \/ Interrupt
    BY <2>2, FailStep
  <2>3. ASSUME NEW t \in Threads, Runs(t) PROVE MonitoredInv'
    <3>1. /\ UNCHANGED <<controller, portOpen, monitorStop, stopped>>
          /\ \/ UNCHANGED pc
             \/ /\ t # Main /\ pc'[t] = "dead" /\ t = Display
                /\ \A u \in Threads : u # t => pc'[u] = pc[u]
      BY <2>0, <2>3, RunStep
    <3>2. pc'[Main] = pc[Main] /\ pc'[Power] = pc[Power]
      BY <3>1, ThreadsDiffer
    <3>3. \A u \in Threads : pc'[u] \notin EndPoints
      BY <2>0, <3>1 DEF EndPoints
    <3> QED
      BY <2>0, <3>1, <3>2, <3>3 DEF MonitoredInv
  <2>4. ASSUME NEW t \in Threads, End(t) PROVE FALSE
    BY <2>0, <2>4, EndStep
  <2>5. CASE UNCHANGED vars
    <3>1. UNCHANGED <<pc, controller, portOpen, monitorStop, stopped, ended>>
      BY <2>5 DEF vars, counts, world
    <3> QED
      BY <3>1 DEF MonitoredInv
  <2> QED
    BY <2>1, <2>2, <2>3, <2>4, <2>5, NextCases
<1> QED
  BY <1>1, <1>2

\* No machine runs without the monitor that cuts its supply, until an end of the
\* server begins (server.py:177-189), for any number of machines.
THEOREM MachinesAreMonitored == SafeSpec => []RunsMonitored
<1>1. Init => Types /\ StartInv /\ MonitoredInv
  BY TypesInit, StartInit, MonitoredInit
<1>2. Types /\ StartInv /\ MonitoredInv /\ [Next]_vars => (Types /\ StartInv /\ MonitoredInv)'
  BY TypesStep, StartStep, MonitoredStep
<1>3. Types /\ StartInv /\ MonitoredInv => RunsMonitored
  <2> SUFFICES ASSUME Types, StartInv, MonitoredInv, ~ended, Started # {}
               PROVE  pc[Power] = "running" /\ controller = "published" /\ portOpen
    BY DEF RunsMonitored
  <2>1. PICK m \in Machines : pc[m] # "absent"
    BY DEF Started
  <2>2. ~StartedTo(0)
    BY <2>1 DEF StartedTo, Machines
  <2>3. pc[Main] \in StartPoints \cup {"waiting", "over"}
    BY DEF MonitoredInv
  <2>4. pc[Main] \notin StartPoints \ {"create", "start", "append"}
    BY <2>2 DEF StartInv
  <2>5. pc[Main] \in {"create", "start", "append", "waiting", "over"}
    BY <2>3, <2>4 DEF StartPoints
  <2> QED
    BY <2>5 DEF MonitoredInv
<1> QED
  BY <1>1, <1>2, <1>3, PTL DEF SafeSpec

-------------------------------------------------------------------------------
(* The end misses one machine                                                *)

BeforeClose == {"end", "stop monitor", "release", "releasing", "close"}
AfterSweep == {"join machines", "stop display", "join display", "again"}

SweepInv ==
    /\ pc[Main] \in BeforeClose => at[Main] = 1
    /\ pc[Main] = "stop machines" => \A m \in Machines : m < at[Main] => m \in stopped
    /\ pc[Main] \in AfterSweep => \A m \in Machines : m <= listed => m \in stopped

\* Where an end sequence goes.
LEMMA EndFlow ==
    ASSUME Types, NEW t \in Threads, End(t)
    PROVE  \/ /\ pc[t] \in BeforeClose /\ UNCHANGED <<at, stopped>>
              /\ pc'[t] \in (BeforeClose \ {"end"}) \cup {"stop machines"}
           \/ pc[t] \in BeforeClose /\ pc'[t] \in {"dead", "over", "waiting"}
           \/ pc[t] \in BeforeClose /\ t = Main /\ pc'[t] = "end" /\ at'[t] = 1
           \/ /\ pc[t] = "stop machines" /\ pc'[t] = "stop machines" /\ at'[t] = at[t] + 1
              /\ stopped' = stopped \cup {at[t]}
           \/ /\ pc[t] = "stop machines" /\ pc'[t] = "join machines" /\ ~InList(t)
           \/ /\ pc[t] \in AfterSweep /\ pc'[t] \in AfterSweep \cup {"dead", "over", "waiting"}
<1>0. /\ pc \in [Threads -> Points] /\ at \in [Threads -> Nat \ {0}]
      /\ \A p \in EndPoints : p \in Points
  BY DEF Types, Points
<1>1. ASSUME NEW p \in EndPoints, Goto(t, p) PROVE pc'[t] = p
  BY <1>0, <1>1, GotoMoves
<1>2. CASE EndBegins(t)
  <2>1. /\ pc[t] = "end" /\ UNCHANGED <<at, stopped>>
        /\ Goto(t, "stop monitor") \/ Goto(t, "stop machines")
    BY <1>2 DEF EndBegins, world
  <2>2. pc'[t] \in {"stop monitor", "stop machines"}
    BY <1>1, <2>1 DEF EndPoints
  <2> QED
    BY <2>1, <2>2 DEF BeforeClose
<1>3. CASE EndMonitor(t)
  <2>1. pc[t] = "stop monitor" /\ UNCHANGED <<at, stopped>> /\ Goto(t, "release")
    BY <1>3 DEF EndMonitor
  <2>2. pc'[t] = "release"
    BY <1>1, <2>1 DEF EndPoints
  <2> QED
    BY <2>1, <2>2 DEF BeforeClose
<1>4. CASE EndReleases(t)
  <2>1. pc[t] = "release" /\ UNCHANGED <<at, stopped>> /\ Goto(t, "releasing")
    BY <1>4 DEF EndReleases
  <2>2. pc'[t] = "releasing"
    BY <1>1, <2>1 DEF EndPoints
  <2> QED
    BY <2>1, <2>2 DEF BeforeClose
<1>5. CASE EndReleased(t)
  <2>1. pc[t] = "releasing" /\ UNCHANGED stopped
    BY <1>5 DEF EndReleased
  <2>2. CASE Goto(t, "close") /\ UNCHANGED at
    <3>1. pc'[t] = "close"
      BY <1>1, <2>2 DEF EndPoints
    <3> QED
      BY <2>1, <2>2, <3>1 DEF BeforeClose
  <2>3. CASE Raises(t)
    <3>1. IF t = Main THEN pc'[t] \in {"end", "over", "waiting"} ELSE pc'[t] = "dead"
      BY <1>0, <2>3, RaisesMoves
    <3>2. t = Main /\ pc'[t] = "end" => at'[t] = 1
      BY <1>0, <2>3, RaisesMoves
    <3> QED
      BY <2>1, <3>1, <3>2 DEF BeforeClose
  <2> QED
    BY <1>5, <2>2, <2>3 DEF EndReleased
<1>6. CASE EndCloses(t)
  <2>1. pc[t] = "close" /\ UNCHANGED <<at, stopped>> /\ Goto(t, "stop machines")
    BY <1>6 DEF EndCloses
  <2>2. pc'[t] = "stop machines"
    BY <1>1, <2>1 DEF EndPoints
  <2> QED
    BY <2>1, <2>2 DEF BeforeClose
<1>7. CASE EndMachines(t)
  <2>1. pc[t] = "stop machines"
    BY <1>7 DEF EndMachines
  <2>2. CASE InList(t)
    <3>1. stopped' = stopped \cup {at[t]} /\ at' = [at EXCEPT ![t] = @ + 1] /\ UNCHANGED pc
      BY <1>7, <2>2 DEF EndMachines
    <3> QED
      BY <1>0, <2>1, <3>1, PlaceMoves
  <2>3. CASE ~InList(t)
    <3>1. Goto(t, "join machines")
      BY <1>7, <2>3 DEF EndMachines
    <3> QED
      BY <1>1, <2>1, <2>3, <3>1 DEF EndPoints
  <2> QED
    BY <2>2, <2>3
<1>8. CASE EndJoins(t)
  <2>1. pc[t] = "join machines" /\ (UNCHANGED pc \/ Goto(t, "stop display") \/ Returns(t))
    BY <1>8 DEF EndJoins
  <2>2. pc'[t] \in AfterSweep \cup {"dead", "over", "waiting"}
    BY <1>0, <1>1, <2>1, ReturnsMoves DEF AfterSweep, EndPoints
  <2> QED
    BY <2>1, <2>2 DEF AfterSweep
<1>9. CASE EndDisplay(t)
  <2>1. pc[t] = "stop display" /\ Goto(t, "join display")
    BY <1>9 DEF EndDisplay
  <2>2. pc'[t] = "join display"
    BY <1>1, <2>1 DEF EndPoints
  <2> QED
    BY <2>1, <2>2 DEF AfterSweep
<1>10. CASE EndJoinsDisplay(t)
  <2>1. pc[t] = "join display" /\ Returns(t)
    BY <1>10 DEF EndJoinsDisplay
  <2>2. pc'[t] \in AfterSweep \cup {"dead", "over", "waiting"}
    BY <1>0, <2>1, ReturnsMoves DEF AfterSweep
  <2> QED
    BY <2>1, <2>2 DEF AfterSweep
<1>11. CASE t = Main /\ EndsAgain
  <2>1. pc[t] = "again" /\ Goto(t, "waiting")
    BY <1>11 DEF EndsAgain
  <2>2. pc'[t] = "waiting"
    BY <1>0, <2>1, GotoMoves DEF Points
  <2> QED
    BY <2>1, <2>2 DEF AfterSweep
<1> QED
  BY <1>2, <1>3, <1>4, <1>5, <1>6, <1>7, <1>8, <1>9, <1>10, <1>11 DEF End

LEMMA PlacesOrdered ==
    ASSUME NEW m \in Nat, NEW a \in Nat
    PROVE  /\ m < a + 1 => m < a \/ m = a
           /\ \A l \in Nat : ~(a <= l) /\ m <= l => m < a
OBVIOUS

LEMMA SweepInit == Init => SweepInv
<1>1. Init => pc[Main] = "display"
  BY ThreadsDiffer DEF Init
<1> QED
  BY <1>1 DEF SweepInv, BeforeClose, AfterSweep

LEMMA SweepStep == Types /\ SweepInv /\ [Next]_vars => SweepInv'
<1> SUFFICES ASSUME Types, SweepInv, [Next]_vars PROVE SweepInv'
  OBVIOUS
<1>0. /\ at[Main] \in Nat \ {0} /\ listed \in Nat /\ Main \in Threads
  BY ThreadsDiffer, ServerAssumption DEF Types, ServerAssumption
<1>1. CASE Begins
  <2>1. pc'[Main] \in StartPoints \cup {"waiting", "over"}
    BY <1>1, BeginStep DEF StartPoints
  <2> QED
    BY <2>1 DEF SweepInv, BeforeClose, AfterSweep, StartPoints
<1>2. CASE Fails \/ Interrupt
  <2>1. pc'[Main] = "end" /\ at'[Main] = 1
    BY <1>2, FailStep
  <2> QED
    BY <2>1 DEF SweepInv, BeforeClose, AfterSweep
<1>3. ASSUME NEW t \in Threads, Runs(t) PROVE SweepInv'
  <2>1. pc'[Main] = pc[Main] /\ UNCHANGED <<at, stopped, listed>>
    BY <1>0, <1>3, RunStep
  <2> QED
    BY <2>1 DEF SweepInv
<1>4. ASSUME NEW t \in Threads, End(t), t # Main PROVE SweepInv'
  <2>1. /\ pc'[Main] = pc[Main] /\ at'[Main] = at[Main] /\ listed' = listed
        /\ stopped \subseteq stopped'
    BY <1>0, <1>4, EndStep
  <2> QED
    BY <2>1 DEF SweepInv
<1>5. CASE End(Main)
  <2>0. listed' = listed /\ stopped \subseteq stopped'
    BY <1>0, <1>5, EndStep
  <2>1. CASE /\ pc[Main] \in BeforeClose /\ UNCHANGED <<at, stopped>>
             /\ pc'[Main] \in (BeforeClose \ {"end"}) \cup {"stop machines"}
    <3>1. at'[Main] = 1
      BY <2>1 DEF SweepInv
    <3>2. \A m \in Machines : ~(m < 1)
      BY DEF Machines
    <3>3. pc'[Main] \notin AfterSweep
      BY <2>1 DEF BeforeClose, AfterSweep
    <3> QED
      BY <3>1, <3>2, <3>3 DEF SweepInv
  <2>2. CASE pc'[Main] \in {"dead", "over", "waiting"}
    BY <2>2 DEF SweepInv, BeforeClose, AfterSweep
  <2>3. CASE pc'[Main] = "end" /\ at'[Main] = 1
    BY <2>3 DEF SweepInv, BeforeClose, AfterSweep
  <2>4. CASE /\ pc[Main] = "stop machines" /\ pc'[Main] = "stop machines" /\ at'[Main] = at[Main] + 1
             /\ stopped' = stopped \cup {at[Main]}
    <3>1. ASSUME NEW m \in Machines, m < at'[Main] PROVE m \in stopped'
      <4>1. m < at[Main] \/ m = at[Main]
        <5>1. m \in Nat /\ m < at[Main] + 1 /\ at[Main] \in Nat
          <6>1. m \in Nat
            BY DEF Machines
          <6>2. m < at[Main] + 1
            BY <2>4, <3>1
          <6> QED
            BY <1>0, <6>1, <6>2
        <5> QED
          BY <5>1, PlacesOrdered
      <4> QED
        BY <2>4, <4>1 DEF SweepInv
    <3> QED
      BY <2>4, <3>1 DEF SweepInv, BeforeClose, AfterSweep
  <2>5. CASE pc[Main] = "stop machines" /\ pc'[Main] = "join machines" /\ ~InList(Main)
    <3>1. \A m \in Machines : m <= listed => m < at[Main]
      <4>1. ~(at[Main] <= listed) /\ at[Main] \in Nat /\ listed \in Nat
        BY <1>0, <2>5 DEF InList
      <4>2. \A m \in Machines : m \in Nat
        BY DEF Machines
      <4> QED
        BY <4>1, <4>2, PlacesOrdered
    <3> QED
      BY <2>0, <2>5, <3>1 DEF SweepInv, BeforeClose, AfterSweep
  <2>6. CASE pc[Main] \in AfterSweep /\ pc'[Main] \in AfterSweep
    BY <2>0, <2>6 DEF SweepInv, BeforeClose, AfterSweep
  <2> QED
    BY <1>0, <1>5, <2>1, <2>2, <2>3, <2>4, <2>5, <2>6, EndFlow
<1>6. CASE UNCHANGED vars
  <2>1. UNCHANGED <<pc, at, stopped, listed>>
    BY <1>6 DEF vars, world
  <2> QED
    BY <2>1 DEF SweepInv
<1> QED
  BY <1>1, <1>2, <1>3, <1>4, <1>5, <1>6, NextCases

\* The main thread's end leaves one machine running at most, and none unless
\* Control-C came between its start and its entry in the list (server.py:188-189).
THEOREM EndMissesOneMachine == SafeSpec => []SweepMissesOne
<1>1. Init => Types /\ StartInv /\ SweepInv
  BY TypesInit, StartInit, SweepInit
<1>2. Types /\ StartInv /\ SweepInv /\ [Next]_vars => (Types /\ StartInv /\ SweepInv)'
  BY TypesStep, StartStep, SweepStep
<1>3. Types /\ StartInv /\ SweepInv => SweepMissesOne
  <2> SUFFICES ASSUME Types, StartInv, SweepInv, pc[Main] \in AfterSweep
               PROVE  Cardinality(Started \ stopped) <= IF interrupts = 0 THEN 0 ELSE 1
    BY DEF SweepMissesOne, AfterSweep
  <2> DEFINE Missed == Started \ stopped
  <2>0. listed \in Nat /\ interrupts \in Nat
    BY ServerAssumption DEF Types, ServerAssumption
  <2>1. StartedTo(listed) \/ (interrupts > 0 /\ StartedTo(listed + 1))
    BY DEF StartInv, AfterSweep, StartPoints
  <2>2. \A m \in Machines : m <= listed => m \in stopped
    BY DEF SweepInv
  <2>3. CASE StartedTo(listed)
    <3>1. Missed = {}
      BY <2>2, <2>3 DEF StartedTo, Started
    <3>2. Cardinality(Missed) = 0
      BY <3>1, FS_EmptySet
    <3> QED
      BY <3>2
  <2>4. CASE interrupts > 0 /\ StartedTo(listed + 1)
    <3>1. \A m \in Missed : m = listed + 1
      BY <2>0, <2>2, <2>4 DEF StartedTo, Started, Machines
    <3>2. Missed = {} \/ Missed = {listed + 1}
      BY <3>1
    <3>3. Cardinality(Missed) = 0 \/ Cardinality(Missed) = 1
      BY <3>2, FS_EmptySet, FS_Singleton
    <3>4. interrupts # 0
      BY <2>0, <2>4
    <3> QED
      BY <3>3, <3>4
  <2> QED
    BY <2>1, <2>3, <2>4
<1> QED
  BY <1>1, <1>2, <1>3, PTL DEF SafeSpec

-------------------------------------------------------------------------------
(* The supply is released                                                    *)

Ending == EndPoints \ {"end"}
PastClose == {"stop machines"} \cup AfterSweep

\* An end sequence that finds PWR_CTRL closes the port before it goes on, and so
\* does that of the thread that alone keeps the process, the command monitor.
ClosingInv == failures = 0 /\ ~missed =>
    /\ \A t \in Threads : pc[t] \in Ending => controller = "published"
    /\ \A t \in Threads : pc[t] \in PastClose => ~portOpen
    /\ pc[Command] = "dead" => controller = "published" /\ ~portOpen
    /\ pc[Main] = "waiting" => pc[Command] # "absent"
    /\ pc[Main] = "over" => ~portOpen

LEMMA ClosingInit == Init => ClosingInv
<1> SUFFICES ASSUME Init PROVE ClosingInv
  OBVIOUS
<1>1. pc[Main] = "display" /\ \A t \in Threads : pc[t] \in {"display", "absent"}
  BY ThreadsDiffer DEF Init
<1>2. Command \in Threads
  BY ThreadsDiffer
<1> QED
  BY <1>1, <1>2 DEF ClosingInv, Ending, EndPoints, PastClose, AfterSweep

\* What an end sequence does to the port, when it finds PWR_CTRL and no telegram
\* fails.
LEMMA EndPort ==
    ASSUME Types, NEW t \in Threads, End(t), UNCHANGED failures, ~missed'
    PROVE  /\ portOpen' = portOpen \/ ~portOpen'
           /\ pc[t] = "end" => controller = "published" /\ pc'[t] = "stop monitor"
           /\ pc'[t] \in BeforeClose \/ pc[t] \in PastClose \/ ~portOpen'
<1>0. /\ pc \in [Threads -> Points] /\ at \in [Threads -> Nat \ {0}] /\ failures \in Nat
      /\ \A p \in EndPoints : p \in Points
  BY DEF Types, Points
<1>1. ASSUME NEW p \in EndPoints, Goto(t, p) PROVE pc'[t] = p
  BY <1>0, <1>1, GotoMoves
<1>2. CASE EndBegins(t)
  <2>1. /\ pc[t] = "end" /\ UNCHANGED portOpen /\ controller = "published"
        /\ Goto(t, "stop monitor")
    BY <1>2 DEF EndBegins, world
  <2>2. pc'[t] = "stop monitor"
    BY <1>1, <2>1 DEF EndPoints
  <2> QED
    BY <2>1, <2>2 DEF BeforeClose
<1>3. CASE EndMonitor(t)
  <2>1. pc[t] = "stop monitor" /\ UNCHANGED portOpen /\ Goto(t, "release")
    BY <1>3 DEF EndMonitor
  <2>2. pc'[t] = "release"
    BY <1>1, <2>1 DEF EndPoints
  <2> QED
    BY <2>1, <2>2 DEF BeforeClose
<1>4. CASE EndReleases(t)
  <2>1. pc[t] = "release" /\ UNCHANGED portOpen /\ Goto(t, "releasing")
    BY <1>4 DEF EndReleases
  <2>2. pc'[t] = "releasing"
    BY <1>1, <2>1 DEF EndPoints
  <2> QED
    BY <2>1, <2>2 DEF BeforeClose
<1>5. CASE EndReleased(t)
  <2>1. pc[t] = "releasing" /\ UNCHANGED portOpen /\ (Goto(t, "close") \/ ~portOpen)
    <3>1. failures' # failures + 1
      BY <1>0
    <3> QED
      BY <1>5, <3>1 DEF EndReleased
  <2>2. Goto(t, "close") => pc'[t] = "close"
    BY <1>1 DEF EndPoints
  <2> QED
    BY <2>1, <2>2 DEF BeforeClose
<1>6. CASE EndCloses(t)
  BY <1>6 DEF EndCloses
<1>7. CASE EndMachines(t) \/ EndJoins(t) \/ EndDisplay(t) \/ EndJoinsDisplay(t) \/ (t = Main /\ EndsAgain)
  <2>1. pc[t] \in PastClose
    BY <1>7 DEF EndMachines, EndJoins, EndDisplay, EndJoinsDisplay, EndsAgain, PastClose, AfterSweep
  <2>2. UNCHANGED portOpen
    BY <1>7 DEF EndMachines, EndJoins, EndDisplay, EndJoinsDisplay, EndsAgain, world
  <2>3. pc[t] # "end"
    BY <2>1 DEF PastClose, AfterSweep
  <2> QED
    BY <2>1, <2>2, <2>3
<1> QED
  BY <1>2, <1>3, <1>4, <1>5, <1>6, <1>7 DEF End

LEMMA ClosingStep == Types /\ StartInv /\ ClosingInv /\ [Next]_vars => ClosingInv'
<1> SUFFICES ASSUME Types, StartInv, ClosingInv, [Next]_vars, failures' = 0, ~missed' PROVE ClosingInv'
  BY DEF ClosingInv
<1>0. failures \in Nat /\ Command \in Threads /\ Main \in Threads /\ Command # Main
  BY ThreadsDiffer DEF Types
<1> DEFINE Released == /\ \A t \in Threads : pc[t] \in Ending => controller = "published"
                       /\ \A t \in Threads : pc[t] \in PastClose => ~portOpen
                       /\ pc[Command] = "dead" => controller = "published" /\ ~portOpen
                       /\ pc[Main] = "waiting" => pc[Command] # "absent"
                       /\ pc[Main] = "over" => ~portOpen
<1>1. ASSUME failures = 0, ~missed PROVE Released
  BY <1>1 DEF ClosingInv
<1>2. ASSUME Released' PROVE ClosingInv'
  BY <1>2 DEF ClosingInv
<1>3. CASE Begins
  <2>1. Released
    <3>1. UNCHANGED <<failures, missed>>
      BY <1>3, BeginStep
    <3> QED
      BY <1>1, <3>1
  <2>2. \A t \in Threads : t # Main => pc'[t] \in {pc[t], "running"}
    BY <1>3, BeginStep
  <2>3. pc'[Main] \notin Ending \cup PastClose
    BY <1>3, BeginStep DEF Ending, EndPoints, PastClose, AfterSweep
  <2>4. ASSUME controller = "published" PROVE controller' = "published" /\ UNCHANGED portOpen
    <3>1. pc[Main] \notin {"controller", "publish"}
      BY <2>4 DEF StartInv
    <3> QED
      BY <1>3, <2>4, <3>1, BeginStep
  <2>5. "running" \notin Ending \cup PastClose /\ \A p \in PastClose : p \in Ending
    BY DEF Ending, EndPoints, PastClose, AfterSweep
  <2>6. /\ \A t \in Threads : pc'[t] \in Ending => controller' = "published"
        /\ \A t \in Threads : pc'[t] \in PastClose => ~portOpen'
    BY <2>1, <2>2, <2>3, <2>4, <2>5
  <2>7. pc'[Command] = "dead" => controller' = "published" /\ ~portOpen'
    BY <1>0, <2>1, <2>2, <2>4
  <2>8. pc'[Main] = "waiting" => pc'[Command] # "absent"
    <3>1. ASSUME pc'[Main] = "waiting" PROVE pc[Main] = "create" /\ pc'[Command] = pc[Command]
      BY <1>3, <3>1, BeginStep
    <3> QED
      BY <3>1 DEF StartInv, StartPoints
  <2>9. pc'[Main] = "over" => ~portOpen'
    <3>1. ASSUME pc'[Main] = "over" PROVE pc[Main] = "waiting" /\ ~Alive(Command) /\ UNCHANGED portOpen
      BY <1>3, <3>1, BeginStep
    <3> QED
      BY <2>1, <3>1 DEF Alive
  <2> QED
    BY <1>2, <2>6, <2>7, <2>8, <2>9
<1>4. CASE Fails \/ Interrupt
  <2>1. /\ pc'[Main] = "end" /\ \A u \in Threads : u # Main => pc'[u] = pc[u]
        /\ UNCHANGED <<controller, portOpen, failures, missed>>
    BY <1>4, FailStep
  <2>2. Released
    BY <1>1, <2>1
  <2>3. "end" \notin Ending \cup PastClose
    BY DEF Ending, PastClose, AfterSweep
  <2> QED
    BY <1>0, <1>2, <2>1, <2>2, <2>3
<1>5. ASSUME NEW t \in Threads, Runs(t) PROVE ClosingInv'
  <2>1. /\ UNCHANGED <<controller, portOpen, failures, missed>>
        /\ \/ UNCHANGED pc
           \/ /\ t # Main /\ \A u \in Threads : u # t => pc'[u] = pc[u]
              /\ \/ pc'[t] = "end"
                 \/ pc'[t] = "dead" /\ (t \in stopped \/ (t = Power /\ monitorStop) \/ t = Display)
    BY <1>5, RunStep
  <2>2. Released
    BY <1>1, <2>1
  <2>3. t \in stopped \/ t = Power \/ t = Display => t # Command
    BY ThreadsDiffer DEF Types
  <2>4. "end" \notin Ending \cup PastClose /\ "dead" \notin Ending \cup PastClose
    BY DEF Ending, EndPoints, PastClose, AfterSweep
  <2> QED
    BY <1>0, <1>2, <2>1, <2>2, <2>3, <2>4
<1>6. ASSUME NEW t \in Threads, End(t) PROVE ClosingInv'
  <2>1. /\ pc[t] \in EndPoints /\ controller' = controller
        /\ pc'[t] \in EndPoints \cup (IF t = Main THEN {"over", "waiting"} ELSE {"dead"})
        /\ \A u \in Threads : u # t => pc'[u] = pc[u]
    BY <1>6, EndStep
  <2>2. UNCHANGED failures /\ ~missed
    <3>1. failures' >= failures /\ missed' \in {missed, TRUE}
      BY <1>6, EndStep
    <3>2. failures = 0 /\ failures' = 0
      BY <1>0, <3>1
    <3>3. missed' = missed
      BY <3>1
    <3> QED
      BY <3>2, <3>3
  <2>3. Released
    BY <1>1, <2>2
  <2>4. /\ portOpen' = portOpen \/ ~portOpen'
        /\ pc[t] = "end" => controller = "published" /\ pc'[t] = "stop monitor"
        /\ pc'[t] \in BeforeClose \/ pc[t] \in PastClose \/ ~portOpen'
    BY <1>6, <2>2, EndPort
  <2>5. controller = "published"
    BY <2>1, <2>3, <2>4 DEF Ending
  <2>6. pc'[t] \notin BeforeClose => ~portOpen'
    BY <2>3, <2>4
  <2>7. \A u \in Threads : pc'[u] \in PastClose => ~portOpen'
    BY <2>1, <2>3, <2>4, <2>6 DEF PastClose, BeforeClose, AfterSweep
  <2>8. pc'[Command] = "dead" => ~portOpen'
    <3>1. CASE t = Command
      BY <2>6, <3>1 DEF BeforeClose
    <3>2. CASE t # Command
      BY <1>0, <2>1, <2>3, <2>4, <3>2
    <3> QED
      BY <3>1, <3>2
  <2>9. pc'[Main] = "waiting" => pc'[Command] # "absent"
    <3>1. pc[Command] # "absent"
      BY <2>5 DEF StartInv
    <3> QED
      BY <1>0, <2>1, <3>1 DEF EndPoints
  <2>10. pc'[Main] = "over" => ~portOpen'
    BY <1>0, <2>1, <2>3, <2>4, <2>6 DEF BeforeClose
  <2> QED
    BY <1>2, <2>1, <2>5, <2>7, <2>8, <2>9, <2>10
<1>7. CASE UNCHANGED vars
  <2>1. UNCHANGED <<pc, controller, portOpen, failures, missed>>
    BY <1>7 DEF vars, counts, world
  <2> QED
    BY <2>1 DEF ClosingInv
<1> QED
  BY <1>3, <1>4, <1>5, <1>6, <1>7, NextCases

\* However the process ends, the port of the supply is closed, unless a telegram
\* failed or an end came before PWR_CTRL was set (server.py:39-41, 177).
THEOREM PortIsClosed == SafeSpec => []LeavesPortClosed
<1>1. Init => Types /\ StartInv /\ ClosingInv
  BY TypesInit, StartInit, ClosingInit
<1>2. Types /\ StartInv /\ ClosingInv /\ [Next]_vars => (Types /\ StartInv /\ ClosingInv)'
  BY TypesStep, StartStep, ClosingStep
<1>3. ClosingInv => LeavesPortClosed
  BY DEF ClosingInv, LeavesPortClosed, Over
<1> QED
  BY <1>1, <1>2, <1>3, PTL DEF SafeSpec
===============================================================================
