------------------------------- MODULE BeamProofs -------------------------------
(***************************************************************************)
(* For any timeout, lag, room and datagrams: the lock of the beam          *)
(* controller keeps its flag and its pin together under every interleaving *)
(* of the two monitors, and a monitor that watches has heard a heartbeat   *)
(* within its timeout and the lag of what it read before.                  *)
(***************************************************************************)
EXTENDS Beam, Integers, TLAPS

\* Who is inside holds the lock, and has driven the pin his way.
LockInv ==
    /\ hbPc = "closing" <=> beamLock = "heartbeat"
    /\ cmdPc \in {"opening", "closing"} <=> beamLock = "command"
    /\ hbPc = "closing" \/ cmdPc = "closing" => pin = FALSE
    /\ cmdPc = "opening" => pin = TRUE
    /\ FlagTellsPin

LEMMA LockInitial == Init => LockInv
  BY DEF Init, LockInv, FlagTellsPin

LEMMA HeartbeatKeepsLock == LockInv /\ Heartbeat => LockInv'
<1> SUFFICES ASSUME LockInv, Heartbeat PROVE LockInv'
  OBVIOUS
<1> USE DEF LockInv, FlagTellsPin, HbGoto, controller, Unheard
<1>1. CASE HbTop
  BY <1>1 DEF HbTop
<1>2. CASE HbSelect
  BY <1>2 DEF HbSelect
<1>3. CASE FirstHeartbeat
  BY <1>3 DEF FirstHeartbeat
<1>4. CASE NextHeartbeat
  BY <1>4 DEF NextHeartbeat
<1>5. CASE HbCloses
  BY <1>5 DEF HbCloses
<1>6. CASE HbClosed
  BY <1>6 DEF HbClosed
<1> QED
  BY <1>1, <1>2, <1>3, <1>4, <1>5, <1>6 DEF Heartbeat

\* A datagram that is read is among those that may come.
LEMMA CommandKeepsLock ==
    ASSUME LockInv, Command, cmdSock \in Seq(AllOrders)
    PROVE  LockInv'
<1> USE DEF LockInv, FlagTellsPin, controller
<1>1. CASE CmdTop
  BY <1>1 DEF CmdTop
<1>2. CASE MonitorCommand
  <2>1. cmdSock # <<>> => Head(cmdSock) \in AllOrders
    OBVIOUS
  <2>2. cmdPc' \notin {"opening", "closing"}
    BY <1>2, <2>1 DEF MonitorCommand, CommandIn, AllOrders
  <2> QED
    BY <1>2, <2>2 DEF MonitorCommand
<1>3. CASE CmdDrives
  BY <1>3 DEF CmdDrives
<1>4. CASE CmdDriven
  BY <1>4 DEF CmdDriven
<1>5. CASE ShutdownBoard
  BY <1>5 DEF ShutdownBoard
<1> QED
  BY <1>1, <1>2, <1>3, <1>4, <1>5 DEF Command

LEMMA OthersKeepLock ==
    ASSUME LockInv, Transfer \/ MasterStops \/ BeatArrives \/ OrderArrives \/ Tick \/ UNCHANGED vars
    PROVE  LockInv'
<1>1. UNCHANGED <<hbPc, cmdPc, controller>>
  BY DEF Transfer, TransferAccepts, TransferTimesOut, TransferEnds, TransferGoto, MasterStops,
         BeatArrives, OrderArrives, Tick, vars
<1> QED
  BY <1>1 DEF LockInv, FlagTellsPin, controller

\* The command socket holds orders.
OrdersOnly == cmdSock \in Seq(AllOrders)

LEMMA SocketsKeep == OrdersOnly /\ [Next]_vars => OrdersOnly'
<1> SUFFICES ASSUME OrdersOnly, [Next]_vars PROVE OrdersOnly'
  OBVIOUS
<1> USE DEF OrdersOnly, sockets
<1>1. CASE Heartbeat
  BY <1>1 DEF Heartbeat, HbTop, HbSelect, FirstHeartbeat, NextHeartbeat, HbCloses, HbClosed
<1>2. CASE MonitorCommand
  BY <1>2 DEF MonitorCommand
<1>3. CASE CmdTop \/ CmdDrives \/ CmdDriven \/ ShutdownBoard
  BY <1>3 DEF CmdTop, CmdDrives, CmdDriven, ShutdownBoard
<1>4. CASE OrderArrives
  BY <1>4, BeamAssumption DEF OrderArrives
<1>5. CASE MasterStops \/ BeatArrives \/ Tick \/ UNCHANGED vars
  BY <1>5 DEF MasterStops, BeatArrives, Tick, vars
<1>6. CASE Transfer
  BY <1>6 DEF Transfer, TransferAccepts, TransferTimesOut, TransferEnds, TransferGoto
<1> QED
  BY <1>1, <1>2, <1>3, <1>4, <1>5, <1>6 DEF Next, Command, Quiet

\* Whenever the lock of the controller is free, what it reports as the state of
\* the beam is the state of its pin (beam_controller.py:40-73).
THEOREM FlagAlwaysTellsPin == SafeSpec => []FlagTellsPin
<1>1. Init => OrdersOnly
  BY DEF Init, OrdersOnly
<1>2. LockInv /\ OrdersOnly /\ [Next]_vars => LockInv'
  BY HeartbeatKeepsLock, CommandKeepsLock, OthersKeepLock DEF Next, Quiet, OrdersOnly
<1>3. LockInv => FlagTellsPin
  BY DEF LockInv
<1> QED
  BY <1>1, <1>2, <1>3, LockInitial, SocketsKeep, PTL DEF SafeSpec

-------------------------------------------------------------------------------
(* Types                                                                     *)

\* The conjuncts of BeamTypeOK, those of the monitors apart from those of the end.
MonitorsTyped ==
    /\ hbPc \in HbPoints /\ cmdPc \in CmdPoints
    /\ hbSock \in Seq(AllBeats) /\ Len(hbSock) <= Room
    /\ cmdSock \in Seq(AllOrders) /\ Len(cmdSock) <= Room
    /\ hbStop \in BOOLEAN /\ cmdStop \in BOOLEAN
    /\ beamLock \in {"free", "heartbeat", "command"}
    /\ pin \in BOOLEAN /\ beamOpen \in BOOLEAN
    /\ waited \in 0..Timeout /\ age \in 0..Timeout + 1
    /\ late \in 0..MaxLag /\ quiet \in 0..SilenceLimit + 1

MasterTyped ==
    /\ transferPc \in {"running", "receiving", "over"}
    /\ masterPc \in {"running", "stopping", "stopping transfer", "joining", "joined"}
    /\ transferStop \in BOOLEAN

\* What is left of a buffer when its first datagram is read.
LEMMA ReadOne ==
    ASSUME NEW S, NEW buffer \in Seq(S), buffer # <<>>
    PROVE  /\ Head(buffer) \in S /\ Head(buffer) = buffer[1]
           /\ Tail(buffer) \in Seq(S) /\ Len(buffer) \in Nat \ {0}
           /\ Len(Tail(buffer)) = Len(buffer) - 1
           /\ \A i \in 1 .. Len(Tail(buffer)) : Tail(buffer)[i] = buffer[i + 1]
  OBVIOUS

LEMMA OrdersLeft ==
    ASSUME cmdSock \in Seq(AllOrders), Len(cmdSock) <= Room, cmdSock # <<>>
    PROVE  Tail(cmdSock) \in Seq(AllOrders) /\ Len(Tail(cmdSock)) <= Room
<1>1. /\ Tail(cmdSock) \in Seq(AllOrders) /\ Len(cmdSock) \in Nat
      /\ Len(Tail(cmdSock)) = Len(cmdSock) - 1
  BY ReadOne
<1> QED
  BY <1>1, BeamAssumption

LEMMA LimitIsNatural == SilenceLimit \in Nat
<1>1. 6 * Room + 2 \in Nat /\ MaxLag \in Nat /\ Timeout \in Nat
  BY BeamAssumption
<1>2. MaxLag * (6 * Room + 2) \in Nat
  BY <1>1
<1> QED
  BY <1>1, <1>2 DEF SilenceLimit

LEMMA ClocksRun ==
    ASSUME NEW limit \in Nat, NEW clock \in 0 .. limit
    PROVE  UpTo(limit, clock) \in 0 .. limit /\ UpTo(limit, clock) <= clock + 1
                                            /\ UpTo(limit, clock) >= clock
  BY DEF UpTo

LEMMA HeartbeatKeepsType == MonitorsTyped /\ Heartbeat => MonitorsTyped'
<1> SUFFICES ASSUME MonitorsTyped, Heartbeat PROVE MonitorsTyped'
  OBVIOUS
<1> USE BeamAssumption, LimitIsNatural
        DEF MonitorsTyped, HbGoto, HbPoints, Watching, Selecting, sockets, stops, controller
<1>1. CASE HbTop
  BY <1>1 DEF HbTop
<1>2. CASE HbSelect
  BY <1>2 DEF HbSelect
<1>3. hbSock # <<>> => Tail(hbSock) \in Seq(AllBeats) /\ Len(Tail(hbSock)) <= Room
  BY ReadOne
<1>4. CASE FirstHeartbeat
  <2>1. hbPc' \in HbPoints /\ late' = 0 /\ age' \in 0 .. Timeout + 1
    BY <1>4 DEF FirstHeartbeat
  <2>2. hbSock' \in Seq(AllBeats) /\ Len(hbSock') <= Room
    BY <1>3, <1>4 DEF FirstHeartbeat
  <2> QED
    BY <1>4, <2>1, <2>2 DEF FirstHeartbeat
<1>5. CASE NextHeartbeat
  <2>1. hbPc' \in HbPoints /\ late' = 0 /\ age' \in 0 .. Timeout + 1
    BY <1>5 DEF NextHeartbeat, Unheard
  <2>2. hbSock' \in Seq(AllBeats) /\ Len(hbSock') <= Room
    BY <1>3, <1>5 DEF NextHeartbeat
  <2> QED
    BY <1>5, <2>1, <2>2 DEF NextHeartbeat
<1>6. CASE HbCloses
  <2>1. /\ hbPc' \in HbPoints /\ late' = 0
        /\ beamLock' \in {"free", "heartbeat", "command"} /\ pin' \in BOOLEAN
    BY <1>6 DEF HbCloses
  <2> QED
    BY <1>6, <2>1 DEF HbCloses
<1>7. CASE HbClosed
  <2>1. hbPc' \in HbPoints /\ late' = 0 /\ beamOpen' \in BOOLEAN /\ beamLock' = "free"
    BY <1>7 DEF HbClosed
  <2> QED
    BY <1>7, <2>1 DEF HbClosed
<1> QED
  BY <1>1, <1>2, <1>4, <1>5, <1>6, <1>7 DEF Heartbeat

LEMMA CommandKeepsType == MonitorsTyped /\ Command => MonitorsTyped'
<1> SUFFICES ASSUME MonitorsTyped, Command PROVE MonitorsTyped'
  OBVIOUS
<1> USE DEF MonitorsTyped, CmdPoints, sockets, stops, controller, clocks
<1>1. CASE CmdTop
  BY <1>1 DEF CmdTop
<1>2. CASE MonitorCommand
  <2>1. cmdSock # <<>> => Tail(cmdSock) \in Seq(AllOrders) /\ Len(Tail(cmdSock)) <= Room
    BY OrdersLeft
  <2>2. cmdSock # <<>> => Head(cmdSock) \in AllOrders
    BY ReadOne
  <2>3. cmdPc' \in CmdPoints /\ cmdSock' \in Seq(AllOrders) /\ Len(cmdSock') <= Room
    BY <1>2, <2>1, <2>2 DEF MonitorCommand, CommandIn, AllOrders
  <2> QED
    BY <1>2, <2>3 DEF MonitorCommand
<1>3. CASE CmdDrives
  BY <1>3 DEF CmdDrives
<1>4. CASE CmdDriven
  BY <1>4 DEF CmdDriven
<1>5. CASE ShutdownBoard
  BY <1>5 DEF ShutdownBoard
<1> QED
  BY <1>1, <1>2, <1>3, <1>4, <1>5 DEF Command

LEMMA OthersKeepType ==
    ASSUME MonitorsTyped,
           Transfer \/ MasterStops \/ BeatArrives \/ OrderArrives \/ Tick \/ UNCHANGED vars
    PROVE  MonitorsTyped'
<1> USE BeamAssumption DEF MonitorsTyped, sockets, stops, controller, clocks
<1>1. CASE MasterStops
  BY <1>1 DEF MasterStops
<1>2. CASE BeatArrives
  BY <1>2, LimitIsNatural DEF BeatArrives
<1>3. CASE OrderArrives
  BY <1>3 DEF OrderArrives
<1>4. CASE Tick
  <2>1. /\ waited' \in 0 .. Timeout /\ age' \in 0 .. Timeout + 1
        /\ quiet' \in 0 .. SilenceLimit + 1
    BY <1>4, ClocksRun, LimitIsNatural DEF Tick
  <2>2. late' \in 0 .. MaxLag
    BY <1>4 DEF Tick
  <2> QED
    BY <1>4, <2>1, <2>2 DEF Tick
<1>5. CASE UNCHANGED vars
  BY <1>5 DEF vars
<1>6. CASE Transfer
  BY <1>6 DEF Transfer, TransferAccepts, TransferTimesOut, TransferEnds, TransferGoto
<1> QED
  BY <1>1, <1>2, <1>3, <1>4, <1>5, <1>6

LEMMA TypeInitial == Init => MonitorsTyped
<1> SUFFICES ASSUME Init PROVE MonitorsTyped
  OBVIOUS
<1> USE BeamAssumption DEF Init
<1>1. hbPc \in HbPoints /\ cmdPc \in CmdPoints
  BY DEF HbPoints, CmdPoints
<1>2. /\ hbSock \in Seq(AllBeats) /\ Len(hbSock) <= Room
      /\ cmdSock \in Seq(AllOrders) /\ Len(cmdSock) <= Room
  OBVIOUS
<1>3. /\ waited \in 0 .. Timeout /\ age \in 0 .. Timeout + 1
      /\ late \in 0 .. MaxLag /\ quiet \in 0 .. SilenceLimit + 1
  BY LimitIsNatural
<1> QED
  BY <1>1, <1>2, <1>3 DEF MonitorsTyped

LEMMA TypeStep == MonitorsTyped /\ [Next]_vars => MonitorsTyped'
  BY HeartbeatKeepsType, CommandKeepsType, OthersKeepType DEF Next, Quiet

LEMMA MasterStep == MasterTyped /\ [Next]_vars => MasterTyped'
<1> SUFFICES ASSUME MasterTyped, [Next]_vars PROVE MasterTyped'
  OBVIOUS
<1> USE DEF MasterTyped, stops
<1>1. CASE Heartbeat
  BY <1>1 DEF Heartbeat, HbTop, HbSelect, FirstHeartbeat, NextHeartbeat, HbCloses, HbClosed
<1>2. CASE Command
  BY <1>2 DEF Command, CmdTop, MonitorCommand, CmdDrives, CmdDriven, ShutdownBoard
<1>3. CASE Transfer
  BY <1>3 DEF Transfer, TransferAccepts, TransferTimesOut, TransferEnds, TransferGoto
<1>4. CASE MasterStops
  BY <1>4 DEF MasterStops
<1>5. CASE BeatArrives \/ OrderArrives \/ Tick \/ Quiet \/ UNCHANGED vars
  BY <1>5 DEF BeatArrives, OrderArrives, Tick, Quiet, vars
<1> QED
  BY <1>1, <1>2, <1>3, <1>4, <1>5 DEF Next

\* No clock passes its limit, no buffer its room, and the threads are at one of
\* their points, for any timeout, lag, room and datagrams.
THEOREM BeamTypeCorrect == SafeSpec => []BeamTypeOK
<1>1. Init => MasterTyped
  BY DEF Init, MasterTyped
<1>2. MonitorsTyped /\ MasterTyped => BeamTypeOK
  BY DEF MonitorsTyped, MasterTyped, BeamTypeOK
<1> QED
  BY <1>1, <1>2, TypeInitial, TypeStep, MasterStep, PTL DEF SafeSpec

-------------------------------------------------------------------------------
(* A monitor that watches has heard                                          *)

\* The ticks that pass while the monitor passes as many points.
Lag(points) == MaxLag * points

LEMMA LagIsNatural == ASSUME NEW n \in Nat PROVE Lag(n) \in Nat
  BY BeamAssumption DEF Lag

LEMMA LagGrows ==
    ASSUME NEW m \in Nat, NEW n \in Nat, m + 1 <= n
    PROVE  Lag(m) + MaxLag <= Lag(n)
<1> USE BeamAssumption DEF Lag
<1>1. ASSUME NEW d \in Nat PROVE MaxLag * d >= 0
  OBVIOUS
<1>2. MaxLag * (n - m - 1) >= 0
  BY <1>1
<1>3. MaxLag * (n - m - 1) = MaxLag * n - MaxLag * m - MaxLag
  OBVIOUS
<1>4. MaxLag * m \in Int /\ MaxLag * n \in Int
  OBVIOUS
<1> QED
  BY <1>2, <1>3, <1>4

LEMMA LagOfRoom ==
    /\ Lag(6 * Room) \in Nat /\ Lag(6 * Room + 1) \in Nat /\ Lag(6 * Room + 2) \in Nat
    /\ Lag(6 * Room) + MaxLag <= Lag(6 * Room + 1)
    /\ Lag(6 * Room + 1) + MaxLag <= Lag(6 * Room + 2)
<1>1. /\ 6 * Room \in Nat /\ 6 * Room + 1 \in Nat /\ 6 * Room + 2 \in Nat
      /\ 6 * Room + 1 <= 6 * Room + 1 /\ (6 * Room + 1) + 1 <= 6 * Room + 2
  BY BeamAssumption
<1> QED
  BY <1>1, LagGrows, LagIsNatural

\* The points passed since the last datagram was read, at most.
Passed ==
    [watch |-> 0, watch_select |-> 1, close |-> 0, closing |-> 1, top |-> 2,
     first |-> 3, first_select |-> 4, ended |-> 0, dead |-> 0]

\* A heartbeat in the buffer may still make the monitor watch.
MayWatch ==
    \/ hbPc \in {"watch", "watch_select", "first", "first_select"}
    \/ hbPc \in {"close", "closing", "top"} /\ ~hbStop

\* What waits in the buffer was sent while the monitor read what was before it:
\* six points for each datagram, and those passed since.
BufferRecent ==
    MayWatch => \A i \in 1 .. Len(hbSock) :
        hbSock[i] = "HEARTBEAT" => quiet <= Lag(6 * (Room - i) + Passed[hbPc]) + late

\* A monitor with nothing to do is on time.
OnTime == hbPc \in Selecting /\ hbSock = <<>> /\ waited < Timeout => late = 0

RecentInv ==
    /\ hbPc = "watch" => quiet <= Lag(6 * Room) + late
    /\ hbPc = "watch_select" => quiet <= Lag(6 * Room + 1) + waited + late
    /\ BufferRecent
    /\ OnTime

LEMMA RecentInitial == Init => RecentInv
  BY DEF Init, RecentInv, BufferRecent, OnTime, Selecting

\* The monitor passes a point without reading.
LEMMA PassingKeepsRecent ==
    ASSUME MonitorsTyped, RecentInv, HbTop \/ HbSelect \/ HbCloses \/ HbClosed
    PROVE  RecentInv'
<1> USE BeamAssumption DEF MonitorsTyped, HbGoto, sockets, stops, controller
<1>1. UNCHANGED <<hbSock, hbStop, quiet>> /\ late' = 0
  BY DEF HbTop, HbSelect, HbCloses, HbClosed
<1>2. MayWatch' => MayWatch /\ Passed[hbPc'] >= Passed[hbPc] + 1 /\ Passed[hbPc] \in 0 .. 4
                            /\ Passed[hbPc'] \in 0 .. 4
  BY DEF HbTop, HbSelect, HbCloses, HbClosed, MayWatch, Passed
<1>3. BufferRecent'
  <2> SUFFICES ASSUME MayWatch', NEW i \in 1 .. Len(hbSock), hbSock[i] = "HEARTBEAT"
               PROVE  quiet <= Lag(6 * (Room - i) + Passed[hbPc']) + late'
    BY <1>1, LagIsNatural DEF BufferRecent
  <2> DEFINE m == 6 * (Room - i) + Passed[hbPc]
             n == 6 * (Room - i) + Passed[hbPc']
  <2>1. m \in Nat /\ n \in Nat /\ m + 1 <= n
    <3>1. Len(hbSock) \in Nat /\ Room - i \in Nat
      OBVIOUS
    <3>2. Passed[hbPc] \in Nat /\ Passed[hbPc'] \in Nat /\ Passed[hbPc] + 1 <= Passed[hbPc']
      BY <1>2
    <3> QED
      BY <3>1, <3>2
  <2>2. quiet <= Lag(m) + late
    BY <1>2 DEF RecentInv, BufferRecent
  <2> HIDE DEF m, n
  <2>3. Lag(m) + MaxLag <= Lag(n) /\ Lag(m) \in Nat /\ Lag(n) \in Nat
    BY <2>1, LagGrows, LagIsNatural
  <2>4. quiet <= Lag(n)
    BY <2>2, <2>3, LimitIsNatural
  <2> QED
    BY <2>3, <2>4, <1>1 DEF n
<1>4. hbPc' = "watch_select" => quiet <= Lag(6 * Room + 1)
  <2>1. hbPc' = "watch_select" => hbPc = "watch"
    BY DEF HbTop, HbSelect, HbCloses, HbClosed
  <2> QED
    BY <2>1, LagOfRoom, LimitIsNatural DEF RecentInv
<1>5. hbPc' # "watch" /\ (hbPc' = "watch_select" => waited' = 0)
  BY DEF HbTop, HbSelect, HbCloses, HbClosed
<1> QED
  BY <1>1, <1>3, <1>4, <1>5, LagIsNatural DEF RecentInv, OnTime

\* A heartbeat that is read was recent, and so is what is left in the buffer.
LEMMA ReadingKeepsBuffer ==
    ASSUME MonitorsTyped, RecentInv, hbPc \in {"first_select", "watch_select"}, hbSock # <<>>,
           hbSock' = Tail(hbSock), UNCHANGED <<hbStop, quiet>>, late' = 0,
           hbPc' \in {"watch", "first", "close"}, hbPc = "watch_select" => hbPc' # "first"
    PROVE  BufferRecent'
<1> SUFFICES ASSUME NEW i \in 1 .. Len(hbSock'), hbSock'[i] = "HEARTBEAT"
             PROVE  quiet <= Lag(6 * (Room - i) + Passed[hbPc']) + late'
  BY DEF BufferRecent
<1>1. /\ Len(hbSock) \in Nat /\ Len(hbSock) <= Room /\ Len(hbSock') = Len(hbSock) - 1
      /\ hbSock'[i] = hbSock[i + 1]
  BY ReadOne DEF MonitorsTyped
<1>2. i + 1 \in 1 .. Len(hbSock) /\ Room - i \in Nat \ {0}
  BY <1>1, BeamAssumption
<1> DEFINE m == 6 * (Room - (i + 1)) + Passed[hbPc]
           n == 6 * (Room - i) + Passed[hbPc']
<1>3. quiet <= Lag(m) + late
  BY <1>1, <1>2 DEF RecentInv, BufferRecent, MayWatch
<1>4. m \in Nat /\ n \in Nat /\ m + 1 <= n
  <2>1. Passed[hbPc] \in 0 .. 4 /\ Passed[hbPc'] \in 0 .. 4
    BY DEF Passed
  <2> QED
    <3>1. Room - (i + 1) \in Nat /\ Room - i = Room - (i + 1) + 1
      <4>1. i \in Nat /\ i + 1 <= Len(hbSock) /\ Len(hbSock) <= Room /\ Room \in Nat
            /\ Len(hbSock) \in Nat
        BY <1>1, <1>2, BeamAssumption
      <4> QED
        BY <4>1
    <3>2. PICK left \in Nat : left = Room - (i + 1) /\ left + 1 = Room - i
      BY <3>1
    <3>3. PICK p \in 0 .. 4, q \in 0 .. 4 : p = Passed[hbPc] /\ q = Passed[hbPc']
      BY <2>1
    <3>4. m = 6 * left + p /\ n = 6 * (left + 1) + q
      BY <3>2, <3>3
    <3> HIDE DEF m, n
    <3> QED
      BY <3>4
<1> HIDE DEF m, n
<1>5. Lag(m) + MaxLag <= Lag(n) /\ Lag(m) \in Nat /\ Lag(n) \in Nat
  BY <1>4, LagGrows, LagIsNatural
<1>6. quiet <= Lag(n) + late'
  BY <1>3, <1>5, LimitIsNatural, BeamAssumption DEF MonitorsTyped
<1> QED
  BY <1>6 DEF n

LEMMA ReadHeartbeatIsRecent ==
    ASSUME MonitorsTyped, RecentInv, hbPc \in {"first_select", "watch_select"}, hbSock # <<>>,
           Head(hbSock) = "HEARTBEAT"
    PROVE  quiet <= Lag(6 * Room)
<1>1. 1 \in 1 .. Len(hbSock) /\ Room \in Nat \ {0} /\ hbSock[1] = "HEARTBEAT"
  BY ReadOne, BeamAssumption DEF MonitorsTyped
<1> DEFINE m == 6 * (Room - 1) + Passed[hbPc]
           n == 6 * Room
<1>2. quiet <= Lag(m) + late
  BY <1>1 DEF RecentInv, BufferRecent, MayWatch
<1>3. m \in Nat /\ n \in Nat /\ m + 1 <= n
  <2>1. Passed[hbPc] \in 0 .. 4
    BY DEF Passed
  <2> QED
    BY <1>1, <2>1
<1> HIDE DEF m, n
<1>4. Lag(m) + MaxLag <= Lag(n) /\ Lag(m) \in Nat /\ Lag(n) \in Nat
  BY <1>3, LagGrows, LagIsNatural
<1>5. quiet <= Lag(n)
  BY <1>2, <1>4, LimitIsNatural, BeamAssumption DEF MonitorsTyped
<1> QED
  BY <1>5 DEF n

LEMMA WaitingKeepsRecent ==
    ASSUME MonitorsTyped, RecentInv, FirstHeartbeat \/ NextHeartbeat
    PROVE  RecentInv'
<1> USE DEF HbGoto, Unheard, stops
<1>1. /\ hbPc \in {"first_select", "watch_select"} /\ hbPc' \in {"watch", "first", "close"}
      /\ hbPc = "watch_select" => hbPc' # "first"
      /\ UNCHANGED <<hbStop, quiet>> /\ late' = 0
  BY DEF FirstHeartbeat, NextHeartbeat
<1>2. BufferRecent'
  <2>1. CASE hbSock # <<>> /\ hbSock' = Tail(hbSock)
    BY <1>1, <2>1, ReadingKeepsBuffer
  <2>2. CASE hbSock = <<>> /\ hbSock' = hbSock
    BY <2>2 DEF BufferRecent
  <2> QED
    BY <2>1, <2>2 DEF FirstHeartbeat, NextHeartbeat
<1>3. hbPc' = "watch" => quiet <= Lag(6 * Room)
  <2>1. hbPc' = "watch" => hbSock # <<>> /\ Head(hbSock) = "HEARTBEAT"
    BY DEF FirstHeartbeat, NextHeartbeat
  <2> QED
    BY <1>1, <2>1, ReadHeartbeatIsRecent
<1> QED
  BY <1>1, <1>2, <1>3, LagOfRoom DEF RecentInv, OnTime, Selecting

LEMMA CommandsKeepRecent ==
    ASSUME RecentInv, Command \/ Transfer \/ MasterStops \/ OrderArrives \/ UNCHANGED vars
    PROVE  RecentInv'
<1> USE DEF sockets, stops
<1>1. UNCHANGED <<hbPc, hbSock, clocks>> /\ (hbStop => hbStop')
  <2>1. CASE Command
    <3>1. UNCHANGED <<hbPc, hbSock, clocks, hbStop>>
      BY <2>1 DEF Command, CmdTop, MonitorCommand, CmdDrives, CmdDriven, ShutdownBoard
    <3> QED
      BY <3>1
  <2>2. CASE MasterStops \/ OrderArrives \/ UNCHANGED vars
    <3>1. UNCHANGED <<hbPc, hbSock, clocks>> /\ (hbStop' = TRUE \/ hbStop' = hbStop)
      BY <2>2 DEF MasterStops, OrderArrives, vars
    <3> QED
      BY <3>1
  <2>3. CASE Transfer
    <3>1. UNCHANGED <<hbPc, hbSock, clocks, hbStop>>
      BY <2>3 DEF Transfer, TransferAccepts, TransferTimesOut, TransferEnds, TransferGoto
    <3> QED
      BY <3>1
  <2> QED
    BY <2>1, <2>2, <2>3
<1> QED
  BY <1>1 DEF RecentInv, BufferRecent, MayWatch, OnTime, clocks

LEMMA ArrivalsKeepRecent ==
    ASSUME MonitorsTyped, RecentInv, BeatArrives
    PROVE  RecentInv'
<1>1. PICK beat \in Beats :
          /\ hbSock' = Append(hbSock, beat)
          /\ quiet' = IF beat = "HEARTBEAT" THEN 0 ELSE quiet
  BY DEF BeatArrives
<1>2. UNCHANGED <<hbPc, hbStop, waited, late>> /\ Len(hbSock) < Room
  BY DEF BeatArrives, stops
<1>3. /\ Len(hbSock) \in Nat /\ Len(hbSock') = Len(hbSock) + 1 /\ hbSock' # <<>>
      /\ hbSock'[Len(hbSock) + 1] = beat
      /\ \A i \in 1 .. Len(hbSock) : hbSock'[i] = hbSock[i]
  BY <1>1 DEF MonitorsTyped
<1>4. quiet' \in Nat /\ quiet \in Nat /\ quiet' <= quiet /\ late \in Nat /\ waited \in Nat
  BY <1>1, LimitIsNatural, BeamAssumption DEF MonitorsTyped
<1>5. BufferRecent'
  <2> SUFFICES ASSUME MayWatch, NEW i \in 1 .. Len(hbSock'), hbSock'[i] = "HEARTBEAT"
               PROVE  quiet' <= Lag(6 * (Room - i) + Passed[hbPc]) + late
    BY <1>2 DEF BufferRecent, MayWatch
  <2>1. Room - i \in Nat /\ Passed[hbPc] \in 0 .. 4
    BY <1>2, <1>3, BeamAssumption DEF MayWatch, Passed
  <2> DEFINE n == 6 * (Room - i) + Passed[hbPc]
  <2>2. n \in Nat
    BY <2>1
  <2>3. i \in 1 .. Len(hbSock) => quiet <= Lag(n) + late
    BY <1>3 DEF RecentInv, BufferRecent
  <2> HIDE DEF n
  <2>4. Lag(n) \in Nat
    BY <2>2, LagIsNatural
  <2>5. i \in 1 .. Len(hbSock) \/ quiet' = 0
    BY <1>1, <1>3
  <2>6. quiet' <= Lag(n) + late
    BY <1>4, <2>3, <2>4, <2>5
  <2> QED
    BY <2>6 DEF n
<1> QED
  BY <1>2, <1>3, <1>4, <1>5, LagOfRoom DEF RecentInv, OnTime

LEMMA TimeKeepsRecent ==
    ASSUME MonitorsTyped, RecentInv, Tick
    PROVE  RecentInv'
<1>1. UNCHANGED <<hbPc, hbSock, hbStop>>
  BY DEF Tick, sockets, stops
<1>2. /\ quiet \in Nat /\ quiet' \in Nat /\ quiet' <= quiet + 1
      /\ waited \in Nat /\ waited' \in Nat /\ waited <= waited' /\ late \in Nat
      /\ waited < Timeout => waited' = waited + 1
  BY ClocksRun, LimitIsNatural, BeamAssumption DEF Tick, MonitorsTyped, UpTo
<1>3. /\ HbDue => late' = late + 1
      /\ ~HbDue => late' = 0
  BY DEF Tick
<1>4. ~HbDue /\ hbPc \notin Over => hbPc \in Selecting /\ hbSock = <<>> /\ waited < Timeout
  BY <1>2, BeamAssumption DEF HbDue
<1>5. BufferRecent'
  <2> SUFFICES ASSUME MayWatch, NEW i \in 1 .. Len(hbSock), hbSock[i] = "HEARTBEAT"
               PROVE  quiet' <= Lag(6 * (Room - i) + Passed[hbPc]) + late'
    BY <1>1 DEF BufferRecent, MayWatch
  <2>1. hbSock # <<>> /\ Len(hbSock) \in Nat /\ Len(hbSock) <= Room
    BY DEF MonitorsTyped
  <2>2. HbDue
    BY <1>4, <2>1 DEF MayWatch, Over
  <2>3. quiet <= Lag(6 * (Room - i) + Passed[hbPc]) + late
    BY DEF RecentInv, BufferRecent
  <2>4. Room - i \in Nat /\ Passed[hbPc] \in 0 .. 4
    BY <2>1, BeamAssumption DEF MayWatch, Passed
  <2>5. 6 * (Room - i) + Passed[hbPc] \in Nat
    BY <2>4
  <2>6. Lag(6 * (Room - i) + Passed[hbPc]) \in Nat
    BY <2>5, LagIsNatural
  <2> QED
    BY <1>2, <1>3, <2>2, <2>3, <2>6
<1>6. hbPc = "watch" => quiet' <= Lag(6 * Room) + late'
  <2>1. hbPc = "watch" => HbDue
    BY DEF HbDue, Over, Selecting
  <2> QED
    BY <1>2, <1>3, <2>1, LagOfRoom DEF RecentInv
<1>7. hbPc = "watch_select" => quiet' <= Lag(6 * Room + 1) + waited' + late'
  <2>1. hbPc = "watch_select" /\ ~HbDue => late = 0 /\ waited' = waited + 1
    BY <1>2, <1>4 DEF RecentInv, OnTime, Over
  <2> QED
    BY <1>2, <1>3, <2>1, LagOfRoom DEF RecentInv
<1>8. OnTime'
  <2>1. hbPc \in Selecting /\ hbSock = <<>> /\ waited' < Timeout => ~HbDue
    BY <1>2, BeamAssumption DEF HbDue
  <2> QED
    BY <1>1, <1>3, <2>1 DEF OnTime
<1> QED
  BY <1>1, <1>5, <1>6, <1>7, <1>8 DEF RecentInv

\* A heartbeat was sent to a monitor that watches no longer ago than its timeout
\* and the lag of what it had to read before, for any timeout, lag, room and
\* datagrams (heartbeat_monitor.py:117-141,149-157).
THEOREM WatchingIsRecent == SafeSpec => []WatchingMeansRecent
<1>1. MonitorsTyped /\ RecentInv /\ [Next]_vars => RecentInv'
  BY PassingKeepsRecent, WaitingKeepsRecent, CommandsKeepRecent, ArrivalsKeepRecent,
     TimeKeepsRecent DEF Next, Quiet, Heartbeat
<1>2. MonitorsTyped /\ RecentInv => WatchingMeansRecent
  <2> SUFFICES ASSUME MonitorsTyped, RecentInv, hbPc \in Watching PROVE quiet <= SilenceLimit
    BY DEF WatchingMeansRecent
  <2>1. SilenceLimit = Timeout + Lag(6 * Room + 2)
    BY DEF SilenceLimit, Lag
  <2>2. waited <= Timeout /\ late <= MaxLag /\ waited \in Nat /\ late \in Nat /\ quiet \in Nat
    BY LimitIsNatural, BeamAssumption DEF MonitorsTyped
  <2> QED
    BY <2>1, <2>2, LagOfRoom, BeamAssumption DEF RecentInv, Watching
<1> QED
  BY <1>1, <1>2, RecentInitial, TypeInitial, TypeStep, PTL DEF SafeSpec
===============================================================================
