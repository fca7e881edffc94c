--------------------------- MODULE FileReceiverProofs ---------------------------
(***************************************************************************)
(* What the file receiver saves is what a client sent, from the first byte *)
(* on and in order, for any clients, names, sizes, separators and faults.  *)
(***************************************************************************)
EXTENDS FileReceiver, Integers, SequenceTheorems, TLAPS

\* A file holds pairs of a client and a place in what it sends.
Units == Clients \X Nat

LEMMA BodyIsSeq ==
    ASSUME NEW c \in Clients, NEW i \in Nat, NEW n \in Nat
    PROVE  /\ Body(c, i, i + n) \in Seq(Units) /\ Len(Body(c, i, i + n)) = n
           /\ \A k \in 1 .. n : Body(c, i, i + n)[k] = <<c, i + k>>
<1>1. (i + n) - i = n
  OBVIOUS
<1>2. \A k \in 1 .. n : <<c, i + k>> \in Units
  BY DEF Units
<1> QED
  BY <1>1, <1>2 DEF Body

LEMMA BodyFromStart ==
    ASSUME NEW c \in Clients, NEW n \in Nat
    PROVE  /\ Body(c, 0, n) \in Seq(Units) /\ Len(Body(c, 0, n)) = n
           /\ \A k \in 1 .. n : Body(c, 0, n)[k] = <<c, k>>
<1>1. 0 \in Nat /\ 0 + n = n /\ \A k \in 1 .. n : 0 + k = k
  OBVIOUS
<1>2. /\ Body(c, 0, 0 + n) \in Seq(Units) /\ Len(Body(c, 0, 0 + n)) = n
      /\ \A k \in 1 .. n : Body(c, 0, 0 + n)[k] = <<c, 0 + k>>
  BY <1>1, BodyIsSeq
<1> QED
  BY <1>1, <1>2

\* What a file holds is extended where it ends.
LEMMA BodyExtends ==
    ASSUME NEW c \in Clients, NEW i \in Nat, NEW n \in Nat
    PROVE  Body(c, 0, i) \o Body(c, i, i + n) = Body(c, 0, i + n)
<1> DEFINE head == Body(c, 0, i)
           tail == Body(c, i, i + n)
           whole == Body(c, 0, i + n)
<1>1. head \in Seq(Units) /\ Len(head) = i /\ \A k \in 1 .. i : head[k] = <<c, k>>
  BY BodyFromStart
<1>2. tail \in Seq(Units) /\ Len(tail) = n /\ \A k \in 1 .. n : tail[k] = <<c, i + k>>
  BY BodyIsSeq
<1>3. whole \in Seq(Units) /\ Len(whole) = i + n /\ \A k \in 1 .. i + n : whole[k] = <<c, k>>
  <2>1. i + n \in Nat
    OBVIOUS
  <2> QED
    BY <2>1, BodyFromStart
<1> HIDE DEF head, tail, whole
<1>4. head \o tail \in Seq(Units) /\ Len(head \o tail) = i + n
  BY <1>1, <1>2, ConcatProperties
<1>5. ASSUME NEW k \in 1 .. i + n PROVE (head \o tail)[k] = <<c, k>>
  <2>1. (head \o tail)[k] = IF k <= i THEN head[k] ELSE tail[k - i]
    BY <1>1, <1>2, ConcatProperties
  <2>2. CASE k <= i
    BY <1>1, <2>1, <2>2
  <2>3. CASE k > i
    <3>1. k - i \in 1 .. n /\ i + (k - i) = k
      BY <2>3
    <3> QED
      BY <1>2, <2>1, <2>3, <3>1
  <2>4. k <= i \/ k > i
    OBVIOUS
  <2> QED
    BY <2>2, <2>3, <2>4
<1>6. head \o tail = whole
  BY <1>3, <1>4, <1>5, SeqEqual
<1> QED
  BY <1>6 DEF head, tail, whole

-------------------------------------------------------------------------------
(* Types                                                                     *)

LEMMA TypeInitial == Init => ReceiverTypeOK
<1> SUFFICES ASSUME Init PROVE ReceiverTypeOK
  OBVIOUS
<1> USE DEF Init
<1>1. files \in [Names -> Seq(Clients \X Nat)] /\ backlog \in Seq(Clients)
  OBVIOUS
<1> QED
  BY <1>1 DEF ReceiverTypeOK, Over

LEMMA QueueShrinks ==
    ASSUME backlog \in Seq(Clients), backlog # <<>>
    PROVE  Head(backlog) \in Clients /\ Tail(backlog) \in Seq(Clients)
  BY HeadTailProperties

LEMMA QueueGrows ==
    ASSUME backlog \in Seq(Clients), NEW c \in Clients
    PROVE  Append(backlog, c) \in Seq(Clients)
  OBVIOUS

\* What recv returns is counted.
LEMMA RecvCounts ==
    ASSUME ReceiverTypeOK, conn \in Clients, NEW n \in 0 .. Chunk, Recv(n)
    PROVE  taken' \in [Clients -> Nat]
  BY ReceiverAssumption DEF ReceiverTypeOK, Recv

LEMMA ReceiverKeepsType == ReceiverTypeOK /\ Receiver => ReceiverTypeOK'
<1> SUFFICES ASSUME ReceiverTypeOK, Receiver PROVE ReceiverTypeOK'
  OBVIOUS
<1> USE DEF ReceiverTypeOK, Over, network, Dies
<1>1. CASE Top
  BY <1>1 DEF Top
<1>2. CASE Accept
  <2>1. conn' \in Clients /\ backlog' \in Seq(Clients)
    BY <1>2, QueueShrinks DEF Accept
  <2> QED
    BY <1>2, <2>1, ReceiverAssumption DEF Accept
<1>3. CASE AcceptTimesOut
  BY <1>3 DEF AcceptTimesOut
<1>4. CASE RecvHeader
  <2>1. PICK n \in 0 .. Chunk :
            /\ Recv(n) /\ Fields(n)
            /\ received' = n - Header
            /\ files' = [files EXCEPT ![FileName[conn]] = WrittenFirst(n)]
    BY <1>4 DEF RecvHeader
  <2>2. conn \in Clients
    BY <1>4 DEF RecvHeader
  <2>3. n - Header \in Nat
    BY <2>1, ReceiverAssumption DEF Fields, Header
  <2>4. WrittenFirst(n) \in Seq(Clients \X Nat)
    BY <2>2, <2>3, BodyFromStart DEF WrittenFirst, Units
  <2>5. files' \in [Names -> Seq(Clients \X Nat)]
    BY <2>1, <2>4
  <2>6. taken' \in [Clients -> Nat]
    BY <2>1, <2>2, RecvCounts
  <2> QED
    BY <1>4, <2>1, <2>2, <2>3, <2>5, <2>6 DEF RecvHeader
<1>5. CASE HeaderRaises
  <2>1. taken' \in [Clients -> Nat]
    BY <1>5, RecvCounts DEF HeaderRaises
  <2> QED
    BY <1>5, <2>1 DEF HeaderRaises
<1>6. CASE RecvBody
  <2>1. PICK n \in 0 .. Chunk :
            /\ Recv(n) /\ received' = received + n
            /\ files' = [files EXCEPT ![FileName[conn]] = Written(n)]
    BY <1>6 DEF RecvBody
  <2>2. conn \in Clients /\ FileName[conn] \in Names /\ n \in Nat
    BY <1>6, ReceiverAssumption DEF RecvBody
  <2>3. files[FileName[conn]] \in Seq(Units)
    BY <2>2 DEF Units
  <2>7. Body(conn, received, received + n) \in Seq(Units)
    BY <2>2, BodyIsSeq
  <2>4. Written(n) \in Seq(Clients \X Nat)
    <3>1. files[FileName[conn]] \o Body(conn, received, received + n) \in Seq(Units)
      BY <2>3, <2>7, ConcatProperties
    <3> QED
      BY <3>1 DEF Written, Units
  <2>5. files' \in [Names -> Seq(Clients \X Nat)]
    BY <2>1, <2>4
  <2>6. taken' \in [Clients -> Nat]
    BY <2>1, <2>2, RecvCounts
  <2> QED
    BY <1>6, <2>1, <2>2, <2>5, <2>6 DEF RecvBody
<1>7. CASE BodyRaises
  <2>1. taken' \in [Clients -> Nat]
    BY <1>7, RecvCounts, ReceiverAssumption DEF BodyRaises
  <2> QED
    BY <1>7, <2>1 DEF BodyRaises
<1>8. CASE Saves
  BY <1>8, ReceiverAssumption DEF Saves
<1> QED
  BY <1>1, <1>2, <1>3, <1>4, <1>5, <1>6, <1>7, <1>8 DEF Receiver

LEMMA BoardsKeepType ==
    ASSUME ReceiverTypeOK, Stop \/ Boards \/ Quiet \/ UNCHANGED vars
    PROVE  ReceiverTypeOK'
<1> USE DEF ReceiverTypeOK, thread, network
<1>1. CASE Stop
  BY <1>1 DEF Stop
<1>2. CASE Boards
  <2> PICK c \in Clients : Connect(c) \/ Send(c) \/ Closes(c) \/ Breaks(c)
    BY <1>2 DEF Boards
  <2>1. CASE Connect(c)
    <3>1. link' \in [Clients -> {"none", "open", "closed", "reset", "refused"}]
      BY <2>1 DEF Connect
    <3>2. backlog' \in Seq(Clients)
      BY <2>1, QueueGrows DEF Connect
    <3> QED
      BY <2>1, <3>1, <3>2 DEF Connect
  <2>2. CASE Send(c)
    BY <2>2, ReceiverAssumption DEF Send, Header
  <2>3. CASE Closes(c) \/ Breaks(c)
    BY <2>3 DEF Closes, Breaks
  <2> QED
    BY <2>1, <2>2, <2>3
<1>3. CASE Quiet \/ UNCHANGED vars
  BY <1>3 DEF Quiet, vars
<1> QED
  BY <1>1, <1>2, <1>3

LEMMA TypeStep == ReceiverTypeOK /\ [Next]_vars => ReceiverTypeOK'
  BY ReceiverKeepsType, BoardsKeepType DEF Next

\* The thread is at one of its points, with a connection while it transfers, and
\* files hold units of clients, for any clients, sizes and faults.
THEOREM ReceiverTypeCorrect == SafeSpec => []ReceiverTypeOK
  BY TypeInitial, TypeStep, PTL DEF SafeSpec

-------------------------------------------------------------------------------
(* What is saved                                                             *)

\* The file that is being written holds what has been received.
Receiving == pc = "body" => files[FileName[conn]] = Body(conn, 0, received)

ContentInv == Receiving /\ SavedFilesAreWhole

LEMMA ContentInitial == Init => ContentInv
  BY DEF Init, ContentInv, Receiving, SavedFilesAreWhole

\* Nothing is written but in RecvHeader and RecvBody, nothing saved but in Saves.
LEMMA OthersKeepContent ==
    ASSUME ContentInv, UNCHANGED <<files, saved>>,
           \/ UNCHANGED <<pc, conn, received>>
           \/ pc \in {"top", "accept"} /\ pc' \in {"over", "accept", "header", "top"}
           \/ pc = "header" /\ pc' = "dead" /\ conn' = NoClient
           \/ pc = "body" /\ pc' = "dead" /\ UNCHANGED conn
    PROVE  ContentInv'
<1>1. Receiving'
  BY DEF ContentInv, Receiving
<1>2. \A n \in Names : ~Torn(n)' => ~Torn(n)
  BY DEF Torn
<1> QED
  BY <1>1, <1>2 DEF ContentInv, SavedFilesAreWhole

LEMMA HeaderKeepsContent ==
    ASSUME ReceiverTypeOK, ContentInv, RecvHeader
    PROVE  ContentInv'
<1>1. PICK n \in 0 .. Chunk : /\ n >= Header /\ received' = n - Header
                             /\ files' = [files EXCEPT ![FileName[conn]] = Body(conn, 0, n - Header)]
  BY DEF RecvHeader, Fields, WrittenFirst
<1>2. /\ conn \in Clients /\ FileName[conn] \in Names /\ NoClient \notin Clients
      /\ files \in [Names -> Seq(Clients \X Nat)]
  BY ReceiverAssumption DEF RecvHeader, ReceiverTypeOK
<1>3. pc = "header" /\ pc' = "body" /\ UNCHANGED <<conn, saved>>
  BY DEF RecvHeader
<1>4. Receiving'
  BY <1>1, <1>2, <1>3 DEF Receiving
<1>5. ASSUME NEW m \in Names, ~Torn(m)' PROVE ~Torn(m) /\ files'[m] = files[m]
  BY <1>1, <1>2, <1>3, <1>5 DEF Torn
<1> QED
  BY <1>3, <1>4, <1>5 DEF ContentInv, SavedFilesAreWhole

LEMMA BodyKeepsContent ==
    ASSUME ReceiverTypeOK, ContentInv, RecvBody
    PROVE  ContentInv'
<1>1. PICK n \in 0 .. Chunk : /\ received' = received + n
                             /\ files' = [files EXCEPT ![FileName[conn]] = Written(n)]
  BY DEF RecvBody
<1>2. /\ conn \in Clients /\ FileName[conn] \in Names /\ NoClient \notin Clients
      /\ files \in [Names -> Seq(Clients \X Nat)] /\ received \in Nat /\ n \in Nat
  BY ReceiverAssumption DEF RecvBody, ReceiverTypeOK
<1>3. pc = "body" /\ UNCHANGED <<pc, conn, saved>>
  BY DEF RecvBody
<1>4. Receiving'
  <2>1. files[FileName[conn]] = Body(conn, 0, received)
    BY <1>3 DEF ContentInv, Receiving
  <2>2. Written(n) = Body(conn, 0, received + n)
    BY <1>2, <2>1, BodyExtends DEF Written
  <2> QED
    BY <1>1, <1>2, <1>3, <2>2 DEF Receiving
<1>5. ASSUME NEW m \in Names, ~Torn(m)' PROVE ~Torn(m) /\ files'[m] = files[m]
  BY <1>1, <1>2, <1>3, <1>5 DEF Torn
<1> QED
  BY <1>3, <1>4, <1>5 DEF ContentInv, SavedFilesAreWhole

LEMMA SavingKeepsContent ==
    ASSUME ReceiverTypeOK, ContentInv, Saves
    PROVE  ContentInv'
<1>1. /\ pc = "body" /\ pc' = "top" /\ UNCHANGED files
      /\ saved' = [saved EXCEPT ![FileName[conn]] = conn]
      /\ received >= Announced[conn]
  BY DEF Saves, Complete
<1>2. /\ conn \in Clients /\ FileName[conn] \in Names /\ NoClient \notin Clients
      /\ saved \in [Names -> Clients \cup {NoClient}] /\ received \in Nat
  BY <1>1, ReceiverAssumption DEF ReceiverTypeOK
<1>3. files[FileName[conn]] = Body(conn, 0, received) /\ Len(files[FileName[conn]]) = received
  BY <1>1, <1>2, BodyFromStart DEF ContentInv, Receiving
<1>4. Receiving'
  BY <1>1 DEF Receiving
<1>5. ASSUME NEW m \in Names, m # FileName[conn] PROVE ~Torn(m) /\ saved'[m] = saved[m]
  BY <1>1, <1>2, <1>5 DEF Torn
<1>6. /\ saved'[FileName[conn]] = conn /\ conn # NoClient
      /\ Len(files[FileName[conn]]) >= Announced[conn]
  BY <1>1, <1>2, <1>3
<1> QED
  BY <1>1, <1>3, <1>4, <1>5, <1>6 DEF ContentInv, SavedFilesAreWhole

LEMMA ContentStep == ReceiverTypeOK /\ ContentInv /\ [Next]_vars => ContentInv'
<1> SUFFICES ASSUME ReceiverTypeOK, ContentInv, [Next]_vars PROVE ContentInv'
  OBVIOUS
<1>1. CASE RecvHeader
  BY <1>1, HeaderKeepsContent
<1>2. CASE RecvBody
  BY <1>2, BodyKeepsContent
<1>3. CASE Saves
  BY <1>3, SavingKeepsContent
<1>4. CASE Top \/ Accept \/ AcceptTimesOut
  BY <1>4, OthersKeepContent DEF Top, Accept, AcceptTimesOut
<1>5. CASE HeaderRaises \/ BodyRaises
  BY <1>5, OthersKeepContent DEF HeaderRaises, BodyRaises, Dies
<1>6. CASE Stop \/ Boards \/ Quiet \/ UNCHANGED vars
  BY <1>6, OthersKeepContent
     DEF Stop, Boards, Connect, Send, Closes, Breaks, Quiet, vars, thread
<1> QED
  BY <1>1, <1>2, <1>3, <1>4, <1>5, <1>6 DEF Next, Receiver

\* Each file but the one that is being written, or was when the thread died, is
\* what the last client saved under its name sent (file_receiver.py:133-148), for
\* any clients, names, sizes, chunks, separators and faults.
THEOREM SavedFilesAreAlwaysWhole == SafeSpec => []SavedFilesAreWhole
<1>1. ContentInv => SavedFilesAreWhole
  BY DEF ContentInv
<1> QED
  BY <1>1, ContentInitial, ContentStep, ReceiverTypeCorrect, PTL DEF SafeSpec
===============================================================================
