------------------------- MODULE CommandFactoryProofs -------------------------
(***************************************************************************)
(* Proofs about CommandFactory, for any set of commands and any lists that *)
(* are not empty: its invariants, and that it implements Rotation.         *)
(***************************************************************************)
EXTENDS CommandFactory, SequenceTheorems, TLAPS

LEMMA Prefix ==
    ASSUME NEW S, NEW s, NEW k \in Nat, \A i \in 1..k : s[i] \in S
    PROVE  /\ SubSeq(s, 1, k) \in Seq(S)
           /\ Len(SubSeq(s, 1, k)) = k
           /\ \A i \in 1..k : SubSeq(s, 1, k)[i] = s[i]
<1>1. 1 \in Int /\ k \in Int
    OBVIOUS
<1>2. /\ SubSeq(s, 1, k) \in Seq(S)
      /\ Len(SubSeq(s, 1, k)) = IF 1 <= k THEN k - 1 + 1 ELSE 0
      /\ \A i \in 1..k - 1 + 1 : SubSeq(s, 1, k)[i] = s[1 + i - 1]
    BY <1>1, SubSeqProperties
<1> QED BY <1>2

\* What deque.pop() leaves and what it returns.
LEMMA FrontAndLast ==
    ASSUME NEW S, NEW s \in Seq(S), s # <<>>
    PROVE  /\ Front(s) \in Seq(S)
           /\ Len(Front(s)) = Len(s) - 1
           /\ \A i \in 1..Len(s) - 1 : Front(s)[i] = s[i]
           /\ Last(s) = s[Len(s)]
           /\ Last(s) \in S
<1>1. Len(s) - 1 \in Nat /\ Len(s) \in 1..Len(s)
    OBVIOUS
<1>2. \A i \in 1..Len(s) : s[i] \in S
    OBVIOUS
<1>3. \A i \in 1..Len(s) - 1 : s[i] \in S
    BY <1>1, <1>2
<1>4. PICK k \in Nat : k = Len(s) - 1
    BY <1>1
<1>5. /\ SubSeq(s, 1, k) \in Seq(S)
      /\ Len(SubSeq(s, 1, k)) = k
      /\ \A i \in 1..k : SubSeq(s, 1, k)[i] = s[i]
    <2>1. \A i \in 1..k : s[i] \in S
        BY <1>3, <1>4, Zenon
    <2> QED BY <2>1, Prefix
<1>6. Front(s) = SubSeq(s, 1, k)
    BY <1>4, Zenon DEF Front
<1>7. Last(s) = s[Len(s)] /\ Last(s) \in S
    BY <1>1, <1>2, Zenon DEF Last
<1> QED BY <1>4, <1>5, <1>6, <1>7, Zenon

FactoryInv == FactoryTypeOK /\ QueueAccountsForList

LEMMA RefilledQueue ==
    ASSUME FactoryInv
    PROVE  /\ Refilled \in Seq(Commands) /\ Refilled # <<>>
           /\ Len(Refilled) \in 1..Len(jsonDataList)
           /\ \A i \in 1..Len(Refilled) : Refilled[i] = jsonDataList[i]
<1>1. jsonDataList \in Seq(Commands) /\ jsonDataList # <<>>
    BY CommandListsAssumption DEF FactoryInv, FactoryTypeOK
<1>2. CASE cmdQueue = <<>>
    BY <1>1, <1>2 DEF Refilled
<1>3. CASE cmdQueue # <<>>
    BY <1>1, <1>3 DEF Refilled, FactoryInv, FactoryTypeOK, QueueAccountsForList
<1> QED BY <1>2, <1>3

LEMMA FactoryInitInv == FactoryInit => FactoryInv
<1> SUFFICES ASSUME FactoryInit PROVE FactoryInv
    OBVIOUS
<1>1. jsonDataList \in Seq(Commands) /\ jsonDataList # <<>>
    BY CommandListsAssumption DEF FactoryInit
<1>2. /\ cmdQueue \in Seq(Commands)
      /\ Len(cmdQueue) = Len(jsonDataList) - 1
      /\ \A i \in 1..Len(jsonDataList) - 1 : cmdQueue[i] = jsonDataList[i]
      /\ currentCommand = jsonDataList[Len(jsonDataList)]
      /\ currentCommand \in Commands
    BY <1>1, FrontAndLast DEF FactoryInit
<1>3. FactoryTypeOK
    BY <1>2 DEF FactoryInit, FactoryTypeOK
<1>4. QueueAccountsForList
    BY <1>1, <1>2 DEF QueueAccountsForList, Served
<1> QED BY <1>3, <1>4 DEF FactoryInv

\* A pop moves to the neighbour in the list, around its end.
LEMMA PopStep ==
    ASSUME FactoryInv, GetCommands, timedOut
    PROVE  FactoryInv' /\ Served' = IF Served = 1 THEN Len(jsonDataList) ELSE Served - 1
<1>1. /\ cmdQueue' = Front(Refilled)
      /\ currentCommand' = Last(Refilled)
      /\ timedOut' = FALSE
      /\ jsonDataList' = jsonDataList
    BY DEF GetCommands
<1>2. /\ jsonDataList \in Seq(Commands) /\ jsonDataList # <<>>
      /\ cmdQueue \in Seq(Commands)
      /\ Len(cmdQueue) \in 0..Len(jsonDataList)
    BY CommandListsAssumption DEF FactoryInv, FactoryTypeOK, QueueAccountsForList
<1>3. /\ cmdQueue' \in Seq(Commands) /\ currentCommand' \in Commands
      /\ Len(cmdQueue') = Len(Refilled) - 1
      /\ \A i \in 1..Len(Refilled) - 1 : cmdQueue'[i] = Refilled[i]
      /\ currentCommand' = Refilled[Len(Refilled)]
    BY <1>1, RefilledQueue, FrontAndLast
<1>4. FactoryTypeOK'
    BY <1>1, <1>3 DEF FactoryInv, FactoryTypeOK
<1>5. Served' = Len(Refilled)
    BY <1>1, <1>2, <1>3, RefilledQueue DEF Served
<1>6. QueueAccountsForList'
    BY <1>1, <1>2, <1>3, <1>5, RefilledQueue DEF QueueAccountsForList
<1>7. Len(Refilled) = IF Served = 1 THEN Len(jsonDataList) ELSE Served - 1
    <2>1. CASE cmdQueue = <<>>
        BY <1>2, <2>1 DEF Refilled, Served
    <2>2. CASE cmdQueue # <<>>
        <3>1. Len(cmdQueue) # 0
            BY <1>2, <2>2
        <3> QED BY <1>2, <2>2, <3>1 DEF Refilled, Served
    <2> QED BY <2>1, <2>2
<1> QED BY <1>4, <1>5, <1>6, <1>7 DEF FactoryInv

\* A request within the window changes nothing but an empty queue, and a refill
\* leaves the current command where it stands.
LEMMA RefillStep ==
    ASSUME FactoryInv, GetCommands, ~timedOut
    PROVE  FactoryInv' /\ Served' = Served /\ UNCHANGED <<jsonDataList, timedOut>>
<1>1. /\ cmdQueue' = Refilled
      /\ UNCHANGED <<jsonDataList, currentCommand, timedOut>>
    BY DEF GetCommands
<1>2. /\ jsonDataList \in Seq(Commands) /\ jsonDataList # <<>>
      /\ cmdQueue \in Seq(Commands)
      /\ Len(cmdQueue) \in 0..Len(jsonDataList)
    BY CommandListsAssumption DEF FactoryInv, FactoryTypeOK, QueueAccountsForList
<1>3. Served' = Served
    BY <1>1, <1>2 DEF Served, Refilled
<1>4. FactoryTypeOK'
    BY <1>1, RefilledQueue DEF FactoryInv, FactoryTypeOK
<1>5. QueueAccountsForList'
    BY <1>1, <1>2, <1>3, RefilledQueue DEF FactoryInv, QueueAccountsForList
<1> QED BY <1>1, <1>3, <1>4, <1>5 DEF FactoryInv

LEMMA FactoryStep ==
    ASSUME FactoryInv, [FactoryNext]_factoryVars
    PROVE  FactoryInv' /\ [Cycle!Next]_(Cycle!vars)
<1>1. CASE WindowElapses
    BY <1>1 DEF WindowElapses, FactoryInv, FactoryTypeOK, QueueAccountsForList, Served,
                Cycle!Next, Cycle!WindowOver
<1>2. CASE GetCommands /\ timedOut
    <2>1. FactoryInv' /\ Served' = IF Served = 1 THEN Len(jsonDataList) ELSE Served - 1
        BY <1>2, PopStep
    <2> QED BY <1>2, <2>1 DEF GetCommands, Cycle!Next, Cycle!Advance
<1>3. CASE GetCommands /\ ~timedOut
    BY <1>3, RefillStep DEF Cycle!vars
<1>4. CASE UNCHANGED factoryVars
    BY <1>4 DEF factoryVars, FactoryInv, FactoryTypeOK, QueueAccountsForList, Served, Cycle!vars
<1> QED BY <1>1, <1>2, <1>3, <1>4 DEF FactoryNext

LEMMA FactoryInvariant == FactorySpec => []FactoryInv
<1>1. FactoryInv /\ [FactoryNext]_factoryVars => FactoryInv'
    BY FactoryStep
<1> QED BY FactoryInitInv, <1>1, PTL DEF FactorySpec

\* The factory serves and keeps only configurations of the JSON files
\* (command_factory.py:10-59).
THEOREM FactoryTypeCorrect == FactorySpec => []FactoryTypeOK
    BY FactoryInvariant, PTL DEF FactoryInv

\* Refills and pops, in whatever order the windows call for them, never lose a
\* configuration nor serve one twice in a round (command_factory.py:31-36,54-59).
THEOREM QueueAlwaysAccounts == FactorySpec => []QueueAccountsForList
    BY FactoryInvariant, PTL DEF FactoryInv

\* The factory implements the cyclic rotation that changes configuration only
\* when a window is over (command_factory.py:38-59).
THEOREM FactoryImplementsRotation == FactorySpec => ImplementsRotation
<1>1. FactoryInit => Cycle!Init
    <2> SUFFICES ASSUME FactoryInit PROVE Cycle!Init
        OBVIOUS
    <2>1. jsonDataList \in Seq(Commands) /\ jsonDataList # <<>>
        BY CommandListsAssumption DEF FactoryInit
    <2>2. Len(cmdQueue) = Len(jsonDataList) - 1
        BY <2>1, FrontAndLast DEF FactoryInit
    <2> QED BY <2>1, <2>2 DEF FactoryInit, Served, Cycle!Init
<1>2. FactoryInv /\ [FactoryNext]_factoryVars => [Cycle!Next]_(Cycle!vars)
    BY FactoryStep
<1> QED BY <1>1, <1>2, FactoryInvariant, PTL DEF FactorySpec, ImplementsRotation, Cycle!Spec
===============================================================================
