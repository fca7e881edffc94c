---------------------------- MODULE SupplyLinkProofs ----------------------------
(***************************************************************************)
(* If the supply answers within the timeout of the port, the lock pairs    *)
(* each telegram with its answer, for any number of threads: at any time   *)
(* at most one message is on the line, asked by the holder of the lock or  *)
(* answering it.                                                           *)
(***************************************************************************)
EXTENDS SupplyLink, SequenceTheorems, TLAPS

Telegrams == [to : Callers, ask : Asks]

\* The type of the link, one message on the line at most.
LinkShape ==
    /\ stage \in [Callers -> Stages] /\ ask \in [Callers -> Asks]
    /\ answer \in [Callers -> Answers]
    /\ transferLock \in Callers \cup {NoOne}
    /\ asked \in Seq(Telegrams) /\ buffer \in Seq(Answers)
    /\ Len(asked) + Len(buffer) <= 1
    /\ portOpen \in BOOLEAN /\ remote \in BOOLEAN /\ output \in BOOLEAN
    /\ excess \in 0..2 /\ failures \in 0..MaxFailures

Holding == \A t \in Callers : stage[t] = "read" => transferLock = t

\* A message on the line belongs to the transfer of the holder of the lock.
Belongs(message) ==
    /\ message.to = transferLock
    /\ stage[message.to] = "read" => message.ask = ask[message.to]

LinePaired ==
    /\ asked # <<>> => Belongs(asked[1])
    /\ buffer # <<>> => Belongs(buffer[1])

LinkInv == LinkShape /\ Holding /\ LinePaired /\ OwnAnswer

LEMMA OneAtMost ==
    ASSUME NEW S, NEW s \in Seq(S), s # <<>>, Len(s) <= 1
    PROVE  Len(s) = 1 /\ Tail(s) = <<>> /\ s[1] \in S /\ Head(s) = s[1]
<1>1. Len(s) \in Nat \ {0}
  BY EmptySeq
<1>2. Len(s) = 1
  BY <1>1
<1>3. s[1] \in S /\ Head(s) = s[1]
  BY <1>2
<1>4. Tail(s) \in Seq(S) /\ Len(Tail(s)) = 0
  BY <1>2
<1>5. Tail(s) = <<>>
  BY <1>4, EmptySeq
<1> QED
  BY <1>2, <1>3, <1>5

LEMMA OneOfTwo ==
    ASSUME NEW i \in Nat, NEW j \in Nat, i + j <= 1
    PROVE  (i # 0 => i = 1 /\ j = 0) /\ (j # 0 => j = 1 /\ i = 0)
  OBVIOUS

LEMMA OneOnTheLine ==
    ASSUME LinkShape
    PROVE  /\ asked # <<>> => /\ Len(asked) = 1 /\ Tail(asked) = <<>> /\ buffer = <<>>
                              /\ asked[1] \in Telegrams /\ Head(asked) = asked[1]
           /\ buffer # <<>> => Len(buffer) = 1 /\ asked = <<>> /\ buffer[1] \in Answers
<1>1. /\ asked \in Seq(Telegrams) /\ buffer \in Seq(Answers)
      /\ Len(asked) + Len(buffer) <= 1
  BY DEF LinkShape
<1>2. Len(asked) \in Nat /\ Len(buffer) \in Nat
  BY <1>1
<1>3. (asked # <<>> => Len(asked) # 0) /\ (buffer # <<>> => Len(buffer) # 0)
  BY <1>1, EmptySeq
<1>4. asked # <<>> => Len(asked) = 1 /\ Len(buffer) = 0
  BY <1>1, <1>2, <1>3, OneOfTwo, Zenon
<1>5. buffer # <<>> => Len(buffer) = 1 /\ Len(asked) = 0
  BY <1>1, <1>2, <1>3, OneOfTwo, Zenon
<1>6. asked # <<>> => Tail(asked) = <<>> /\ asked[1] \in Telegrams /\ Head(asked) = asked[1]
  BY <1>1, <1>4, OneAtMost
<1>7. buffer # <<>> => buffer[1] \in Answers
  BY <1>1, <1>5, OneAtMost
<1> QED
  BY <1>3, <1>4, <1>5, <1>6, <1>7

\* The messages on the line are of the threads.
LEMMA Senders ==
    ASSUME LinkShape
    PROVE  /\ asked # <<>> => asked[1].to \in Callers
           /\ buffer # <<>> => buffer[1].to \in Callers
  BY OneOnTheLine DEF Telegrams, Answers

LEMMA LinkInitial == LinkInit => LinkInv
<1> SUFFICES ASSUME LinkInit PROVE LinkInv
  OBVIOUS
<1> USE LinkAssumption DEF LinkInit
<1>1. LinkShape
  BY DEF LinkShape, Stages, Asks, Switching, Answers, Unanswered, Telegrams
<1> QED
  BY <1>1 DEF LinkInv, Holding, LinePaired, OwnAnswer

LEMMA CallKeeps ==
    ASSUME LinkInv, NEW t \in Callers, NEW a \in Asks, Call(t, a),
           UNCHANGED <<transferLock, line, supply, failures>>
    PROVE  LinkInv'
<1> USE DEF LinkInv, LinkShape, Call, line, supply
<1>1. LinkShape'
  BY DEF Stages
<1>2. Holding'
  BY DEF Holding
<1>3. LinePaired'
  <2> SUFFICES ASSUME NEW message, Belongs(message), message.to \in Callers PROVE Belongs(message)'
    BY Senders DEF LinePaired
  <2> QED
    BY DEF Belongs
<1>4. OwnAnswer'
  BY DEF OwnAnswer
<1> QED
  BY <1>1, <1>2, <1>3, <1>4

LEMMA ReturnKeeps ==
    ASSUME LinkInv, NEW t \in Callers, Return(t),
           UNCHANGED <<transferLock, line, supply, failures>>
    PROVE  LinkInv'
<1> USE DEF LinkInv, LinkShape, Return, line, supply
<1>1. LinkShape'
  <2>1. "actual" \in Asks /\ "idle" \in Stages
    BY DEF Asks, Stages
  <2>2. Unanswered(t) \in Answers
    BY <2>1 DEF Answers, Unanswered
  <2> QED
    BY <2>1, <2>2
<1>2. Holding'
  BY DEF Holding
<1>3. LinePaired'
  <2> SUFFICES ASSUME NEW message, Belongs(message), message.to \in Callers PROVE Belongs(message)'
    BY Senders DEF LinePaired
  <2> QED
    BY DEF Belongs
<1>4. OwnAnswer'
  BY DEF OwnAnswer
<1> QED
  BY <1>1, <1>2, <1>3, <1>4

LEMMA SendKeeps ==
    ASSUME LinkInv, NEW t \in Callers, Send(t)
    PROVE  LinkInv'
<1> USE DEF LinkInv, LinkShape, Send, supply
<1>1. CASE ~portOpen
  <2>1. LinkShape'
    BY <1>1 DEF Stages
  <2>2. Holding'
    BY <1>1 DEF Holding
  <2>3. LinePaired'
    BY <1>1, Senders DEF LinePaired, Belongs
  <2>4. OwnAnswer'
    BY <1>1 DEF OwnAnswer
  <2> QED
    BY <2>1, <2>2, <2>3, <2>4
<1>2. CASE portOpen
  <2> DEFINE telegram == [to |-> t, ask |-> ask[t]]
  <2>1. asked = <<>> /\ buffer = <<>>
    <3>1. asked # <<>> => FALSE
      BY Senders, LinkAssumption DEF LinePaired, Belongs
    <3>2. buffer # <<>> => FALSE
      BY Senders, LinkAssumption DEF LinePaired, Belongs
    <3> QED
      BY <3>1, <3>2
  <2>2. telegram \in Telegrams /\ asked' = <<telegram>> /\ buffer' = <<>>
    BY <1>2, <2>1 DEF Telegrams
  <2>3. LinkShape'
    BY <1>2, <2>2 DEF Stages
  <2>4. Holding'
    <3> SUFFICES ASSUME NEW u \in Callers, stage'[u] = "read" PROVE u = t
      BY <1>2 DEF Holding
    <3> QED
      BY <1>2, LinkAssumption DEF Holding
  <2>5. LinePaired'
    BY <1>2, <2>2 DEF LinePaired, Belongs
  <2>6. OwnAnswer'
    BY <1>2 DEF OwnAnswer
  <2> QED
    BY <2>3, <2>4, <2>5, <2>6
<1> QED
  BY <1>1, <1>2

LEMMA ReadKeeps ==
    ASSUME LinkInv, "late" \notin Faults, NEW t \in Callers, Read(t)
    PROVE  LinkInv'
<1> USE DEF LinkInv, LinkShape, Read, supply, Freed
<1>1. asked = <<>> /\ transferLock = t
  BY DEF Holding
<1> DEFINE good == portOpen /\ Acceptable(buffer)
<1>2. good => buffer # <<>> /\ buffer[1] \in Answers /\ buffer[1].to = t /\ buffer[1].ask = ask[t]
  <2>1. good => buffer # <<>>
    <3>1. Len(<<>>) # 1
      OBVIOUS
    <3>2. good => Len(buffer) = 1
      BY DEF Acceptable
    <3> QED
      BY <3>1, <3>2, Zenon
  <2>2. buffer # <<>> => buffer[1] \in Answers /\ Belongs(buffer[1])
    BY OneOnTheLine DEF LinePaired
  <2> QED
    BY <1>1, <2>1, <2>2 DEF Belongs
<1>3. LinkShape'
  BY <1>2 DEF Stages
<1>4. Holding'
  <2> SUFFICES ASSUME NEW u \in Callers, stage'[u] = "read" PROVE FALSE
    BY DEF Holding
  <2>1. stage' = [stage EXCEPT ![t] = IF good THEN "returned" ELSE "raised"]
    OBVIOUS
  <2> QED
    BY <1>1, <2>1 DEF Holding
<1>5. LinePaired'
  BY <1>1 DEF LinePaired
<1>6. OwnAnswer'
  <2> SUFFICES ASSUME NEW u \in Callers, stage'[u] = "returned"
               PROVE  answer'[u].to = u /\ answer'[u].ask = ask'[u]
    BY DEF OwnAnswer
  <2>1. CASE u = t
    BY <1>2, <2>1
  <2>2. CASE u # t
    BY <2>2 DEF OwnAnswer
  <2> QED
    BY <2>1, <2>2
<1> QED
  BY <1>3, <1>4, <1>5, <1>6

LEMMA CloseKeeps == LinkInv /\ Close => LinkInv'
<1> SUFFICES ASSUME LinkInv, Close PROVE LinkInv'
  OBVIOUS
<1> USE DEF LinkInv, LinkShape, Close, transfers, supply
<1>1. LinkShape'
  <2>1. Len(asked) \in Nat /\ Len(buffer) \in Nat /\ Len(asked) <= 1
    OBVIOUS
  <2>2. buffer' \in Seq(Answers) /\ Len(buffer') = 0
    BY EmptySeq
  <2>3. portOpen' \in BOOLEAN /\ asked' = asked
    OBVIOUS
  <2>4. Len(asked') + Len(buffer') <= 1
    BY <2>1, <2>2, <2>3
  <2> QED
    BY <2>2, <2>3, <2>4, Zenon
<1>2. Holding' /\ OwnAnswer'
  BY DEF Holding, OwnAnswer
<1>3. LinePaired'
  BY DEF LinePaired, Belongs
<1> QED
  BY <1>1, <1>2, <1>3

LEMMA AnswersKeep == LinkInv /\ SupplyAnswers => LinkInv'
<1> SUFFICES ASSUME LinkInv, SupplyAnswers PROVE LinkInv'
  OBVIOUS
<1> USE DEF LinkInv, LinkShape, SupplyAnswers, transfers
<1> DEFINE a == Head(asked)
<1>1. Len(asked) = 1 /\ buffer = <<>> /\ asked' = <<>> /\ a \in Telegrams /\ a = asked[1]
  BY OneOnTheLine, EmptySeq
<1>2. Belongs(a)
  BY <1>1 DEF LinePaired
<1>3. UNCHANGED supply \/ Executes(a.ask)
  OBVIOUS
<1>4. remote' \in BOOLEAN /\ output' \in BOOLEAN /\ excess' \in 0..2
  <2>1. CASE UNCHANGED supply
    BY <2>1 DEF supply
  <2>2. CASE Executes(a.ask)
    <3>1. remote' \in BOOLEAN /\ output' \in BOOLEAN
      BY <2>2, Zenon DEF Executes
    <3>2. excess' = excess \/ excess' = 0
      BY <2>2, Zenon DEF Executes
    <3> QED
      BY <3>1, <3>2
  <2> QED
    BY <1>3, <2>1, <2>2
<1>5. failures' \in 0..MaxFailures
  <2>1. failures' = failures \/ (failures < MaxFailures /\ failures' = failures + 1)
    BY Zenon
  <2> QED
    BY <2>1, LinkAssumption
<1>6. \A whole \in BOOLEAN : AnswerTo(a, whole) \in Answers
  BY <1>1 DEF AnswerTo, Answers, Telegrams, Obeys
<1>7. \/ buffer' = <<>>
      \/ \E whole \in BOOLEAN : buffer' = <<AnswerTo(a, whole)>>
  <2>1. ASSUME NEW whole \in BOOLEAN, Receives(AnswerTo(a, whole))
        PROVE  buffer' = <<>> \/ buffer' = <<AnswerTo(a, whole)>>
    BY <1>1, <2>1 DEF Receives
  <2>2. \/ UNCHANGED buffer
        \/ Receives(AnswerTo(a, TRUE)) \/ Receives(AnswerTo(a, FALSE))
    BY Zenon
  <2> QED
    BY <1>1, <2>1, <2>2
<1>8. LinkShape'
  <2>1. asked' \in Seq(Telegrams) /\ Len(asked') = 0
    BY <1>1, EmptySeq
  <2>2. buffer' \in Seq(Answers) /\ Len(buffer') <= 1 /\ Len(buffer') \in Nat
    BY <1>6, <1>7, EmptySeq
  <2> QED
    BY <1>4, <1>5, <2>1, <2>2
<1>9. Holding' /\ OwnAnswer'
  BY DEF Holding, OwnAnswer
<1>10. LinePaired'
  <2> SUFFICES ASSUME NEW whole \in BOOLEAN, buffer' = <<AnswerTo(a, whole)>> PROVE LinePaired'
    BY <1>1, <1>7 DEF LinePaired
  <2> QED
    BY <1>1, <1>2 DEF LinePaired, Belongs, AnswerTo
<1> QED
  BY <1>8, <1>9, <1>10

LEMMA LoadKeeps == LinkInv /\ LoadChanges => LinkInv'
  BY LinkAssumption
  DEF LinkInv, LinkShape, Holding, LinePaired, Belongs, OwnAnswer, LoadChanges, transfers, line

LEMMA LinkStutters == LinkInv /\ UNCHANGED linkVars => LinkInv'
  BY DEF LinkInv, LinkShape, Holding, LinePaired, Belongs, OwnAnswer, linkVars, transfers, line, supply

\* Whatever the threads ask and in whatever order, an answer goes to the thread
\* whose telegram it answers, if no answer comes after the timeout of the port
\* (ps2000.py:116-164).
THEOREM AnswersArePaired ==
    ASSUME "late" \notin Faults
    PROVE  LinkSpec => []OwnAnswer
<1>1. LinkInv /\ [LinkNext]_linkVars => LinkInv'
  BY CallKeeps, ReturnKeeps, SendKeeps, ReadKeeps, CloseKeeps, AnswersKeep, LoadKeeps, LinkStutters
     DEF LinkNext, Transfer
<1>2. LinkInv => OwnAnswer
  BY DEF LinkInv
<1> QED
  BY LinkInitial, <1>1, <1>2, PTL DEF LinkSpec
===============================================================================
