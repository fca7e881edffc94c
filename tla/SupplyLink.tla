------------------------------- MODULE SupplyLink -------------------------------
(***************************************************************************)
(* psu_control/ps2000.py: the serial link to the power supply, shared by   *)
(* the threads that command it, and the supply at its other end.  A        *)
(* transfer holds a lock while it writes a telegram and reads what comes   *)
(* within the timeout of the port; what it read is taken as the answer.    *)
(* The telegrams are abstracted to what they ask and what they answer.     *)
(***************************************************************************)
EXTENDS Naturals, Sequences

CONSTANTS
    Callers,    \* the threads
    NoOne,
    Faults,     \* what the line may do, among AllFaults
    Excesses,   \* how many limits the load may make the supply exceed
    MaxFailures,\* telegrams lost or garbled
    Behind      \* telegrams the supply may leave unanswered and still answer late

AllFaults == {"late", "lost", "garbled"}

ASSUME LinkAssumption ==
    /\ NoOne \notin Callers /\ Faults \subseteq AllFaults /\ Behind \in Nat /\ MaxFailures \in Nat
    /\ Excesses \subseteq 0..2

VARIABLES
    stage,          \* of the transfer of each thread
    ask,            \* what each thread asks or last asked
    answer,         \* what each thread takes for its answer
    transferLock,   \* who holds _transfer_lock
    asked,          \* telegrams sent, not yet answered
    buffer,         \* answers received, not yet read
    portOpen,
    remote, output, \* of the supply: remote control, power output
    excess,         \* limits the supply exceeds: voltage, current or both
    failures

transfers == <<stage, ask, answer>>
line == <<asked, buffer, portOpen>>
supply == <<remote, output, excess>>
linkVars == <<transfers, transferLock, line, supply, failures>>

Stages == {"idle", "lock", "read", "returned", "raised"}
Switching == {"output on", "output off"}
Asks == {"remote on", "remote off", "actual"} \cup Switching
Answers == [to : Callers, ask : Asks, ok : BOOLEAN, excess : 0..2, whole : BOOLEAN]
Unanswered(t) == [to |-> t, ask |-> "actual", ok |-> FALSE, excess |-> 0, whole |-> FALSE]

\* After PowerController.__init__: in remote control, the output left as it was.
LinkInit ==
    /\ stage = [t \in Callers |-> "idle"]
    /\ ask = [t \in Callers |-> "actual"]
    /\ answer = [t \in Callers |-> Unanswered(t)]
    /\ transferLock = NoOne
    /\ asked = <<>> /\ buffer = <<>> /\ portOpen = TRUE
    /\ remote = TRUE /\ output \in BOOLEAN /\ excess = 0
    /\ failures = 0

\* t calls a function of the driver, and has its result or its exception.
Call(t, a) ==
    /\ stage[t] = "idle"
    /\ stage' = [stage EXCEPT ![t] = "lock"]
    /\ ask' = [ask EXCEPT ![t] = a]
    /\ UNCHANGED answer

Return(t) ==
    /\ stage[t] \in {"returned", "raised"}
    /\ stage' = [stage EXCEPT ![t] = "idle"]
    /\ ask' = [ask EXCEPT ![t] = "actual"]
    /\ answer' = [answer EXCEPT ![t] = Unanswered(t)]

-------------------------------------------------------------------------------
(* The transfer                                                              *)

\* mutant: without the lock.
SendUnlocked(t) ==
    /\ stage[t] = "lock"
    /\ IF portOpen
       THEN /\ stage' = [stage EXCEPT ![t] = "read"]
            /\ asked' = Append(asked, [to |-> t, ask |-> ask[t]])
            /\ transferLock' = t
       ELSE stage' = [stage EXCEPT ![t] = "raised"] /\ UNCHANGED <<asked, transferLock>>
    /\ UNCHANGED <<ask, answer, buffer, portOpen, supply, failures>>

\* _transfer up to the write: a port that was closed raises.
Send(t) ==
    /\ stage[t] = "lock" /\ transferLock = NoOne
    /\ IF portOpen
       THEN /\ stage' = [stage EXCEPT ![t] = "read"]
            /\ asked' = Append(asked, [to |-> t, ask |-> ask[t]])
            /\ transferLock' = t
       ELSE stage' = [stage EXCEPT ![t] = "raised"] /\ UNCHANGED <<asked, transferLock>>
    /\ UNCHANGED <<ask, answer, buffer, portOpen, supply, failures>>

\* mutant: the lock is taken and released by hand, not by a with.
FreedUnlessRaised(good) == IF good THEN NoOne ELSE transferLock

\* Whatever comes of the read, the with frees the lock.
Freed(good) == NoOne

\* What was read has the form of one answer: nothing is a short answer, and the
\* checksum of two answers in a row, or of a garbled one, does not match.
Acceptable(read) == Len(read) = 1 /\ read[1].whole

\* _transfer after the read: all that has come is read, and checked.
Read(t) ==
    /\ stage[t] = "read"
    /\ IF "late" \in Faults THEN Len(asked) <= Behind ELSE asked = <<>>
    /\ LET good == portOpen /\ Acceptable(buffer) IN
       /\ stage' = [stage EXCEPT ![t] = IF good THEN "returned" ELSE "raised"]
       /\ answer' = IF good THEN [answer EXCEPT ![t] = buffer[1]] ELSE answer
       /\ transferLock' = Freed(good)
    /\ buffer' = <<>>
    /\ UNCHANGED <<ask, asked, portOpen, supply, failures>>

\* close, which takes no lock.
Close ==
    /\ portOpen' = FALSE /\ buffer' = <<>>
    /\ UNCHANGED <<transfers, transferLock, asked, supply, failures>>

-------------------------------------------------------------------------------
(* The supply                                                                *)

\* The output obeys in remote control only; otherwise access is denied.
Obeys(a) == a \in Switching => remote

Executes(a) ==
    /\ remote' = IF a \in {"remote on", "remote off"} THEN a = "remote on" ELSE remote
    /\ output' = IF a \in Switching /\ remote THEN a = "output on" ELSE output
    /\ excess' = IF output' THEN excess ELSE 0

AnswerTo(a, whole) ==
    [to |-> a.to, ask |-> a.ask, ok |-> Obeys(a.ask), whole |-> whole,
     excess |-> IF a.ask = "actual" THEN excess ELSE 0]

Receives(message) == buffer' = IF portOpen THEN Append(buffer, message) ELSE buffer

SupplyAnswers ==
    /\ asked # <<>>
    /\ asked' = Tail(asked)
    /\ LET a == Head(asked) IN
       \/ Executes(a.ask) /\ Receives(AnswerTo(a, TRUE)) /\ UNCHANGED failures
       \/ /\ failures < MaxFailures /\ failures' = failures + 1
          /\ \/ "garbled" \in Faults /\ Executes(a.ask) /\ Receives(AnswerTo(a, FALSE))
             \/ "lost" \in Faults /\ Executes(a.ask) /\ UNCHANGED buffer
             \/ "lost" \in Faults /\ UNCHANGED <<supply, buffer>>
    /\ UNCHANGED <<transfers, transferLock, portOpen>>

\* The load draws more or less than the limits allow.
LoadChanges ==
    /\ output
    /\ excess' \in Excesses
    /\ UNCHANGED <<transfers, transferLock, line, remote, output, failures>>

-------------------------------------------------------------------------------
(* The link by itself, with threads that ask anything                        *)

Transfer(t) == Send(t) \/ Read(t)

LinkNext ==
    \/ \E t \in Callers :
           \/ \E a \in Asks : Call(t, a) /\ UNCHANGED <<transferLock, line, supply, failures>>
           \/ Return(t) /\ UNCHANGED <<transferLock, line, supply, failures>>
           \/ Transfer(t)
    \/ Close \/ SupplyAnswers \/ LoadChanges

LinkSpec == LinkInit /\ [][LinkNext]_linkVars

LinkTypeOK ==
    /\ stage \in [Callers -> Stages] /\ ask \in [Callers -> Asks]
    /\ answer \in [Callers -> Answers]
    /\ transferLock \in Callers \cup {NoOne}
    /\ asked \in Seq([to : Callers, ask : Asks]) /\ Len(asked) <= Behind + 1
    /\ buffer \in Seq(Answers) /\ Len(buffer) <= Behind + 1
    /\ portOpen \in BOOLEAN /\ remote \in BOOLEAN /\ output \in BOOLEAN
    /\ excess \in 0..2 /\ failures \in 0..MaxFailures

\* "send one telegram, receive and check one response" (ps2000.py:115): as long as
\* the supply answers within the timeout of the port, what a thread takes for the
\* answer is the answer to what this thread asked, not to what another one did,
\* whatever is lost or garbled.  Of a supply that answers later nothing is claimed:
\* nothing clears the buffer before a telegram is sent (ps2000.py:135-141).
OwnAnswer ==
    \A t \in Callers :
        stage[t] = "returned" => answer[t].to = t /\ answer[t].ask = ask[t]

\* The lock of the link is freed whatever comes of the read, so that no thread
\* that commands the supply waits for ever (ps2000.py:128-164).
LinkIsFreed == \A t \in Callers : transferLock = t ~> transferLock # t
===============================================================================
