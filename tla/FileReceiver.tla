------------------------------ MODULE FileReceiver ------------------------------
(***************************************************************************)
(* rasp/file_receiver.py: the thread that saves the files which boards     *)
(* send over TCP, one connection after the other.  A stream is a header,   *)
(* cut by separators, and the bytes of the file; it is counted in units,   *)
(* several of which make a chunk, the most that one recv returns.  What is *)
(* received is kept apart by where it comes from: the unit i of client c   *)
(* is the pair <<c, i>>.                                                   *)
(***************************************************************************)
EXTENDS Naturals, Sequences

CONSTANTS
    Clients,        \* the boards, each of which sends one file
    NoClient,
    Names,          \* paths under download_path
    FileName,       \* the name in the header of each client
    Announced,      \* file_size in the header of each client
    Length,         \* the units of the file that each client does send
    Separators,     \* the units of each file that hold SEP
    Chunk,          \* DATA_CHUNK_SIZE
    MaxConnections, \* length of the queue of the listening socket
    Faults          \* what may go wrong, among AllFaults

AllFaults == {
    "split",  \* the header comes in two segments
    "short",  \* a client closes before it has sent its file
    "reset",  \* a connection breaks
    "disk"}   \* a file cannot be opened or written

\* The units of a header: a first segment may hold one of them.
Header == 2

ASSUME ReceiverAssumption ==
    /\ NoClient \notin Clients
    /\ FileName \in [Clients -> Names]
    /\ Announced \in [Clients -> Nat] /\ Length \in [Clients -> Nat]
    /\ Separators \in [Clients -> SUBSET Nat]
    /\ Chunk \in Nat /\ Chunk >= Header
    /\ MaxConnections \in Nat \ {0}
    /\ Faults \subseteq AllFaults

VARIABLES
    pc,             \* of the thread
    stopSignal,     \* _stop_signal
    conn,           \* whose connection _client_sock is
    received,       \* received_bytes
    files,          \* what each file holds
    backlog,        \* connections not yet accepted
    link,           \* the connection of each client
    sent, taken,    \* units of each stream sent by its client, returned by recv
    saved           \* history: the client whose file was last saved, by name

thread == <<pc, conn, received, files, taken, saved>>
network == <<backlog, link, sent>>
vars == <<thread, stopSignal, network>>

Over == {"over", "dead"}

\* The units from the first after i to j of the file of c.
Body(c, i, j) == [k \in 1 .. j - i |-> <<c, i + k>>]

Init ==
    /\ pc = "top" /\ stopSignal = FALSE /\ conn = NoClient /\ received = 0
    /\ files = [n \in Names |-> <<>>]
    /\ backlog = <<>>
    /\ link = [c \in Clients |-> "none"]
    /\ sent = [c \in Clients |-> 0] /\ taken = [c \in Clients |-> 0]
    /\ saved = [n \in Names |-> NoClient]

-------------------------------------------------------------------------------
(* run and wait_for_file                                                     *)

Top ==
    /\ pc = "top"
    /\ pc' = IF stopSignal THEN "over" ELSE "accept"
    /\ UNCHANGED <<conn, received, files, taken, saved, stopSignal, network>>

\* The connection has no timeout, though the listening socket has one.
Accept ==
    /\ pc = "accept" /\ backlog # <<>>
    /\ conn' = Head(backlog) /\ backlog' = Tail(backlog)
    /\ pc' = "header"
    /\ UNCHANGED <<received, files, taken, saved, stopSignal, link, sent>>

\* mutant: wait_for_file goes on without a connection.
AcceptTimesOutUnnoticed ==
    /\ pc = "accept" /\ backlog = <<>>
    /\ pc' = "header"
    /\ UNCHANGED <<conn, received, files, taken, saved, stopSignal, network>>

AcceptTimesOut ==
    /\ pc = "accept" /\ backlog = <<>>
    /\ pc' = "top"
    /\ UNCHANGED <<conn, received, files, taken, saved, stopSignal, network>>

\* What a recv returns: what has come of the stream, up to a chunk, and
\* nothing at its end.  A connection that broke raises, one that is idle blocks.
Coming(c) == IF sent[c] - taken[c] <= Chunk THEN sent[c] - taken[c] ELSE Chunk

Recv(n) ==
    /\ link[conn] # "reset"
    /\ n = Coming(conn)
    /\ n > 0 \/ link[conn] = "closed"
    /\ taken' = [taken EXCEPT ![conn] = @ + n]

\* Any exception but the timeout of accept ends the thread.
Dies == pc' = "dead" /\ UNCHANGED <<received, saved, stopSignal, network>>

\* The first chunk must split into name, size, directory and the rest.
Fields(n) == n >= Header /\ \A i \in 1 .. n - Header : i \notin Separators[conn]

\* mutant: the file is opened to append.
WrittenFirstAppended(n) == files[FileName[conn]] \o Body(conn, 0, n - Header)

\* The file is truncated, and begins with what came with the header.
WrittenFirst(n) == Body(conn, 0, n - Header)

RecvHeader ==
    /\ pc = "header"
    /\ \E n \in 0 .. Chunk :
           /\ Recv(n) /\ Fields(n)
           /\ received' = n - Header
           /\ files' = [files EXCEPT ![FileName[conn]] = WrittenFirst(n)]
    /\ pc' = "body"
    /\ UNCHANGED <<conn, saved, stopSignal, network>>

\* The header is not what it should be, cannot be received, or names a file
\* that cannot be opened.
HeaderRaises ==
    /\ pc = "header"
    /\ \/ link[conn] = "reset" /\ UNCHANGED taken
       \/ \E n \in 0 .. Chunk : Recv(n) /\ (~Fields(n) \/ "disk" \in Faults)
    /\ conn' = NoClient
    /\ UNCHANGED files
    /\ Dies

\* mutant: one unit more than announced is waited for.
CompleteLate == received > Announced[conn]

Complete == received >= Announced[conn]

Written(n) == files[FileName[conn]] \o Body(conn, received, received + n)

RecvBody ==
    /\ pc = "body" /\ ~Complete
    /\ \E n \in 0 .. Chunk :
           /\ Recv(n)
           /\ received' = received + n
           /\ files' = [files EXCEPT ![FileName[conn]] = Written(n)]
    /\ UNCHANGED <<pc, conn, saved, stopSignal, network>>

\* Nothing removes what has been written of the file.
BodyRaises ==
    /\ pc = "body"
    /\ \/ ~Complete /\ link[conn] = "reset" /\ UNCHANGED taken
       \/ ~Complete /\ "disk" \in Faults /\ \E n \in 1 .. Chunk : Recv(n)
       \/ Complete /\ "disk" \in Faults /\ UNCHANGED taken
    /\ UNCHANGED <<conn, files>>
    /\ Dies

Saves ==
    /\ pc = "body" /\ Complete
    /\ saved' = [saved EXCEPT ![FileName[conn]] = conn]
    /\ conn' = NoClient /\ pc' = "top"
    /\ UNCHANGED <<received, files, taken, stopSignal, network>>

Receiver ==
    \/ Top \/ Accept \/ AcceptTimesOut
    \/ RecvHeader \/ HeaderRaises \/ RecvBody \/ BodyRaises \/ Saves

\* stop, called by Master.stop.
Stop == ~stopSignal /\ stopSignal' = TRUE /\ UNCHANGED <<thread, network>>

-------------------------------------------------------------------------------
(* The boards and the network                                                *)

\* A full queue refuses the connection.
Connect(c) ==
    /\ link[c] = "none"
    /\ IF Len(backlog) < MaxConnections
       THEN link' = [link EXCEPT ![c] = "open"] /\ backlog' = Append(backlog, c)
       ELSE link' = [link EXCEPT ![c] = "refused"] /\ UNCHANGED backlog
    /\ UNCHANGED <<thread, stopSignal, sent>>

Send(c) ==
    /\ link[c] = "open"
    /\ \E n \in (sent[c] + 1) .. (Header + Length[c]) :
           /\ n >= Header \/ "split" \in Faults
           /\ sent' = [sent EXCEPT ![c] = n]
    /\ UNCHANGED <<thread, stopSignal, backlog, link>>

Closes(c) ==
    /\ link[c] = "open"
    /\ sent[c] = Header + Length[c] \/ "short" \in Faults
    /\ link' = [link EXCEPT ![c] = "closed"]
    /\ UNCHANGED <<thread, stopSignal, backlog, sent>>

Breaks(c) ==
    /\ "reset" \in Faults /\ link[c] = "open"
    /\ link' = [link EXCEPT ![c] = "reset"]
    /\ UNCHANGED <<thread, stopSignal, backlog, sent>>

Boards == \E c \in Clients : Connect(c) \/ Send(c) \/ Closes(c) \/ Breaks(c)

\* The thread is over; boards may still try to connect.
Quiet == pc \in Over /\ UNCHANGED vars

Next == Receiver \/ Stop \/ Boards \/ Quiet

SafeSpec == Init /\ [][Next]_vars

\* The thread is scheduled and accept has a timeout.  Nothing is assumed of a
\* board: the connection it holds has no timeout.
Spec == SafeSpec /\ WF_vars(Receiver)

-------------------------------------------------------------------------------

ReceiverTypeOK ==
    /\ pc \in {"top", "accept", "header", "body"} \cup Over
    /\ stopSignal \in BOOLEAN
    /\ conn \in Clients \cup {NoClient}
    /\ pc \in {"header", "body"} => conn # NoClient
    /\ received \in Nat
    /\ files \in [Names -> Seq(Clients \X Nat)]
    /\ backlog \in Seq(Clients)
    /\ link \in [Clients -> {"none", "open", "closed", "reset", "refused"}]
    /\ sent \in [Clients -> Nat] /\ taken \in [Clients -> Nat]
    /\ saved \in [Names -> Clients \cup {NoClient}]

\* A file is being written, or was when the thread died of an exception.
Torn(n) == conn # NoClient /\ pc \in {"body", "dead"} /\ FileName[conn] = n

\* "Finished saving file" (file_receiver.py:146): whatever the segments of a
\* stream, the clients that wait and the transfers that fail, each file holds
\* what the last client saved under its name sent, from the first byte on and
\* in order, at least as much as it announced, and nothing of another client.
SavedFilesAreWhole ==
    \A n \in Names :
        ~Torn(n) =>
            \/ saved[n] = NoClient /\ files[n] = <<>>
            \/ /\ saved[n] # NoClient
               /\ Len(files[n]) >= Announced[saved[n]]
               /\ files[n] = Body(saved[n], 0, Len(files[n]))

\* The thread has read all that a board has sent, less than the board announced:
\* recv blocks while the board keeps the connection, and returns nothing for ever
\* once the board has closed it.
Starved ==
    /\ pc \in {"header", "body"} /\ link[conn] \in {"open", "closed"}
    /\ sent[conn] = taken[conn] /\ sent[conn] < Header + Announced[conn]

\* "Add a timeout or something so the server can exit" (file_receiver.py:88-90):
\* of all that clients may do, from connecting too often to breaking off, only
\* never sending the rest of an announced file, be it silent or closed, keeps a
\* stopped receiver from ending (file_receiver.py:66,103,136-137).
StopEnds == (stopSignal ~> pc \in Over) \/ <>[]Starved
===============================================================================
