------------------------------ MODULE TCPServer ------------------------------
(***************************************************************************)
(* Ti.Network.TCPServerSocket and TCPServerSocketConnection                *)
(* (src/modules/network/protocols/tcp/tcp_server_*_binding.cpp).           *)
(* One thread runs the reactor of the server (Poco, external): it accepts, *)
(* reads and sends on all connections.  The application listens, writes    *)
(* and closes on the main thread.  A lock guards the queue of a connection *)
(* and the flag that says whether its write handler is installed, but not  *)
(* `closed`, `listening` and the sending itself.                           *)
(*                                                                         *)
(* The n-th write of a connection is the number n; it is sent in pieces of *)
(* Size units.  A unit on the wire is <<write, unit>>.                     *)
(***************************************************************************)
EXTENDS Naturals, Sequences

CONSTANTS
    Connection, \* connections that may be made
    MaxWrites,  \* writes on each, a function
    MaxReads,   \* pieces of data that come in on each, a function
    Size        \* units of a write

\* What is assumed of the constants.
ServerAssumption ==
    {MaxWrites, MaxReads} \subseteq [Connection -> Nat] /\ Size \in Nat \ {0}

VARIABLES
    \* the server
    listening,   \* TCPServerSocketBinding::listening
    stop,        \* SocketReactor's flag
    rpc,         \* where the reactor's thread is
    current,     \* the connection it sends on, in a set
    server,      \* the server object: "new", "used", "joining", "gone"
    closeHeard,  \* history: close() found the server listening
    \* per connection
    status,      \* "none", "accepted", "known" to the application, "freed"
    closed,      \* TCPServerConnectionBinding::closed
    sendData, offset, installed,  \* sendData, currentSendDataOffset, writeReady...
    handler,     \* the reactor has the write handler
    written,     \* writes accepted
    wire,        \* units sent
    dead,        \* sending fails: the peer is gone
    received,    \* pieces of data read from the socket
    readStarted, \* TCPServerConnectionBinding::readStarted
    reads        \* what onRead and onReadComplete were called with, 0 for the latter

server_ == <<listening, stop, rpc, current, server, closeHeard>>
sending == <<sendData, offset, installed, handler, written, wire, dead>>
reading == <<received, readStarted, reads>>
vars == <<server_, status, closed, sending, reading>>

All(v) == [c \in Connection |-> v]

Init ==
    /\ listening = FALSE /\ stop = FALSE /\ rpc = "none" /\ current = {}
    /\ server = "new" /\ closeHeard = FALSE
    /\ status = All("none") /\ closed = All(FALSE)
    /\ sendData = All(<<>>) /\ offset = All(0) /\ installed = All(FALSE)
    /\ handler = All(FALSE) /\ written = All(0) /\ wire = All(<<>>) /\ dead = All(FALSE)
    /\ received = All(0) /\ readStarted = All(FALSE) /\ reads = All(<<>>)

-----------------------------------------------------------------------------
(* The application, on the main thread.                                     *)

AppRuns == server # "joining"

Listen ==
    /\ server = "new" /\ rpc = "none"
    /\ server' = "used" /\ rpc' = "begun"
    /\ UNCHANGED <<listening, stop, current, closeHeard, status, closed, sending, reading>>

\* Mutant: the reactor is not told.
StopListeningOnly == listening' = FALSE /\ UNCHANGED stop

StopListening == listening' = FALSE /\ stop' = TRUE

\* close(): when the thread has not got to listening, nothing happens.
Close ==
    /\ server = "used" /\ listening
    /\ StopListening
    /\ closeHeard' = TRUE
    /\ UNCHANGED <<rpc, current, server, status, closed, sending, reading>>

\* The destructor stops listening, and then joins the thread.
Destroy ==
    /\ server \in {"new", "used"}
    /\ server' = "joining"
    /\ IF listening THEN StopListening ELSE UNCHANGED <<listening, stop>>
    /\ UNCHANGED <<rpc, current, closeHeard, status, closed, sending, reading>>

Joined ==
    /\ server = "joining" /\ rpc \in {"none", "over"}
    /\ server' = "gone"
    /\ UNCHANGED <<listening, stop, rpc, current, closeHeard, status, closed, sending, reading>>

\* The main thread gets to the call of onCreate: the application knows the
\* connection and sets its handlers.
Created(c) ==
    /\ AppRuns /\ status[c] = "accepted"
    /\ status' = [status EXCEPT ![c] = "known"]
    /\ UNCHANGED <<server_, closed, sending, reading>>

\* Mutant: the handler is installed with the first write only.
InstallOnce(c) ==
    IF written[c] = 0
    THEN handler' = [handler EXCEPT ![c] = TRUE] /\ installed' = [installed EXCEPT ![c] = TRUE]
    ELSE UNCHANGED <<handler, installed>>

\* The write handler is installed unless it is there.
Install(c) ==
    /\ installed' = [installed EXCEPT ![c] = TRUE]
    /\ handler' = [handler EXCEPT ![c] = handler[c] \/ ~installed[c]]

\* write(), under the lock of the queue.
Write(c) ==
    /\ AppRuns /\ status[c] = "known" /\ ~closed[c] /\ written[c] < MaxWrites[c]
    /\ written' = [written EXCEPT ![c] = @ + 1]
    /\ sendData' = [sendData EXCEPT ![c] = Append(@, written[c] + 1)]
    /\ Install(c)
    /\ UNCHANGED <<server_, status, closed, offset, wire, dead, reading>>

\* The connection's close(): the reactor keeps its handlers.
CloseConnection(c) ==
    /\ AppRuns /\ status[c] = "known" /\ ~closed[c]
    /\ closed' = [closed EXCEPT ![c] = TRUE]
    /\ UNCHANGED <<server_, status, sending, reading>>

\* The application drops its last reference: the destructor takes all handlers
\* from the reactor, which waits for one that is being called (Poco), and closes
\* the socket.  It uses the reactor whether there still is one or not: it is
\* called, and fails in a way no model can tell, when the server is "gone".
Drop(c) ==
    /\ AppRuns /\ status[c] = "known" /\ c \notin current
    /\ status' = [status EXCEPT ![c] = "freed"]
    /\ closed' = [closed EXCEPT ![c] = TRUE]
    /\ handler' = [handler EXCEPT ![c] = FALSE]
    /\ UNCHANGED <<server_, sendData, offset, installed, written, wire, dead, reading>>

-----------------------------------------------------------------------------
(* The reactor's thread.                                                    *)

Goto(at, to) == rpc = at /\ rpc' = to

\* ListenThread installs the acceptor and then sets the flag.
SetListening ==
    /\ Goto("begun", "loop")
    /\ listening' = TRUE
    /\ UNCHANGED <<stop, current, server, closeHeard, status, closed, sending, reading>>

\* while (listening) reactor.run()
Loop ==
    /\ Goto("loop", IF listening THEN "run" ELSE "over")
    /\ UNCHANGED <<listening, stop, current, server, closeHeard, status, closed>>
    /\ UNCHANGED <<sending, reading>>

\* The reactor has the handlers the constructor gives it.
Handled(c) == status[c] \in {"accepted", "known"}

\* The reactor was told to stop: each connection gets the shutdown notification,
\* and onShutdown takes it for closed.
Shutdown ==
    /\ stop /\ Goto("run", "loop")
    /\ closed' = [c \in Connection |-> closed[c] \/ Handled(c)]
    /\ UNCHANGED <<listening, stop, current, server, closeHeard, status, sending, reading>>

\* The reactor dispatches what a socket is ready for.
Dispatches == rpc = "run" /\ ~stop

\* onAccept: the call of onCreate is queued for the main thread.
Accept(c) ==
    /\ Dispatches /\ status[c] = "none"
    /\ status' = [status EXCEPT ![c] = "accepted"]
    /\ UNCHANGED <<server_, closed, sending, reading>>

\* onReadable: the next piece of data.  The application does not hear of it when
\* it has no handler yet.
Readable(c) ==
    /\ Dispatches /\ Handled(c) /\ ~closed[c] /\ received[c] < MaxReads[c]
    /\ 0 \notin {reads[c][k] : k \in DOMAIN reads[c]}
    /\ received' = [received EXCEPT ![c] = @ + 1]
    /\ readStarted' = [readStarted EXCEPT ![c] = TRUE]
    /\ reads' = IF status[c] = "known"
                THEN [reads EXCEPT ![c] = Append(@, received[c] + 1)] ELSE reads
    /\ UNCHANGED <<server_, status, closed, sending>>

\* onReadable: nothing to read, for the peer has closed its side.
ReadableAtEnd(c) ==
    /\ Dispatches /\ Handled(c) /\ ~closed[c]
    /\ received' = [received EXCEPT ![c] = MaxReads[c]]
    /\ readStarted' = [readStarted EXCEPT ![c] = FALSE]
    /\ reads' = IF status[c] = "known" /\ readStarted[c]
                THEN [reads EXCEPT ![c] = Append(@, 0)] ELSE reads
    /\ UNCHANGED <<server_, status, closed, sending>>

\* The write handler is taken away.
Uninstall(c) ==
    /\ installed' = [installed EXCEPT ![c] = FALSE]
    /\ handler' = [handler EXCEPT ![c] = FALSE]

\* onWritable: with data, the first of the queue is sent next; without, and
\* without the lock, the handler is removed.
Writable(c) ==
    /\ Dispatches /\ handler[c] /\ ~closed[c]
    /\ IF sendData[c] = <<>>
       THEN Uninstall(c) /\ UNCHANGED <<rpc, current>>
       ELSE rpc' = "send" /\ current' = {c} /\ UNCHANGED <<installed, handler>>
    /\ UNCHANGED <<listening, stop, server, closeHeard, status, closed>>
    /\ UNCHANGED <<sendData, offset, written, wire, dead, reading>>

\* Mutant: the offset is what was sent last, and not the sum.
SendAndForget(c) ==
    /\ rpc = "send" /\ c \in current /\ ~closed[c] /\ ~dead[c]
    /\ \E count \in 1..(Size - offset[c]) :
          /\ offset' = [offset EXCEPT ![c] = count]
          /\ wire' = [wire EXCEPT ![c] =
                        @ \o [k \in 1..count |-> <<Head(sendData[c]), offset[c] + k>>]]
    /\ IF offset'[c] = Size THEN rpc' = "sent" /\ UNCHANGED current
       ELSE rpc' = "run" /\ current' = {}
    /\ UNCHANGED <<listening, stop, server, closeHeard, status, closed>>
    /\ UNCHANGED <<sendData, installed, handler, written, dead, reading>>

\* sendBytes of what is left of it: some of it is sent ...
SendBytes(c) ==
    /\ rpc = "send" /\ c \in current /\ ~closed[c] /\ ~dead[c]
    /\ \E count \in 1..(Size - offset[c]) :
          /\ offset' = [offset EXCEPT ![c] = @ + count]
          /\ wire' = [wire EXCEPT ![c] =
                        @ \o [k \in 1..count |-> <<Head(sendData[c]), offset[c] + k>>]]
    /\ IF offset'[c] = Size THEN rpc' = "sent" /\ UNCHANGED current
       ELSE rpc' = "run" /\ current' = {}
    /\ UNCHANGED <<listening, stop, server, closeHeard, status, closed>>
    /\ UNCHANGED <<sendData, installed, handler, written, dead, reading>>

\* ... or it throws, because the peer is gone or the socket was closed since: the
\* reactor catches that, and everything stays.
SendFails(c) ==
    /\ rpc = "send" /\ c \in current
    /\ dead' = [dead EXCEPT ![c] = @ \/ ~closed[c]]
    /\ rpc' = "run" /\ current' = {}
    /\ UNCHANGED <<listening, stop, server, closeHeard, status, closed>>
    /\ UNCHANGED <<sendData, offset, installed, handler, written, wire, reading>>

Pop(c) ==
    /\ sendData' = [sendData EXCEPT ![c] = Tail(@)]
    /\ offset' = [offset EXCEPT ![c] = 0]

\* All of it is sent: onWrite is called, and under the lock it is popped and the
\* handler removed with the last.
Sent(c) ==
    /\ rpc = "sent" /\ c \in current
    /\ Pop(c)
    /\ IF Len(sendData[c]) = 1 THEN Uninstall(c) ELSE UNCHANGED <<installed, handler>>
    /\ rpc' = "run" /\ current' = {}
    /\ UNCHANGED <<listening, stop, server, closeHeard, status, closed>>
    /\ UNCHANGED <<written, wire, dead, reading>>

ThreadStep == SetListening \/ Loop \/ Shutdown
Sends(c) == Writable(c) \/ SendBytes(c) \/ SendFails(c) \/ Sent(c)

Next ==
    \/ Listen \/ Close \/ Destroy \/ Joined \/ ThreadStep
    \/ \E c \in Connection :
          \/ Created(c) \/ Write(c) \/ CloseConnection(c) \/ Drop(c)
          \/ Accept(c) \/ Readable(c) \/ ReadableAtEnd(c) \/ Sends(c)

Spec == Init /\ [][Next]_vars

\* The reactor's thread runs, and each round of its serves every connection that
\* is ready; the main loop goes on.
Fairness ==
    /\ WF_vars(ThreadStep) /\ WF_vars(Joined)
    /\ \A c \in Connection :
          /\ SF_vars(Writable(c)) /\ WF_vars(SendBytes(c) \/ SendFails(c)) /\ WF_vars(Sent(c))
          /\ WF_vars(Created(c))

FairSpec == Spec /\ Fairness

-----------------------------------------------------------------------------
(* Properties.                                                              *)

\* Types of the variables.
TypeOK ==
    /\ {listening, stop, closeHeard} \subseteq BOOLEAN
    /\ rpc \in {"none", "begun", "loop", "run", "send", "sent", "over"}
    /\ current \subseteq Connection
    /\ server \in {"new", "used", "joining", "gone"}
    /\ status \in [Connection -> {"none", "accepted", "known", "freed"}]
    /\ {closed, installed, handler, dead, readStarted} \subseteq [Connection -> BOOLEAN]
    /\ sendData \in [Connection -> Seq(Nat)] /\ offset \in [Connection -> 0..Size]
    /\ written \in [Connection -> Nat] /\ received \in [Connection -> Nat]
    /\ wire \in [Connection -> Seq(Nat \X (1..Size))]
    /\ reads \in [Connection -> Seq(Nat)]

\* The k-th unit of everything that is written.
Unit(k) == <<((k - 1) \div Size) + 1, ((k - 1) % Size) + 1>>

\* What the application hears of a connection are consecutive pieces, from the
\* first after it knew the connection; the end comes last, and once.
ReadsInOrder(c) ==
    \A k \in 2..Len(reads[c]) :
        reads[c][k - 1] # 0 /\ (reads[c][k] = reads[c][k - 1] + 1 \/ reads[c][k] = 0)

\* However sends are cut short, fail and meet writes, what goes over a connection
\* is what was written, without gaps or repetition; and what comes in is heard
\* in its order.
ServedInOrder ==
    \A c \in Connection :
        /\ \A k \in DOMAIN wire[c] : wire[c][k] = Unit(k)
        /\ ReadsInOrder(c)

\* The reactor has the write handler of a connection exactly when it has
\* something to send: else data would stay, or the thread would turn idly.  It
\* has none of a connection that is gone, and would call it.
HandlerIffData ==
    \A c \in Connection :
        IF status[c] = "freed" THEN ~handler[c]
        ELSE /\ handler[c] <=> installed[c]
             /\ handler[c] <=> sendData[c] # <<>>

\* What is written is sent, unless the connection closes or breaks.
WritesAreSent ==
    \A c \in Connection : sendData[c] # <<>> ~> (sendData[c] = <<>> \/ closed[c] \/ dead[c])

\* A server that is closed while it listens ends its thread, and with it every
\* connection; the destructor, which joins the thread, comes to its end unless
\* it came before the thread had set the flag.
ServerEnds == closeHeard ~> (rpc = "over" /\ \A c \in Connection : closed[c] \/ status[c] = "none")

\* What a server or a connection has begun comes to its end.
ServerGoesOn == WritesAreSent /\ ServerEnds

\* No write() reaches the reactor when it is gone with its server: every connection
\* the application still has is closed then.  Its destructor does reach it (Drop).
NoWriteAfterDestroy ==
    server = "gone" => \A c \in Connection : status[c] = "known" => closed[c]

\* What the reactor and its connections know of each other agrees.
HandlersAreSound == HandlerIffData /\ NoWriteAfterDestroy
=============================================================================
