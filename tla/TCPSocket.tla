------------------------------ MODULE TCPSocket ------------------------------
(***************************************************************************)
(* Ti.Network.TCPSocket (src/modules/network/protocols/tcp/tcp_socket.cpp) *)
(* The application connects, writes and closes on the main thread; a read  *)
(* thread connects and then receives; a writer from the thread pool sends  *)
(* the queue and ends when it is empty.  All of them may meet an error and *)
(* close the socket.  The mutex guards `state` and the queue, but is not   *)
(* held while connecting, receiving, sending or firing an event.           *)
(*                                                                         *)
(* The n-th write that was accepted is the number n.                       *)
(***************************************************************************)
EXTENDS Naturals, Sequences, FiniteSets

CONSTANTS
    Writer,      \* threads of the pool that may run WriteThread
    MaxConnects, \* calls of connect()
    MaxWrites    \* writes that are accepted

ASSUME SocketAssumption ==
    /\ "reader" \notin Writer
    /\ MaxConnects \in Nat /\ MaxWrites \in Nat

VARIABLES
    state,      \* TCPSocket::state
    open,       \* the operating system's socket is usable
    queue,      \* TCPSocket::writeQueue
    pc,         \* per thread: where in ReadThread, WriteThread or HandleError
    data,       \* per writer: the Bytes it sends
    connects,   \* calls of connect()
    accepted,   \* writes accepted
    wire,       \* writes sent completely, in order
    closedByApp, \* history: the application has called close()
    refused,    \* history: a connect() found the last read thread still there
    broken      \* the queue was popped when empty: anything may happen

shared == <<state, open, queue>>
counts == <<connects, accepted, wire>>
history == <<closedByApp, refused>>
vars == <<shared, pc, data, counts, history, broken>>

Thread == {"reader"} \cup Writer
Goto(t, p) == pc' = [pc EXCEPT ![t] = p]
At(t, p) == ~broken /\ pc[t] = p

Init ==
    /\ state = "CLOSED" /\ open = FALSE /\ queue = <<>>
    /\ pc = [t \in Thread |-> "none"]
    /\ data = [w \in Writer |-> 0]
    /\ connects = 0 /\ accepted = 0 /\ wire = <<>>
    /\ closedByApp = FALSE /\ refused = FALSE
    /\ broken = FALSE

-----------------------------------------------------------------------------
(* The application, on the main thread.                                     *)

\* Mutant: the read thread is not started.
ConnectWithoutThread ==
    /\ ~broken /\ state = "CLOSED" /\ connects < MaxConnects
    /\ connects' = connects + 1
    /\ state' = "CONNECTING"
    /\ UNCHANGED <<open, queue, pc, data, accepted, wire, history, broken>>

\* Thread::start throws when the last read thread still runs: nothing connects.
Connect ==
    /\ ~broken
    /\ state = "CLOSED"
    /\ connects < MaxConnects
    /\ connects' = connects + 1
    /\ state' = "CONNECTING"
    /\ IF pc["reader"] = "none" THEN Goto("reader", "connect") ELSE UNCHANGED pc
    /\ refused' = (refused \/ pc["reader"] # "none")
    /\ UNCHANGED <<open, queue, data, accepted, wire, closedByApp, broken>>

\* What Close does under the mutex.
Closes ==
    /\ open' = FALSE
    /\ state' = "CLOSED"
    /\ queue' = <<>>

Close ==
    /\ ~broken
    /\ state # "CLOSED"
    /\ Closes
    /\ closedByApp' = TRUE
    /\ UNCHANGED <<pc, data, counts, refused, broken>>

\* A write into an empty queue starts a writer.
Write(w) ==
    /\ ~broken
    /\ state \in {"DUPLEX", "WRITEONLY"}
    /\ accepted < MaxWrites
    /\ accepted' = accepted + 1
    /\ queue' = Append(queue, accepted + 1)
    /\ IF queue = <<>> THEN pc[w] = "none" /\ Goto(w, "begin") ELSE UNCHANGED pc
    /\ UNCHANGED <<state, open, data, connects, wire, history, broken>>

-----------------------------------------------------------------------------
(* ReadThread.                                                              *)

\* connect() makes a new socket of the operating system when it was closed.
Connecting ==
    /\ At("reader", "connect")
    /\ \/ open' = TRUE /\ Goto("reader", "connected")
       \/ Goto("reader", "error") /\ UNCHANGED open
    /\ UNCHANGED <<state, queue, data, counts, history, broken>>

\* Whatever the state has become meanwhile; then "connect" is fired.
Connected ==
    /\ At("reader", "connected")
    /\ state' = "DUPLEX"
    /\ Goto("reader", "receive")
    /\ UNCHANGED <<open, queue, data, counts, history, broken>>

\* receiveBytes gave data, or timed out, and the event is fired; or the peer
\* sent FIN; or the connection failed.
Receive ==
    /\ At("reader", "receive")
    /\ \/ open /\ Goto("reader", "data")
       \/ open /\ Goto("reader", "fin")
       \/ Goto("reader", "error")
    /\ UNCHANGED <<shared, data, counts, history, broken>>

FireData ==
    /\ At("reader", "data")
    /\ Goto("reader", "receive")
    /\ UNCHANGED <<shared, data, counts, history, broken>>

\* Whatever the state has become meanwhile; "end" is fired next.
PeerClosed ==
    /\ At("reader", "fin")
    /\ state' = "WRITEONLY"
    /\ Goto("reader", "event")
    /\ UNCHANGED <<open, queue, data, counts, history, broken>>

-----------------------------------------------------------------------------
(* WriteThread, on a thread w of the pool.                                  *)

\* The mutex is held from here on; "drain" is fired when the queue is empty.
SendNext(w, q) ==
    IF q = <<>> THEN Goto(w, "event") /\ UNCHANGED data
    ELSE Goto(w, "send") /\ data' = [data EXCEPT ![w] = Head(q)]

Begin(w) ==
    /\ At(w, "begin")
    /\ SendNext(w, queue)
    /\ UNCHANGED <<shared, counts, history, broken>>

\* All bytes are sent, in however many calls; or sendBytes throws.
Send(w) ==
    /\ At(w, "send")
    /\ \/ /\ open
          /\ wire' = Append(wire, data[w])
          /\ Goto(w, "pop")
       \/ Goto(w, "error") /\ UNCHANGED wire
    /\ UNCHANGED <<shared, data, connects, accepted, history, broken>>

\* Mutant: the Bytes that was sent stays in the queue.
KeepSent(w) ==
    /\ At(w, "pop") /\ queue # <<>>
    /\ SendNext(w, queue)
    /\ UNCHANGED <<shared, counts, history, broken>>

\* Under the mutex again: the queue may have been cleared in between.
PopSent(w) ==
    /\ At(w, "pop")
    /\ IF queue = <<>>
       THEN broken' = TRUE /\ UNCHANGED <<queue, pc, data>>
       ELSE queue' = Tail(queue) /\ SendNext(w, Tail(queue)) /\ UNCHANGED broken
    /\ UNCHANGED <<state, open, counts, history>>

\* A thread that has fired its last event ("end", "drain" or "close") ends.
FireLast(t) ==
    /\ At(t, "event")
    /\ Goto(t, "none")
    /\ UNCHANGED <<shared, data, counts, history, broken>>

-----------------------------------------------------------------------------
(* HandleError, on any of the threads.                                      *)

\* Only the first thread to meet an error reports it ("error") and closes.
HandleError(t) ==
    /\ At(t, "error")
    /\ IF state \in {"CLOSED", "CLOSING"}
       THEN Goto(t, "none") /\ UNCHANGED state
       ELSE Goto(t, "close") /\ state' = "CLOSING"
    /\ UNCHANGED <<open, queue, data, counts, history, broken>>

\* Close; the event "close" is next when it was not closed before.
CloseAfterError(t) ==
    /\ At(t, "close")
    /\ IF state = "CLOSED" THEN Goto(t, "none") /\ UNCHANGED shared
       ELSE Goto(t, "event") /\ Closes
    /\ UNCHANGED <<data, counts, history, broken>>

ReaderStep == Connecting \/ Connected \/ FireData \/ PeerClosed
WriterStep(w) == Begin(w) \/ Send(w) \/ PopSent(w)
EventStep(t) == HandleError(t) \/ CloseAfterError(t) \/ FireLast(t)

Next ==
    \/ Connect \/ Close \/ ReaderStep \/ Receive
    \/ \E w \in Writer : Write(w) \/ WriterStep(w)
    \/ \E t \in Thread : EventStep(t)

Spec == Init /\ [][Next]_vars

\* Threads go on, and connecting and sending succeed or fail in the end;
\* nobody is obliged to send us anything.
Fairness ==
    /\ WF_vars(ReaderStep)
    /\ \A w \in Writer : WF_vars(WriterStep(w))
    /\ \A t \in Thread : WF_vars(EventStep(t))

FairSpec == Spec /\ Fairness

-----------------------------------------------------------------------------
(* Properties.                                                              *)

\* Types of the variables; a writer that sends has something to send.
TypeOK ==
    /\ state \in {"CLOSED", "CONNECTING", "DUPLEX", "WRITEONLY", "CLOSING"}
    /\ {open, broken, closedByApp, refused} \subseteq BOOLEAN
    /\ queue \in Seq(Nat) /\ wire \in Seq(Nat)
    /\ pc \in [Thread -> {"none", "connect", "connected", "receive", "data", "fin",
                          "begin", "send", "pop", "error", "close", "event"}]
    /\ data \in [Writer -> Nat]
    /\ connects \in Nat /\ accepted \in Nat
    /\ \A w \in Writer : pc[w] = "send" => data[w] \in 1..accepted

\* The application has made one connection and has not closed it: no thread of
\* an earlier connection is about.
Undisturbed == connects <= 1 /\ ~closedByApp

\* Over one connection what goes over the wire is a beginning of what was
\* written, in order and without repetition, however writers start, fail and end.
SentInOrder == Undisturbed => \A k \in 1..Len(wire) : wire[k] = k

\* Two writers never send at a time over one connection: their bytes would mix.
OneWriter == Undisturbed => Cardinality({w \in Writer : pc[w] = "send"}) <= 1

\* An attempt to connect comes to an end, unless the read thread of an earlier
\* connection was still there when it was made.
ConnectEnds == state = "CONNECTING" ~> (state # "CONNECTING" \/ refused \/ broken)

\* What was accepted is sent, or dropped with the connection: it does not stay
\* in the queue without a writer.
QueueIsWorked == queue # <<>> ~> (queue = <<>> \/ broken)

\* Neither an attempt to connect nor what was accepted is left hanging.
SocketGoesOn == ConnectEnds /\ QueueIsWorked
=============================================================================
