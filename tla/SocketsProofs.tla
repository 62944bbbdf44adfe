----------------------------- MODULE SocketsProofs -----------------------------
(***************************************************************************)
(* Theorems about TCPSocket for any pool of writers and any number of      *)
(* connections and writes, and what TCPServerProofs shows of TCPServer     *)
(* carried to the composition of Sockets.                                  *)
(***************************************************************************)
EXTENDS Sockets, FiniteSetTheorems, SequenceTheorems, TLAPS

(***************************************************************************)
(* The inductive invariant.  The writes in the queue are ones that were    *)
(* accepted (Accepted).  Over the first connection, until the application  *)
(* closes it: nothing is written before it is up (Early); one writer at    *)
(* most is busy (One), and it has a queue to work on unless the connection *)
(* is over and will not come back (Worked); while the socket is usable,    *)
(* wire and queue together are the writes in order (Numbered).             *)
(***************************************************************************)
Accepted == \A k \in 1..Len(queue) : queue[k] \in 1..accepted

Busy(w) == pc[w] \in {"begin", "send", "pop", "error", "close"}

Fresh == accepted = 0 /\ queue = <<>> /\ wire = <<>> /\ \A w \in Writer : pc[w] = "none"

\* The connection is closed and nobody is left to open it again.
Over == connects # 0 /\ state = "CLOSED" /\ ~open /\ pc["reader"] \in {"event", "none"}

Early ==
    /\ connects = 0 => Fresh /\ state = "CLOSED" /\ pc["reader"] = "none"
    /\ pc["reader"] \in {"connect", "connected"} => Fresh /\ state = "CONNECTING"

One == \A v, w \in Writer : Busy(v) /\ Busy(w) => v = w

Worked == \A w \in Writer : Busy(w) => queue # <<>> \/ Over

\* A writer has sent the first of the queue and has yet to take it off.
Popping == \E w \in Writer : pc[w] = "pop"

Following ==
    /\ \A k \in 1..Len(queue) : queue[k] + Len(queue) = accepted + k
    /\ Popping => Len(wire) + Len(queue) = accepted + 1
    /\ ~Popping => Len(wire) + Len(queue) = accepted
    /\ \A w \in Writer : pc[w] = "send" => queue # <<>> /\ data[w] = queue[1]

Numbered ==
    /\ \A k \in 1..Len(wire) : wire[k] = k
    /\ open => Following

Typed == TypeOK /\ Accepted
Calm == Early /\ One /\ Worked /\ Numbered

Inv ==
    /\ Typed
    /\ Undisturbed => Calm

\* Taking the first of a sequence.
LEMMA TailOf ==
    ASSUME NEW S, NEW s \in Seq(S), s # <<>>
    PROVE  /\ Len(s) \in Nat /\ Len(s) >= 1 /\ Head(s) = s[1] /\ Head(s) \in S
           /\ Tail(s) \in Seq(S) /\ Len(Tail(s)) = Len(s) - 1
           /\ \A k \in 1..Len(Tail(s)) : Tail(s)[k] = s[k + 1]
  BY HeadTailProperties, EmptySeq

\* Adding one at the end.
LEMMA AppendOf ==
    ASSUME NEW S, NEW s \in Seq(S), NEW e \in S
    PROVE  /\ Append(s, e) \in Seq(S) /\ Len(s) \in Nat /\ Len(Append(s, e)) = Len(s) + 1
           /\ Append(s, e) # <<>>
           /\ \A k \in 1..Len(s) : Append(s, e)[k] = s[k]
           /\ Append(s, e)[Len(s) + 1] = e
           /\ \A k \in 1..Len(Append(s, e)) : k \in 1..Len(s) \/ k = Len(s) + 1
  BY AppendProperties, EmptySeq

\* The empty queue.
LEMMA NoneQueued == <<>> \in Seq(Nat) /\ Len(<<>>) = 0
  BY EmptySeq

-----------------------------------------------------------------------------
(* Types.                                                                    *)

\* Initially ...
LEMMA TypeInit == Init => Typed
<1> SUFFICES ASSUME Init PROVE Typed
    OBVIOUS
<1>1. {open, broken, closedByApp, refused} \subseteq BOOLEAN
      BY Zenon DEF Init
<1>2. queue \in Seq(Nat) /\ wire \in Seq(Nat) /\ Len(queue) = 0
      BY EmptySeq DEF Init
<1>3. \A w \in Writer : pc[w] # "send"
      BY DEF Init, Thread
<1> QED BY <1>1, <1>2, <1>3 DEF Init, Typed, TypeOK, Accepted

\* ... when a writer takes the next of the queue q ...
LEMMA TypeSendNext ==
    ASSUME Typed, NEW w \in Writer, NEW q \in Seq(Nat), SendNext(w, q),
           \A k \in 1..Len(q) : q[k] \in 1..accepted
    PROVE  /\ data' \in [Writer -> Nat]
           /\ pc' \in [Thread -> {"none", "connect", "connected", "receive", "data", "fin",
                                  "begin", "send", "pop", "error", "close", "event"}]
           /\ \A v \in Writer : pc'[v] = "send" => data'[v] \in 1..accepted
<1>1. w \in Thread /\ \A v \in Writer : v \in Thread
      BY DEF Thread
<1>2. CASE q = <<>>
      BY <1>1, <1>2 DEF SendNext, Goto, Typed, TypeOK
<1>3. CASE q # <<>>
  <2>1. Head(q) \in 1..accepted /\ accepted \in Nat
        BY <1>3, TailOf DEF Typed, TypeOK
  <2>2. Head(q) \in Nat
        BY <2>1
  <2>3. pc' = [pc EXCEPT ![w] = "send"] /\ data' = [data EXCEPT ![w] = Head(q)]
        BY <1>3 DEF SendNext, Goto
  <2> QED BY <1>1, <2>1, <2>2, <2>3 DEF Typed, TypeOK
<1> QED BY <1>2, <1>3

\* ... and in every step.
LEMMA TypeNext == Typed /\ [Next]_vars => Typed'
<1> SUFFICES ASSUME Typed, [Next]_vars PROVE Typed'
    OBVIOUS
<1> USE DEF shared, counts, history, Goto, At
<1>0. \A w \in Writer : w \in Thread
      BY DEF Thread
<1>00. "reader" \in Thread
      BY DEF Thread
<1>1. CASE Connect
  <2>1. refused' \in BOOLEAN
        BY <1>1 DEF Connect
  <2> QED BY <1>1, <2>1, <1>0, <1>00, SocketAssumption DEF Connect, Typed, TypeOK, Accepted
<1>2. CASE Close
  <2>1. closedByApp' \in BOOLEAN /\ open' \in BOOLEAN
        BY <1>2 DEF Close, Closes
  <2> QED BY <1>2, <2>1, NoneQueued DEF Close, Closes, Typed, TypeOK, Accepted
<1>3. CASE Connecting
      BY <1>3, <1>0, <1>00 DEF Connecting, Typed, TypeOK, Accepted
<1>4. CASE Connected
      BY <1>4, <1>0, <1>00 DEF Connected, Typed, TypeOK, Accepted
<1>5. CASE FireData \/ PeerClosed
      BY <1>5, <1>0, <1>00 DEF FireData, PeerClosed, Typed, TypeOK, Accepted
<1>6. CASE Receive
      BY <1>6, <1>0, <1>00 DEF Receive, Typed, TypeOK, Accepted
<1>7. ASSUME NEW w \in Writer, Write(w) PROVE Typed'
  <2>1. queue' = Append(queue, accepted + 1) /\ accepted' = accepted + 1 /\ queue \in Seq(Nat)
        /\ accepted \in Nat
        BY <1>7 DEF Write, Typed, TypeOK
  <2>2. queue' \in Seq(Nat) /\ Accepted'
    <3>1. \A k \in 1..Len(queue) : queue[k] \in 1..accepted
          BY DEF Typed, Accepted
    <3>2. \A k \in 1..Len(queue') : queue'[k] \in 1..accepted'
          BY <2>1, <3>1, AppendOf
    <3> QED BY <2>1, <3>2, AppendOf DEF Accepted
  <2>3. \A v \in Writer : pc'[v] = "send" => pc[v] = "send"
        BY <1>7, <1>0 DEF Write, Typed, TypeOK
  <2>4. UNCHANGED <<state, open, data, connects, wire, history, broken>>
        BY <1>7 DEF Write
  <2>5. pc' \in [Thread -> {"none", "connect", "connected", "receive", "data", "fin",
                                  "begin", "send", "pop", "error", "close", "event"}]
        BY <1>7, <1>0 DEF Write, Typed, TypeOK
  <2> QED BY <2>1, <2>2, <2>3, <2>4, <2>5 DEF Typed, TypeOK
<1>8. ASSUME NEW w \in Writer, Begin(w) PROVE Typed'
  <2>1. SendNext(w, queue) /\ UNCHANGED <<shared, counts, history, broken>>
        BY <1>8 DEF Begin
  <2>2. queue \in Seq(Nat) /\ \A k \in 1..Len(queue) : queue[k] \in 1..accepted
        BY DEF Typed, TypeOK, Accepted
  <2>3. /\ data' \in [Writer -> Nat]
        /\ pc' \in [Thread -> {"none", "connect", "connected", "receive", "data", "fin",
                               "begin", "send", "pop", "error", "close", "event"}]
        /\ \A v \in Writer : pc'[v] = "send" => data'[v] \in 1..accepted
        BY <2>1, <2>2, TypeSendNext
  <2> QED BY <2>1, <2>3 DEF Typed, TypeOK, Accepted
<1>9. ASSUME NEW w \in Writer, Send(w) PROVE Typed'
  <2>1. wire' \in Seq(Nat)
    <3>1. data[w] \in Nat /\ wire \in Seq(Nat)
          BY DEF Typed, TypeOK
    <3>2. Append(wire, data[w]) \in Seq(Nat)
          BY <3>1, AppendOf
    <3>3. wire' = Append(wire, data[w]) \/ wire' = wire
          BY <1>9 DEF Send
    <3> QED BY <3>1, <3>2, <3>3
  <2> QED BY <1>9, <1>0, <2>1 DEF Send, Typed, TypeOK, Accepted
<1>10. ASSUME NEW w \in Writer, PopSent(w) PROVE Typed'
  <2>1. CASE queue = <<>>
        BY <1>10, <2>1 DEF PopSent, Typed, TypeOK, Accepted
  <2>2. CASE queue # <<>>
    <3>1. queue' = Tail(queue) /\ SendNext(w, Tail(queue))
          /\ UNCHANGED <<state, open, counts, history, broken>>
          BY <1>10, <2>2 DEF PopSent
    <3>2. queue \in Seq(Nat) /\ \A k \in 1..Len(queue) : queue[k] \in 1..accepted
          BY DEF Typed, TypeOK, Accepted
    <3>3. /\ Tail(queue) \in Seq(Nat) /\ Len(Tail(queue)) = Len(queue) - 1 /\ Len(queue) \in Nat
          /\ \A k \in 1..Len(Tail(queue)) : Tail(queue)[k] = queue[k + 1]
          BY <2>2, <3>2, TailOf
    <3>4. \A k \in 1..Len(Tail(queue)) : Tail(queue)[k] \in 1..accepted
          BY <3>2, <3>3
    <3>5. /\ data' \in [Writer -> Nat]
          /\ pc' \in [Thread -> {"none", "connect", "connected", "receive", "data", "fin",
                               "begin", "send", "pop", "error", "close", "event"}]
          /\ \A v \in Writer : pc'[v] = "send" => data'[v] \in 1..accepted
          BY <3>1, <3>3, <3>4, TypeSendNext
    <3> QED BY <3>1, <3>3, <3>4, <3>5 DEF Typed, TypeOK, Accepted
  <2> QED BY <2>1, <2>2
<1>11. ASSUME NEW t \in Thread, HandleError(t) PROVE Typed'
      BY <1>11, <1>0 DEF HandleError, Typed, TypeOK, Accepted
<1>12. ASSUME NEW t \in Thread, CloseAfterError(t) PROVE Typed'
  <2>1. CASE state = "CLOSED"
        BY <1>12, <1>0, <2>1 DEF CloseAfterError, Typed, TypeOK, Accepted
  <2>2. CASE state # "CLOSED"
    <3>1. /\ state' = "CLOSED" /\ open' = FALSE /\ queue' = <<>> /\ pc' = [pc EXCEPT ![t] = "event"]
          /\ UNCHANGED <<data, counts, history, broken>>
          BY <1>12, <2>2 DEF CloseAfterError, Closes
    <3>2. \A v \in Writer : pc'[v] = "send" => pc[v] = "send"
          BY <1>0, <3>1 DEF Typed, TypeOK
    <3>3. {open', broken', closedByApp', refused'} \subseteq BOOLEAN
          BY <3>1 DEF Typed, TypeOK
    <3>4. /\ queue' \in Seq(Nat) /\ Accepted'
          BY <3>1, NoneQueued DEF Accepted
    <3>5. pc' \in [Thread -> {"none", "connect", "connected", "receive", "data", "fin",
                             "begin", "send", "pop", "error", "close", "event"}]
          BY <3>1 DEF Typed, TypeOK
    <3>6. \A v \in Writer : pc'[v] = "send" => data'[v] \in 1..accepted'
          BY <3>1, <3>2 DEF Typed, TypeOK
    <3> QED BY <3>1, <3>3, <3>4, <3>5, <3>6 DEF Typed, TypeOK
  <2> QED BY <2>1, <2>2
<1>13. ASSUME NEW t \in Thread, FireLast(t) PROVE Typed'
      BY <1>13, <1>0 DEF FireLast, Typed, TypeOK, Accepted
<1>14. CASE UNCHANGED vars
      BY <1>14 DEF vars, Typed, TypeOK, Accepted
<1> QED BY <1>1, <1>2, <1>3, <1>4, <1>5, <1>6, <1>7, <1>8, <1>9, <1>10, <1>11, <1>12, <1>13,
           <1>14 DEF Next, ReaderStep, WriterStep, EventStep

\* The types hold for any pool of writers.
THEOREM TypeCorrect == Spec => []TypeOK
<1>1. Typed => TypeOK
      BY DEF Typed
<1> QED BY <1>1, TypeInit, TypeNext, PTL DEF Spec

-----------------------------------------------------------------------------
(* The first connection.                                                     *)

\* It is undisturbed from the start.
LEMMA OnceUndisturbed ==
    ASSUME Typed, [Next]_vars, Undisturbed'
    PROVE  Undisturbed
<1> USE DEF shared, counts, history
<1>1. connects \in Nat /\ closedByApp \in BOOLEAN
      BY DEF Typed, TypeOK
<1>2. connects' \in {connects, connects + 1} /\ (closedByApp => closedByApp')
  BY DEF Next, Connect, Close, ReaderStep, WriterStep, EventStep, Connecting, Connected, Receive,
     FireData, PeerClosed, Write, Begin, Send, PopSent, HandleError, CloseAfterError, FireLast, vars
<1> QED BY <1>1, <1>2 DEF Undisturbed

\* Nothing disturbs it before it is made.
LEMMA CalmInit == Init => Calm
<1> SUFFICES ASSUME Init PROVE Calm
    OBVIOUS
<1>1. "reader" \in Thread /\ (\A w \in Writer : w \in Thread) /\ Len(queue) = 0 /\ Len(wire) = 0
      BY NoneQueued DEF Thread, Init
<1>2. \A w \in Writer : ~Busy(w)
      BY <1>1 DEF Init, Busy
<1> QED BY <1>1, <1>2 DEF Init, Calm, Early, Fresh, One, Worked, Numbered

\* A step that leaves connections, writers, queue and wire alone.
LEMMA QuietStep ==
    ASSUME Calm, Early', UNCHANGED <<queue, accepted, wire, data, connects>>,
           \A w \in Writer : pc'[w] = pc[w],
           open' = open \/ Fresh,
           Over => Over'
    PROVE  Calm'
<1>1. One' /\ Worked'
      BY DEF Calm, One, Worked, Busy
<1>2. CASE open' = open
  <2>1. Popping' <=> Popping
        BY DEF Popping
  <2>2. Following => Following'
        BY <2>1 DEF Following
  <2> QED BY <1>1, <1>2, <2>2 DEF Calm, Numbered
<1>3. CASE Fresh
  <2>1. /\ Len(queue') = 0 /\ Len(wire') = 0 /\ accepted' = 0
        /\ \A w \in Writer : pc'[w] = "none"
        BY <1>3, NoneQueued DEF Fresh
  <2>2. ~Popping'
        BY <2>1 DEF Popping
  <2>3. Following'
        BY <2>1, <2>2 DEF Following
  <2>4. \A k \in 1..Len(wire') : wire'[k] = k
        BY <2>1
  <2> QED BY <1>1, <2>3, <2>4 DEF Calm, Numbered
<1> QED BY <1>1, <1>2, <1>3 DEF Calm

\* Connecting, and what the reader does before it meets an error.
LEMMA ReaderCalm ==
    ASSUME Typed, Calm, Undisturbed', Connect \/ ReaderStep \/ Receive
    PROVE  Calm'
<1> USE DEF shared, counts, history, Goto, At
<1>1. "reader" \in Thread /\ (\A w \in Writer : w \in Thread /\ w # "reader")
      BY SocketAssumption DEF Thread
<1>2. connects \in Nat /\ pc \in [Thread -> {"none", "connect", "connected", "receive", "data",
                            "fin", "begin", "send", "pop", "error", "close", "event"}]
      BY DEF Typed, TypeOK
<1>3. CASE Connect
  <2>1. connects = 0
        BY <1>2, <1>3 DEF Connect, Undisturbed
  <2>2. Fresh /\ pc["reader"] = "none"
        BY <2>1 DEF Calm, Early
  <2>3. /\ connects' = 1 /\ state' = "CONNECTING" /\ pc' = [pc EXCEPT !["reader"] = "connect"]
        /\ UNCHANGED <<open, queue, data, accepted, wire>>
        BY <1>3, <2>1, <2>2 DEF Connect
  <2>4. Fresh' /\ \A w \in Writer : pc'[w] = "none"
        BY <1>1, <1>2, <2>2, <2>3 DEF Fresh
  <2>5. Early'
        BY <2>3, <2>4 DEF Early
  <2>6. \A w \in Writer : ~Busy(w)'
        BY <2>4 DEF Busy
  <2>7. One' /\ Worked'
        BY <2>6 DEF One, Worked
  <2>8. Len(queue') = 0 /\ Len(wire') = 0 /\ accepted' = 0 /\ ~Popping'
        BY <2>4, NoneQueued DEF Fresh, Popping
  <2>9. Following' /\ \A k \in 1..Len(wire') : wire'[k] = k
        BY <2>4, <2>8 DEF Following
  <2> QED BY <2>5, <2>7, <2>9, Zenon DEF Calm, Numbered
<1>4. ASSUME Connecting \/ Connected PROVE Calm'
  <2>1. Fresh /\ state = "CONNECTING" /\ pc["reader"] \in {"connect", "connected"}
        BY <1>4 DEF Connecting, Connected, Calm, Early
  <2>2. connects # 0 /\ ~Over
        BY <2>1 DEF Calm, Early, Over
  <2>3. \A w \in Writer : pc'[w] = pc[w]
        BY <1>1, <1>2, <1>4 DEF Connecting, Connected
  <2>4. UNCHANGED <<queue, accepted, wire, data, connects>>
        BY <1>4 DEF Connecting, Connected
  <2>5. Fresh'
        BY <2>1, <2>3, <2>4 DEF Fresh
  <2>6. pc'["reader"] \in {"connect", "connected"} => state' = "CONNECTING"
        BY <1>1, <1>2, <1>4, <2>1 DEF Connecting, Connected
  <2>7. Early'
        BY <2>2, <2>4, <2>5, <2>6 DEF Early
  <2> QED BY <2>1, <2>2, <2>3, <2>4, <2>7, QuietStep
<1>5. ASSUME Receive \/ FireData \/ PeerClosed PROVE Calm'
  <2>1. pc["reader"] \in {"receive", "data", "fin"}
        BY <1>5 DEF Receive, FireData, PeerClosed
  <2>2. connects # 0 /\ ~Over
        BY <2>1 DEF Calm, Early, Over
  <2>3. \A w \in Writer : pc'[w] = pc[w]
        BY <1>1, <1>2, <1>5 DEF Receive, FireData, PeerClosed
  <2>4. UNCHANGED <<open, queue, accepted, wire, data, connects>>
        BY <1>5 DEF Receive, FireData, PeerClosed
  <2>5. pc'["reader"] \notin {"connect", "connected"}
        BY <1>1, <1>2, <1>5 DEF Receive, FireData, PeerClosed
  <2>6. Early'
        BY <2>2, <2>4, <2>5 DEF Early
  <2> QED BY <2>2, <2>3, <2>4, <2>6, QuietStep
<1> QED BY <1>3, <1>4, <1>5 DEF ReaderStep

\* A busy writer goes on to p.
LEMMA WriterMoves ==
    ASSUME Typed, Calm, NEW w \in Writer, NEW p, Busy(w), pc' = [pc EXCEPT ![w] = p],
           UNCHANGED connects, Over => Over', Busy(w)' => queue' # <<>> \/ Over'
    PROVE  /\ Early' /\ One' /\ Worked'
           /\ pc'[w] = p /\ pc'["reader"] = pc["reader"]
           /\ \A v \in Writer : v # w => ~Busy(v) /\ pc'[v] = pc[v]
<1>1. /\ "reader" \in Thread /\ w \in Thread /\ w # "reader"
      /\ \A v \in Writer : v \in Thread
      BY SocketAssumption DEF Thread
<1>2. /\ pc'[w] = p /\ pc'["reader"] = pc["reader"]
      /\ \A v \in Writer : v # w => pc'[v] = pc[v]
      BY <1>1 DEF Typed, TypeOK
<1>3. \A v \in Writer : v # w => ~Busy(v)
      BY DEF Calm, One
<1>4. pc[w] # "none"
      BY DEF Busy
<1>5. connects # 0 /\ pc["reader"] \notin {"connect", "connected"}
      BY <1>4 DEF Calm, Early, Fresh
<1>6. Early'
      BY <1>2, <1>5 DEF Early
<1>7. \A v \in Writer : Busy(v)' => v = w
      BY <1>2, <1>3 DEF Busy
<1>8. One' /\ Worked'
      BY <1>7 DEF One, Worked
<1> QED BY <1>2, <1>3, <1>6, <1>8

\* It takes the next of the queue q, which follows the wire.
LEMMA SendNextFollows ==
    ASSUME Typed, NEW w \in Writer, NEW q \in Seq(Nat), SendNext(w, q), queue' = q,
           UNCHANGED <<wire, accepted>>,
           \A v \in Writer : v # w => ~Busy(v),
           Len(wire) + Len(q) = accepted,
           \A k \in 1..Len(q) : q[k] + Len(q) = accepted + k
    PROVE  Following'
<1>1. \A v \in Writer : v \in Thread
      BY DEF Thread
<1>2. \A v \in Writer : v # w => pc'[v] \notin {"pop", "send"}
      BY <1>1 DEF SendNext, Goto, Busy, Typed, TypeOK
<1>3. CASE q = <<>>
  <2>1. pc'[w] = "event"
        BY <1>1, <1>3 DEF SendNext, Goto, Typed, TypeOK
  <2> QED BY <1>2, <2>1 DEF Following, Popping
<1>4. CASE q # <<>>
  <2>1. pc'[w] = "send" /\ data'[w] = q[1]
        BY <1>1, <1>4, TailOf DEF SendNext, Goto, Typed, TypeOK
  <2>2. ~Popping'
        BY <1>2, <2>1 DEF Popping
  <2>3. \A v \in Writer : pc'[v] = "send" => queue' # <<>> /\ data'[v] = queue'[1]
        BY <1>2, <1>4, <2>1
  <2> QED BY <2>2, <2>3 DEF Following
<1> QED BY <1>3, <1>4

\* A write goes to the end of the queue; into an empty one, no other writer is busy.
LEMMA WriteCalm ==
    ASSUME Typed, Calm, NEW w \in Writer, Write(w)
    PROVE  Calm'
<1>1. "reader" \in Thread /\ w # "reader" /\ \A v \in Writer : v \in Thread
      BY SocketAssumption DEF Thread
<1>2. /\ state \in {"DUPLEX", "WRITEONLY"} /\ queue' = Append(queue, accepted + 1)
      /\ accepted' = accepted + 1 /\ UNCHANGED <<state, open, data, connects, wire>>
      /\ queue \in Seq(Nat) /\ wire \in Seq(Nat) /\ accepted \in Nat
      BY DEF Write, Typed, TypeOK
<1>3. /\ queue' # <<>> /\ Len(queue) \in Nat /\ Len(queue') = Len(queue) + 1 /\ Len(wire) \in Nat
      /\ \A k \in 1..Len(queue) : queue'[k] = queue[k]
      /\ queue'[Len(queue) + 1] = accepted + 1
      /\ \A k \in 1..Len(queue') : k \in 1..Len(queue) \/ k = Len(queue) + 1
      BY <1>2, AppendOf
<1>4. /\ pc'["reader"] = pc["reader"]
      /\ \A v \in Writer : pc'[v] # pc[v] => pc'[v] = "begin" /\ pc[v] = "none"
      BY <1>1 DEF Write, Goto, Typed, TypeOK
<1>5. Early'
      BY <1>2, <1>4 DEF Calm, Early
<1>6. Worked'
      BY <1>3 DEF Worked
<1>7. One'
  <2>1. CASE queue = <<>>
    <3>1. \A v \in Writer : ~Busy(v)
          BY <1>2, <2>1 DEF Calm, Worked, Over
    <3>2. \A v \in Writer : v # w => pc'[v] = pc[v]
          BY <1>1, <2>1 DEF Write, Goto, Typed, TypeOK
    <3>3. \A v \in Writer : Busy(v)' => v = w
          BY <3>1, <3>2 DEF Busy
    <3> QED BY <3>3 DEF One
  <2>2. CASE queue # <<>>
    <3>1. pc' = pc
          BY <2>2 DEF Write
    <3> QED BY <3>1 DEF Calm, One, Busy
  <2> QED BY <2>1, <2>2
<1>8. Following => Following'
  <2> SUFFICES ASSUME Following PROVE Following'
      OBVIOUS
  <2>1. Popping' <=> Popping
        BY <1>4 DEF Popping
  <2>2. \A k \in 1..Len(queue') : queue'[k] + Len(queue') = accepted' + k
    <3> SUFFICES ASSUME NEW k \in 1..Len(queue') PROVE queue'[k] + Len(queue') = accepted' + k
        OBVIOUS
    <3>1. CASE k \in 1..Len(queue)
      <4>1. queue[k] \in Nat
            BY <1>2, <3>1
      <4>2. queue[k] + Len(queue) = accepted + k
            BY <3>1 DEF Following
      <4>3. queue'[k] = queue[k] /\ Len(queue') = Len(queue) + 1 /\ accepted' = accepted + 1
            BY <1>2, <1>3, <3>1
      <4>4. Len(queue) \in Nat /\ accepted \in Nat /\ k \in Nat
            BY <1>2, <1>3, <3>1
      <4> QED BY <4>1, <4>2, <4>3, <4>4
    <3>2. CASE k = Len(queue) + 1
          BY <1>2, <1>3, <3>2
    <3> QED BY <1>3, <3>1, <3>2
  <2>3. /\ Popping' => Len(wire') + Len(queue') = accepted' + 1
        /\ ~Popping' => Len(wire') + Len(queue') = accepted'
    <3>1. Len(wire') = Len(wire) /\ Len(queue') = Len(queue) + 1 /\ accepted' = accepted + 1
          BY <1>2, <1>3
    <3>2. Len(wire) \in Nat /\ Len(queue) \in Nat /\ accepted \in Nat
          BY <1>2, <1>3
    <3> QED BY <2>1, <3>1, <3>2 DEF Following
  <2>4. \A v \in Writer : pc'[v] = "send" => queue' # <<>> /\ data'[v] = queue'[1]
    <3> SUFFICES ASSUME NEW v \in Writer, pc'[v] = "send" PROVE data'[v] = queue'[1]
        BY <1>3
    <3>1. queue # <<>> /\ data[v] = queue[1]
          BY <1>4 DEF Following
    <3>2. 1 \in 1..Len(queue)
          BY <1>2, <3>1, TailOf
    <3> QED BY <1>2, <1>3, <3>1, <3>2
  <2> QED BY <2>2, <2>3, <2>4 DEF Following
<1>9. Numbered'
      BY <1>2, <1>8 DEF Calm, Numbered
<1> QED BY <1>5, <1>6, <1>7, <1>9 DEF Calm

\* A writer begins with the first of the queue.
LEMMA BeginCalm ==
    ASSUME Typed, Calm, NEW w \in Writer, Begin(w)
    PROVE  Calm'
<1>1. /\ pc[w] = "begin" /\ SendNext(w, queue) /\ queue \in Seq(Nat)
      /\ UNCHANGED <<state, open, queue, connects, accepted, wire>>
      BY DEF Begin, At, shared, counts, Typed, TypeOK
<1>2. PICK p \in {"event", "send"} : pc' = [pc EXCEPT ![w] = p] /\ (p = "send" => queue # <<>>)
      BY <1>1 DEF SendNext, Goto
<1>3. pc'["reader"] = pc["reader"]
      BY <1>2, SocketAssumption DEF Typed, TypeOK, Thread
<1>4. Over => Over'
      BY <1>1, <1>3 DEF Over
<1>5. Busy(w)' => queue' # <<>> \/ Over'
      BY <1>1, <1>2 DEF Busy, Typed, TypeOK, Thread
<1>6. Busy(w)
      BY <1>1 DEF Busy
<1>7. Early' /\ One' /\ Worked' /\ \A v \in Writer : v # w => ~Busy(v) /\ pc'[v] = pc[v]
      BY <1>1, <1>2, <1>4, <1>5, <1>6, WriterMoves
<1>8. ~Popping
      BY <1>1, <1>7 DEF Popping, Busy
<1>9. Following => Following'
      BY <1>1, <1>7, <1>8, SendNextFollows DEF Following
<1> QED BY <1>1, <1>7, <1>9 DEF Calm, Numbered

\* What is sent is the write after the last one on the wire.
LEMMA SendCalm ==
    ASSUME Typed, Calm, NEW w \in Writer, Send(w)
    PROVE  Calm'
<1>1. pc[w] = "send" /\ UNCHANGED <<state, open, queue, connects, accepted, data>>
      BY DEF Send, At, shared
<1>2. PICK p \in {"pop", "error"} :
         /\ pc' = [pc EXCEPT ![w] = p]
         /\ p = "pop" => open /\ wire' = Append(wire, data[w])
         /\ p = "error" => wire' = wire
      BY DEF Send, Goto
<1>3. pc'["reader"] = pc["reader"]
      BY <1>2, SocketAssumption DEF Typed, TypeOK, Thread
<1>4. Over => Over'
      BY <1>1, <1>3 DEF Over
<1>5. Busy(w)
      BY <1>1 DEF Busy
<1>6. Busy(w)' => queue' # <<>> \/ Over'
      BY <1>1, <1>4, <1>5 DEF Calm, Worked
<1>7. Early' /\ One' /\ Worked' /\ pc'[w] = p
      /\ \A v \in Writer : v # w => ~Busy(v) /\ pc'[v] = pc[v]
      BY <1>1, <1>2, <1>4, <1>5, <1>6, WriterMoves
<1>8. ~Popping
      BY <1>1, <1>7 DEF Popping, Busy
<1>9. \A v \in Writer : pc'[v] # "send"
      BY <1>2, <1>7 DEF Busy
<1>10. CASE p = "pop"
  <2>1. open /\ wire' = Append(wire, data[w])
        BY <1>2, <1>10
  <2>2. Following
        BY <2>1 DEF Calm, Numbered
  <2>3. /\ wire \in Seq(Nat) /\ data[w] \in Nat /\ queue \in Seq(Nat) /\ accepted \in Nat
        BY DEF Typed, TypeOK
  <2>4. /\ Len(wire) \in Nat /\ Len(wire') = Len(wire) + 1 /\ wire'[Len(wire) + 1] = data[w]
        /\ \A k \in 1..Len(wire) : wire'[k] = wire[k]
        /\ \A k \in 1..Len(wire') : k \in 1..Len(wire) \/ k = Len(wire) + 1
        BY <2>1, <2>3, AppendOf
  <2>5. Len(wire) + Len(queue) = accepted /\ queue # <<>> /\ data[w] = queue[1]
        BY <1>1, <1>8, <2>2 DEF Following
  <2>6. Len(queue) \in Nat /\ 1 \in 1..Len(queue)
        BY <2>3, <2>5, TailOf
  <2>7. data[w] + Len(queue) = accepted + 1
        BY <2>2, <2>5, <2>6 DEF Following
  <2>8. data[w] = Len(wire) + 1
        BY <2>3, <2>4, <2>5, <2>6, <2>7
  <2>9. \A k \in 1..Len(wire') : wire'[k] = k
        BY <2>4, <2>8 DEF Calm, Numbered
  <2>10. Popping' /\ Len(wire') + Len(queue') = accepted' + 1
        BY <1>1, <1>7, <1>10, <2>4, <2>5, <2>6 DEF Popping
  <2>11. Following'
        BY <1>1, <1>9, <2>2, <2>10 DEF Following
  <2> QED BY <1>7, <2>9, <2>11 DEF Calm, Numbered
<1>11. CASE p = "error"
  <2>1. ~Popping'
        BY <1>7, <1>11 DEF Popping, Busy
  <2>2. wire' = wire
        BY <1>2, <1>11
  <2>3. Following => Following'
        BY <1>1, <1>8, <1>9, <2>1, <2>2 DEF Following
  <2> QED BY <1>1, <1>7, <2>2, <2>3 DEF Calm, Numbered
<1> QED BY <1>10, <1>11

\* What was sent is taken off the queue, and the next one is what follows.
LEMMA PopSentCalm ==
    ASSUME Typed, Calm, NEW w \in Writer, PopSent(w)
    PROVE  Calm'
<1>1. pc[w] = "pop" /\ UNCHANGED <<state, open, connects, accepted, wire>>
      BY DEF PopSent, At, counts
<1>2. CASE queue = <<>>
  <2>1. UNCHANGED <<queue, pc, data>>
        BY <1>2 DEF PopSent
  <2>2. Early' /\ (Over => Over')
        BY <1>1, <2>1 DEF Calm, Early, Fresh, Over
  <2> QED BY <1>1, <2>1, <2>2, QuietStep
<1>3. CASE queue # <<>>
  <2>1. /\ queue' = Tail(queue) /\ SendNext(w, Tail(queue))
        /\ queue \in Seq(Nat) /\ wire \in Seq(Nat) /\ accepted \in Nat
        BY <1>3 DEF PopSent, Typed, TypeOK
  <2>2. /\ Tail(queue) \in Seq(Nat) /\ Len(queue) \in Nat /\ Len(queue) >= 1
        /\ Len(Tail(queue)) = Len(queue) - 1
        /\ \A k \in 1..Len(Tail(queue)) : Tail(queue)[k] = queue[k + 1]
        BY <1>3, <2>1, TailOf
  <2>3. PICK p \in {"event", "send"} : pc' = [pc EXCEPT ![w] = p] /\ (p = "send" => queue' # <<>>)
        BY <2>1 DEF SendNext, Goto
  <2>4. pc'["reader"] = pc["reader"]
        BY <2>3, SocketAssumption DEF Typed, TypeOK, Thread
  <2>5. Over => Over'
        BY <1>1, <2>4 DEF Over
  <2>6. Busy(w)' => queue' # <<>> \/ Over'
        BY <2>3 DEF Busy, Typed, TypeOK, Thread
  <2>7. Busy(w)
        BY <1>1 DEF Busy
  <2>8. Early' /\ One' /\ Worked' /\ \A v \in Writer : v # w => ~Busy(v) /\ pc'[v] = pc[v]
        BY <1>1, <2>3, <2>5, <2>6, <2>7, WriterMoves
  <2>9. ASSUME Following PROVE Following'
    <3>1. Popping
          BY <1>1 DEF Popping
    <3>2. Len(wire) + Len(queue) = accepted + 1 /\ Len(wire) \in Nat
          BY <2>1, <2>9, <3>1 DEF Following
    <3>3. Len(wire) + Len(Tail(queue)) = accepted
      <4>1. Len(queue) \in Nat /\ Len(Tail(queue)) = Len(queue) - 1 /\ accepted \in Nat
            BY <2>1, <2>2
      <4> QED BY <3>2, <4>1
    <3>4. \A k \in 1..Len(Tail(queue)) : Tail(queue)[k] + Len(Tail(queue)) = accepted + k
      <4> SUFFICES ASSUME NEW k \in 1..Len(Tail(queue))
                   PROVE  Tail(queue)[k] + Len(Tail(queue)) = accepted + k
          OBVIOUS
      <4>1. k + 1 \in 1..Len(queue) /\ k \in Nat
            BY <2>2
      <4>2. queue[k + 1] + Len(queue) = accepted + (k + 1) /\ queue[k + 1] \in Nat
            BY <2>1, <2>9, <4>1 DEF Following
      <4>3. Tail(queue)[k] = queue[k + 1] /\ Len(Tail(queue)) = Len(queue) - 1
            BY <2>2
      <4>4. Len(queue) \in Nat /\ accepted \in Nat
            BY <2>1, <2>2
      <4> QED BY <4>1, <4>2, <4>3, <4>4
    <3> QED BY <1>1, <2>1, <2>2, <2>8, <3>3, <3>4, SendNextFollows
  <2> QED BY <1>1, <2>8, <2>9 DEF Calm, Numbered
<1> QED BY <1>2, <1>3

\* Errors and last events, of writers ...
LEMMA WriterEventCalm ==
    ASSUME Typed, Calm, NEW w \in Writer, EventStep(w)
    PROVE  Calm'
<1> USE DEF shared, counts
<1>0. w \in Thread /\ w # "reader" /\ "reader" \in Thread /\ \A v \in Writer : v \in Thread
      BY SocketAssumption DEF Thread
<1>1. CASE HandleError(w)
  <2>1. /\ pc[w] = "error" /\ UNCHANGED <<open, queue, data, connects, accepted, wire>>
        BY <1>1 DEF HandleError, At
  <2>2. PICK p \in {"none", "close"} :
           /\ pc' = [pc EXCEPT ![w] = p]
           /\ state = "CLOSED" => state' = "CLOSED" /\ p = "none"
        BY <1>1 DEF HandleError, Goto
  <2>3. pc'["reader"] = pc["reader"]
        BY <1>0, <2>2 DEF Typed, TypeOK
  <2>4. Over => Over'
        BY <2>1, <2>2, <2>3 DEF Over
  <2>5. Busy(w)
        BY <2>1 DEF Busy
  <2>6. Busy(w)' => queue' # <<>> \/ Over'
        BY <2>1, <2>4, <2>5 DEF Calm, Worked
  <2>7. Early' /\ One' /\ Worked' /\ pc'[w] = p
        /\ \A v \in Writer : v # w => ~Busy(v) /\ pc'[v] = pc[v]
        BY <2>1, <2>2, <2>4, <2>5, <2>6, WriterMoves
  <2>8. Popping' <=> Popping
        BY <2>1, <2>7 DEF Popping
  <2>9. \A v \in Writer : pc'[v] # "send"
        BY <2>7 DEF Busy
  <2>10. Following => Following'
        BY <2>1, <2>8, <2>9 DEF Following
  <2> QED BY <2>1, <2>7, <2>10 DEF Calm, Numbered
<1>2. CASE CloseAfterError(w)
  <2>1. pc[w] = "close" /\ UNCHANGED <<data, connects, accepted, wire>>
        BY <1>2 DEF CloseAfterError, At
  <2>2. Busy(w)
        BY <2>1 DEF Busy
  <2>3. PICK p \in {"none", "event"} :
           /\ pc' = [pc EXCEPT ![w] = p]
           /\ p = "none" => UNCHANGED <<state, open, queue>>
           /\ p = "event" => state # "CLOSED" /\ state' = "CLOSED" /\ ~open'
        BY <1>2 DEF CloseAfterError, Closes, Goto
  <2>4. pc'["reader"] = pc["reader"] /\ pc'[w] = p
        BY <1>0, <2>3 DEF Typed, TypeOK
  <2>5. Over => Over'
        BY <2>1, <2>3, <2>4 DEF Over
  <2>6. ~Busy(w)'
        BY <2>4 DEF Busy
  <2>7. Early' /\ One' /\ Worked' /\ \A v \in Writer : v # w => ~Busy(v) /\ pc'[v] = pc[v]
        BY <2>1, <2>2, <2>3, <2>5, <2>6, WriterMoves
  <2>8. ~Popping /\ ~Popping' /\ \A v \in Writer : pc'[v] # "send"
        BY <2>1, <2>4, <2>6, <2>7 DEF Popping, Busy
  <2>9. CASE p = "none"
    <3>1. UNCHANGED <<open, queue>>
          BY <2>3, <2>9
    <3>2. Following => Following'
          BY <2>1, <2>8, <3>1 DEF Following
    <3> QED BY <2>1, <2>7, <3>1, <3>2 DEF Calm, Numbered
  <2>10. CASE p = "event"
    <3>1. ~open'
          BY <2>3, <2>10
    <3> QED BY <2>1, <2>7, <3>1 DEF Calm, Numbered
  <2> QED BY <2>9, <2>10
<1>3. CASE FireLast(w)
  <2>1. pc[w] = "event" /\ pc' = [pc EXCEPT ![w] = "none"]
        /\ UNCHANGED <<state, open, queue, data, connects, accepted, wire>>
        BY <1>3 DEF FireLast, At, Goto
  <2>2. pc'["reader"] = pc["reader"] /\ pc'[w] = "none" /\ \A v \in Writer : v # w => pc'[v] = pc[v]
        BY <1>0, <2>1 DEF Typed, TypeOK
  <2>3. Early' /\ (Over' <=> Over)
        BY <2>1, <2>2 DEF Calm, Early, Fresh, Over
  <2>4. One' /\ Worked'
        BY <2>1, <2>2, <2>3 DEF Calm, One, Worked, Busy
  <2>5. Popping' <=> Popping
        BY <2>1, <2>2 DEF Popping
  <2>6. \A v \in Writer : pc'[v] = "send" => pc[v] = "send"
        BY <2>2
  <2>7. Following => Following'
        BY <2>1, <2>5, <2>6 DEF Following
  <2> QED BY <2>1, <2>3, <2>4, <2>7 DEF Calm, Numbered
<1> QED BY <1>1, <1>2, <1>3 DEF EventStep

\* ... and of the reader.
LEMMA ReaderEventCalm ==
    ASSUME Typed, Calm, EventStep("reader")
    PROVE  Calm'
<1> USE DEF shared, counts, At, Goto
<1>0. "reader" \in Thread /\ \A v \in Writer : v \in Thread /\ v # "reader"
      BY SocketAssumption DEF Thread
<1>1. /\ pc["reader"] \in {"error", "close", "event"}
      /\ UNCHANGED <<data, connects, accepted, wire>>
      BY DEF EventStep, HandleError, CloseAfterError, FireLast
<1>2. connects # 0
      BY <1>1 DEF Calm, Early
<1>3. PICK p \in {"none", "close", "event"} : pc' = [pc EXCEPT !["reader"] = p]
      BY DEF EventStep, HandleError, CloseAfterError, FireLast
<1>4. pc'["reader"] = p /\ \A w \in Writer : pc'[w] = pc[w]
      BY <1>0, <1>3 DEF Typed, TypeOK
<1>5. Early'
      BY <1>1, <1>2, <1>4 DEF Early
<1>6. CASE UNCHANGED <<open, queue>> /\ (Over => Over')
      BY <1>1, <1>4, <1>5, <1>6, QuietStep
<1>7. CASE ~open' /\ Over'
  <2>1. One' /\ Worked'
        BY <1>4, <1>7 DEF Calm, One, Worked, Busy
  <2> QED BY <1>1, <1>5, <1>7, <2>1 DEF Calm, Numbered
<1>8. CASE HandleError("reader")
  <2>1. ~Over /\ UNCHANGED <<open, queue>>
        BY <1>8 DEF HandleError, Over
  <2> QED BY <1>6, <2>1
<1>9. CASE CloseAfterError("reader")
  <2>1. ~Over
        BY <1>9 DEF CloseAfterError, Over
  <2>2. CASE state = "CLOSED"
    <3>1. UNCHANGED <<open, queue>>
          BY <1>9, <2>2 DEF CloseAfterError
    <3> QED BY <1>6, <2>1, <3>1
  <2>3. CASE state # "CLOSED"
    <3>1. ~open' /\ state' = "CLOSED" /\ pc' = [pc EXCEPT !["reader"] = "event"]
          BY <1>9, <2>3 DEF CloseAfterError, Closes
    <3>2. pc'["reader"] = "event"
          BY <1>0, <3>1 DEF Typed, TypeOK
    <3> QED BY <1>1, <1>2, <1>7, <3>1, <3>2 DEF Over
  <2> QED BY <2>2, <2>3
<1>10. CASE FireLast("reader")
  <2>1. pc'["reader"] = "none" /\ UNCHANGED <<state, open, queue>>
        BY <1>0, <1>10 DEF FireLast, Typed, TypeOK
  <2> QED BY <1>1, <1>2, <1>6, <2>1 DEF Over
<1> QED BY <1>8, <1>9, <1>10 DEF EventStep

-----------------------------------------------------------------------------
(* The invariant, and what follows from it.                                  *)

\* The invariant holds in every reachable state.
LEMMA Invariance == Spec => []Inv
<1>1. Init => Inv
      BY TypeInit, CalmInit DEF Inv
<1>2. Inv /\ [Next]_vars => Inv'
  <2> SUFFICES ASSUME Inv, [Next]_vars, Undisturbed' PROVE Calm'
      BY TypeNext DEF Inv
  <2>1. Typed /\ Undisturbed /\ Calm
        BY OnceUndisturbed DEF Inv
  <2>2. CASE Connect \/ ReaderStep \/ Receive
        BY <2>1, <2>2, ReaderCalm
  <2>3. CASE Close
        BY <2>3 DEF Close, Undisturbed
  <2>4. ASSUME NEW w \in Writer, Write(w) \/ WriterStep(w) PROVE Calm'
        BY <2>1, <2>4, WriteCalm, BeginCalm, SendCalm, PopSentCalm DEF WriterStep
  <2>5. ASSUME NEW t \in Thread, EventStep(t) PROVE Calm'
        BY <2>1, <2>5, WriterEventCalm, ReaderEventCalm DEF Thread
  <2>6. CASE UNCHANGED vars
    <3>1. UNCHANGED <<state, open, queue, pc, data, connects, accepted, wire>>
          BY <2>6 DEF vars, shared, counts
    <3>2. Early' /\ (Over => Over')
          BY <2>1, <3>1 DEF Calm, Early, Fresh, Over
    <3> QED BY <2>1, <3>1, <3>2, QuietStep
  <2> QED BY <2>2, <2>3, <2>4, <2>5, <2>6 DEF Next
<1> QED BY <1>1, <1>2, PTL DEF Spec

\* Over one connection the wire carries a beginning of what was written, in
\* order and without repetition, whatever fails.
THEOREM WritesInOrder == Spec => []SentInOrder
<1>1. Inv => SentInOrder
      BY DEF Inv, Calm, Numbered, SentInOrder
<1> QED BY <1>1, Invariance, PTL

\* Over one connection one writer at most sends, however large the pool.
THEOREM NeverTwoWriters == Spec => []OneWriter
<1>1. Inv => OneWriter
  <2> SUFFICES ASSUME Calm PROVE Cardinality({w \in Writer : pc[w] = "send"}) <= 1
      BY DEF Inv, OneWriter
  <2> DEFINE Sending == {w \in Writer : pc[w] = "send"}
  <2>1. \A v, w \in Sending : v = w
        BY DEF Calm, One, Busy
  <2>2. CASE Sending = {}
        BY <2>2, FS_EmptySet
  <2>3. CASE Sending # {}
    <3>1. PICK w \in Sending : Sending = {w}
          BY <2>1, <2>3
    <3>2. Cardinality({w}) = 1
          BY FS_Singleton
    <3>3. Cardinality(Sending) = 1
          BY <3>1, <3>2, Zenon
    <3> HIDE DEF Sending
    <3>4. Cardinality(Sending) <= 1
          BY <3>3
    <3> QED BY <3>4 DEF Sending
  <2> QED BY <2>2, <2>3
<1> QED BY <1>1, Invariance, PTL

-----------------------------------------------------------------------------
(* The composition.                                                          *)

Theorems == INSTANCE TCPServerProofs WITH MaxWrites <- MaxServed, wire <- served

\* What TCPServerProofs calls a server is one.
LEMMA SameServer ==
    /\ Server!ServerAssumption <=> Theorems!ServerAssumption
    /\ Server!Spec => Theorems!Spec
<1>1. Server!ServerAssumption <=> Theorems!ServerAssumption
      BY DEF Server!ServerAssumption, Theorems!ServerAssumption
<1>2. Server!Init => Theorems!Init
      BY DEF Server!Init, Theorems!Init, Server!All, Theorems!All
<1>3. [Server!Next]_(Server!vars) => [Theorems!Next]_(Theorems!vars)
      BY DEF Server!server_, Theorems!server_, Server!sending, Theorems!sending,
               Server!reading, Theorems!reading, Server!vars, Theorems!vars, Server!All,
               Theorems!All, Server!AppRuns, Theorems!AppRuns, Server!Listen,
               Theorems!Listen, Server!StopListening, Theorems!StopListening,
               Server!Close, Theorems!Close, Server!Destroy, Theorems!Destroy,
               Server!Joined, Theorems!Joined, Server!Created, Theorems!Created,
               Server!Install, Theorems!Install, Server!Write, Theorems!Write,
               Server!CloseConnection, Theorems!CloseConnection, Server!Drop, Theorems!Drop,
               Server!Handled, Theorems!Handled, Server!Goto, Theorems!Goto, Server!SetListening, Theorems!SetListening, Server!Loop,
               Theorems!Loop, Server!Shutdown, Theorems!Shutdown, Server!Dispatches,
               Theorems!Dispatches, Server!Accept, Theorems!Accept, Server!Readable,
               Theorems!Readable, Server!ReadableAtEnd, Theorems!ReadableAtEnd,
               Server!Uninstall, Theorems!Uninstall, Server!Writable, Theorems!Writable,
               Server!SendBytes, Theorems!SendBytes, Server!SendFails,
               Theorems!SendFails, Server!Pop, Theorems!Pop, Server!Sent, Theorems!Sent,
               Server!ThreadStep, Theorems!ThreadStep, Server!Sends, Theorems!Sends,
               Server!Next, Theorems!Next
<1> QED BY <1>1, <1>2, <1>3, PTL DEF Server!Spec, Theorems!Spec

\* Side by side with a socket, a server takes its own steps only.
LEMMA ServerAlone == SocketsSpec => Server!Spec
<1>1. SocketsInit => Server!Init
      BY DEF SocketsInit
<1>2. [SocketsNext]_<<part, vars, serverVars>> => [Server!Next]_(Server!vars)
      BY DEF SocketsNext, serverVars, Server!vars, Server!server_, Server!sending, Server!reading
<1> QED BY <1>1, <1>2, PTL DEF SocketsSpec, Server!Spec

\* A socket takes its own steps only, too.
LEMMA SocketAlone == SocketsSpec => Spec
<1>1. SocketsInit => Init
      BY DEF SocketsInit
<1>2. [SocketsNext]_<<part, vars, serverVars>> => [Next]_vars
      BY DEF SocketsNext
<1> QED BY <1>1, <1>2, PTL DEF SocketsSpec, Spec

\* In the composition, too, the wire of a socket carries a beginning of what was
\* written.
THEOREM SocketsWriteInOrder == SocketsSpec => []SentInOrder
BY SocketAlone, WritesInOrder, PTL

\* What goes over each connection of a server is what was written, in order,
\* without gaps or repetition, however sends are cut short or fail and meet writes
\* and closes; and what comes in is heard in its order.
THEOREM ConnectionsServeInOrder == SocketsSpec => []ServedInOrder
<1>1. Theorems!Spec => []Theorems!ServedInOrder
      BY SocketsAssumption, SameServer, Theorems!ServedStaysInOrder
<1>2. Theorems!ServedInOrder => ServedInOrder
      BY DEF ServedInOrder, Server!ServedInOrder, Theorems!ServedInOrder, Server!Unit,
             Theorems!Unit, Server!ReadsInOrder, Theorems!ReadsInOrder
<1> QED BY <1>1, <1>2, SameServer, ServerAlone, PTL

\* The reactor has the write handler of a connection exactly when there is
\* something to send, and none of one that is gone; a connection that outlives the
\* reactor of its server is closed, so that no write() reaches it.
THEOREM ReactorsStaySound == SocketsSpec => []HandlersAreSound
<1>1. Theorems!Spec => []Theorems!TypeOK /\ []Theorems!HandlersAreSound
      BY SocketsAssumption, SameServer, Theorems!TypeCorrect, Theorems!HandlersStaySound
<1>2. Theorems!TypeOK => Server!TypeOK
      BY DEF Server!TypeOK, Theorems!TypeOK
<1>3. Theorems!HandlersAreSound => Server!HandlersAreSound
      BY DEF Server!HandlersAreSound, Theorems!HandlersAreSound, Server!HandlerIffData,
             Theorems!HandlerIffData, Server!NoWriteAfterDestroy, Theorems!NoWriteAfterDestroy
<1> QED BY <1>1, <1>2, <1>3, SameServer, ServerAlone, PTL DEF HandlersAreSound
=============================================================================
