--------------------------- MODULE TCPServerProofs ----------------------------
(***************************************************************************)
(* Theorems about TCPServer for any connections, writes of any size, and   *)
(* any number of writes and of pieces that come in.                        *)
(***************************************************************************)
EXTENDS TCPServer, SequenceTheorems, TLAPS

(***************************************************************************)
(* The inductive invariant.  Before the reactor runs there is no           *)
(* connection, and when it has run none is open (Reactor); the write       *)
(* handler is there exactly when the queue is not empty, which holds only  *)
(* because the connection that is sent on has one, and cannot be freed     *)
(* then (Handlers).  For each                                              *)
(* connection, queue and wire together are the writes in order (Sending),  *)
(* and what the application heard last is what was read last (Reading).    *)
(***************************************************************************)
Reactor ==
    /\ stop => ~listening
    /\ rpc \in {"send", "sent"} \/ current = {}
    /\ \A c, d \in current : c = d
    /\ server = "new" => rpc = "none"
    /\ server = "gone" => rpc \in {"none", "over"}
    /\ rpc \in {"none", "begun"} => ~listening /\ ~stop /\ \A c \in Connection : status[c] = "none"
    /\ rpc \in {"loop", "over"} => \A c \in Connection : status[c] = "none" \/ closed[c]
    /\ \A c \in Connection : status[c] = "freed" => closed[c]

Handlers ==
    /\ \A c \in current : sendData[c] # <<>> /\ handler[c]
    /\ HandlerIffData

\* The k-th of the queue is the write that comes after those that are sent.
Queued(c) ==
    /\ Len(sendData[c]) <= written[c]
    /\ \A k \in 1..Len(sendData[c]) : sendData[c][k] = written[c] - Len(sendData[c]) + k

\* What is sent is the writes taken off the queue, and part of the first in it.
OnWire(c) ==
    /\ Len(wire[c]) = (written[c] - Len(sendData[c])) * Size + offset[c]
    /\ \A k \in 1..Len(wire[c]) : wire[c][k] = Unit(k)
    /\ sendData[c] = <<>> => offset[c] = 0
    /\ offset[c] = Size <=> (rpc = "sent" /\ c \in current)

Sending == \A c \in Connection : Queued(c) /\ OnWire(c)

Reading ==
    \A c \in Connection :
        /\ reads[c] # <<>> =>
             /\ status[c] \in {"known", "freed"}
             /\ LET last == reads[c][Len(reads[c])]
                IN IF last = 0 THEN ~readStarted[c]
                   ELSE readStarted[c] /\ last = received[c]
        /\ ReadsInOrder(c)

Inv == TypeOK /\ Reactor /\ Handlers /\ Sending /\ Reading

\* Taking the first of a sequence.
LEMMA TailOf ==
    ASSUME NEW S, NEW s \in Seq(S), s # <<>>
    PROVE  /\ Len(s) \in Nat /\ Len(s) >= 1 /\ Head(s) = s[1] /\ Head(s) \in S
           /\ Tail(s) \in Seq(S) /\ Len(Tail(s)) = Len(s) - 1
           /\ \A k \in 1..Len(Tail(s)) : Tail(s)[k] = s[k + 1]
           /\ (Len(s) = 1) <=> (Tail(s) = <<>>)
<1>1. /\ Len(s) \in Nat /\ Len(s) >= 1 /\ Head(s) = s[1] /\ Head(s) \in S
      /\ Tail(s) \in Seq(S) /\ Len(Tail(s)) = Len(s) - 1
      /\ \A k \in 1..Len(Tail(s)) : Tail(s)[k] = s[k + 1]
      BY HeadTailProperties, EmptySeq
<1>2. (Len(Tail(s)) = 0) <=> (Tail(s) = <<>>)
      BY <1>1, EmptySeq
<1>3. (Len(s) = 1) <=> (Len(Tail(s)) = 0)
      BY <1>1
<1> QED BY <1>1, <1>2, <1>3

\* Adding one at the end.
LEMMA AppendOf ==
    ASSUME NEW S, NEW s \in Seq(S), NEW e \in S
    PROVE  /\ Append(s, e) \in Seq(S) /\ Len(s) \in Nat /\ Len(Append(s, e)) = Len(s) + 1
           /\ Append(s, e) # <<>>
           /\ \A k \in 1..Len(s) : Append(s, e)[k] = s[k]
           /\ Append(s, e)[Len(s) + 1] = e
  BY AppendProperties, EmptySeq

\* The same of numbers.
LEMMA AppendNat ==
    ASSUME NEW s \in Seq(Nat), NEW e \in Nat
    PROVE  /\ Append(s, e) \in Seq(Nat) /\ Len(s) \in Nat /\ Len(Append(s, e)) = Len(s) + 1
           /\ Append(s, e) # <<>>
           /\ \A k \in 1..Len(s) : Append(s, e)[k] = s[k]
           /\ Append(s, e)[Len(s) + 1] = e
<1> DEFINE N == Nat
<1>1. s \in Seq(N) /\ e \in N
      OBVIOUS
<1> HIDE DEF N
<1>2. Append(s, e) \in Seq(N) /\ Len(Append(s, e)) = Len(s) + 1 /\ Append(s, e) # <<>>
      BY <1>1, AppendOf
<1>3. ASSUME NEW k \in 1..Len(s)  PROVE Append(s, e)[k] = s[k]
      BY <1>1, AppendOf
<1>4. Append(s, e)[Len(s) + 1] = e
      BY <1>1, AppendOf
<1>5. Len(s) \in Nat
      BY LenProperties
<1> QED BY <1>2, <1>3, <1>4, <1>5 DEF N

\* Putting two sequences together.
LEMMA ConcatOf ==
    ASSUME NEW S, NEW s \in Seq(S), NEW t \in Seq(S)
    PROVE  /\ s \o t \in Seq(S) /\ Len(s \o t) = Len(s) + Len(t) /\ Len(s) \in Nat
           /\ \A k \in 1..Len(s) : (s \o t)[k] = s[k]
           /\ \A k \in 1..Len(t) : (s \o t)[Len(s) + k] = t[k]
<1>1. Len(s) \in Nat /\ Len(t) \in Nat
      BY LenProperties
<1>2. /\ s \o t \in Seq(S) /\ Len(s \o t) = Len(s) + Len(t)
      /\ \A k \in 1..(Len(s) + Len(t)) :
            (s \o t)[k] = IF k <= Len(s) THEN s[k] ELSE t[k - Len(s)]
      BY ConcatProperties
<1>3. ASSUME NEW k \in 1..Len(s)  PROVE (s \o t)[k] = s[k]
      BY <1>1, <1>2
<1>4. ASSUME NEW k \in 1..Len(t)  PROVE (s \o t)[Len(s) + k] = t[k]
  <2>1. Len(s) + k \in 1..(Len(s) + Len(t)) /\ ~(Len(s) + k <= Len(s))
        BY <1>1
  <2>2. (Len(s) + k) - Len(s) = k
        BY <1>1
  <2> QED BY <2>1, <2>2, <1>2
<1> QED BY <1>1, <1>2, <1>3, <1>4

\* Adding a function on 1..n with known values.
LEMMA ConcatFunction ==
    ASSUME NEW S, NEW s \in Seq(S), NEW n \in Nat, NEW f \in [1..n -> S]
    PROVE  /\ s \o f \in Seq(S) /\ Len(s \o f) = Len(s) + n /\ Len(s) \in Nat
           /\ \A k \in 1..Len(s) : (s \o f)[k] = s[k]
           /\ \A k \in 1..n : (s \o f)[Len(s) + k] = f[k]
<1>1. f \in Seq(S)
      BY IsASeq
<1>2. Len(f) = n
      BY IsASeq
<1>3. s \o f \in Seq(S) /\ Len(s \o f) = Len(s) + Len(f) /\ Len(s) \in Nat
      BY <1>1, ConcatOf
<1>4. ASSUME NEW k \in 1..Len(s)  PROVE (s \o f)[k] = s[k]
      BY <1>1, ConcatOf
<1>5. ASSUME NEW k \in 1..Len(f)  PROVE (s \o f)[Len(s) + k] = f[k]
      BY <1>1, ConcatOf
<1> QED BY <1>2, <1>3, <1>4, <1>5

\* Sending `count` more units of the write w.
LEMMA SentOf ==
    ASSUME Size \in Nat, NEW s \in Seq(Nat \X (1..Size)), NEW w \in Nat, NEW o \in Nat,
           NEW count \in 1..(Size - o)
    PROVE  s \o [k \in 1..count |-> <<w, o + k>>] \in Seq(Nat \X (1..Size))
<1> DEFINE more == [k \in 1..count |-> <<w, o + k>>]
<1>1. more \in [1..count -> Nat \X (1..Size)] /\ count \in Nat
      OBVIOUS
<1> HIDE DEF more
<1>2. s \o more \in Seq(Nat \X (1..Size))
      BY <1>1, ConcatFunction
<1> QED BY <1>2 DEF more

\* The units of the writes are numbered in order: the b-th of write a + 1.
LEMMA UnitOf ==
    ASSUME Size \in Nat \ {0}, NEW a \in Nat, NEW b \in 1..Size
    PROVE  Unit(a * Size + b) = <<a + 1, b>>
<1>1. a * Size + b - 1 = a * Size + (b - 1) /\ b - 1 \in 0..(Size - 1)
      BY SMTT(30)
<1>2. \A n \in Nat, d \in 0..(Size - 1) :
         n = a * Size + d => n \div Size = a /\ n % Size = d
      BY SMTT(30)
<1>3. a * Size + b - 1 \in Nat
      BY SMTT(30)
<1>4. (a * Size + b - 1) \div Size = a /\ (a * Size + b - 1) % Size = b - 1
      BY <1>1, <1>2, <1>3
<1> QED BY <1>4 DEF Unit

-----------------------------------------------------------------------------
(* The types.                                                               *)

\* The types hold at the start.
LEMMA TypeInit == ASSUME ServerAssumption, Init PROVE TypeOK
<1>1. <<>> \in Seq(Nat) /\ <<>> \in Seq(Nat \X (1..Size))
      BY EmptySeq
<1>2. /\ sendData \in [Connection -> Seq(Nat)] /\ reads \in [Connection -> Seq(Nat)]
      /\ wire \in [Connection -> Seq(Nat \X (1..Size))]
      BY <1>1, Zenon DEF Init, All
<1>3. /\ {closed, installed, handler, dead, readStarted} \subseteq [Connection -> BOOLEAN]
      /\ offset \in [Connection -> 0..Size]
      /\ written \in [Connection -> Nat] /\ received \in [Connection -> Nat]
      /\ status \in [Connection -> {"none", "accepted", "known", "freed"}]
      BY DEF ServerAssumption, Init, All
<1> QED BY <1>2, <1>3 DEF Init, TypeOK

\* No step breaks them.
LEMMA TypeNext == ASSUME ServerAssumption, TypeOK, Handlers, [Next]_vars PROVE TypeOK'
<1>a. ASSUME NEW s \in Seq(Nat), NEW n \in Nat
      PROVE  Append(s, n) \in Seq(Nat) /\ Append(s, n + 1) \in Seq(Nat)
  <2>1. n + 1 \in Nat
        OBVIOUS
  <2>2. ASSUME NEW e \in Nat  PROVE Append(s, e) \in Seq(Nat)
        BY AppendNat
  <2> QED BY ONLY <2>1, <2>2
<1> USE DEF TypeOK
<1>0. Size \in Nat \ {0} /\ MaxReads \in [Connection -> Nat]
      BY DEF ServerAssumption
<1>1. CASE Listen
      BY <1>1 DEF Listen, sending, reading
<1>2. CASE Close
      BY <1>2 DEF Close, StopListening, sending, reading
<1>3. CASE Destroy
      BY <1>3 DEF Destroy, StopListening, sending, reading
<1>4. CASE Joined
      BY <1>4 DEF Joined, sending, reading
<1>5. CASE SetListening
      BY <1>5 DEF SetListening, Goto, sending, reading
<1>6. CASE Loop
      BY <1>6 DEF Loop, Goto, sending, reading
<1>7. CASE Shutdown
      BY <1>7 DEF Shutdown, Goto, sending, reading
<1>8. ASSUME NEW c \in Connection, Created(c) PROVE TypeOK'
      BY <1>8 DEF Created, server_, sending, reading
<1>9. ASSUME NEW c \in Connection, Write(c) PROVE TypeOK'
  <2>1. Append(sendData[c], written[c] + 1) \in Seq(Nat) /\ written[c] + 1 \in Nat
        BY <1>a
  <2> QED BY <2>1, <1>9 DEF Write, Install, server_, reading
<1>10. ASSUME NEW c \in Connection, CloseConnection(c) PROVE TypeOK'
      BY <1>10 DEF CloseConnection, server_, sending, reading
<1>11. ASSUME NEW c \in Connection, Accept(c) PROVE TypeOK'
      BY <1>11 DEF Accept, server_, sending, reading
<1>12. ASSUME NEW c \in Connection, Readable(c) PROVE TypeOK'
  <2>1. received[c] + 1 \in Nat
        OBVIOUS
  <2>2. Append(reads[c], received[c] + 1) \in Seq(Nat)
        BY <1>a
  <2> QED BY <2>1, <2>2, <1>12 DEF Readable, server_, sending
<1>13. ASSUME NEW c \in Connection, ReadableAtEnd(c) PROVE TypeOK'
  <2>1. Append(reads[c], 0) \in Seq(Nat) /\ MaxReads[c] \in Nat
        BY <1>0, <1>a
  <2> QED BY <2>1, <1>13 DEF ReadableAtEnd, server_, sending
<1>14. ASSUME NEW c \in Connection, Writable(c) PROVE TypeOK'
  <2>1. /\ rpc' \in {rpc, "send"} /\ current' \in {current, {c}}
        /\ installed' \in [Connection -> BOOLEAN] /\ handler' \in [Connection -> BOOLEAN]
        BY <1>14 DEF Writable, Uninstall
  <2>2. UNCHANGED <<listening, stop, server, closeHeard, status, closed>>
        BY <1>14 DEF Writable
  <2>3. UNCHANGED <<sendData, offset, written, wire, dead, received, readStarted, reads>>
        BY <1>14 DEF Writable, reading
  <2> QED BY <2>1, <2>2, <2>3
<1>15. ASSUME NEW c \in Connection, SendBytes(c) PROVE TypeOK'
  <2>1. PICK count \in 1..(Size - offset[c]) :
          /\ offset' = [offset EXCEPT ![c] = @ + count]
          /\ wire' = [wire EXCEPT ![c] =
                        @ \o [k \in 1..count |-> <<Head(sendData[c]), offset[c] + k>>]]
        BY <1>15 DEF SendBytes
  <2>2. sendData[c] \in Seq(Nat) /\ sendData[c] # <<>>
        BY <1>15 DEF SendBytes, Handlers
  <2>3. Head(sendData[c]) \in Nat
        BY <2>2, TailOf
  <2> DEFINE more == [k \in 1..count |-> <<Head(sendData[c]), offset[c] + k>>]
  <2>4. wire[c] \o more \in Seq(Nat \X (1..Size))
    <3>1. wire[c] \in Seq(Nat \X (1..Size)) /\ offset[c] \in Nat /\ Size \in Nat
          BY <1>0
    <3> QED BY ONLY <3>1, <2>3, SentOf
  <2>5. offset[c] + count \in 0..Size
        BY <1>0
  <2>6. wire' \in [Connection -> Seq(Nat \X (1..Size))] /\ offset' \in [Connection -> 0..Size]
        BY <2>1, <2>4, <2>5
  <2> QED BY <1>15, <2>6 DEF SendBytes, reading
<1>16. ASSUME NEW c \in Connection, SendFails(c) PROVE TypeOK'
  <2>1. /\ dead' \in [Connection -> BOOLEAN] /\ rpc' = "run" /\ current' = {}
        /\ UNCHANGED <<listening, stop, server, closeHeard, status, closed>>
        /\ UNCHANGED <<sendData, offset, installed, handler, written, wire>>
        /\ UNCHANGED <<received, readStarted, reads>>
        BY <1>16 DEF SendFails, reading
  <2> QED BY <2>1
<1>17. ASSUME NEW c \in Connection, Sent(c) PROVE TypeOK'
  <2>1. Tail(sendData[c]) \in Seq(Nat)
    <3>1. sendData[c] \in Seq(Nat) /\ sendData[c] # <<>>
          BY <1>17 DEF Sent, Handlers
    <3> QED BY <3>1, TailOf
  <2>2. sendData' \in [Connection -> Seq(Nat)] /\ offset' \in [Connection -> 0..Size]
        BY <2>1, <1>0, <1>17 DEF Sent, Pop
  <2>3. installed' \in [Connection -> BOOLEAN] /\ handler' \in [Connection -> BOOLEAN]
        BY <1>17 DEF Sent, Uninstall
  <2>4. /\ UNCHANGED <<listening, stop, server, closeHeard, status, closed>>
        /\ UNCHANGED <<written, wire, dead, received, readStarted, reads>>
        /\ rpc' = "run" /\ current' = {}
        BY <1>17 DEF Sent, reading
  <2> QED BY <2>2, <2>3, <2>4
<1>18. CASE UNCHANGED vars
      BY <1>18 DEF vars, server_, sending, reading
<1>19. ASSUME NEW c \in Connection, Drop(c) PROVE TypeOK'
      BY <1>19 DEF Drop, server_, reading
<1> QED BY <1>1, <1>2, <1>3, <1>4, <1>5, <1>6, <1>7, <1>8, <1>9, <1>10, <1>11, <1>12,
           <1>13, <1>14, <1>15, <1>16, <1>17, <1>18, <1>19 DEF Next, ThreadStep, Sends

-----------------------------------------------------------------------------
(* The reactor.                                                             *)

\* Before the reactor runs there is no connection, and after it none is open.
LEMMA ReactorNext == ASSUME TypeOK, Reactor, [Next]_vars PROVE Reactor'
<1> USE DEF TypeOK, Reactor
<1>1. CASE Listen
      BY <1>1 DEF Listen, sending, reading
<1>2. CASE Close
      BY <1>2 DEF Close, StopListening, sending, reading
<1>3. CASE Destroy
      BY <1>3 DEF Destroy, StopListening, sending, reading
<1>4. CASE Joined
      BY <1>4 DEF Joined, sending, reading
<1>5. CASE SetListening
      BY <1>5 DEF SetListening, Goto, sending, reading
<1>6. CASE Loop
      BY <1>6 DEF Loop, Goto, sending, reading
<1>7. CASE Shutdown
      BY <1>7 DEF Shutdown, Handled, Goto, sending, reading
<1>8. ASSUME NEW c \in Connection, Created(c) PROVE Reactor'
      BY <1>8 DEF Created, server_, sending, reading
<1>9. ASSUME NEW c \in Connection, Write(c) PROVE Reactor'
      BY <1>9 DEF Write, server_, reading
<1>10. ASSUME NEW c \in Connection, CloseConnection(c) PROVE Reactor'
      BY <1>10 DEF CloseConnection, server_, sending, reading
<1>11. ASSUME NEW c \in Connection, Accept(c) PROVE Reactor'
      BY <1>11 DEF Accept, Dispatches, server_, sending, reading
<1>12. ASSUME NEW c \in Connection, Readable(c) PROVE Reactor'
      BY <1>12 DEF Readable, server_, sending
<1>13. ASSUME NEW c \in Connection, ReadableAtEnd(c) PROVE Reactor'
      BY <1>13 DEF ReadableAtEnd, server_, sending
<1>14. ASSUME NEW c \in Connection, Writable(c) PROVE Reactor'
  <2>1. /\ rpc = "run" /\ current = {}
        /\ (rpc' = rpc /\ current' = current) \/ (rpc' = "send" /\ current' = {c})
        /\ UNCHANGED <<listening, stop, server, closeHeard, status, closed>>
        BY <1>14 DEF Writable, Dispatches
  <2> QED BY <2>1
<1>15. ASSUME NEW c \in Connection, SendBytes(c) PROVE Reactor'
  <2>1. /\ rpc = "send"
        /\ (rpc' = "sent" /\ current' = current) \/ (rpc' = "run" /\ current' = {})
        /\ UNCHANGED <<listening, stop, server, closeHeard, status, closed>>
        BY <1>15 DEF SendBytes
  <2> QED BY <2>1
<1>16. ASSUME NEW c \in Connection, SendFails(c) PROVE Reactor'
      BY <1>16 DEF SendFails, reading
<1>17. ASSUME NEW c \in Connection, Sent(c) PROVE Reactor'
      BY <1>17 DEF Sent, reading
<1>18. CASE UNCHANGED vars
      BY <1>18 DEF vars, server_, sending, reading
<1>19. ASSUME NEW c \in Connection, Drop(c) PROVE Reactor'
      BY <1>19 DEF Drop, server_, reading
<1> QED BY <1>1, <1>2, <1>3, <1>4, <1>5, <1>6, <1>7, <1>8, <1>9, <1>10, <1>11, <1>12,
           <1>13, <1>14, <1>15, <1>16, <1>17, <1>18, <1>19 DEF Next, ThreadStep, Sends

-----------------------------------------------------------------------------
(* The write handlers.                                                      *)

\* The write handler is there exactly when there is something to send.
LEMMA HandlersNext ==
    ASSUME TypeOK, Reactor, Handlers, [Next]_vars PROVE Handlers'
<1>a. ASSUME NEW s \in Seq(Nat), NEW n \in Nat  PROVE Append(s, n + 1) # <<>>
  <2>1. n + 1 \in Nat
        OBVIOUS
  <2>2. ASSUME NEW e \in Nat  PROVE Append(s, e) # <<>>
        BY AppendNat
  <2> QED BY ONLY <2>1, <2>2
<1> USE DEF TypeOK, Handlers, HandlerIffData
<1>0. SUFFICES ASSUME ~UNCHANGED <<sendData, installed, handler, current, status>>
               PROVE  Handlers'
      OBVIOUS
<1>8. ASSUME NEW c \in Connection, Created(c) \/ Accept(c) PROVE Handlers'
  <2>1. /\ UNCHANGED <<sendData, installed, handler, current>>
        /\ \A d \in Connection : status'[d] = "freed" <=> status[d] = "freed"
        BY <1>8 DEF Created, Accept, server_, sending
  <2> QED BY <2>1
<1>9. ASSUME NEW c \in Connection, Write(c) PROVE Handlers'
  <2>1. Append(sendData[c], written[c] + 1) # <<>>
        BY <1>a
  <2>2. sendData' = [sendData EXCEPT ![c] = Append(@, written[c] + 1)]
        BY <1>9 DEF Write
  <2>3. current' = current /\ Install(c)
        BY <1>9 DEF Write, server_
  <2>6. UNCHANGED status /\ status[c] # "freed"
        BY <1>9 DEF Write
  <2>4. sendData'[c] # <<>> /\ handler'[c] /\ installed'[c]
        BY <2>1, <2>2, <2>3, <2>6 DEF Install
  <2>5. ASSUME NEW d \in Connection, d # c
        PROVE  sendData'[d] = sendData[d] /\ handler'[d] = handler[d]
               /\ installed'[d] = installed[d]
        BY <2>2, <2>3, <2>5 DEF Install
  <2> QED BY <2>3, <2>4, <2>5, <2>6
<1>14. ASSUME NEW c \in Connection, Writable(c) PROVE Handlers'
  <2>1. UNCHANGED <<sendData, status>>
        BY <1>14 DEF Writable
  <2>2. CASE sendData[c] = <<>>
        BY <2>1, <2>2, <1>14 DEF Writable, Uninstall
  <2>3. CASE sendData[c] # <<>>
        BY <2>1, <2>3, <1>14 DEF Writable
  <2> QED BY <2>2, <2>3
<1>15. ASSUME NEW c \in Connection, SendBytes(c) PROVE Handlers'
  <2>1. current' \in {current, {}} /\ UNCHANGED <<sendData, installed, handler, status>>
        BY <1>15 DEF SendBytes
  <2> QED BY <2>1
<1>16. ASSUME NEW c \in Connection, SendFails(c) PROVE Handlers'
      BY <1>16 DEF SendFails
<1>17. ASSUME NEW c \in Connection, Sent(c) PROVE Handlers'
  <2>1. (Len(sendData[c]) = 1) <=> (Tail(sendData[c]) = <<>>)
    <3>1. sendData[c] \in Seq(Nat) /\ sendData[c] # <<>>
          BY <1>17 DEF Sent
    <3> QED BY <3>1, TailOf
  <2>2. sendData' = [sendData EXCEPT ![c] = Tail(@)] /\ current' = {} /\ UNCHANGED status
        BY <1>17 DEF Sent, Pop
  <2>3. handler[c] /\ installed[c]
        BY <1>17 DEF Sent
  <2>4. CASE Len(sendData[c]) = 1
    <3>1. handler' = [handler EXCEPT ![c] = FALSE] /\ installed' = [installed EXCEPT ![c] = FALSE]
          BY <2>4, <1>17 DEF Sent, Uninstall
    <3> QED BY <2>1, <2>2, <2>4, <3>1
  <2>5. CASE Len(sendData[c]) # 1
    <3>1. UNCHANGED <<handler, installed>>
          BY <2>5, <1>17 DEF Sent
    <3> QED BY <2>1, <2>2, <2>3, <2>5, <3>1
  <2> QED BY <2>4, <2>5
<1>19. ASSUME NEW c \in Connection, Drop(c) PROVE Handlers'
      BY <1>19 DEF Drop, server_
<1> QED BY <1>0, <1>8, <1>9, <1>14, <1>15, <1>16, <1>17, <1>19 DEF Next, ThreadStep, Sends,
           vars, server_, sending, Listen, Close, Destroy, Joined, SetListening, Loop, Shutdown,
           CloseConnection, Readable, ReadableAtEnd

-----------------------------------------------------------------------------
(* What is sent.                                                            *)

\* Taking the first off a queue that is the last writes in order.
LEMMA QueueTail ==
    ASSUME NEW q \in Seq(Nat), q # <<>>, NEW w \in Nat, Len(q) <= w,
           \A k \in 1..Len(q) : q[k] = w - Len(q) + k
    PROVE  /\ Len(Tail(q)) <= w
           /\ \A k \in 1..Len(Tail(q)) : Tail(q)[k] = w - Len(Tail(q)) + k
<1>1. /\ Len(q) \in Nat /\ Len(Tail(q)) = Len(q) - 1
      /\ \A k \in 1..Len(Tail(q)) : Tail(q)[k] = q[k + 1]
      BY TailOf
<1>2. ASSUME NEW k \in 1..Len(Tail(q))  PROVE Tail(q)[k] = w - Len(Tail(q)) + k
  <2>1. Tail(q)[k] = q[k + 1] /\ k + 1 \in 1..Len(q)
        BY <1>1
  <2>2. q[k + 1] = w - Len(q) + (k + 1)
        BY <2>1
  <2> QED BY <1>1, <2>1, <2>2
<1> QED BY <1>1, <1>2

\* Adding the next write to it.
LEMMA QueueAppend ==
    ASSUME NEW q \in Seq(Nat), NEW w \in Nat, Len(q) <= w,
           \A k \in 1..Len(q) : q[k] = w - Len(q) + k
    PROVE  LET a == Append(q, w + 1)
           IN /\ Len(a) <= w + 1 /\ (w + 1) - Len(a) = w - Len(q)
              /\ \A k \in 1..Len(a) : a[k] = (w + 1) - Len(a) + k
<1> DEFINE a == Append(q, w + 1)
<1>1. /\ Len(q) \in Nat /\ Len(a) = Len(q) + 1
      /\ \A k \in 1..Len(q) : a[k] = q[k]
      /\ a[Len(q) + 1] = w + 1
      BY AppendNat
<1>2. ASSUME NEW k \in 1..Len(a)  PROVE a[k] = (w + 1) - Len(a) + k
  <2>1. CASE k \in 1..Len(q)
        BY <1>1, <2>1
  <2>2. CASE k = Len(q) + 1
        BY <1>1, <2>2
  <2> HIDE DEF a
  <2> QED BY <1>1, <2>1, <2>2
<1> QED BY <1>1, <1>2

\* The units that come next on the wire follow those that are on it.
LEMMA WireGrows ==
    ASSUME NEW S, NEW s \in Seq(S), NEW more \in Seq(S),
           \A k \in 1..Len(s) : s[k] = Unit(k),
           \A k \in 1..Len(more) : more[k] = Unit(Len(s) + k)
    PROVE  \A k \in 1..Len(s \o more) : (s \o more)[k] = Unit(k)
<1>1. Len(s \o more) = Len(s) + Len(more) /\ Len(s) \in Nat /\ Len(more) \in Nat
      BY ConcatOf, LenProperties
<1>2. ASSUME NEW k \in 1..Len(s)  PROVE (s \o more)[k] = Unit(k)
      BY ConcatOf
<1>3. ASSUME NEW j \in 1..Len(more)  PROVE (s \o more)[Len(s) + j] = Unit(Len(s) + j)
  <2>1. (s \o more)[Len(s) + j] = more[j]
        BY ConcatOf
  <2> QED BY <2>1
<1>4. ASSUME NEW k \in 1..Len(s \o more), ~(k <= Len(s))  PROVE (s \o more)[k] = Unit(k)
  <2>1. k - Len(s) \in 1..Len(more) /\ Len(s) + (k - Len(s)) = k
        BY <1>1, <1>4
  <2> QED BY <1>3, <2>1
<1>5. ASSUME NEW k \in 1..Len(s \o more), k <= Len(s)  PROVE k \in 1..Len(s)
      BY <1>1, <1>5
<1> QED BY <1>2, <1>4, <1>5

\* Queue and wire of each connection together are its writes in order.
LEMMA SendingNext ==
    ASSUME ServerAssumption, TypeOK, Reactor, Handlers, Sending, [Next]_vars PROVE Sending'
<1>0. Size \in Nat \ {0}
      BY DEF ServerAssumption
<1>t. /\ sendData \in [Connection -> Seq(Nat)] /\ offset \in [Connection -> 0..Size]
      /\ written \in [Connection -> Nat] /\ wire \in [Connection -> Seq(Nat \X (1..Size))]
      /\ current \subseteq Connection
      BY DEF TypeOK
<1>o. ASSUME NEW d \in Connection, Queued(d), OnWire(d),
             sendData'[d] = sendData[d], offset'[d] = offset[d],
             written'[d] = written[d], wire'[d] = wire[d],
             (rpc' = "sent" /\ d \in current') <=> (rpc = "sent" /\ d \in current)
      PROVE  Queued(d)' /\ OnWire(d)'
      BY <1>o DEF Queued, OnWire, Unit
<1>u. ASSUME UNCHANGED <<sendData, offset, written, wire>>,
             rpc' # "sent", rpc # "sent" \/ UNCHANGED rpc
      PROVE  Sending'
      BY <1>u, <1>o, <1>t DEF Sending
<1>v. CASE UNCHANGED <<sendData, offset, written, wire, rpc, current>>
      BY <1>v, <1>o DEF Sending
<1>9. ASSUME NEW c \in Connection, Write(c) PROVE Sending'
  <2>1. /\ sendData' = [sendData EXCEPT ![c] = Append(@, written[c] + 1)]
        /\ written' = [written EXCEPT ![c] = @ + 1]
        /\ UNCHANGED <<offset, wire, rpc, current>>
        BY <1>9 DEF Write, server_
  <2>2. ASSUME NEW d \in Connection, d # c  PROVE Queued(d)' /\ OnWire(d)'
        BY <1>o, <1>t, <2>1, <2>2 DEF Sending
  <2>3. sendData[c] \in Seq(Nat) /\ written[c] \in Nat /\ Queued(c) /\ OnWire(c)
        BY <1>t DEF Sending
  <2>4. sendData'[c] = Append(sendData[c], written[c] + 1) /\ written'[c] = written[c] + 1
        BY <1>t, <2>1
  <2>5. /\ Len(sendData'[c]) <= written'[c]
        /\ written'[c] - Len(sendData'[c]) = written[c] - Len(sendData[c])
        /\ \A k \in 1..Len(sendData'[c]) :
              sendData'[c][k] = written'[c] - Len(sendData'[c]) + k
    <3> DEFINE n == Append(sendData[c], written[c] + 1)
    <3>1. /\ Len(n) <= written[c] + 1
          /\ (written[c] + 1) - Len(n) = written[c] - Len(sendData[c])
          BY <2>3, QueueAppend DEF Queued
    <3>2. ASSUME NEW k \in 1..Len(n)  PROVE n[k] = (written[c] + 1) - Len(n) + k
          BY <2>3, QueueAppend DEF Queued
    <3> HIDE DEF n
    <3> QED BY <2>4, <3>1, <3>2 DEF n
  <2>6. sendData'[c] # <<>>
        BY <2>3, <2>4, AppendNat
  <2>7. Queued(c)'
        BY <2>5 DEF Queued
  <2>8. OnWire(c)'
        BY <2>1, <2>3, <2>5, <2>6 DEF OnWire, Unit
  <2> QED BY <2>2, <2>7, <2>8 DEF Sending
<1>14. ASSUME NEW c \in Connection, Writable(c) PROVE Sending'
  <2>1. /\ UNCHANGED <<sendData, offset, written, wire>>
        /\ rpc = "run" /\ rpc' \in {"run", "send"}
        BY <1>14 DEF Writable, Dispatches
  <2> QED BY <1>u, <2>1
<1>15. ASSUME NEW c \in Connection, SendBytes(c) PROVE Sending'
  <2>1. PICK count \in 1..(Size - offset[c]) :
          /\ offset' = [offset EXCEPT ![c] = @ + count]
          /\ wire' = [wire EXCEPT ![c] =
                        @ \o [k \in 1..count |-> <<Head(sendData[c]), offset[c] + k>>]]
        BY <1>15 DEF SendBytes
  <2>2. /\ rpc = "send" /\ c \in current /\ UNCHANGED <<sendData, written>>
        /\ offset'[c] = Size => rpc' = "sent" /\ UNCHANGED current
        /\ offset'[c] # Size => rpc' = "run" /\ current' = {}
        BY <1>15 DEF SendBytes
  <2>3. /\ sendData[c] \in Seq(Nat) /\ sendData[c] # <<>> /\ written[c] \in Nat
        /\ Queued(c) /\ OnWire(c)
        BY <1>t, <2>2 DEF Sending, Handlers
  <2>4. ASSUME NEW d \in Connection, d # c  PROVE Queued(d)' /\ OnWire(d)'
    <3>1. ~(rpc' = "sent" /\ d \in current') /\ rpc # "sent"
      <4>1. d \notin current
            BY <2>2, <2>4 DEF Reactor
      <4> QED BY <2>2, <4>1
    <3>2. Queued(d) /\ OnWire(d)
          BY DEF Sending
    <3>3. offset'[d] = offset[d] /\ wire'[d] = wire[d]
          BY <1>t, <2>1, <2>4
    <3> QED BY <1>o, <2>2, <3>1, <3>2, <3>3
  <2> DEFINE a == written[c] - Len(sendData[c])
             more == [k \in 1..count |-> <<a + 1, offset[c] + k>>]
  <2>5. a \in Nat /\ Head(sendData[c]) = a + 1
    <3>1. /\ Len(sendData[c]) \in Nat /\ Len(sendData[c]) >= 1
          /\ Head(sendData[c]) = sendData[c][1]
          BY <2>3, TailOf
    <3> QED BY <2>3, <3>1 DEF Queued
  <2>6. offset'[c] = offset[c] + count /\ wire'[c] = wire[c] \o more
        BY <1>t, <2>1, <2>5
  <2>7. /\ Len(wire[c]) = a * Size + offset[c]
        /\ \A k \in 1..Len(wire[c]) : wire[c][k] = Unit(k)
        BY <2>3 DEF OnWire
  <2>8. wire[c] \in Seq(Nat \X (1..Size)) /\ offset[c] \in Nat
        BY <1>0, <1>t
  <2> HIDE DEF a
  <2>9. /\ Len(wire'[c]) = a * Size + offset'[c]
        /\ \A k \in 1..Len(wire'[c]) : wire'[c][k] = Unit(k)
    <3> HIDE DEF more
    <3> DEFINE s == wire[c]
               W == Nat \X (1..Size)
               m == a * Size
    <3>1. more \in [1..count -> W] /\ \A k \in 1..count : more[k] = <<a + 1, offset[c] + k>>
          BY <1>0, <2>5, <2>8 DEF more
    <3>2. m \in Nat /\ s \in Seq(W) /\ count \in Nat /\ Len(s) = m + offset[c]
          BY <1>0, <2>5, <2>7, <2>8
    <3>3. \A b \in 1..Size : Unit(m + b) = <<a + 1, b>>
          BY <1>0, <2>5, UnitOf
    <3> HIDE DEF s, m, W, more
    <3>4. ASSUME NEW k \in 1..count  PROVE more[k] = Unit(Len(s) + k)
      <4>1. offset[c] + k \in 1..Size /\ Len(s) + k = m + (offset[c] + k)
        <5>1. offset[c] \in Nat /\ k \in Nat /\ k >= 1 /\ k <= Size - offset[c] /\ Size \in Nat
              BY <1>0, <2>8
        <5> QED BY ONLY <5>1, <3>2
      <4> QED BY <3>1, <3>3, <4>1
    <3>5. more \in Seq(W) /\ Len(more) = count
          BY ONLY <3>1, <3>2, IsASeq
    <3>6. Len(s \o more) = Len(s) + Len(more)
          BY ONLY <3>2, <3>5, ConcatOf
    <3>7. \A k \in 1..Len(s) : s[k] = Unit(k)
          BY <2>7 DEF s
    <3>8. \A k \in 1..Len(s \o more) : (s \o more)[k] = Unit(k)
      <4>1. ASSUME NEW k \in 1..Len(more)  PROVE more[k] = Unit(Len(s) + k)
        <5>1. k \in 1..count
              BY ONLY <3>5
        <5> QED BY ONLY <3>4, <5>1
      <4>2. s \in Seq(W) /\ more \in Seq(W)
            BY <3>2, <3>5
      <4> QED BY ONLY <3>7, <4>1, <4>2, WireGrows
    <3>9. Len(s \o more) = m + (offset[c] + count)
          BY <2>8, <3>2, <3>5, <3>6
    <3> QED BY <2>6, <3>8, <3>9 DEF s, m
  <2>10. Queued(c)'
        BY <2>2, <2>3 DEF Queued
  <2>11. OnWire(c)'
        BY <2>2, <2>3, <2>9 DEF OnWire, Unit, a
  <2> QED BY <2>4, <2>10, <2>11 DEF Sending
<1>16. ASSUME NEW c \in Connection, SendFails(c) PROVE Sending'
      BY <1>16, <1>u DEF SendFails
<1>17. ASSUME NEW c \in Connection, Sent(c) PROVE Sending'
  <2>1. /\ sendData' = [sendData EXCEPT ![c] = Tail(@)]
        /\ offset' = [offset EXCEPT ![c] = 0]
        /\ UNCHANGED <<written, wire>>
        /\ rpc = "sent" /\ c \in current /\ rpc' = "run" /\ current' = {}
        BY <1>17 DEF Sent, Pop
  <2>2. /\ sendData[c] \in Seq(Nat) /\ sendData[c] # <<>> /\ written[c] \in Nat
        /\ Queued(c) /\ OnWire(c)
        BY <1>t, <2>1 DEF Sending, Handlers
  <2>3. ASSUME NEW d \in Connection, d # c  PROVE Queued(d)' /\ OnWire(d)'
    <3>1. d \notin current
          BY <2>1, <2>3 DEF Reactor
    <3>2. Queued(d) /\ OnWire(d)
          BY DEF Sending
    <3> QED BY <1>o, <1>t, <2>1, <2>3, <3>1, <3>2
  <2>4. sendData'[c] = Tail(sendData[c]) /\ offset'[c] = 0
        BY <1>0, <1>t, <2>1
  <2>5. Queued(c)'
        BY <2>1, <2>2, <2>4, QueueTail DEF Queued
  <2>6. OnWire(c)'
    <3> DEFINE n == Len(sendData[c])
    <3>1. n \in Nat /\ n >= 1 /\ Len(Tail(sendData[c])) = n - 1
          BY <2>2, TailOf
    <3>2. offset[c] = Size /\ n <= written[c]
          /\ Len(wire[c]) = (written[c] - n) * Size + offset[c]
          /\ \A k \in 1..Len(wire[c]) : wire[c][k] = Unit(k)
          BY <2>1, <2>2 DEF OnWire, Queued
    <3> HIDE DEF n
    <3>3. Len(wire[c]) = (written[c] - (n - 1)) * Size + 0
          BY <1>0, <2>2, <3>1, <3>2, SMTT(30)
    <3> QED BY <1>0, <2>1, <2>4, <3>1, <3>2, <3>3 DEF OnWire, Unit
  <2> QED BY <2>3, <2>5, <2>6 DEF Sending
<1>18. CASE UNCHANGED vars
      BY <1>18, <1>v DEF vars, server_, sending
<1>c. CASE Listen \/ SetListening \/ Loop \/ Shutdown
      BY <1>c, <1>u DEF Listen, SetListening, Loop, Shutdown, Goto, sending
<1>d. CASE Close \/ Destroy \/ Joined
      BY <1>d, <1>v DEF Close, Destroy, Joined, sending
<1>e. ASSUME NEW c \in Connection,
             \/ Created(c) \/ CloseConnection(c) \/ Drop(c) \/ Accept(c)
             \/ Readable(c) \/ ReadableAtEnd(c)
      PROVE  Sending'
      BY <1>e, <1>v DEF Created, CloseConnection, Drop, Accept, Readable, ReadableAtEnd, server_,
         sending
<1> QED BY <1>9, <1>14, <1>15, <1>16, <1>17, <1>18, <1>c, <1>d, <1>e
        DEF Next, ThreadStep, Sends

-----------------------------------------------------------------------------
(* What is read.                                                            *)

\* What the application hears of a connection stays in its order.
LEMMA ReadingNext ==
    ASSUME TypeOK, Reading, [Next]_vars PROVE Reading'
<1>t. /\ reads \in [Connection -> Seq(Nat)] /\ received \in [Connection -> Nat]
      /\ readStarted \in [Connection -> BOOLEAN]
      /\ status \in [Connection -> {"none", "accepted", "known", "freed"}]
      BY DEF TypeOK
<1> DEFINE Last(s) == s[Len(s)]
           Heard(c) ==
              /\ reads[c] # <<>> =>
                   /\ status[c] \in {"known", "freed"}
                   /\ IF Last(reads[c]) = 0 THEN ~readStarted[c]
                      ELSE readStarted[c] /\ Last(reads[c]) = received[c]
              /\ ReadsInOrder(c)
<1>h. (Reading <=> \A c \in Connection : Heard(c))
      /\ (Reading' <=> \A c \in Connection : Heard(c)')
      BY DEF Reading
<1>a. ASSUME NEW s \in Seq(Nat), NEW n \in Nat,
             \A k \in 2..Len(s) : s[k - 1] # 0 /\ (s[k] = s[k - 1] + 1 \/ s[k] = 0),
             s # <<>> => Last(s) # 0 /\ (n = Last(s) + 1 \/ n = 0)
      PROVE  /\ Append(s, n) # <<>> /\ Last(Append(s, n)) = n
             /\ \A k \in 2..Len(Append(s, n)) :
                   /\ Append(s, n)[k - 1] # 0
                   /\ Append(s, n)[k] = Append(s, n)[k - 1] + 1 \/ Append(s, n)[k] = 0
  <2> DEFINE t == Append(s, n)
  <2>1. /\ t # <<>> /\ Len(t) = Len(s) + 1 /\ Len(s) \in Nat
        /\ \A k \in 1..Len(s) : t[k] = s[k]
        /\ t[Len(s) + 1] = n
        BY AppendNat
  <2>2. s # <<>> <=> Len(s) # 0
        BY EmptySeq
  <2> HIDE DEF t
  <2>3. ASSUME NEW k \in 2..Len(t)  PROVE t[k - 1] # 0 /\ (t[k] = t[k - 1] + 1 \/ t[k] = 0)
    <3>1. CASE k <= Len(s)
      <4>1. k \in 2..Len(s) /\ k \in 1..Len(s) /\ k - 1 \in 1..Len(s)
            BY <2>1, <3>1
      <4>2. t[k] = s[k] /\ t[k - 1] = s[k - 1]
            BY <2>1, <4>1
      <4> QED BY <1>a, <4>1, <4>2
    <3>2. CASE k = Len(s) + 1
          BY <1>a, <2>1, <2>2, <3>2
    <3> QED BY <2>1, <3>1, <3>2
  <2>4. Last(t) = n
        BY <2>1
  <2> QED BY <2>1, <2>3, <2>4 DEF t
<1> HIDE DEF Last
<1>o. ASSUME NEW d \in Connection, Heard(d), reads'[d] = reads[d],
             received'[d] = received[d], readStarted'[d] = readStarted[d],
             status[d] \in {"known", "freed"} => status'[d] \in {"known", "freed"}
      PROVE  Heard(d)'
      BY <1>o DEF ReadsInOrder
<1>v. ASSUME UNCHANGED reading,
             \A d \in Connection :
                status[d] \in {"known", "freed"} => status'[d] \in {"known", "freed"}
      PROVE  Reading'
      BY <1>h, <1>o, <1>v DEF reading
<1>8. ASSUME NEW c \in Connection, Created(c) \/ Accept(c) \/ Drop(c) PROVE Reading'
      BY <1>8, <1>t, <1>v DEF Created, Accept, Drop
<1>12. ASSUME NEW c \in Connection, Readable(c) PROVE Reading'
  <2>1. /\ UNCHANGED status
        /\ received' = [received EXCEPT ![c] = @ + 1]
        /\ readStarted' = [readStarted EXCEPT ![c] = TRUE]
        /\ reads' = IF status[c] = "known"
                    THEN [reads EXCEPT ![c] = Append(@, received[c] + 1)] ELSE reads
        /\ \A k \in DOMAIN reads[c] : reads[c][k] # 0
        /\ status[c] \in {"accepted", "known"}
        BY <1>12 DEF Readable, Handled
  <2>2. ASSUME NEW d \in Connection, d # c  PROVE Heard(d)'
        BY <1>h, <1>o, <1>t, <2>1, <2>2
  <2>3. Heard(c) /\ reads[c] \in Seq(Nat) /\ received[c] \in Nat
        BY <1>h, <1>t
  <2>4. received'[c] = received[c] + 1 /\ readStarted'[c] = TRUE
        BY <1>t, <2>1
  <2>5. CASE status[c] = "known"
    <3>1. reads'[c] = Append(reads[c], received[c] + 1)
          BY <1>t, <2>1, <2>5
    <3>2. reads[c] # <<>> => Last(reads[c]) # 0 /\ Last(reads[c]) = received[c]
      <4>1. Len(reads[c]) \in Nat /\ DOMAIN reads[c] = 1..Len(reads[c])
            BY <2>3, LenProperties
      <4>2. ASSUME reads[c] # <<>>  PROVE Last(reads[c]) # 0
        <5>1. Len(reads[c]) \in DOMAIN reads[c]
              BY <2>3, <4>1, <4>2, EmptySeq
        <5> QED BY <2>1, <5>1 DEF Last
      <4> QED BY <2>3, <4>2
    <3>3. received[c] + 1 \in Nat /\ received[c] + 1 # 0
          BY <2>3
    <3>4. \A k \in 2..Len(reads[c]) :
             reads[c][k - 1] # 0 /\ (reads[c][k] = reads[c][k - 1] + 1 \/ reads[c][k] = 0)
          BY <2>3 DEF ReadsInOrder
    <3>5. Last(reads'[c]) = received[c] + 1
      <4>1. Last(Append(reads[c], received[c] + 1)) = received[c] + 1
        <5>1. reads[c] # <<>> => Last(reads[c]) # 0
                                 /\ (received[c] + 1 = Last(reads[c]) + 1 \/ received[c] + 1 = 0)
              BY <3>2
        <5>2. reads[c] \in Seq(Nat) /\ received[c] + 1 \in Nat
              BY <2>3
        <5> QED BY ONLY <1>a, <3>4, <5>1, <5>2
      <4> QED BY <3>1, <4>1
    <3>6. ReadsInOrder(c)'
      <4>1. ASSUME NEW k \in 2..Len(Append(reads[c], received[c] + 1))
            PROVE  LET t == Append(reads[c], received[c] + 1)
                   IN t[k - 1] # 0 /\ (t[k] = t[k - 1] + 1 \/ t[k] = 0)
            BY <1>a, <2>3, <3>2, <3>3, <3>4
      <4> QED BY <3>1, <4>1 DEF ReadsInOrder
    <3>7. Heard(c)'
          BY <2>1, <2>4, <2>5, <3>3, <3>5, <3>6
    <3> QED BY <1>h, <2>2, <3>7
  <2>6. CASE status[c] # "known"
    <3>1. reads'[c] = <<>> /\ ReadsInOrder(c)'
          BY <2>1, <2>3, <2>6 DEF ReadsInOrder
    <3>2. Heard(c)'
          BY <3>1
    <3> QED BY <1>h, <2>2, <3>2
  <2> QED BY <2>5, <2>6
<1>13. ASSUME NEW c \in Connection, ReadableAtEnd(c) PROVE Reading'
  <2>1. /\ UNCHANGED status
        /\ received' = [received EXCEPT ![c] = MaxReads[c]]
        /\ readStarted' = [readStarted EXCEPT ![c] = FALSE]
        /\ reads' = IF status[c] = "known" /\ readStarted[c]
                    THEN [reads EXCEPT ![c] = Append(@, 0)] ELSE reads
        /\ status[c] \in {"accepted", "known"}
        BY <1>13 DEF ReadableAtEnd, Handled
  <2>2. ASSUME NEW d \in Connection, d # c  PROVE Heard(d)'
        BY <1>h, <1>o, <1>t, <2>1, <2>2
  <2>3. Heard(c) /\ reads[c] \in Seq(Nat)
        BY <1>h, <1>t
  <2>4. readStarted'[c] = FALSE
        BY <1>t, <2>1
  <2>5. CASE status[c] = "known" /\ readStarted[c]
    <3>1. reads'[c] = Append(reads[c], 0)
          BY <1>t, <2>1, <2>5
    <3>2. reads[c] # <<>> => Last(reads[c]) # 0
          BY <2>3, <2>5
    <3>4. \A k \in 2..Len(reads[c]) :
             reads[c][k - 1] # 0 /\ (reads[c][k] = reads[c][k - 1] + 1 \/ reads[c][k] = 0)
          BY <2>3 DEF ReadsInOrder
    <3>5. Last(reads'[c]) = 0
      <4>1. Last(Append(reads[c], 0)) = 0
            BY <1>a, <2>3, <3>2, <3>4
      <4> QED BY <3>1, <4>1
    <3>6. ReadsInOrder(c)'
      <4>1. ASSUME NEW k \in 2..Len(Append(reads[c], 0))
            PROVE  LET t == Append(reads[c], 0)
                   IN t[k - 1] # 0 /\ (t[k] = t[k - 1] + 1 \/ t[k] = 0)
        <5>1. reads[c] \in Seq(Nat) /\ 0 \in Nat
              BY <2>3
        <5>2. reads[c] # <<>> => Last(reads[c]) # 0 /\ (0 = Last(reads[c]) + 1 \/ 0 = 0)
              BY <3>2
        <5> QED BY ONLY <1>a, <3>4, <4>1, <5>1, <5>2
      <4> QED BY <3>1, <4>1 DEF ReadsInOrder
    <3>7. Heard(c)'
          BY <2>1, <2>4, <2>5, <3>5, <3>6
    <3> QED BY <1>h, <2>2, <3>7
  <2>6. CASE ~(status[c] = "known" /\ readStarted[c])
    <3>1. reads'[c] = reads[c] /\ (reads[c] # <<>> => Last(reads[c]) = 0)
          BY <2>1, <2>3, <2>6
    <3>2. Heard(c)'
          BY <2>1, <2>3, <2>4, <3>1 DEF ReadsInOrder
    <3> QED BY <1>h, <2>2, <3>2
  <2> QED BY <2>5, <2>6
<1>c. CASE UNCHANGED <<reading, status>>
      BY <1>c, <1>v
<1>d. CASE Listen \/ Close \/ Destroy \/ Joined \/ ThreadStep \/ UNCHANGED vars
      BY <1>d, <1>c DEF Listen, Close, Destroy, Joined, ThreadStep, SetListening, Loop,
         Shutdown, vars
<1>e. ASSUME NEW c \in Connection, Write(c) \/ CloseConnection(c) \/ Sends(c)
      PROVE  Reading'
      BY <1>e, <1>c DEF Write, CloseConnection, Sends, Writable, SendBytes, SendFails, Sent
<1> QED BY <1>8, <1>12, <1>13, <1>d, <1>e DEF Next

-----------------------------------------------------------------------------
(* The theorems.                                                            *)

\* The invariant holds at the start.
LEMMA InvInit == ASSUME ServerAssumption, Init PROVE Inv
<1>1. TypeOK
      BY TypeInit
<1>2. Len(<<>>) = 0
      BY EmptySeq
<1>3. \A c \in Connection : sendData[c] = <<>> /\ wire[c] = <<>> /\ reads[c] = <<>>
      BY DEF Init, All
<1>4. Reactor /\ Handlers
      BY DEF Init, All, Reactor, Handlers, HandlerIffData
<1>n. ASSUME NEW c \in Connection
      PROVE  Len(sendData[c]) = 0 /\ Len(wire[c]) = 0 /\ Len(reads[c]) = 0
      BY <1>2, <1>3
<1>r. ASSUME NEW c \in Connection  PROVE ReadsInOrder(c)
      BY <1>n DEF ReadsInOrder
<1>5. Reading
      BY <1>r, <1>3 DEF Reading
<1>7. ASSUME NEW c \in Connection
      PROVE  written[c] = 0 /\ offset[c] = 0 /\ rpc = "none" /\ Size # 0
      BY DEF Init, All, ServerAssumption
<1>6. ASSUME NEW c \in Connection  PROVE Queued(c) /\ OnWire(c)
  <2>1. (0 - 0) * Size + 0 = 0
        BY DEF ServerAssumption
  <2> QED BY <1>3, <1>7, <1>n, <2>1 DEF Queued, OnWire
<1> QED BY <1>1, <1>4, <1>5, <1>6 DEF Inv, Sending

\* Every step keeps the invariant.
LEMMA InvNext == ASSUME ServerAssumption, Inv, [Next]_vars PROVE Inv'
  BY TypeNext, ReactorNext, HandlersNext, SendingNext, ReadingNext DEF Inv

\* All variables keep their types.
THEOREM TypeCorrect == ASSUME ServerAssumption PROVE Spec => []TypeOK
<1>1. Inv => TypeOK
      BY DEF Inv
<1> QED BY <1>1, InvInit, InvNext, PTL DEF Spec

\* What goes over each connection is what was written, in order, without gaps or
\* repetition, however sends are cut short or fail and meet writes and closes; and
\* what comes in is heard in its order.
THEOREM ServedStaysInOrder == ASSUME ServerAssumption PROVE Spec => []ServedInOrder
<1>1. ASSUME Inv  PROVE ServedInOrder
  <2>1. ASSUME NEW c \in Connection, NEW k \in DOMAIN wire[c]  PROVE wire[c][k] = Unit(k)
    <3>1. DOMAIN wire[c] = 1..Len(wire[c])
          BY <1>1, LenProperties DEF Inv, TypeOK
    <3> QED BY <1>1, <3>1 DEF Inv, Sending, OnWire
  <2> QED BY <1>1, <2>1 DEF Inv, Reading, ServedInOrder
<1> QED BY <1>1, InvInit, InvNext, PTL DEF Spec

\* The reactor has a connection's write handler exactly when it has something to
\* send, and none of one that is gone; and a connection that outlives the reactor
\* of its server is closed, so that no write() reaches it.
THEOREM HandlersStaySound == ASSUME ServerAssumption PROVE Spec => []HandlersAreSound
<1>1. ASSUME Inv  PROVE HandlersAreSound
      BY <1>1 DEF Inv, Reactor, Handlers, HandlersAreSound, NoWriteAfterDestroy
<1> QED BY <1>1, InvInit, InvNext, PTL DEF Spec
=============================================================================
