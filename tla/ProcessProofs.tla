---------------------------- MODULE ProcessProofs ----------------------------
(***************************************************************************)
(* Theorems about Process for any streams, and any number of launches and  *)
(* of chunks of output.                                                    *)
(*                                                                         *)
(* The inductive invariant says where the process and its threads can be   *)
(* (Phases, Empties); that an exit is queued once, and after its launch is *)
(* over (Exits); that what has been read is in a pipe that is queued       *)
(* (Needs), in a collected event or with those who listen (Data); that the *)
(* closes are of launches that are over too (Closes); and so that what is  *)
(* collected with a close or an exit comes before it in the batch          *)
(* (CloseTold, ExitTold).  That data stays in order is proved after it.    *)
(***************************************************************************)
EXTENDS Process, SequenceTheorems, FiniteSetTheorems, WellFoundedInduction, TLAPS

(***************************************************************************)
(* The types of the histories and queues.                                  *)
(***************************************************************************)
ChunkSet == [launch : Launch, stream : Stream, n : 1..MaxChunk]
ReadEventSet == [what : {"read"}, pipe : Pipes, launch : Nat, data : Seq(ChunkSet)]
CloseEventSet == [what : {"close"}, pipe : Pipes, launch : Launch, data : {<<>>}]
ExitEventSet == [what : {"exit"}, pipe : {Own("none")}, launch : Launch, data : {<<>>}]
EventSet == ReadEventSet \cup CloseEventSet \cup ExitEventSet
CloseSet == [pipe : Pipes, launch : Launch]

Places ==
    /\ launches \in 0..MaxLaunch /\ running \in BOOLEAN
    /\ exitCode \in {"null", "code"} /\ child \in {"none", "alive", "dead"}
    /\ reader \in [Stream -> {"none", "reading", "passing"}]
    /\ monitor \in {"none", "wait", "join", "callback", "returned"}
    /\ mpc \in {"loop", "wait", "output", "listening", "closing"}
    /\ epc \in {"other", "close", "read", "fire", "dispatch"}
    /\ mode \in [Launch -> {"none", "async", "sync"}]

Counts ==
    /\ os \in [Stream -> 0..MaxChunk]
    /\ written \in [Launch -> [Stream -> 0..MaxChunk]]

Queued ==
    /\ closing \in Seq(Pipes) /\ pipesNeedingReadEvents \in Seq(Pipes)
    /\ pipesNeedingCloseEvents \in Seq(CloseSet) /\ closes \in Seq(CloseSet)
    /\ otherEvents \in Seq(Launch) /\ exits \in Seq(Launch)
    /\ readData \in [Pipes -> Seq(ChunkSet)]
    /\ batch \in Seq(EventSet)

Heard ==
    /\ seen \in [Stream \cup {"onRead"} -> Seq(ChunkSet)]
    /\ processOutput \in Seq(ChunkSet) /\ returned \in [Launch -> Seq(ChunkSet)]
    /\ closed \subseteq Launch \X Stream /\ exited \in [Launch -> Nat]

Types == Places /\ Counts /\ Queued /\ Heard

-----------------------------------------------------------------------------
(* Sequences, chunks and pipes.                                             *)

\* Taking the first of a sequence.
LEMMA TailOf ==
    ASSUME NEW S, NEW s \in Seq(S), s # <<>>
    PROVE  /\ Len(s) \in Nat /\ Len(s) >= 1 /\ Head(s) = s[1] /\ Head(s) \in S
           /\ Tail(s) \in Seq(S) /\ Len(Tail(s)) = Len(s) - 1
           /\ \A k \in 1..Len(Tail(s)) : k + 1 \in 1..Len(s) /\ Tail(s)[k] = s[k + 1]
<1>1. /\ Len(s) \in Nat /\ Len(s) >= 1 /\ Head(s) = s[1] /\ Head(s) \in S
      /\ Tail(s) \in Seq(S) /\ Len(Tail(s)) = Len(s) - 1
      /\ \A k \in 1..Len(Tail(s)) : Tail(s)[k] = s[k + 1]
      BY HeadTailProperties, EmptySeq
<1> QED BY <1>1

\* Adding one at the end.
LEMMA AppendOf ==
    ASSUME NEW S, NEW s \in Seq(S), NEW e \in S
    PROVE  /\ Append(s, e) \in Seq(S)
           /\ Len(s) \in Nat /\ Len(Append(s, e)) = Len(s) + 1
           /\ \A k \in 1..Len(s) : Append(s, e)[k] = s[k]
           /\ Append(s, e)[Len(s) + 1] = e
BY AppendProperties, LenProperties

\* What a longer sequence contains.
LEMMA ContainsAppend ==
    ASSUME NEW S, NEW s \in Seq(S), NEW e \in S, NEW x
    PROVE  Contains(Append(s, e), x) <=> Contains(s, x) \/ x = e
<1>1. /\ Len(s) \in Nat /\ Len(Append(s, e)) = Len(s) + 1
      /\ \A k \in 1..Len(s) : Append(s, e)[k] = s[k]
      /\ Append(s, e)[Len(s) + 1] = e
      BY AppendOf
<1> DEFINE t == Append(s, e)
<1> HIDE DEF t
<1>2. ASSUME Contains(s, x)  PROVE Contains(t, x)
  <2>1. PICK i \in 1..Len(s) : s[i] = x
        BY <1>2 DEF Contains
  <2>2. i \in 1..Len(t) /\ t[i] = x
        BY <1>1, <2>1 DEF t
  <2> QED BY <2>2 DEF Contains
<1>3. ASSUME x = e  PROVE Contains(t, x)
  <2>1. Len(s) + 1 \in 1..Len(t) /\ t[Len(s) + 1] = x
        BY <1>1, <1>3 DEF t
  <2> QED BY <2>1 DEF Contains
<1>4. ASSUME Contains(t, x)  PROVE Contains(s, x) \/ x = e
  <2>1. PICK i \in 1..Len(t) : t[i] = x
        BY <1>4 DEF Contains
  <2>2. CASE i = Len(s) + 1
        BY <2>1, <2>2, <1>1 DEF t
  <2>3. CASE i # Len(s) + 1
    <3>1. i \in 1..Len(s)
          BY <2>3, <1>1 DEF t
    <3>2. s[i] = x
          BY <3>1, <2>1, <1>1 DEF t
    <3> QED BY <3>1, <3>2 DEF Contains
  <2> QED BY <2>2, <2>3
<1> QED BY <1>2, <1>3, <1>4 DEF t

\* Putting two sequences together.
LEMMA ConcatOf ==
    ASSUME NEW S, NEW s \in Seq(S), NEW t \in Seq(S)
    PROVE  /\ s \o t \in Seq(S) /\ Len(s \o t) = Len(s) + Len(t)
           /\ Len(s) \in Nat /\ Len(t) \in Nat
           /\ \A k \in 1..Len(s) : (s \o t)[k] = s[k]
           /\ \A k \in 1..Len(t) : (s \o t)[Len(s) + k] = t[k]
<1>1. Len(s) \in Nat /\ Len(t) \in Nat
      BY LenProperties
<1>2. /\ s \o t \in Seq(S) /\ Len(s \o t) = Len(s) + Len(t)
      /\ \A k \in 1..(Len(s) + Len(t)) :
            (s \o t)[k] = IF k <= Len(s) THEN s[k] ELSE t[k - Len(s)]
      BY ConcatProperties
<1>3. ASSUME NEW k \in 1..Len(s)  PROVE (s \o t)[k] = s[k]
      BY <1>1, <1>2
<1>4. ASSUME NEW k \in 1..Len(t)  PROVE (s \o t)[Len(s) + k] = t[k]
  <2>1. Len(s) + k \in 1..(Len(s) + Len(t)) /\ ~(Len(s) + k <= Len(s))
        BY <1>1
  <2>2. (Len(s) + k) - Len(s) = k
        BY <1>1
  <2> QED BY <2>1, <2>2, <1>2
<1> QED BY <1>1, <1>2, <1>3, <1>4

\* What it contains.
LEMMA ContainsConcat ==
    ASSUME NEW S, NEW s \in Seq(S), NEW t \in Seq(S), NEW x,
           Contains(s, x) \/ Contains(t, x)
    PROVE  Contains(s \o t, x)
<1>1. /\ Len(s \o t) = Len(s) + Len(t) /\ Len(s) \in Nat /\ Len(t) \in Nat
      /\ \A k \in 1..Len(s) : (s \o t)[k] = s[k]
      /\ \A k \in 1..Len(t) : (s \o t)[Len(s) + k] = t[k]
      BY ConcatOf
<1> DEFINE u == s \o t
<1> HIDE DEF u
<1>2. CASE Contains(s, x)
  <2>1. PICK i \in 1..Len(s) : s[i] = x
        BY <1>2 DEF Contains
  <2>2. i \in 1..Len(u) /\ u[i] = x
        BY <1>1, <2>1 DEF u
  <2> QED BY <2>2 DEF Contains, u
<1>3. CASE Contains(t, x)
  <2>1. PICK i \in 1..Len(t) : t[i] = x
        BY <1>3 DEF Contains
  <2>2. Len(s) + i \in 1..Len(u) /\ u[Len(s) + i] = x
        BY <1>1, <2>1 DEF u
  <2> QED BY <2>2 DEF Contains, u
<1> QED BY <1>2, <1>3

PipeIsFine(p) ==
    /\ p.native = TRUE => /\ p.launch \in Launch /\ p.stream \in Stream
                          /\ p = Native(p.launch, p.stream)
    /\ p.native = FALSE => p.stream \in Stream /\ p = Own(p.stream)
    /\ p.native \in BOOLEAN /\ p.launch \in Nat /\ p.stream \in Stream

\* Native pipes and the process' own pipes.
LEMMA PipeFacts ==
    /\ \A s \in Stream : Own(s) \in Pipes /\ Own(s).native = FALSE /\ Own(s).stream = s
    /\ \A k \in Launch, s \in Stream :
          /\ Native(k, s) \in Pipes /\ Native(k, s).native = TRUE
          /\ Native(k, s).launch = k /\ Native(k, s).stream = s
    /\ \A p \in Pipes : PipeIsFine(p)
<1>1. \A s \in Stream : Own(s) \in Pipes
      BY DEF Pipes
<1>2. \A s \in Stream : Own(s).native = FALSE /\ Own(s).stream = s /\ Own(s).launch = 0
      BY Zenon DEF Own
<1>3. \A k \in Launch, s \in Stream : Native(k, s) \in Pipes
      BY DEF Pipes
<1>4. \A k \in Launch, s \in Stream :
         /\ Native(k, s).native = TRUE
         /\ Native(k, s).launch = k /\ Native(k, s).stream = s
      BY Zenon DEF Native
<1>5. ASSUME NEW p \in Pipes
      PROVE  PipeIsFine(p)
  <2>1. CASE p \in {Native(k, s) : k \in Launch, s \in Stream}
    <3>1. PICK k \in Launch, s \in Stream : p = Native(k, s)
          BY <2>1
    <3>2. k \in Nat
          BY ProcessAssumption DEF Launch
    <3>3. p.native = TRUE /\ p.launch = k /\ p.stream = s
          BY <3>1, <1>4, Zenon
    <3> QED BY <3>1, <3>2, <3>3, Zenon DEF PipeIsFine
  <2>2. CASE p \in {Own(s) : s \in Stream}
    <3>1. PICK s \in Stream : p = Own(s)
          BY <2>2
    <3>2. p.native = FALSE /\ p.launch = 0 /\ p.stream = s
          BY <3>1, <1>2, Zenon
    <3>3. 0 \in Nat
          OBVIOUS
    <3> QED BY <3>1, <3>2, <3>3, Zenon DEF PipeIsFine
  <2>3. p \in {Native(k, s) : k \in Launch, s \in Stream} \/ p \in {Own(s) : s \in Stream}
        BY <1>5 DEF Pipes
  <2> QED BY <2>1, <2>2, <2>3
<1> HIDE DEF Own, Native, Pipes
<1> QED BY <1>1, <1>2, <1>3, <1>4, <1>5

\* What a chunk is.
LEMMA ChunkFacts ==
    ASSUME NEW k \in Launch, NEW s \in Stream, NEW n \in 1..MaxChunk
    PROVE  /\ Chunk(k, s, n) \in ChunkSet
           /\ Chunk(k, s, n).launch = k /\ Chunk(k, s, n).stream = s /\ Chunk(k, s, n).n = n
BY DEF Chunk, ChunkSet

\* The pipes that are closed are pipes.
LEMMA ToCloseType == ASSUME launches \in Launch PROVE ToClose \in Seq(Pipes)
<1> DEFINE N == Cardinality(Stream)
<1>1. N \in Nat /\ ExistsBijection(1..N, Stream)
      BY FS_CardinalityType, ProcessAssumption
<1>2. PICK f \in Bijection(1..N, Stream) : TRUE
      BY <1>1 DEF ExistsBijection
<1>3. f \in [1..N -> Stream] /\ IsInjective(f)
      BY <1>2 DEF Bijection, Injection, IsInjective
<1>4. SetToSeq(Stream) \in [1..N -> Stream]
      BY <1>3 DEF SetToSeq
<1>5. ASSUME NEW i \in 1..(2 * N)  PROVE (i + 1) \div 2 \in 1..N
      BY <1>1, <1>5, SMTT(30)
<1>6. ToClose \in [1..(2 * N) -> Pipes]
      BY <1>4, <1>5, PipeFacts DEF ToClose
<1>7. 2 * N \in Nat
      BY <1>1
<1> QED BY <1>6, <1>7, SeqDef
-----------------------------------------------------------------------------
(* Where the process, its threads and the main thread can be.               *)

\* Launches have modes and output in their order.
Begins ==
    /\ launches = 0 => ~running /\ monitor = "none" /\ mpc = "loop"
    /\ \A k \in Launch : k <= launches <=> mode[k] # "none"
    /\ \A k \in Launch : k > launches => \A s \in Stream : written[k][s] = 0

Readers ==
    \A s \in Stream :
        /\ reader[s] = "none" => os[s] = 0 /\ child # "alive"
        /\ reader[s] = "passing" => os[s] > 0
        /\ launches > 0 => os[s] <= written[launches][s]

\* The child of the last launch is dead and all its output has been read.
Over == child # "alive" /\ \A s \in Stream : os[s] = 0 /\ reader[s] = "none"

Stages ==
    /\ ~running => Over
    /\ monitor \in {"wait", "join", "callback"} => running /\ mode[launches] = "async"
    /\ monitor = "callback" => Over
    /\ mpc = "wait" => running /\ mode[launches] = "sync"
    /\ mpc \in {"output", "listening"} =>
          Over /\ mode[launches] = "sync" /\ (running <=> ~ExitCallbackSet)
    /\ mpc = "closing" =>
          /\ Over
          /\ mode[launches] = "async" => running /\ monitor = "callback"
          /\ mode[launches] = "sync" => running \/ ExitCallbackSet
    /\ mpc = "loop" /\ running => mode[launches] = "async"

Phases == Begins /\ Readers /\ Stages

USE DEF vars, processVars, childVars, outputVars, queues, firing, told

\* What each variable is changed by.
LEMMA Frame ==
    ASSUME [Next]_vars
    PROVE  /\ LaunchAsync \/ LaunchSync \/ UNCHANGED <<launches, mode>>
           /\ LaunchAsync \/ LaunchSync \/ Exited \/ UNCHANGED running
           /\ \/ \E s \in Stream : ChildWrites(s) \/ Read(s) \/ PassOn(s) \/ ReadEnds(s)
              \/ ChildExits \/ LaunchAsync \/ LaunchSync
              \/ UNCHANGED <<launches, childVars, reader>>
           /\ LaunchSync \/ SyncWaited \/ UNCHANGED mpc \/ (mpc # "wait" /\ mpc' # "wait")
           /\ SyncWaited \/ SyncExited \/ ExitCallback \/ ClosePipe \/ UNCHANGED closing
           /\ (\E s \in Stream : Read(s)) \/ UNCHANGED processOutput
           /\ SyncWaited \/ UNCHANGED returned
           /\ \/ \E s \in Stream : Read(s) \/ PassOn(s)
              \/ CollectRead \/ UNCHANGED <<readData, pipesNeedingReadEvents>>
           /\ ClosePipe \/ CollectClose \/ UNCHANGED pipesNeedingCloseEvents
           /\ Exited \/ CollectOther \/ UNCHANGED otherEvents
           /\ EventStep \/ UNCHANGED firing
           /\ SyncRead \/ Dispatched \/ UNCHANGED seen
           /\ Dispatched \/ UNCHANGED closed
           /\ Exited \/ Dispatched \/ UNCHANGED exited
BY DEF Next, ReaderStep, MonitorStep, MainStep, EventStep, ChildWrites, Read, PassOn, QueueRead,
       ReadEnds, ChildExits, LaunchAsync, LaunchSync, Launches, Waited, StopMonitors,
       MonitorEnds, SyncWaited, SyncRead, SyncExited, ExitCallback, ClosePipe, Exited,
       ExitedAs, CollectOther, CollectClose, CollectRead, FireNext, Dispatched

\* A chunk that is being read is one of the last launch's.
LEMMA NextChunkFacts ==
    ASSUME Places, Counts, Phases, NEW s \in Stream, os[s] > 0
    PROVE  /\ launches \in Launch /\ written[launches][s] - os[s] + 1 \in 1..MaxChunk
           /\ NextChunk(s) \in ChunkSet
<1>1. running
      BY DEF Phases, Stages, Over
<1>2. launches \in Launch
      BY <1>1, ProcessAssumption DEF Places, Phases, Begins, Launch
<1>3. written[launches][s] \in 0..MaxChunk /\ os[s] \in 0..MaxChunk
      BY <1>2 DEF Counts
<1>4. os[s] <= written[launches][s]
      BY <1>2, ProcessAssumption DEF Phases, Readers, Launch
<1>5. written[launches][s] - os[s] + 1 \in 1..MaxChunk
      BY <1>3, <1>4, ProcessAssumption
<1> QED BY <1>2, <1>5, ChunkFacts DEF NextChunk

\* A chunk that is being written is another of the last launch's.
LEMMA RoomForChunk ==
    ASSUME Places, Counts, Phases, NEW s \in Stream, ChildWrites(s)
    PROVE  /\ launches \in Launch /\ os[s] <= written[launches][s]
           /\ written[launches][s] + 1 \in 0..MaxChunk /\ os[s] + 1 \in 0..MaxChunk
<1>1. launches \in Launch
      BY ProcessAssumption DEF ChildWrites, Places, Phases, Begins, Stages, Over, Launch
<1>2. /\ written[launches][s] \in 0..MaxChunk /\ written[launches][s] < MaxChunk
      /\ os[s] \in 0..MaxChunk /\ os[s] <= written[launches][s]
      BY <1>1, ProcessAssumption DEF ChildWrites, Counts, Phases, Readers, Launch
<1> QED BY <1>1, <1>2, ProcessAssumption

\* Each step keeps them so.
LEMMA StagesStep ==
    ASSUME Places, Counts, Phases, [Next]_vars
    PROVE  Places' /\ Counts' /\ Phases'
<1> USE ProcessAssumption
        DEF Phases, Begins, Readers, Stages, Over, Places, Counts, ExitCallbackSet, Launch
<1>1. ASSUME NEW s \in Stream, ChildWrites(s)  PROVE Places' /\ Counts' /\ Phases'
  <2>1. /\ launches \in Launch /\ os[s] <= written[launches][s]
        /\ written[launches][s] + 1 \in 0..MaxChunk /\ os[s] + 1 \in 0..MaxChunk
        BY <1>1, RoomForChunk
  <2>2. Counts'
        BY <1>1, <2>1 DEF ChildWrites
  <2>3. Places' /\ Begins' /\ Readers'
        BY <1>1, <2>1 DEF ChildWrites
  <2>4. Stages'
        BY <1>1 DEF ChildWrites
  <2> QED BY <2>2, <2>3, <2>4
<1>2. ASSUME NEW s \in Stream, Read(s)  PROVE Places' /\ Counts' /\ Phases'
      BY <1>2 DEF Read, QueueRead
<1>3. ASSUME NEW s \in Stream, PassOn(s)  PROVE Places' /\ Counts' /\ Phases'
  <2>1. Places' /\ Begins' /\ os' = [os EXCEPT ![s] = @ - 1] /\ written' = written
        BY <1>3 DEF PassOn, QueueRead
  <2>2. os[s] - 1 \in 0..MaxChunk
        BY <1>3 DEF PassOn
  <2>3. Counts'
        BY <2>1, <2>2
  <2>4. Readers'
        BY <1>3 DEF PassOn, QueueRead
  <2>5. Stages'
        BY <1>3 DEF PassOn, QueueRead
  <2> QED BY <2>1, <2>3, <2>4, <2>5
<1>4. ASSUME NEW s \in Stream, ReadEnds(s)  PROVE Places' /\ Counts' /\ Phases'
      BY <1>4 DEF ReadEnds
<1>5. ASSUME ChildExits  PROVE Places' /\ Counts' /\ Phases'
      BY <1>5 DEF ChildExits
<1>6. ASSUME LaunchAsync  PROVE Places' /\ Counts' /\ Phases'
      BY <1>6 DEF LaunchAsync, Launches
<1>7. ASSUME LaunchSync  PROVE Places' /\ Counts' /\ Phases'
      BY <1>7 DEF LaunchSync, Launches
<1>8. ASSUME Waited  PROVE Places' /\ Counts' /\ Phases'
      BY <1>8 DEF Waited
<1>9. ASSUME StopMonitors  PROVE Places' /\ Counts' /\ Phases'
      BY <1>9 DEF StopMonitors, Joined
<1>10. ASSUME MonitorEnds  PROVE Places' /\ Counts' /\ Phases'
      BY <1>10 DEF MonitorEnds
<1>11. ASSUME SyncWaited  PROVE Places' /\ Counts' /\ Phases'
      BY <1>11 DEF SyncWaited, Joined
<1>12. ASSUME SyncRead  PROVE Places' /\ Counts' /\ Phases'
      BY <1>12 DEF SyncRead
<1>13. ASSUME SyncExited  PROVE Places' /\ Counts' /\ Phases'
      BY <1>13 DEF SyncExited
<1>14. ASSUME ExitCallback  PROVE Places' /\ Counts' /\ Phases'
      BY <1>14 DEF ExitCallback
<1>15. ASSUME Exited  PROVE Places' /\ Counts' /\ Phases'
      BY <1>15 DEF Exited, ExitedAs, InCallback
<1>16. ASSUME ClosePipe \/ EventStep \/ UNCHANGED vars  PROVE Places' /\ Counts' /\ Phases'
  <2>1. /\ UNCHANGED <<processVars, childVars, reader, monitor, mpc>>
        /\ epc' \in {epc, "other", "close", "read", "fire", "dispatch"}
        BY <1>16 DEF ClosePipe, EventStep, CollectOther, CollectClose, CollectRead,
                     FireNext, Dispatched
  <2>2. Places' /\ Counts' /\ Begins' /\ Readers'
        BY <2>1 DEF Places, Counts, Begins, Readers
  <2>3. Over' = Over /\ ExitCallbackSet' = ExitCallbackSet
        BY <2>1 DEF Over, ExitCallbackSet
  <2>4. Stages'
        BY <2>1, <2>3 DEF Stages
  <2> QED BY <2>2, <2>4
<1> QED BY <1>1, <1>2, <1>3, <1>4, <1>5, <1>6, <1>7, <1>8, <1>9, <1>10, <1>11, <1>12,
           <1>13, <1>14, <1>15, <1>16 DEF Next, ReaderStep, MonitorStep, MainStep
-----------------------------------------------------------------------------
(* The types of the queues and histories.                                   *)

\* What an event is about.
LEMMA EventFacts ==
    ASSUME NEW e \in EventSet
    PROVE  /\ e.what \in {"read", "close", "exit"}
           /\ e.what = "read" => e.pipe \in Pipes /\ e.data \in Seq(ChunkSet)
           /\ e.what = "close" => e.pipe \in Pipes /\ e.launch \in Launch /\ e.data = <<>>
           /\ e.what = "exit" => e.launch \in Launch /\ e.data = <<>>
<1>1. CASE e \in ReadEventSet
      BY <1>1 DEF ReadEventSet
<1>2. CASE e \in CloseEventSet
      BY <1>2 DEF CloseEventSet
<1>3. CASE e \in ExitEventSet
      BY <1>3 DEF ExitEventSet
<1> QED BY <1>1, <1>2, <1>3 DEF EventSet

\* Putting three sequences together.
LEMMA ThreeTogether ==
    ASSUME NEW S, NEW r \in Seq(S), NEW c \in Seq(S), NEW x \in Seq(S)
    PROVE  /\ r \o c \o x \in Seq(S) /\ Len(r \o c \o x) = Len(r) + Len(c) + Len(x)
           /\ \A k \in 1..Len(r) : (r \o c \o x)[k] = r[k]
           /\ \A k \in 1..Len(c) : (r \o c \o x)[Len(r) + k] = c[k]
           /\ \A k \in 1..Len(x) : (r \o c \o x)[Len(r) + Len(c) + k] = x[k]
<1> DEFINE rc == r \o c
<1>1. /\ rc \in Seq(S) /\ Len(rc) = Len(r) + Len(c) /\ Len(r) \in Nat /\ Len(c) \in Nat
      /\ \A k \in 1..Len(r) : rc[k] = r[k]
      /\ \A k \in 1..Len(c) : rc[Len(r) + k] = c[k]
      BY ConcatOf
<1>2. rc \o x = r \o c \o x
      OBVIOUS
<1> HIDE DEF rc
<1>3. /\ rc \o x \in Seq(S) /\ Len(rc \o x) = Len(rc) + Len(x)
      /\ \A k \in 1..Len(rc) : (rc \o x)[k] = rc[k]
      /\ \A k \in 1..Len(x) : (rc \o x)[Len(rc) + k] = x[k]
  <2>1. rc \in Seq(S)
        BY <1>1
  <2> QED BY <2>1, ConcatOf
<1> DEFINE u == rc \o x
<1> HIDE DEF u
<1>4. ASSUME NEW k \in 1..Len(r)  PROVE u[k] = r[k]
      BY <1>1, <1>3, <1>4 DEF u
<1>5. ASSUME NEW k \in 1..Len(c)  PROVE u[Len(r) + k] = c[k]
  <2>1. Len(r) + k \in 1..Len(rc)
        BY <1>1
  <2> QED BY <1>1, <1>3, <2>1 DEF u
<1> QED BY <1>1, <1>2, <1>3, <1>4, <1>5 DEF u

\* The events that are collected: the reads, the closes, the exits.
LEMMA Collected ==
    ASSUME Queued, CollectRead
    PROVE  LET nr == Len(pipesNeedingReadEvents)
               nc == Len(closes)
               ne == Len(exits)
           IN  /\ nr \in Nat /\ nc \in Nat /\ ne \in Nat
               /\ batch' \in Seq(EventSet) /\ Len(batch') = nr + nc + ne
               /\ \A i \in 1..nr : batch'[i] = ReadEvents[i]
               /\ \A i \in 1..nc : batch'[nr + i] = CloseEvents[i]
               /\ \A i \in 1..ne : batch'[nr + nc + i] = ExitEvents[i]
<1> DEFINE nr == Len(pipesNeedingReadEvents)
           nc == Len(closes)
           ne == Len(exits)
<1>1. /\ nr \in Nat /\ pipesNeedingReadEvents \in [1..nr -> Pipes]
      /\ nc \in Nat /\ closes \in [1..nc -> CloseSet]
      /\ ne \in Nat /\ exits \in [1..ne -> Launch]
      BY LenProperties DEF Queued
<1>2. ReadEvents \in Seq(EventSet) /\ Len(ReadEvents) = nr
  <2>1. ASSUME NEW i \in 1..nr
        PROVE  ReadEvents[i] \in EventSet
    <3> DEFINE p == pipesNeedingReadEvents[i]
               d == IF QueuedFirst(i) THEN readData[p] ELSE <<>>
    <3>1. p \in Pipes
          BY <1>1
    <3>2. p.launch \in Nat
          BY <3>1, PipeFacts DEF PipeIsFine
    <3>3. d \in Seq(ChunkSet)
      <4>1. readData[p] \in Seq(ChunkSet)
            BY <3>1 DEF Queued
      <4>2. <<>> \in Seq(ChunkSet)
            OBVIOUS
      <4> QED BY <4>1, <4>2
    <3>4. ReadEvents[i] = Event("read", p, p.launch, d)
          BY DEF ReadEvents
    <3> HIDE DEF p, d
    <3>5. Event("read", p, p.launch, d) \in ReadEventSet
          BY <3>1, <3>2, <3>3 DEF Event, ReadEventSet
    <3> QED BY <3>4, <3>5 DEF EventSet
  <2>2. ReadEvents \in [1..nr -> EventSet]
        BY <2>1 DEF ReadEvents
  <2> HIDE DEF nr
  <2> QED BY <2>2, <1>1, SeqDef, LenProperties
<1>3. CloseEvents \in Seq(EventSet) /\ Len(CloseEvents) = nc
  <2>1. ASSUME NEW i \in 1..nc
        PROVE  CloseEvents[i] \in EventSet
    <3>1. closes[i] \in CloseSet
          BY <1>1
    <3>2. Event("close", closes[i].pipe, closes[i].launch, <<>>) \in CloseEventSet
          BY <3>1 DEF Event, CloseEventSet, CloseSet
    <3> QED BY <3>2 DEF CloseEvents, EventSet
  <2>2. CloseEvents \in [1..nc -> EventSet]
        BY <2>1 DEF CloseEvents
  <2> HIDE DEF nc
  <2> QED BY <2>2, <1>1, SeqDef, LenProperties
<1>4. ExitEvents \in Seq(EventSet) /\ Len(ExitEvents) = ne
  <2>1. ASSUME NEW i \in 1..ne
        PROVE  ExitEvents[i] \in EventSet
    <3>1. exits[i] \in Launch
          BY <1>1
    <3>2. Event("exit", Own("none"), exits[i], <<>>) \in ExitEventSet
          BY <3>1 DEF Event, ExitEventSet
    <3> QED BY <3>2 DEF ExitEvents, EventSet
  <2>2. ExitEvents \in [1..ne -> EventSet]
        BY <2>1 DEF ExitEvents
  <2> HIDE DEF ne
  <2> QED BY <2>2, <1>1, SeqDef, LenProperties
<1> DEFINE r == ReadEvents
           c == CloseEvents
           x == ExitEvents
<1>5. batch' = r \o c \o x
      BY DEF CollectRead
<1> HIDE DEF r, c, x, nr, nc, ne
<1>6. /\ r \in Seq(EventSet) /\ Len(r) = nr /\ c \in Seq(EventSet) /\ Len(c) = nc
      /\ x \in Seq(EventSet) /\ Len(x) = ne
      BY <1>2, <1>3, <1>4 DEF r, c, x
<1>7. /\ r \o c \o x \in Seq(EventSet) /\ Len(r \o c \o x) = Len(r) + Len(c) + Len(x)
      /\ \A k \in 1..Len(r) : (r \o c \o x)[k] = r[k]
      /\ \A k \in 1..Len(c) : (r \o c \o x)[Len(r) + k] = c[k]
      /\ \A k \in 1..Len(x) : (r \o c \o x)[Len(r) + Len(c) + k] = x[k]
  <2>1. r \in Seq(EventSet) /\ c \in Seq(EventSet) /\ x \in Seq(EventSet)
        BY <1>6
  <2> QED BY <2>1, ThreeTogether
<1> QED BY <1>1, <1>5, <1>6, <1>7 DEF r, c, x, nr, nc, ne

\* What is where in the batch then.
LEMMA CollectedKinds ==
    ASSUME Queued, CollectRead, NEW m \in 1..Len(batch')
    PROVE  LET nr == Len(pipesNeedingReadEvents)
               nc == Len(closes)
           IN  \/ m \in 1..nr /\ batch'[m].what = "read"
               \/ \E i \in 1..nc : /\ m = nr + i /\ batch'[m].what = "close"
                                  /\ batch'[m].pipe = closes[i].pipe
                                  /\ batch'[m].launch = closes[i].launch
               \/ \E i \in 1..Len(exits) : /\ m = nr + nc + i /\ batch'[m].what = "exit"
                                          /\ batch'[m].launch = exits[i]
<1> DEFINE nr == Len(pipesNeedingReadEvents)
           nc == Len(closes)
           ne == Len(exits)
<1>1. /\ nr \in Nat /\ nc \in Nat /\ ne \in Nat /\ Len(batch') = nr + nc + ne
      /\ \A i \in 1..nr : batch'[i] = ReadEvents[i]
      /\ \A i \in 1..nc : batch'[nr + i] = CloseEvents[i]
      /\ \A i \in 1..ne : batch'[nr + nc + i] = ExitEvents[i]
      BY Collected
<1>2. /\ \A i \in 1..nr : ReadEvents[i].what = "read"
      /\ \A i \in 1..nc : /\ CloseEvents[i].what = "close"
                          /\ CloseEvents[i].pipe = closes[i].pipe
                          /\ CloseEvents[i].launch = closes[i].launch
      /\ \A i \in 1..ne : ExitEvents[i].what = "exit" /\ ExitEvents[i].launch = exits[i]
      BY DEF ReadEvents, CloseEvents, ExitEvents, Event
<1> HIDE DEF nr, nc, ne
<1>3. CASE m \in 1..nr
      BY <1>1, <1>2, <1>3 DEF nr
<1>4. CASE m - nr \in 1..nc
  <2> DEFINE i == m - nr
  <2>1. i \in 1..nc /\ m = nr + i
        BY <1>1, <1>4
  <2> HIDE DEF i
  <2> QED BY <1>1, <1>2, <2>1 DEF nr, nc
<1>5. CASE m - nr - nc \in 1..ne
  <2> DEFINE i == m - nr - nc
  <2>1. i \in 1..ne /\ m = nr + nc + i
        BY <1>1, <1>5
  <2> HIDE DEF i
  <2> QED BY <1>1, <1>2, <2>1 DEF nr, nc, ne
<1> QED BY <1>1, <1>3, <1>4, <1>5

\* What FireEvents has collected is with it only while it fires.
Empties ==
    /\ epc \in {"other", "close", "read"} => batch = <<>>
    /\ epc \notin {"close", "read"} => exits = <<>>
    /\ epc # "read" => closes = <<>>
    /\ epc = "dispatch" => /\ batch # <<>> /\ HasData(Head(batch))
                           /\ Head(batch).what = "close" => Head(batch).pipe.native = FALSE

\* Each step keeps it so.
LEMMA EmptiesStep == ASSUME Places, Queued, Empties, [Next]_vars PROVE Empties'
<1>1. ASSUME UNCHANGED firing  PROVE Empties'
      BY <1>1 DEF Empties
<1>2. CASE CollectOther \/ CollectClose \/ CollectRead
      BY <1>2 DEF CollectOther, CollectClose, CollectRead, Empties
<1>3. ASSUME UNCHANGED <<closes, exits>>, epc \in {"fire", "dispatch"}, epc' = "fire"
      PROVE  Empties'
      BY <1>3 DEF Empties
<1>4. CASE FireNext
  <2>1. /\ epc = "fire" /\ UNCHANGED <<closes, exits>>
        /\ batch = <<>> \/ Head(batch) \in EventSet
        BY <1>4, TailOf DEF FireNext, Queued
  <2>2. CASE batch = <<>>
        BY <1>4, <2>1, <2>2 DEF FireNext, Empties
  <2>3. CASE batch # <<>> /\ HasData(Head(batch)) /\ Listening(Head(batch))
    <3>1. epc' = "dispatch" /\ batch' = batch
          BY <1>4, <2>3 DEF FireNext
    <3>2. Head(batch).what = "close" => ~Head(batch).pipe.native
          BY <2>3 DEF Listening
    <3>3. Head(batch).what = "close" => Head(batch).pipe.native = FALSE
      <4>1. Head(batch).what = "close" => Head(batch).pipe.native \in BOOLEAN
            BY <2>1, <2>3, EventFacts, PipeFacts DEF PipeIsFine
      <4> QED BY <3>2, <4>1, Zenon
    <3>4. batch' # <<>> /\ HasData(Head(batch')) /\
            (Head(batch').what = "close" => Head(batch').pipe.native = FALSE)
          BY <2>3, <3>1, <3>3
    <3> QED BY <2>1, <3>1, <3>4 DEF Empties, HasData
  <2>4. CASE batch # <<>> /\ ~(HasData(Head(batch)) /\ Listening(Head(batch)))
        BY <1>4, <1>3, <2>1, <2>4 DEF FireNext
  <2> QED BY <2>2, <2>3, <2>4
<1>5. CASE Dispatched
      BY <1>3, <1>5 DEF Dispatched
<1> QED BY <1>1, <1>2, <1>4, <1>5, Frame
        DEF EventStep

\* Each step keeps the types of the queues.
LEMMA QueuedStep ==
    ASSUME Places, Counts, Phases, Empties, Queued, [Next]_vars
    PROVE  Queued'
<1>1. CASE UNCHANGED <<closing, queues, firing>>
      BY <1>1 DEF Queued
<1>2. ASSUME NEW s \in Stream, Read(s) \/ PassOn(s)  PROVE Queued'
  <2>1. os[s] > 0
        BY <1>2 DEF Read, PassOn, Phases, Readers
  <2>2. PICK p \in Pipes, c \in ChunkSet : QueueRead(p, c)
        BY <1>2, <2>1, NextChunkFacts, PipeFacts DEF Read, PassOn
  <2>3. /\ Append(readData[p], c) \in Seq(ChunkSet)
        /\ Append(pipesNeedingReadEvents, p) \in Seq(Pipes)
        BY <2>2, AppendOf DEF Queued
  <2>4. readData' \in [Pipes -> Seq(ChunkSet)] /\ pipesNeedingReadEvents' \in Seq(Pipes)
        BY <2>2, <2>3 DEF QueueRead, Queued
  <2>5. UNCHANGED <<closing, pipesNeedingCloseEvents, otherEvents, firing>>
        BY <1>2 DEF Read, PassOn
  <2> QED BY <2>4, <2>5 DEF Queued
<1>3. CASE SyncWaited \/ SyncExited \/ ExitCallback
  <2>1. launches \in Launch
        BY <1>3, ProcessAssumption DEF SyncWaited, SyncExited, ExitCallback, Places, Phases,
                                       Begins, Launch
  <2>2. UNCHANGED <<queues, firing>> /\ closing' \in {closing, ToClose, <<>>}
        BY <1>3 DEF SyncWaited, SyncExited, ExitCallback
  <2>3. ToClose \in Seq(Pipes) /\ <<>> \in Seq(Pipes) /\ closing \in Seq(Pipes)
        BY <2>1, ToCloseType, EmptySeq DEF Queued
  <2>4. closing' \in Seq(Pipes)
        BY <2>2, <2>3, Zenon
  <2> QED BY <2>2, <2>4 DEF Queued
<1>4. CASE ClosePipe
  <2>1. launches \in Launch
        BY <1>4, ProcessAssumption DEF ClosePipe, Places, Phases, Begins, Launch
  <2>2. closing \in Seq(Pipes) /\ closing # <<>>
        BY <1>4 DEF ClosePipe, Queued
  <2>3. Head(closing) \in Pipes /\ Tail(closing) \in Seq(Pipes)
        BY <2>2, TailOf
  <2> DEFINE e == [pipe |-> Head(closing), launch |-> launches]
  <2>4. e \in CloseSet
        BY <2>1, <2>3 DEF CloseSet
  <2>5. Append(pipesNeedingCloseEvents, e) \in Seq(CloseSet)
        BY <2>4, AppendOf DEF Queued
  <2> QED BY <1>4, <2>3, <2>5 DEF ClosePipe, Queued
<1>5. CASE Exited
  <2>1. launches \in Launch
        BY <1>5, ProcessAssumption DEF Exited, ExitedAs, Places, Phases, Begins, Launch
  <2>2. Append(otherEvents, launches) \in Seq(Launch)
        BY <2>1, AppendOf DEF Queued
  <2>3. /\ otherEvents' \in {otherEvents, Append(otherEvents, launches)}
        /\ UNCHANGED <<closing, readData, pipesNeedingReadEvents, pipesNeedingCloseEvents,
                       firing>>
        BY <1>5 DEF Exited, ExitedAs
  <2> QED BY <2>2, <2>3 DEF Queued
<1>6. CASE CollectOther \/ CollectClose
  <2>1. <<>> \in Seq(Launch) /\ <<>> \in Seq(CloseSet)
        OBVIOUS
  <2>2. CASE CollectOther
        BY <2>1, <2>2 DEF CollectOther, Queued
  <2>3. CASE CollectClose
        BY <2>1, <2>3 DEF CollectClose, Queued
  <2> QED BY <1>6, <2>2, <2>3
<1>7. CASE CollectRead
  <2>1. batch' \in Seq(EventSet)
        BY <1>7, Collected
  <2>2. /\ pipesNeedingReadEvents' = <<>> /\ closes' = <<>> /\ exits' = <<>>
        /\ readData' \in [Pipes -> Seq(ChunkSet)]
        /\ UNCHANGED <<closing, pipesNeedingCloseEvents, otherEvents>>
        BY <1>7 DEF CollectRead, Queued
  <2> QED BY <2>1, <2>2 DEF Queued
<1>8. CASE FireNext \/ Dispatched
  <2>1. batch # <<>> => Tail(batch) \in Seq(EventSet)
        BY TailOf DEF Queued
  <2>2. \/ batch' = batch
        \/ batch' = Tail(batch) /\ batch # <<>>
        BY <1>8 DEF FireNext, Dispatched, Empties
  <2>3. UNCHANGED <<closing, queues, closes, exits>>
        BY <1>8 DEF FireNext, Dispatched
  <2> QED BY <2>1, <2>2, <2>3 DEF Queued
<1> QED BY <1>1, <1>2, <1>3, <1>4, <1>5, <1>6, <1>7, <1>8, Frame
        DEF EventStep

\* Each step keeps the types of the histories.
LEMMA HeardStep ==
    ASSUME Places, Counts, Phases, Empties, Queued, Heard, [Next]_vars
    PROVE  Heard'
<1>1. CASE UNCHANGED <<outputVars, seen, closed, exited>>
      BY <1>1 DEF Heard
<1>2. ASSUME NEW s \in Stream, Read(s)  PROVE Heard'
  <2>1. NextChunk(s) \in ChunkSet
        BY <1>2, NextChunkFacts DEF Read
  <2>2. Append(processOutput, NextChunk(s)) \in Seq(ChunkSet)
        BY <2>1, AppendOf DEF Heard
  <2> QED BY <1>2, <2>2 DEF Read, Heard
<1>3. CASE SyncWaited \/ SyncRead \/ Exited
  <2> mpc # "loop"
        BY <1>3 DEF SyncWaited, SyncRead, Exited, ExitedAs
  <2>1. launches \in Launch
        BY ProcessAssumption DEF Places, Phases, Begins, Launch
  <2>2. CASE SyncWaited
        BY <2>1, <2>2 DEF SyncWaited, Heard
  <2>3. CASE SyncRead
    <3>1. seen["onRead"] \o returned[launches] \in Seq(ChunkSet)
          BY <2>1, ConcatOf DEF Heard
    <3> QED BY <2>3, <3>1 DEF SyncRead, Heard
  <2>4. CASE Exited
    <3>1. exited' \in {exited, [exited EXCEPT ![launches] = @ + 1]}
          BY <2>4 DEF Exited, ExitedAs
    <3>2. [exited EXCEPT ![launches] = @ + 1] \in [Launch -> Nat] /\ exited \in [Launch -> Nat]
          BY <2>1 DEF Heard
    <3>3. exited' \in [Launch -> Nat]
          BY <3>1, <3>2, Zenon
    <3> QED BY <2>4, <3>3 DEF Exited, ExitedAs, Heard
  <2> QED BY <1>3, <2>2, <2>3, <2>4
<1>4. CASE Dispatched
  <2> DEFINE e == Head(batch)
  <2>1. e \in EventSet
        BY <1>4, TailOf DEF Dispatched, Empties, Queued
  <2>2. seen' \in [Stream \cup {"onRead"} -> Seq(ChunkSet)]
    <3>1. CASE e.what # "read"
          BY <1>4, <3>1 DEF Dispatched, Heard
    <3>2. CASE e.what = "read"
      <4>1. e.pipe \in Pipes /\ e.data \in Seq(ChunkSet)
            BY <2>1, <3>2, EventFacts
      <4>2. Hears(e) \in Stream \cup {"onRead"}
            BY <4>1, PipeFacts DEF Hears, PipeIsFine
      <4>3. seen[Hears(e)] \o e.data \in Seq(ChunkSet)
            BY <4>1, <4>2, ConcatOf DEF Heard
      <4> QED BY <1>4, <3>2, <4>2, <4>3 DEF Dispatched, Heard
    <3> QED BY <3>1, <3>2
  <2>3. closed' \subseteq Launch \X Stream
    <3>1. e.what = "close" => e.launch \in Launch /\ e.pipe.stream \in Stream
          BY <2>1, EventFacts, PipeFacts DEF PipeIsFine
    <3> QED BY <1>4, <3>1 DEF Dispatched, Heard
  <2>4. exited' \in [Launch -> Nat]
    <3>1. e.what = "exit" => e.launch \in Launch
          BY <2>1, EventFacts
    <3> QED BY <1>4, <3>1 DEF Dispatched, Heard
  <2>5. UNCHANGED outputVars
        BY <1>4 DEF Dispatched
  <2> QED BY <2>2, <2>3, <2>4, <2>5 DEF Heard
<1> QED BY <1>1, <1>2, <1>3, <1>4, Frame

-----------------------------------------------------------------------------
(* Exits are queued, and fired, once.                                       *)

\* The event at this place of the batch is the exit of launch k.
ExitAt(m, k) == batch[m].what = "exit" /\ batch[m].launch = k

\* The exit of launch k is about to be fired.
Pending(k) ==
    Contains(otherEvents, k) \/ Contains(exits, k) \/ \E m \in 1..Len(batch) : ExitAt(m, k)

Distinct(s) == \A i, j \in 1..Len(s) : s[i] = s[j] => i = j

\* Only a launch that is over has an exit, and it is in one queue, once.
Exits ==
    /\ \A k \in Launch : Pending(k) \/ exited[k] > 0 =>
          k <= launches /\ (k = launches => ~running)
    /\ Distinct(otherEvents) /\ Distinct(exits)
    /\ \A i, j \in 1..Len(batch) : \A k \in Launch : ExitAt(i, k) /\ ExitAt(j, k) => i = j
    /\ \A k \in Launch : Contains(otherEvents, k) =>
          ~Contains(exits, k) /\ \A m \in 1..Len(batch) : ~ExitAt(m, k)
    /\ \A k \in Launch : ~CalledAfterLaunch(k) =>
          exited[k] <= 1 /\ (exited[k] > 0 => ~Pending(k))

\* Each step keeps them so.
LEMMA ExitsStep ==
    ASSUME Types, Phases, Empties, Exits, [Next]_vars
    PROVE  Exits'
<1> USE DEF Types
<1> DEFINE Quiet == UNCHANGED <<launches, mode, running, otherEvents, exits, batch, exited>>
<1>1. CASE Quiet
  <2>1. \A k : CalledAfterLaunch(k)' = CalledAfterLaunch(k)
        BY <1>1 DEF CalledAfterLaunch
  <2>2. \A k : Pending(k)' = Pending(k)
        BY <1>1 DEF Pending, ExitAt
  <2> QED BY <1>1, <2>1, <2>2 DEF Exits, ExitAt
<1>2. CASE LaunchAsync \/ LaunchSync
  <2>1. /\ launches \in 0..MaxLaunch /\ launches' = launches + 1 /\ launches + 1 \in Launch
        /\ UNCHANGED <<otherEvents, exits, batch, exited>>
        /\ \E m : mode' = [mode EXCEPT ![launches + 1] = m]
        BY <1>2, ProcessAssumption DEF LaunchAsync, LaunchSync, Launches, Places, Launch
  <2>2. \A k : Pending(k)' = Pending(k)
        BY <2>1 DEF Pending, ExitAt
  <2>3. ASSUME NEW k \in Launch, k <= launches
        PROVE  CalledAfterLaunch(k)' = CalledAfterLaunch(k)
    <3>1. \A j \in 1..k : mode'[j] = mode[j]
          BY <2>1, <2>3, ProcessAssumption DEF Places, Launch
    <3> QED BY <3>1, ProcessAssumption DEF CalledAfterLaunch, Launch
  <2>4. ASSUME NEW k \in Launch, Pending(k) \/ exited[k] > 0
        PROVE  k <= launches /\ k <= launches' /\ k # launches'
        BY <2>1, <2>4, ProcessAssumption DEF Exits, Launch
  <2>5. ASSUME NEW k \in Launch, ~CalledAfterLaunch(k)'
        PROVE  exited[k] <= 1 /\ (exited[k] > 0 => ~Pending(k))
    <3>1. exited[k] \in Nat
          BY DEF Heard
    <3>2. CASE exited[k] > 0
          BY <2>3, <2>4, <2>5, <3>2 DEF Exits
    <3> QED BY <3>1, <3>2
  <2>6. \A i, k : ExitAt(i, k)' = ExitAt(i, k)
        BY <2>1 DEF ExitAt
  <2>7. \A k \in Launch : Pending(k)' \/ exited'[k] > 0 =>
           k <= launches' /\ (k = launches' => ~running')
        BY <2>1, <2>2, <2>4
  <2>8. \A k \in Launch : ~CalledAfterLaunch(k)' =>
           exited'[k] <= 1 /\ (exited'[k] > 0 => ~Pending(k)')
        BY <2>1, <2>2, <2>5
  <2> QED BY <2>1, <2>6, <2>7, <2>8 DEF Exits, Distinct
<1>3. CASE Exited /\ ~InCallback
  <2> DEFINE L == launches
  <2>1. /\ L \in Launch /\ mpc = "closing" /\ running' = FALSE
        /\ exited' = [exited EXCEPT ![L] = @ + 1]
        /\ UNCHANGED <<launches, mode, otherEvents, exits, batch>>
        BY <1>3, ProcessAssumption DEF Exited, ExitedAs, Places, Phases, Begins, Launch
  <2>2. \A k : CalledAfterLaunch(k)' = CalledAfterLaunch(k)
        BY <2>1 DEF CalledAfterLaunch
  <2>3. \A k : Pending(k)' = Pending(k)
        BY <2>1 DEF Pending, ExitAt
  <2>4. mode[L] = "sync"
        BY <1>3, <2>1, ProcessAssumption DEF InCallback, Phases, Stages, Begins, Places, Launch
  <2>5. exited \in [Launch -> Nat]
        BY DEF Heard
  <2>6. CASE running
    <3>1. exited[L] = 0 /\ ~Pending(L)
          BY <2>1, <2>5, <2>6, ProcessAssumption DEF Exits, Launch
    <3>2. \A k \in Launch : ~CalledAfterLaunch(k)' =>
             exited'[k] <= 1 /\ (exited'[k] > 0 => ~Pending(k)')
          BY <2>1, <2>2, <2>3, <2>5, <3>1 DEF Exits
    <3>3. \A k \in Launch : Pending(k)' \/ exited'[k] > 0 =>
             k <= launches' /\ (k = launches' => ~running')
          BY <2>1, <2>3, <2>5, ProcessAssumption DEF Exits, Launch
    <3> QED BY <2>1, <3>2, <3>3 DEF Exits, Distinct, ExitAt
  <2>7. CASE ~running
    <3>1. ExitCallbackSet
          BY <2>1, <2>4, <2>7 DEF Phases, Stages
    <3>2. CalledAfterLaunch(L)
      <4>1. PICK j \in 1..L : mode[j] = "async"
            BY <3>1 DEF ExitCallbackSet
      <4>2. j \in 1..(L - 1)
            BY <2>1, <2>4, <4>1, ProcessAssumption DEF Launch
      <4> QED BY <2>4, <4>1, <4>2 DEF CalledAfterLaunch
    <3>3. \A k \in Launch : ~CalledAfterLaunch(k)' =>
             exited'[k] <= 1 /\ (exited'[k] > 0 => ~Pending(k)')
          BY <2>1, <2>2, <2>3, <2>5, <3>2 DEF Exits
    <3>4. \A k \in Launch : Pending(k)' \/ exited'[k] > 0 =>
             k <= launches' /\ (k = launches' => ~running')
          BY <2>1, <2>3, <2>5, ProcessAssumption DEF Exits, Launch
    <3> QED BY <2>1, <3>3, <3>4 DEF Exits, Distinct, ExitAt
  <2> QED BY <2>6, <2>7 DEF Types, Places
<1>4. CASE Exited /\ InCallback
  <2> DEFINE L == launches
  <2>1. /\ L \in Launch /\ running /\ running' = FALSE
        /\ otherEvents' = Append(otherEvents, L)
        /\ UNCHANGED <<launches, mode, exits, batch, exited>>
        BY <1>4, ProcessAssumption
           DEF Exited, ExitedAs, InCallback, Places, Phases, Begins, Launch
  <2>2. exited \in [Launch -> Nat] /\ otherEvents \in Seq(Launch)
        BY DEF Heard, Queued
  <2>3. exited[L] = 0 /\ ~Pending(L)
        BY <2>1, <2>2, ProcessAssumption DEF Exits, Launch
  <2>4. \A k : CalledAfterLaunch(k)' = CalledAfterLaunch(k)
        BY <2>1 DEF CalledAfterLaunch
  <2>5. /\ Len(otherEvents) \in Nat /\ Len(otherEvents') = Len(otherEvents) + 1
        /\ \A i \in 1..Len(otherEvents) : otherEvents'[i] = otherEvents[i]
        /\ otherEvents'[Len(otherEvents) + 1] = L
        BY <2>1, <2>2, AppendOf
  <2>6. \A k : Contains(otherEvents', k) <=> Contains(otherEvents, k) \/ k = L
        BY <2>1, <2>2, ContainsAppend
  <2>7. \A i \in 1..Len(otherEvents) : otherEvents[i] # L
        BY <2>3 DEF Pending, Contains
  <2>8. Distinct(otherEvents)'
    <3> SUFFICES ASSUME NEW i \in 1..Len(otherEvents'), NEW j \in 1..Len(otherEvents'),
                        otherEvents'[i] = otherEvents'[j]
                 PROVE  i = j
          BY DEF Distinct
    <3>1. Distinct(otherEvents)
          BY DEF Exits
    <3>2. (i \in 1..Len(otherEvents) \/ i = Len(otherEvents) + 1)
          /\ (j \in 1..Len(otherEvents) \/ j = Len(otherEvents) + 1)
          BY <2>5
    <3> QED BY <2>5, <2>7, <3>1, <3>2 DEF Distinct
  <2>9. \A k : Pending(k)' <=> Pending(k) \/ k = L
    <3>1. \A k : Contains(exits', k) <=> Contains(exits, k)
          BY <2>1
    <3>2. \A k : (\E m \in 1..Len(batch') : ExitAt(m, k)')
                    <=> (\E m \in 1..Len(batch) : ExitAt(m, k))
          BY <2>1 DEF ExitAt
    <3> QED BY <2>6, <3>1, <3>2 DEF Pending
  <2>10. \A k \in Launch : Pending(k)' \/ exited'[k] > 0 =>
            k <= launches' /\ (k = launches' => ~running')
        BY <2>1, <2>9, ProcessAssumption DEF Exits, Launch
  <2>11. \A k \in Launch : Contains(otherEvents', k) =>
            ~Contains(exits', k) /\ \A m \in 1..Len(batch') : ~ExitAt(m, k)'
    <3>1. ~Contains(exits, L) /\ \A m \in 1..Len(batch) : ~ExitAt(m, L)
          BY <2>3 DEF Pending
    <3> QED BY <2>1, <2>6, <3>1 DEF Exits, ExitAt
  <2>12. \A k \in Launch : ~CalledAfterLaunch(k)' =>
            exited'[k] <= 1 /\ (exited'[k] > 0 => ~Pending(k)')
        BY <2>1, <2>2, <2>3, <2>4, <2>9 DEF Exits
  <2>13. Distinct(exits)' /\ \A i, j \in 1..Len(batch') : \A k \in Launch :
            ExitAt(i, k)' /\ ExitAt(j, k)' => i = j
        BY <2>1 DEF Exits, Distinct, ExitAt
  <2> QED BY <2>8, <2>10, <2>11, <2>12, <2>13 DEF Exits
<1>5. CASE CollectOther
  <2>1. /\ exits = <<>> /\ batch = <<>> /\ exits' = otherEvents /\ otherEvents' = <<>>
        /\ UNCHANGED <<launches, mode, running, batch, exited>>
        BY <1>5 DEF CollectOther, Empties
  <2>2. /\ \A k : CalledAfterLaunch(k)' = CalledAfterLaunch(k)
        /\ \A k : Pending(k)' <=> Pending(k)
        BY <2>1 DEF CalledAfterLaunch, Pending, Contains, ExitAt
  <2>3. \A k : ~Contains(otherEvents', k)
        BY <2>1 DEF Contains
  <2>4. Distinct(otherEvents)' /\ Distinct(exits)'
        BY <2>1 DEF Exits, Distinct
  <2>5. \A i, j \in 1..Len(batch') : \A k \in Launch : ExitAt(i, k)' /\ ExitAt(j, k)' => i = j
        BY <2>1
  <2> QED BY <2>1, <2>2, <2>3, <2>4, <2>5 DEF Exits
<1>6. CASE CollectRead
  <2>1. /\ batch = <<>> /\ exits' = <<>>
        /\ UNCHANGED <<launches, mode, running, otherEvents, exited>>
        BY <1>6 DEF CollectRead, Empties
  <2>4. ASSUME NEW m \in 1..Len(batch'), NEW k, ExitAt(m, k)'
        PROVE  \E i \in 1..Len(exits) :
                  m = Len(pipesNeedingReadEvents) + Len(closes) + i /\ exits[i] = k
        BY <1>6, <2>4, CollectedKinds DEF ExitAt
  <2>5. ASSUME NEW k, Pending(k)'
        PROVE  Pending(k)
    <3>1. CASE Contains(otherEvents', k)
          BY <2>1, <3>1 DEF Pending
    <3>2. ASSUME NEW m \in 1..Len(batch'), ExitAt(m, k)'
          PROVE  Contains(exits, k)
          BY <2>4, <3>2 DEF Contains
    <3>3. ~Contains(exits', k)
          BY <2>1 DEF Contains
    <3> QED BY <2>5, <3>1, <3>2, <3>3 DEF Pending
  <2>6. \A i, j \in 1..Len(batch') : \A k \in Launch : ExitAt(i, k)' /\ ExitAt(j, k)' => i = j
    <3> SUFFICES ASSUME NEW i \in 1..Len(batch'), NEW j \in 1..Len(batch'), NEW k \in Launch,
                        ExitAt(i, k)', ExitAt(j, k)'
                 PROVE  i = j
          OBVIOUS
    <3>1. PICK x \in 1..Len(exits) :
             i = Len(pipesNeedingReadEvents) + Len(closes) + x /\ exits[x] = k
          BY <2>4
    <3>2. PICK y \in 1..Len(exits) :
             j = Len(pipesNeedingReadEvents) + Len(closes) + y /\ exits[y] = k
          BY <2>4
    <3>3. x = y
          BY <3>1, <3>2 DEF Exits, Distinct
    <3> QED BY <3>1, <3>2, <3>3
  <2>7. \A k \in Launch : Contains(otherEvents', k) =>
            ~Contains(exits', k) /\ \A m \in 1..Len(batch') : ~ExitAt(m, k)'
    <3> SUFFICES ASSUME NEW k \in Launch, Contains(otherEvents', k)
                 PROVE  ~Contains(exits', k) /\ \A m \in 1..Len(batch') : ~ExitAt(m, k)'
          OBVIOUS
    <3>1. ~Contains(exits, k) /\ ~Contains(exits', k)
          BY <2>1 DEF Exits, Contains
    <3>2. \A m \in 1..Len(batch') : ExitAt(m, k)' => Contains(exits, k)
          BY <2>4 DEF Contains
    <3> QED BY <3>1, <3>2
  <2>8. \A k : CalledAfterLaunch(k)' = CalledAfterLaunch(k)
        BY <2>1 DEF CalledAfterLaunch
  <2>9. Distinct(otherEvents)' /\ Distinct(exits)'
        BY <2>1 DEF Exits, Distinct
  <2> QED BY <2>1, <2>5, <2>6, <2>7, <2>8, <2>9 DEF Exits
<1>7. CASE FireNext \/ Dispatched
  <2>1. CASE FireNext /\ batch' = batch
        BY <1>1, <2>1 DEF FireNext
  <2>2. CASE batch' = Tail(batch) /\ batch # <<>>
    <3> DEFINE e == batch[1]
    <3>1. /\ Len(batch) \in Nat /\ Len(batch) >= 1 /\ Head(batch) = e /\ e \in EventSet
          /\ Len(batch') = Len(batch) - 1
          /\ \A m \in 1..Len(batch') : m + 1 \in 1..Len(batch) /\ batch'[m] = batch[m + 1]
          BY <2>2, TailOf DEF Queued
    <3> HIDE DEF e
    <3>2. UNCHANGED <<launches, mode, running, otherEvents, exits>>
          BY <1>7 DEF FireNext, Dispatched
    <3>3. \A k : CalledAfterLaunch(k)' = CalledAfterLaunch(k)
          BY <3>2 DEF CalledAfterLaunch
    <3>4. ASSUME NEW m \in 1..Len(batch'), NEW k, ExitAt(m, k)'
          PROVE  m + 1 \in 1..Len(batch) /\ ExitAt(m + 1, k)
          BY <3>1, <3>4 DEF ExitAt
    <3>5. ASSUME NEW k, Pending(k)'  PROVE Pending(k)
          BY <3>2, <3>4, <3>5 DEF Pending
    <3>6. \A i, j \in 1..Len(batch') : \A k \in Launch : ExitAt(i, k)' /\ ExitAt(j, k)' => i = j
      <4> SUFFICES ASSUME NEW i \in 1..Len(batch'), NEW j \in 1..Len(batch'), NEW k \in Launch,
                          ExitAt(i, k)', ExitAt(j, k)'
                   PROVE  i = j
            OBVIOUS
      <4>1. i + 1 = j + 1
            BY <3>4 DEF Exits
      <4> QED BY <3>1, <4>1
    <3>7. \A k \in Launch : Contains(otherEvents', k) =>
             ~Contains(exits', k) /\ \A m \in 1..Len(batch') : ~ExitAt(m, k)'
          BY <3>2, <3>4 DEF Exits
    <3>8. Distinct(otherEvents)' /\ Distinct(exits)'
          BY <3>2 DEF Exits, Distinct
    <3>9. CASE exited' = exited
          BY <3>2, <3>3, <3>5, <3>6, <3>7, <3>8, <3>9 DEF Exits
    <3>10. CASE exited' # exited
      <4>1. /\ epc = "dispatch" /\ e.what = "exit"
            /\ exited' = [exited EXCEPT ![e.launch] = @ + 1]
            BY <1>7, <3>1, <3>10 DEF FireNext, Dispatched
      <4> PICK K \in Launch : K = e.launch
            BY <3>1, <4>1, EventFacts
      <4>2. /\ K \in Launch /\ ExitAt(1, K) /\ 1 \in 1..Len(batch)
            /\ exited' = [exited EXCEPT ![K] = @ + 1]
            BY <3>1, <4>1 DEF ExitAt, e
      <4>3. exited \in [Launch -> Nat] /\ Pending(K)
            BY <4>2 DEF Heard, Pending
      <4>4. ~Pending(K)'
        <5>1. ~Contains(otherEvents', K)
              BY <3>2, <4>2 DEF Exits
        <5>2. ~Contains(exits', K)
              BY <3>2, <4>1 DEF Empties, Contains
        <5>3. \A m \in 1..Len(batch') : ~ExitAt(m, K)'
          <6> SUFFICES ASSUME NEW m \in 1..Len(batch'), ExitAt(m, K)'  PROVE FALSE
                OBVIOUS
          <6>1. m + 1 \in 1..Len(batch) /\ ExitAt(m + 1, K)
                BY <3>4
          <6>2. m + 1 = 1
                BY <4>2, <6>1 DEF Exits
          <6> QED BY <3>1, <6>2
        <5> QED BY <5>1, <5>2, <5>3 DEF Pending
      <4>5. \A k \in Launch : Pending(k)' \/ exited'[k] > 0 =>
               k <= launches' /\ (k = launches' => ~running')
            BY <3>2, <3>5, <4>1, <4>2, <4>3 DEF Exits
      <4>6. \A k \in Launch : ~CalledAfterLaunch(k)' =>
               exited'[k] <= 1 /\ (exited'[k] > 0 => ~Pending(k)')
        <5>1. ~CalledAfterLaunch(K) => exited[K] = 0
              BY <4>2, <4>3 DEF Exits
        <5>2. exited'[K] = exited[K] + 1 /\ \A k \in Launch : k # K => exited'[k] = exited[k]
              BY <4>2, <4>3
        <5> QED BY <3>3, <3>5, <4>3, <4>4, <5>1, <5>2 DEF Exits
      <4> QED BY <3>6, <3>7, <3>8, <4>5, <4>6 DEF Exits
    <3> QED BY <3>9, <3>10
  <2> QED BY <1>7, <2>1, <2>2 DEF FireNext, Dispatched, Empties
<1> QED BY <1>1, <1>2, <1>3, <1>4, <1>5, <1>6, <1>7, Frame
        DEF EventStep, CollectClose

-----------------------------------------------------------------------------
(* What has been read from a pipe stays in the pipe, in a collected event   *)
(* or with those who listen, until they have it.                            *)

\* A pipe with data is queued.
Needs == \A p \in Pipes : readData[p] # <<>> => Contains(pipesNeedingReadEvents, p)

\* Each step keeps it so.
LEMMA NeedsStep == ASSUME Types, Phases, Needs, [Next]_vars PROVE Needs'
<1>1. CASE UNCHANGED <<readData, pipesNeedingReadEvents>>
      BY <1>1 DEF Needs
<1>2. ASSUME NEW s \in Stream, Read(s) \/ PassOn(s)  PROVE Needs'
  <2>1. os[s] > 0
        BY <1>2 DEF Read, PassOn, Phases, Readers
  <2>2. PICK q \in Pipes, c \in ChunkSet : QueueRead(q, c)
        BY <1>2, <2>1, NextChunkFacts, PipeFacts DEF Read, PassOn, Types
  <2>3. ASSUME NEW p \in Pipes, readData'[p] # <<>>
        PROVE  Contains(pipesNeedingReadEvents', p)
    <3>1. readData'[p] = readData[p] \/ p = q
          BY <2>2 DEF QueueRead, Types, Queued
    <3>2. Contains(pipesNeedingReadEvents, p) \/ p = q
          BY <2>3, <3>1 DEF Needs
    <3> QED BY <2>2, <3>2, ContainsAppend DEF QueueRead, Types, Queued
  <2> QED BY <2>3 DEF Needs
<1>3. CASE CollectRead
      BY <1>3 DEF CollectRead, Needs
<1> QED BY <1>1, <1>2, <1>3, Frame

\* What pipe p shows is heard by listener l.
Reaches(l, p) ==
    \/ l \in Stream /\ p = Own(l)
    \/ l = "onRead" /\ p \in Pipes /\ p.native = TRUE /\ mode[p.launch] = "async"

\* The event at this place of the batch has chunk c of pipe p.
ReadAt(m, p, c) ==
    batch[m].what = "read" /\ batch[m].pipe = p /\ Contains(batch[m].data, c)

\* The listener has the chunk, or will get it.
Kept(l, p, c) ==
    Saw(l, c) \/ Contains(readData[p], c) \/ \E m \in 1..Len(batch) : ReadAt(m, p, c)

\* The listener has it before the event at this place of the batch is fired.
Told(l, p, c, m) == Saw(l, c) \/ \E i \in 1..(m - 1) : ReadAt(i, p, c)

\* Reached pipes are pipes, and their listeners listeners.
LEMMA ReachesFacts ==
    ASSUME NEW l, NEW p, Reaches(l, p)
    PROVE  p \in Pipes /\ l \in Stream \cup {"onRead"}
BY PipeFacts DEF Reaches

\* A listener forgets nothing.
LEMMA SawStep ==
    ASSUME Types, Phases, Empties, [Next]_vars,
           NEW l \in Stream \cup {"onRead"}, NEW c, Saw(l, c)
    PROVE  Saw(l, c)'
<1>1. Contains(seen[l], c) /\ seen[l] \in Seq(ChunkSet)
      BY DEF Saw, Contains, Types, Heard
<1>2. CASE seen' = seen
      BY <1>2 DEF Saw
<1>3. ASSUME NEW d \in Seq(ChunkSet), seen'[l] = seen[l] \o d
      PROVE  Saw(l, c)'
  <2>1. Contains(seen[l] \o d, c)
        BY <1>1, ContainsConcat
  <2> QED BY <1>3, <2>1 DEF Saw, Contains
<1>4. ASSUME NEW h, NEW d \in Seq(ChunkSet), seen' = [seen EXCEPT ![h] = @ \o d]
      PROVE  Saw(l, c)'
  <2>1. seen'[l] = seen[l] \o d \/ seen'[l] = seen[l]
        BY <1>4 DEF Types, Heard
  <2> QED BY <1>3, <2>1 DEF Saw
<1>5. CASE SyncRead
  <2> mpc # "loop"
        BY <1>5 DEF SyncRead
  <2>1. launches \in Launch
        BY ProcessAssumption DEF Types, Places, Phases, Begins, Launch
  <2>2. returned[launches] \in Seq(ChunkSet)
        BY <2>1 DEF Types, Heard
  <2> QED BY <1>4, <1>5, <2>2 DEF SyncRead
<1>6. CASE Dispatched
  <2>1. Head(batch) \in EventSet
        BY <1>6, TailOf DEF Dispatched, Empties, Types, Queued
  <2>2. CASE Head(batch).what # "read"
        BY <1>2, <1>6, <2>2 DEF Dispatched
  <2>3. CASE Head(batch).what = "read"
    <3>1. Head(batch).data \in Seq(ChunkSet)
          BY <2>1, <2>3, EventFacts
    <3> QED BY <1>4, <1>6, <2>3, <3>1 DEF Dispatched
  <2> QED BY <2>2, <2>3
<1> QED BY <1>2, <1>5, <1>6, Frame

\* The step is done with the first event of the batch.
Pops == batch # <<>> /\ (Dispatched \/ (FireNext /\ epc' # "dispatch"))

\* Then the others are one place further on.
LEMMA PopsFacts ==
    ASSUME Types, Empties, Pops
    PROVE  /\ Len(batch) \in Nat /\ Len(batch) >= 1 /\ Head(batch) = batch[1]
           /\ batch[1] \in EventSet /\ Len(batch') = Len(batch) - 1
           /\ \A m \in 1..Len(batch') : m + 1 \in 1..Len(batch) /\ batch'[m] = batch[m + 1]
<1>1. batch # <<>> /\ batch' = Tail(batch) /\ batch \in Seq(EventSet)
      BY DEF Pops, FireNext, Dispatched, Types, Queued
<1> QED BY <1>1, TailOf

\* A read event that reaches a listener is not dropped: it is heard.
LEMMA PopIsHeard ==
    ASSUME Types, Empties, Pops, NEW l, NEW p, Reaches(l, p), NEW c, ReadAt(1, p, c)
    PROVE  Saw(l, c)'
<1> DEFINE e == Head(batch)
<1>1. /\ e = batch[1] /\ e \in EventSet
      BY PopsFacts
<1>2. e.what = "read" /\ e.pipe = p /\ Contains(e.data, c)
      BY <1>1 DEF ReadAt
<1>3. e.data \in Seq(ChunkSet) /\ p \in Pipes
      BY <1>1, <1>2, EventFacts
<1>4. HasData(e)
      BY <1>2, <1>3 DEF HasData, Contains
<1>5. Listening(e) /\ Hears(e) = l
  <2>1. CASE l \in Stream /\ p = Own(l)
    <3>1. p.native = FALSE /\ p.stream = l
          BY <2>1, PipeFacts
    <3> QED BY <1>2, <3>1 DEF Listening, Hears
  <2>2. CASE l = "onRead" /\ p.native = TRUE /\ mode[p.launch] = "async"
        BY <1>2, <2>2 DEF Listening, Hears
  <2> QED BY <2>1, <2>2 DEF Reaches
<1>6. Dispatched
      BY <1>4, <1>5 DEF Pops, FireNext
<1>7. seen' = [seen EXCEPT ![l] = @ \o e.data]
      BY <1>2, <1>5, <1>6 DEF Dispatched
<1>8. l \in Stream \cup {"onRead"}
      BY ReachesFacts
<1>9. seen'[l] = seen[l] \o e.data /\ seen[l] \in Seq(ChunkSet)
      BY <1>7, <1>8 DEF Types, Heard
<1>10. Contains(seen[l] \o e.data, c)
      BY <1>2, <1>3, <1>9, ContainsConcat
<1> QED BY <1>9, <1>10 DEF Saw, Contains

\* The first time a pipe is queued its event has all its data.
LEMMA FirstQueued ==
    ASSUME Types, NEW p \in Pipes, Contains(pipesNeedingReadEvents, p)
    PROVE  \E i \in 1..Len(pipesNeedingReadEvents) :
              /\ ReadEvents[i].what = "read" /\ ReadEvents[i].pipe = p
              /\ ReadEvents[i].data = readData[p]
<1> DEFINE q == pipesNeedingReadEvents
           T == {i \in 1..Len(q) : q[i] = p}
           R == OpToRel(<, Nat)
<1>1. Len(q) \in Nat
      BY LenProperties DEF Types, Queued
<1>2. T \subseteq Nat /\ T # {}
      BY <1>1 DEF Contains
<1>3. IsWellFoundedOn(R, Nat)
      BY NatLessThanWellFounded
<1> HIDE DEF R, T
<1>4. PICK i \in T : \A j \in T : <<j, i>> \notin R
      BY <1>2, <1>3, WFMin
<1>5. R = {ss \in Nat \X Nat : ss[1] < ss[2]}
      BY DEF R, OpToRel
<1>6. \A j \in T : ~(j < i)
  <2> SUFFICES ASSUME NEW j \in T  PROVE ~(j < i)
        OBVIOUS
  <2>1. <<j, i>> \in Nat \X Nat
        BY <1>2, <1>4
  <2> QED BY <1>4, <1>5, <2>1
<1>7. i \in 1..Len(q) /\ q[i] = p
      BY <1>4 DEF T
<1>8. QueuedFirst(i)
  <2> SUFFICES ASSUME NEW j \in 1..(i - 1)  PROVE q[j] # q[i]
        BY DEF QueuedFirst
  <2>1. j \in 1..Len(q) /\ j < i
        BY <1>1, <1>7
  <2> QED BY <1>6, <1>7, <2>1 DEF T
<1>9. ReadEvents[i] = Event("read", p, p.launch, readData[p])
      BY <1>7, <1>8 DEF ReadEvents
<1> QED BY <1>7, <1>9 DEF Event

\* When the events are collected what the pipe had is in an event of the reads.
LEMMA CollectedRead ==
    ASSUME Types, Needs, CollectRead, NEW p \in Pipes, NEW c, Contains(readData[p], c)
    PROVE  \E i \in 1..Len(pipesNeedingReadEvents) : ReadAt(i, p, c)'
<1>1. readData[p] # <<>>
      BY DEF Contains
<1>2. PICK i \in 1..Len(pipesNeedingReadEvents) :
         /\ ReadEvents[i].what = "read" /\ ReadEvents[i].pipe = p
         /\ ReadEvents[i].data = readData[p]
      BY <1>1, FirstQueued DEF Needs
<1>3. batch'[i] = ReadEvents[i]
      BY Collected DEF Types
<1> QED BY <1>2, <1>3 DEF ReadAt

\* What is kept for a listener stays kept.
LEMMA KeptStep ==
    ASSUME Types, Phases, Empties, Needs, [Next]_vars,
           NEW l, NEW p, Reaches(l, p), NEW c, Kept(l, p, c)
    PROVE  Kept(l, p, c)'
<1>1. p \in Pipes /\ l \in Stream \cup {"onRead"}
      BY ReachesFacts
<1>2. CASE Saw(l, c)
      BY <1>1, <1>2, SawStep DEF Kept
<1>3. CASE Contains(readData[p], c)
  <2>1. CASE readData' = readData
        BY <1>3, <2>1 DEF Kept
  <2>2. ASSUME NEW q \in Pipes, NEW d \in ChunkSet, QueueRead(q, d)
        PROVE  Kept(l, p, c)'
    <3>1. readData'[p] = readData[p] \/ readData'[p] = Append(readData[p], d)
          BY <1>1, <2>2 DEF QueueRead, Types, Queued
    <3>2. readData[p] \in Seq(ChunkSet)
          BY <1>1 DEF Types, Queued
    <3>3. Contains(Append(readData[p], d), c)
          BY <1>3, <3>2, ContainsAppend
    <3>4. Contains(readData'[p], c)
          BY <1>3, <3>1, <3>3
    <3> QED BY <3>4 DEF Kept
  <2>3. ASSUME NEW s \in Stream, Read(s) \/ PassOn(s)
        PROVE  Kept(l, p, c)'
    <3>1. os[s] > 0
          BY <2>3 DEF Read, PassOn, Phases, Readers
    <3> QED BY <2>2, <2>3, <3>1, NextChunkFacts, PipeFacts DEF Read, PassOn, Types
  <2>4. CASE CollectRead
    <3>1. PICK i \in 1..Len(pipesNeedingReadEvents) : ReadAt(i, p, c)'
          BY <1>1, <1>3, <2>4, CollectedRead
    <3>2. i \in 1..Len(batch')
          BY <2>4, Collected DEF Types
    <3> QED BY <3>1, <3>2 DEF Kept
  <2> QED BY <2>1, <2>3, <2>4, Frame
<1>4. ASSUME NEW m \in 1..Len(batch), ReadAt(m, p, c)
      PROVE  Kept(l, p, c)'
  <2>1. CASE batch' = batch
        BY <1>4, <2>1 DEF Kept, ReadAt
  <2>2. CASE Pops
    <3>1. CASE m = 1
          BY <1>4, <2>2, <3>1, PopIsHeard DEF Kept
    <3>2. CASE m # 1
      <4>1. m - 1 \in 1..Len(batch') /\ batch'[m - 1] = batch[m]
            BY <2>2, <3>2, PopsFacts
      <4>2. ReadAt(m - 1, p, c)'
            BY <1>4, <4>1 DEF ReadAt
      <4> QED BY <4>1, <4>2 DEF Kept
    <3> QED BY <3>1, <3>2
  <2>3. CASE CollectRead
    <3>1. batch = <<>>
          BY <2>3 DEF CollectRead, Empties
    <3> QED BY <3>1
  <2> QED BY <2>1, <2>2, <2>3, Frame
        DEF EventStep, CollectOther, CollectClose, FireNext, Dispatched, Pops, Empties
<1> QED BY <1>2, <1>3, <1>4 DEF Kept

\* And what a listener is told before an event it is told before that event.
LEMMA ToldStep ==
    ASSUME Types, Phases, Empties, [Next]_vars, Pops,
           NEW l, NEW p, Reaches(l, p), NEW c, NEW m \in Nat, m >= 1,
           m + 1 <= Len(batch), Told(l, p, c, m + 1)
    PROVE  Told(l, p, c, m)'
<1>1. p \in Pipes /\ l \in Stream \cup {"onRead"}
      BY ReachesFacts
<1>2. CASE Saw(l, c)
      BY <1>1, <1>2, SawStep DEF Told
<1>3. ASSUME NEW i \in 1..m, ReadAt(i, p, c)
      PROVE  Told(l, p, c, m)'
  <2>1. CASE i = 1
        BY <1>3, <2>1, PopIsHeard DEF Told
  <2>2. CASE i # 1
    <3> PICK j \in 1..(m - 1) : j + 1 = i
          BY <2>2
    <3>1. j \in 1..Len(batch') /\ batch'[j] = batch[i]
      <4>1. /\ Len(batch) \in Nat /\ Len(batch') = Len(batch) - 1
            /\ \A x \in 1..Len(batch') : batch'[x] = batch[x + 1]
            BY PopsFacts
      <4> QED BY <4>1
    <3>2. ReadAt(j, p, c)'
          BY <1>3, <3>1 DEF ReadAt
    <3> QED BY <3>2 DEF Told
  <2> QED BY <2>1, <2>2
<1> QED BY <1>2, <1>3 DEF Told

-----------------------------------------------------------------------------
(* Everything that has been read is kept for those who listen.              *)

\* Chunk n of stream s of launch k has been passed on to the process' own pipe;
\* or at least been read from the native one.
PassedOn(k, s, n) ==
    \/ k < launches /\ n <= written[k][s]
    \/ k = launches /\ n <= written[k][s] - os[s]
WasRead(k, s, n) ==
    \/ PassedOn(k, s, n)
    \/ k = launches /\ reader[s] = "passing" /\ n <= written[k][s] - os[s] + 1

OwnData ==
    \A k \in Launch, s \in Stream, n \in 1..MaxChunk :
        PassedOn(k, s, n) => Kept(s, Own(s), Chunk(k, s, n))
NativeData ==
    \A k \in Launch, s \in Stream, n \in 1..MaxChunk :
        WasRead(k, s, n) /\ mode[k] = "async" => Kept("onRead", Native(k, s), Chunk(k, s, n))

\* A synchronous launch collects what it returns.
CallData ==
    \A k \in Launch, s \in Stream, n \in 1..MaxChunk :
        k = launches /\ mode[k] = "sync" /\ WasRead(k, s, n) =>
            Contains(processOutput, Chunk(k, s, n))
ReturnedData ==
    \A k \in Launch, s \in Stream, n \in 1..MaxChunk :
        mode[k] = "sync" /\ n <= written[k][s] /\ ~(k = launches /\ mpc = "wait") =>
            Contains(returned[k], Chunk(k, s, n))

Data == OwnData /\ NativeData /\ CallData /\ ReturnedData

\* What a launch was stays so.
LEMMA ModeStep ==
    ASSUME Types, [Next]_vars, NEW k \in Launch, k <= launches
    PROVE  mode'[k] = mode[k] /\ launches' >= launches /\ k <= launches'
<1>1. launches \in 0..MaxLaunch
      BY DEF Types, Places
<1>2. CASE UNCHANGED <<launches, mode>>
      BY <1>1, <1>2
<1>3. CASE LaunchAsync \/ LaunchSync
  <2>1. launches' = launches + 1 /\ \E m : mode' = [mode EXCEPT ![launches + 1] = m]
        BY <1>3 DEF LaunchAsync, LaunchSync, Launches
  <2>2. k # launches + 1 /\ k \in Nat
        BY <1>1, ProcessAssumption DEF Launch
  <2> QED BY <1>1, <2>1, <2>2, ProcessAssumption DEF Types, Places
<1> QED BY <1>2, <1>3, Frame

\* A chunk comes to be read by Read, and to be passed on by PassOn.
LEMMA ReadingStep ==
    ASSUME Types, Phases, [Next]_vars, NEW k \in Launch, NEW s \in Stream, NEW n \in 1..MaxChunk
    PROVE  /\ PassedOn(k, s, n)' => \/ PassedOn(k, s, n)
                                    \/ /\ PassOn(s) /\ k = launches
                                       /\ n = written[k][s] - os[s] + 1
           /\ WasRead(k, s, n)' => \/ WasRead(k, s, n)
                                   \/ /\ Read(s) /\ k = launches
                                      /\ n = written[k][s] - os[s] + 1
<1>0. /\ launches \in 0..MaxLaunch /\ MaxLaunch \in Nat /\ MaxChunk \in Nat
      /\ written \in [Launch -> [Stream -> 0..MaxChunk]] /\ os \in [Stream -> 0..MaxChunk]
      /\ k \in Nat /\ k >= 1 /\ n \in Nat /\ n >= 1
      /\ written[k][s] \in Nat /\ os[s] \in Nat
      /\ reader \in [Stream -> {"none", "reading", "passing"}]
      BY ProcessAssumption DEF Types, Places, Counts, Launch
<1>1. CASE UNCHANGED <<launches, written, os, reader>>
      BY <1>1 DEF PassedOn, WasRead
<1>2. ASSUME NEW t \in Stream, ChildWrites(t)
      PROVE  /\ PassedOn(k, s, n)' => PassedOn(k, s, n)
             /\ WasRead(k, s, n)' => WasRead(k, s, n)
  <2>1. /\ UNCHANGED <<launches, reader>>
        /\ written' = [written EXCEPT ![launches][t] = @ + 1]
        /\ os' = [os EXCEPT ![t] = @ + 1]
        BY <1>2 DEF ChildWrites
  <2>2. CASE k = launches /\ s = t
    <3>1. written'[k][s] = written[k][s] + 1 /\ os'[s] = os[s] + 1
          BY <1>0, <2>1, <2>2
    <3>2. written'[k][s] - os'[s] = written[k][s] - os[s]
          BY <1>0, <3>1
    <3> QED BY <1>0, <2>1, <2>2, <3>2 DEF PassedOn, WasRead
  <2>3. CASE k = launches /\ s # t
    <3>1. written'[k][s] = written[k][s] /\ os'[s] = os[s]
          BY <1>0, <2>1, <2>3
    <3> QED BY <2>1, <2>3, <3>1 DEF PassedOn, WasRead
  <2>4. CASE k # launches
    <3>1. written'[k][s] = written[k][s]
          BY <1>0, <2>1, <2>4
    <3> QED BY <2>1, <2>4, <3>1 DEF PassedOn, WasRead
  <2> QED BY <2>2, <2>3, <2>4
<1>3. ASSUME NEW t \in Stream, Read(t)
      PROVE  /\ PassedOn(k, s, n)' => PassedOn(k, s, n)
             /\ WasRead(k, s, n)' =>
                  WasRead(k, s, n) \/ (Read(s) /\ k = launches /\ n = written[k][s] - os[s] + 1)
  <2>1. UNCHANGED <<launches, written, os>> /\ reader' = [reader EXCEPT ![t] = "passing"]
        BY <1>3 DEF Read
  <2>2. PassedOn(k, s, n)' = PassedOn(k, s, n)
        BY <2>1 DEF PassedOn
  <2>3. CASE s # t
    <3>1. reader'[s] = reader[s]
          BY <1>0, <2>1, <2>3
    <3> QED BY <2>1, <2>2, <3>1 DEF WasRead
  <2>4. CASE s = t
    <3>1. Read(s)
          BY <1>3, <2>4
    <3>2. WasRead(k, s, n)' =>
             PassedOn(k, s, n) \/ (k = launches /\ n <= written[k][s] - os[s] + 1)
          BY <2>1, <2>2 DEF WasRead
    <3>3. k = launches /\ n <= written[k][s] - os[s] + 1 =>
             PassedOn(k, s, n) \/ n = written[k][s] - os[s] + 1
          BY <1>0 DEF PassedOn
    <3> QED BY <2>2, <3>1, <3>2, <3>3 DEF WasRead
  <2> QED BY <2>3, <2>4
<1>4. ASSUME NEW t \in Stream, PassOn(t)
      PROVE  /\ PassedOn(k, s, n)' =>
                  \/ PassedOn(k, s, n)
                  \/ PassOn(s) /\ k = launches /\ n = written[k][s] - os[s] + 1
             /\ WasRead(k, s, n)' => WasRead(k, s, n)
  <2>1. /\ UNCHANGED <<launches, written>> /\ reader[t] = "passing"
        /\ os' = [os EXCEPT ![t] = @ - 1] /\ reader' = [reader EXCEPT ![t] = "reading"]
        BY <1>4 DEF PassOn
  <2>2. CASE s # t
    <3>1. reader'[s] = reader[s] /\ os'[s] = os[s]
          BY <1>0, <2>1, <2>2
    <3> QED BY <2>1, <3>1 DEF WasRead, PassedOn
  <2>3. CASE s = t
    <3>1. /\ reader'[s] = "reading" /\ reader[s] = "passing" /\ os'[s] = os[s] - 1
          BY <1>0, <2>1, <2>3
    <3>2. PassOn(s)
          BY <1>4, <2>3
    <3>3. /\ PassedOn(k, s, n)' =>
                PassedOn(k, s, n) \/ (k = launches /\ n <= written[k][s] - os[s] + 1)
          /\ WasRead(k, s, n)' => PassedOn(k, s, n)'
          BY <1>0, <2>1, <3>1 DEF WasRead, PassedOn
    <3>4. k = launches /\ n <= written[k][s] - os[s] + 1 =>
             PassedOn(k, s, n) \/ n = written[k][s] - os[s] + 1
          BY <1>0 DEF PassedOn
    <3> QED BY <3>1, <3>2, <3>3, <3>4 DEF WasRead
  <2> QED BY <2>2, <2>3
<1>5. ASSUME NEW t \in Stream, ReadEnds(t)
      PROVE  /\ PassedOn(k, s, n)' => PassedOn(k, s, n)
             /\ WasRead(k, s, n)' => WasRead(k, s, n)
  <2>1. UNCHANGED <<launches, written, os>> /\ reader' = [reader EXCEPT ![t] = "none"]
        BY <1>5 DEF ReadEnds
  <2>2. reader'[s] = "passing" => reader[s] = "passing"
        BY <1>0, <2>1
  <2> QED BY <2>1, <2>2 DEF WasRead, PassedOn
<1>6. CASE LaunchAsync \/ LaunchSync
  <2>1. /\ launches' = launches + 1 /\ written' = written /\ ~running
        /\ reader' = [t \in Stream |-> "reading"] /\ os' = [t \in Stream |-> 0]
        BY <1>6 DEF LaunchAsync, LaunchSync, Launches
  <2>2. os[s] = 0 /\ os'[s] = 0 /\ reader'[s] = "reading"
        BY <2>1 DEF Phases, Stages, Over
  <2>3. k > launches => written[k][s] = 0
        BY DEF Phases, Begins
  <2> QED BY <1>0, <2>1, <2>2, <2>3 DEF WasRead, PassedOn
<1> QED BY <1>1, <1>2, <1>3, <1>4, <1>5, <1>6, Frame
        DEF ChildExits

\* Only launches have been read from.
LEMMA WasReadFacts ==
    ASSUME Types, NEW k \in Launch, NEW s \in Stream, NEW n \in 1..MaxChunk, WasRead(k, s, n)
    PROVE  k <= launches
BY ProcessAssumption DEF WasRead, PassedOn, Types, Places, Launch

\* Each step keeps all data.
LEMMA DataStep ==
    ASSUME Types, Phases, Empties, Needs, Data, [Next]_vars
    PROVE  Data'
<1>1. ASSUME NEW k \in Launch, NEW s \in Stream, NEW n \in 1..MaxChunk, PassedOn(k, s, n)'
      PROVE  Kept(s, Own(s), Chunk(k, s, n))'
  <2>1. Reaches(s, Own(s))
        BY DEF Reaches
  <2>2. CASE PassedOn(k, s, n)
        BY <2>1, <2>2, KeptStep DEF Data, OwnData
  <2>3. CASE PassOn(s) /\ k = launches /\ n = written[k][s] - os[s] + 1
    <3>1. /\ readData' = [readData EXCEPT ![Own(s)] = Append(@, NextChunk(s))]
          /\ NextChunk(s) = Chunk(k, s, n)
          BY <2>3 DEF PassOn, QueueRead, NextChunk
    <3>2. Own(s) \in Pipes /\ readData[Own(s)] \in Seq(ChunkSet) /\ Chunk(k, s, n) \in ChunkSet
          BY PipeFacts, ChunkFacts DEF Types, Queued
    <3>3. Contains(Append(readData[Own(s)], Chunk(k, s, n)), Chunk(k, s, n))
          BY <3>2, ContainsAppend
    <3>4. Contains(readData'[Own(s)], Chunk(k, s, n))
          BY <3>1, <3>2, <3>3 DEF Types, Queued
    <3> QED BY <3>4 DEF Kept, Own, Chunk
  <2> QED BY <1>1, <2>2, <2>3, ReadingStep
<1>2. ASSUME NEW k \in Launch, NEW s \in Stream, NEW n \in 1..MaxChunk,
             WasRead(k, s, n)', mode'[k] = "async"
      PROVE  Kept("onRead", Native(k, s), Chunk(k, s, n))'
  <2>1. k <= launches
        BY <1>2, ReadingStep, WasReadFacts, ProcessAssumption DEF Types, Places, Launch
  <2>2. mode[k] = "async"
        BY <1>2, <2>1, ModeStep
  <2>3. Reaches("onRead", Native(k, s))
        BY <2>2, PipeFacts DEF Reaches
  <2>4. CASE WasRead(k, s, n)
        BY <2>2, <2>3, <2>4, KeptStep DEF Data, NativeData
  <2>5. CASE Read(s) /\ k = launches /\ n = written[k][s] - os[s] + 1
    <3>1. /\ readData' = [readData EXCEPT ![Native(k, s)] = Append(@, NextChunk(s))]
          /\ NextChunk(s) = Chunk(k, s, n)
          BY <2>5 DEF Read, QueueRead, NextChunk
    <3>2. /\ Native(k, s) \in Pipes /\ readData[Native(k, s)] \in Seq(ChunkSet)
          /\ Chunk(k, s, n) \in ChunkSet
          BY PipeFacts, ChunkFacts DEF Types, Queued
    <3>3. Contains(Append(readData[Native(k, s)], Chunk(k, s, n)), Chunk(k, s, n))
          BY <3>2, ContainsAppend
    <3>4. Contains(readData'[Native(k, s)], Chunk(k, s, n))
          BY <3>1, <3>2, <3>3 DEF Types, Queued
    <3> QED BY <3>4 DEF Kept, Native, Chunk
  <2> QED BY <1>2, <2>4, <2>5, ReadingStep
<1>3. ASSUME NEW k \in Launch, NEW s \in Stream, NEW n \in 1..MaxChunk,
             k = launches', mode'[k] = "sync", WasRead(k, s, n)'
      PROVE  Contains(processOutput', Chunk(k, s, n))
  <2>1. k <= launches
        BY <1>3, ReadingStep, WasReadFacts, ProcessAssumption DEF Types, Places, Launch
  <2>2. k = launches /\ mode[k] = "sync"
        BY <1>3, <2>1, ModeStep, ProcessAssumption DEF Types, Places, Launch
  <2>3. \/ processOutput' = processOutput
        \/ \E t \in Stream : Read(t)
        BY Frame
  <2>4. CASE WasRead(k, s, n) /\ processOutput' = processOutput
        BY <2>2, <2>4 DEF Data, CallData
  <2>5. ASSUME NEW t \in Stream, Read(t)
        PROVE  Contains(processOutput', Chunk(k, s, n))
    <3>1. processOutput' = Append(processOutput, NextChunk(t))
          BY <2>2, <2>5 DEF Read
    <3>2. NextChunk(t) \in ChunkSet /\ processOutput \in Seq(ChunkSet)
          BY <2>5, NextChunkFacts DEF Read, Types, Heard
    <3>3. Contains(processOutput, Chunk(k, s, n)) \/ Chunk(k, s, n) = NextChunk(t)
      <4>1. CASE WasRead(k, s, n)
            BY <2>2, <4>1 DEF Data, CallData
      <4>2. CASE Read(s) /\ n = written[k][s] - os[s] + 1
        <5>1. s = t
              BY <2>5, <4>2 DEF Read, Types, Places
        <5> QED BY <2>2, <4>2, <5>1 DEF NextChunk
      <4> QED BY <1>3, <4>1, <4>2, ReadingStep
    <3> QED BY <3>1, <3>2, <3>3, ContainsAppend
  <2> QED BY <1>3, <2>3, <2>4, <2>5, ReadingStep
<1>4. ASSUME NEW k \in Launch, NEW s \in Stream, NEW n \in 1..MaxChunk,
             mode'[k] = "sync", n <= written'[k][s], ~(k = launches' /\ mpc' = "wait")
      PROVE  Contains(returned'[k], Chunk(k, s, n))
  <2>0. /\ launches \in 0..MaxLaunch /\ MaxLaunch \in Nat /\ k \in Nat /\ k >= 1
        /\ returned \in [Launch -> Seq(ChunkSet)] /\ n \in Nat /\ n >= 1
        BY ProcessAssumption DEF Types, Places, Heard, Launch
  <2>1. CASE LaunchAsync \/ LaunchSync
    <3>1. /\ launches' = launches + 1 /\ mpc = "loop"
          /\ written' = written /\ returned' = returned
          /\ k = launches' => mode'[k] = "async" \/ mpc' = "wait"
          BY <2>0, <2>1 DEF LaunchAsync, LaunchSync, Launches, Types, Places
    <3>2. k <= launches
      <4>1. k > launches => written[k][s] = 0
            BY DEF Phases, Begins
      <4> QED BY <1>4, <2>0, <3>1, <4>1
    <3>3. mode[k] = "sync"
          BY <1>4, <3>2, ModeStep
    <3> QED BY <1>4, <3>1, <3>3 DEF Data, ReturnedData
  <2>2. CASE SyncWaited
    <3>1. /\ mpc = "wait" /\ child = "dead" /\ Joined
          /\ UNCHANGED <<launches, mode, written>>
          /\ returned' = [returned EXCEPT ![launches] = processOutput]
          BY <2>2 DEF SyncWaited
    <3>2. CASE k # launches
      <4>1. returned'[k] = returned[k]
            BY <2>0, <3>1, <3>2
      <4> QED BY <1>4, <3>1, <3>2, <4>1 DEF Data, ReturnedData
    <3>3. CASE k = launches
      <4>1. returned'[k] = processOutput
            BY <2>0, <3>1, <3>3
      <4>2. os[s] = 0
            BY <3>1 DEF Joined, Phases, Readers
      <4>3. written[k][s] \in Nat
            BY DEF Types, Counts
      <4>4. WasRead(k, s, n)
            BY <1>4, <2>0, <3>1, <3>3, <4>2, <4>3 DEF WasRead, PassedOn
      <4> QED BY <1>4, <3>1, <3>3, <4>1, <4>4 DEF Data, CallData
    <3> QED BY <3>2, <3>3
  <2>3. ASSUME NEW t \in Stream, ChildWrites(t)
        PROVE  Contains(returned'[k], Chunk(k, s, n))
    <3>1. /\ child = "alive" /\ written' = [written EXCEPT ![launches][t] = @ + 1]
          /\ UNCHANGED <<launches, mode, mpc, returned>>
          BY <2>3 DEF ChildWrites
    <3>2. k # launches
          BY <1>4, <3>1 DEF Phases, Stages, Over, Types, Places
    <3>3. written'[k][s] = written[k][s]
          BY <2>0, <3>1, <3>2 DEF Types, Counts
    <3> QED BY <1>4, <3>1, <3>2, <3>3 DEF Data, ReturnedData
  <2>4. CASE UNCHANGED <<launches, mode, written, returned>> /\ (mpc = "wait" => mpc' = "wait")
        BY <1>4, <2>4 DEF Data, ReturnedData
  <2> QED BY <2>1, <2>2, <2>3, <2>4, Frame
        DEF Read, PassOn, ReadEnds, ChildExits
<1> QED BY <1>1, <1>2, <1>3, <1>4 DEF Data, OwnData, NativeData, CallData, ReturnedData

-----------------------------------------------------------------------------
(* Closes and exits are of launches that are over, and come after all the   *)
(* launch's data.                                                           *)

Ended(k) == k <= launches /\ (k = launches => Over)

\* The event at this place of the batch is the close of the process' own pipe.
CloseAt(m, k, s) ==
    batch[m].what = "close" /\ batch[m].pipe = Own(s) /\ batch[m].launch = k

Closes ==
    /\ \A m \in 1..Len(pipesNeedingCloseEvents) : Ended(pipesNeedingCloseEvents[m].launch)
    /\ \A m \in 1..Len(closes) : Ended(closes[m].launch)
    /\ \A m \in 1..Len(batch) : batch[m].what = "close" => Ended(batch[m].launch)
    /\ \A k \in Launch, s \in Stream : <<k, s>> \in closed => Ended(k)

CloseTold ==
    \A k \in Launch, s \in Stream, n \in 1..MaxChunk : n <= written[k][s] =>
        /\ \A m \in 1..Len(batch) :
              CloseAt(m, k, s) => Told(s, Own(s), Chunk(k, s, n), m)
        /\ <<k, s>> \in closed => Saw(s, Chunk(k, s, n))

ExitTold ==
    \A k \in Launch, s \in Stream, n \in 1..MaxChunk :
        mode[k] = "async" /\ n <= written[k][s] =>
            /\ \A m \in 1..Len(batch) : ExitAt(m, k) =>
                  /\ Told("onRead", Native(k, s), Chunk(k, s, n), m)
                  /\ Told(s, Own(s), Chunk(k, s, n), m)
            /\ exited[k] > 0 => Saw("onRead", Chunk(k, s, n)) /\ Saw(s, Chunk(k, s, n))

\* A launch that is over has nothing more to say.
LEMMA EndedStep ==
    ASSUME Types, Phases, [Next]_vars, NEW k \in Launch, Ended(k)
    PROVE  Ended(k)' /\ written'[k] = written[k]
<1>0. launches \in 0..MaxLaunch /\ MaxLaunch \in Nat /\ k \in Nat /\ k >= 1
      BY ProcessAssumption DEF Types, Places, Launch
<1>1. CASE UNCHANGED <<launches, written, child, os, reader>>
      BY <1>1 DEF Ended, Over
<1>2. CASE LaunchAsync \/ LaunchSync
  <2>1. launches' = launches + 1 /\ written' = written
        BY <1>2 DEF LaunchAsync, LaunchSync, Launches
  <2> QED BY <1>0, <2>1 DEF Ended
<1>3. ASSUME NEW t \in Stream,
             ChildWrites(t) \/ Read(t) \/ PassOn(t) \/ ReadEnds(t) \/ ChildExits
      PROVE  Ended(k)' /\ written'[k] = written[k]
  <2>1. launches' = launches /\ (child = "alive" \/ reader[t] # "none")
        BY <1>3 DEF ChildWrites, Read, PassOn, ReadEnds, ChildExits
  <2>2. k # launches
        BY <2>1 DEF Ended, Over
  <2>3. written'[k] = written[k]
        BY <1>0, <1>3, <2>2
        DEF ChildWrites, Read, PassOn, ReadEnds, ChildExits, Types, Counts
  <2> QED BY <2>1, <2>2, <2>3 DEF Ended
<1> QED BY <1>1, <1>2, <1>3, ProcessAssumption, Frame

\* All its data is kept for those who listen.
LEMMA EndedData ==
    ASSUME Types, Data, NEW k \in Launch, NEW s \in Stream, NEW n \in 1..MaxChunk,
           Ended(k), n <= written[k][s]
    PROVE  /\ Kept(s, Own(s), Chunk(k, s, n))
           /\ mode[k] = "async" => Kept("onRead", Native(k, s), Chunk(k, s, n))
<1>1. k < launches \/ (k = launches /\ os[s] = 0)
      BY ProcessAssumption DEF Ended, Over, Types, Places, Launch
<1>2. written[k][s] \in Nat
      BY DEF Types, Counts
<1>3. PassedOn(k, s, n)
      BY <1>1, <1>2 DEF PassedOn
<1> QED BY <1>3 DEF WasRead, Data, OwnData, NativeData

\* An exit is of a launch that is over.
LEMMA ExitEnded ==
    ASSUME Types, Phases, Exits, NEW k \in Launch, Pending(k) \/ exited[k] > 0
    PROVE  Ended(k)
BY DEF Exits, Ended, Phases, Stages

\* The closes stay so.
LEMMA ClosesStep ==
    ASSUME Types, Phases, Empties, Closes, [Next]_vars
    PROVE  Closes'
<1> USE DEF Types
<1>0. \A k \in Launch : Ended(k) => Ended(k)'
      BY EndedStep
<1>1. ASSUME NEW m \in 1..Len(pipesNeedingCloseEvents)
      PROVE  /\ Ended(pipesNeedingCloseEvents[m].launch)
             /\ pipesNeedingCloseEvents[m].launch \in Launch
  <2>1. pipesNeedingCloseEvents[m] \in CloseSet
        BY LenProperties DEF Queued
  <2> QED BY <2>1 DEF Closes, CloseSet
<1>2. ASSUME NEW m \in 1..Len(closes)
      PROVE  Ended(closes[m].launch) /\ closes[m].launch \in Launch
  <2>1. closes[m] \in CloseSet
        BY LenProperties DEF Queued
  <2> QED BY <2>1 DEF Closes, CloseSet
<1>3. ASSUME NEW m \in 1..Len(batch), batch[m].what = "close"
      PROVE  Ended(batch[m].launch) /\ batch[m].launch \in Launch
  <2>1. batch[m] \in EventSet
        BY LenProperties DEF Queued
  <2> QED BY <1>3, <2>1, EventFacts DEF Closes
<1>4. ASSUME NEW m \in 1..Len(pipesNeedingCloseEvents')
      PROVE  Ended(pipesNeedingCloseEvents[m].launch)'
  <2>1. CASE pipesNeedingCloseEvents' = pipesNeedingCloseEvents
    <3> PICK k \in Launch : k = pipesNeedingCloseEvents[m].launch
          BY <1>1, <2>1
    <3>1. Ended(k)'
          BY <1>0, <1>1, <2>1
    <3>2. pipesNeedingCloseEvents'[m].launch = k
          BY <2>1
    <3> QED BY <3>1, <3>2 DEF Ended, Over
  <2>2. CASE pipesNeedingCloseEvents' = <<>>
        BY <2>2
  <2>3. CASE ClosePipe
    <3> mpc # "loop"
          BY <2>3 DEF ClosePipe
    <3> DEFINE e == [pipe |-> Head(closing), launch |-> launches]
    <3>1. launches \in Launch /\ Ended(launches)
          BY <2>3, ProcessAssumption
             DEF ClosePipe, Places, Phases, Begins, Stages, Ended, Launch
    <3>2. Head(closing) \in Pipes
          BY <2>3, TailOf DEF ClosePipe, Queued
    <3>3. e \in CloseSet /\ e.launch = launches
          BY <3>1, <3>2 DEF CloseSet
    <3>4. pipesNeedingCloseEvents' = Append(pipesNeedingCloseEvents, e) /\ launches' = launches
          BY <2>3 DEF ClosePipe
    <3> HIDE DEF e
    <3>5. /\ Len(pipesNeedingCloseEvents) \in Nat
          /\ Len(pipesNeedingCloseEvents') = Len(pipesNeedingCloseEvents) + 1
          /\ \A i \in 1..Len(pipesNeedingCloseEvents) :
                pipesNeedingCloseEvents'[i] = pipesNeedingCloseEvents[i]
          /\ pipesNeedingCloseEvents'[Len(pipesNeedingCloseEvents) + 1] = e
          BY <3>3, <3>4, AppendOf DEF Queued
    <3>6. CASE m \in 1..Len(pipesNeedingCloseEvents)
      <4> PICK k \in Launch : k = pipesNeedingCloseEvents[m].launch
            BY <1>1, <3>6
      <4>1. Ended(k)'
            BY <1>0, <1>1, <3>6
      <4>2. pipesNeedingCloseEvents'[m].launch = k
            BY <3>5, <3>6
      <4> QED BY <4>1, <4>2 DEF Ended, Over
    <3>7. CASE m = Len(pipesNeedingCloseEvents) + 1
      <4>1. Over'
            BY <1>0, <3>1, <3>4 DEF Ended
      <4>2. pipesNeedingCloseEvents'[m].launch = launches'
            BY <3>3, <3>4, <3>5, <3>7
      <4>3. launches' <= launches'
            BY <3>1, <3>4, ProcessAssumption DEF Launch
      <4> QED BY <4>1, <4>2, <4>3 DEF Ended, Over
    <3> QED BY <3>5, <3>6, <3>7
  <2> QED BY <2>1, <2>2, <2>3, Frame
        DEF CollectClose
<1>5. ASSUME NEW m \in 1..Len(closes')
      PROVE  Ended(closes[m].launch)'
  <2>1. closes' = closes \/ closes' = <<>> \/ closes' = pipesNeedingCloseEvents
        BY Frame DEF EventStep, CollectOther, CollectClose, CollectRead, FireNext, Dispatched
  <2>2. CASE closes' # <<>>
    <3>1. PICK k \in Launch : k = closes'[m].launch /\ Ended(k)
          BY <1>1, <1>2, <2>1, <2>2
    <3>2. Ended(k)'
          BY <1>0, <3>1
    <3> QED BY <3>1, <3>2 DEF Ended, Over
  <2> QED BY <2>2
<1>6. ASSUME NEW m \in 1..Len(batch'), batch'[m].what = "close"
      PROVE  Ended(batch[m].launch)'
  <2> SUFFICES \E k \in Launch : k = batch'[m].launch /\ Ended(k)
    <3>1. PICK k \in Launch : k = batch'[m].launch /\ Ended(k)
          OBVIOUS
    <3>2. Ended(k)'
          BY <1>0, <3>1
    <3> QED BY <3>1, <3>2 DEF Ended, Over
  <2>1. CASE batch' = batch
        BY <1>3, <1>6, <2>1
  <2>2. CASE Pops
    <3>1. m + 1 \in 1..Len(batch) /\ batch'[m] = batch[m + 1]
          BY <2>2, PopsFacts
    <3> QED BY <1>3, <1>6, <3>1
  <2>3. CASE CollectRead
    <3>1. PICK i \in 1..Len(closes) : batch'[m].launch = closes[i].launch
          BY <1>6, <2>3, CollectedKinds
    <3> QED BY <1>2, <3>1
  <2> QED BY <2>1, <2>2, <2>3, Frame
        DEF EventStep, CollectOther, CollectClose, FireNext, Dispatched, Pops, Empties
<1>7. ASSUME NEW k \in Launch, NEW s \in Stream, <<k, s>> \in closed'
      PROVE  Ended(k)'
  <2> SUFFICES Ended(k)
        BY <1>0
  <2>1. CASE <<k, s>> \in closed
        BY <2>1 DEF Closes
  <2>2. CASE <<k, s>> \notin closed
    <3>1. Dispatched
          BY <1>7, <2>2, Frame
    <3>2. Pops
          BY <3>1 DEF Pops, Dispatched, Empties
    <3>3. Head(batch).what = "close" /\ Head(batch).launch = k
          BY <1>7, <2>2, <3>1 DEF Dispatched
    <3> QED BY <1>3, <3>2, <3>3, PopsFacts
  <2> QED BY <2>1, <2>2
<1> QED BY <1>4, <1>5, <1>6, <1>7 DEF Closes

\* When events are collected all that is kept comes before the closes and exits.
LEMMA CollectedTold ==
    ASSUME Types, Phases, Empties, Needs, CollectRead,
           NEW l, NEW p, Reaches(l, p), NEW c, Kept(l, p, c),
           NEW m \in Nat, m > Len(pipesNeedingReadEvents)
    PROVE  Told(l, p, c, m)'
<1>1. p \in Pipes /\ batch = <<>> /\ seen' = seen
      BY ReachesFacts DEF CollectRead, Empties
<1>2. CASE Saw(l, c)
      BY <1>1, <1>2 DEF Told, Saw
<1>3. CASE Contains(readData[p], c)
  <2>1. PICK i \in 1..Len(pipesNeedingReadEvents) : ReadAt(i, p, c)'
        BY <1>1, <1>3, CollectedRead
  <2>2. i \in 1..(m - 1)
        BY LenProperties DEF Types, Queued
  <2> QED BY <2>1, <2>2 DEF Told
<1> QED BY <1>1, <1>2, <1>3 DEF Kept

\* The events before an event of the batch stay before it, until it is fired.
LEMMA BatchToldStep ==
    ASSUME Types, Phases, Empties, Needs, [Next]_vars, ~CollectRead,
           NEW m \in 1..Len(batch')
    PROVE  \E i \in 1..Len(batch) :
              /\ batch'[m] = batch[i]
              /\ \A l, p, c : Reaches(l, p) /\ Told(l, p, c, i) => Told(l, p, c, m)'
<1>0. Len(batch) \in Nat
      BY LenProperties DEF Types, Queued
<1>1. CASE batch' = batch
  <2>1. m \in 1..Len(batch) /\ batch'[m] = batch[m]
        BY <1>1
  <2>2. ASSUME NEW l, NEW p, NEW c, Reaches(l, p), Told(l, p, c, m)
        PROVE  Told(l, p, c, m)'
    <3>1. CASE Saw(l, c)
          BY <2>2, <3>1, SawStep, ReachesFacts DEF Told
    <3>2. ASSUME NEW j \in 1..(m - 1), ReadAt(j, p, c)  PROVE Told(l, p, c, m)'
      <4>1. ReadAt(j, p, c)'
            BY <1>1, <3>2 DEF ReadAt
      <4> QED BY <4>1 DEF Told
    <3> QED BY <2>2, <3>1, <3>2 DEF Told
  <2> QED BY <2>1, <2>2
<1>2. CASE Pops
  <2>1. m + 1 \in 1..Len(batch) /\ batch'[m] = batch[m + 1] /\ m \in Nat /\ m >= 1
        BY <1>2, PopsFacts
  <2>2. \A l, p, c : Reaches(l, p) /\ Told(l, p, c, m + 1) => Told(l, p, c, m)'
        BY <1>0, <1>2, <2>1, ToldStep
  <2> QED BY <2>1, <2>2
<1> QED BY <1>1, <1>2, Frame
        DEF EventStep, CollectOther, CollectClose, FireNext, Dispatched, Pops, Empties

\* A launch with a close or an exit is over.
LEMMA ClosesEnded ==
    ASSUME Types, Phases, Empties, Exits, Closes, NEW k \in Launch, NEW s \in Stream,
           \/ \E m \in 1..Len(batch) : CloseAt(m, k, s) \/ ExitAt(m, k)
           \/ \E m \in 1..Len(closes) : closes[m].launch = k
           \/ <<k, s>> \in closed
           \/ Pending(k) \/ exited[k] > 0
    PROVE  Ended(k)
BY ExitEnded DEF Closes, CloseAt, Pending

\* What is told before a close stays told before it.
LEMMA CloseToldStep ==
    ASSUME Types, Phases, Empties, Needs, Exits, Closes, Data, CloseTold, [Next]_vars
    PROVE  CloseTold'
<1> SUFFICES ASSUME NEW k \in Launch, NEW s \in Stream, NEW n \in 1..MaxChunk,
                    n <= written'[k][s]
             PROVE  /\ \A m \in 1..Len(batch') :
                          CloseAt(m, k, s)' => Told(s, Own(s), Chunk(k, s, n), m)'
                    /\ <<k, s>> \in closed' => Saw(s, Chunk(k, s, n))'
      BY DEF CloseTold
<1> PICK c \in ChunkSet : c = Chunk(k, s, n)
      BY ChunkFacts
<1>1. Reaches(s, Own(s)) /\ s \in Stream \cup {"onRead"}
      BY DEF Reaches
<1>2. ASSUME NEW m \in 1..Len(batch'), CloseAt(m, k, s)'
      PROVE  Told(s, Own(s), c, m)'
  <2>1. CASE CollectRead
    <3>1. PICK i \in 1..Len(closes) :
             m = Len(pipesNeedingReadEvents) + i /\ closes[i].launch = k
          BY <1>2, <2>1, CollectedKinds DEF CloseAt, Types
    <3>2. Ended(k)
          BY <3>1, ClosesEnded
    <3>3. n <= written[k][s]
          BY <3>2, EndedStep
    <3>4. Kept(s, Own(s), c)
          BY <3>2, <3>3, EndedData
    <3>5. m \in Nat /\ m > Len(pipesNeedingReadEvents)
          BY <3>1, LenProperties DEF Types, Queued
    <3> QED BY <1>1, <2>1, <3>4, <3>5, CollectedTold
  <2>2. CASE ~CollectRead
    <3>1. PICK i \in 1..Len(batch) :
             /\ batch'[m] = batch[i]
             /\ \A l, p, d : Reaches(l, p) /\ Told(l, p, d, i) => Told(l, p, d, m)'
          BY <2>2, BatchToldStep
    <3>2. CloseAt(i, k, s)
          BY <1>2, <3>1 DEF CloseAt
    <3>3. n <= written[k][s]
          BY <3>2, ClosesEnded, EndedStep
    <3>4. Told(s, Own(s), c, i)
          BY <3>2, <3>3 DEF CloseTold
    <3> QED BY <1>1, <3>1, <3>4
  <2> QED BY <2>1, <2>2
<1>3. ASSUME <<k, s>> \in closed'
      PROVE  Saw(s, c)'
  <2>1. CASE <<k, s>> \in closed
    <3>1. n <= written[k][s]
          BY <2>1, ClosesEnded, EndedStep
    <3>2. Saw(s, c)
          BY <2>1, <3>1 DEF CloseTold
    <3> QED BY <1>1, <3>2, SawStep
  <2>2. CASE <<k, s>> \notin closed
    <3>1. Dispatched
          BY <1>3, <2>2, Frame
    <3>2. Pops
          BY <3>1 DEF Pops, Dispatched, Empties
    <3>3. /\ Head(batch).what = "close" /\ Head(batch).launch = k
          /\ Head(batch).pipe.stream = s /\ Head(batch).pipe.native = FALSE
          BY <1>3, <2>2, <3>1 DEF Dispatched, Empties
    <3>4. /\ Len(batch) \in Nat /\ Len(batch) >= 1
          /\ Head(batch) = batch[1] /\ batch[1] \in EventSet
          BY <3>2, PopsFacts
    <3>5. batch[1].pipe = Own(s)
          BY <3>3, <3>4, EventFacts, PipeFacts DEF PipeIsFine
    <3>6. CloseAt(1, k, s) /\ 1 \in 1..Len(batch)
          BY <3>3, <3>4, <3>5 DEF CloseAt
    <3>7. n <= written[k][s]
          BY <3>6, ClosesEnded, EndedStep
    <3>8. Told(s, Own(s), c, 1)
          BY <3>6, <3>7 DEF CloseTold
    <3>9. Saw(s, c)
          BY <3>8 DEF Told
    <3> QED BY <1>1, <3>9, SawStep
  <2> QED BY <2>1, <2>2
<1>4. ASSUME NEW m \in 1..Len(batch'), CloseAt(m, k, s)'
      PROVE  Told(s, Own(s), Chunk(k, s, n), m)'
      BY <1>2, <1>4 DEF Told, Saw, ReadAt, Own, Chunk
<1>5. ASSUME <<k, s>> \in closed'
      PROVE  Saw(s, Chunk(k, s, n))'
      BY <1>3, <1>5 DEF Saw, Chunk
<1> QED BY <1>4, <1>5

\* And what is told before an exit.
LEMMA ExitToldStep ==
    ASSUME Types, Phases, Empties, Needs, Exits, Closes, Data, ExitTold, [Next]_vars
    PROVE  ExitTold'
<1> SUFFICES ASSUME NEW k \in Launch, NEW s \in Stream, NEW n \in 1..MaxChunk,
                    mode'[k] = "async", n <= written'[k][s]
             PROVE  /\ \A m \in 1..Len(batch') : ExitAt(m, k)' =>
                          /\ Told("onRead", Native(k, s), Chunk(k, s, n), m)'
                          /\ Told(s, Own(s), Chunk(k, s, n), m)'
                    /\ exited'[k] > 0 =>
                          Saw("onRead", Chunk(k, s, n))' /\ Saw(s, Chunk(k, s, n))'
      BY DEF ExitTold
<1> PICK c \in ChunkSet : c = Chunk(k, s, n)
      BY ChunkFacts
<1>1. ASSUME Ended(k)
      PROVE  /\ mode[k] = "async" /\ n <= written[k][s]
             /\ Reaches("onRead", Native(k, s)) /\ Reaches(s, Own(s))
  <2>1. mode[k] = "async" /\ n <= written[k][s]
        BY <1>1, ModeStep, EndedStep DEF Ended
  <2> QED BY <2>1, PipeFacts DEF Reaches
<1>2. ASSUME NEW m \in 1..Len(batch'), ExitAt(m, k)'
      PROVE  Told("onRead", Native(k, s), c, m)' /\ Told(s, Own(s), c, m)'
  <2>1. CASE CollectRead
    <3>1. PICK i \in 1..Len(exits) :
             m = Len(pipesNeedingReadEvents) + Len(closes) + i /\ exits[i] = k
          BY <1>2, <2>1, CollectedKinds DEF ExitAt, Types
    <3>2. Ended(k)
          BY <3>1, ClosesEnded DEF Pending, Contains
    <3>3. Kept("onRead", Native(k, s), c) /\ Kept(s, Own(s), c)
          BY <1>1, <3>2, EndedData
    <3>4. m \in Nat /\ m > Len(pipesNeedingReadEvents)
          BY <3>1, LenProperties DEF Types, Queued
    <3> QED BY <1>1, <2>1, <3>2, <3>3, <3>4, CollectedTold
  <2>2. CASE ~CollectRead
    <3>1. PICK i \in 1..Len(batch) :
             /\ batch'[m] = batch[i]
             /\ \A l, p, d : Reaches(l, p) /\ Told(l, p, d, i) => Told(l, p, d, m)'
          BY <2>2, BatchToldStep
    <3>2. ExitAt(i, k)
          BY <1>2, <3>1 DEF ExitAt
    <3>3. Ended(k)
          BY <3>2, ClosesEnded
    <3>4. Told("onRead", Native(k, s), c, i) /\ Told(s, Own(s), c, i)
          BY <1>1, <3>2, <3>3 DEF ExitTold
    <3> QED BY <1>1, <3>1, <3>3, <3>4
  <2> QED BY <2>1, <2>2
<1>3. ASSUME exited'[k] > 0
      PROVE  Saw("onRead", c)' /\ Saw(s, c)'
  <2>1. CASE exited[k] > 0
    <3>1. Ended(k)
          BY <2>1, ClosesEnded
    <3>2. Saw("onRead", c) /\ Saw(s, c)
          BY <1>1, <2>1, <3>1 DEF ExitTold
    <3> QED BY <3>2, SawStep
  <2>2. CASE ~(exited[k] > 0) /\ Dispatched
    <3>1. Pops
          BY <2>2 DEF Pops, Dispatched, Empties
    <3>2. Head(batch).what = "exit" /\ Head(batch).launch = k
          BY <1>3, <2>2 DEF Dispatched, Types, Heard
    <3>3. ExitAt(1, k) /\ 1 \in 1..Len(batch)
          BY <3>1, <3>2, PopsFacts DEF ExitAt
    <3>4. Ended(k)
          BY <3>3, ClosesEnded
    <3>5. Told("onRead", Native(k, s), c, 1) /\ Told(s, Own(s), c, 1)
          BY <1>1, <3>3, <3>4 DEF ExitTold
    <3>6. Saw("onRead", c) /\ Saw(s, c)
          BY <3>5 DEF Told
    <3> QED BY <3>6, SawStep
  <2>3. CASE ~(exited[k] > 0) /\ Exited
    <3>1. ~InCallback /\ k = launches /\ mode' = mode
          BY <1>3, <2>3 DEF Exited, ExitedAs, Types, Heard
    <3>2. mpc = "closing" /\ mode[k] = "async"
          BY <2>3, <3>1 DEF Exited, ExitedAs
    <3>3. InCallback
          BY <3>1, <3>2 DEF InCallback, Phases, Stages
    <3> QED BY <3>1, <3>3
  <2>4. CASE ~(exited[k] > 0) /\ exited' = exited
        BY <1>3, <2>4
  <2> QED BY <2>1, <2>2, <2>3, <2>4, Frame
<1>4. ASSUME NEW m \in 1..Len(batch'), ExitAt(m, k)'
      PROVE  /\ Told("onRead", Native(k, s), Chunk(k, s, n), m)'
             /\ Told(s, Own(s), Chunk(k, s, n), m)'
      BY <1>2, <1>4 DEF Told, Saw, ReadAt, Own, Native, Chunk
<1>5. ASSUME exited'[k] > 0
      PROVE  Saw("onRead", Chunk(k, s, n))' /\ Saw(s, Chunk(k, s, n))'
      BY <1>3, <1>5 DEF Saw, Chunk
<1> QED BY <1>4, <1>5

-----------------------------------------------------------------------------
(* The theorems.                                                            *)

\* The inductive invariant.
IInv ==
    /\ Types /\ Phases /\ Empties /\ Exits
    /\ Needs /\ Data /\ Closes /\ CloseTold /\ ExitTold

\* It holds at first.
LEMMA InitIInv == Init => IInv
<1> SUFFICES ASSUME Init PROVE IInv
      OBVIOUS
<1> USE ProcessAssumption DEF Init
<1>1. Types
  <2>1. Places /\ Counts
    <3>1. 0 \in 0..MaxChunk /\ 0 \in 0..MaxLaunch
          OBVIOUS
    <3> QED BY <3>1 DEF Places, Counts
  <2>2. Queued
        BY DEF Queued
  <2>3. Heard
        BY DEF Heard
  <2> QED BY <2>1, <2>2, <2>3 DEF Types
<1>2. Phases
      BY DEF Phases, Begins, Readers, Stages, Over, Launch
<1>3. Empties /\ Needs
      BY DEF Empties, Needs
<1>4. \A k \in Launch : ~Pending(k) /\ exited[k] = 0
      BY DEF Pending, Contains
<1>5. Exits
      BY <1>4 DEF Exits, Distinct, Contains
<1>6. \A k \in Launch, s \in Stream, n \in 1..MaxChunk :
         ~(n <= written[k][s]) /\ ~PassedOn(k, s, n) /\ ~WasRead(k, s, n)
      BY DEF PassedOn, WasRead, Launch
<1>7. Data /\ CloseTold /\ ExitTold
      BY <1>6 DEF Data, OwnData, NativeData, CallData, ReturnedData, CloseTold, ExitTold
<1>8. Closes
      BY DEF Closes
<1> QED BY <1>1, <1>2, <1>3, <1>5, <1>7, <1>8 DEF IInv

\* Each step keeps the invariant.
LEMMA NextIInv == IInv /\ [Next]_vars => IInv'
<1> SUFFICES ASSUME IInv, [Next]_vars PROVE IInv'
      OBVIOUS
<1> USE DEF IInv
<1>1. Types'
      BY StagesStep, QueuedStep, HeardStep DEF Types
<1>2. Phases' /\ Empties' /\ Exits' /\ Needs'
      BY StagesStep, EmptiesStep, ExitsStep, NeedsStep DEF Types
<1>3. Data' /\ Closes' /\ CloseTold' /\ ExitTold'
      BY DataStep, ClosesStep, CloseToldStep, ExitToldStep
<1> QED BY <1>1, <1>2, <1>3

\* Whatever streams a child has, however much it writes, and however often the
\* process is launched or called: the invariant holds.
THEOREM Invariant == Spec => []IInv
<1>1. Init => IInv
      BY InitIInv
<1>2. IInv /\ [Next]_vars => IInv'
      BY NextIInv
<1> QED BY <1>1, <1>2, PTL DEF Spec

\* The variables have their types, and threads that read belong to a process
\* that runs.
LEMMA IInvTypeOK == IInv => TypeOK
<1> SUFFICES ASSUME IInv PROVE TypeOK
      OBVIOUS
<1>1. \A s \in Stream : reader[s] # "none" => running
      BY DEF IInv, Phases, Stages, Over
<1> QED BY <1>1 DEF IInv, Types, Places, Counts, Queued, TypeOK, CloseSet

\* Output, closes and exits come in their order.
LEMMA IInvSafe == IInv => OutputIsComplete /\ CloseAfterRead /\ ExitOnce
<1> SUFFICES ASSUME IInv PROVE OutputIsComplete /\ CloseAfterRead /\ ExitOnce
      OBVIOUS
<1> USE DEF IInv
<1>1. ASSUME NEW k \in Launch, NEW s \in Stream, NEW c \in ChunksOf(k, s)
      PROVE  \E n \in 1..MaxChunk : n <= written[k][s] /\ c = Chunk(k, s, n) /\ c.stream = s
  <2>1. PICK n \in 1..written[k][s] : c = Chunk(k, s, n)
        BY DEF ChunksOf
  <2>2. written[k][s] \in 0..MaxChunk
        BY DEF Types, Counts
  <2> QED BY <2>1, <2>2, ChunkFacts, ProcessAssumption
<1>2. ASSUME NEW k \in Launch, exited[k] > 0, NEW c \in WrittenBy(k)
      PROVE  IF mode[k] = "async" THEN Saw("onRead", c) /\ Saw(c.stream, c)
             ELSE Contains(returned[k], c)
  <2>1. PICK s \in Stream : c \in ChunksOf(k, s)
        BY DEF WrittenBy
  <2>2. PICK n \in 1..MaxChunk : n <= written[k][s] /\ c = Chunk(k, s, n) /\ c.stream = s
        BY <1>1, <2>1
  <2>3. CASE mode[k] = "async"
        BY <1>2, <2>2, <2>3 DEF ExitTold
  <2>4. CASE mode[k] # "async"
    <3>1. k <= launches /\ (k = launches => ~running)
          BY <1>2 DEF Exits
    <3>2. mode[k] = "sync"
          BY <2>4, <3>1 DEF Phases, Begins, Types, Places
    <3>3. ~(k = launches /\ mpc = "wait")
          BY <3>1 DEF Phases, Stages
    <3> QED BY <2>2, <2>4, <3>2, <3>3 DEF Data, ReturnedData
  <2> QED BY <2>3, <2>4
<1>3. ASSUME NEW k \in Launch, NEW s \in Stream, <<k, s>> \in closed, NEW c \in ChunksOf(k, s)
      PROVE  Saw(s, c)
      BY <1>1, <1>3 DEF CloseTold
<1>4. ASSUME NEW k \in Launch, exited[k] > 1
      PROVE  CalledAfterLaunch(k)
  <2>1. exited[k] \in Nat
        BY DEF Types, Heard
  <2> QED BY <1>4, <2>1 DEF Exits
<1>5. ASSUME NEW k \in Launch, exited[k] > 0, k = launches
      PROVE  ~running
      BY <1>5 DEF Exits
<1> QED BY <1>2, <1>3, <1>4, <1>5 DEF OutputIsComplete, CloseAfterRead, ExitOnce

\* When the application is told that a launch has exited it has, or has been
\* given as the result of the call, all that the child wrote; a pipe's CLOSE comes
\* after its data; and EXIT comes when the process is over, once per launch
\* unless the process is called after it was launched.
THEOREM OutputBeforeExit == Spec => []ExitAfterOutput
<1>1. IInv => ExitAfterOutput
      BY IInvTypeOK, IInvSafe DEF ExitAfterOutput
<1> QED BY Invariant, <1>1, PTL

-----------------------------------------------------------------------------
(***************************************************************************)
(* The order of the data.  What a pipe has, and what an event has of it,   *)
(* is its own and in order (Origins); of pipes with the same listeners     *)
(* the one of the earlier launch is queued first (Rows); so events come in *)
(* the order of their data, and before what the pipes have (BatchOrder),   *)
(* and what was heard before all that is to come (SeenOrder).  What a call *)
(* returns is not passed on by events (Calls).                             *)
(***************************************************************************)

\* Who hears what the pipe shows.
Listener(p) == IF p.native = TRUE THEN "onRead" ELSE p.stream

\* Who listens to the pipe shows that the chunk has been read, or passed on.
GotBy(l, c) == IF l = "onRead" THEN WasRead(c.launch, c.stream, c.n)
               ELSE PassedOn(c.launch, c.stream, c.n)

\* The chunk is one that the pipe was given.
Got(p, c) ==
    /\ c.stream = p.stream /\ GotBy(Listener(p), c)
    /\ p.native = TRUE => c.launch = p.launch

\* Data of a pipe, in its order.
Piece(p, d) ==
    /\ \A i \in 1..Len(d) : Got(p, d[i])
    /\ \A i, j \in 1..Len(d) : i < j => Earlier(d[i], d[j])

Origins ==
    /\ \A p \in Pipes : Piece(p, readData[p])
    /\ \A m \in 1..Len(batch) : batch[m].what = "read" => Piece(batch[m].pipe, batch[m].data)

Rows ==
    /\ \A i \in 1..Len(pipesNeedingReadEvents) : pipesNeedingReadEvents[i].launch <= launches
    /\ \A i, j \in 1..Len(pipesNeedingReadEvents) :
          LET p == pipesNeedingReadEvents[i]
              q == pipesNeedingReadEvents[j]
          IN  i < j /\ Listener(p) = Listener(q) => p.launch <= q.launch

\* The chunk is earlier than what this pipe has, or the events after this one.
Precedes(c, p, m) ==
    /\ \A j \in 1..Len(readData[p]) : Earlier(c, readData[p][j])
    /\ \A n \in 1..Len(batch) : n > m /\ batch[n].what = "read" /\ batch[n].pipe = p =>
          \A j \in 1..Len(batch[n].data) : Earlier(c, batch[n].data[j])

BatchOrder ==
    \A m \in 1..Len(batch) : batch[m].what = "read" =>
        \A p \in Pipes : Listener(p) = Listener(batch[m].pipe) /\ p.stream = batch[m].pipe.stream =>
            \A i \in 1..Len(batch[m].data) : Precedes(batch[m].data[i], p, m)

SeenOrder ==
    \A p \in Pipes : LET l == Listener(p) IN
        \A i \in 1..Len(seen[l]) : Passed(l, seen[l][i], p.stream) =>
            GotBy(l, seen[l][i]) /\ Precedes(seen[l][i], p, 0)

\* What a call returns is of calls, which the events do not pass on to onRead.
Called(c) == c.launch <= launches /\ mode[c.launch] # "async"
Calls ==
    /\ \A i \in 1..Len(processOutput) : Called(processOutput[i])
    /\ \A k \in Launch : \A i \in 1..Len(returned[k]) : Called(returned[k][i])
    /\ \A l \in Stream \cup {"onRead"} : \A i \in 1..Len(seen[l]) : seen[l][i].launch <= launches

Ordered == Origins /\ Rows /\ BatchOrder /\ SeenOrder /\ Calls /\ DataInOrder

\* What has been read, or passed on, stays so.
LEMMA GotStep ==
    ASSUME Types, Phases, [Next]_vars, NEW k \in Launch, NEW s \in Stream, NEW n \in 1..MaxChunk
    PROVE  /\ PassedOn(k, s, n) => PassedOn(k, s, n)'
           /\ WasRead(k, s, n) => WasRead(k, s, n)'
<1>0. /\ launches \in 0..MaxLaunch /\ MaxLaunch \in Nat /\ MaxChunk \in Nat
      /\ written \in [Launch -> [Stream -> 0..MaxChunk]] /\ os \in [Stream -> 0..MaxChunk]
      /\ k \in Nat /\ k >= 1 /\ n \in Nat /\ n >= 1
      /\ written[k][s] \in Nat /\ os[s] \in Nat
      /\ reader \in [Stream -> {"none", "reading", "passing"}]
      BY ProcessAssumption DEF Types, Places, Counts, Launch
<1>1. CASE UNCHANGED <<launches, written, os, reader>>
      BY <1>1 DEF PassedOn, WasRead
<1>2. ASSUME NEW t \in Stream, ChildWrites(t)
      PROVE  /\ PassedOn(k, s, n) => PassedOn(k, s, n)'
             /\ WasRead(k, s, n) => WasRead(k, s, n)'
  <2>1. /\ UNCHANGED <<launches, reader>>
        /\ written' = [written EXCEPT ![launches][t] = @ + 1]
        /\ os' = [os EXCEPT ![t] = @ + 1]
        BY <1>2 DEF ChildWrites
  <2>2. CASE k = launches /\ s = t
    <3>1. written'[k][s] = written[k][s] + 1 /\ os'[s] = os[s] + 1
          BY <1>0, <2>1, <2>2
    <3>2. written'[k][s] - os'[s] = written[k][s] - os[s]
          BY <1>0, <3>1
    <3> QED BY <1>0, <2>1, <2>2, <3>2 DEF PassedOn, WasRead
  <2>3. CASE k = launches /\ s # t
    <3>1. written'[k][s] = written[k][s] /\ os'[s] = os[s]
          BY <1>0, <2>1, <2>3
    <3> QED BY <2>1, <2>3, <3>1 DEF PassedOn, WasRead
  <2>4. CASE k # launches
    <3>1. written'[k][s] = written[k][s]
          BY <1>0, <2>1, <2>4
    <3> QED BY <2>1, <2>4, <3>1 DEF PassedOn, WasRead
  <2> QED BY <2>2, <2>3, <2>4
<1>3. ASSUME NEW t \in Stream, Read(t) \/ PassOn(t) \/ ReadEnds(t)
      PROVE  /\ PassedOn(k, s, n) => PassedOn(k, s, n)'
             /\ WasRead(k, s, n) => WasRead(k, s, n)'
  <2>1. CASE s # t
    <3>1. UNCHANGED <<launches, written>> /\ reader'[s] = reader[s] /\ os'[s] = os[s]
          BY <1>0, <1>3, <2>1 DEF Read, PassOn, ReadEnds
    <3> QED BY <3>1 DEF WasRead, PassedOn
  <2>2. CASE s = t
    <3>1. UNCHANGED <<launches, written>>
          /\ \/ os'[s] = os[s] /\ (reader'[s] = "passing" \/ reader[s] = "reading")
             \/ os'[s] = os[s] - 1
          BY <1>0, <1>3, <2>2 DEF Read, PassOn, ReadEnds
    <3> QED BY <1>0, <3>1 DEF WasRead, PassedOn
  <2> QED BY <2>1, <2>2
<1>4. CASE LaunchAsync \/ LaunchSync
  <2>1. launches' = launches + 1 /\ written' = written /\ ~running
        BY <1>4 DEF LaunchAsync, LaunchSync, Launches
  <2>2. os[s] = 0 /\ reader[s] = "none"
        BY <2>1 DEF Phases, Stages, Over
  <2> QED BY <1>0, <2>1, <2>2 DEF WasRead, PassedOn
<1> QED BY <1>1, <1>2, <1>3, <1>4, Frame DEF ChildExits

\* A launch begun later changes nothing for the chunks there are.
LEMMA GotByStep ==
    ASSUME Types, Phases, [Next]_vars, NEW l, NEW c \in ChunkSet, GotBy(l, c)
    PROVE  GotBy(l, c)'
<1>1. c.launch \in Launch /\ c.stream \in Stream /\ c.n \in 1..MaxChunk
      BY DEF ChunkSet
<1> QED BY <1>1, GotStep DEF GotBy

\* What has been read is of launches there have been.
LEMMA GotByFacts ==
    ASSUME Types, NEW l, NEW c \in ChunkSet, GotBy(l, c)
    PROVE  c.launch <= launches
<1>1. c.launch \in Launch /\ c.stream \in Stream /\ c.n \in 1..MaxChunk
      BY DEF ChunkSet
<1> QED BY <1>1, WasReadFacts DEF GotBy, WasRead

\* The chunk that is read, or passed on, is later than those that were.
LEMMA NextIsLater ==
    ASSUME Types, Phases, NEW s \in Stream,
           Read(s) \/ PassOn(s),
           NEW l, l = IF Read(s) THEN "onRead" ELSE s,
           NEW c \in ChunkSet, c.stream = s, GotBy(l, c)
    PROVE  Earlier(c, NextChunk(s))
<1>0. os[s] > 0
      BY DEF Read, PassOn, Phases, Readers
<1>1. /\ c.launch \in Launch /\ c.stream \in Stream /\ c.n \in 1..MaxChunk
      /\ launches \in Launch /\ written[launches][s] - os[s] + 1 \in 1..MaxChunk
      BY <1>0, NextChunkFacts DEF ChunkSet, Types
<1>2. /\ NextChunk(s).launch = launches
      /\ NextChunk(s).n = written[launches][s] - os[s] + 1
      BY <1>1, ChunkFacts DEF NextChunk
<1>3. written[launches][s] \in Nat /\ os[s] \in Nat /\ c.launch \in Nat /\ c.n \in Nat
      /\ launches \in Nat
      BY <1>1, ProcessAssumption DEF Types, Counts, Launch
<1>4. PassedOn(c.launch, c.stream, c.n)
  <2>1. CASE Read(s)
    <3>1. reader[s] # "passing"
          BY <2>1 DEF Read
    <3> QED BY <2>1, <3>1 DEF GotBy, WasRead
  <2>2. CASE ~Read(s)
    <3>1. l # "onRead"
          BY <2>2, ProcessAssumption
    <3> QED BY <3>1 DEF GotBy
  <2> QED BY <2>1, <2>2
<1>5. \/ c.launch < launches
      \/ c.launch = launches /\ c.n <= written[launches][s] - os[s]
      BY <1>4 DEF PassedOn
<1> QED BY <1>2, <1>3, <1>5 DEF Earlier

\* Chunks of lists are chunks.
LEMMA PlacesOfChunks ==
    ASSUME Types
    PROVE  /\ \A p \in Pipes : /\ readData[p] \in Seq(ChunkSet) /\ Len(readData[p]) \in Nat
                               /\ \A i \in 1..Len(readData[p]) : readData[p][i] \in ChunkSet
           /\ Len(batch) \in Nat
           /\ \A m \in 1..Len(batch) : batch[m].what = "read" =>
                 /\ batch[m].pipe \in Pipes /\ batch[m].data \in Seq(ChunkSet)
                 /\ \A i \in 1..Len(batch[m].data) : batch[m].data[i] \in ChunkSet
           /\ \A l \in Stream \cup {"onRead"} :
                 /\ seen[l] \in Seq(ChunkSet) /\ Len(seen[l]) \in Nat
                 /\ \A i \in 1..Len(seen[l]) : seen[l][i] \in ChunkSet
<1>0. \A d \in Seq(ChunkSet) : Len(d) \in Nat /\ \A i \in 1..Len(d) : d[i] \in ChunkSet
      OBVIOUS
<1>1. \A m \in 1..Len(batch) : batch[m].what = "read" =>
          batch[m].pipe \in Pipes /\ batch[m].data \in Seq(ChunkSet)
  <2>1. \A m \in 1..Len(batch) : batch[m] \in EventSet
        BY DEF Types, Queued
  <2> QED BY <2>1, EventFacts
<1>2. \A p \in Pipes : readData[p] \in Seq(ChunkSet)
      BY DEF Types, Queued
<1>3. \A l \in Stream \cup {"onRead"} : seen[l] \in Seq(ChunkSet)
      BY DEF Types, Heard
<1>4. Len(batch) \in Nat
      BY LenProperties DEF Types, Queued
<1> HIDE DEF ChunkSet
<1> QED BY <1>0, <1>1, <1>2, <1>3, <1>4

\* What was given to a pipe stays so.
LEMMA PieceStep ==
    ASSUME Types, Phases, [Next]_vars, NEW p \in Pipes, NEW d \in Seq(ChunkSet), Piece(p, d)
    PROVE  Piece(p, d)'
<1>1. \A i \in 1..Len(d) : d[i] \in ChunkSet
      OBVIOUS
<1>2. \A i \in 1..Len(d) : GotBy(Listener(p), d[i])'
      BY <1>1, GotByStep DEF Piece, Got
<1> QED BY <1>2 DEF Piece, Got

\* Launches are counted.
LEMMA LaunchesStep ==
    ASSUME Types, [Next]_vars
    PROVE  launches \in Nat /\ launches' \in Nat /\ launches' >= launches
<1>1. launches \in Nat
      BY ProcessAssumption DEF Types, Places
<1>2. CASE LaunchAsync \/ LaunchSync
      BY <1>1, <1>2 DEF LaunchAsync, LaunchSync, Launches
<1> QED BY <1>1, <1>2, Frame

\* Of the chunks there are the same ones are passed on by events.
LEMMA PassedStep ==
    ASSUME Types, [Next]_vars, NEW l, NEW s, NEW c \in ChunkSet, c.launch <= launches
    PROVE  /\ Passed(l, c, s)' <=> Passed(l, c, s)
           /\ Called(c) => Called(c)'
<1>1. c.launch \in Launch
      BY DEF ChunkSet
<1>2. mode'[c.launch] = mode[c.launch] /\ c.launch <= launches'
      BY <1>1, ModeStep
<1> QED BY <1>2 DEF Passed, Called

\* Listeners are streams or onRead.
LEMMA ListenerFacts ==
    /\ \A p \in Pipes : /\ Listener(p) \in Stream \cup {"onRead"} /\ p.stream \in Stream
                        /\ Listener(p) \in {p.stream, "onRead"}
    /\ \A s \in Stream : /\ Own(s) \in Pipes /\ Listener(Own(s)) = s /\ Own(s).stream = s
    /\ \A k \in Launch, s \in Stream :
          /\ Native(k, s) \in Pipes /\ Listener(Native(k, s)) = "onRead"
          /\ Native(k, s).stream = s /\ Native(k, s).launch = k /\ Native(k, s).native = TRUE
    /\ \A p \in Pipes : Listener(p) # "onRead" => p = Own(Listener(p))
    /\ \A p \in Pipes : Listener(p) = "onRead" => p.native = TRUE /\ p.launch \in Launch
                                                  /\ p = Native(p.launch, p.stream)
<1>1. \A p \in Pipes : p.native = TRUE \/ p.native = FALSE
      BY PipeFacts DEF PipeIsFine
<1> QED BY <1>1, PipeFacts, ProcessAssumption DEF Listener, PipeIsFine

\* What is collected.
LEMMA CollectedData ==
    ASSUME Types, Empties, Needs, CollectRead
    PROVE  /\ batch = <<>> /\ \A p \in Pipes : readData'[p] = <<>>
           /\ \A m \in 1..Len(batch') : batch'[m].what = "read" =>
                 /\ m \in 1..Len(pipesNeedingReadEvents)
                 /\ batch'[m].pipe = pipesNeedingReadEvents[m]
                 /\ \/ QueuedFirst(m) /\ batch'[m].data = readData[batch'[m].pipe]
                    \/ batch'[m].data = <<>>
<1>1. batch = <<>>
      BY DEF CollectRead, Empties
<1>2. ASSUME NEW p \in Pipes  PROVE readData'[p] = <<>>
      BY DEF CollectRead, Needs
<1>3. ASSUME NEW m \in 1..Len(batch'), batch'[m].what = "read"
      PROVE  /\ m \in 1..Len(pipesNeedingReadEvents)
             /\ batch'[m].pipe = pipesNeedingReadEvents[m]
             /\ \/ QueuedFirst(m) /\ batch'[m].data = readData[batch'[m].pipe]
                \/ batch'[m].data = <<>>
  <2>1. m \in 1..Len(pipesNeedingReadEvents)
        BY <1>3, CollectedKinds DEF Types
  <2>2. batch'[m] = ReadEvents[m]
        BY <2>1, Collected DEF Types
  <2> DEFINE p == pipesNeedingReadEvents[m]
             d == IF QueuedFirst(m) THEN readData[p] ELSE <<>>
  <2>3. ReadEvents[m] = Event("read", p, p.launch, d)
        BY <2>1 DEF ReadEvents
  <2> HIDE DEF p, d
  <2>4. batch'[m].pipe = p /\ batch'[m].data = d
        BY <2>2, <2>3 DEF Event
  <2> QED BY <2>1, <2>4 DEF p, d
<1> QED BY <1>1, <1>2, <1>3

\* What a reader does to the queues.
LEMMA Reading ==
    ASSUME Types, Phases, NEW s \in Stream, Read(s) \/ PassOn(s)
    PROVE  \E p \in Pipes, c \in ChunkSet :
             /\ p.stream = s /\ Listener(p) = IF Read(s) THEN "onRead" ELSE s
             /\ p.launch <= launches
             /\ Listener(p) = "onRead" => p.launch = launches
             /\ c = NextChunk(s) /\ Got(p, c)'
             /\ pipesNeedingReadEvents' = Append(pipesNeedingReadEvents, p)
             /\ readData'[p] = Append(readData[p], c)
             /\ \A q \in Pipes : q # p => readData'[q] = readData[q]
             /\ UNCHANGED <<batch, seen, launches, mode>>
<1>0. os[s] > 0
      BY DEF Read, PassOn, Phases, Readers
<1>1. /\ launches \in Launch /\ written[launches][s] - os[s] + 1 \in 1..MaxChunk
      /\ NextChunk(s) \in ChunkSet
      BY <1>0, NextChunkFacts DEF Types
<1>2. PICK p \in Pipes : p = IF Read(s) THEN Native(launches, s) ELSE Own(s)
      BY <1>1, ListenerFacts
<1>3. PICK c \in ChunkSet : c = NextChunk(s)
      BY <1>1
<1>4. PICK k \in Launch, n \in 1..MaxChunk : k = launches /\ n = written[launches][s] - os[s] + 1
      BY <1>1
<1>5. c.launch = k /\ c.stream = s /\ c.n = n
      BY <1>3, <1>4, ChunkFacts DEF NextChunk
<1>6. p.stream = s /\ Listener(p) = IF Read(s) THEN "onRead" ELSE s
      BY <1>1, <1>2, ListenerFacts
<1>7. Listener(p) = "onRead" => Read(s) /\ p.launch = launches
      BY <1>1, <1>2, <1>6, ListenerFacts, ProcessAssumption
<1>8. p.launch <= launches
  <2>1. CASE Read(s)
        BY <1>1, <1>6, <1>7, <2>1, ProcessAssumption DEF Launch
  <2>2. CASE ~Read(s)
        BY <1>1, <1>2, <2>2, ProcessAssumption DEF Launch, Own
  <2> QED BY <2>1, <2>2
<1>9. QueueRead(p, c)
      BY <1>2, <1>3 DEF Read, PassOn
<1>10. UNCHANGED <<batch, seen, launches, mode>>
      BY DEF Read, PassOn
<1>11. written[launches][s] \in Nat /\ os[s] \in Nat
      BY <1>1, ProcessAssumption DEF Types, Counts
<1>12. GotBy(Listener(p), c)'
  <2>1. CASE Read(s)
    <3>1. UNCHANGED <<launches, written, os>> /\ reader'[s] = "passing"
          BY <2>1 DEF Read, Types, Places
    <3>2. k = launches' /\ n <= written'[k][s] - os'[s] + 1
          BY <1>4, <1>11, <3>1
    <3>3. WasRead(k, s, n)'
          BY <3>1, <3>2 DEF WasRead
    <3> QED BY <1>5, <1>6, <2>1, <3>3 DEF GotBy
  <2>2. CASE ~Read(s)
    <3>1. UNCHANGED <<launches, written>> /\ os'[s] = os[s] - 1
          BY <2>2 DEF PassOn, Types, Counts
    <3>2. k = launches' /\ n <= written'[k][s] - os'[s]
          BY <1>4, <1>11, <3>1
    <3>3. PassedOn(k, s, n)'
          BY <3>2 DEF PassedOn
    <3> QED BY <1>5, <1>6, <2>2, <3>3, ProcessAssumption DEF GotBy
  <2> QED BY <2>1, <2>2
<1>13. p.native = TRUE => Listener(p) = "onRead"
      BY DEF Listener
<1>14. /\ pipesNeedingReadEvents' = Append(pipesNeedingReadEvents, p)
       /\ readData'[p] = Append(readData[p], c)
       /\ \A q \in Pipes : q # p => readData'[q] = readData[q]
      BY <1>9 DEF QueueRead, Types, Queued
<1>15. Got(p, c)'
      BY <1>4, <1>5, <1>6, <1>7, <1>12, <1>13 DEF Got
<1> QED BY <1>3, <1>6, <1>7, <1>8, <1>10, <1>14, <1>15

\* Each step keeps the data of pipes and events what it was.
LEMMA OriginsStep ==
    ASSUME Types, Phases, Empties, Needs, Origins, [Next]_vars
    PROVE  Origins'
<1>1. ASSUME readData' = readData
      PROVE  \A p \in Pipes : Piece(p, readData[p])'
  <2> SUFFICES ASSUME NEW p \in Pipes  PROVE Piece(p, readData[p])'
      OBVIOUS
  <2>1. PICK d \in Seq(ChunkSet) : d = readData[p]
        BY PlacesOfChunks
  <2>2. Piece(p, d)'
        BY <2>1, PieceStep DEF Origins
  <2> QED BY <1>1, <2>1, <2>2 DEF Piece
<1>2. ASSUME NEW m \in 1..Len(batch), batch[m].what = "read",
             NEW n \in 1..Len(batch'), batch'[n] = batch[m]
      PROVE  Piece(batch[n].pipe, batch[n].data)'
  <2>1. PICK p \in Pipes, d \in Seq(ChunkSet) : p = batch[m].pipe /\ d = batch[m].data
        BY <1>2, PlacesOfChunks
  <2>2. Piece(p, d)'
        BY <1>2, <2>1, PieceStep DEF Origins
  <2> QED BY <1>2, <2>1, <2>2 DEF Piece, Got
<1>3. CASE UNCHANGED <<readData, batch>>
      BY <1>1, <1>2, <1>3 DEF Origins
<1>4. ASSUME NEW s \in Stream, Read(s) \/ PassOn(s)
      PROVE  Origins'
  <2>1. PICK p \in Pipes, c \in ChunkSet :
           /\ p.stream = s /\ Listener(p) = IF Read(s) THEN "onRead" ELSE s
           /\ c = NextChunk(s) /\ Got(p, c)'
           /\ readData'[p] = Append(readData[p], c)
           /\ \A q \in Pipes : q # p => readData'[q] = readData[q]
           /\ batch' = batch
        BY <1>4, Reading
  <2>2. PICK d \in Seq(ChunkSet) : d = readData[p]
        BY PlacesOfChunks
  <2>3. Piece(p, d) /\ Piece(p, d)'
        BY <2>2, PieceStep DEF Origins
  <2>4. PICK e \in Seq(ChunkSet) : e = Append(d, c)
        BY AppendOf
  <2>5. /\ Len(d) \in Nat /\ Len(e) = Len(d) + 1 /\ e[Len(d) + 1] = c
        /\ \A k \in 1..Len(d) : e[k] = d[k]
        BY <2>4, AppendOf
  <2>6. \A k \in 1..Len(e) : k = Len(d) + 1 \/ k \in 1..Len(d)
        BY <2>5
  <2>7. \A k \in 1..Len(d) : Earlier(d[k], c)
    <3> SUFFICES ASSUME NEW k \in 1..Len(d)  PROVE Earlier(d[k], c)
        OBVIOUS
    <3>1. d[k] \in ChunkSet /\ d[k].stream = s /\ GotBy(Listener(p), d[k])
          BY <2>1, <2>3 DEF Piece, Got
    <3> QED BY <1>4, <2>1, <3>1, NextIsLater
  <2>8. \A i, j \in 1..Len(e) : i < j => Earlier(e[i], e[j])
    <3> SUFFICES ASSUME NEW i \in 1..Len(e), NEW j \in 1..Len(e), i < j
                 PROVE  Earlier(e[i], e[j])
        OBVIOUS
    <3>1. i \in 1..Len(d)
          BY <2>5
    <3>2. CASE j = Len(d) + 1
          BY <2>5, <2>7, <3>1, <3>2
    <3>3. CASE j \in 1..Len(d)
          BY <2>3, <2>5, <3>1, <3>3 DEF Piece
    <3> QED BY <2>6, <3>2, <3>3
  <2>9. \A i \in 1..Len(e) : Got(p, e[i])'
    <3> SUFFICES ASSUME NEW i \in 1..Len(e)  PROVE Got(p, e[i])'
        OBVIOUS
    <3>1. CASE i = Len(d) + 1
          BY <2>1, <2>5, <3>1
    <3>2. CASE i \in 1..Len(d)
          BY <2>3, <2>5, <3>2 DEF Piece
    <3> QED BY <2>6, <3>1, <3>2
  <2>10. Piece(p, readData[p])'
        BY <2>1, <2>2, <2>4, <2>8, <2>9 DEF Piece
  <2>11. ASSUME NEW q \in Pipes, q # p  PROVE Piece(q, readData[q])'
    <3>1. PICK f \in Seq(ChunkSet) : f = readData[q]
          BY PlacesOfChunks
    <3>2. Piece(q, f)'
          BY <3>1, PieceStep DEF Origins
    <3> QED BY <2>1, <2>11, <3>1, <3>2 DEF Piece
  <2> QED BY <1>2, <2>1, <2>10, <2>11 DEF Origins
<1>5. CASE CollectRead
  <2>1. ASSUME NEW p \in Pipes  PROVE Piece(p, readData[p])'
    <3>1. readData'[p] = <<>>
          BY <1>5, CollectedData
    <3> QED BY <3>1 DEF Piece
  <2>2. ASSUME NEW m \in 1..Len(batch'), batch'[m].what = "read"
        PROVE  Piece(batch[m].pipe, batch[m].data)'
    <3>1. m \in 1..Len(pipesNeedingReadEvents) /\ pipesNeedingReadEvents[m] \in Pipes
          /\ batch'[m].pipe = pipesNeedingReadEvents[m]
          BY <1>5, <2>2, CollectedData DEF Types, Queued
    <3>2. PICK p \in Pipes : p = batch'[m].pipe
          BY <3>1
    <3>3. CASE batch'[m].data = <<>>
          BY <3>3 DEF Piece
    <3>4. CASE batch'[m].data = readData[p]
      <4>1. PICK d \in Seq(ChunkSet) : d = readData[p]
            BY PlacesOfChunks
      <4>2. Piece(p, d)'
            BY <4>1, PieceStep DEF Origins
      <4> QED BY <3>2, <3>4, <4>1, <4>2 DEF Piece, Got
    <3> QED BY <1>5, <2>2, <3>2, <3>3, <3>4, CollectedData
  <2> QED BY <2>1, <2>2 DEF Origins
<1>6. CASE Pops
  <2>1. readData' = readData
        BY <1>6 DEF Pops, Dispatched, FireNext
  <2>2. ASSUME NEW m \in 1..Len(batch'), batch'[m].what = "read"
        PROVE  Piece(batch[m].pipe, batch[m].data)'
    <3>1. m + 1 \in 1..Len(batch) /\ batch'[m] = batch[m + 1]
          BY <1>6, PopsFacts
    <3> QED BY <1>2, <2>2, <3>1
  <2> QED BY <1>1, <2>1, <2>2 DEF Origins
<1> QED BY <1>3, <1>4, <1>5, <1>6, Frame
        DEF EventStep, CollectOther, CollectClose, FireNext, Dispatched, Pops, Empties

\* Pipes are queued in the order of their launches.
LEMMA RowsStep ==
    ASSUME Types, Phases, Rows, [Next]_vars
    PROVE  Rows'
<1>0. launches \in Nat /\ launches' \in Nat /\ launches' >= launches
      BY LaunchesStep
<1> DEFINE q == pipesNeedingReadEvents
<1>1. Len(q) \in Nat /\ \A i \in 1..Len(q) : q[i] \in Pipes /\ q[i].launch \in Nat
  <2>1. q \in Seq(Pipes)
        BY DEF Types, Queued
  <2>2. Len(q) \in Nat /\ \A i \in 1..Len(q) : q[i] \in Pipes
        BY <2>1
  <2> QED BY <2>2, PipeFacts DEF PipeIsFine
<1>2. CASE UNCHANGED pipesNeedingReadEvents
      BY <1>0, <1>1, <1>2 DEF Rows
<1>3. ASSUME NEW s \in Stream, Read(s) \/ PassOn(s)
      PROVE  Rows'
  <2>1. PICK p \in Pipes :
           /\ p.launch <= launches /\ (Listener(p) = "onRead" => p.launch = launches)
           /\ q' = Append(q, p) /\ launches' = launches
        BY <1>3, Reading
  <2>2. /\ Len(q') = Len(q) + 1 /\ q'[Len(q) + 1] = p
        /\ \A k \in 1..Len(q) : q'[k] = q[k]
        BY <2>1, AppendOf DEF Types, Queued
  <2>3. \A k \in 1..Len(q') : k = Len(q) + 1 \/ k \in 1..Len(q)
        BY <1>1, <2>2
  <2>4. \A i \in 1..Len(q') : q'[i].launch <= launches'
        BY <2>1, <2>2, <2>3 DEF Rows
  <2>5. ASSUME NEW i \in 1..Len(q'), NEW j \in 1..Len(q'), i < j,
               Listener(q'[i]) = Listener(q'[j])
        PROVE  q'[i].launch <= q'[j].launch
    <3>1. i \in 1..Len(q) /\ q'[i] = q[i]
          BY <1>1, <2>2, <2>5
    <3>2. CASE j = Len(q) + 1
      <4>1. q'[j] = p
            BY <2>2, <3>2
      <4>2. CASE Listener(p) = "onRead"
            BY <2>1, <3>1, <4>1, <4>2 DEF Rows
      <4>3. CASE Listener(p) # "onRead"
            BY <2>5, <1>1, <3>1, <4>1, <4>3, ListenerFacts
      <4> QED BY <4>2, <4>3
    <3>3. CASE j \in 1..Len(q)
          BY <2>2, <2>5, <3>1, <3>3 DEF Rows
    <3> QED BY <2>3, <3>2, <3>3
  <2> HIDE DEF q
  <2> QED BY <2>4, <2>5 DEF Rows, q
<1>4. CASE CollectRead
      BY <1>4 DEF CollectRead, Rows
<1> QED BY <1>2, <1>3, <1>4, Frame

\* What is earlier than what a pipe has, and will fire, stays so.
LEMMA PrecedesStep ==
    ASSUME Types, Phases, Empties, Needs, [Next]_vars, NEW m \in Nat,
           NEW p \in Pipes, NEW c \in ChunkSet, c.stream = p.stream, GotBy(Listener(p), c),
           Precedes(c, p, m)
    PROVE  /\ ~Pops => Precedes(c, p, m)'
           /\ Pops => \A n \in Nat : n + 1 >= m => Precedes(c, p, n)'
<1>1. CASE UNCHANGED <<readData, batch>> /\ ~Pops
      BY <1>1 DEF Precedes
<1>2. ASSUME NEW s \in Stream, Read(s) \/ PassOn(s)
      PROVE  Precedes(c, p, m)' /\ ~Pops
  <2>1. PICK q \in Pipes, d \in ChunkSet :
           /\ q.stream = s /\ Listener(q) = IF Read(s) THEN "onRead" ELSE s
           /\ d = NextChunk(s) /\ readData'[q] = Append(readData[q], d)
           /\ \A r \in Pipes : r # q => readData'[r] = readData[r]
           /\ batch' = batch
        BY <1>2, Reading
  <2>2. \A j \in 1..Len(readData[p]) : Earlier(c, readData[p][j])
        BY DEF Precedes
  <2>3. \A j \in 1..Len(readData'[p]) : Earlier(c, readData'[p][j])
    <3>1. CASE p # q
          BY <2>1, <2>2, <3>1
    <3>2. CASE p = q
      <4>1. PICK e \in Seq(ChunkSet) : e = readData[p]
            BY PlacesOfChunks
      <4>2. /\ Len(e) \in Nat /\ Len(Append(e, d)) = Len(e) + 1 /\ Append(e, d)[Len(e) + 1] = d
            /\ \A k \in 1..Len(e) : Append(e, d)[k] = e[k]
            BY AppendOf
      <4>3. Earlier(c, d)
            BY <1>2, <2>1, <3>2, NextIsLater
      <4>4. readData'[p] = Append(e, d)
            BY <2>1, <3>2, <4>1
      <4>5. \A k \in 1..(Len(e) + 1) : k = Len(e) + 1 \/ k \in 1..Len(e)
            BY <4>2
      <4> HIDE DEF Earlier
      <4> QED BY <2>2, <4>1, <4>2, <4>3, <4>4, <4>5
    <3> QED BY <3>1, <3>2
  <2>4. ~Pops
    <3>1. reader' # reader
      <4>1. reader'[s] # reader[s]
            BY <1>2 DEF Read, PassOn, Types, Places
      <4> QED BY <4>1
    <3> QED BY <3>1 DEF Pops, Dispatched, FireNext
  <2> QED BY <2>1, <2>3, <2>4 DEF Precedes
<1>3. CASE CollectRead
  <2>1. \A j \in 1..Len(readData[p]) : Earlier(c, readData[p][j])
        BY DEF Precedes
  <2>2. readData'[p] = <<>>
        BY <1>3, CollectedData
  <2>3. ASSUME NEW n \in 1..Len(batch'), batch'[n].what = "read", batch'[n].pipe = p,
               NEW j \in 1..Len(batch'[n].data)
        PROVE  Earlier(c, batch'[n].data[j])
    <3>1. batch'[n].data = readData[p] \/ batch'[n].data = <<>>
          BY <1>3, <2>3, CollectedData
    <3> QED BY <2>1, <2>3, <3>1
  <2>4. ~Pops
        BY <1>3 DEF CollectRead, Pops, Dispatched, FireNext
  <2> QED BY <2>2, <2>3, <2>4 DEF Precedes
<1>4. ASSUME Pops, NEW n \in Nat, n + 1 >= m
      PROVE  Precedes(c, p, n)'
  <2>1. readData' = readData
        BY <1>4 DEF Pops, Dispatched, FireNext
  <2>2. ASSUME NEW k \in 1..Len(batch'), k > n, batch'[k].what = "read", batch'[k].pipe = p,
               NEW j \in 1..Len(batch'[k].data)
        PROVE  Earlier(c, batch'[k].data[j])
    <3>1. k + 1 \in 1..Len(batch) /\ batch'[k] = batch[k + 1]
          BY <1>4, PopsFacts
    <3>2. k + 1 > m
          BY <1>4, <2>2
    <3> QED BY <2>2, <3>1, <3>2 DEF Precedes
  <2> QED BY <2>1, <2>2 DEF Precedes
<1> QED BY <1>1, <1>2, <1>3, <1>4, Frame
        DEF EventStep, CollectOther, CollectClose, FireNext, Dispatched, Pops, Empties

\* The events stay in the order of their data.
LEMMA BatchOrderStep ==
    ASSUME Types, Phases, Empties, Needs, Origins, Rows, BatchOrder, [Next]_vars
    PROVE  BatchOrder'
<1>1. ASSUME NEW m \in 1..Len(batch), batch[m].what = "read",
             NEW p \in Pipes, Listener(p) = Listener(batch[m].pipe),
             p.stream = batch[m].pipe.stream, NEW i \in 1..Len(batch[m].data)
      PROVE  /\ batch[m].data[i] \in ChunkSet /\ batch[m].data[i].stream = p.stream
             /\ GotBy(Listener(p), batch[m].data[i])
             /\ Precedes(batch[m].data[i], p, m)
  <2>1. batch[m].data[i] \in ChunkSet
        BY <1>1, PlacesOfChunks
  <2>2. Got(batch[m].pipe, batch[m].data[i])
        BY <1>1 DEF Origins, Piece
  <2> QED BY <1>1, <2>1, <2>2 DEF BatchOrder, Got
<1>2. CASE batch' = batch /\ ~Pops
  <2> SUFFICES ASSUME NEW m \in 1..Len(batch), batch[m].what = "read",
                      NEW p \in Pipes, Listener(p) = Listener(batch[m].pipe),
                      p.stream = batch[m].pipe.stream, NEW i \in 1..Len(batch[m].data)
               PROVE  Precedes(batch[m].data[i], p, m)'
      BY <1>2 DEF BatchOrder
  <2>1. PICK c \in ChunkSet : c = batch[m].data[i]
        BY <1>1
  <2>2. m \in Nat
        OBVIOUS
  <2>3. Precedes(c, p, m)'
        BY <1>1, <1>2, <2>1, <2>2, PrecedesStep
  <2> QED BY <1>2, <2>1, <2>3
<1>3. CASE CollectRead
  <2> DEFINE q == pipesNeedingReadEvents
  <2> SUFFICES ASSUME NEW m \in 1..Len(batch'), batch'[m].what = "read",
                      NEW p \in Pipes, Listener(p) = Listener(batch'[m].pipe),
                      p.stream = batch'[m].pipe.stream, NEW i \in 1..Len(batch'[m].data)
               PROVE  Precedes(batch[m].data[i], p, m)'
      BY DEF BatchOrder
  <2>0. q \in Seq(Pipes)
        BY DEF Types, Queued
  <2>1. /\ m \in 1..Len(q) /\ q[m] \in Pipes /\ batch'[m].pipe = q[m]
        /\ batch'[m].data = readData[q[m]]
        BY <1>3, <2>0, CollectedData
  <2>2. readData'[p] = <<>>
        BY <1>3, CollectedData
  <2>3. ASSUME NEW n \in 1..Len(batch'), n > m, batch'[n].what = "read", batch'[n].pipe = p,
               NEW j \in 1..Len(batch'[n].data)
        PROVE  Earlier(batch'[m].data[i], batch'[n].data[j])
    <3>1. n \in 1..Len(q) /\ q[n] = p /\ QueuedFirst(n) /\ batch'[n].data = readData[p]
          BY <1>3, <2>3, CollectedData
    <3>2. m \in 1..(n - 1)
          BY <2>1, <2>3, <3>1
    <3>3. q[m] # p
          BY <3>1, <3>2 DEF QueuedFirst
    <3>4. q[m].launch <= p.launch
          BY <2>1, <2>3, <3>1 DEF Rows
    <3>5. Listener(p) = "onRead"
          BY <2>1, <3>3, ListenerFacts
    <3>6. /\ p.native = TRUE /\ p.launch \in Launch /\ p = Native(p.launch, p.stream)
          /\ q[m].native = TRUE /\ q[m].launch \in Launch
          /\ q[m] = Native(q[m].launch, p.stream)
          BY <2>1, <3>5, ListenerFacts
    <3>7. q[m].launch # p.launch
          BY <3>3, <3>6
    <3>8. Got(q[m], batch'[m].data[i]) /\ Got(p, batch'[n].data[j])
          BY <2>1, <2>3, <3>1 DEF Origins, Piece
    <3>9. batch'[m].data[i].launch = q[m].launch /\ batch'[n].data[j].launch = p.launch
          BY <3>6, <3>8 DEF Got
    <3>10. q[m].launch \in Nat /\ p.launch \in Nat
          BY <3>6, ProcessAssumption DEF Launch
    <3>11. q[m].launch < p.launch
          BY <3>4, <3>7, <3>10
    <3> QED BY <3>9, <3>11 DEF Earlier
  <2> QED BY <2>2, <2>3 DEF Precedes
<1>4. CASE Pops
  <2> SUFFICES ASSUME NEW m \in 1..Len(batch'), batch'[m].what = "read",
                      NEW p \in Pipes, Listener(p) = Listener(batch'[m].pipe),
                      p.stream = batch'[m].pipe.stream, NEW i \in 1..Len(batch'[m].data)
               PROVE  Precedes(batch[m].data[i], p, m)'
      BY DEF BatchOrder
  <2>1. m + 1 \in 1..Len(batch) /\ batch'[m] = batch[m + 1] /\ m \in Nat /\ m + 1 \in Nat
        BY <1>4, PopsFacts
  <2>2. PICK c \in ChunkSet : c = batch'[m].data[i]
        BY <1>1, <2>1
  <2>3. /\ c.stream = p.stream /\ GotBy(Listener(p), c) /\ Precedes(c, p, m + 1)
        BY <1>1, <2>1, <2>2
  <2>4. Precedes(c, p, m)'
        BY <1>4, <2>1, <2>3, PrecedesStep
  <2> QED BY <2>2, <2>4
<1> QED BY <1>2, <1>3, <1>4, Frame
        DEF EventStep, CollectOther, CollectClose, FireNext, Dispatched, Pops, Empties

\* What a call returned is added to what was heard.
AddsResult(h, d) ==
    SyncRead /\ h = "onRead" /\ launches \in Launch /\ d = returned[launches]

\* The data of the first event is.
AddsData(h, d) ==
    /\ Pops /\ batch[1].what = "read" /\ batch[1].pipe \in Pipes
    /\ h = Listener(batch[1].pipe) /\ d = batch[1].data

\* What is heard is added to what was heard.
LEMMA HearingStep ==
    ASSUME Types, Phases, Empties, [Next]_vars
    PROVE  \/ seen' = seen
           \/ \E h \in Stream \cup {"onRead"}, d \in Seq(ChunkSet) :
                /\ AddsResult(h, d) \/ AddsData(h, d)
                /\ UNCHANGED <<launches, mode, readData, outputVars>>
                /\ \A l \in Stream \cup {"onRead"} : l # h => seen'[l] = seen[l]
                /\ seen'[h] = seen[h] \o d
                /\ Len(seen'[h]) = Len(seen[h]) + Len(d)
                /\ \A i \in 1..Len(seen'[h]) :
                      \/ i \in 1..Len(seen[h]) /\ seen'[h][i] = seen[h][i]
                      \/ \E k \in 1..Len(d) : i = Len(seen[h]) + k /\ seen'[h][i] = d[k]
<1>1. ASSUME NEW h \in Stream \cup {"onRead"}, NEW d \in Seq(ChunkSet),
             seen' = [seen EXCEPT ![h] = @ \o d]
      PROVE  /\ \A l \in Stream \cup {"onRead"} : l # h => seen'[l] = seen[l]
             /\ seen'[h] = seen[h] \o d
             /\ Len(seen'[h]) = Len(seen[h]) + Len(d)
             /\ \A i \in 1..Len(seen'[h]) :
                   \/ i \in 1..Len(seen[h]) /\ seen'[h][i] = seen[h][i]
                   \/ \E k \in 1..Len(d) : i = Len(seen[h]) + k /\ seen'[h][i] = d[k]
  <2>1. seen'[h] = seen[h] \o d /\ \A l \in Stream \cup {"onRead"} : l # h => seen'[l] = seen[l]
        BY <1>1 DEF Types, Heard
  <2>2. PICK s \in Seq(ChunkSet) : s = seen[h]
        BY DEF Types, Heard
  <2>3. /\ Len(s \o d) = Len(s) + Len(d) /\ Len(s) \in Nat /\ Len(d) \in Nat
        /\ \A k \in 1..Len(s) : (s \o d)[k] = s[k]
        /\ \A k \in 1..Len(d) : (s \o d)[Len(s) + k] = d[k]
        BY ConcatOf
  <2>4. PICK t : t = s \o d
        OBVIOUS
  <2>5. ASSUME NEW i \in 1..Len(t)
        PROVE  \/ i \in 1..Len(s) /\ t[i] = s[i]
               \/ \E k \in 1..Len(d) : i = Len(s) + k /\ t[i] = d[k]
    <3>1. CASE i \in 1..Len(s)
          BY <2>3, <2>4, <3>1
    <3>2. CASE i \notin 1..Len(s)
      <4>1. PICK k \in 1..Len(d) : i = Len(s) + k
        <5>1. i - Len(s) \in 1..Len(d) /\ i = Len(s) + (i - Len(s))
              BY <2>3, <2>4, <3>2
        <5> QED BY <5>1
      <4> QED BY <2>3, <2>4, <4>1
    <3> QED BY <3>1, <3>2
  <2>6. Len(t) = Len(s) + Len(d)
        BY <2>3, <2>4
  <2>7. seen'[h] = t /\ seen[h] = s
        BY <2>1, <2>2, <2>4
  <2> QED BY <2>1, <2>5, <2>6, <2>7
<1>2. CASE SyncRead
  <2>1. launches \in Launch
        BY <1>2, ProcessAssumption DEF SyncRead, Types, Places, Phases, Begins, Launch
  <2>2. returned[launches] \in Seq(ChunkSet)
        BY <2>1 DEF Types, Heard
  <2>3. /\ seen' = [seen EXCEPT !["onRead"] = @ \o returned[launches]]
        /\ UNCHANGED <<launches, mode, readData, outputVars>>
        /\ AddsResult("onRead", returned[launches])
        BY <1>2, <2>1 DEF SyncRead, AddsResult
  <2>4. "onRead" \in Stream \cup {"onRead"}
        OBVIOUS
  <2> HIDE DEF outputVars
  <2> QED BY <1>1, <2>2, <2>3, <2>4
<1>3. CASE Dispatched /\ seen' # seen
  <2>1. Pops /\ Head(batch) = batch[1] /\ batch[1] \in EventSet
        BY <1>3, PopsFacts DEF Pops, Empties, Dispatched
  <2>2. batch[1].what = "read" /\ seen' = [seen EXCEPT ![Hears(batch[1])] = @ \o batch[1].data]
        BY <1>3, <2>1 DEF Dispatched
  <2>3. batch[1].pipe \in Pipes /\ batch[1].data \in Seq(ChunkSet)
        BY <2>1, <2>2, EventFacts
  <2>4. Hears(batch[1]) = Listener(batch[1].pipe)
        BY <2>3, PipeFacts DEF Hears, Listener, PipeIsFine
  <2>5. Listener(batch[1].pipe) \in Stream \cup {"onRead"}
        BY <2>3, ListenerFacts
  <2>6. /\ UNCHANGED <<launches, mode, readData, outputVars>>
        /\ AddsData(Listener(batch[1].pipe), batch[1].data)
        BY <1>3, <2>1, <2>2, <2>3 DEF Dispatched, AddsData
  <2> HIDE DEF outputVars
  <2> QED BY <1>1, <2>2, <2>3, <2>4, <2>5, <2>6
<1> QED BY <1>2, <1>3, Frame

\* What has been heard is earlier than what is to come.
LEMMA SeenOrderStep ==
    ASSUME Types, Phases, Empties, Needs, Origins, BatchOrder, SeenOrder, Calls, [Next]_vars
    PROVE  SeenOrder'
<1>1. ASSUME NEW p \in Pipes, NEW i \in 1..Len(seen[Listener(p)]),
             NEW c \in ChunkSet, c = seen[Listener(p)][i], Passed(Listener(p), c, p.stream)'
      PROVE  GotBy(Listener(p), c)' /\ Precedes(c, p, 0)' /\ c.stream = p.stream
  <2>1. Listener(p) \in Stream \cup {"onRead"}
        BY ListenerFacts
  <2>2. c.launch <= launches
        BY <1>1, <2>1 DEF Calls
  <2>3. Passed(Listener(p), c, p.stream)
        BY <1>1, <2>2, PassedStep
  <2>4. GotBy(Listener(p), c) /\ Precedes(c, p, 0) /\ c.stream = p.stream
        BY <1>1, <2>3 DEF SeenOrder, Passed
  <2>5. 0 \in Nat /\ 0 + 1 >= 0
        OBVIOUS
  <2>6. Precedes(c, p, 0)'
    <3>1. CASE Pops
          BY <2>4, <2>5, <3>1, PrecedesStep
    <3>2. CASE ~Pops
          BY <2>4, <2>5, <3>2, PrecedesStep
    <3> QED BY <3>1, <3>2
  <2> QED BY <2>4, <2>6, GotByStep
<1> SUFFICES ASSUME NEW p \in Pipes, NEW i \in 1..Len(seen'[Listener(p)]),
                    Passed(Listener(p), seen[Listener(p)][i], p.stream)'
             PROVE  /\ GotBy(Listener(p), seen[Listener(p)][i])'
                    /\ Precedes(seen[Listener(p)][i], p, 0)'
    BY DEF SeenOrder, Listener
<1>2. Listener(p) \in Stream \cup {"onRead"} /\ Listener(p) \in {p.stream, "onRead"}
      /\ p.stream \in Stream
      BY ListenerFacts
<1>3. ASSUME i \in 1..Len(seen[Listener(p)]),
             seen'[Listener(p)][i] = seen[Listener(p)][i]
      PROVE  /\ GotBy(Listener(p), seen[Listener(p)][i])'
             /\ Precedes(seen[Listener(p)][i], p, 0)'
  <2>1. PICK c \in ChunkSet : c = seen[Listener(p)][i]
        BY <1>2, <1>3, PlacesOfChunks
  <2>2. Passed(Listener(p), c, p.stream)'
        BY <1>3, <2>1 DEF Passed, Listener
  <2>3. GotBy(Listener(p), c)' /\ Precedes(c, p, 0)'
        BY <1>1, <1>3, <2>1, <2>2
  <2> QED BY <1>3, <2>1, <2>3 DEF Listener
<1>4. CASE seen' = seen
      BY <1>3, <1>4
<1>5. ASSUME NEW h \in Stream \cup {"onRead"}, NEW d \in Seq(ChunkSet),
             AddsResult(h, d) \/ AddsData(h, d),
             UNCHANGED <<launches, mode, readData, outputVars>>,
             Listener(p) = h, NEW k \in 1..Len(d), seen'[h][i] = d[k]
      PROVE  /\ GotBy(Listener(p), seen[Listener(p)][i])'
             /\ Precedes(seen[Listener(p)][i], p, 0)'
  <2>1. PICK c \in ChunkSet : c = d[k]
        OBVIOUS
  <2>2. seen'[Listener(p)][i] = c
        BY <1>5, <2>1
  <2>3. Passed(Listener(p), c, p.stream)'
        BY <2>2 DEF Passed, Listener
  <2>4. CASE AddsResult(h, d)
    <3>1. mode[c.launch] # "async"
          BY <2>1, <2>4 DEF AddsResult, Calls, Called
    <3>2. mode'[c.launch] # "async"
          BY <1>5, <3>1
    <3> QED BY <1>2, <1>5, <2>3, <2>4, <3>2, ProcessAssumption DEF AddsResult, Passed
  <2>5. CASE AddsData(h, d)
    <3>1. /\ Pops /\ batch[1].what = "read" /\ batch[1].pipe \in Pipes
          /\ h = Listener(batch[1].pipe) /\ d = batch[1].data
          BY <2>5 DEF AddsData
    <3>2. 1 \in 1..Len(batch) /\ 1 \in Nat
          BY <3>1, PopsFacts
    <3>3. Got(batch[1].pipe, c)
          BY <2>1, <3>1, <3>2 DEF Origins, Piece
    <3>4. c.stream = p.stream
          BY <2>3 DEF Passed
    <3>5. GotBy(Listener(p), c) /\ p.stream = batch[1].pipe.stream
          BY <1>5, <3>1, <3>3, <3>4 DEF Got
    <3>6. Precedes(c, p, 1)
          BY <1>5, <2>1, <3>1, <3>2, <3>5 DEF BatchOrder
    <3>7. 0 \in Nat /\ 0 + 1 >= 1
          OBVIOUS
    <3>8. Precedes(c, p, 0)'
          BY <3>1, <3>2, <3>4, <3>5, <3>6, <3>7, PrecedesStep
    <3>9. GotBy(Listener(p), c)'
          BY <3>5, GotByStep
    <3> QED BY <2>2, <3>8, <3>9 DEF Listener
  <2> QED BY <1>5, <2>4, <2>5
<1> HIDE DEF outputVars
<1> QED
  <2>1. CASE seen' # seen
    <3>1. PICK h \in Stream \cup {"onRead"}, d \in Seq(ChunkSet) :
            /\ AddsResult(h, d) \/ AddsData(h, d)
            /\ UNCHANGED <<launches, mode, readData, outputVars>>
            /\ \A l \in Stream \cup {"onRead"} : l # h => seen'[l] = seen[l]
            /\ \A j \in 1..Len(seen'[h]) :
                  \/ j \in 1..Len(seen[h]) /\ seen'[h][j] = seen[h][j]
                  \/ \E k \in 1..Len(d) : j = Len(seen[h]) + k /\ seen'[h][j] = d[k]
          BY <2>1, HearingStep
    <3>2. CASE Listener(p) # h
          BY <1>2, <1>3, <3>1, <3>2
    <3>3. CASE Listener(p) = h
          BY <1>3, <1>5, <3>1, <3>3
    <3> QED BY <3>2, <3>3
  <2> QED BY <1>4, <2>1

\* Results are of calls, and what has been heard is of launches there have been.
LEMMA CallsStep ==
    ASSUME Types, Phases, Empties, Origins, Calls, [Next]_vars
    PROVE  Calls'
<1>0. launches \in Nat /\ launches' \in Nat /\ launches' >= launches
      BY LaunchesStep
<1>1. ASSUME NEW c \in ChunkSet, Called(c)  PROVE Called(c)'
      BY <1>1, PassedStep DEF Called
<1>2. \A d \in Seq(ChunkSet) : \A i \in 1..Len(d) : d[i] \in ChunkSet
      OBVIOUS
<1>3. ASSUME NEW c \in ChunkSet, c.launch <= launches  PROVE c.launch <= launches'
  <2>1. c.launch \in Nat
        BY ProcessAssumption DEF ChunkSet, Launch
  <2> QED BY <1>0, <1>3, <2>1
<1>4. processOutput \in Seq(ChunkSet) /\ \A k \in Launch : returned[k] \in Seq(ChunkSet)
      BY DEF Types, Heard
<1>5. \A i \in 1..Len(processOutput') : Called(processOutput[i])'
  <2> SUFFICES ASSUME NEW i \in 1..Len(processOutput')
               PROVE  \E c \in ChunkSet : c = processOutput'[i] /\ Called(c)'
      BY DEF Called
  <2>1. ASSUME i \in 1..Len(processOutput), processOutput'[i] = processOutput[i]
        PROVE  \E c \in ChunkSet : c = processOutput'[i] /\ Called(c)'
        BY <1>1, <1>2, <1>4, <2>1 DEF Calls
  <2>2. ASSUME NEW s \in Stream, Read(s)
        PROVE  \E c \in ChunkSet : c = processOutput'[i] /\ Called(c)'
    <3>1. CASE processOutput' = processOutput
          BY <2>1, <3>1
    <3>2. CASE processOutput' # processOutput
      <4>1. processOutput' = Append(processOutput, NextChunk(s)) /\ mode[launches] = "sync"
            /\ launches' = launches /\ mode' = mode
            BY <2>2, <3>2 DEF Read
      <4>2. NextChunk(s) \in ChunkSet /\ launches \in Launch
            /\ written[launches][s] - os[s] + 1 \in 1..MaxChunk
            BY <2>2, NextChunkFacts DEF Read, Types
      <4>3. NextChunk(s).launch = launches
            BY <4>2, ChunkFacts DEF NextChunk
      <4>4. PICK c \in ChunkSet : c = NextChunk(s)
            BY <4>2
      <4>5. Called(c)'
            BY <1>0, <4>1, <4>3, <4>4 DEF Called
      <4>6. /\ Len(processOutput) \in Nat /\ Len(processOutput') = Len(processOutput) + 1
            /\ processOutput'[Len(processOutput) + 1] = c
            /\ \A k \in 1..Len(processOutput) : processOutput'[k] = processOutput[k]
            BY <1>4, <4>1, <4>4, AppendOf
      <4>7. i = Len(processOutput) + 1 \/ i \in 1..Len(processOutput)
            BY <4>6
      <4>8. CASE i = Len(processOutput) + 1
            BY <4>5, <4>6, <4>8
      <4>9. CASE i \in 1..Len(processOutput)
            BY <2>1, <4>6, <4>9
      <4> QED BY <4>7, <4>8, <4>9
    <3> QED BY <3>1, <3>2
  <2>3. CASE processOutput' = processOutput
        BY <2>1, <2>3
  <2> QED BY <2>2, <2>3, Frame
<1>6. \A k \in Launch : \A i \in 1..Len(returned'[k]) : Called(returned[k][i])'
  <2> SUFFICES ASSUME NEW k \in Launch, NEW i \in 1..Len(returned'[k])
               PROVE  \E c \in ChunkSet : c = returned'[k][i] /\ Called(c)'
      BY DEF Called
  <2>1. returned'[k] = returned[k] \/ returned'[k] = processOutput
        BY Frame DEF SyncWaited, Types, Heard
  <2> QED BY <1>1, <1>2, <1>4, <2>1 DEF Calls
<1>7. ASSUME NEW l \in Stream \cup {"onRead"}, NEW i \in 1..Len(seen'[l])
      PROVE  seen'[l][i].launch <= launches'
  <2>1. ASSUME i \in 1..Len(seen[l]), seen'[l][i] = seen[l][i]
        PROVE  seen'[l][i].launch <= launches'
    <3>1. seen[l][i] \in ChunkSet /\ seen[l][i].launch <= launches
          BY <2>1, PlacesOfChunks DEF Calls
    <3> QED BY <1>3, <2>1, <3>1
  <2>2. CASE seen' = seen
        BY <2>1, <2>2
  <2>3. CASE seen' # seen
    <3> HIDE DEF outputVars
    <3>1. PICK h \in Stream \cup {"onRead"}, d \in Seq(ChunkSet) :
            /\ AddsResult(h, d) \/ AddsData(h, d)
            /\ \A g \in Stream \cup {"onRead"} : g # h => seen'[g] = seen[g]
            /\ \A j \in 1..Len(seen'[h]) :
                  \/ j \in 1..Len(seen[h]) /\ seen'[h][j] = seen[h][j]
                  \/ \E k \in 1..Len(d) : j = Len(seen[h]) + k /\ seen'[h][j] = d[k]
          BY <2>3, HearingStep
    <3>2. CASE l # h
          BY <2>1, <3>1, <3>2
    <3>3. ASSUME NEW k \in 1..Len(d), seen'[l][i] = d[k]
          PROVE  seen'[l][i].launch <= launches'
      <4>1. d[k] \in ChunkSet
            BY <1>2
      <4>2. CASE AddsResult(h, d)
            BY <1>3, <3>3, <4>1, <4>2 DEF AddsResult, Calls, Called
      <4>3. CASE AddsData(h, d)
        <5>1. 1 \in 1..Len(batch)
              BY <4>3, PopsFacts DEF AddsData
        <5>2. Got(batch[1].pipe, d[k])
              BY <4>3, <5>1 DEF AddsData, Origins, Piece
        <5>3. d[k].launch <= launches
              BY <4>1, <5>2, GotByFacts DEF Got
        <5> QED BY <1>3, <3>3, <4>1, <5>3
      <4> QED BY <3>1, <4>2, <4>3
    <3> QED BY <2>1, <3>1, <3>2, <3>3
  <2> QED BY <2>2, <2>3
<1> QED BY <1>5, <1>6, <1>7 DEF Calls

\* What has been heard stays in order.
LEMMA DataInOrderStep ==
    ASSUME Types, Phases, Empties, Origins, SeenOrder, Calls, DataInOrder, [Next]_vars
    PROVE  DataInOrder'
<1> SUFFICES ASSUME NEW s \in Stream, NEW l \in {s, "onRead"},
                    NEW i \in 1..Len(seen'[l]), NEW j \in 1..Len(seen'[l]), i < j,
                    Passed(l, seen[l][i], s)', Passed(l, seen[l][j], s)'
             PROVE  Earlier(seen'[l][i], seen'[l][j])
    BY DEF DataInOrder, Earlier
<1>0. l \in Stream \cup {"onRead"} /\ i \in Nat /\ j \in Nat
      OBVIOUS
<1>1. ASSUME NEW n \in 1..Len(seen[l]), Passed(l, seen[l][n], s)', seen'[l][n] = seen[l][n]
      PROVE  seen[l][n] \in ChunkSet /\ Passed(l, seen[l][n], s)
  <2>1. PICK c \in ChunkSet : c = seen[l][n] /\ c.launch <= launches
        BY <1>0, PlacesOfChunks DEF Calls
  <2>2. Passed(l, c, s)'
        BY <1>1, <2>1 DEF Passed
  <2>3. Passed(l, c, s)
        BY <2>1, <2>2, PassedStep
  <2> QED BY <2>1, <2>3
<1>2. ASSUME i \in 1..Len(seen[l]), seen'[l][i] = seen[l][i],
             j \in 1..Len(seen[l]), seen'[l][j] = seen[l][j]
      PROVE  Earlier(seen'[l][i], seen'[l][j])
      BY <1>1, <1>2 DEF DataInOrder
<1>3. CASE seen' = seen \/ seen'[l] = seen[l]
      BY <1>2, <1>3
<1>4. ASSUME NEW d \in Seq(ChunkSet), AddsResult(l, d) \/ AddsData(l, d),
             UNCHANGED <<launches, mode, readData, outputVars>>,
             \A n \in 1..Len(seen'[l]) :
                \/ n \in 1..Len(seen[l]) /\ seen'[l][n] = seen[l][n]
                \/ \E k \in 1..Len(d) : n = Len(seen[l]) + k /\ seen'[l][n] = d[k]
      PROVE  Earlier(seen'[l][i], seen'[l][j])
  <2>0. Len(seen[l]) \in Nat /\ Len(d) \in Nat
        BY <1>0, PlacesOfChunks
  <2>1. CASE AddsResult(l, d)
    <3>1. ASSUME NEW n \in 1..Len(seen'[l]), Passed(l, seen[l][n], s)'
          PROVE  n \in 1..Len(seen[l]) /\ seen'[l][n] = seen[l][n]
      <4>1. ASSUME NEW k \in 1..Len(d), seen'[l][n] = d[k]  PROVE FALSE
        <5>1. mode[d[k].launch] # "async" /\ l = "onRead"
              BY <2>1 DEF AddsResult, Calls, Called
        <5>2. mode'[d[k].launch] # "async"
              BY <1>4, <5>1
        <5>3. l = s
              BY <3>1, <4>1, <5>2 DEF Passed
        <5> QED BY <5>1, <5>3, ProcessAssumption
      <4> QED BY <1>4, <4>1
    <3> QED BY <1>2, <3>1
  <2>2. CASE AddsData(l, d)
    <3>1. /\ Pops /\ batch[1].what = "read" /\ batch[1].pipe \in Pipes
          /\ l = Listener(batch[1].pipe) /\ d = batch[1].data
          BY <2>2 DEF AddsData
    <3>2. 1 \in 1..Len(batch) /\ 1 > 0
          BY <3>1, PopsFacts
    <3>3. ASSUME NEW k \in 1..Len(d), NEW n \in 1..Len(seen'[l]), Passed(l, seen[l][n], s)',
                 seen'[l][n] = d[k]
          PROVE  batch[1].pipe.stream = s
      <4>1. d[k].stream = s
            BY <3>3 DEF Passed
      <4>2. Got(batch[1].pipe, d[k])
            BY <3>1, <3>2 DEF Origins, Piece
      <4> QED BY <4>1, <4>2 DEF Got
    <3>4. CASE j \in 1..Len(seen[l])
      <4>1. i \in 1..Len(seen[l])
            BY <1>0, <2>0, <3>4
      <4>2. \A k \in 1..Len(d) : i # Len(seen[l]) + k /\ j # Len(seen[l]) + k
            BY <2>0, <3>4, <4>1
      <4> QED BY <1>2, <1>4, <3>4, <4>1, <4>2
    <3>5. ASSUME NEW b \in 1..Len(d), j = Len(seen[l]) + b, seen'[l][j] = d[b]
          PROVE  Earlier(seen'[l][i], seen'[l][j])
      <4>1. batch[1].pipe.stream = s
            BY <3>3, <3>5
      <4>2. CASE i \in 1..Len(seen[l]) /\ seen'[l][i] = seen[l][i]
        <5>1. Passed(l, seen[l][i], s)
              BY <1>1, <4>2
        <5>2. Precedes(seen[l][i], batch[1].pipe, 0)
              BY <3>1, <4>1, <4>2, <5>1 DEF SeenOrder
        <5>3. Earlier(seen[l][i], d[b])
              BY <3>1, <3>2, <5>2 DEF Precedes
        <5> QED BY <3>5, <4>2, <5>3
      <4>3. ASSUME NEW a \in 1..Len(d), i = Len(seen[l]) + a, seen'[l][i] = d[a]
            PROVE  Earlier(seen'[l][i], seen'[l][j])
        <5>1. a < b
              BY <2>0, <3>5, <4>3
        <5>2. Earlier(d[a], d[b])
              BY <3>1, <3>2, <5>1 DEF Origins, Piece
        <5> QED BY <3>5, <4>3, <5>2
      <4> QED BY <1>4, <4>2, <4>3
    <3> QED BY <1>4, <3>4, <3>5
  <2> QED BY <1>4, <2>1, <2>2
<1> HIDE DEF outputVars
<1> QED
  <2>1. CASE seen' # seen /\ seen'[l] # seen[l]
    <3>1. PICK h \in Stream \cup {"onRead"}, d \in Seq(ChunkSet) :
            /\ AddsResult(h, d) \/ AddsData(h, d)
            /\ UNCHANGED <<launches, mode, readData, outputVars>>
            /\ \A g \in Stream \cup {"onRead"} : g # h => seen'[g] = seen[g]
            /\ \A n \in 1..Len(seen'[h]) :
                  \/ n \in 1..Len(seen[h]) /\ seen'[h][n] = seen[h][n]
                  \/ \E k \in 1..Len(d) : n = Len(seen[h]) + k /\ seen'[h][n] = d[k]
          BY <2>1, HearingStep
    <3>2. l = h
          BY <1>0, <2>1, <3>1
    <3> QED BY <1>4, <3>1, <3>2
  <2> QED BY <1>3, <2>1

\* Nothing is there at first.
LEMMA InitOrdered == Init => Ordered
<1> SUFFICES ASSUME Init PROVE Ordered
      OBVIOUS
<1>1. \A p \in Pipes : readData[p] = <<>>
      BY DEF Init
<1>2. batch = <<>> /\ pipesNeedingReadEvents = <<>> /\ processOutput = <<>>
      /\ \A k \in Launch : returned[k] = <<>>
      BY DEF Init
<1>3. \A l \in Stream \cup {"onRead"} : seen[l] = <<>>
      BY DEF Init
<1>4. Len(<<>>) = 0
      OBVIOUS
<1>5. \A p \in Pipes : Listener(p) \in Stream \cup {"onRead"}
      BY ListenerFacts
<1>6. \A s \in Stream : \A l \in {s, "onRead"} : l \in Stream \cup {"onRead"}
      OBVIOUS
<1>7. Origins /\ Rows /\ BatchOrder
      BY <1>1, <1>2, <1>4 DEF Origins, Piece, Rows, BatchOrder
<1>8. SeenOrder /\ Calls /\ DataInOrder
      BY <1>2, <1>3, <1>4, <1>5, <1>6 DEF SeenOrder, Calls, DataInOrder
<1> QED BY <1>7, <1>8 DEF Ordered

\* Whoever listens gets the data of a stream in the order it was written and
\* once, over all launches and whatever the streams: from the process' own pipes
\* always, with onRead from launches that were not calls.
THEOREM OutputInOrder == Spec => []DataInOrder
<1>1. Init => IInv /\ Ordered
      BY InitIInv, InitOrdered
<1>2. IInv /\ Ordered /\ [Next]_vars => (IInv /\ Ordered)'
  <2> SUFFICES ASSUME IInv, Ordered, [Next]_vars PROVE (IInv /\ Ordered)'
      OBVIOUS
  <2>1. IInv'
        BY NextIInv
  <2>2. Ordered'
        BY OriginsStep, RowsStep, BatchOrderStep, SeenOrderStep, CallsStep, DataInOrderStep
        DEF IInv, Ordered
  <2> QED BY <2>1, <2>2
<1>3. IInv /\ Ordered => DataInOrder
      BY DEF Ordered
<1> QED BY <1>1, <1>2, <1>3, PTL DEF Spec
=============================================================================
