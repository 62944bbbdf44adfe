-------------------------------- MODULE ThreadsProofs ------------------------------
(***************************************************************************)
(* Theorems about Worker for any number of messages and starts, and about  *)
(* AsyncCopy in the composition of Threads, for any copies and files.      *)
(***************************************************************************)
EXTENDS Threads, SequenceTheorems, TLAPS

\* Taking the first of a sequence.
LEMMA TailOf ==
    ASSUME NEW S, NEW s \in Seq(S), s # <<>>
    PROVE  /\ Len(s) \in Nat /\ Len(s) >= 1 /\ Head(s) = s[1] /\ Head(s) \in S
           /\ Tail(s) \in Seq(S) /\ Len(Tail(s)) = Len(s) - 1
           /\ \A k \in 1..Len(Tail(s)) : Tail(s)[k] = s[k + 1]
  BY HeadTailProperties, EmptySeq

-----------------------------------------------------------------------------
(* Types.                                                                    *)

\* Initially ...
LEMMA TypeInit == Init => TypeOK
<1> SUFFICES ASSUME Init PROVE TypeOK
    OBVIOUS
<1>1. /\ running \in BOOLEAN /\ messageEvent \in BOOLEAN /\ terminateEvent \in BOOLEAN
      /\ onmessage \in BOOLEAN /\ setLate \in BOOLEAN /\ broken \in BOOLEAN
      BY Zenon DEF Init
<1>2. toWorker \in Seq(Nat) /\ toMain \in Seq(Nat) /\ handed \in Seq(Nat)
      BY EmptySeq DEF Init
<1> QED BY <1>1, <1>2 DEF Init, TypeOK, Thread

\* ... in every step of HandleInbox ...
LEMMA TypeHandle ==
    ASSUME TypeOK, NEW t \in Thread, Handle(t)
    PROVE  TypeOK'
<1> USE DEF mainVars, workerVars, events, down, TypeOK
<1>1. CASE HandleCheck(t)
      BY <1>1 DEF HandleCheck
<1>2. CASE HandlePop(t)
  <2>1. toMain' \in Seq(Nat) /\ hmsg' \in [Thread -> Nat] /\ broken' \in BOOLEAN
    <3>1. CASE toMain # <<>>
      <4>1. Head(toMain) \in Nat /\ Tail(toMain) \in Seq(Nat)
            BY <3>1, TailOf
      <4>2. hmsg' = [hmsg EXCEPT ![t] = Head(toMain)] /\ toMain' = Tail(toMain) /\ broken' = broken
            BY <1>2, <3>1, Zenon DEF HandlePop
      <4>3. broken' \in BOOLEAN
            BY <4>2
      <4> QED BY <4>1, <4>2, <4>3
    <3>2. CASE toMain = <<>>
          BY <1>2, <3>2 DEF HandlePop
    <3> QED BY <3>1, <3>2
  <2>2. hpc[t] = "pop" /\ hpc' = [hpc EXCEPT ![t] = "deliver"]
        /\ UNCHANGED <<mpc, onmessage, starts, setLate, wpc, op, running, messageEvent,
                       terminateEvent, toWorker, sent, taken, posted, handed>>
        BY <1>2 DEF HandlePop
  <2>3. hpc' \in [Thread -> {"none", "check", "pop", "deliver"}]
        /\ (hpc'["worker"] # "none" => hpc["worker"] # "none")
        BY <2>2
  <2> QED BY <2>1, <2>2, <2>3
<1>3. CASE HandleDeliver(t)
  <2>1. handed' \in Seq(Nat)
        BY <1>3, AppendProperties DEF HandleDeliver
  <2>2. hpc[t] = "deliver" /\ hpc' = [hpc EXCEPT ![t] = "check"]
        /\ UNCHANGED <<mpc, onmessage, starts, setLate, wpc, op, running, messageEvent,
                       terminateEvent, toWorker, sent, taken, toMain, posted, hmsg, broken>>
        BY <1>3 DEF HandleDeliver
  <2>3. hpc' \in [Thread -> {"none", "check", "pop", "deliver"}]
        /\ (hpc'["worker"] # "none" => hpc["worker"] # "none")
        BY <2>2
  <2> QED BY <2>1, <2>2, <2>3
<1> QED BY <1>1, <1>2, <1>3 DEF Handle

\* ... and in every other.
LEMMA TypeNext == TypeOK /\ [Next]_vars => TypeOK'
<1> SUFFICES ASSUME TypeOK, [Next]_vars PROVE TypeOK'
    OBVIOUS
<1> USE DEF mainVars, workerVars, events, down, handling, up
<1>1. CASE Start
      BY <1>1 DEF Start, MainFree, Alive, TypeOK
<1>2. CASE PostMessage
      BY <1>2, AppendProperties DEF PostMessage, TypeOK
<1>3. CASE SetOnMessage
      BY <1>3 DEF SetOnMessage, Alive, Thread, TypeOK
<1>4. CASE Terminate
      BY <1>4 DEF Terminate, TypeOK
<1>5. CASE Posted
      BY <1>5 DEF Posted, TypeOK
<1>6. CASE WakeAll
      BY <1>6 DEF WakeAll, TypeOK
<1>7. CASE Joined
      BY <1>7 DEF Joined, TypeOK
<1>8. CASE AnswerCall
      BY <1>8 DEF AnswerCall, TypeOK
<1>9. CASE Handle("main") \/ Handle("worker")
      BY <1>9, TypeHandle DEF Thread
<1>10. CASE ScriptEnds
      BY <1>10 DEF ScriptEnds, InScript, TypeOK
<1>11. CASE ScriptPosts
      BY <1>11, AppendProperties DEF ScriptPosts, InScript, Thread, TypeOK
<1>12. CASE ScriptCallsMain \/ ScriptSleeps
      BY <1>12 DEF ScriptCallsMain, ScriptSleeps, InScript, TypeOK
<1>13. CASE ScriptWakes
      BY <1>13 DEF ScriptWakes, TypeOK
<1>14. CASE StartWorker
      BY <1>14 DEF StartWorker, TypeOK
<1>15. CASE TestRunning \/ Drained
      BY <1>15 DEF TestRunning, Drained, TypeOK
<1>16. CASE TakeMessage
      BY <1>16, TailOf DEF TakeMessage, TypeOK
<1>17. CASE WaitReturns \/ StartWorkerReturns
      BY <1>17 DEF WaitReturns, StartWorkerReturns, TypeOK
<1>18. CASE UNCHANGED vars
      BY <1>18 DEF vars, TypeOK
<1> QED BY <1>1, <1>2, <1>3, <1>4, <1>5, <1>6, <1>7, <1>8, <1>9, <1>10, <1>11, <1>12,
           <1>13, <1>14, <1>15, <1>16, <1>17, <1>18 DEF Next, MainStep, LoopStep

\* The types hold for any number of messages and starts.
THEOREM TypeCorrect == Spec => []TypeOK
  BY TypeInit, TypeNext, PTL DEF Spec

-----------------------------------------------------------------------------
(* The messages to the worker.                                               *)

\* The worker's script gets the messages in the order they were posted, each once.
THEOREM MessagesInOrder == Spec => []MailboxInOrder
<1>1. Init => MailboxInOrder
      BY DEF Init, MailboxInOrder
<1>2. TypeOK /\ MailboxInOrder /\ [Next]_vars => MailboxInOrder'
  <2> SUFFICES ASSUME TypeOK, MailboxInOrder, [Next]_vars PROVE MailboxInOrder'
      OBVIOUS
  <2>1. CASE PostMessage
    <3>1. /\ toWorker' = Append(toWorker, sent + 1) /\ sent' = sent + 1 /\ taken' = taken
          /\ toWorker \in Seq(Nat) /\ sent \in Nat /\ taken \in Nat
          BY <2>1 DEF PostMessage, TypeOK
    <3>2. /\ Len(toWorker') = Len(toWorker) + 1 /\ Len(toWorker) \in Nat
          /\ \A k \in 1..Len(toWorker) : toWorker'[k] = toWorker[k]
          /\ toWorker'[Len(toWorker) + 1] = sent + 1
          BY <3>1, AppendProperties
    <3>3. sent = taken + Len(toWorker)
          BY DEF MailboxInOrder
    <3>4. \A k \in 1..Len(toWorker') : k \in 1..Len(toWorker) \/ k = Len(toWorker) + 1
          BY <3>2
    <3> QED BY <3>1, <3>2, <3>3, <3>4 DEF MailboxInOrder
  <2>2. CASE TakeMessage
    <3>1. /\ toWorker # <<>> /\ toWorker' = Tail(toWorker) /\ taken' = Head(toWorker) /\ sent' = sent
          /\ toWorker \in Seq(Nat) /\ sent \in Nat /\ taken \in Nat
          BY <2>2 DEF TakeMessage, TypeOK
    <3>2. /\ Len(toWorker) \in Nat /\ Len(toWorker) >= 1 /\ Len(toWorker') = Len(toWorker) - 1
          /\ taken' = toWorker[1]
          /\ \A k \in 1..Len(toWorker') : toWorker'[k] = toWorker[k + 1]
          BY <3>1, TailOf
    <3>3. taken' = taken + 1
          BY <3>2 DEF MailboxInOrder
    <3>4. \A k \in 1..Len(toWorker') : k + 1 \in 1..Len(toWorker)
          BY <3>2
    <3>5. \A k \in 1..Len(toWorker') : toWorker'[k] = taken + (k + 1)
          BY <3>2, <3>4 DEF MailboxInOrder
    <3>6. taken' + Len(toWorker') = sent'
          BY <3>1, <3>2, <3>3 DEF MailboxInOrder
    <3>7. \A k \in 1..Len(toWorker') : toWorker'[k] = taken' + k
          BY <3>1, <3>2, <3>3, <3>5
    <3> QED BY <3>6, <3>7 DEF MailboxInOrder
  <2>3. CASE ~PostMessage /\ ~TakeMessage
    <3>1. UNCHANGED <<toWorker, sent, taken>>
          BY <2>3 DEF Next, MainStep, LoopStep, Handle, HandleCheck, HandlePop, HandleDeliver,
             Start, Posted, SetOnMessage, Terminate, WakeAll, Joined, AnswerCall, StartWorker,
             ScriptEnds, ScriptPosts, ScriptCallsMain, ScriptSleeps, ScriptWakes, TestRunning,
             Drained, WaitReturns, StartWorkerReturns, down, vars
    <3> QED BY <3>1 DEF MailboxInOrder
  <2> QED BY <2>1, <2>2, <2>3
<1> QED BY <1>1, <1>2, TypeCorrect, PTL DEF Spec

-----------------------------------------------------------------------------
(***************************************************************************)
(* Waking the worker.  NoWakeupLost is about a worker that waits; a worker *)
(* on its way there, which has seen `running` set before terminate()       *)
(* cleared it, must find the event set as well.                            *)
(***************************************************************************)
Told ==
    /\ wpc = "wait" /\ toWorker # <<>> => messageEvent \/ mpc = "posting"
    /\ wpc \in {"drain", "callback", "wait"} /\ mpc = "join" /\ ~running => messageEvent

\* A worker that waits is not told of neither its messages nor its termination.
THEOREM NothingSleptThrough == Spec => []NoWakeupLost
<1>1. Init => Told
      BY DEF Init, Told
<1>2. TypeOK /\ Told /\ [Next]_vars => Told'
  <2> SUFFICES ASSUME TypeOK, Told, [Next]_vars PROVE Told'
      OBVIOUS
  <2> USE DEF mainVars, workerVars, events, down, handling, up
  <2>1. CASE Start \/ Terminate
        BY <2>1 DEF Start, Terminate, MainFree, Told
  <2>2. CASE PostMessage
        BY <2>2 DEF PostMessage, MainFree, Told
  <2>3. CASE Posted \/ WakeAll
        BY <2>3 DEF Posted, WakeAll, Told
  <2>4. CASE Joined \/ StartWorker \/ StartWorkerReturns
        BY <2>4 DEF Joined, StartWorker, StartWorkerReturns, Told
  <2>5. CASE ScriptEnds
        BY <2>5 DEF ScriptEnds, InScript, Told
  <2>6. CASE TestRunning
        BY <2>6 DEF TestRunning, Told
  <2>7. CASE TakeMessage
        BY <2>7 DEF TakeMessage, Told
  <2>8. CASE Drained
        BY <2>8 DEF Drained, Told
  <2>9. CASE WaitReturns
        BY <2>9 DEF WaitReturns, Told
  <2>10. CASE \/ SetOnMessage \/ AnswerCall \/ ScriptPosts \/ ScriptCallsMain \/ ScriptSleeps
              \/ ScriptWakes \/ Handle("main") \/ Handle("worker") \/ UNCHANGED vars
    <3>1. UNCHANGED <<wpc, mpc, toWorker, running, messageEvent>>
          BY <2>10 DEF SetOnMessage, AnswerCall, ScriptPosts, ScriptCallsMain, ScriptSleeps,
             ScriptWakes, Handle, HandleCheck, HandlePop, HandleDeliver, vars
    <3> QED BY <3>1 DEF Told
  <2> QED BY <2>1, <2>2, <2>3, <2>4, <2>5, <2>6, <2>7, <2>8, <2>9, <2>10
          DEF Next, MainStep, LoopStep
<1>3. Told => NoWakeupLost
      BY DEF Told, NoWakeupLost
<1> QED BY <1>1, <1>2, <1>3, TypeCorrect, PTL DEF Spec

-----------------------------------------------------------------------------
(* The messages of the worker.                                               *)

\* With onmessage set, a message in the queue always has a thread that handles it.
THEOREM OutboxIsHandled == Spec => []NothingLeftBehind
<1>1. Init => NothingLeftBehind
      BY DEF Init, NothingLeftBehind
<1>2. TypeOK /\ NothingLeftBehind /\ [Next]_vars => NothingLeftBehind'
  <2> SUFFICES ASSUME TypeOK, NothingLeftBehind, [Next]_vars PROVE NothingLeftBehind'
      OBVIOUS
  <2> USE DEF mainVars, workerVars, events, down, handling, up
  <2>1. ASSUME NEW t \in Thread, Handle(t) PROVE NothingLeftBehind'
    <3>1. CASE HandleCheck(t)
      <4>1. hpc' = [hpc EXCEPT ![t] = IF onmessage /\ toMain # <<>> THEN "pop" ELSE "none"]
            /\ UNCHANGED <<onmessage, toMain, broken>>
            BY <3>1 DEF HandleCheck
      <4>2. CASE onmessage /\ toMain # <<>>
        <5>1. hpc'[t] = "pop"
              BY <4>1, <4>2 DEF TypeOK
        <5> QED BY <5>1 DEF NothingLeftBehind
      <4>3. CASE ~(onmessage /\ toMain # <<>>)
            BY <4>1, <4>3 DEF NothingLeftBehind
      <4> QED BY <4>2, <4>3
    <3>2. CASE HandlePop(t)
      <4>1. hpc'[t] = "deliver"
            BY <3>2 DEF HandlePop, TypeOK
      <4> QED BY <4>1 DEF NothingLeftBehind
    <3>3. CASE HandleDeliver(t)
      <4>1. hpc'[t] = "check"
            BY <3>3 DEF HandleDeliver, TypeOK
      <4> QED BY <4>1 DEF NothingLeftBehind
    <3> QED BY <2>1, <3>1, <3>2, <3>3 DEF Handle
  <2>2. CASE SetOnMessage
    <3>1. hpc'["main"] = "check" /\ "main" \in Thread
          BY <2>2 DEF SetOnMessage, TypeOK, Thread
    <3> QED BY <3>1 DEF NothingLeftBehind
  <2>3. CASE ScriptPosts
    <3>1. hpc'["worker"] = "check" /\ "worker" \in Thread
          BY <2>3 DEF ScriptPosts, TypeOK, Thread
    <3> QED BY <3>1 DEF NothingLeftBehind
  <2>4. CASE \/ Start \/ PostMessage \/ Terminate \/ Posted \/ WakeAll \/ Joined \/ AnswerCall
             \/ ScriptEnds \/ ScriptCallsMain \/ ScriptSleeps \/ StartWorker \/ ScriptWakes
             \/ TestRunning \/ TakeMessage \/ Drained \/ WaitReturns \/ StartWorkerReturns
             \/ UNCHANGED vars
    <3>1. UNCHANGED <<onmessage, hpc, toMain, broken>>
          BY <2>4 DEF Start, PostMessage, Terminate, Posted, WakeAll, Joined, AnswerCall,
             ScriptEnds, ScriptCallsMain, ScriptSleeps, StartWorker, ScriptWakes, TestRunning,
             TakeMessage, Drained, WaitReturns, StartWorkerReturns, vars
    <3> QED BY <3>1 DEF NothingLeftBehind
  <2>5. "main" \in Thread /\ "worker" \in Thread
        BY DEF Thread
  <2> QED BY <2>1, <2>2, <2>3, <2>4, <2>5 DEF Next, MainStep, LoopStep
<1> QED BY <1>1, <1>2, TypeCorrect, PTL DEF Spec

(***************************************************************************)
(* The order of the worker's messages.  While onmessage is not assigned    *)
(* late, only one thread handles the queue (Alone), and what was handed    *)
(* over, what is being delivered and what is queued follow each other.     *)
(***************************************************************************)
Rising(s) == \A k, m \in 1..Len(s) : k < m => s[k] < s[m]
Below(s, n) == \A k \in 1..Len(s) : s[k] < n
Above(s, n) == \A k \in 1..Len(s) : n < s[k]

Alone ==
    /\ ~broken
    /\ hpc["main"] # "none" => wpc = "dead"
    /\ \A t \in Thread : hpc[t] = "pop" => toMain # <<>>

Follow ==
    /\ Rising(handed) /\ Rising(toMain)
    /\ Below(handed, posted + 1) /\ Below(toMain, posted + 1)
    /\ \A k \in 1..Len(toMain) : Below(handed, toMain[k])
    /\ \A t \in Thread : hpc[t] = "deliver" =>
          Below(handed, hmsg[t]) /\ Above(toMain, hmsg[t]) /\ hmsg[t] < posted + 1

InOrder == ~setLate => Alone /\ Follow

\* Only one thread is in HandleInbox.
LEMMA OneHandler ==
    ASSUME TypeOK, Alone, NEW t \in Thread, hpc[t] # "none"
    PROVE  \A u \in Thread : u # t => hpc[u] = "none"
  BY DEF TypeOK, Alone, Thread

\* The head of a rising sequence is below the rest, which rises.
LEMMA RisingTail ==
    ASSUME NEW s \in Seq(Nat), s # <<>>, Rising(s)
    PROVE  Rising(Tail(s)) /\ Above(Tail(s), Head(s))
           /\ \A n \in Nat : Below(s, n) => Below(Tail(s), n) /\ Head(s) < n
<1>1. /\ Len(s) \in Nat /\ Len(s) >= 1 /\ Head(s) = s[1] /\ Len(Tail(s)) = Len(s) - 1
      /\ \A k \in 1..Len(Tail(s)) : Tail(s)[k] = s[k + 1]
      BY TailOf
<1>2. \A k \in 1..Len(Tail(s)) : k + 1 \in 1..Len(s) /\ 1 < k + 1
      BY <1>1
<1>3. 1 \in 1..Len(s)
      BY <1>1
<1>4. Rising(Tail(s))
  <2> SUFFICES ASSUME NEW k \in 1..Len(Tail(s)), NEW m \in 1..Len(Tail(s)), k < m
               PROVE  Tail(s)[k] < Tail(s)[m]
      BY DEF Rising
  <2>1. k + 1 < m + 1
        OBVIOUS
  <2>2. s[k + 1] < s[m + 1]
        BY <1>2, <2>1 DEF Rising
  <2> QED BY <1>1, <2>2
<1>5. Above(Tail(s), Head(s))
      BY <1>1, <1>2, <1>3 DEF Rising, Above
<1> QED BY <1>1, <1>2, <1>3, <1>4, <1>5 DEF Below

\* Appending a greater number keeps a sequence rising.
LEMMA RisingAppend ==
    ASSUME NEW s \in Seq(Nat), NEW n \in Nat, Rising(s), Below(s, n)
    PROVE  /\ Rising(Append(s, n))
           /\ \A b \in Nat : Below(s, b) /\ n < b => Below(Append(s, n), b)
           /\ \A b \in Nat : Above(s, b) /\ b < n => Above(Append(s, n), b)
<1>1. /\ Len(s) \in Nat /\ Len(Append(s, n)) = Len(s) + 1
      /\ \A k \in 1..Len(s) : Append(s, n)[k] = s[k]
      /\ Append(s, n)[Len(s) + 1] = n
      BY AppendProperties
<1>2. \A k \in 1..Len(Append(s, n)) : k \in 1..Len(s) \/ k = Len(s) + 1
      BY <1>1
<1>3. Rising(Append(s, n))
  <2> SUFFICES ASSUME NEW k \in 1..Len(Append(s, n)), NEW m \in 1..Len(Append(s, n)), k < m
               PROVE  Append(s, n)[k] < Append(s, n)[m]
      BY DEF Rising
  <2>1. k \in 1..Len(s)
        BY <1>1
  <2>2. CASE m \in 1..Len(s)
        BY <1>1, <2>1, <2>2 DEF Rising
  <2>3. CASE m = Len(s) + 1
        BY <1>1, <2>1, <2>3 DEF Below
  <2> QED BY <1>2, <2>2, <2>3
<1> QED BY <1>1, <1>2, <1>3 DEF Below, Above

\* A step of the thread that handles the queue keeps the order.
LEMMA HandleInOrder ==
    ASSUME TypeOK, TypeOK', InOrder, ~setLate', NEW t \in Thread, Handle(t)
    PROVE  Alone' /\ Follow'
<1>1. Alone /\ Follow /\ hpc[t] # "none" /\ wpc' = wpc /\ posted' = posted /\ onmessage' = onmessage
      BY DEF InOrder, Handle, HandleCheck, HandlePop, HandleDeliver, mainVars, workerVars
<1>2. \A u \in Thread : u # t => hpc[u] = "none" /\ hpc'[u] = "none"
      BY <1>1, OneHandler DEF Handle, HandleCheck, HandlePop, HandleDeliver, TypeOK
<1>3. hpc'["main"] # "none" => wpc' = "dead"
  <2>1. "main" \in Thread
        BY DEF Thread
  <2>2. hpc'["main"] # "none" => hpc["main"] # "none"
        BY <1>1, <1>2, <2>1
  <2> QED BY <1>1, <2>2 DEF Alone
<1>4. CASE HandleCheck(t)
  <2>1. /\ hpc'[t] = IF onmessage /\ toMain # <<>> THEN "pop" ELSE "none"
        /\ UNCHANGED <<toMain, posted, handed, hmsg, broken>>
        BY <1>4 DEF HandleCheck, TypeOK
  <2>2. Alone'
        BY <1>1, <1>2, <1>3, <2>1 DEF Alone
  <2>3. \A u \in Thread : hpc'[u] # "deliver"
        BY <1>2, <2>1
  <2> QED BY <1>1, <2>1, <2>2, <2>3 DEF Follow, Rising, Below
<1>5. CASE HandlePop(t)
  <2>1. toMain # <<>> /\ toMain \in Seq(Nat) /\ posted + 1 \in Nat
        BY <1>1, <1>5 DEF Alone, HandlePop, TypeOK
  <2>2. /\ hpc'[t] = "deliver" /\ hmsg'[t] = Head(toMain) /\ toMain' = Tail(toMain)
        /\ UNCHANGED <<posted, handed, broken>>
        BY <1>5, <2>1 DEF HandlePop, TypeOK
  <2>3. Alone'
        BY <1>1, <1>2, <1>3, <2>2 DEF Alone
  <2>4. /\ Rising(toMain') /\ Above(toMain', hmsg'[t])
        /\ Below(toMain', posted' + 1) /\ hmsg'[t] < posted' + 1
        BY <1>1, <2>1, <2>2, RisingTail DEF Follow
  <2>5. /\ Len(toMain) \in Nat /\ Len(toMain) >= 1 /\ Head(toMain) = toMain[1]
        /\ Len(Tail(toMain)) = Len(toMain) - 1
        /\ \A k \in 1..Len(Tail(toMain)) : Tail(toMain)[k] = toMain[k + 1]
        BY <2>1, TailOf
  <2>6. \A k \in 1..Len(toMain') : k + 1 \in 1..Len(toMain)
        BY <2>2, <2>5
  <2>7. 1 \in 1..Len(toMain)
        BY <2>5
  <2>8. Below(handed', hmsg'[t]) /\ \A k \in 1..Len(toMain') : Below(handed', toMain'[k])
        BY <1>1, <2>2, <2>5, <2>6, <2>7 DEF Follow, Below
  <2>9. Rising(handed') /\ Below(handed', posted' + 1)
        BY <1>1, <2>2 DEF Follow, Rising, Below
  <2> QED BY <1>2, <2>3, <2>4, <2>8, <2>9 DEF Follow
<1>6. CASE HandleDeliver(t)
  <2>1. /\ hpc[t] = "deliver" /\ hpc'[t] = "check" /\ UNCHANGED <<toMain, posted, broken>>
        /\ handed' = handed \/ handed' = Append(handed, hmsg[t])
        /\ handed \in Seq(Nat) /\ toMain \in Seq(Nat) /\ hmsg[t] \in Nat /\ posted + 1 \in Nat
        BY <1>6 DEF HandleDeliver, TypeOK
  <2>2. Alone'
        BY <1>1, <1>2, <1>3, <2>1 DEF Alone
  <2>3. \A u \in Thread : hpc'[u] # "deliver"
        BY <1>2, <2>1
  <2>4. Below(handed, hmsg[t]) /\ Above(toMain, hmsg[t]) /\ hmsg[t] < posted + 1 /\ Rising(handed)
        /\ Below(handed, posted + 1) /\ \A k \in 1..Len(toMain) : Below(handed, toMain[k])
        BY <1>1, <2>1 DEF Follow
  <2>5. \A k \in 1..Len(toMain) : toMain[k] \in Nat /\ hmsg[t] < toMain[k]
    <3>1. toMain \in Seq(Nat) /\ Above(toMain, hmsg[t])
          BY <2>1, <2>4
    <3> QED BY <3>1, ElementOfSeq DEF Above
  <2>6. /\ Rising(handed') /\ Below(handed', posted + 1)
        /\ \A k \in 1..Len(toMain) : Below(handed', toMain[k])
    <3>1. CASE handed' = handed
          BY <2>4, <3>1
    <3>2. CASE handed' = Append(handed, hmsg[t])
          BY <2>1, <2>4, <2>5, <3>2, RisingAppend
    <3> QED BY <2>1, <3>1, <3>2
  <2> QED BY <1>1, <2>1, <2>2, <2>3, <2>6 DEF Follow, Rising, Below
<1> QED BY <1>4, <1>5, <1>6 DEF Handle

\* A message posted by the script is the last in the queue.
LEMMA PostInOrder ==
    ASSUME TypeOK, TypeOK', InOrder, ~setLate', ScriptPosts
    PROVE  Alone' /\ Follow'
<1>1. /\ Alone /\ Follow /\ wpc # "dead" /\ wpc' = wpc /\ hpc["worker"] = "none"
      /\ hpc' = [hpc EXCEPT !["worker"] = "check"]
      /\ posted' = posted + 1 /\ toMain' = Append(toMain, posted + 1)
      /\ handed' = handed /\ hmsg' = hmsg /\ broken' = broken
      BY DEF ScriptPosts, InScript, InOrder, mainVars, workerVars
<1>2. toMain \in Seq(Nat) /\ handed \in Seq(Nat) /\ posted \in Nat
      BY DEF TypeOK
<1>3. hpc["main"] = "none"
      BY <1>1 DEF Alone
<1>4. \A t \in Thread : hpc'[t] \in {"none", "check"}
      BY <1>1, <1>3 DEF TypeOK, Thread
<1>5. hpc'["main"] = "none"
      BY <1>1, <1>3 DEF TypeOK, Thread
<1>6. Alone'
      BY <1>1, <1>4, <1>5 DEF Alone
<1>7. Rising(toMain') /\ Below(toMain', posted' + 1)
  <2>1. Below(toMain, posted + 1) /\ Rising(toMain)
        BY <1>1 DEF Follow
  <2>2. Below(toMain, posted + 2)
        BY <1>2, <2>1 DEF Below
  <2>3. posted' + 1 = posted + 2 /\ posted + 1 \in Nat /\ posted + 2 \in Nat /\ posted + 1 < posted + 2
        BY <1>1, <1>2
  <2> QED BY <1>1, <1>2, <2>1, <2>2, <2>3, RisingAppend
<1>8. Rising(handed') /\ Below(handed', posted' + 1)
      BY <1>1, <1>2 DEF Follow, Rising, Below
<1>9. \A k \in 1..Len(toMain') : Below(handed', toMain'[k])
  <2>1. /\ Len(toMain) \in Nat /\ Len(toMain') = Len(toMain) + 1
        /\ \A k \in 1..Len(toMain) : toMain'[k] = toMain[k]
        /\ toMain'[Len(toMain) + 1] = posted + 1
        BY <1>1, <1>2, AppendProperties
  <2>2. \A k \in 1..Len(toMain') : k \in 1..Len(toMain) \/ k = Len(toMain) + 1
        BY <2>1
  <2> QED BY <1>1, <2>1, <2>2 DEF Follow
<1> QED BY <1>4, <1>6, <1>7, <1>8, <1>9 DEF Follow

\* While onmessage is not assigned during the life of a worker, it gets each
\* message at most once and in order, and the queue is not popped when empty.
THEOREM OutboxRises == Spec => []OutboxInOrder
<1>1. Init => InOrder
      BY DEF Init, InOrder, Alone, Follow, Rising, Below, Thread
<1>2. TypeOK /\ InOrder /\ [Next]_vars => InOrder'
  <2> SUFFICES ASSUME TypeOK, InOrder, [Next]_vars, ~setLate' PROVE Alone' /\ Follow'
      BY DEF InOrder
  <2> USE DEF mainVars, workerVars, events, down, handling, up
  <2>0. TypeOK'
        BY TypeNext
  <2>1. CASE Handle("main") \/ Handle("worker")
        BY <2>0, <2>1, HandleInOrder DEF Thread
  <2>2. CASE ScriptPosts
        BY <2>0, <2>2, PostInOrder
  <2>3. CASE SetOnMessage
    <3>1. /\ ~setLate /\ wpc = "dead" /\ wpc' = wpc /\ hpc' = [hpc EXCEPT !["main"] = "check"]
          /\ UNCHANGED <<toMain, posted, handed, hmsg, broken>>
          BY <2>3 DEF SetOnMessage, Alive
    <3>2. \A t \in Thread : hpc'[t] \notin {"pop", "deliver"} \/ hpc'[t] = hpc[t]
          BY <3>1 DEF TypeOK
    <3> QED BY <3>1, <3>2 DEF InOrder, Alone, Follow
  <2>4. CASE Start
    <3>1. hpc["main"] = "none" /\ UNCHANGED <<setLate, toMain, posted, handed, hmsg, hpc, broken>>
          BY <2>4 DEF Start, MainFree
    <3> QED BY <3>1 DEF InOrder, Alone, Follow
  <2>5. CASE \/ PostMessage \/ Terminate \/ Posted \/ WakeAll \/ Joined \/ AnswerCall
             \/ ScriptEnds \/ ScriptCallsMain \/ ScriptSleeps \/ StartWorker \/ ScriptWakes
             \/ TestRunning \/ TakeMessage \/ Drained \/ WaitReturns \/ StartWorkerReturns
             \/ UNCHANGED vars
    <3>1. UNCHANGED <<setLate, toMain, posted, handed, hmsg, hpc, broken>>
          BY <2>5 DEF PostMessage, Terminate, Posted, WakeAll, Joined, AnswerCall,
             ScriptEnds, ScriptCallsMain, ScriptSleeps, StartWorker, ScriptWakes, TestRunning,
             TakeMessage, Drained, WaitReturns, StartWorkerReturns, vars
    <3>2. wpc = "dead" => wpc' = "dead"
          BY <2>5 DEF PostMessage, Terminate, Posted, WakeAll, Joined, AnswerCall,
             ScriptEnds, ScriptCallsMain, ScriptSleeps, StartWorker, ScriptWakes, TestRunning,
             TakeMessage, Drained, WaitReturns, StartWorkerReturns, InScript, TypeOK, vars
    <3> QED BY <3>1, <3>2 DEF InOrder, Alone, Follow
  <2> QED BY <2>1, <2>2, <2>3, <2>4, <2>5 DEF Next, MainStep, LoopStep
<1>3. InOrder => OutboxInOrder
      BY DEF InOrder, Alone, Follow, Rising, OutboxInOrder
<1> QED BY <1>1, <1>2, <1>3, TypeCorrect, PTL DEF Spec

\* Messages come in the order they were posted, in both directions.
THEOREM QueuesKeepOrder == Spec => []QueuesInOrder
BY MessagesInOrder, OutboxRises, PTL DEF QueuesInOrder

\* Nobody sleeps on a message, and none is left that nobody will handle.
THEOREM NothingGetsLost == Spec => []NothingIsLost
BY NothingSleptThrough, OutboxIsHandled, PTL DEF NothingIsLost

-----------------------------------------------------------------------------
(***************************************************************************)
(* Copies.  The inductive invariant: a copy that the list does not hold,   *)
(* or that was taken for one that no longer runs, is expendable: its       *)
(* thread makes no use of the object any more but for its last statement,  *)
(* or cancel() said that it no longer runs.                                *)
(***************************************************************************)
Expendable(c) == thread[c] \in {"flag", "over"} \/ cancelAt[c] # {}

Listed == {asyncOperations[k] : k \in DOMAIN asyncOperations}

Begun == \A c \in Listed \cup held : thread[c] # "none"
Ran == \A c \in Copy : thread[c] # "none" /\ ~copyRuns[c] => Expendable(c)
Unlisted == \A c \in Copy : thread[c] # "none" => c \in Listed \/ Expendable(c)
Freed == \A c \in freed : Expendable(c)

\* A stopped copy gets through with the file it is at.
Cancelled ==
    \A c \in Copy : \A n \in cancelAt[c] :
        stopped[c] /\ files[c] <= (IF thread[c] = "copy" THEN n ELSE n + 1)
Within == \A c \in Copy : thread[c] = "copy" => files[c] < MaxFiles

CopyInv ==
    Copies!TypeOK /\ Begun /\ Ran /\ Unlisted /\ Freed /\ Cancelled /\ Within

\* Erasing an entry of a sequence keeps the others, and adds none.
LEMMA Erasing ==
    ASSUME NEW S, NEW s \in Seq(S), NEW k \in DOMAIN s
    PROVE  LET t == Copies!RemoveAt(s, k)
           IN  /\ t \in Seq(S)
               /\ \A j \in DOMAIN t : \E i \in DOMAIN s : t[j] = s[i]
               /\ \A i \in DOMAIN s \ {k} : \E j \in DOMAIN t : t[j] = s[i]
<1> DEFINE a == SubSeq(s, 1, k - 1)
           b == SubSeq(s, k + 1, Len(s))
           t == a \o b
<1>1. k \in 1..Len(s) /\ Len(s) \in Nat
      BY LenProperties
<1>2. /\ a \in Seq(S) /\ Len(a) = k - 1 /\ \A i \in 1..(k - 1) : a[i] = s[i]
      BY <1>1, SubSeqProperties
<1>3. /\ b \in Seq(S) /\ Len(b) = Len(s) - k /\ \A i \in 1..(Len(s) - k) : b[i] = s[k + i]
      BY <1>1, SubSeqProperties
<1>4. /\ t \in Seq(S) /\ Len(t) = Len(a) + Len(b)
      /\ \A i \in 1..(Len(a) + Len(b)) : t[i] = IF i <= Len(a) THEN a[i] ELSE b[i - Len(a)]
      BY <1>2, <1>3, ConcatProperties
<1>5. /\ t \in Seq(S) /\ Len(t) = Len(s) - 1
      /\ \A i \in 1..(Len(s) - 1) : t[i] = IF i < k THEN s[i] ELSE s[i + 1]
  <2> HIDE DEF a, b, t
  <2>1. Len(t) = Len(s) - 1 /\ t \in Seq(S)
        BY <1>1, <1>2, <1>3, <1>4
  <2>2. ASSUME NEW i \in 1..(Len(s) - 1) PROVE t[i] = IF i < k THEN s[i] ELSE s[i + 1]
    <3>1. i \in 1..(Len(a) + Len(b))
          BY <1>1, <1>2, <1>3, <2>2
    <3>2. CASE i < k
          BY <1>1, <1>2, <1>4, <3>1, <3>2
    <3>3. CASE ~(i < k)
      <4>1. t[i] = b[i - (k - 1)]
            BY <1>1, <1>2, <1>4, <3>1, <3>3
      <4>2. i - (k - 1) \in 1..(Len(s) - k) /\ k + (i - (k - 1)) = i + 1
            BY <1>1, <2>2, <3>3
      <4> QED BY <1>3, <3>3, <4>1, <4>2
    <3> QED BY <3>2, <3>3
  <2> QED BY <2>1, <2>2
<1>6. DOMAIN t = 1..(Len(s) - 1) /\ DOMAIN s = 1..Len(s)
      BY <1>5, LenProperties
<1> HIDE DEF t
<1>7. \A j \in DOMAIN t : \E i \in DOMAIN s : t[j] = s[i]
      BY <1>1, <1>5, <1>6
<1>8. ASSUME NEW i \in DOMAIN s \ {k} PROVE \E j \in DOMAIN t : t[j] = s[i]
  <2>1. CASE i < k
        BY <1>1, <1>5, <1>6, <2>1
  <2>2. CASE i > k
    <3>1. i - 1 \in 1..(Len(s) - 1) /\ ~(i - 1 < k) /\ (i - 1) + 1 = i
          BY <1>1, <1>6, <2>2
    <3> QED BY <1>5, <1>6, <3>1
  <2> QED BY <1>1, <1>6, <2>1, <2>2
<1> QED BY <1>5, <1>7, <1>8 DEF t, Copies!RemoveAt

\* Nothing is listed, held or freed at first.
LEMMA CopyInit == Copies!Init => CopyInv
<1> SUFFICES ASSUME Copies!Init PROVE CopyInv
    OBVIOUS
<1>1. asyncOperations = <<>> /\ held = {} /\ freed = {} /\ thread = [c \in Copy |-> "none"]
      /\ cancelAt = [c \in Copy |-> {}]
      BY DEF Copies!Init
<1>2. Listed = {}
      BY <1>1 DEF Listed
<1>3. files \in [Copy -> 0..MaxFiles] /\ asyncOperations \in Seq(Copy)
      BY ThreadsAssumption DEF Copies!Init, Copies!CopyAssumption
<1>4. {copyRuns, stopped} \subseteq [Copy -> BOOLEAN] /\ answer \in BOOLEAN /\ late \subseteq Copy
      BY DEF Copies!Init
<1>5. Copies!TypeOK
      BY <1>1, <1>3, <1>4 DEF Copies!Init, Copies!TypeOK
<1> QED BY <1>1, <1>2, <1>5 DEF CopyInv, Begun, Ran, Unlisted, Freed, Cancelled, Within

\* What a thread does leaves the objects alone, and so does cancel().
LEMMA ThreadStepOK ==
    ASSUME CopyInv, NEW c \in Copy, Copies!ThreadStep(c) \/ Copies!Cancel(c)
    PROVE  CopyInv'
<1> USE DEF Copies!execution, Copies!objects, Copies!timing
<1>1. UNCHANGED <<asyncOperations, held, freed, interval, call, answer, late>>
      BY DEF Copies!ThreadStep, Copies!Cancel, Copies!Begins, Copies!BeginFails, Copies!NextFile,
         Copies!FileDone, Copies!Finishes, Copies!Over
<1>2. Listed' = Listed
      BY <1>1 DEF Listed
<1>3. /\ thread \in [Copy -> {"none", "begun", "loop", "copy", "flag", "over"}]
      /\ files \in [Copy -> 0..MaxFiles] /\ copyRuns \in [Copy -> BOOLEAN]
      /\ stopped \in [Copy -> BOOLEAN] /\ cancelAt \in [Copy -> SUBSET (0..MaxFiles)]
      /\ MaxFiles \in Nat
      BY ThreadsAssumption DEF CopyInv, Copies!TypeOK, Copies!CopyAssumption
\* It keeps the types, only c changes, and c stays or becomes expendable.
<1>4. SUFFICES
          /\ thread' \in [Copy -> {"none", "begun", "loop", "copy", "flag", "over"}]
          /\ files' \in [Copy -> 0..MaxFiles] /\ copyRuns' \in [Copy -> BOOLEAN]
          /\ stopped' \in [Copy -> BOOLEAN] /\ cancelAt' \in [Copy -> SUBSET (0..MaxFiles)]
          /\ \A d \in Copy \ {c} :
                UNCHANGED <<thread[d], files[d], copyRuns[d], stopped[d], cancelAt[d]>>
          /\ thread[c] # "none" /\ thread'[c] # "none"
          /\ Expendable(c) => Expendable(c)'
          /\ ~copyRuns'[c] => Expendable(c)'
          /\ \A n \in cancelAt'[c] :
                stopped'[c] /\ files'[c] <= (IF thread'[c] = "copy" THEN n ELSE n + 1)
          /\ thread'[c] = "copy" => files'[c] < MaxFiles
  <2>1. Copies!TypeOK'
        BY <1>1, <1>4 DEF CopyInv, Copies!TypeOK
  <2>2. \A d \in Copy \ {c} : Expendable(d)' <=> Expendable(d)
        BY <1>4 DEF Expendable
  <2>3. Begun'
    <3>1. ASSUME NEW d \in Listed \cup held PROVE thread'[d] # "none"
      <4>1. d \in Copy /\ thread[d] # "none"
            BY DEF CopyInv, Copies!TypeOK, Begun, Listed
      <4> QED BY <1>4, <4>1
    <3> QED BY <1>1, <1>2, <3>1 DEF Begun
  <2>4. Ran'
    <3>1. ASSUME NEW d \in Copy, thread'[d] # "none", ~copyRuns'[d] PROVE Expendable(d)'
      <4>1. CASE d # c
            BY <1>4, <2>2, <3>1, <4>1 DEF CopyInv, Ran
      <4> QED BY <1>4, <3>1, <4>1
    <3> QED BY <3>1 DEF Ran
  <2>5. Unlisted'
    <3>1. ASSUME NEW d \in Copy, thread'[d] # "none", d \notin Listed PROVE Expendable(d)'
      <4>1. CASE d # c
            BY <1>4, <2>2, <3>1, <4>1 DEF CopyInv, Unlisted
      <4>2. CASE d = c
            BY <1>4, <3>1, <4>2 DEF CopyInv, Unlisted
      <4> QED BY <4>1, <4>2
    <3> QED BY <1>2, <3>1 DEF Unlisted
  <2>6. Freed'
    <3>1. ASSUME NEW d \in freed PROVE Expendable(d)'
      <4>1. d \in Copy /\ Expendable(d)
            BY DEF CopyInv, Copies!TypeOK, Freed
      <4> QED BY <1>4, <2>2, <4>1
    <3> QED BY <1>1, <3>1 DEF Freed
  <2>7. Cancelled'
    <3>1. ASSUME NEW d \in Copy, NEW n \in cancelAt'[d]
          PROVE  stopped'[d] /\ files'[d] <= (IF thread'[d] = "copy" THEN n ELSE n + 1)
          BY <1>4 DEF CopyInv, Cancelled
    <3> QED BY <3>1 DEF Cancelled
  <2>8. Within'
    <3>1. ASSUME NEW d \in Copy, thread'[d] = "copy" PROVE files'[d] < MaxFiles
          BY <1>4, <3>1 DEF CopyInv, Within
    <3> QED BY <3>1 DEF Within
  <2> QED BY <2>1, <2>3, <2>4, <2>5, <2>6, <2>7, <2>8 DEF CopyInv
<1>5. CASE Copies!Begins(c)
      BY <1>3, <1>5 DEF Copies!Begins, Copies!Goto, CopyInv, Ran, Cancelled, Within, Expendable
<1>6. CASE Copies!BeginFails(c)
      BY <1>3, <1>6 DEF Copies!BeginFails, Copies!Goto, CopyInv, Ran, Cancelled, Within, Expendable
<1>7. CASE Copies!NextFile(c)
      BY <1>3, <1>7 DEF Copies!NextFile, Copies!Goto, CopyInv, Ran, Cancelled, Within, Expendable
<1>8. CASE Copies!FileDone(c)
      BY <1>3, <1>8 DEF Copies!FileDone, Copies!Goto, CopyInv, Ran, Cancelled, Within, Expendable
<1>9. CASE Copies!Finishes(c)
      BY <1>3, <1>9 DEF Copies!Finishes, Copies!Goto, CopyInv, Ran, Cancelled, Within, Expendable
<1>10. CASE Copies!Over(c)
      BY <1>3, <1>10 DEF Copies!Over, Copies!Goto, CopyInv, Ran, Cancelled, Within, Expendable
<1>11. CASE Copies!Cancel(c)
      BY <1>3, <1>11 DEF Copies!Cancel, Copies!StopCopy, CopyInv, Begun, Ran, Cancelled, Within, Expendable
<1> QED BY <1>5, <1>6, <1>7, <1>8, <1>9, <1>10, <1>11 DEF Copies!ThreadStep

\* A copy that begins is listed and held.
LEMMA ExecuteOK ==
    ASSUME CopyInv, NEW c \in Copy, Copies!ExecuteAsyncCopy(c)
    PROVE  CopyInv'
<1> USE DEF Copies!execution, Copies!objects, Copies!timing
<1>1. /\ thread[c] = "none" /\ thread' = [thread EXCEPT ![c] = "begun"]
      /\ copyRuns' = [copyRuns EXCEPT ![c] = TRUE]
      /\ asyncOperations' = Append(asyncOperations, c) /\ held' = held \cup {c}
      /\ interval' \in {"on", interval} /\ late' \subseteq late \cup {c}
      /\ UNCHANGED <<files, stopped, freed, call, answer, cancelAt>>
      BY DEF Copies!ExecuteAsyncCopy
<1>2. Copies!TypeOK
      BY DEF CopyInv
<1>3. Listed' = Listed \cup {c} /\ asyncOperations' \in Seq(Copy)
  <2>1. asyncOperations \in Seq(Copy)
        BY <1>2 DEF Copies!TypeOK
  <2>2. /\ asyncOperations' \in Seq(Copy) /\ Len(asyncOperations') = Len(asyncOperations) + 1
        /\ \A i \in 1..Len(asyncOperations) : asyncOperations'[i] = asyncOperations[i]
        /\ asyncOperations'[Len(asyncOperations) + 1] = c
        BY <1>1, <2>1, AppendProperties
  <2>3. DOMAIN asyncOperations' = 1..(Len(asyncOperations) + 1)
        /\ DOMAIN asyncOperations = 1..Len(asyncOperations) /\ Len(asyncOperations) \in Nat
        BY <2>1, <2>2, LenProperties
  <2> QED BY <2>2, <2>3 DEF Listed
<1>4. Copies!TypeOK'
      BY <1>1, <1>2, <1>3 DEF Copies!TypeOK
<1>5. \A d \in Copy : Expendable(d) /\ d # c => Expendable(d)'
      BY <1>1, <1>2 DEF Copies!TypeOK, Expendable
<1>6. c \notin freed \/ cancelAt[c] # {}
      BY <1>1 DEF CopyInv, Freed, Expendable
<1>7. Begun'
      BY <1>1, <1>2, <1>3 DEF CopyInv, Begun, Copies!TypeOK
<1>8. Ran'
      BY <1>1, <1>2, <1>5 DEF CopyInv, Ran, Copies!TypeOK
<1>9. Unlisted'
      BY <1>1, <1>2, <1>3, <1>5 DEF CopyInv, Unlisted, Copies!TypeOK
<1>10. Freed'
      BY <1>1, <1>2, <1>5, <1>6 DEF CopyInv, Freed, Copies!TypeOK, Expendable
<1>11. Cancelled' /\ Within'
      BY <1>1, <1>2 DEF CopyInv, Cancelled, Within, Copies!TypeOK
<1> QED BY <1>4, <1>7, <1>8, <1>9, <1>10, <1>11 DEF CopyInv

\* An object is freed when neither the list nor the application holds it.
LEMMA DropOK ==
    ASSUME CopyInv, NEW c \in Copy, Copies!Drop(c)
    PROVE  CopyInv'
<1> USE DEF Copies!execution, Copies!objects, Copies!timing
<1>1. /\ c \in held /\ held' = held \ {c} /\ freed' \subseteq freed \cup {c}
      /\ c \in Listed => freed' = freed
      /\ UNCHANGED <<thread, files, copyRuns, stopped, asyncOperations, interval, call, answer,
                     cancelAt, late>>
      BY DEF Copies!Drop, Listed, Copies!ToSet
<1>2. Copies!TypeOK'
      BY <1>1 DEF CopyInv, Copies!TypeOK
<1>3. Listed' = Listed /\ \A d \in Copy : Expendable(d)' <=> Expendable(d)
      BY <1>1 DEF Listed, Expendable
<1>4. Begun' /\ Ran' /\ Unlisted'
      BY <1>1, <1>3 DEF CopyInv, Begun, Ran, Unlisted
<1>5. Freed'
  <2>1. ASSUME NEW d \in freed' PROVE Expendable(d)'
    <3>1. CASE d \in freed
          BY <1>3, <3>1 DEF CopyInv, Copies!TypeOK, Freed
    <3>2. CASE d \notin freed
          BY <1>1, <1>3, <3>2 DEF CopyInv, Begun, Unlisted
    <3> QED BY <3>1, <3>2
  <2> QED BY <2>1 DEF Freed
<1>6. Cancelled' /\ Within'
      BY <1>1 DEF CopyInv, Cancelled, Within
<1> QED BY <1>2, <1>4, <1>5, <1>6 DEF CopyInv

\* What is erased from the list does not run.
LEMMA DeleteOK ==
    ASSUME CopyInv, Copies!DeletePendingOperations
    PROVE  CopyInv'
<1> USE DEF Copies!execution, Copies!objects, Copies!timing
<1> DEFINE erased == {asyncOperations[k] : k \in Copies!Erased}
<1>1. /\ call' = "answered" /\ answer' \in BOOLEAN /\ freed' = freed \cup (erased \ held)
      /\ UNCHANGED <<thread, files, copyRuns, stopped, held, interval, cancelAt, late>>
      BY DEF Copies!DeletePendingOperations
<1>2. asyncOperations \in Seq(Copy) /\ Copies!Erased \subseteq DOMAIN asyncOperations
      BY DEF CopyInv, Copies!TypeOK, Copies!Erased, Copies!Finished
<1>3. asyncOperations' \in Seq(Copy) /\ Listed' \subseteq Listed /\ Listed \subseteq Listed' \cup erased
  <2>1. CASE Copies!Erased = {}
        BY <1>2, <2>1 DEF Copies!DeletePendingOperations, Listed
  <2>2. CASE Copies!Erased # {}
    <3>1. PICK k \in Copies!Erased : asyncOperations' = Copies!RemoveAt(asyncOperations, k)
          BY <2>2 DEF Copies!DeletePendingOperations
    <3>2. /\ asyncOperations' \in Seq(Copy)
          /\ \A j \in DOMAIN asyncOperations' :
                \E i \in DOMAIN asyncOperations : asyncOperations'[j] = asyncOperations[i]
          /\ \A i \in DOMAIN asyncOperations \ {k} :
                \E j \in DOMAIN asyncOperations' : asyncOperations'[j] = asyncOperations[i]
          BY <1>2, <3>1, Erasing
    <3> QED BY <3>1, <3>2 DEF Listed
  <2> QED BY <2>1, <2>2
<1>4. erased \subseteq Listed /\ erased \subseteq Copy /\ \A c \in erased : ~copyRuns[c]
  <2>1. ASSUME NEW k \in Copies!Erased
        PROVE  asyncOperations[k] \in Listed /\ asyncOperations[k] \in Copy
               /\ ~copyRuns[asyncOperations[k]]
        BY <1>2, ElementOfSeq, LenProperties DEF Listed, Copies!Erased, Copies!Finished
  <2> QED BY <2>1
<1>5. \A c \in erased : thread[c] # "none" /\ Expendable(c)
      BY <1>4 DEF CopyInv, Begun, Ran
<1> HIDE DEF erased
<1>6. \A c \in Copy : Expendable(c)' <=> Expendable(c)
      BY <1>1 DEF Expendable
<1>7. Copies!TypeOK'
      BY <1>1, <1>3, <1>4 DEF CopyInv, Copies!TypeOK
<1>8. Begun' /\ Ran'
      BY <1>1, <1>3, <1>6 DEF CopyInv, Begun, Ran
<1>9. Unlisted'
      BY <1>1, <1>3, <1>5, <1>6 DEF CopyInv, Unlisted
<1>10. Freed'
      BY <1>1, <1>4, <1>5, <1>6 DEF CopyInv, Freed, Copies!TypeOK
<1>11. Cancelled' /\ Within'
      BY <1>1 DEF CopyInv, Cancelled, Within
<1> QED BY <1>7, <1>8, <1>9, <1>10, <1>11 DEF CopyInv

\* Every step keeps the invariant; the timer touches nothing else.
LEMMA CopyNext == CopyInv /\ [Copies!Next]_(Copies!vars) => CopyInv'
<1> SUFFICES ASSUME CopyInv, [Copies!Next]_(Copies!vars) PROVE CopyInv'
    OBVIOUS
<1> USE DEF Copies!execution, Copies!objects, Copies!timing
<1>1. CASE \E c \in Copy : Copies!ThreadStep(c) \/ Copies!Cancel(c)
      BY <1>1, ThreadStepOK
<1>2. CASE \E c \in Copy : Copies!ExecuteAsyncCopy(c) \/ Copies!Drop(c)
      BY <1>2, ExecuteOK, DropOK
<1>3. CASE Copies!DeletePendingOperations
      BY <1>3, DeleteOK
<1>4. CASE Copies!OnAsyncOperationTimer \/ Copies!PauseTimer \/ Copies!LoopEnds
               \/ UNCHANGED Copies!vars
  <2>1. /\ UNCHANGED <<thread, files, copyRuns, stopped, asyncOperations, held, freed, answer,
                       cancelAt, late>>
        /\ interval' \in {interval, "paused", "over"} /\ call' \in {"asked", "no", call}
        BY <1>4 DEF Copies!OnAsyncOperationTimer, Copies!PauseTimer, Copies!LoopEnds,
           Copies!vars
  <2>2. Copies!TypeOK'
        BY <2>1 DEF CopyInv, Copies!TypeOK
  <2>3. Listed' = Listed /\ \A c \in Copy : Expendable(c)' <=> Expendable(c)
        BY <2>1 DEF Listed, Expendable
  <2>4. Begun' /\ Ran' /\ Unlisted' /\ Cancelled' /\ Within'
        BY <2>1, <2>3 DEF CopyInv, Begun, Ran, Unlisted, Cancelled, Within
  <2>5. Freed'
        BY <2>1, <2>3 DEF CopyInv, Freed, Copies!TypeOK
  <2> QED BY <2>2, <2>4, <2>5 DEF CopyInv
<1> QED BY <1>1, <1>2, <1>3, <1>4 DEF Copies!Next, Copies!Timer

\* Copies keep their invariant, however many there are and of however many files.
THEOREM CopiesAreSound == Copies!Spec => []CopyInv
BY CopyInit, CopyNext, PTL DEF Copies!Spec

\* Side by side with workers, copies take their own steps only.
LEMMA CopiesAlone == ThreadsSpec => Copies!Spec
<1>1. ThreadsInit => Copies!Init
      BY DEF ThreadsInit
<1>2. [ThreadsNext]_<<part, vars, copyVars>> => [Copies!Next]_(Copies!vars)
      BY DEF ThreadsNext, copyVars, Copies!vars, Copies!execution, Copies!objects, Copies!timing
<1> QED BY <1>1, <1>2, PTL DEF ThreadsSpec, Copies!Spec

\* After cancel() a copy gets through with the file it is at, and with no other.
THEOREM CancelStopsCopies == ThreadsSpec => []CancelStops
<1>1. CopyInv => CancelStops
  <2> SUFFICES ASSUME CopyInv, NEW c \in Copy, NEW n \in cancelAt[c] PROVE files[c] <= n + 1
      BY DEF CancelStops, Copies!CancelStops
  <2>1. n \in Nat /\ files[c] \in Nat
        BY DEF CopyInv, Copies!TypeOK
  <2> QED BY <2>1 DEF CopyInv, Cancelled
<1> QED BY <1>1, CopiesAlone, CopiesAreSound, PTL

\* The object of a copy is kept while its thread uses it.
THEOREM CopiesAreKept == ThreadsSpec => []KeptWhileRunning
<1>1. CopyInv => KeptWhileRunning
      BY DEF CopyInv, Freed, Expendable, KeptWhileRunning, Copies!KeptWhileRunning
<1> QED BY <1>1, CopiesAlone, CopiesAreSound, PTL
=============================================================================
