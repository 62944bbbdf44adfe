------------------------- MODULE MainThreadJobsProofs ------------------------
(***************************************************************************)
(* Theorems about MainThreadJobs for any number of threads and jobs and on *)
(* every platform (Timer, Nested).                                         *)
(***************************************************************************)
EXTENDS MainThreadJobs, SequenceTheorems, TLAPS

(***************************************************************************)
(* Facts about the two operations on the stack of activations.             *)
(***************************************************************************)
LEMMA ElementsOf ==
    ASSUME NEW S, NEW s \in Seq(S), NEW k \in 1..Len(s)
    PROVE  s[k] \in S
  OBVIOUS

\* Dropping the last element (an activation returns) keeps the type and the rest.
LEMMA PopType ==
    ASSUME NEW S, NEW s \in Seq(S), s # <<>>
    PROVE  /\ SubSeq(s, 1, Len(s) - 1) \in Seq(S)
           /\ Len(SubSeq(s, 1, Len(s) - 1)) = Len(s) - 1
           /\ \A k \in 1..(Len(s) - 1) : SubSeq(s, 1, Len(s) - 1)[k] = s[k]
<1>1. Len(s) \in Nat /\ Len(s) # 0
      BY EmptySeq
<1>2. \A k \in 1..(Len(s) - 1) : s[k] \in S
      BY <1>1, ElementsOf
<1>3. 1 \in Int /\ Len(s) - 1 \in Int
      BY <1>1
<1>4. /\ SubSeq(s, 1, Len(s) - 1) \in Seq(S)
      /\ Len(SubSeq(s, 1, Len(s) - 1)) = IF 1 <= Len(s) - 1 THEN Len(s) - 1 - 1 + 1 ELSE 0
      /\ \A k \in 1..(Len(s) - 1 - 1 + 1) : SubSeq(s, 1, Len(s) - 1)[k] = s[1 + k - 1]
      BY <1>2, <1>3, SubSeqProperties
<1>5. CASE Len(s) = 1
      BY <1>4, <1>5
<1>6. CASE Len(s) > 1
      BY <1>4, <1>6
<1>7. \A n \in Nat : n # 0 => n = 1 \/ n > 1
      OBVIOUS
<1>8. Len(s) = 1 \/ Len(s) > 1
      BY <1>1, <1>7, Zenon
<1> QED BY <1>5, <1>6, <1>8

\* The current activation and, while it executes, its current job have their types.
LEMMA TopType ==
    ASSUME TypeOK, frames # <<>>
    PROVE  /\ Len(frames) \in 1..Len(frames)
           /\ Top \in Frame
           /\ Top.at # "next" => Top.i \in 1..Len(Top.jobs) /\ Current \in Job
           /\ Top.i <= Len(Top.jobs) => Current \in Job
<1>1. Len(frames) \in 1..Len(frames)
      BY EmptySeq DEF TypeOK
<1>2. Top \in Frame
      BY <1>1, ElementsOf DEF Top, TypeOK
<1>3. Top.i <= Len(Top.jobs) => Top.i \in 1..Len(Top.jobs)
      BY <1>2 DEF Frame
<1>4. Top.i <= Len(Top.jobs) => Current \in Job
      BY <1>2, <1>3, ElementsOf DEF Frame, Current
<1>5. Top.at # "next" => Top.i <= Len(Top.jobs)
      BY <1>1 DEF TypeOK, Top, IndexOK
<1> QED BY <1>1, <1>2, <1>3, <1>4, <1>5

\* A step of the current activation changes that activation only.
LEMMA SetTopType ==
    ASSUME TypeOK, frames # <<>>, NEW f \in Frame, SetTop(f)
    PROVE  /\ frames' \in Seq(Frame)
           /\ Len(frames') = Len(frames)
           /\ frames'[Len(frames)] = f
           /\ \A n \in 1..Len(frames) : n # Len(frames) => frames'[n] = frames[n]
  BY TopType DEF SetTop, TypeOK

\* A new activation goes on top and leaves those below as they are.
LEMMA PushType ==
    ASSUME TypeOK, NEW f \in Frame, Push(f)
    PROVE  /\ frames' \in Seq(Frame)
           /\ Len(frames') = Len(frames) + 1
           /\ frames'[Len(frames) + 1] = f
           /\ \A n \in 1..Len(frames) : frames'[n] = frames[n]
  BY AppendProperties DEF Push, TypeOK

\* Changing the current activation keeps every index in its batch.
LEMMA SetTopIndex ==
    ASSUME TypeOK, frames # <<>>, NEW f \in Frame, IndexOK(f), SetTop(f)
    PROVE  \A n \in 1..Len(frames') : IndexOK(frames'[n])
  BY SetTopType DEF TypeOK

\* So does a new activation.
LEMMA PushIndex ==
    ASSUME TypeOK, NEW f \in Frame, IndexOK(f), Push(f)
    PROVE  \A n \in 1..Len(frames') : IndexOK(frames'[n])
<1>1. Len(frames) \in Nat
      BY DEF TypeOK
<1>2. \A n \in 1..(Len(frames) + 1) : n = Len(frames) + 1 \/ n \in 1..Len(frames)
      BY <1>1
<1> QED BY <1>2, PushType DEF TypeOK

-----------------------------------------------------------------------------
(* The variables keep their types.                                           *)

\* The types hold initially ...
LEMMA TypeInit == Init => TypeOK
<1> SUFFICES ASSUME Init PROVE TypeOK
    OBVIOUS
<1>1. waits \in [Job -> BOOLEAN] /\ exiting \in BOOLEAN /\ stopped \in BOOLEAN
      BY Zenon DEF Init
<1>2. mainThreadJobs \in Seq(Job) /\ frames \in Seq(Frame)
      /\ posted \in Seq(Job) /\ started \in Seq(Job)
      BY EmptySeq DEF Init
<1>3. obj \in [Job -> {"unused", "live", "freed"}] /\ sem \in [Job -> {0, 1}]
      BY DEF Init
<1>4. outcome \in [Job -> Outcome \cup {"none"}] /\ answer \in [Job -> Outcome \cup {"none"}]
      BY DEF Init
<1>5. pc \in [Background -> {"idle", "signal", "wait"}] /\ job \in [Background -> Job \cup {NoJob}]
      BY DEF Init
<1>6. tickles \in Nat
      BY DEF Init
<1>7. \A n \in 1..Len(frames) : IndexOK(frames[n])
      BY EmptySeq DEF Init
<1>8. \A t \in Background : pc[t] # "idle" => job[t] \in Job
      BY DEF Init
<1> QED BY <1>1, <1>2, <1>3, <1>4, <1>5, <1>6, <1>7, <1>8 DEF TypeOK

\* ... and every step of the host keeps them.
LEMMA TypeNext == TypeOK /\ [Next]_vars => TypeOK'
<1> SUFFICES ASSUME TypeOK, [Next]_vars PROVE TypeOK'
    OBVIOUS
<1>1. ASSUME NEW t \in Background, NEW j \in Job, Enqueue(t, j) PROVE TypeOK'
      BY <1>1, AppendProperties DEF TypeOK, Enqueue, NewMainThreadJob, PushBack, loopVars
<1>2. ASSUME NEW t \in Background, Signal(t) PROVE TypeOK'
      BY <1>2 DEF TypeOK, Signal, SignalNewMainThreadJob, loopVars, history
<1>3. ASSUME NEW t \in Background, Collect(t) PROVE TypeOK'
  <2>1. job[t] \in Job /\ sem[job[t]] = 1 /\ ResultOf(job[t]) \in Outcome
        BY <1>3 DEF TypeOK, Collect, ResultOf, Outcome
  <2> QED BY <1>3, <2>1 DEF TypeOK, Collect, loopVars, history
<1>4. ASSUME NEW j \in Job, CallInPlace(j) PROVE TypeOK'
  <2> DEFINE f == [kind |-> "inplace", jobs |-> <<j>>, i |-> 1, at |-> "call",
                   asynchronous |-> FALSE]
  <2>1. f \in Frame
        BY DEF Frame
  <2>2. Push(f)
        BY <1>4 DEF CallInPlace
  <2>3. IndexOK(f)
        BY DEF TypeOK, IndexOK
  <2> QED BY <1>4, <2>1, <2>2, <2>3, PushType, PushIndex
          DEF TypeOK, CallInPlace, NewMainThreadJob, callerVars, loopVars, history
<1>5. ASSUME NEW j \in Job, MainEnqueue(j) PROVE TypeOK'
      BY <1>5, AppendProperties DEF TypeOK, MainEnqueue, NewMainThreadJob, PushBack,
         SignalNewMainThreadJob, callerVars, loopVars
<1>6. CASE RunMainThreadJobs
  <2> DEFINE f == [kind |-> "batch", jobs |-> mainThreadJobs, i |-> 1, at |-> "next",
                   asynchronous |-> FALSE]
  <2>1. f \in Frame
        BY DEF Frame, TypeOK
  <2>2. Push(f)
        BY <1>6 DEF RunMainThreadJobs
  <2>3. IndexOK(f)
        BY DEF TypeOK, IndexOK
  <2>4. tickles' \in Nat
        BY <1>6, JobsAssumption DEF RunMainThreadJobs, TypeOK
  <2>5. mainThreadJobs' \in Seq(Job)
        BY <1>6, EmptySeq DEF RunMainThreadJobs
  <2> QED BY <1>6, <2>1, <2>2, <2>3, <2>4, <2>5, PushType, PushIndex
          DEF TypeOK, RunMainThreadJobs, callerVars, loopVars, history
<1>7. CASE ExecuteNext
  <2> DEFINE f == [Top EXCEPT !.at = "call", !.asynchronous = ~waits[Current]]
  <2>1. frames # <<>> /\ Top \in Frame /\ Current \in Job /\ Top.i <= Len(Top.jobs) /\ SetTop(f)
        BY <1>7, TopType DEF ExecuteNext, MainAt
  <2>2. waits[Current] \in BOOLEAN
        BY <2>1 DEF TypeOK
  <2>3. f \in Frame /\ f.i = Top.i /\ f.jobs = Top.jobs /\ f.at = "call"
        BY <2>1, <2>2 DEF Frame
  <2>4. IndexOK(f)
        BY <2>1, <2>3 DEF IndexOK, Frame
  <2>5. started' \in Seq(Job)
        BY <1>7, <2>1, AppendProperties DEF ExecuteNext, TypeOK
  <2> QED BY <1>7, <2>1, <2>3, <2>4, <2>5, SetTopType, SetTopIndex
          DEF TypeOK, ExecuteNext, callerVars, loopVars
<1>8. CASE MethodReturns
  <2> DEFINE f == [Top EXCEPT !.at = "after"]
  <2>1. frames # <<>> /\ Top \in Frame /\ Current \in Job /\ Top.i <= Len(Top.jobs) /\ SetTop(f)
        BY <1>8, TopType DEF MethodReturns, InMethod, Frame
  <2>2. f \in Frame /\ f.i = Top.i /\ f.jobs = Top.jobs /\ f.at = "after"
        BY <2>1 DEF Frame
  <2>3. IndexOK(f)
        BY <2>1, <2>2 DEF IndexOK, Frame
  <2> HIDE DEF f
  <2> QED BY <1>8, <2>1, <2>2, <2>3, SetTopType, SetTopIndex
          DEF TypeOK, MethodReturns, callerVars, loopVars, history
<1>9. CASE AfterExecute
  <2> DEFINE f == [Top EXCEPT !.at = "next", !.i = @ + 1]
  <2>1. frames # <<>> /\ Top \in Frame /\ Current \in Job /\ Top.i <= Len(Top.jobs) /\ SetTop(f)
        BY <1>9, TopType DEF AfterExecute, MainAt, Frame
  <2>2. f \in Frame /\ f.i = Top.i + 1 /\ f.jobs = Top.jobs /\ f.at = "next"
        BY <2>1, Top.i + 1 \in Nat \ {0} DEF Frame
  <2>3. IndexOK(f)
        BY <2>1, <2>2 DEF IndexOK, Frame
  <2> HIDE DEF f
  <2> QED BY <1>9, <2>1, <2>2, <2>3, SetTopType, SetTopIndex
          DEF TypeOK, AfterExecute, callerVars, loopVars, history
<1>10. CASE BatchDone
  <2>1. frames # <<>> /\ Pop
        BY <1>10 DEF BatchDone, MainAt
  <2>2. \A n \in 1..Len(frames') : IndexOK(frames'[n])
        BY <2>1, PopType DEF Pop, TypeOK
  <2> QED BY <1>10, <2>1, <2>2, PopType
          DEF TypeOK, Pop, BatchDone, callerVars, loopVars, history
<1>11. CASE InPlaceDone
  <2>1. frames # <<>> /\ Pop /\ Top \in Frame /\ Current \in Job
        BY <1>11, TopType DEF InPlaceDone, MainAt
  <2>2. \A n \in 1..Len(frames') : IndexOK(frames'[n])
        BY <2>1, PopType DEF Pop, TypeOK
  <2>3. sem[Current] = 1 /\ ResultOf(Current) \in Outcome
        BY <1>11, <2>1 DEF InPlaceDone, ResultOf, Outcome, TypeOK
  <2>4. tickles' \in Nat
        BY <1>11 DEF InPlaceDone, SignalNewMainThreadJob, TypeOK
  <2>5. frames' \in Seq(Frame)
        BY <2>1, PopType DEF Pop, TypeOK
  <2> QED BY <1>11, <2>1, <2>2, <2>3, <2>4, <2>5
          DEF TypeOK, InPlaceDone, callerVars, loopVars, history
<1>12. CASE Exit
      BY <1>12 DEF TypeOK, Exit, callerVars, history
<1>13. CASE LoopEnds
      BY <1>13 DEF TypeOK, LoopEnds, callerVars, history
<1>14. CASE UNCHANGED vars
      BY <1>14 DEF TypeOK, vars
<1> QED BY <1>1, <1>2, <1>3, <1>4, <1>5, <1>6, <1>7, <1>8, <1>9, <1>10, <1>11,
           <1>12, <1>13, <1>14 DEF Next, Caller, MainStep

\* Type correctness, for any number of threads and jobs.
THEOREM TypeCorrect == Spec => []TypeOK
  BY TypeInit, TypeNext, PTL DEF Spec

-----------------------------------------------------------------------------
(***************************************************************************)
(* The inductive invariant.  A job is in one place at most (Distinct), its *)
(* object and its outcome agree with that place (QueuedOK, FrameOK), the   *)
(* flag an activation keeps tells who deletes the job (FlagOK), and the    *)
(* caller that waits for a job is the only one to hold it (CallerOK).      *)
(***************************************************************************)
Positions(n) == 1..Len(frames[n].jobs)

Distinct ==
    /\ \A a, b \in 1..Len(mainThreadJobs) :
          mainThreadJobs[a] = mainThreadJobs[b] => a = b
    /\ \A m, n \in 1..Len(frames) : \A a \in Positions(m), b \in Positions(n) :
          frames[m].jobs[a] = frames[n].jobs[b] => m = n /\ a = b
    /\ \A a \in 1..Len(mainThreadJobs), n \in 1..Len(frames) : \A b \in Positions(n) :
          mainThreadJobs[a] # frames[n].jobs[b]

Fresh(j) == obj[j] = "live" /\ outcome[j] = "none"

QueuedOK == \A a \in 1..Len(mainThreadJobs) : Fresh(mainThreadJobs[a])

FrameOK ==
    \A n \in 1..Len(frames) : \A k \in Positions(n) :
        /\ obj[frames[n].jobs[k]] # "unused"
        /\ Pending(frames[n], k) => Fresh(frames[n].jobs[k])
        /\ k = frames[n].i /\ frames[n].at = "after" =>
              /\ outcome[frames[n].jobs[k]] # "none"
              /\ frames[n].kind = "inplace" \/ frames[n].asynchronous
                    => obj[frames[n].jobs[k]] = "live"

FlagOK ==
    \A n \in 1..Len(frames) :
        /\ frames[n].kind = "inplace" =>
              frames[n].at # "next" /\ waits[frames[n].jobs[frames[n].i]]
        /\ frames[n].kind = "batch" /\ frames[n].at # "next" =>
              frames[n].asynchronous = ~waits[frames[n].jobs[frames[n].i]]

CallerOK ==
    /\ \A t \in Background : pc[t] # "idle" =>
          /\ obj[job[t]] # "unused"
          /\ waits[job[t]] => obj[job[t]] = "live"
          /\ \A n \in 1..Len(frames) : \A k \in Positions(n) :
                frames[n].kind = "inplace" => job[t] # frames[n].jobs[k]
    /\ \A t \in Background : pc[t] = "wait" => waits[job[t]]
    /\ \A t, u \in Background :
          pc[t] # "idle" /\ pc[u] # "idle" /\ job[t] = job[u] => t = u

ObjectOK ==
    \A j \in Job :
        /\ obj[j] = "unused" => outcome[j] = "none" /\ sem[j] = 0
        /\ obj[j] = "freed" => outcome[j] # "none"
        /\ sem[j] = 1 => outcome[j] # "none"
        /\ answer[j] # "none" => obj[j] = "freed" /\ answer[j] = outcome[j]

Inv == TypeOK /\ Distinct /\ QueuedOK /\ FrameOK /\ FlagOK /\ CallerOK /\ ObjectOK

\* What an activation or a caller refers to is a job.
LEMMA JobsOf ==
    ASSUME TypeOK
    PROVE  /\ Len(frames) \in Nat /\ Len(mainThreadJobs) \in Nat
           /\ \A a \in 1..Len(mainThreadJobs) : mainThreadJobs[a] \in Job
           /\ \A n \in 1..Len(frames) :
                 /\ frames[n] \in Frame /\ Len(frames[n].jobs) \in Nat
                 /\ frames[n].i \in Nat \ {0}
                 /\ \A k \in Positions(n) : frames[n].jobs[k] \in Job
<1>1. \A n \in 1..Len(frames) : frames[n] \in Frame
      BY ElementsOf DEF TypeOK
<1>2. \A n \in 1..Len(frames) : frames[n].jobs \in Seq(Job) /\ frames[n].i \in Nat \ {0}
      BY <1>1 DEF Frame
<1>3. \A n \in 1..Len(frames) : \A k \in Positions(n) : frames[n].jobs[k] \in Job
      BY <1>2, ElementsOf DEF Positions
<1> QED BY <1>1, <1>2, <1>3, ElementsOf DEF TypeOK

\* An activation that is executing a job has its index in the batch.
LEMMA IndexInBatch ==
    ASSUME Inv
    PROVE  \A n \in 1..Len(frames) :
              frames[n].at # "next" \/ frames[n].kind = "inplace" =>
                 frames[n].i \in Positions(n)
<1> SUFFICES ASSUME NEW n \in 1..Len(frames),
                    frames[n].at # "next" \/ frames[n].kind = "inplace"
             PROVE  frames[n].i \in Positions(n)
    OBVIOUS
<1>1. frames[n].at # "next"
      BY DEF Inv, FlagOK
<1>2. frames[n].i <= Len(frames[n].jobs)
      BY <1>1 DEF Inv, TypeOK, IndexOK
<1>3. frames[n].i \in Nat \ {0} /\ Len(frames[n].jobs) \in Nat
      BY JobsOf DEF Inv
<1> QED BY <1>2, <1>3 DEF Positions

\* An object not yet allocated is nowhere.
LEMMA UnusedIsNowhere ==
    ASSUME Inv, NEW j \in Job, obj[j] = "unused"
    PROVE  /\ \A a \in 1..Len(mainThreadJobs) : mainThreadJobs[a] # j
           /\ \A n \in 1..Len(frames) : \A k \in Positions(n) : frames[n].jobs[k] # j
           /\ \A t \in Background : pc[t] # "idle" => job[t] # j
  BY DEF Inv, QueuedOK, Fresh, FrameOK, CallerOK

\* A job is queued: by a background thread or by the main thread itself.
LEMMA AppendOK ==
    ASSUME Inv, TypeOK', NEW j \in Job, obj[j] = "unused", NEW w \in BOOLEAN,
           mainThreadJobs' = Append(mainThreadJobs, j),
           obj' = [obj EXCEPT ![j] = "live"], waits' = [waits EXCEPT ![j] = w],
           UNCHANGED <<outcome, sem, answer, frames>>
    PROVE  Distinct' /\ QueuedOK' /\ FrameOK' /\ FlagOK' /\ ObjectOK'
<1> USE UnusedIsNowhere, JobsOf
<1>0. /\ Len(mainThreadJobs') = Len(mainThreadJobs) + 1
      /\ mainThreadJobs'[Len(mainThreadJobs) + 1] = j
      /\ \A a \in 1..Len(mainThreadJobs) : mainThreadJobs'[a] = mainThreadJobs[a]
      /\ \A a \in 1..Len(mainThreadJobs') :
            a = Len(mainThreadJobs) + 1 \/ a \in 1..Len(mainThreadJobs)
      BY AppendProperties DEF Inv, TypeOK
<1>1. Distinct'
      BY <1>0 DEF Inv, Distinct, Positions
<1>2. QueuedOK'
      BY <1>0 DEF Inv, TypeOK, QueuedOK, Fresh, ObjectOK
<1>3. FrameOK'
  <2>1. \A n \in 1..Len(frames) : \A k \in Positions(n) :
          LET x == frames[n].jobs[k] IN obj'[x] = obj[x] /\ outcome'[x] = outcome[x]
        BY DEF Inv, TypeOK
  <2> QED BY <2>1 DEF Inv, FrameOK, Fresh, Pending, Positions
<1>4. FlagOK'
  <2>1. \A n \in 1..Len(frames) : frames[n].at # "next" \/ frames[n].kind = "inplace" =>
           frames[n].i \in Positions(n)
        BY IndexInBatch
  <2>2. \A n \in 1..Len(frames) : frames[n].at # "next" \/ frames[n].kind = "inplace" =>
           waits'[frames[n].jobs[frames[n].i]] = waits[frames[n].jobs[frames[n].i]]
        BY <2>1 DEF Inv, TypeOK
  <2> QED BY <2>2 DEF Inv, FlagOK
<1>5. ObjectOK'
      BY DEF Inv, TypeOK, ObjectOK
<1> QED BY <1>1, <1>2, <1>3, <1>4, <1>5

\* A background thread queues a job.
LEMMA EnqueueOK ==
    ASSUME Inv, TypeOK', NEW t \in Background, NEW j \in Job, Enqueue(t, j)
    PROVE  Inv'
<1>1. PICK w \in BOOLEAN : NewMainThreadJob(j, w)
      BY DEF Enqueue
<1>2. Distinct' /\ QueuedOK' /\ FrameOK' /\ FlagOK' /\ ObjectOK'
      BY <1>1, AppendOK DEF Enqueue, NewMainThreadJob, PushBack
<1>3. CallerOK'
  <2>1. \A n \in 1..Len(frames) : \A k \in Positions(n) : frames[n].jobs[k] # j
        BY <1>1, UnusedIsNowhere DEF NewMainThreadJob
  <2>2. \A u \in Background : u # t =>
           /\ pc'[u] = pc[u] /\ job'[u] = job[u]
           /\ pc[u] # "idle" => /\ job[u] \in Job /\ job[u] # j
                                /\ obj'[job[u]] = obj[job[u]]
                                /\ waits'[job[u]] = waits[job[u]]
        BY <1>1, UnusedIsNowhere DEF Enqueue, NewMainThreadJob, Inv, TypeOK
  <2>3. pc'[t] = "signal" /\ job'[t] = j /\ obj'[j] = "live" /\ frames' = frames
        BY <1>1 DEF Enqueue, NewMainThreadJob, Inv, TypeOK
  <2> QED BY <2>1, <2>2, <2>3 DEF Inv, CallerOK, Positions
<1> QED BY <1>2, <1>3 DEF Inv

\* The main thread queues an asynchronous job.
LEMMA MainEnqueueOK ==
    ASSUME Inv, TypeOK', NEW j \in Job, MainEnqueue(j)
    PROVE  Inv'
<1>1. Distinct' /\ QueuedOK' /\ FrameOK' /\ FlagOK' /\ ObjectOK'
      BY AppendOK DEF MainEnqueue, NewMainThreadJob, PushBack
<1>2. CallerOK'
      BY UnusedIsNowhere DEF MainEnqueue, NewMainThreadJob, callerVars, Inv, TypeOK,
         CallerOK, Positions
<1> QED BY <1>1, <1>2 DEF Inv

\* A caller signals, and waits or forgets its job.
LEMMA SignalOK ==
    ASSUME Inv, TypeOK', NEW t \in Background, Signal(t)
    PROVE  Inv'
<1>1. Distinct' /\ QueuedOK' /\ FrameOK' /\ FlagOK' /\ ObjectOK'
      BY DEF Signal, Inv, Distinct, QueuedOK, FrameOK, FlagOK, ObjectOK, Fresh, Positions
<1>2. CallerOK'
      BY DEF Signal, Inv, TypeOK, CallerOK, Positions
<1> QED BY <1>1, <1>2 DEF Inv

\* A waiting caller takes the outcome and deletes its job.
LEMMA CollectOK ==
    ASSUME Inv, TypeOK', NEW t \in Background, Collect(t)
    PROVE  Inv'
<1> DEFINE j == job[t]
<1>0. /\ j \in Job /\ sem[j] = 1 /\ outcome[j] \in Outcome /\ waits[j] /\ obj[j] = "live"
      /\ ResultOf(j) = outcome[j]
      BY DEF Collect, Inv, TypeOK, CallerOK, ObjectOK, ResultOf, Outcome
<1>a. UNCHANGED <<mainThreadJobs, frames, outcome, waits>>
      BY DEF Collect
<1>b. \A x \in Job : x # j => obj'[x] = obj[x]
      BY <1>0 DEF Collect, Inv, TypeOK
<1>c. obj'[j] = "freed"
      BY <1>0 DEF Collect, Inv, TypeOK
<1>1. Distinct'
      BY <1>a DEF Inv, Distinct, Positions
<1>2. QueuedOK'
      BY <1>0, JobsOf DEF Collect, Inv, TypeOK, QueuedOK, Fresh, Outcome
<1>3. FrameOK'
  <2> SUFFICES ASSUME NEW n \in 1..Len(frames), NEW k \in Positions(n), frames[n].jobs[k] = j
               PROVE  /\ ~Pending(frames[n], k)
                      /\ k = frames[n].i /\ frames[n].at = "after" =>
                            frames[n].kind # "inplace" /\ ~frames[n].asynchronous
    <3>1. \A n \in 1..Len(frames) : \A k \in Positions(n) : frames[n].jobs[k] \in Job
          BY JobsOf DEF Inv
    <3> QED BY <1>0, <1>a, <1>b, <1>c, <3>1 DEF Inv, FrameOK, Fresh, Pending, Positions
  <2>1. ~Pending(frames[n], k)
        BY <1>0 DEF Inv, FrameOK, Fresh, Outcome
  <2>2. frames[n].kind # "inplace"
        BY DEF Collect, Inv, CallerOK
  <2>3. frames[n].kind = "batch"
        BY <2>2, JobsOf DEF Inv, Frame
  <2> QED BY <1>0, <2>1, <2>2, <2>3 DEF Inv, FlagOK
<1>4. FlagOK'
      BY DEF Collect, Inv, FlagOK
<1>5. CallerOK'
      BY <1>0 DEF Collect, Inv, TypeOK, CallerOK, Positions
<1>6. ObjectOK'
      BY <1>0 DEF Collect, Inv, TypeOK, ObjectOK
<1> QED BY <1>1, <1>2, <1>3, <1>4, <1>5, <1>6 DEF Inv

\* The activations after a push, and after a pop.
LEMMA Pushed ==
    ASSUME Inv, TypeOK', NEW f \in Frame, Push(f)
    PROVE  /\ Len(frames') = Len(frames) + 1
           /\ \A n \in 1..Len(frames') :
                 \/ n \in 1..Len(frames) /\ frames'[n] = frames[n]
                 \/ n = Len(frames) + 1 /\ frames'[n] = f
<1>1. Len(frames) \in Nat
      BY JobsOf DEF Inv
<1>2. \A n \in 1..(Len(frames) + 1) : n \in 1..Len(frames) \/ n = Len(frames) + 1
      BY <1>1
<1> QED BY <1>2, PushType DEF Inv

\* A pushed activation keeps the activations disjoint, if its own jobs are
\* distinct and in no other activation.
LEMMA PushDistinct ==
    ASSUME Inv, TypeOK', NEW f \in Frame, Push(f),
           \A a, b \in 1..Len(f.jobs) : f.jobs[a] = f.jobs[b] => a = b,
           \A n \in 1..Len(frames) : \A a \in Positions(n), b \in 1..Len(f.jobs) :
              frames[n].jobs[a] # f.jobs[b]
    PROVE  \A m, n \in 1..Len(frames') :
              \A a \in 1..Len(frames'[m].jobs), b \in 1..Len(frames'[n].jobs) :
                 frames'[m].jobs[a] = frames'[n].jobs[b] => m = n /\ a = b
<1> SUFFICES ASSUME NEW m \in 1..Len(frames'), NEW n \in 1..Len(frames'),
                    NEW a \in 1..Len(frames'[m].jobs), NEW b \in 1..Len(frames'[n].jobs),
                    frames'[m].jobs[a] = frames'[n].jobs[b]
             PROVE  m = n /\ a = b
    OBVIOUS
<1>1. CASE m \in 1..Len(frames) /\ frames'[m] = frames[m] /\ n \in 1..Len(frames) /\ frames'[n] = frames[n]
      BY <1>1 DEF Inv, Distinct, Positions
<1>2. CASE m \in 1..Len(frames) /\ frames'[m] = frames[m] /\ frames'[n] = f
      BY <1>2 DEF Positions
<1>3. CASE frames'[m] = f /\ n \in 1..Len(frames) /\ frames'[n] = frames[n]
      BY <1>3 DEF Positions
<1>4. CASE m = Len(frames) + 1 /\ n = Len(frames) + 1 /\ frames'[m] = f /\ frames'[n] = f
      BY <1>4
<1> QED BY <1>1, <1>2, <1>3, <1>4, Pushed

\* What remains when the current activation returns.
LEMMA Popped ==
    ASSUME Inv, frames # <<>>, Pop
    PROVE  \A n \in 1..Len(frames') : n \in 1..Len(frames) /\ frames'[n] = frames[n]
<1>1. Len(frames) \in Nat /\ Len(frames') = Len(frames) - 1
      BY PopType, JobsOf DEF Inv, TypeOK, Pop
<1>2. \A n \in 1..(Len(frames) - 1) : n \in 1..Len(frames)
      BY <1>1
<1> QED BY <1>1, <1>2, PopType DEF Inv, TypeOK, Pop

\* The main thread executes a job in place: a new activation of one fresh job.
LEMMA CallInPlaceOK ==
    ASSUME Inv, TypeOK', NEW j \in Job, CallInPlace(j)
    PROVE  Inv'
<1> DEFINE f == [kind |-> "inplace", jobs |-> <<j>>, i |-> 1, at |-> "call",
                 asynchronous |-> FALSE]
<1>1. f \in Frame /\ Push(f) /\ obj[j] = "unused"
      BY DEF CallInPlace, NewMainThreadJob, Frame
<1>2. /\ f.kind = "inplace" /\ f.i = 1 /\ f.at = "call" /\ Len(f.jobs) = 1
      /\ \A k \in 1..Len(f.jobs) : k = 1 /\ f.jobs[k] = j
      /\ f.jobs[1] = j
      OBVIOUS
<1> HIDE DEF f
<1>3. \A x \in Job : x # j => obj'[x] = obj[x] /\ waits'[x] = waits[x]
      BY DEF CallInPlace, NewMainThreadJob, Inv, TypeOK
<1>4. obj'[j] = "live" /\ waits'[j] = TRUE /\ UNCHANGED <<mainThreadJobs, outcome, sem, answer, pc, job>>
      BY DEF CallInPlace, NewMainThreadJob, Inv, TypeOK, callerVars
<1>5. outcome[j] = "none"
      BY <1>1 DEF Inv, ObjectOK
<1>6. \A n \in 1..Len(frames') :
        \/ n \in 1..Len(frames) /\ frames'[n] = frames[n]
        \/ n = Len(frames) + 1 /\ frames'[n] = f
      BY <1>1, Pushed
<1>7. \A n \in 1..Len(frames) : \A k \in Positions(n) :
         frames[n].jobs[k] # j /\ frames[n].jobs[k] \in Job
      BY <1>1, UnusedIsNowhere, JobsOf DEF Inv
<1>8. \A a \in 1..Len(mainThreadJobs) : mainThreadJobs[a] # j /\ mainThreadJobs[a] \in Job
      BY <1>1, UnusedIsNowhere, JobsOf DEF Inv
<1>9. Distinct'
  <2>1. \A m, n \in 1..Len(frames') :
           \A a \in 1..Len(frames'[m].jobs), b \in 1..Len(frames'[n].jobs) :
              frames'[m].jobs[a] = frames'[n].jobs[b] => m = n /\ a = b
        BY <1>1, <1>2, <1>7, PushDistinct
  <2>2. \A a \in 1..Len(mainThreadJobs), n \in 1..Len(frames') :
           \A b \in 1..Len(frames'[n].jobs) : mainThreadJobs[a] # frames'[n].jobs[b]
        BY <1>2, <1>6, <1>8 DEF Inv, Distinct, Positions
  <2> QED BY <1>4, <2>1, <2>2 DEF Inv, Distinct, Positions
<1>10. QueuedOK'
      BY <1>3, <1>4, <1>8 DEF Inv, QueuedOK, Fresh
<1>11. FrameOK'
      BY <1>2, <1>3, <1>4, <1>5, <1>6, <1>7 DEF Inv, FrameOK, Fresh, Pending, Positions
<1>12. FlagOK'
      BY <1>2, <1>3, <1>4, <1>6, <1>7, IndexInBatch DEF Inv, FlagOK
<1>13. CallerOK'
  <2>1. \A u \in Background : pc[u] # "idle" => job[u] \in Job /\ job[u] # j
        BY <1>1, UnusedIsNowhere DEF Inv, TypeOK
  <2> QED BY <1>2, <1>3, <1>4, <1>6, <2>1 DEF Inv, CallerOK, Positions
<1>14. ObjectOK'
      BY <1>1, <1>3, <1>4 DEF Inv, ObjectOK
<1> QED BY <1>9, <1>10, <1>11, <1>12, <1>13, <1>14 DEF Inv

\* The queue becomes the batch of a new activation.
LEMMA RunMainThreadJobsOK ==
    ASSUME Inv, TypeOK', RunMainThreadJobs
    PROVE  Inv'
<1> DEFINE f == [kind |-> "batch", jobs |-> mainThreadJobs, i |-> 1, at |-> "next",
                 asynchronous |-> FALSE]
<1>1. f \in Frame /\ Push(f)
      BY DEF RunMainThreadJobs, Frame, Inv, TypeOK
<1>2. f.kind = "batch" /\ f.at = "next" /\ f.jobs = mainThreadJobs
      OBVIOUS
<1> HIDE DEF f
<1>3. mainThreadJobs' = <<>> /\ UNCHANGED <<obj, waits, outcome, sem, answer, pc, job>>
      BY DEF RunMainThreadJobs, callerVars
<1>4. Len(mainThreadJobs') = 0
      BY <1>3
<1>5. \A n \in 1..Len(frames') :
        \/ n \in 1..Len(frames) /\ frames'[n] = frames[n]
        \/ n = Len(frames) + 1 /\ frames'[n] = f
      BY <1>1, Pushed
<1>6. Distinct'
  <2>1. \A m, n \in 1..Len(frames') :
           \A a \in 1..Len(frames'[m].jobs), b \in 1..Len(frames'[n].jobs) :
              frames'[m].jobs[a] = frames'[n].jobs[b] => m = n /\ a = b
    <3>1. \A a, b \in 1..Len(f.jobs) : f.jobs[a] = f.jobs[b] => a = b
          BY <1>2 DEF Inv, Distinct
    <3>2. \A n \in 1..Len(frames) : \A a \in Positions(n), b \in 1..Len(f.jobs) :
             frames[n].jobs[a] # f.jobs[b]
          BY <1>2 DEF Inv, Distinct
    <3> QED BY <1>1, <3>1, <3>2, PushDistinct
  <2> QED BY <1>4, <2>1 DEF Distinct, Positions
<1>7. QueuedOK'
      BY <1>4 DEF QueuedOK
<1>8. FrameOK'
      BY <1>2, <1>3, <1>5 DEF Inv, FrameOK, QueuedOK, Fresh, Pending, Positions
<1>9. FlagOK'
      BY <1>2, <1>3, <1>5 DEF Inv, FlagOK
<1>10. CallerOK'
      BY <1>2, <1>3, <1>5 DEF Inv, CallerOK, Positions
<1>11. ObjectOK'
      BY <1>3 DEF Inv, ObjectOK
<1> QED BY <1>6, <1>7, <1>8, <1>9, <1>10, <1>11 DEF Inv

\* The activation on top, replaced by one of the same batch.
LEMMA Replaced ==
    ASSUME Inv, frames # <<>>, NEW f \in Frame, f.jobs = Top.jobs, f.kind = Top.kind, SetTop(f)
    PROVE  /\ Len(frames') = Len(frames)
           /\ Len(frames) \in 1..Len(frames)
           /\ \A n \in 1..Len(frames) :
                 /\ frames'[n].jobs = frames[n].jobs /\ frames'[n].kind = frames[n].kind
                 /\ n # Len(frames) => frames'[n] = frames[n]
                 /\ n = Len(frames) => frames'[n] = f /\ frames[n] = Top
           /\ UNCHANGED mainThreadJobs => Distinct'
<1>1. /\ Len(frames') = Len(frames) /\ frames'[Len(frames)] = f
      /\ \A n \in 1..Len(frames) : n # Len(frames) => frames'[n] = frames[n]
      BY SetTopType DEF Inv
<1>2. Len(frames) \in 1..Len(frames)
      BY TopType DEF Inv
<1>3. \A n \in 1..Len(frames) : frames'[n].jobs = frames[n].jobs /\ frames'[n].kind = frames[n].kind
      BY <1>1 DEF Top
<1>4. UNCHANGED mainThreadJobs => Distinct'
  <2> SUFFICES ASSUME UNCHANGED mainThreadJobs PROVE Distinct'
      OBVIOUS
  <2>1. \A n \in 1..Len(frames) : Positions(n)' = Positions(n)
        BY <1>3 DEF Positions
  <2>2. \A m, n \in 1..Len(frames) : \A a \in Positions(m), b \in Positions(n) :
           frames'[m].jobs[a] = frames'[n].jobs[b] => m = n /\ a = b
        BY <1>3 DEF Inv, Distinct
  <2>3. \A a \in 1..Len(mainThreadJobs), n \in 1..Len(frames) : \A b \in Positions(n) :
           mainThreadJobs[a] # frames'[n].jobs[b]
        BY <1>3 DEF Inv, Distinct
  <2> HIDE DEF Positions
  <2> QED BY <1>1, <2>1, <2>2, <2>3 DEF Inv, Distinct
<1> QED BY <1>1, <1>2, <1>3, <1>4 DEF Top

\* The next job of the batch is begun, and the flag that says who deletes it is read.
LEMMA ExecuteNextOK ==
    ASSUME Inv, TypeOK', ExecuteNext
    PROVE  Inv'
<1> DEFINE f == [Top EXCEPT !.at = "call", !.asynchronous = ~waits[Current]]
<1>1. /\ frames # <<>> /\ Top \in Frame /\ Current \in Job /\ Top.i <= Len(Top.jobs)
      /\ SetTop(f) /\ Top.kind = "batch" /\ Top.at = "next"
      BY TopType DEF Inv, ExecuteNext, MainAt
<1>2. f \in Frame /\ f.i = Top.i /\ f.jobs = Top.jobs /\ f.kind = Top.kind
      BY <1>1 DEF Inv, TypeOK, Frame
<1>3. f.at = "call" /\ f.asynchronous = ~waits[Current]
      BY <1>1 DEF Frame
<1> HIDE DEF f
<1>4. UNCHANGED <<mainThreadJobs, obj, waits, outcome, sem, answer, pc, job>>
      BY DEF ExecuteNext, callerVars
<1>5. Distinct'
      BY <1>1, <1>2, <1>4, Replaced
<1>6. QueuedOK'
      BY <1>4 DEF Inv, QueuedOK, Fresh
<1>7. \A n \in 1..Len(frames) : \A k \in Positions(n) :
         Pending(frames'[n], k) => Pending(frames[n], k)
      BY <1>1, <1>2, <1>3, Replaced DEF Pending
<1>8. FrameOK'
      BY <1>1, <1>2, <1>3, <1>4, <1>7, Replaced DEF Inv, FrameOK, Fresh, Positions
<1>9. FlagOK'
      BY <1>1, <1>2, <1>3, <1>4, Replaced DEF Inv, FlagOK, Current
<1>10. CallerOK'
      BY <1>1, <1>2, <1>4, Replaced DEF Inv, CallerOK, Positions
<1>11. ObjectOK'
      BY <1>4 DEF Inv, ObjectOK
<1> QED BY <1>5, <1>6, <1>8, <1>9, <1>10, <1>11 DEF Inv

\* The job that the main thread is executing.
LEMMA CurrentPosition ==
    ASSUME Inv, frames # <<>>, Top.i <= Len(Top.jobs)
    PROVE  /\ Len(frames) \in 1..Len(frames) /\ Top.i \in Positions(Len(frames))
           /\ frames[Len(frames)].jobs[Top.i] = Current
           /\ \A a \in 1..Len(mainThreadJobs) : mainThreadJobs[a] # Current
           /\ \A n \in 1..Len(frames) : \A k \in Positions(n) :
                 frames[n].jobs[k] = Current => n = Len(frames) /\ k = Top.i
<1>1. Len(frames) \in 1..Len(frames) /\ Top \in Frame
      BY TopType DEF Inv
<1>2. Top.i \in Positions(Len(frames)) /\ frames[Len(frames)].jobs[Top.i] = Current
      BY <1>1, JobsOf DEF Inv, Positions, Top, Current
<1> QED BY <1>1, <1>2 DEF Inv, Distinct

\* The outcome is kept and a waiting caller let go.
LEMMA MethodReturnsOK ==
    ASSUME Inv, TypeOK', MethodReturns
    PROVE  Inv'
<1> DEFINE f == [Top EXCEPT !.at = "after"]
<1>1. /\ frames # <<>> /\ Top \in Frame /\ Current \in Job /\ Top.i <= Len(Top.jobs)
      /\ SetTop(f) /\ Top.at = "call"
      BY TopType DEF Inv, MethodReturns, InMethod, Frame
<1>2. /\ f \in Frame /\ f.i = Top.i /\ f.jobs = Top.jobs /\ f.kind = Top.kind
      /\ f.asynchronous = Top.asynchronous /\ f.at = "after"
      BY <1>1 DEF Frame
<1> HIDE DEF f
<1>3. UNCHANGED <<mainThreadJobs, obj, waits, answer, pc, job>>
      BY DEF MethodReturns, callerVars
<1>4. /\ \A x \in Job : x # Current => outcome'[x] = outcome[x] /\ sem'[x] = sem[x]
      /\ outcome'[Current] \in Outcome /\ outcome'[Current] # "none"
      BY <1>1 DEF MethodReturns, Inv, TypeOK, Outcome
<1>5. Fresh(Current)
      BY <1>1, CurrentPosition DEF Inv, FrameOK, Pending, Top
<1>6. \A n \in 1..Len(frames) : \A k \in Positions(n) :
         /\ frames[n].jobs[k] \in Job
         /\ frames[n].jobs[k] = Current => n = Len(frames) /\ k = Top.i
      BY <1>1, CurrentPosition, JobsOf DEF Inv
<1>7. Distinct'
      BY <1>1, <1>2, <1>3, Replaced
<1>8. QueuedOK'
      BY <1>1, <1>3, <1>4, CurrentPosition, JobsOf DEF Inv, QueuedOK, Fresh
<1>9. FrameOK'
  <2>1. \A n \in 1..Len(frames) : \A k \in Positions(n) :
           Pending(frames'[n], k) => Pending(frames[n], k) /\ frames[n].jobs[k] # Current
        BY <1>1, <1>2, <1>6, Replaced, JobsOf DEF Pending, Inv
  <2>2. \A n \in 1..Len(frames) : \A k \in Positions(n) :
           Pending(frames'[n], k) => /\ obj'[frames'[n].jobs[k]] = "live"
                                     /\ outcome'[frames'[n].jobs[k]] = "none"
    <3> SUFFICES ASSUME NEW n \in 1..Len(frames), NEW k \in Positions(n), Pending(frames'[n], k)
                 PROVE  /\ obj'[frames'[n].jobs[k]] = "live"
                        /\ outcome'[frames'[n].jobs[k]] = "none"
        OBVIOUS
    <3>1. Fresh(frames[n].jobs[k])
          BY <2>1 DEF Inv, FrameOK
    <3>2. frames'[n].jobs = frames[n].jobs
          BY <1>1, <1>2, Replaced
    <3> QED BY <1>3, <1>4, <1>6, <2>1, <3>1, <3>2 DEF Fresh
  <2>3. \A n \in 1..Len(frames) : \A k \in Positions(n) :
           k = frames'[n].i /\ frames'[n].at = "after" =>
              /\ outcome'[frames'[n].jobs[k]] # "none"
              /\ frames'[n].kind = "inplace" \/ frames'[n].asynchronous
                    => obj[frames'[n].jobs[k]] = "live"
        BY <1>1, <1>2, <1>3, <1>4, <1>5, <1>6, CurrentPosition, Replaced DEF Inv, FrameOK, Fresh
  <2>4. \A n \in 1..Len(frames) : Positions(n)' = Positions(n)
        BY <1>1, <1>2, Replaced DEF Positions
  <2>5. Len(frames') = Len(frames)
        BY <1>1, <1>2, Replaced
  <2>6. \A n \in 1..Len(frames) : \A k \in Positions(n) : obj[frames'[n].jobs[k]] # "unused"
        BY <1>1, <1>2, Replaced DEF Inv, FrameOK
  <2> QED BY <1>3, <2>2, <2>3, <2>4, <2>5, <2>6 DEF FrameOK, Fresh
<1>10. FlagOK'
      BY <1>1, <1>2, <1>3, Replaced DEF Inv, FlagOK
<1>11. CallerOK'
      BY <1>1, <1>2, <1>3, Replaced DEF Inv, CallerOK, Positions
<1>12. ObjectOK'
      BY <1>1, <1>3, <1>4, <1>5 DEF Inv, ObjectOK, Fresh
<1> QED BY <1>7, <1>8, <1>9, <1>10, <1>11, <1>12 DEF Inv

\* The main thread deletes the job, or leaves it to its caller.
LEMMA AfterExecuteOK ==
    ASSUME Inv, TypeOK', AfterExecute
    PROVE  Inv'
<1> DEFINE f == [Top EXCEPT !.at = "next", !.i = @ + 1]
<1>1. /\ frames # <<>> /\ Top \in Frame /\ Current \in Job /\ Top.i <= Len(Top.jobs)
      /\ SetTop(f) /\ Top.at = "after" /\ Top.kind = "batch"
      BY TopType DEF Inv, AfterExecute, MainAt, Frame
<1>2. /\ f \in Frame /\ f.i = Top.i + 1 /\ f.jobs = Top.jobs /\ f.kind = Top.kind
      /\ f.at = "next"
      BY <1>1, Top.i + 1 \in Nat \ {0} DEF Frame
<1> HIDE DEF f
<1>3. UNCHANGED <<mainThreadJobs, outcome, waits, sem, answer, pc, job>>
      BY DEF AfterExecute, callerVars
<1>4. /\ \A x \in Job : x # Current => obj'[x] = obj[x]
      /\ obj'[Current] # "unused"
      /\ obj'[Current] # obj[Current] => Top.asynchronous /\ obj'[Current] = "freed"
  <2>1. obj[Current] # "unused" /\ obj \in [Job -> {"unused", "live", "freed"}]
    <3>1. Len(frames) \in 1..Len(frames) /\ Top.i \in Positions(Len(frames))
          /\ frames[Len(frames)].jobs[Top.i] = Current
          BY <1>1, CurrentPosition
    <3> QED BY <3>1 DEF Inv, TypeOK, FrameOK
  <2>2. obj' = IF Top.asynchronous THEN [obj EXCEPT ![Current] = "freed"] ELSE obj
        BY DEF AfterExecute
  <2> QED BY <1>1, <2>1, <2>2
<1>5. \A n \in 1..Len(frames) : \A k \in Positions(n) :
         /\ frames[n].jobs[k] \in Job
         /\ frames[n].jobs[k] = Current => n = Len(frames) /\ k = Top.i
      BY <1>1, CurrentPosition, JobsOf DEF Inv
<1>6. outcome[Current] # "none"
      BY <1>1, CurrentPosition DEF Inv, FrameOK, Top
<1>7. Top.asynchronous = ~waits[Current]
      BY <1>1, CurrentPosition DEF Inv, FlagOK, Top, Current
<1>8. Distinct'
      BY <1>1, <1>2, <1>3, Replaced
<1>9. QueuedOK'
      BY <1>1, <1>3, <1>4, CurrentPosition, JobsOf DEF Inv, QueuedOK, Fresh
<1>10. FrameOK'
  <2>1. \A n \in 1..Len(frames) : \A k \in Positions(n) :
           Pending(frames'[n], k) => Pending(frames[n], k) /\ frames[n].jobs[k] # Current
    <3> SUFFICES ASSUME NEW n \in 1..Len(frames), NEW k \in Positions(n), Pending(frames'[n], k)
                 PROVE  Pending(frames[n], k) /\ frames[n].jobs[k] # Current
        OBVIOUS
    <3>1. CASE n # Len(frames)
          BY <1>1, <1>2, <1>5, <3>1, Replaced
    <3>2. CASE n = Len(frames)
      <4>1. k \in Nat /\ Top.i \in Nat /\ frames[n] = Top /\ frames'[n] = f
            BY <1>1, <1>2, <3>2, Replaced, JobsOf DEF Inv, Positions
      <4>2. k > Top.i
            BY <1>2, <4>1 DEF Pending
      <4> QED BY <1>5, <4>1, <4>2 DEF Pending
    <3> QED BY <3>1, <3>2
  <2>2. \A n \in 1..Len(frames) : \A k \in Positions(n) :
           Pending(frames'[n], k) => /\ obj'[frames'[n].jobs[k]] = "live"
                                     /\ outcome'[frames'[n].jobs[k]] = "none"
    <3> SUFFICES ASSUME NEW n \in 1..Len(frames), NEW k \in Positions(n), Pending(frames'[n], k)
                 PROVE  /\ obj'[frames'[n].jobs[k]] = "live"
                        /\ outcome'[frames'[n].jobs[k]] = "none"
        OBVIOUS
    <3>1. Fresh(frames[n].jobs[k])
          BY <2>1 DEF Inv, FrameOK
    <3>2. frames'[n].jobs = frames[n].jobs
          BY <1>1, <1>2, Replaced
    <3> QED BY <1>3, <1>4, <1>5, <2>1, <3>1, <3>2 DEF Fresh
  <2>3. \A n \in 1..Len(frames) : \A k \in Positions(n) :
           k = frames'[n].i /\ frames'[n].at = "after" =>
              /\ outcome'[frames'[n].jobs[k]] # "none"
              /\ frames'[n].kind = "inplace" \/ frames'[n].asynchronous
                    => obj'[frames'[n].jobs[k]] = "live"
    <3> SUFFICES ASSUME NEW n \in 1..Len(frames), NEW k \in Positions(n),
                        k = frames'[n].i, frames'[n].at = "after"
                 PROVE  /\ outcome'[frames'[n].jobs[k]] # "none"
                        /\ frames'[n].kind = "inplace" \/ frames'[n].asynchronous
                              => obj'[frames'[n].jobs[k]] = "live"
        OBVIOUS
    <3>1. n # Len(frames) /\ frames'[n] = frames[n]
          BY <1>1, <1>2, Replaced
    <3>2. frames[n].jobs[k] # Current
          BY <1>5, <3>1
    <3> QED BY <1>3, <1>4, <1>5, <3>1, <3>2 DEF Inv, FrameOK
  <2>4. \A n \in 1..Len(frames) : Positions(n)' = Positions(n)
        BY <1>1, <1>2, Replaced DEF Positions
  <2>5. Len(frames') = Len(frames)
        BY <1>1, <1>2, Replaced
  <2>6. \A n \in 1..Len(frames) : \A k \in Positions(n) : obj'[frames'[n].jobs[k]] # "unused"
        BY <1>1, <1>2, <1>4, <1>5, Replaced DEF Inv, FrameOK
  <2> QED BY <2>2, <2>3, <2>4, <2>5, <2>6 DEF FrameOK, Fresh
<1>11. FlagOK'
      BY <1>1, <1>2, <1>3, Replaced DEF Inv, FlagOK
<1>12. CallerOK'
  <2>1. \A t \in Background : pc[t] # "idle" =>
           /\ job[t] \in Job
           /\ obj'[job[t]] # "unused"
           /\ waits[job[t]] => obj'[job[t]] = "live"
    <3> SUFFICES ASSUME NEW t \in Background, pc[t] # "idle"
                 PROVE  /\ job[t] \in Job
                        /\ obj'[job[t]] # "unused"
                        /\ waits[job[t]] => obj'[job[t]] = "live"
        OBVIOUS
    <3>1. /\ job[t] \in Job /\ obj[job[t]] # "unused"
          /\ waits[job[t]] => obj[job[t]] = "live"
          BY DEF Inv, TypeOK, CallerOK
    <3>2. CASE job[t] = Current
          BY <1>4, <1>7, <3>1, <3>2
    <3>3. CASE job[t] # Current
          BY <1>4, <3>1, <3>3
    <3> QED BY <3>2, <3>3
  <2> QED BY <1>1, <1>2, <1>3, <2>1, Replaced DEF Inv, CallerOK, Positions
<1>13. ObjectOK'
      BY <1>1, <1>3, <1>4, <1>6 DEF Inv, TypeOK, ObjectOK
<1> QED BY <1>8, <1>9, <1>10, <1>11, <1>12, <1>13 DEF Inv

\* An activation ends, and the objects deleted with it are in no other place.
LEMMA PopOK ==
    ASSUME Inv, TypeOK', frames # <<>>, Pop,
           UNCHANGED <<mainThreadJobs, waits, outcome, pc, job>>,
           \A x \in Job :
              \/ obj'[x] = obj[x]
              \/ /\ outcome[x] # "none"
                 /\ \A n \in 1..Len(frames') : \A k \in Positions(n) : frames[n].jobs[k] # x
                 /\ \A t \in Background : pc[t] # "idle" => job[t] # x
    PROVE  Distinct' /\ QueuedOK' /\ FrameOK' /\ FlagOK' /\ CallerOK'
<1>0. \A n \in 1..Len(frames') : /\ frames'[n] = frames[n] /\ n \in 1..Len(frames)
                                 /\ Positions(n)' = Positions(n)
      BY Popped DEF Positions
<1>1. Distinct'
  <2>1. \A m, n \in 1..Len(frames') : \A a \in Positions(m), b \in Positions(n) :
           frames'[m].jobs[a] = frames'[n].jobs[b] => m = n /\ a = b
        BY <1>0 DEF Inv, Distinct
  <2>2. \A a \in 1..Len(mainThreadJobs), n \in 1..Len(frames') : \A b \in Positions(n) :
           mainThreadJobs[a] # frames'[n].jobs[b]
        BY <1>0 DEF Inv, Distinct
  <2> QED BY <1>0, <2>1, <2>2 DEF Inv, Distinct
<1>2. QueuedOK'
      BY JobsOf DEF Inv, QueuedOK, Fresh
<1>3. FrameOK'
  <2>1. \A n \in 1..Len(frames') : \A k \in Positions(n) :
           /\ obj'[frames[n].jobs[k]] = obj[frames[n].jobs[k]]
           /\ outcome'[frames[n].jobs[k]] = outcome[frames[n].jobs[k]]
        BY <1>0, JobsOf DEF Inv
  <2> QED BY <1>0, <2>1 DEF Inv, FrameOK, Fresh
<1>4. FlagOK'
      BY <1>0 DEF Inv, FlagOK
<1>5. CallerOK'
  <2>1. \A t \in Background : pc[t] # "idle" => job[t] \in Job
        BY DEF Inv, TypeOK
  <2>2. \A t \in Background : pc[t] # "idle" => obj'[job[t]] = obj[job[t]]
        BY <2>1
  <2> QED BY <1>0, <2>2 DEF Inv, CallerOK
<1> QED BY <1>1, <1>2, <1>3, <1>4, <1>5

\* A batch that is done is dropped.
LEMMA BatchDoneOK ==
    ASSUME Inv, TypeOK', BatchDone
    PROVE  Inv'
<1>1. frames # <<>> /\ Pop /\ UNCHANGED <<mainThreadJobs, obj, waits, outcome, sem, answer, pc, job>>
      BY DEF BatchDone, MainAt, callerVars
<1>2. Distinct' /\ QueuedOK' /\ FrameOK' /\ FlagOK' /\ CallerOK'
      BY <1>1, PopOK
<1>3. ObjectOK'
      BY <1>1 DEF Inv, ObjectOK
<1> QED BY <1>2, <1>3 DEF Inv

\* A job executed in place is deleted when its activation returns.
LEMMA InPlaceDoneOK ==
    ASSUME Inv, TypeOK', InPlaceDone
    PROVE  Inv'
<1>1. /\ frames # <<>> /\ Pop /\ Top.kind = "inplace" /\ Top.at = "after"
      /\ Current \in Job /\ Top.i <= Len(Top.jobs)
      /\ UNCHANGED <<mainThreadJobs, waits, outcome, pc, job>>
      BY TopType DEF Inv, InPlaceDone, MainAt, callerVars, Frame
<1>2. /\ obj'[Current] = "freed" /\ sem[Current] = 1 /\ sem'[Current] = 0
      /\ answer'[Current] = ResultOf(Current)
      /\ \A x \in Job : x # Current =>
            obj'[x] = obj[x] /\ sem'[x] = sem[x] /\ answer'[x] = answer[x]
      BY <1>1 DEF InPlaceDone, Inv, TypeOK
<1>3. outcome[Current] \in Outcome /\ ResultOf(Current) = outcome[Current] /\ outcome[Current] # "none"
      BY <1>1, <1>2 DEF Inv, TypeOK, ObjectOK, ResultOf, Outcome
<1>4. /\ \A n \in 1..Len(frames') : \A k \in Positions(n) : frames[n].jobs[k] # Current
      /\ \A t \in Background : pc[t] # "idle" => job[t] # Current
  <2>1. Len(frames') = Len(frames) - 1 /\ Len(frames) \in Nat
        BY <1>1, PopType, JobsOf DEF Inv, TypeOK, Pop
  <2>2. \A n \in 1..(Len(frames) - 1) : n \in 1..Len(frames) /\ n # Len(frames)
        BY <2>1
  <2>3. \A t \in Background : pc[t] # "idle" => job[t] # Current
        BY <1>1, CurrentPosition DEF Inv, CallerOK, Top
  <2> QED BY <1>1, <2>1, <2>2, <2>3, CurrentPosition
<1>5. Distinct' /\ QueuedOK' /\ FrameOK' /\ FlagOK' /\ CallerOK'
  <2>1. \A x \in Job :
           \/ obj'[x] = obj[x]
           \/ /\ outcome[x] # "none"
              /\ \A n \in 1..Len(frames') : \A k \in Positions(n) : frames[n].jobs[k] # x
              /\ \A t \in Background : pc[t] # "idle" => job[t] # x
        BY <1>2, <1>3, <1>4
  <2> QED BY <1>1, <2>1, PopOK
<1>6. ObjectOK'
      BY <1>1, <1>2, <1>3 DEF Inv, ObjectOK
<1> QED BY <1>5, <1>6 DEF Inv

\* The inductive invariant holds initially ...
LEMMA InvInit == Init => Inv
<1> SUFFICES ASSUME Init PROVE Inv
    OBVIOUS
<1>1. Len(mainThreadJobs) = 0 /\ Len(frames) = 0
      BY DEF Init
<1>2. Distinct /\ QueuedOK /\ FrameOK /\ FlagOK
      BY <1>1 DEF Distinct, QueuedOK, FrameOK, FlagOK
<1>3. CallerOK /\ ObjectOK
      BY DEF Init, CallerOK, ObjectOK
<1> QED BY <1>2, <1>3, TypeInit DEF Inv

\* ... and every step of the host keeps it.
LEMMA InvNext == Inv /\ [Next]_vars => Inv'
<1> SUFFICES ASSUME Inv, [Next]_vars PROVE Inv'
    OBVIOUS
<1>0. TypeOK'
      BY TypeNext DEF Inv
<1>1. ASSUME NEW t \in Background, NEW j \in Job, Enqueue(t, j) PROVE Inv'
      BY <1>0, <1>1, EnqueueOK
<1>2. ASSUME NEW t \in Background, Signal(t) PROVE Inv'
      BY <1>0, <1>2, SignalOK
<1>3. ASSUME NEW t \in Background, Collect(t) PROVE Inv'
      BY <1>0, <1>3, CollectOK
<1>4. ASSUME NEW j \in Job, CallInPlace(j) PROVE Inv'
      BY <1>0, <1>4, CallInPlaceOK
<1>5. ASSUME NEW j \in Job, MainEnqueue(j) PROVE Inv'
      BY <1>0, <1>5, MainEnqueueOK
<1>6. CASE RunMainThreadJobs
      BY <1>0, <1>6, RunMainThreadJobsOK
<1>7. CASE ExecuteNext
      BY <1>0, <1>7, ExecuteNextOK
<1>8. CASE MethodReturns
      BY <1>0, <1>8, MethodReturnsOK
<1>9. CASE AfterExecute
      BY <1>0, <1>9, AfterExecuteOK
<1>10. CASE BatchDone
      BY <1>0, <1>10, BatchDoneOK
<1>11. CASE InPlaceDone
      BY <1>0, <1>11, InPlaceDoneOK
<1>12. CASE Exit \/ LoopEnds \/ UNCHANGED vars
  <2>1. UNCHANGED <<mainThreadJobs, obj, waits, outcome, sem, answer, frames, pc, job>>
        BY <1>12 DEF Exit, LoopEnds, vars, callerVars
  <2>2. Distinct' /\ QueuedOK'
        BY <2>1 DEF Inv, Distinct, QueuedOK, Fresh, Positions
  <2>3. FrameOK'
        BY <2>1 DEF Inv, FrameOK, Fresh, Positions, Pending
  <2>4. FlagOK' /\ CallerOK'
        BY <2>1 DEF Inv, FlagOK, CallerOK, Positions
  <2>5. ObjectOK'
        BY <2>1 DEF Inv, ObjectOK
  <2> QED BY <1>0, <2>2, <2>3, <2>4, <2>5 DEF Inv
<1> QED BY <1>1, <1>2, <1>3, <1>4, <1>5, <1>6, <1>7, <1>8, <1>9, <1>10, <1>11, <1>12
        DEF Next, Caller, MainStep

\* It holds in every reachable state.
LEMMA Invariance == Spec => []Inv
  BY InvInit, InvNext, PTL DEF Spec

-----------------------------------------------------------------------------
(* What follows from the invariant.                                          *)

\* No thread touches a deleted job: the queue, the activations and the blocked
\* callers only hold live objects.
THEOREM NoUseAfterDelete == Spec => []NoJobUsedAfterDelete
<1>1. Inv => NoJobUsedAfterDelete
  <2> SUFFICES ASSUME Inv PROVE NoJobUsedAfterDelete
      OBVIOUS
  <2>1. \A k \in 1..Len(mainThreadJobs) : obj[mainThreadJobs[k]] = "live"
        BY DEF Inv, QueuedOK, Fresh
  <2>2. ASSUME NEW n \in 1..Len(frames), NEW k \in Positions(n), StillUsed(frames[n], k)
        PROVE  obj[frames[n].jobs[k]] = "live"
    <3>1. CASE Pending(frames[n], k)
          BY <3>1 DEF Inv, FrameOK, Fresh
    <3>2. CASE k = frames[n].i /\ frames[n].at = "after"
          BY <2>2, <3>2 DEF Inv, FrameOK, Fresh, StillUsed
    <3>3. CASE k = frames[n].i /\ frames[n].at # "after"
      <4>1. frames[n].at \in {"next", "call", "after"}
            BY JobsOf DEF Inv, Frame
      <4> QED BY <3>1, <3>3, <4>1 DEF Pending
    <3> QED BY <2>2, <3>1, <3>2, <3>3 DEF StillUsed
  <2>3. \A t \in Background : pc[t] = "wait" => obj[job[t]] = "live"
        BY DEF Inv, CallerOK
  <2> QED BY <2>1, <2>2, <2>3 DEF NoJobUsedAfterDelete, Positions
<1> QED BY <1>1, Invariance, PTL

\* What RunOnMainThread gives to a waiting caller is what its method produced.
THEOREM CallerGetsItsOutcome == Spec => []AnswerIsOutcome
<1>1. Inv => AnswerIsOutcome
      BY DEF Inv, ObjectOK, AnswerIsOutcome
<1> QED BY <1>1, Invariance, PTL

\* While jobs are queued, something is going to make the main loop run them.
THEOREM JobsAreSignalled == Spec => []NoLostWakeup
<1> DEFINE Safe == TypeOK /\ NoLostWakeup
<1>1. Init => Safe
      BY TypeInit DEF Init, NoLostWakeup
<1>2. Safe /\ [Next]_vars => Safe'
  <2> SUFFICES ASSUME Safe, [Next]_vars PROVE NoLostWakeup'
      BY TypeNext
  <2>1. ASSUME NEW t \in Background, NEW j \in Job, Enqueue(t, j) PROVE NoLostWakeup'
        BY <2>1 DEF Enqueue, TypeOK, NoLostWakeup
  <2>2. ASSUME NEW t \in Background, Signal(t) PROVE NoLostWakeup'
        BY <2>2 DEF Signal, SignalNewMainThreadJob, TypeOK, NoLostWakeup
  <2>3. ASSUME NEW t \in Background, Collect(t) PROVE NoLostWakeup'
        BY <2>3 DEF Collect, TypeOK, NoLostWakeup
  <2>4. ASSUME NEW j \in Job, CallInPlace(j) PROVE NoLostWakeup'
        BY <2>4 DEF CallInPlace, callerVars, NoLostWakeup
  <2>5. ASSUME NEW j \in Job, MainEnqueue(j) PROVE NoLostWakeup'
        BY <2>5 DEF MainEnqueue, SignalNewMainThreadJob, TypeOK, NoLostWakeup
  <2>6. CASE RunMainThreadJobs
        BY <2>6 DEF RunMainThreadJobs, NoLostWakeup
  <2>7. CASE InPlaceDone
        BY <2>7 DEF InPlaceDone, SignalNewMainThreadJob, TypeOK, NoLostWakeup
  <2>8. CASE ExecuteNext \/ MethodReturns \/ AfterExecute \/ BatchDone \/ Exit \/ LoopEnds
             \/ UNCHANGED vars
    <3>1. UNCHANGED <<mainThreadJobs, tickles, pc>>
          BY <2>8 DEF ExecuteNext, MethodReturns, AfterExecute, BatchDone, Exit, LoopEnds,
                      vars, callerVars
    <3> QED BY <3>1 DEF NoLostWakeup
  <2> QED BY <2>1, <2>2, <2>3, <2>4, <2>5, <2>6, <2>7, <2>8 DEF Next, Caller, MainStep
<1> QED BY <1>1, <1>2, PTL DEF Spec

\* The outcome of a job is written by the method's return only, and only once.
LEMMA OutcomeStep ==
    ASSUME Inv, [Next]_vars
    PROVE  \/ UNCHANGED outcome
           \/ /\ MethodReturns /\ Current \in Job /\ Fresh(Current)
              /\ \E r \in Outcome : outcome' = [outcome EXCEPT ![Current] = r]
<1>1. CASE MethodReturns
  <2>1. frames # <<>> /\ Top.i <= Len(Top.jobs) /\ Current \in Job /\ Top.at = "call"
        BY <1>1, TopType DEF Inv, MethodReturns, InMethod, Frame
  <2>2. Fresh(Current)
        BY <2>1, CurrentPosition DEF Inv, FrameOK, Pending, Top
  <2> QED BY <1>1, <2>1, <2>2 DEF MethodReturns
<1>2. CASE ~MethodReturns
      BY <1>2 DEF Next, Caller, MainStep, Enqueue, Signal, Collect, CallInPlace, MainEnqueue,
         RunMainThreadJobs, ExecuteNext, AfterExecute, BatchDone, InPlaceDone, Exit,
         LoopEnds, vars
<1> QED BY <1>1, <1>2

\* No method is run twice.
THEOREM NeverTwice == Spec => ExecutedOnce
<1>1. Inv /\ [Next]_vars =>
         [\A j \in Job : outcome[j] # "none" => outcome'[j] = outcome[j]]_vars
  <2> SUFFICES ASSUME Inv, [Next]_vars, NEW j \in Job, outcome[j] # "none"
               PROVE  outcome'[j] = outcome[j]
      OBVIOUS
  <2>1. CASE UNCHANGED outcome
        BY <2>1
  <2>2. CASE Current \in Job /\ Fresh(Current)
             /\ \E r \in Outcome : outcome' = [outcome EXCEPT ![Current] = r]
        BY <2>2 DEF Inv, TypeOK, Fresh
  <2> QED BY <2>1, <2>2, OutcomeStep
<1> QED BY <1>1, Invariance, PTL DEF Spec, ExecutedOnce

-----------------------------------------------------------------------------
(* The host implements the calls promised by MainThreadCalls.                *)

\* The abstract state of a job, as the refinement mapping has it.
CallState(j) ==
    IF obj[j] = "unused" THEN "new"
    ELSE IF outcome[j] = "none" THEN "called"
    ELSE IF obj[j] = "live" THEN "ran" ELSE "over"

CallStates == [j \in Job |-> CallState(j)]

\* Queueing a job, or executing one in place, is a Call of MainThreadCalls.
LEMMA AbstractCall ==
    ASSUME Inv, TypeOK', NEW j \in Job, NEW w \in BOOLEAN, NewMainThreadJob(j, w),
           UNCHANGED <<outcome, answer>>
    PROVE  Abstraction!Call(j)
<1>1. CallStates[j] = "new"
      BY DEF NewMainThreadJob, CallStates, CallState
<1>2. CallStates' = [CallStates EXCEPT ![j] = "called"]
  <2>1. outcome[j] = "none" /\ obj'[j] = "live" /\ \A x \in Job : x # j => obj'[x] = obj[x]
        BY DEF NewMainThreadJob, Inv, TypeOK, ObjectOK
  <2> QED BY <2>1 DEF CallStates, CallState
<1> QED BY <1>1, <1>2 DEF Abstraction!Call, NewMainThreadJob, CallStates, CallState

\* Deleting a job that has run is a Finish of MainThreadCalls.
LEMMA AbstractFinish ==
    ASSUME Inv, TypeOK', NEW j \in Job, obj[j] = "live", outcome[j] # "none",
           obj' = [obj EXCEPT ![j] = "freed"], UNCHANGED <<outcome, waits>>,
           answer' = IF waits[j] THEN [answer EXCEPT ![j] = outcome[j]] ELSE answer
    PROVE  Abstraction!Finish(j)
<1>1. CallStates[j] = "ran"
      BY DEF CallStates, CallState
<1>2. CallStates' = [CallStates EXCEPT ![j] = "over"]
      BY DEF CallStates, CallState, Inv, TypeOK
<1> QED BY <1>1, <1>2 DEF Abstraction!Finish, CallStates, CallState

\* Spec implements the abstract specification under the refinement mapping.
THEOREM Refinement == Spec => ImplementsCalls
<1>1. Init => Abstraction!Init
      BY DEF Init, Abstraction!Init
<1>2. Inv /\ [Next]_vars => [Abstraction!Next]_(Abstraction!vars)
  <2> SUFFICES ASSUME Inv, [Next]_vars
               PROVE  Abstraction!Next \/ UNCHANGED Abstraction!vars
      OBVIOUS
  <2>0. TypeOK'
        BY TypeNext DEF Inv
  <2>1. ASSUME NEW t \in Background, NEW j \in Job, Enqueue(t, j) PROVE Abstraction!Next
        BY <2>0, <2>1, AbstractCall DEF Enqueue, Abstraction!Next
  <2>2. ASSUME NEW j \in Job, CallInPlace(j) \/ MainEnqueue(j) PROVE Abstraction!Next
        BY <2>0, <2>2, AbstractCall DEF CallInPlace, MainEnqueue, Abstraction!Next
  <2>3. ASSUME NEW t \in Background, Collect(t) PROVE Abstraction!Next
    <3>1. /\ job[t] \in Job /\ waits[job[t]] /\ obj[job[t]] = "live"
          /\ outcome[job[t]] # "none" /\ ResultOf(job[t]) = outcome[job[t]]
          BY <2>3 DEF Collect, Inv, TypeOK, CallerOK, ObjectOK, ResultOf, Outcome
    <3>2. PICK j \in Job : j = job[t]
          BY <3>1
    <3>3. Abstraction!Finish(j)
          BY <2>0, <2>3, <3>1, <3>2, AbstractFinish DEF Collect
    <3> QED BY <3>3 DEF Abstraction!Next
  <2>4. CASE InPlaceDone
    <3>1. /\ frames # <<>> /\ Top.kind = "inplace" /\ Top.at = "after"
          /\ Current \in Job /\ Top.i <= Len(Top.jobs)
          BY <2>4, TopType DEF Inv, InPlaceDone, MainAt, Frame
    <3>2. obj[Current] = "live" /\ outcome[Current] # "none" /\ waits[Current]
          BY <3>1, CurrentPosition DEF Inv, FrameOK, FlagOK, Top, Current
    <3>3. ResultOf(Current) = outcome[Current]
          BY <3>1, <3>2 DEF Inv, TypeOK, ResultOf, Outcome
    <3>4. PICK j \in Job : j = Current
          BY <3>1
    <3>5. Abstraction!Finish(j)
          BY <2>0, <2>4, <3>2, <3>3, <3>4, AbstractFinish DEF InPlaceDone
    <3> QED BY <3>5 DEF Abstraction!Next
  <2>5. CASE MethodReturns
    <3>1. Current \in Job /\ Fresh(Current)
      <4>1. frames # <<>> /\ Top.i <= Len(Top.jobs) /\ Current \in Job /\ Top.at = "call"
            BY <2>5, TopType DEF Inv, MethodReturns, InMethod, Frame
      <4> QED BY <4>1, CurrentPosition DEF Inv, FrameOK, Pending, Top
    <3>2. PICK r \in Outcome : outcome' = [outcome EXCEPT ![Current] = r]
          BY <2>5 DEF MethodReturns
    <3>3. CallStates[Current] = "called" /\ CallStates' = [CallStates EXCEPT ![Current] = "ran"]
      <4>1. UNCHANGED obj /\ outcome'[Current] # "none"
            /\ \A x \in Job : x # Current => outcome'[x] = outcome[x]
            BY <2>5, <3>1, <3>2 DEF MethodReturns, Inv, TypeOK, Outcome
      <4> QED BY <3>1, <4>1 DEF CallStates, CallState, Fresh
    <3>4. PICK j \in Job : j = Current
          BY <3>1
    <3>5. Abstraction!Run(j)
          BY <2>5, <3>2, <3>3, <3>4 DEF Abstraction!Run, Abstraction!Outcome, Outcome,
             MethodReturns, CallStates, CallState
    <3> QED BY <3>5 DEF Abstraction!Next
  <2>6. CASE AfterExecute
    <3>1. /\ frames # <<>> /\ Top.kind = "batch" /\ Top.at = "after"
          /\ Current \in Job /\ Top.i <= Len(Top.jobs)
          BY <2>6, TopType DEF Inv, AfterExecute, MainAt, Frame
    <3>2. CASE Top.asynchronous
      <4>1. obj[Current] = "live" /\ outcome[Current] # "none"
            BY <3>1, <3>2, CurrentPosition DEF Inv, FrameOK, Top
      <4>2. ~waits[Current]
            BY <3>1, <3>2, CurrentPosition DEF Inv, FlagOK, Top, Current
      <4>3. PICK j \in Job : j = Current
            BY <3>1
      <4>4. Abstraction!Finish(j)
            BY <2>0, <2>6, <3>2, <4>1, <4>2, <4>3, AbstractFinish DEF AfterExecute
      <4> QED BY <4>4 DEF Abstraction!Next
    <3>3. CASE ~Top.asynchronous
          BY <2>6, <3>3 DEF AfterExecute, Abstraction!vars
    <3> QED BY <3>2, <3>3
  <2>7. CASE \/ \E t \in Background : Signal(t)
             \/ RunMainThreadJobs \/ ExecuteNext \/ BatchDone \/ Exit \/ LoopEnds
             \/ UNCHANGED vars
    <3>1. UNCHANGED <<obj, waits, outcome, answer>>
          BY <2>7 DEF Signal, RunMainThreadJobs, ExecuteNext, BatchDone, Exit, LoopEnds, vars
    <3> QED BY <3>1 DEF Abstraction!vars
  <2> QED BY <2>1, <2>2, <2>3, <2>4, <2>5, <2>6, <2>7 DEF Next, Caller, MainStep
<1> QED BY <1>1, <1>2, Invariance, PTL DEF Spec, ImplementsCalls, Abstraction!Spec

-----------------------------------------------------------------------------
(***************************************************************************)
(* The order of jobs where no modal loop dispatches them: what was queued  *)
(* is what was begun, what is left of the one batch, at the bottom of the  *)
(* stack, and the queue.                                                   *)
(***************************************************************************)
InBatch == frames # <<>> /\ frames[1].kind = "batch"
FirstLeft == IF frames[1].at = "next" THEN frames[1].i ELSE frames[1].i + 1
Left == IF InBatch THEN Len(frames[1].jobs) - FirstLeft + 1 ELSE 0

Order ==
    /\ \A n \in 2..Len(frames) : frames[n].kind = "inplace"
    /\ Len(posted) = Len(started) + Left + Len(mainThreadJobs)
    /\ \A k \in 1..Len(started) : posted[k] = started[k]
    /\ InBatch => \A k \in 1..Left :
          posted[Len(started) + k] = frames[1].jobs[FirstLeft + k - 1]
    /\ \A k \in 1..Len(mainThreadJobs) :
          posted[Len(started) + Left + k] = mainThreadJobs[k]

\* What is left of a batch is a number of jobs.
LEMMA LeftFacts ==
    ASSUME TypeOK
    PROVE  /\ Left \in Nat
           /\ InBatch => FirstLeft \in Nat \ {0} /\ Len(frames[1].jobs) \in Nat
           /\ Len(posted) \in Nat /\ Len(started) \in Nat /\ Len(mainThreadJobs) \in Nat
           /\ Len(frames) \in Nat /\ (frames # <<>> => Len(frames) # 0)
<1>1. Len(posted) \in Nat /\ Len(started) \in Nat /\ Len(mainThreadJobs) \in Nat
      /\ Len(frames) \in Nat /\ (frames # <<>> => Len(frames) # 0)
      BY EmptySeq DEF TypeOK
<1>2. CASE InBatch
  <2>1. 1 \in 1..Len(frames)
        BY <1>1, <1>2 DEF InBatch
  <2>2. frames[1].i \in Nat \ {0} /\ Len(frames[1].jobs) \in Nat
        BY <2>1, JobsOf
  <2>3. IndexOK(frames[1])
        BY <2>1 DEF TypeOK
  <2>4. FirstLeft \in Nat \ {0} /\ FirstLeft <= Len(frames[1].jobs) + 1
        BY <2>2, <2>3 DEF FirstLeft, IndexOK
  <2>5. \A m, n \in Nat : m <= n + 1 => n - m + 1 \in Nat
        OBVIOUS
  <2>6. Left = Len(frames[1].jobs) - FirstLeft + 1
        BY <1>2 DEF Left
  <2> QED BY <1>1, <2>2, <2>4, <2>5, <2>6
<1> QED BY <1>1, <1>2 DEF Left

\* A batch is begun at the bottom of the stack.
LEMMA BatchAtBottom ==
    ASSUME TypeOK, Order, frames # <<>>, Top.kind = "batch"
    PROVE  Len(frames) = 1 /\ Top = frames[1] /\ InBatch
<1>1. Len(frames) \in Nat /\ Len(frames) # 0
      BY LeftFacts
<1>2. ~(Len(frames) \in 2..Len(frames))
      BY DEF Order, Top
<1> QED BY <1>1, <1>2 DEF Top, InBatch

\* A job is queued: it is the last of both.
LEMMA OrderPosted ==
    ASSUME TypeOK, Order, NEW j \in Job, PushBack(j), UNCHANGED <<frames, started>>
    PROVE  Order'
<1>1. /\ Len(posted') = Len(posted) + 1 /\ posted'[Len(posted) + 1] = j
      /\ \A k \in 1..Len(posted) : posted'[k] = posted[k]
      BY AppendProperties DEF TypeOK, PushBack
<1>2. /\ Len(mainThreadJobs') = Len(mainThreadJobs) + 1
      /\ mainThreadJobs'[Len(mainThreadJobs) + 1] = j
      /\ \A k \in 1..Len(mainThreadJobs) : mainThreadJobs'[k] = mainThreadJobs[k]
      BY AppendProperties DEF TypeOK, PushBack
<1>3. Left' = Left /\ (InBatch' <=> InBatch) /\ FirstLeft' = FirstLeft
      BY DEF Left, InBatch, FirstLeft
<1>4. \A k \in 1..Left : Len(started) + k \in 1..Len(posted)
      BY LeftFacts DEF Order
<1>5. \A k \in 1..Len(started) : k \in 1..Len(posted)
      BY LeftFacts DEF Order
<1>6. \A k \in 1..Len(mainThreadJobs) : Len(started) + Left + k \in 1..Len(posted)
      BY LeftFacts DEF Order
<1>7. \A k \in 1..Len(mainThreadJobs') :
         posted'[Len(started) + Left + k] = mainThreadJobs'[k]
  <2> SUFFICES ASSUME NEW k \in 1..Len(mainThreadJobs')
               PROVE  posted'[Len(started) + Left + k] = mainThreadJobs'[k]
      OBVIOUS
  <2>1. CASE k = Len(mainThreadJobs) + 1
        BY <1>1, <1>2, <2>1, LeftFacts DEF Order
  <2>2. CASE k \in 1..Len(mainThreadJobs)
        BY <1>1, <1>2, <1>6, <2>2 DEF Order
  <2> QED BY <1>2, <2>1, <2>2, LeftFacts
<1>8. Len(posted') = Len(started') + Left' + Len(mainThreadJobs')
      BY <1>1, <1>2, <1>3, LeftFacts DEF Order
<1> QED BY <1>1, <1>3, <1>4, <1>5, <1>7, <1>8 DEF Order

\* The bottom of the stack and what is queued stay as they are.
LEMMA OrderKept ==
    ASSUME Order, \A n \in 2..Len(frames') : frames'[n].kind = "inplace",
           InBatch' <=> InBatch,
           InBatch => FirstLeft' = FirstLeft /\ frames'[1].jobs = frames[1].jobs,
           UNCHANGED <<mainThreadJobs, posted, started>>
    PROVE  Order'
<1>1. Left' = Left
      BY DEF Left
<1> QED BY <1>1 DEF Order

\* A job is executed in place, on top of what runs.
LEMMA OrderInPlace ==
    ASSUME TypeOK, Order, NEW j \in Job, CallInPlace(j)
    PROVE  Order'
<1> DEFINE f == [kind |-> "inplace", jobs |-> <<j>>, i |-> 1, at |-> "call",
                 asynchronous |-> FALSE]
<1>1. f \in Frame /\ Push(f) /\ f.kind = "inplace"
      BY DEF CallInPlace, Frame
<1> HIDE DEF f
<1>2. /\ frames' \in Seq(Frame) /\ Len(frames') = Len(frames) + 1
      /\ frames'[Len(frames) + 1] = f
      /\ \A n \in 1..Len(frames) : frames'[n] = frames[n]
      BY <1>1, PushType
<1>3. \A n \in 2..Len(frames') : n = Len(frames) + 1 \/ n \in 2..Len(frames)
      BY <1>2, LeftFacts
<1>4. \A n \in 2..Len(frames) : n \in 1..Len(frames)
      OBVIOUS
<1>5. \A n \in 2..Len(frames') : frames'[n].kind = "inplace"
      BY <1>1, <1>2, <1>3, <1>4 DEF Order
<1>6. frames' # <<>>
      BY <1>2, EmptySeq, LeftFacts
<1>7. CASE frames = <<>>
  <2>1. frames'[1] = f
        BY <1>2, <1>7, EmptySeq
  <2>2. ~InBatch /\ ~InBatch'
        BY <1>1, <1>7, <2>1 DEF InBatch
  <2> QED BY <1>5, <2>2, OrderKept DEF CallInPlace, history
<1>8. CASE frames # <<>>
  <2>1. frames'[1] = frames[1]
        BY <1>2, <1>8, LeftFacts
  <2>2. (InBatch' <=> InBatch) /\ FirstLeft' = FirstLeft
        BY <1>6, <1>8, <2>1 DEF InBatch, FirstLeft
  <2> QED BY <1>5, <2>1, <2>2, OrderKept DEF CallInPlace, history
<1> QED BY <1>7, <1>8

\* The queue becomes a batch, which nothing runs under.
LEMMA OrderTaken ==
    ASSUME TypeOK, Order, ~Nested, RunMainThreadJobs
    PROVE  Order'
<1> DEFINE f == [kind |-> "batch", jobs |-> mainThreadJobs, i |-> 1, at |-> "next",
                 asynchronous |-> FALSE]
<1>1. f \in Frame /\ Push(f) /\ frames = <<>> /\ mainThreadJobs' = <<>>
      /\ posted' = posted /\ started' = started
      BY DEF RunMainThreadJobs, Frame, TypeOK, history
<1>2. f.kind = "batch" /\ f.jobs = mainThreadJobs /\ f.i = 1 /\ f.at = "next"
      OBVIOUS
<1> HIDE DEF f
<1>3. Len(frames') = 1 /\ frames'[1] = f /\ frames' \in Seq(Frame)
      BY <1>1, PushType, EmptySeq
<1>4. frames' # <<>>
      BY <1>3, EmptySeq, 1 # 0, Zenon
<1>5. Left = 0
      BY <1>1 DEF Left, InBatch
<1>6. InBatch' /\ FirstLeft' = 1
      BY <1>2, <1>3, <1>4 DEF InBatch, FirstLeft
<1>7. Left' = Len(mainThreadJobs)
      BY <1>2, <1>3, <1>6, LeftFacts DEF Left
<1>8. Len(mainThreadJobs') = 0
      BY <1>1, EmptySeq
<1>9. Len(posted) = Len(started) + Len(mainThreadJobs)
      /\ \A k \in 1..Len(mainThreadJobs) : posted[Len(started) + k] = mainThreadJobs[k]
      BY <1>5, LeftFacts DEF Order
<1>10. \A k \in 1..Left' : FirstLeft' + k - 1 = k
      BY <1>6, <1>7, LeftFacts
<1>11. \A k \in 1..Left' : posted'[Len(started') + k] = frames'[1].jobs[FirstLeft' + k - 1]
      BY <1>1, <1>2, <1>3, <1>7, <1>9, <1>10
<1>12. Len(posted') = Len(started') + Left' + Len(mainThreadJobs')
      BY <1>1, <1>7, <1>8, <1>9, LeftFacts
<1> QED BY <1>1, <1>3, <1>8, <1>11, <1>12 DEF Order

\* The first job that is left is begun.
LEMMA OrderBegun ==
    ASSUME TypeOK, Order, ExecuteNext
    PROVE  Order'
<1> DEFINE f == [Top EXCEPT !.at = "call", !.asynchronous = ~waits[Current]]
<1>1. frames # <<>> /\ Top.kind = "batch" /\ Top.at = "next" /\ Top.i <= Len(Top.jobs)
      BY DEF ExecuteNext, MainAt
<1>2. Len(frames) = 1 /\ Top = frames[1] /\ InBatch
      BY <1>1, BatchAtBottom
<1>3. Top \in Frame /\ Current \in Job
      BY <1>1, TopType
<1>4. SetTop(f) /\ started' = Append(started, Current) /\ posted' = posted
      /\ mainThreadJobs' = mainThreadJobs
      BY DEF ExecuteNext
<1>5. waits[Current] \in BOOLEAN
      BY <1>3 DEF TypeOK
<1>6. f \in Frame /\ f.i = Top.i /\ f.jobs = Top.jobs /\ f.at = "call" /\ f.kind = "batch"
      BY <1>1, <1>3, <1>5 DEF Frame
<1> HIDE DEF f
<1>7. Len(frames') = 1 /\ frames'[1] = f /\ frames' \in Seq(Frame)
      BY <1>1, <1>2, <1>4, <1>6, SetTopType
<1>8. frames' # <<>>
      BY <1>7, EmptySeq
<1>9. InBatch' /\ FirstLeft = Top.i /\ FirstLeft' = Top.i + 1
      BY <1>1, <1>2, <1>6, <1>7, <1>8 DEF InBatch, FirstLeft
<1>10. Top.i \in Nat \ {0} /\ Len(Top.jobs) \in Nat
      BY <1>2, <1>9, LeftFacts
<1>11. Left = Len(Top.jobs) - Top.i + 1 /\ Left' = Len(Top.jobs) - (Top.i + 1) + 1
      BY <1>2, <1>6, <1>7, <1>9 DEF Left
<1>12. Left' = Left - 1 /\ Left \in Nat /\ Left # 0 /\ Left' \in Nat
  <2>1. \A m \in Nat, n \in Nat \ {0} : n <= m =>
           /\ m - (n + 1) + 1 = (m - n + 1) - 1
           /\ m - n + 1 \in Nat /\ m - n + 1 # 0 /\ (m - n + 1) - 1 \in Nat
        OBVIOUS
  <2> QED BY <1>1, <1>10, <1>11, <2>1
<1>13. /\ Len(started') = Len(started) + 1 /\ started'[Len(started) + 1] = Current
       /\ \A k \in 1..Len(started) : started'[k] = started[k]
      BY <1>3, <1>4, AppendProperties DEF TypeOK
<1>14. \A k \in 1..Left : posted[Len(started) + k] = Top.jobs[Top.i + k - 1]
      BY <1>2, <1>9 DEF Order
<1>15. posted[Len(started) + 1] = Current
  <2>1. 1 \in 1..Left /\ Top.i + 1 - 1 = Top.i
        BY <1>10, <1>12
  <2> QED BY <1>14, <2>1 DEF Current
<1>16. \A k \in 1..Len(started') : posted'[k] = started'[k]
  <2> SUFFICES ASSUME NEW k \in 1..Len(started') PROVE posted[k] = started'[k]
      BY <1>4
  <2>1. k = Len(started) + 1 \/ k \in 1..Len(started)
        BY <1>13, LeftFacts
  <2> QED BY <1>13, <1>15, <2>1 DEF Order
<1>17. \A k \in 1..Left' : posted'[Len(started') + k] = frames'[1].jobs[FirstLeft' + k - 1]
  <2> SUFFICES ASSUME NEW k \in 1..Left'
               PROVE  posted[Len(started') + k] = Top.jobs[FirstLeft' + k - 1]
      BY <1>4, <1>6, <1>7
  <2>1. k + 1 \in 1..Left /\ Len(started') + k = Len(started) + (k + 1)
        /\ FirstLeft' + k - 1 = Top.i + (k + 1) - 1
        BY <1>9, <1>10, <1>12, <1>13, LeftFacts
  <2> QED BY <1>14, <2>1
<1>18. Len(started') + Left' = Len(started) + Left
      BY <1>12, <1>13, LeftFacts
<1>19. Len(posted') = Len(started') + Left' + Len(mainThreadJobs')
      BY <1>4, <1>18 DEF Order
<1>20. \A k \in 1..Len(mainThreadJobs') :
          posted'[Len(started') + Left' + k] = mainThreadJobs'[k]
      BY <1>4, <1>18 DEF Order
<1> QED BY <1>7, <1>16, <1>17, <1>19, <1>20 DEF Order

\* An activation that stays keeps what is left of its batch.
LEMMA OrderReplaced ==
    ASSUME TypeOK, Order, frames # <<>>, NEW f \in Frame, SetTop(f),
           f.kind = Top.kind, f.jobs = Top.jobs,
           (IF f.at = "next" THEN f.i ELSE f.i + 1)
               = (IF Top.at = "next" THEN Top.i ELSE Top.i + 1),
           UNCHANGED <<mainThreadJobs, posted, started>>
    PROVE  Order'
<1>1. /\ frames' \in Seq(Frame) /\ Len(frames') = Len(frames)
      /\ frames'[Len(frames)] = f
      /\ \A n \in 1..Len(frames) : n # Len(frames) => frames'[n] = frames[n]
      BY SetTopType
<1>2. Len(frames) \in Nat \ {0}
      BY LeftFacts
<1>3. frames' # <<>>
      BY <1>1, <1>2, EmptySeq
<1>4. \A n \in 2..Len(frames') : n \in 1..Len(frames)
      BY <1>1
<1>5. \A n \in 2..Len(frames') : frames'[n].kind = "inplace"
      BY <1>1, <1>4 DEF Order, Top
<1>6. CASE Len(frames) = 1
  <2>1. frames'[1] = f /\ frames[1] = Top
        BY <1>1, <1>6 DEF Top
  <2>2. (InBatch' <=> InBatch) /\ FirstLeft' = FirstLeft
        BY <1>3, <2>1 DEF InBatch, FirstLeft
  <2> QED BY <1>5, <2>1, <2>2, OrderKept
<1>7. CASE Len(frames) # 1
  <2>1. frames'[1] = frames[1]
        BY <1>1, <1>2, <1>7
  <2>2. (InBatch' <=> InBatch) /\ FirstLeft' = FirstLeft
        BY <1>3, <2>1 DEF InBatch, FirstLeft
  <2> QED BY <1>5, <2>1, <2>2, OrderKept
<1> QED BY <1>6, <1>7

\* An activation that is over leaves nothing of its batch.
LEMMA OrderPopped ==
    ASSUME TypeOK, Order, frames # <<>>, Pop,
           Top.kind = "inplace" \/ (Top.at = "next" /\ Top.i > Len(Top.jobs)),
           Top.kind \in {"batch", "inplace"},
           UNCHANGED <<mainThreadJobs, posted, started>>
    PROVE  Order'
<1>1. /\ frames' \in Seq(Frame) /\ Len(frames') = Len(frames) - 1
      /\ \A k \in 1..(Len(frames) - 1) : frames'[k] = frames[k]
      BY PopType DEF Pop, TypeOK
<1>2. Len(frames) \in Nat \ {0}
      BY LeftFacts
<1>3. \A n \in 2..Len(frames') : n \in 1..(Len(frames) - 1) /\ n \in 2..Len(frames)
      BY <1>1, <1>2
<1>4. \A n \in 2..Len(frames') : frames'[n].kind = "inplace"
      BY <1>1, <1>3 DEF Order
<1>5. CASE Len(frames) = 1
  <2>1. frames' = <<>> /\ Top = frames[1]
        BY <1>1, <1>5, EmptySeq DEF Top
  <2>2. ~InBatch' /\ Left' = 0
        BY <2>1 DEF InBatch, Left
  <2>3. Left = 0
    <3>1. CASE InBatch
      <4>1. Top.at = "next" /\ Top.i > Len(Top.jobs)
            BY <2>1, <3>1 DEF InBatch
      <4>2. FirstLeft = Top.i /\ Left = Len(Top.jobs) - FirstLeft + 1
            BY <2>1, <3>1, <4>1 DEF FirstLeft, Left
      <4> QED BY <2>1, <3>1, <4>1, <4>2, LeftFacts
    <3> QED BY <3>1 DEF Left
  <2> QED BY <1>4, <2>2, <2>3 DEF Order
<1>6. CASE Len(frames) # 1
  <2>1. frames'[1] = frames[1] /\ frames' # <<>>
        BY <1>1, <1>2, <1>6, EmptySeq
  <2>2. (InBatch' <=> InBatch) /\ FirstLeft' = FirstLeft
        BY <2>1 DEF InBatch, FirstLeft
  <2> QED BY <1>4, <2>1, <2>2, OrderKept
<1> QED BY <1>5, <1>6

\* Every step of the host keeps the order.
LEMMA OrderStep == ASSUME ~Nested, TypeOK, Order, [Next]_vars PROVE Order'
<1>1. ASSUME NEW t \in Background, NEW j \in Job, Enqueue(t, j) PROVE Order'
      BY <1>1, OrderPosted DEF Enqueue
<1>2. ASSUME NEW j \in Job, MainEnqueue(j) PROVE Order'
      BY <1>2, OrderPosted DEF MainEnqueue
<1>3. ASSUME NEW j \in Job, CallInPlace(j) PROVE Order'
      BY <1>3, OrderInPlace
<1>4. CASE RunMainThreadJobs
      BY <1>4, OrderTaken
<1>5. CASE ExecuteNext
      BY <1>5, OrderBegun
<1>6. CASE MethodReturns
  <2> DEFINE f == [Top EXCEPT !.at = "after"]
  <2>1. frames # <<>> /\ Top \in Frame /\ Top.at = "call" /\ SetTop(f)
        BY <1>6, TopType DEF MethodReturns, InMethod
  <2>2. f \in Frame /\ f.i = Top.i /\ f.jobs = Top.jobs /\ f.at = "after" /\ f.kind = Top.kind
        BY <2>1 DEF Frame
  <2> HIDE DEF f
  <2> QED BY <1>6, <2>1, <2>2, OrderReplaced DEF MethodReturns, history
<1>7. CASE AfterExecute
  <2> DEFINE f == [Top EXCEPT !.at = "next", !.i = @ + 1]
  <2>1. frames # <<>> /\ Top \in Frame /\ Top.at = "after" /\ SetTop(f)
        BY <1>7, TopType DEF AfterExecute, MainAt
  <2>2. f \in Frame /\ f.i = Top.i + 1 /\ f.jobs = Top.jobs /\ f.at = "next" /\ f.kind = Top.kind
        BY <2>1, Top.i + 1 \in Nat \ {0} DEF Frame
  <2> HIDE DEF f
  <2> QED BY <1>7, <2>1, <2>2, OrderReplaced DEF AfterExecute, history
<1>8. CASE BatchDone
      BY <1>8, OrderPopped DEF BatchDone, MainAt, history
<1>9. CASE InPlaceDone
      BY <1>9, OrderPopped DEF InPlaceDone, MainAt, history
<1>10. ASSUME UNCHANGED <<mainThreadJobs, frames, posted, started>> PROVE Order'
      BY <1>10 DEF Order, Left, InBatch, FirstLeft
<1>11. ASSUME NEW t \in Background, Signal(t) \/ Collect(t) PROVE Order'
      BY <1>10, <1>11 DEF Signal, Collect, history
<1>12. CASE Exit \/ LoopEnds \/ UNCHANGED vars
      BY <1>10, <1>12 DEF Exit, LoopEnds, vars, history
<1> QED BY <1>1, <1>2, <1>3, <1>4, <1>5, <1>6, <1>7, <1>8, <1>9, <1>11, <1>12
        DEF Next, Caller, MainStep

\* Initially nothing is queued and nothing runs.
LEMMA OrderInit == Init => Order
  BY EmptySeq DEF Init, Order, Left, InBatch

\* What has been begun are the first of what has been queued.
LEMMA OrderShows == TypeOK /\ Order => QueueOrder
<1> SUFFICES ASSUME TypeOK, Order PROVE SubSeq(posted, 1, Len(started)) = started
    BY DEF QueueOrder
<1>1. posted \in Seq(Job) /\ started \in Seq(Job) /\ Len(started) <= Len(posted)
      BY LeftFacts DEF TypeOK, Order
<1>2. \A k \in 1..Len(started) : k \in 1..Len(posted)
      BY <1>1
<1>3. \A k \in 1..Len(started) : posted[k] \in Job
      BY <1>1, <1>2, ElementsOf
<1>4. /\ SubSeq(posted, 1, Len(started)) \in Seq(Job)
      /\ Len(SubSeq(posted, 1, Len(started)))
            = IF 1 <= Len(started) THEN Len(started) - 1 + 1 ELSE 0
      /\ \A k \in 1..(Len(started) - 1 + 1) :
            SubSeq(posted, 1, Len(started))[k] = posted[1 + k - 1]
      BY <1>1, <1>3, SubSeqProperties
<1>5. Len(SubSeq(posted, 1, Len(started))) = Len(started)
      BY <1>1, <1>4
<1>6. \A k \in 1..Len(started) : SubSeq(posted, 1, Len(started))[k] = started[k]
      BY <1>1, <1>4 DEF Order
<1> QED BY <1>1, <1>4, <1>5, <1>6, SeqEqual

\* Jobs are begun in the order they were queued, whoever queued them and whatever
\* is executed in place meanwhile, unless a modal loop dispatches jobs from
\* inside a job.
THEOREM BegunInOrder == Spec => []QueueOrder
<1>1. Init => TypeOK /\ (~Nested => Order)
      BY TypeInit, OrderInit
<1>2. TypeOK /\ (~Nested => Order) /\ [Next]_vars => (TypeOK /\ (~Nested => Order))'
      BY TypeNext, OrderStep
<1>3. TypeOK /\ (~Nested => Order) => QueueOrder
      BY OrderShows DEF QueueOrder
<1> QED BY <1>1, <1>2, <1>3, PTL DEF Spec
=============================================================================
